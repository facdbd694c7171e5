# A verification development for uvfs

uvfs 2.0.6 is a Linux kernel module. It lets a user-space program, the
*server*, implement a file system. The module turns VFS calls into
*transactions*, hands them to the server through one device file
(`/proc/fs/pmfs`), and puts the calling task to sleep until the server answers.
Above that conduit it caches pages, attributes and names.

This directory holds TLA+ modules for the parts of the module that have state
worth arguing about, the TLC configurations that check them, and TLAPS proofs
about each of them. `PROJECT.json` lists every run, property, mutant, mapped
definition, finding, hazard and theorem.

## 1. The system

| part | source | state | operations |
|---|---|---|---|
| conduit | `driver.c`, `uvfs.h` | `Uvfs_requests`, `Uvfs_replies`, `uvfs_use_count`, `Serial_number`, `ShuttingDown`, the wait queue of readers; per transaction `serial`, `in_use`, `abort`, `answered`, the union `u`, `fs_queue` | `uvfsd_open`, `uvfsd_release`, `uvfsd_read`, `uvfsd_write`, `uvfsd_ioctl`, `uvfs_new_transaction`, `uvfs_make_request`, `kfree` |
| regular files | `file.c` | pages and their flags and locks, `i_size`, `i_mutex` | read, write, mmap, `uvfs_readpage`, `uvfs_writepage`, `uvfs_write_begin`, `uvfs_write_end`, `uvfs_setattr`, `uvfs_getattr` |
| attribute refresh | `super.c` | `i_size`, `i_mtime`, `i_nlink`, modes, owners, `attr_uid` | `uvfs_iget`, `uvfs_refresh_inode`, `uvfs_revalidate_inode` |
| directories | `dir.c` | the dentry cache, link counts, directory mutexes | `uvfs_lookup`, `uvfs_dentry_revalidate`, create, symlink, mkdir, unlink, rmdir, rename, readdir |
| permission | `dir.c` | reads mode, owner and `attr_uid` | `uvfs_permission` |
| symbolic links | `symlink.c` | none | `uvfs_readlink`, `uvfs_follow_link` |
| NFS export | `super.c` | the inodes in memory, the handles NFS clients keep | `uvfs_encode_fh`, `uvfs_fh_to_dentry`, `uvfs_fh_to_parent`, `uvfs_get_dentry`, `uvfs_get_parent` |
| mount, statfs | `super.c` | super block | `uvfs_read_super`, `uvfs_statfs` |
| load, unload | `driver.c`, `super.c` | registrations, inode cache | `uvfs_init`, `uvfs_cleanup` |
| `uvfs_signal` | `uvfs_signal.cc` | none | asks for a shutdown through the ioctl |

How they interact: every operation on a file, directory or link makes one or
more requests through the conduit, one at a time for each task. The file and
directory parts share the attribute refresh. The server and the VFS are not in
this repository; the modules have of them what the code relies on, and mark it
external in the map.

What is hard here:

* One spin lock (`Uvfs_lock`) protects the lists, but the copies to and from
  user space, the conditions of `wait_event` and one last read of
  `request->size` run without it, and a caller may be killed at any of these
  moments and free its transaction.
* Readers sleep on an exclusive wait queue. Each event wakes one of them, and
  a chain of wake-ups carries the rest.
* The server may die and another may start at any time, with requests unread,
  read, or half answered.
* The page cache and the inode's attributes are compared and replaced with no
  lock held, while other tasks read, write and truncate.
* Names are revalidated without the directory's mutex while other tasks
  create, remove and rename them.
* A server may show every user different attributes of one inode, and the
  inode has room for those of one user.

## 2. The modules

| module | models | kind |
|---|---|---|
| `UvfsDriver` | the conduit, all of `driver.c` that changes state | specification, safety |
| `UvfsServer` | the same with fairness | liveness |
| `UvfsCall` | what the conduit promises to a file operation | abstract specification |
| `UvfsDriverCall` | the mapping from `UvfsDriver` to `UvfsCall` | refinement |
| `UvfsFile` | one regular file: pages, attributes, the server's copy | specification, safety, liveness |
| `UvfsDir` | directories of names, dentry cache, link counts | specification, safety |
| `UvfsOps` | what every file operation does with the conduit, `UvfsCall` | building block |
| `UvfsReaddir` | `uvfs_readdir` over one open directory | specification, safety |
| `UvfsExport` | the inode cache, mounting, NFS handles, statfs, symbolic links | specification, safety |
| `UvfsPermission` | `uvfs_permission` and the refreshes it races with | specification, safety |
| `UvfsMounted` | the last three over one conduit | composition, safety, liveness |
| `UvfsDriverInv`, `UvfsFileInv`, `UvfsDirInv`, `UvfsMountedInv` | the inductive invariants | invariants |
| `UvfsDriverThreads`, `UvfsDriverProofs`, `UvfsFileProofs`, `UvfsFileFresh`, `UvfsDirProofs`, `UvfsDirLinks`, `UvfsMountedCalls`, `UvfsMountedProofs` | | proofs |
| `MCUvfsDriver`, `MCUvfsServer`, `MCUvfsFile`, `MCUvfsDir`, `MCUvfsMounted` | small instances | model checking |

### UvfsDriver

A *caller* is a task inside a file operation; a *thread* is a holder of an open
descriptor. A task has one transaction at a time, so a transaction is named by
its caller, and its memory is the caller's slot. A critical section of
`Uvfs_lock` is one action; whatever runs outside the lock is an action of its
own.

| code | actions |
|---|---|
| `uvfs_new_transaction` | `uvfs_new_transaction` |
| `uvfs_make_request` | `make_request_refused` or `make_request_queued`; `wait_answered` (each poll of the interruptible wait); `check_signal` (the second critical section); `wait_unused` (each poll of the second wait); `finish_abort` |
| `kfree(trans)` | `kfree_trans` |
| `uvfsd_open`, `uvfsd_release` | `uvfsd_open`, `uvfsd_release_other`, `uvfsd_release_last` |
| `uvfsd_read` | `read_sleep`, `read_shutdown`, `read_shutdown_done`, `read_take`, `read_copied`, `read_return`, `read_interrupted` |
| `uvfsd_write` | `write_take`, `write_unmatched`, `write_copied` |
| `uvfsd_ioctl` (shutdown) | `uvfsd_ioctl_shutdown` |
| signals, exits | `Kill`, `Exit`, `Interrupt` |

The union `u` is abstracted to what its caller could make of it: its own
request, an error of the driver, the reply to somebody's request, or the rest
of a faulting copy. `jobs` is what the server has read and not yet answered.
The server answers each job at most once. It may forget one or die; a closed
last descriptor takes its jobs along.

Three history variables guard nothing. `outdated` has the callers numbered
before the last reset of `Serial_number`. `dangling` has the threads whose
transaction was freed while they pointed to it. `tainted` becomes true when one
of two known defects has struck: an outdated transaction is queued, or a thread
writes to a transaction that was freed. Behind that point memory may hold
anything, so the properties that speak of contents say `~tainted =>`, and the
runs that check them do not explore further.

### UvfsServer

Adds fairness to `UvfsDriver`. See section 4.

### UvfsCall

The conduit as a file operation sees it. A transaction is free, built, queued,
taken by the server, decided or returned; its result is the server's reply to
this very request, given after the server took it, or `EIO`, or, for a killed
caller, `ERESTARTSYS`. Lists, wait queues, serial numbers and threads do not
show. Two weak spots of the code are part of the promise: the reply may still
arrive after a killed caller has its `ERESTARTSYS` (`late`; a killed caller
waits for `in_use` without the lock and does not look again under it), and
nothing is promised any more once `spoilt`, which is `tainted` of `UvfsDriver`.

`UvfsDriverCall` has the mapping. `KeepsPromise` says that `UvfsDriver`
implements `UvfsCall`; TLC checks it and TLAPS proves it.

### UvfsFile

One file of a few pages, each of `PageSize` blocks. Data is told apart by the
change that wrote it. A request is one step in which the server carries it out,
and a later step in which the task goes on with the reply; in between anything
may happen. `uvfs_refresh_inode` is four steps (compare, drop each page, assign
the size, assign the mtime), because it holds no lock. The generic read and
write loops, page locks and `i_mutex`, `vmtruncate` and
`invalidate_inode_pages2` are external and follow the kernels the code is built
for (2.6.32). One write lies within one page.

With `Mapped`, processes have the file mapped from the start: a page fault
reads a page through `uvfs_readpage` without a revalidation, `Store` changes a
block of an up-to-date page and makes the page dirty, and `uvfs_writepage`
writes a dirty page back, in one step that locks the page and builds the request
and two for the request and the unlock. `uvfs_file_mmap` itself only
revalidates.

Failures are chosen by `Errors`: a kind of request may fail, carried out or not
as far as that can be told apart, and `"nomem"` lets memory run out where the
code treats that differently from a failed request. `inode_change_ok` and
`inode_setattr` failing leave everything as it was, and have no action.

`past`, `since`, `beside` and `lost` record history for `ReadFresh` and
`Coherent` and guard nothing. `past` has the server's data after each change and
`since` the change that was the last when a call began. `beside` has what writes
and truncations that overlap a read put into its page ahead of the server. `lost`
has the pages of which `uvfs_writepage` let go of a part, the one behind the end
of the file.

### UvfsDir

The server's directories (`ns`), the hashed dentries above them (`dcache`), the
link counts of in-core inodes, and tasks that walk, stat, create, remove and
rename. `uvfs_dentry_revalidate` runs without the mutex, `uvfs_lookup` and the
changing operations under it, on the dentry the VFS looked up under the same
mutex. There are no hard links, as the module has no `link` operation.

`where` follows the dentry a task holds when it is dropped or moved under the
task's feet. `uvfs_dentry_revalidate` does not ask about the name the walk came
for: it asks about the parent and the name the dentry has when it reads them.
The parent is read first (`dget_parent`) and the name later (`d_name`), and
`asks` has what was read. A rename that ends before or between the two changes
them, so a walk may ask about the new name or about one made of both. The name
itself is read in one step; a copy taken half before and half after `d_move` is
not modelled. It would be one more name that a renamed dentry is asked about, and
`FoundIsThere` below allows for the dentry already.

A cache hit and the read of `d_inode` that follows it are one step. A dentry that
another task holds never loses its inode, so only a negative dentry that becomes
positive between the two is left out; the walk drops it or revalidates it.

After it has waited for the mutex the VFS looks at the cache again; a dentry
found there that does not survive its revalidation is looked up anew. Some older
kernels return `ENOENT` in that case, which is not modelled.

### UvfsOps, UvfsReaddir, UvfsExport, UvfsPermission, UvfsMounted

These operations use the conduit as `UvfsCall` describes it, not as `UvfsDriver`
does: `begin` allocates and builds, `make_request` is the caller's side of
`uvfs_make_request`, `finish` frees. What the server answers is found at the
moment it answers, and the operation goes on later. `UvfsCall` has no reply
that was copied in part, so these operations do not see what a faulting `write`
of the server leaves in the union; `UvfsDriver` does.

| module | state | actions |
|---|---|---|
| `UvfsReaddir` | `f_pos`, the entries at the server, the directory's mutex; history of the listing | `vfs_readdir`, then for every reply `readdir_error`, `readdir_end` or `readdir_fill`, then `readdir_more` or `readdir_nomem` |
| `UvfsExport` | the handles of the inodes in memory, the objects at the server, the handles of NFS clients | `uvfs_read_super`, `lookup`, `uvfs_get_parent`, `uvfs_encode_fh`, `uvfs_fh_to_dentry`, `uvfs_fh_to_parent` (both through `uvfs_get_dentry`), `uvfs_statfs`, `uvfs_readlink`, `uvfs_follow_link`; `iget_done` and its kin for the reply; `Evict`, `umount` |
| `UvfsPermission` | mode, owners and `attr_uid` of one inode, what the server shows each user | `permission_enter` (reads the mode), `permission_check` (tests `attr_uid`), `permission_reply`, `permission_decide`; `refresh_mode` and `refresh_owner`, the first and the last stores of `uvfs_refresh_inode` |

`uvfs_permission` reads `i_mode` into two variables in a row, one for the
question whether anybody may execute the file and one for the class of the user;
that is one read here. In the same way `uvfs_writepage` reads `i_size` twice in a
row, and `UvfsFile` once.

A handle has the three fields that identify an object and the mount id that only
the server's own handles carry. A mode carries the user it was fetched for, as
history. `raced` and `torn` record checks and attributes that overlapping
refreshes have spoilt.

`UvfsMounted` composes the three. The workloads (`work`: a listing, the inodes,
the links, the permissions) share the conduit and nothing else in the code, so a
behaviour has one of them. `follow_link` keeps its transaction while it walks
along the link (`walking`), as the code does; the requests of that walk are not
made in the model, and it may end at any time.

## 3. What TLC checks

Bounds: two callers, or two tasks, are the fewest that can get each other's
results; two threads are the fewest with one copying while the other writes, and
three the fewest with a chain of wake-ups that could break in the middle.
`MaxSerial = 2` numbers both callers between two closes, and closes are not
bounded, so numbers are used again. `MaxChanges` and `MaxRemote` bound changes,
never calls that only read. A page of two blocks can be written in part; a file
of one page keeps two tasks on the same page. Three entries and buffers for one
or two of them cut a listing in the middle of a reply and at its end. The tree
of three objects has a directory and a file with the same hash, and one NFS
handle outlives evictions and unmounts. `Killable` has one task of two, so that
a killed one meets one that is not.

| run | states | what it shows |
|---|---|---|
| `driver_safety` | 562 k | with kills, signals, faults, crashes and restarts: nothing lost, doubled or misdelivered (`OnePlace`, `SerialMatches`, `RightReply`, `AnswerStands`), `in_use` exact (`InUseExact`), no copy out of freed memory (`CopyOutLive`), no lost wake-up of a caller (`NoLostCaller`), the inductive invariant `IInv`, and the promise of `UvfsCall` (`KeepsPromise`) |
| `server_answers` | 85 k | three threads, no kills: every queued request returns (`EveryRequestReturns`) and nothing is used after it was freed (`NoKillNoDangling`) |
| `server_kernel` | 132 k | whatever the server does: no lost wake-up of a reader (`NoLostReader`), nothing left over after the last close (`ClosedIsEmpty`), which releases every waiting caller (`CrashReleasesCallers`), a killed caller returns (`KilledReturns`), a shutdown reaches every sleeping reader (`ShutdownReachesAll`) |
| `file_pages` | 1.7 M | pages that a refresh would keep are the server's (`Coherent`), a read returns what the server had since the read began (`ReadFresh`), locks are held exactly where the code holds them (`LocksExact`), what a write copied is at the server when the write ends (`WrittenThrough`), and the inductive invariant `FileInv` |
| `file_returns` | 509 k | every call on a file returns, whichever requests fail (`CallsReturn`); with writes of whole pages no read returns a page as it was allocated (`NoJunkRead`) |
| `dir_names` | 1.5 M | a name found was there, and one said not to exist was absent, at some time of the walk (`FoundIsThere`, `MissingIsAbsent`), but for what a rename took away during it; the dentry cache is exact as long as only this machine makes changes and nothing fails (`DcacheExact`); the inductive invariant `DirInv` |
| `dir_links` | 13 k | link counts adjusted by hand are the server's, one task at a time (`NlinkExact`), and the inductive invariant `LinkInv` |
| `mounted` | 332 k | a listing has every entry once (`ListedOnce`), an object has one inode (`OneInode`), a handle is called stale only if its object is gone (`StaleMeansGone`), a check uses a mode shown to its own user (`OwnMode`), no transaction is leaked (`NoLeak`), every operation returns (`OpsReturn`), and the inductive invariant `OpsInv` |

Deadlock is not checked where the system really may stop: in the driver runs
all callers may wait for a server that does nothing, and numbers run out at
`MaxSerial`; in the file runs a page may stay locked (below). `driver_safety`
does not go beyond a tainted state.

### What the code does not keep

Four runs are expected to end in a counterexample.

| run | what happens |
|---|---|
| `driver_freed` | `uvfsd_read` reads `request->size` after it has cleared `in_use` and dropped the lock; a killed caller frees the transaction in between |
| `driver_stale_serial` | a transaction numbered before the last close and queued after the next open shares its serial number with a new one, and gets its reply |
| `server_lost_wakeup` | a reader woken for a request and interrupted by a signal takes the wake-up away with it |
| `file_junk` | a partial write to a page that is not cached marks the whole page up to date, and a read returns the rest as it was allocated |

Other weak spots are stated in the properties, as what they except:

* `RightReply`, `SerialMatches` and their kin: behaviours with an outdated or a
  freed transaction (`tainted`).
* `Coherent` and `ReadFresh` are checked with writes and truncations the server
  accepts. A refused write or truncation has changed the page cache already, and
  stays there. They except pages with stores that were not written back, which
  `invalidate_inode_pages2` keeps and `uvfs_refresh_inode` does not ask about:
  the inode gets the new mtime, and the page hides what changed at the server
  until it is written over it. And they except pages with data behind the end of
  the file, which `uvfs_writepage` lets go of and marks up to date.
* `WrittenThrough`: writes the server refuses. `uvfs_write_end` does not look at
  what `uvfs_commit_write` returns, and reports the bytes copied.
* `LocksExact` and `CallsReturn`: a page that `uvfs_readpage` leaves locked when
  no transaction can be allocated is nobody's for ever.
* `MissingIsAbsent`: a walk whose last lookup failed. `uvfs_lookup` makes a
  negative dentry of any failure.
* `FoundIsThere`: killed tasks, and mount points, which are not revalidated. And
  a walk that begins after the server has carried out a rename of this machine
  and before `d_move` has made it in the cache: it finds the dentry under the old
  name, asks about the new one if `d_move` comes first, and returns an object
  that the server did not have under the old name at any time of the walk. So a
  walk may also return what the cache had under its name until a rename ended
  during the walk, and nothing else.
* `NlinkExact`: a refresh by another task between the server's reply to a removal
  and the adjustment counts the removal twice, until the next refresh.
* `ListedOnce`: a call that fails after it has filled in entries returns the
  error alone, with `f_pos` behind entries the user never gets. (Kernels from
  2.6.28 on hand out the entries filled in so far in place of the error.)
* `OwnMode`: a check that overlaps a refresh by a task of another user, or that
  comes after two refreshes at once, may use a mode that was shown to somebody
  else, because mode and `attr_uid` are read and written with no lock. The class
  of the user (owner, group, other) comes from the owners in the inode, whoever
  they were fetched for, also when the mode was asked for.

### Mutants

For each property of a passing run one definition of the model has a mutated
form (a dropped wake-up, a missing unlock, a reply matched to the wrong
transaction, an unchecked error), and TLC finds the property violated with it.
They stand next to the definitions they change and are named after them.

## 4. Fairness

`UvfsServer` has two specifications.

* `KernelSpec` assumes only that a task inside the driver that is not asleep
  goes on: weak fairness for the steps of `uvfs_make_request`, for the `kfree`
  that ends every operation, and for a thread inside `read` or `write`. The
  kernel's scheduler gives that. `CrashReleasesCallers`, `KilledReturns` and
  `ShutdownReachesAll` need no more.
* `ServedSpec` adds a server that works: threads that no signal can end open
  the device and read whenever they may, what was read is answered, and the
  server never lets all its threads block in `read` while it holds requests.
  That is what a server must do for a caller to get an answer at all; the code
  promises `EveryRequestReturns` only with it.

`UvfsFile.FairSpec` has strong fairness for the steps of a task, because page
locks and `i_mutex` are granted to their waiters in turn. It also assumes that
each request returns, which is what `UvfsServer` is about.

`UvfsMounted.FairSpec` has weak fairness for each task together with the server
that works for it: a task in an operation goes on, and a request that was queued
is read and answered while the device is open, which `EveryRequestReturns` shows
of the conduit with a server that works. An operation waits for one of the two
at a time, so one condition for both is enough. Nothing is assumed of kills,
closes, changes at the server, or of calls being made.

## 5. What is proved

### The conduit

For any sets of callers and threads, and any choice of who may be killed,
interrupted or faulted, TLAPS proves of `UvfsDriver`:

`TypeOK`, `ClosedIsEmpty`, `OnePlace`, `InUseExact`, `CopyOutLive`,
`NoLostCaller`, `SerialMatches`, `RightReply`, `NoKillNoDangling` as invariants,
`AnswerStands` as an action property, `NoLostReader` as an invariant when no
reader can get a signal, and that `UvfsDriver` implements `UvfsCall`
(`KeepsPromise`).

The assumptions are those of `DriverConstants`: the set of threads is finite,
the sets of special callers and threads are subsets, `NULL` is no caller, and
`MaxSerial` is a natural number.

The argument. The properties are not inductive: `RightReply` says nothing of why
the reply a server is about to write belongs to the transaction it will be
matched with. `IInv` says where the claim to a transaction is:

* it is on one list, or one thread points to it, or it is answered
  (`ListInv`, `PtrInv`);
* the claim to answer it is in at most one job, which has its serial number
  (`JobsInv`), and serial numbers tell live transactions apart (`SerialInv`);
* `in_use` is set exactly while a thread that points to it copies (`UseInv`);
* a caller is where its flags say it is (`CallerInv`), and the union holds what
  its progress says (`ContentInv`);
* only a killed caller leaves a thread with a freed transaction (`KillInv`).

Together these are `Conduit`. They hold until `tainted`, so `IInv` is
`Frame /\ (tainted \/ Conduit)`. `Frame` holds whatever happens, even with a
freed transaction written to: types, the wait queue, the threads' pointers, and
`ClosedIsEmpty`.

For the refinement each step of `UvfsDriver` is shown, from `IInv`, to be one of
three things under the mapping: a step of one caller's call (the transaction is
allocated, refused, queued, taken, answered, withdrawn or freed), the `close`
that decides every pending request, or a step that changes neither status nor
result of any caller. Once tainted, every step is `Undefined`.

### Regular files

For any sets of tasks, any number of pages, of blocks in a page and of changes,
and any choice of requests that fail, TLAPS proves `TypeOK` and `LocksExact` of
`UvfsFile`. `ReadFresh` and `Coherent` are proved under `WritesReach`: no write
and no truncation fails, and no write copies nothing. The condition is that of
the run `file_pages`, and it is needed. A write or a truncation that the server
refuses has changed the page already, and nothing takes it back. A write that
copies nothing (the user's buffer is not there) makes a page uptodate that was
never filled. Failing reads, failing refreshes and short copies are all in.

The assumptions are `FileConstants` (sizes lie within the file, `Ranges` are
ranges of one page) and `NullIsNothing` (`NULL` is no operation).

Neither property carries itself. `Coherent` speaks of an inode that has the
server's mtime, and a refresh is about to give it that mtime after it has walked
over the pages. So `FileInv` follows the refreshes:

* `PlaceInv`, `ReplyInv`: the program counter tells the operation, and the reply
  in hand is what the server had at a time since the call began;
* `PageInv`: a page that a refresh with the server's present mtime has passed
  (`FreshSince`) holds the server's data but for what a write or a truncation
  under way puts there ahead of it (`AheadIn`); who is filling it has the
  server's data, and no write to it is past its request;
* `WritebackInv`: the request of `uvfs_writepage` has what the page has, unless
  the page was stored to since;
* `ReaderInv`: the same as `PageInv` for the page of a reader, with data since
  the read began in the place of the server's present data.

`PageInv` is why the unlocked refresh is safe: it compares, drops pages one by
one and assigns the mtime last, so that the mtime vouches only for pages dropped
or filled after the reply was made.

Two more results need no `WritesReach`.

`WrittenThrough` is proved with no assumption but the property's own, that no
write request fails. Its invariant `ThroughInv` says that the page holds what is
being written from the copy to the request, or what was stored to it later, and
that the server has had it once the request is answered. The page lock is what
keeps refreshes, fills and write-back away, `i_mutex` what keeps truncations and
other writes away, so the proof uses `LocksExact`. A store through a mapping
takes neither, which is why the property allows the value of a later change.

`NoJunkRead`, which the run `file_junk` shows violated, is proved under
`WholePages`: all writes are of whole pages. Requests may fail and copies may be
short (`uvfs_write_end` clears the rest of the page). So the write to a part of a
page that was never filled is the only way that a reader gets a page as it was
allocated. The invariant `JunkInv` follows the data round: uptodate pages, the
server's file, replies on their way into a page and pages on their way out of
the cache hold none of it.

### Directories

For any sets of tasks, directories, names and inodes, any number of changes at
the server and any failures, TLAPS proves `TypeOK`, `FoundIsThere`,
`MissingIsAbsent` and `DcacheExact` of `UvfsDir`. The assumptions are
`DirConstants` and `DirMarks` (`NULL` is neither a task nor an inode, and the
marks of a dentry with no inode are not inodes).

`DcacheExact` says nothing of a directory whose mutex is held, so it is not
inductive. `DirInv` says what holds meanwhile: who holds which mutex
(`MutexInv`); that the dentry a change works with is still hashed under its name,
or was dropped and nobody hashed another one there (`WhereInv`, which is what
the unlocked `d_drop` of `uvfs_dentry_revalidate` could break); that what was
looked up under the mutex is still what the server has (`CalmInv`); and that the
cache is right about every name but those whose change is at the server already
and about to be made in the cache (`Changing`). `FoundIsThere` and
`MissingIsAbsent` need that a reply in hand was true since the walk began
(`ReplyInv`). For a revalidation the reply is about `asks`, not about the name
walked to, so `WhereInv` also says that the two are the same unless a rename took
the dentry away during the walk, which is the exception of `FoundIsThere`. The
lemmas `WhereMoves` and `WhereGoes` have what a rename and a new dentry do to the
tasks that hold the old one. The run `dir_names` has one directory; the proof
covers names made of the parent in one and the name in another.

`NlinkExact` is proved for one task at a time (`OneTask`), as long as no request
fails and nobody else changes the directories (`calm`); with a second task the
code does not keep it (section 3). The counts are adjusted after the server has
made the change, by what the code believes was there, so the invariant `LinkInv`
speaks of the directories before the change: while an operation has its reply and
has not finished (`Pending`), the counts are exact for `Before`, and otherwise
for the server's present directories. For `uvfs_rename`, which adjusts up to
three counts, `LinkInv` also says that the dentries it works with are what the
server has under the two names (`CountInv`). The count of a directory is
`2 + Cardinality` of its subdirectories; that a change adds or takes away exactly
one needs that there are no hard links and that directories are finite (`Tree`),
which is kept by every change, failed or not.

### The operations

For any sets of tasks, objects, users and entries, any kills and closes, and with
or without memory, TLAPS proves of `UvfsMounted`: `TypeOK`, `NoLeak`, `OneInode`,
`StaleMeansGone`, `OwnMode` and `ListedOnce` as invariants. The assumptions are
`OpsConstants`, `ReaddirConstants` (a call has room for an entry: the VFS fails
one that has not), `ExportConstants` (among them that an object and its directory
are in one archive, since `uvfs_encode_fh` stores one `na_aruid` for the two) and
`PermissionConstants` (there are a task and attributes to begin with).

The inductive invariant `OpsInv` has these parts besides `TypeOK`. `CallInv` ties
the kind of an operation to the status of its transaction. `ListInv` says that
what has been handed out lies before `f_pos`, in order, and has every entry
before `f_pos` that was there all the time, as long as no call has failed with
entries filled in; and that a reply to a readdir continues at the position it was
asked for, with nothing left out. `ExportInv` says that no two handles in the
inode cache compare equal, that a kept handle decodes to its object and to its
object's directory, that a reply without error names what was asked for, and that
a `get_dentry` whose object is gone, or was reported gone, is among the `missed`.
`ModeInv` says that the mode in the inode is that of `attr_uid` unless a refresh
is under way or has been torn, and follows a check from its first read to its
decision. `NamesInv` says that requests and handles name objects. The properties
do not carry themselves: `OneInode` needs the decoded handles and the replies
under way, `OwnMode` the inode that the next check will read, and `ListedOnce`
the reply that the loop of `uvfs_readdir` has not copied out yet.

The reply of the server to a readdir (`ServedEntries`) is given by what it must
satisfy: entries from `entry_no` on, rising, with none left out, and at least one
if there is one.

### The proof modules

| proof module | content |
|---|---|
| `UvfsDriverThreads` | lists and wait queues; every action of a thread keeps `Conduit` |
| `UvfsDriverProofs` | every action of a caller keeps `Conduit`; every action keeps `Frame`; `use_count` counts descriptors (cardinalities); `ClosedIsEmpty`; `Spec => []IInv`; each property from `IInv`; `AnswerStands`; `NoLostReader`; `Spec => KeepsPromise` |
| `UvfsFileProofs` | types, locks, and where every task is, for every action; `TypeOK`, `LocksExact`; every action keeps `JunkInv`; `NoJunkRead` |
| `UvfsFileFresh` | every action keeps `PageInv`, `WritebackInv` and `ReaderInv`; `FileInv`, `ReadFresh`, `Coherent`; every action keeps `ThroughInv`; `WrittenThrough` |
| `UvfsDirProofs` | every action keeps `DirInv` and `TypeOK`; each property from them |
| `UvfsDirLinks` | what a change does to the set of subdirectories and its cardinality; every action keeps `LinkInv`; `NlinkExact` |
| `UvfsMountedCalls` | every action keeps `CallInv`, `ModeInv` and `ListInv` |
| `UvfsMountedProofs` | every action keeps `ExportInv`, `NamesInv` and `TypeOK`; `Spec => []OpsInv`; each property from it |

Only model-checked: the liveness properties `EveryRequestReturns`,
`CrashReleasesCallers`, `KilledReturns`, `ShutdownReachesAll`, `CallsReturn` and
`OpsReturn`: they need fairness and `ENABLED`, which the prover does not handle.

## 6. Not modelled

* Module load and unload (`uvfs_init`, `uvfs_cleanup`, `uvfs_init_inodecache`):
  a straight sequence of registrations with no other actor of this module in it.
  An error in the last of them leaves the earlier ones in place.
* `operations.c`, which is constant tables, and the layouts and sizes of
  messages in `protocol.h`.
* Two changes at the server within one tick of its clock: every change has its
  own mtime in the model, and a coarser clock defeats any cache that goes by it.
* The wrap of `Serial_number` at 2^32: a request would have to stay unanswered
  for 2^32 others.
* Checks that return before any state is touched: sizes at the start of
  `uvfsd_read` and `uvfsd_write`, names that are too long, mount options.
* The ioctls that only read state.
* The variants for kernels before 2.6.32 (`uvfs_decode_fh`, `d_alloc_anon`),
  which convert and return the same.
* Changes of mode, owner and times by `uvfs_setattr`; stores to the part of the
  last page behind the end of the file; the kernel's own write-back errors.
* `d_alloc_root` failing is in `UvfsExport` (`rootless`), but not what the VFS
  does with a file system that has no root.
