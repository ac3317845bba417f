# Verification of the Shield TV boot tree

TLA+ models, TLC runs and TLAPS proofs kept beside the code. `PROJECT.json` is
the machine-readable index: for every definition the source lines it models,
for every run its properties, for every property a mutation of the model that
breaks it, and the hazards of the code the properties are aimed at.

## The system

The repository is the source of an Android boot image (Nvidia Shield TV): well
over a million lines, most of them imported libraries.

| part | where | what it does |
| --- | --- | --- |
| libc threads | `bionic/libc/bionic/pthread_*.cpp`, `semaphore.cpp`, `private/bionic_lock.h` | locks, conditions, semaphores, thread life cycle, thread-specific data, all on the `futex` system call |
| libc properties | `bionic/libc/bionic/system_properties.cpp` | a memory area shared by every process; `init` writes, everybody reads without a lock |
| other libc, libm, linker stubs | `bionic/` | strings, stdio, DNS, math, system-call wrappers |
| init | `system/core/init` | process 1: services, triggers, property service, uevents |
| adb, libutils, fs_mgr, healthd, ... | `system/core` | daemons and support libraries |
| recovery | `bootable/recovery` | updates after a restart: bootloader control block, block images, patches |
| graphics and binder | `frameworks/native` | buffer queues, SurfaceFlinger, IPC |
| third party | `external/` | jemalloc, zlib, SELinux, libc++, ... |
| build, device, vendor | `build`, `device`, `vendor` | makefiles, scripts, configuration |

The project covers the parts whose difficulty is in what a test hardly reaches:
interleavings of threads in the libraries every process uses, and power cuts and
errors in the code that changes the system itself.

## How the parts interact

- `Lock` and the futex wrappers are used by the other primitives:
  `pthread_rwlock` guards its pending members with a `Lock`, `pthread_cond_wait`
  releases and takes a `pthread_mutex_t`, the thread list is guarded by a normal
  mutex. `LockSpec` states what such a user relies on (at most one holder, taken
  only when free); `BionicLock` and `NormalMutex` are shown to implement it, and
  `PthreadCond`, `PthreadRwlock`, `ThreadLifecycle` and `ProxyTable` use a lock at
  that level.
- `pthread_exit` runs the destructors of `PthreadKey` before the steps that
  `ThreadLifecycle` models; the two share no other state.
- `ProcessState` keeps bare pointers to binder proxies, which are `RefBase`
  objects of extended lifetime: `ProxyTable` models the table with as much of the
  counts as a lookup meets, `RefBase` the counts themselves.
- Recovery starts a package's update binary, and restarts it after a power cut.
  Its comment says what it relies on: "the package install must itself be
  restartable from any point". `UpdateSpec` states this; `BlockImage` and
  `Applypatch` are shown to implement it, and `Recovery` uses a package at that
  level, taking the steps of `UpdateSpec` as its own.
- `init` reboots into recovery when a critical service keeps crashing;
  `InitService` ends there.

## Modules

| module | models | state in the model |
| --- | --- | --- |
| `LockSpec` | the abstract lock | the set of holders |
| `BionicLock` | class `Lock` | the state word, a place per thread |
| `NormalMutex` | `PTHREAD_MUTEX_NORMAL`: init, lock, timedlock, trylock, unlock, destroy | lock-state bits, place, deadline or not, initialized or destroyed |
| `OwnedMutex` | `PTHREAD_MUTEX_RECURSIVE` and `_ERRORCHECK`, 64-bit and 32-bit layout | state and counter fields, `owner_tid`, the locals read for `futex_wait` |
| `Semaphore` | `sem_init`, `wait`, `timedwait`, `trywait`, `post`, `getvalue` | the signed value; history: tokens |
| `PthreadOnce` | `pthread_once` | the control word, each thread's `old_value`; history: entries and returns of `init_routine` |
| `PthreadCond` | wait, timedwait, signal, broadcast, with the caller's mutex | the counter, the mutex; history: who is owed a wakeup |
| `PthreadRwlock` | rdlock, wrlock, timed and try forms, unlock, both preferences | state word, `writer_tid`, pending counts, serial numbers as "is my copy still current" |
| `ThreadLifecycle` | create, start, exit, join, detach, `g_thread_list`, reuse of memory | one record per block of memory: `tid`, `join_state`, handshake, list |
| `PthreadKey` | key create and delete, set, get, `pthread_key_clean_all` | `key_map`, each thread's `key_data`; history: the keys the program has |
| `SystemProperties` | add, update, find, read, foreach, wait_any | the trie and its values by offset, both serial numbers, one writer, one reader |
| `RefBase` | `sp<>`, `wp<>`, promote, forced references, both lifetimes | `mStrong`, `mWeak`, what of the object and its counts is alive, what each thread owns |
| `ProxyTable` | `getStrongProxyForHandle`, `getWeakProxyForHandle`, `expungeHandle`, the end of a `BpBinder` | the table's entry, `mLock`, each proxy's counts and stage of destruction |
| `InitService` | start, stop, reset, restart, enable, class commands, exec, onrestart, reaping, delayed restarts, the crash window | flags, process and times of each service, the command queue, the signal socket, the place in the main loop |
| `UpdateSpec` | what recovery relies on in a package | running or not; data old, mixed or new |
| `BlockImage` | `block_image_verify` and `block_image_update`, version 3 lists | the partition's blocks, stash files and what of them is durable, the place in the list, `CommandParameters` |
| `Applypatch` | `apply_patch_check`, `apply_patch`: files, partitions in place, partitions from another one | contents of source, target, output and the copy on /cache, what is durable, the place in `GenerateTarget` |
| `Recovery` | `get_args`, `main`, the menu, install, the wipes, `finish_recovery`; bootloader and main system as far as they take part | control block, command file, package, the volumes; history: requests and reported failures |
| `MCLocks`, `MCSync`, `MCRefs`, `MCBoot` | several independent components explored in one run each | a `subject` chosen at the start says which one moves; the others keep their initial states |
| `MCSystemProperties`, `MCCritical` | names, values and scripts for a run | |
| `...Proofs` | theorems about the module of that name | |

One action is one atomic access, one futex or other system call, or one section
under a lock. A thread's program counter `pc` names the next such step; `asleep`
is the kernel's futex queue. A wake moves a sleeper on; `...Interrupted` is a
wait that a signal ends, `...TimedOut` one that a deadline ends. A weak
compare-and-exchange that fails for no reason is a stuttering step, and a loop
around one takes effect where its last attempt does.

Memory order: the accesses are sequentially consistent in the models. The code
also uses relaxed and acquire/release accesses. Accesses to one word have a
single order in any case; a reordering of relaxed accesses to different words
(`state` and `owner_tid`, `seq` and `key_destructor`, the value of a property and
its serial number) is outside the models, which cover their interleavings only.

In `BlockImage`, `Applypatch` and `Recovery` an action is one file operation, and
`PowerCut` may come between any two; a torn write is a value of its own. What
reaches the disk follows the code's `fsync` calls: a stash file or a copy is
durable only after its `fsync` and rename, and an unlink or rename that nothing
syncs may be undone by a cut. I/O errors take the error path of the code. All
such events share a counter bounded in the configuration.

## Runs

| run | shows |
| --- | --- |
| `locks` | normal, recursive and errorcheck mutex, `Lock`, threads: exclusion, nobody orphaned on the wait queue, `owner_tid` and the counter tell the truth (`OwnedSafe`), refinement of `LockSpec` twice, no thread memory used after it was freed, join after the real end, and nobody stranded for good |
| `sync` | semaphore: tokens conserved, no lost wakeup; once: one initialization, nobody early; condition: the mutex is held on return; rwlock: exclusion, `writer_tid`, agreement of flags, counts and waiters; and `Served`: nobody waits for good for what is there |
| `refs` | proxies: a lookup never meets freed counts, one proxy for one remote object; references: no use after deletion, counts are what is owned; keys: distinct, no stale data, no destructor with another key's data, clean-up complete; and every lock is let go, every clean-up ends |
| `system_properties` | a read is atomic, a cached value is fresh until the serial number moves, a listing is complete and without repetition, readers get an answer and waiters notice a change |
| `boot` | recovery: the main system never meets an unreported half-done volume, only what was asked for is done, an erase is taken up again, recovery is left; block images and patches: refinement of `UpdateSpec`, a verified update is resumed, the source is never lost, scripts finish; init: services start only as asked, come back, and the device is rebooted only with cause |
| `owned_mutex_destroy` | *violation*: destroy succeeds on a recursive mutex that its caller holds |
| `pthread_cond_wrap` | *violation*: the counter comes round after a number of pulses the comment does not name |
| `rwlock_timed_lost` | *violation*: a timed-out writer takes a wakeup with it |
| `applypatch_partition` | *violation*: the retry of an interrupted in-place partition patch destroys the saved source |
| `blockimg_diff_error` | *violation*: an unnoticed write error makes an update unresumable |
| `refbase_force` | *violation*: the first strong reference made twice at once drives the count below zero |
| `init_critical` | *violation*: five exits in four minutes without a reboot |

### What the violations say

- **`rwlock_timed_lost`** (`pthread_rwlock.cpp:490`). `pthread_rwlock_unlock`
  prefers writers by `pending_writer_count`. A writer whose wait has timed out
  but that has not yet decremented the count is still counted: the wake goes to
  nobody, the writer returns `ETIMEDOUT`, and a pending reader stays asleep on a
  free lock, against the comment at line 321.
- **`owned_mutex_destroy`** (`pthread_mutex.cpp:641`). The trylock in
  `pthread_mutex_destroy` succeeds for the owner of a recursive mutex, so
  "not already locked" (line 640) is not ensured.
- **`pthread_cond_wrap`** (`pthread_cond.cpp:167`). The counter moves in steps of
  4, so a preempted waiter can miss a signal after 2^30 pulses; the comment at
  line 47 says `UINT_MAX/2`.
- **`applypatch_partition`** (`applypatch.c:854`). The source of a partition
  patched in place is saved "in case the partition write is interrupted" (line
  848). After such an interruption the next run reads that copy, and then saves
  `source_file`, which it has emptied, over it: the file is truncated, the write
  fails, and no later run can succeed.
- **`blockimg_diff_error`** (`blockimg.c:1387`). The results of `ApplyImagePatch`
  and `ApplyBSDiffPatch` are ignored. After a failed write the stash of the
  overlapping source is freed all the same, although it was made "so we can
  resume from possible write errors" (line 1079).
- **`refbase_force`** (`RefBase.cpp:374`). `forceIncStrong` subtracts
  `INITIAL_STRONG_VALUE` unconditionally after its increment, while
  `attemptIncStrong` in another thread fixes up any count that is still above it.
  If a first forced reference meets a promotion, both subtract. `refs` leaves
  forced references out until there has been a strong one (`ForceFirst`); all
  else, promotions at once included, leaves the counts right.
- **`init_critical`** (`signal_handler.cpp:118`). A window begins with the first
  crash after the last one's end, so five exits within four minutes that lie in
  two windows are not counted together; `readme.txt:63` says that the device
  will reboot.

## Bounds

| constant | value | why it is enough |
| --- | --- | --- |
| `Threads` | 4 in `locks`, else 3 | a holder, a thread that barges in, and two sleepers of which one is woken; elsewhere two sleepers and the thread that wakes them (3 for owned mutexes, 2 in `refbase_force`). Semaphores and `pthread_once` are proved safe for any number |
| `CounterMax`, `MaxReaders`, `SEM_VALUE_MAX` | 2, 2, 3 | small limits, so that the runs go up to them and are refused |
| `TimedThreads` | 1 of 3 (1 of 2 in `owned_mutex_destroy`) | waits that time out (rwlock, owned mutex) beside others that do not |
| `Modulus`, `MaxPulses` | 4, 3 | fewer pulses in one wait than the counter has values; 7 in the wrap run, which lets it come round |
| `Blocks` of threads | 2 and the main thread | a thread's memory is freed and reused while another still looks at it |
| `KEY_COUNT`, `Iterations`, `MaxSeq` | 2, 2, 3 | every slot is created, deleted and created again; two clean-up rounds |
| `KeyThreads`, `Users` | 2, 1 | one thread sets data and exits while both create and delete |
| `Proxies` | 3 | a proxy that dies, one that replaces it, and a third |
| `INITIAL_STRONG_VALUE` | 100 | far above any count three threads reach, as 2^28 is |
| `Names`, `Values`, `AreaSize`, `MaxChanges` | 3, 2, 5, 3 | a name below another in the trie, a sibling, values of different length, and no room for everything |
| `Blocks` of a partition, `Lists` | 2, every list of two transfers | transfers that read what the other writes, overlap themselves, are moves, diffs, zeros or new data; every stash the creator makes for them |
| `MaxFaults`, `FileFaults`, `RecoveryFaults` | 2, 3, 3 | a cut during the resumption of an update that was cut; for recovery, also requests and key presses count |
| `Kinds` | file, other | a file, and a partition patched from another one; `applypatch_partition` takes the partition in place |
| `CRITICAL_CRASH_THRESHOLD`, `_WINDOW`, `RESTART_DELAY` | 1, 2, 1 | two crashes inside and across a window; 4, 6, 1 in `init_critical`, with the threshold of the code |
| `Scripts` | 3 | a critical service; a class of two of which one is oneshot, disabled and restarted with the other; one whose start may fail, with execs |

Threads could be permuted, but symmetry is not used: most runs check liveness,
where it is unsound.

## Fairness

Weak fairness of the steps *inside* a call: a thread the scheduler runs gets on
with it. No thread has to call anything, to release a lock, to end, to be
interrupted or to time out. `init_routine` and destructors return, and `init`
finishes a change of a property it has begun. Hand-over is therefore stated as
"somebody holds the lock, or the waiter is no longer waiting". Reads of a
property end because a behaviour has at most `MaxChanges` changes; a reader that
`init` overtakes for ever is not excluded by the code.

In `boot`, the device boots when it is off, recovery and scripts run on, and the
power is cut only a bounded number of times; nobody has to press a key or ask for
anything. `init`'s loop runs and time passes; a process that was killed ends; and
`epoll_wait`, which reports one event at a time, does not pass the signal socket
over for ever (strong fairness of `handle_signal`). An exec that never ends stops
`init` by design, so `ComesBack` assumes that execs end.

`boot` does not check deadlock: recovery waits at its menu, and an update that
has ended is over. In `locks`, a program whose threads wait for one another in a
circle of joins, as POSIX allows, may stop, and in `refs` an object that is gone.

## Proofs

Each proof module shows an inductive invariant `IInv` of its module. Constants
are arbitrary apart from the assumptions named.

- **`NormalMutexProofs`** (no assumption). `IInv` adds to the types, `Exclusion`
  and `NoOrphan` that only late wakers are around a destroyed mutex (`Quiet`);
  without it `pthread_mutex_init` could wipe out a contended state. From it:
  `TypeCorrect`, `MutualExclusion`, `NobodyOrphaned`, and `Refinement`: every
  step is an acquire, a release or a stutter of `LockSpec`.
- **`BionicLockProofs`** (no assumption). Types, `Exclusion` and `NoOrphan` are
  inductive together: `LockExcludes`, `LockOrphansNobody`, `Refinement`.
- **`SemaphoreProofs`** (`SEM_VALUE_MAX` a positive number). The value and the
  history of tokens move together, so `TypeOK`, `Conservation` and
  `NoLostWakeup` are inductive together: `TypeCorrect`, `TokensConserved`,
  `WakeupNotLost`.
- **`PthreadOnceProofs`** (no assumption). `Progress` ties the control word to
  who initializes (nobody yet, exactly one thread, over) and `Known` records
  what a thread has learnt of it. From them: `OnceTypeCorrect`,
  `RunsOnceBeforeReturn`, `OnceWakeupNotLost`. The run `sync` checks the same
  three formulas as the conjuncts of `OnceSafe`.
- **`ProxyTableProofs`** (`ThreadsAssumption`: finitely many threads). `mWeak` of
  each proxy is the number of threads that own a reference plus the number in a
  lookup that has taken one; with who holds `mLock`, where each call is, and which
  proxy the table has, that is inductive. From it: `LookupSafe`, `OneProxyHeld`,
  and `NeverWaitsForItself`: the reference a lookup drops under `mLock` is never
  the last.
- **`BlockImageProofs`** (`ListsAssumption`: what `blockimgdiff.py` guarantees of a
  list, and `FreedForGood`, see below). For each command yet to come, `IInv` says
  that its target is written, or that each of its sources is on the partition, in
  a durable stash, or will be stashed by a command before it; and that what is
  read during a command is good. That a verified update can be resumed, and that
  an interrupted one can be restarted, are both this, at different places of the
  list. From it: `AlwaysResumable`, `VerifiedIsResumed`, `Refinement` (of
  `UpdateSpec`).
- **`RecoveryProofs`** (no assumption but a package that keeps `UpdateSpec`).
  What is in pieces is reported or is what the control block will have done again
  (`Mended`); what is under way was asked for (`Requested`); and the control block
  says to erase until the erase is over (`Erasing`). From them:
  `MainSystemWhole`, `OnlyAsAsked`, `EraseNotForgotten`. Here the bound on faults
  is any number.
- **`ApplypatchProofs`** (`Assumed`: files, or partitions from another one, and
  unlinks and renames that reach the disks in the order in which they were made,
  `MetadataInOrder`). Where the run is in `GenerateTarget`
  says which copy of the source is good, and what is durable is never worse. From
  it: `SourceNeverLost`, `Refinement` (of `UpdateSpec`).

Only model-checked: all liveness (fairness and `ENABLED` are beyond the prover),
and the invariants of `OwnedMutex`, `PthreadCond`, `PthreadRwlock`,
`ThreadLifecycle`, `PthreadKey`, `SystemProperties`, `RefBase` and `InitService`.

## Not modelled

- Attribute setters, `pthread_cond_destroy`, `pthread_rwlock_destroy`: they edit
  one word that the caller owns.
- In `ThreadLifecycle`: cleanup handlers, the alternate signal stack, TLS layout;
  callers that join a thread twice (undefined in POSIX).
- In `SystemProperties`: mapping the file, the version-1 layout, the client of
  the property socket; a 24-bit count that comes round during one read.
- In `RefBase`: `onIncStrongAttempted` that refuses, debugging of references. In
  `ProxyTable`: the ping of the context manager before its first proxy (handle
  0), death notices, transactions and the driver.
- In `InitService`: parsing, uevents, the property service's socket, commands
  that only make system calls. A fork that fails is not tried again by the code
  and is excluded from `ComesBack`. A restart asked for while a stopped service's
  process is still ending is lost, because the reaping looks at `SVC_DISABLED`
  first; `RestartHeard` states it and is not checked by a run.
- In `BlockImage`: lists of version 1 and 2, which have no stash files; the thread
  that unpacks new data; free space on /cache. Two commands that stash the same
  content, the second after the first was freed, are left out (`FreedForGood`):
  `blockimgdiff.py` does not exclude them, and an update that is cut after the
  first `free` may then find its source overwritten. Failing writes of diff
  commands are left to `blockimg_diff_error`.
- In `Applypatch`: the decoders, `MakeFreeSpaceOnCache` beyond its failing, file
  metadata. In `Recovery`: logs, locale, the user interface, the stage field,
  package signatures, and the transfer of a sideloaded package.
- `adb`, `fs_mgr`, `healthd`, buffer queues, SurfaceFlinger, the rest of libc and
  everything below `external`; the reasons are in `PROJECT.json`.
