# A TLA+ verification project for METEOR

METEOR offloads the threads of an Android application to a server. Two Dalvik
VMs, one on the phone and one on the server, share a heap, its monitors and the
threads: a thread stops at one endpoint and goes on at the other, and objects
follow it. This directory models METEOR's own code. The rest of
`src/meteor_dalvik` is the stock Dalvik VM and is taken as given, apart from
what METEOR leans on hardest: monitors and the suspension of threads.

Contents: 1 inventory, 2 how the parts interact, 3 modules and the code they
model, 4 runs, bounds and fairness, 5 where code and comments part, 6 proofs,
7 limits, 8 plan.

## 1. Inventory

Paths are relative to `src/meteor_dalvik/`.

| Component | Code | State | Operations | What makes it correct |
|---|---|---|---|---|
| tcpmux main stream | `tcpmux/tcpmux.c` | `stream[]`, `stream_pos`, `stream_debt`, `stream_karma`, `rstream_pos`, `rstream_karma`, handshake state, `wout` | connect, handshake, `mainr`, `mainw`, pay debt, lose the connection, switch context | one byte stream each way, exactly once and in order, over any number of TCP connections |
| tcpmux clients | `tcpmux/tcpmux.c` | client table, write queue, karma queue, burn list, `wkarma`, `rkarma`, `out_buf` | accept, connect, `clientr`, `clientw`, `write_ack`, `read_ack`, disconnect, burn, free | flow control neither overruns nor starves a client; an id is reused only after both ends have forgotten it |
| Control channels | `vm/offload/Control.cpp`, exit in `Threading.cpp` | `offWriteBuffer`, `offReadBuffer` of each thread, `offNetPipe`, `wthreads`, `offConnected`, `offThreadTable` | `offWriteU*`, `offReadBuffer`, `offFlushStream`, `message_loop`, `offThreadExited` | each channel carries what was written; nobody in the queue is freed; nobody sleeps through a loss |
| Recovery | `vm/offload/Recovery.cpp` | `offRecovered`, `offRecoveryHazards`, `offRecoveryLock`, `offRecoveryCond` | enter, check-enter, trigger, clear a hazard, wait for clearance, clean up | the clean-up excludes all hazards, happens before the next connection, and forgets nobody |
| Monitor ownership | `vm/offload/Sync.cpp`, `Engine.cpp`, `vm/Sync.cpp` | `isLockOwner`, monitor mutex, `lastOwner`, `offLockList` | lock, unlock, `offEnsureLockOwnership`, `offPerformLock`, activate, deactivate, promote, reduce | one owner; one thread in the monitor over both endpoints |
| Comm and volatiles | `vm/offload/Comm.cpp`, `CommInlines.h`, `Sync.cpp`, `vm/oo/ObjectInlines.h` | dirty bits, `isQueued`, `offWriteQueue`, `offSendRevision`, `offRecvRevision`, `isVolatileOwner` | track, mark, push, pull, grab volatiles | who owns a lock has the data written under it; revisions are pulled once and in order |
| Engine | `vm/offload/Engine.cpp` | migration state of a thread | migrate, perform migrate, class initialisation, enable | a thread runs at one endpoint |
| Threading | `vm/offload/Threading.cpp` | `offThreadTable`, daemon of each thread | start, attach, detach, daemon loop | every request is answered by the parallel thread |
| Wait, notify, interrupt | `vm/offload/Sync.cpp`, `vm/Sync.cpp` | `waitSet`, `waitMonitor`, `interrupted`, `remoteWaitCount` | wait, notify, notify all, interrupt; NOTIFY and BROADCAST across | a notification wakes a waiter wherever it is; an interrupt is not slept through |
| Thread suspension | `vm/Thread.cpp`, `vm/alloc/Heap.cpp` | `threadList`, `status`, `suspendCount`, `threadListLock`, `_threadSuspendLock`, `gcHeapLock` | suspend all, resume all, change status, attach, create, detach, lock the list | a stopped VM is stopped, and everybody runs again |
| Queue, FifoBuffer | `vm/auxiliary/Queue.cpp`, `FifoBuffer.cpp` | ring; chain of buffers | push, pop, reserve | they are a queue and a byte stream |
| Vector, Lookup, Types, Scheduler | `vm/auxiliary/*`, `vm/offload/Lookup.cpp`, `SchedulerInlines.h` | - | sequential helpers | - |
| Info table | `vm/offload/UnlockedInfoTable.h` | levels of an id table | get, locked get | a level is found once it is made |
| Stack | `vm/offload/Stack.cpp` | interpreter frames | write and read frames | frames arrive as they were |
| DexLoader | `vm/offload/DexLoader.cpp` | dex files known to the peer | push, load on demand | an id means one dex file |
| MethodRules | `vm/offload/MethodRules.cpp` | constant table | look up | - |
| Track trimming | `vm/offload/Comm.cpp`, `Threading.cpp`, collector | `objTables`, `nextId`, mark bits of both endpoints, `gcThreadContext` | request a trim, mark in rounds, forget what is not marked | an object alive at either endpoint stays, every other one goes, and the two stay in step |
| meteor_manager | `meteor_manager/meteor_manager.c` | list of user ids in a file | check, exempt, clear, toggle | - |

The hard behaviours: the TCP connection is lost and replaced at any point of
the handshake; three kinds of threads (application threads, daemons, the
control thread) share flags, some written without the lock they are read under;
the server can disappear while threads are in nested hazards or in a collection
over both endpoints; a VM is suspended while others hold or want mutexes, attach
and exit; ownership, data and notifications cross on different channels. `hazards` in `PROJECT.json` lists each at its line.

## 2. How the parts interact

    application threads and their daemons
       |  monitors      |  heap        |  migration           (LockOwnership, WaitNotify,
       |                |              |                       HeapSync, TrackTrim)
       +---- pushes, pulls, collections stop the VM           (Suspension)
       |                |              |
       +---- bytes of a thread's channel ----+                (Channels; AuxFifo, AuxQueue)
                        |                                     Recovery cuts across:
              control thread, one socket                      hazards are entered around
                        |                                     all of the above
       tcpmux client ---+--- many clients on one stream       (MuxClients)
                        |
       main stream over replaceable TCP connections           (MuxStream)

Each level is modelled on what the level below promises, and that promise is a
property checked there:

- MuxClients hands packets over in order and exactly once; MuxStream's `InOrder`
  and `Delivered` state that.
- Channels takes a socket to be reliable until it is lost for good; the VM's
  client of tcpmux is such a socket (MuxClients' `KarmaConserved`, `IdReuse`).
- LockOwnership and HeapSync let a thread and its parallel thread exchange
  messages reliably (Channels' `StreamsExact`) while the connection lasts.
- AuxFifo keeps its buffers in a sequence; AuxQueue is shown to implement it
  (`IsFifo`, with `Fifo` as the abstract specification).
- Channels takes hazards and the clean-up as Recovery has them.
- WaitNotify takes the ownership of the lock, with the one-step grants and moves it
  needs, from LockOwnership (`OwnershipConserved`, `Exclusive`).
- LockOwnership, HeapSync and TrackTrim stop the VM in one step. Suspension has
  the steps: `WorldStopped` says that nobody executes in between, up to the two races
  of section 5, and `GetsStopped` that the step is always reached.

## 3. Modules

| Module | Code | How state and actions correspond |
|---|---|---|
| `MuxStream` | `tcpmux.c`: `muxloop`, `handshake`, `mainr`, `mainw`, `read_ack`, `write_ack` as far as the stream goes | A unit is a byte carrying its ordinal. `ring`, `spos`, `debt`, `karma`, `rpos`, `rkarma` are `stream`, `stream_pos`, `stream_debt`, `stream_karma`, `rstream_pos`, `rstream_karma`. `pend` are preliminary contexts of the demux, `hdr` the positions exchanged. Both ends are one process each. `sent`, `got`, `lost` are history. |
| `MuxClients` | `tcpmux.c`: client handling | One id, used by one client after another. `wq` and `kq` are the write and karma lists, `wout` the packet, `burned` the burn list that the end of `muxloop`'s round frees. `busy` marks that a process is inside `mainw`'s loop or between `get_client` and the handling of the packet. |
| `Channels` | `Control.cpp`, `offThreadExited` and attach/detach of `Threading.cpp` | `pipe` and `queue` are `offNetPipe` and `wthreads`; a unit is marked with the connection it was written in. The control thread's turn is split where it releases `offBufferLock`; the test for an empty buffer and the write to the pipe are separate steps, as in the code. |
| `Recovery` | `Recovery.cpp`, `message_loop`'s connect and loss, the hazards entered by Engine, Sync, Threading | `depth` is how many hazards a thread is inside of, `residue` the connections the offload state may still hold data of. Critical sections of `offRecoveryLock` are steps, except where `offConnected` is read twice and in the clean-up, which suspends all threads first. Code that touches the offload state outside any hazard (`offload://push`, exits, notifications, interrupts, the daemon's answers) is a look (`CallAside`) and a touch (`Aside`), between which a loss and its clean-up fit; a collection that trims touches without a look (`TrimGc`). `late` is history: a touch came after the clean-up of its connection. |
| `LockOwnership` | `Sync.cpp`, `doActivate`/`doDeactivate` of `Engine.cpp`, monitor entry and exit in `vm/Sync.cpp` | One monitor, both endpoints. A thread and its daemon alternate, so they share a program counter. `turn` orders pulls by revision, `stop` is `dvmSuspendAllThreads`. `race` records the first ownership race the code can run into and ends the behaviour. |
| `HeapSync` | `Comm.cpp`, `CommInlines.h`, volatiles of `Sync.cpp`, `ObjectInlines.h` | One object with a lock-guarded and a volatile field; values are write numbers. A push or pull suspends the VM and is one step; giving up the right to the volatiles, the push that carries it, and noting it are three, as in the code. Likewise the daemon's check of the lock's ownership (`PerformLock`) and the grant once the VM is suspended (`ClearOwnership`, which does not check again) are two; a thread blocked on the monitor (`Contend`) goes in (`GetIn`) without another look at the ownership. `race` records the first time ownership was granted or used that had gone. |
| `AuxQueue`, `Fifo`, `MCAuxQueue` | `Queue.cpp` | The ring with its fields and the shrink loop of `auxQueuePop` turn by turn; `Fifo` is the abstract queue, `Contents` the refinement mapping. `MCAuxQueue` chooses values so that every stored value is different. |
| `AuxFifo` | `FifoBuffer.cpp` | Buffers of `B` bytes, `pos_head`, `pos_tail`, kept buffers. Pushed bytes are numbered so that order and loss show. |
| `WaitNotify`, `MCWaitNotify` | `vm/Sync.cpp`: `waitMonitor`, `notifyMonitor`, `notifyAllMonitor`, `dvmThreadInterruptLocal`; `offload/Sync.cpp`: `offObjectNotify`, `offPerformNotify` and their kin | One monitor, both endpoints. `waitMonitor` is four places of a thread: in the wait set with the mutex still locked (`enter`), asleep (`wait`), awake (`back`), inside again (`hold`). `remote` is `remoteWaitCount` where the ownership is; it moves with it. `sent` are the thread's messages; the daemon that takes one uses neither the mutex nor the wait set, as in the code. `MCWaitNotify` adds the symmetry of threads. |
| `TrackTrim`, `MCTrackTrim` | `Comm.cpp`: `offGcMarkOffloadRefs`, `offGcDoTrackTrim`, tracking, pushes and pulls; `thread_daemon` on TRIMGC | Both heaps as roots and references between tracked objects; an object is told from a later one with the same id by a serial number (`table`). `phase` is what the trim waits for, `stream` what `gcThreadContext` has yet to read, `work` the flag of the round. `live` is the reachability over both heaps once both rest, computed from the definition (`Reached`), not by rounds. `MCTrackTrim` chooses two heaps with a cycle through both. |
| `Suspension` | `vm/Thread.cpp`: `dvmSuspendAllThreads`, `dvmResumeAllThreads`, `dvmChangeStatus`, `fullSuspendCheck`, `dvmLockThreadList`, attach, create, detach; `dvmLockHeap` | Each lock, store, count and broadcast is a step of its own. `sc` is `suspendCount`, `signal` the sleepers a broadcast has reached, `todo` whom the suspender still waits for. `cause` tells a push (no heap lock), a pull (heap lock until the VM has stopped) and a collection (heap lock throughout). |
| `*Proofs` | - | TLAPS proofs, section 6. |

In each module the definitions commented "Mutant" are faulty variants of the
definition that follows. No specification uses them; substituting one for the
definition must break the property it is paired with, which shows that the
property depends on that piece of code.

## 4. Runs

All runs are exhaustive for their bounds. `CHECK_DEADLOCK FALSE` appears where
bounded behaviours end (no more connections, writes or pushes) and where the
program may legitimately have nothing to do; AuxQueue and AuxFifo never stop
and are checked for deadlock.

| Run | Bounds | Properties | Distinct states |
|---|---|---|---|
| `mux_stream` | ring of 2, 3 connections, 1 gratuitous loss, 2 units each way, packets up to 2, fairness | `KarmaSafe`, `DebtExact`, `InOrder`, `Delivered` | 169 thousand |
| `mux_clients` | karma 1, two clients on one id | `KarmaQueued`, `IdReuse` | 2.1 million |
| `mux_clients_karma` | karma 2, threshold 2, packets up to 2, one client, fairness | `KarmaConserved`, `Forgotten` | 186 thousand |
| `channels` | one thread of the phone, one of the server, 2 connections, 2 units each way, fairness | `QueuedOnce`, `StreamsExact`, `NoDangling`, `TableWoken`, `Flushed` | 1.5 million |
| `recovery` | 2 threads, 1 attached thread, 3 nested hazards, 2 connections | `HazardsExact`, `CleanupExclusive`, `ConnectsClean`, `NobodyForgotten`, `OwnLocalAtCleanup` | 3.5 million |
| `lock_ownership` | 2 threads | `OwnershipConserved`, `Exclusive`, `MutexAccounted` | 625 thousand |
| `wait_notify` | 3 threads, 2 messages under way | `WaitSetExact`, `InterruptWakes`, `WaitersCounted` | 2.6 million |
| `heap_sync` | 2 threads, 2 writes to each field, 2 pushes each way, fairness | `LockedFresh`, `RevisionsExact`, `DirtyQueued`, `OneVolatileOwner`, `Pulled` | 761 thousand |
| `track_trim` | 2 identifiers, 2 references, each endpoint starts 1 trim, 3 serial numbers, fairness | `InStep`, `QueueTracked`, `SameObjects`, `ExactTrim`, `TrimEnds` | 295 thousand |
| `suspension` | 3 threads, 2 suspensions, fairness | `WorldStopped`, `NoLostWakeup`, `Resumed`, `GetsStopped` | 235 thousand |
| `aux_queue` | capacities 4, 8, 16 | `IsFifo` | 38 thousand |
| `aux_fifo` | buffers of 3, 10 bytes, pushes up to 7 | `HoldsStream` | 5 thousand |

Every module states its types as `TypeOK` (`QueueTypeOK`, `FifoTypeOK` and `ClientTypeOK` in the
containers and in MuxClients). It is proved, as a theorem or as part of the inductive
invariant, and not checked again. The same holds for
`CountedForSomebody` (Suspension), `OneInside` (WaitNotify) and `Settled` (AuxQueue), which
are proved.

### Why the bounds are enough

- *MuxStream.* With a ring of 2 the second unit brings the position back to 0, so
  "a full lap" and "nothing", the case the modulus could confuse, are one unit
  apart, and the karma is 1, so every unit but the first waits for an acknowledgement.
  Three connections allow an older one to be keyed after a newer
  one, and a third to repair it. The proofs remove the bounds.
- *MuxClients.* Everything about ids needs a second user of the same id; one unit
  of karma makes the window close after each packet. Karma accounting needs a
  threshold above 1, so that acknowledgements accumulate; hence the second run.
- *Channels.* A second connection is needed for anything left over from the first,
  two units for a packet that does not empty the buffer. A thread of each
  kind covers both exit paths.
- *Recovery.* Two threads race for the last hazard; a third, attached one has other
  rules. Nesting of 3 is the deepest the callers reach (migration, trigger,
  request). Proved for any number of threads, depth and connections.
- *LockOwnership.* One thread inside and one competing, at either endpoint; the
  daemons of both count as further actors. Proved for any number of threads.
- *WaitNotify.* Three threads are two that wait, at the same endpoint or at both, and
  one that notifies; two messages under way are a NOTIFY and a BROADCAST that
  overtake each other on two channels. Proved for any number of threads and messages.
- *TrackTrim.* With one identifier given out by each endpoint and a cycle that
  leads through both heaps, marking takes three rounds in which each endpoint is
  in turn the one without work. One trim started by each endpoint allows both to
  start at once and both requests to be served afterwards. Three serial numbers let an
  identifier be reused while a push still names its last object. Proved, all but
  `TrimEnds`, for any identifiers and heaps, any number of trims.
- *Suspension.* Two threads stop the VM against each other while a third attaches,
  is made, or leaves; two suspensions allow the second to begin between the count
  down and the broadcast of the first. The safety is proved for any number of both.
- *HeapSync.* With two threads two pushes are under way in the same direction and
  can be pulled in either order, and one thread can migrate with the lock while the other's
  request for it is being answered. A third push each way (4.4 million states with `Spec`) shows the same
  invariants, and `Pulled` holds with it for one write to each field. Proved (all but `Pulled`) for any number of
  threads, writes and pushes.
- *AuxQueue.* Capacities 4 to 16 contain two doublings and two halvings. Proved
  for every set of capacities.

### What the properties say

- `InOrder`: across any loss and resumption, the byte `mainr` reads is the
  successor of the one before. `DebtExact`: the debt computed from two positions
  modulo `GLOBAL_KARMA` is what is neither read nor on the wire. `KarmaSafe`: no
  unread byte is overwritten in the ring. `Delivered`: what was counted as
  written arrives (unless the demux started a new context, section 5).
- `KarmaQueued`, `KarmaConserved`: the asserts of `set_rkarma` and `write_ack`,
  and that karma is neither made nor lost. `IdReuse`: no packet reaches the
  wrong user of an id, or an end that forgot it, or a full buffer. `Forgotten`: a
  closed client is burned at both ends.
- `QueuedOnce`, `StreamsExact`, `NoDangling`, `TableWoken`, `Flushed`: see the
  comments in `Channels`. The first three are about connections in which no exit
  wrote to its channel while the connection was gone (`fault`, section 5).
- `HazardsExact`, `CleanupExclusive`, `ConnectsClean`, `NobodyForgotten`,
  `OwnLocalAtCleanup`: see `Recovery`. `ConnectsClean` says that no hazard of an
  earlier connection is held when one is up, and that no state of an earlier one is left, made inside a
  hazard or outside. It excludes the overlap of the first connection with a clean-up
  (`raced`, section 5) and, for the state, touches outside any hazard that come after the
  clean-up of their connection (`late`, section 5).
- `OwnershipConserved`, `Exclusive` hold until the first race (`race`, section 5);
  `MutexAccounted` holds always.
- `LockedFresh`: the endpoint that owns the lock has the last write made under it,
  until an ownership is granted or used that has gone since the check (`race`, section 5).
  `RevisionsExact`: pushes not yet pulled have exactly the revisions between the two
  counters. `DirtyQueued`: a dirty field's object stands in the write queue.
  `OneVolatileOwner`: the right to the volatiles is in one place. `Pulled`: every push is pulled.
- `WaitSetExact`: whoever sleeps and has not been woken stands in the wait set of the
  endpoint it sleeps at, once, and nobody else does but those on their way in or
  out. `InterruptWakes`: no interrupt falls between the look at the flag and the sleep.
  `WaitersCounted`: the count the owner has of the other endpoint's waiters was taken
  when the ownership moved, and waiters come and go since; with the messages under
  way it is still enough for all of them, until one is `wasted` (section 5).
- `InStep`: `gcThreadContext` carries bit vectors and flags with nothing to tell them
  apart; each reader finds what it reads for, over several trims and when both
  endpoints start one. `ExactTrim`: a trim leaves exactly what one of the heaps
  reaches when both have come to rest. `QueueTracked`: no trimmed object stays in the
  write queue. `SameObjects`: an identifier means the same object at both endpoints, unless
  a push crossed a trim (`crossed`, section 5). `TrimEnds`: a trim ends,
  as long as the connection holds.
- `WorldStopped`: between the return of `dvmSuspendAllThreads` and the count down nobody
  else executes, whoever attached, was made, or left meanwhile. `NoLostWakeup`: a sleeper
  whose count is 0 has been reached by a broadcast or will be. `Resumed`: everybody put to
  sleep runs again. `GetsStopped`: whoever wants the VM stopped gets it stopped. All of
  these up to the first of two races (`race`, section 5).
- `IsFifo`: the ring implements a queue. `HoldsStream`: the buffers hold exactly the bytes
  pushed and not popped.

### Fairness

Only what the scheduling of the code gives is assumed; `Accept`, writes, losses,
migrations and requests are never forced.

- `mux_stream`: a connect that was begun ends (weak). `muxloop` serves every
  descriptor that has an event, and events come back with each connection, so
  reading a key, `mainr` and paying the debt are strongly fair, `mainw` weakly.
- `mux_clients_karma`: as above for the clients: a queued writer is grabbed (weak),
  a packet is written out and `mainr` is served (strong, because the process may
  be busy in between).
- `channels`: the control thread keeps turning and the flushing thread is
  scheduled (weak).
- `heap_sync`: a thread whose message has arrived goes on (weak).
- `track_trim`: the daemon serves a request that has arrived, and a collection goes on
  once what it reads is there (weak). Threads are not made to drop or push anything.
- `suspension`: the steps of a thread that is somewhere inside an operation, and safe
  points of an interpreting one (strong: a lock that is free again and again is got). Whether it
  goes native, comes back, attaches or stops the VM is its own choice.
- `RecoveryDone.cfg` (section 5): the control thread, weakly; every thread's own steps
  strongly, so that a violation cannot come from a thread that is simply not
  scheduled, or from a mutex that is always given to another.

## 5. Where the code and its comments part

The twelve runs above all pass. The configurations below are kept to document the
places where the code does not do what it says: each states a sentence of the
code as one property, and TLC produces a behaviour against it. Run one with
`tlc -config <cfg> <module>`.

| Configuration | Property | Said at | What happens |
|---|---|---|---|
| `MuxStreamFlush.cfg` | `FlushedAll` | `tcpmux.c:1069` | `mainw` skips a half-written packet when no client is queued |
| `MuxStreamContext.cfg` | `SwitchesContext` | `tcpmux.c:876-877` | a reconnect during the handshake of the previous one gets a fresh context |
| `MuxClientsFreed.cfg` | `QueuedAllocated` | `tcpmux.c:998` | a burned client is freed while in the write queue |
| `MuxClientsTwice.cfg` | `ConnectedHasSocket` | `tcpmux.c:82` | a connecting client is closed after `epoll_wait` reported it |
| `MuxClientsStuck.cfg` | `DeadDisconnected` | `tcpmux.c:774-775` | an immediate connect failure leaves a client that cannot be disconnected |
| `RecoveryDone.cfg` | `CleanupDone` | `Recovery.h:8-9` | the clean-up suspends all threads while it holds `offRecoveryLock`; a running thread blocked on it reaches no safe point |
| `RecoveryFirst.cfg` | `OnlyThenConnects` | `Recovery.h:10-11` | a clean-up overlapping the first connection leaves `offRecovered` set |
| `RecoverySelf.cfg` | `WaiterNotVulnerable` | `Recovery.h:6` | a thread inside a hazard waits for all hazards to clear |
| `RecoveryLeft.cfg` | `NothingLeft` | `Recovery.h:8-11` | a push, a DEATH, a notification, a daemon's answer or a trim outside any hazard touches the state after the clean-up, and the next connection starts with it |
| `RecoveryGhost.cfg` | `LocalAtCleanup` | `Recovery.cpp:84` | an attached thread is not local and in no hazard |
| `LockOwnershipHeld.cfg` | `HeldIsOwned` | `Sync.h:53-56` | a waiter that gets the mutex during a suspension enters without the ownership |
| `LockOwnershipGrant.cfg` | `GrantsWhatItOwns` | `Sync.cpp:239-240` | the ownership is granted twice; nothing is cancelled |
| `LockOwnershipPromote.cfg` | `Promoted` | `Sync.h:58-60` | a mutex is waited for with the VM suspended |
| `ChannelsWake.cfg` | `EverybodyWoken` | `Control.cpp:318-319` | a thread out of the table sleeps in its flush |
| `ChannelsAbort.cfg` | `PipeOpen` | `Control.cpp:81-84` | an exit writes to the closed pipe |
| `ChannelsDeath.cfg` | `DeathTold` | `Threading.cpp:185-186` | the clean-up takes the DEATH an exiting thread waits for an answer to |
| `HeapSyncRace.cfg` | `OwnerFresh` | `offload/Sync.cpp:239-240` | the ownership goes away between the check and the grant or the entry: an owner lacks the last write |
| `HeapSyncLost.cfg` | `WriteKept` | `offload/Sync.h:37` | a volatile is stored before the grab, whose pull overwrites it |
| `HeapSyncOwned.cfg` | `GrabOwns` | `offload/Sync.h:37` | the right is on its way; both endpoints say they lack it |
| `HeapSyncSleep.cfg` | `SleepEnds` | `offload/Sync.cpp:305` | the wait is for an exact revision, which passes by |
| `TrackTrimLoss.cfg` | `LossEndsTrim` | `Control.cpp:318-319` | a trim reads bytes of 0x55 once the connection is gone, a work flag that is always set |

Six more differ from a run's configuration in the property only: take the run's
`.cfg`, `Spec` for `FairSpec`, and the one invariant.

| Run, invariant | Said at | What happens |
|---|---|---|
| `track_trim`, `NoMixup` | `Comm.h:43` | a push under way is no root of a trim; the object it names is gone, or another, when it is pulled |
| `wait_notify`, `NothingWasted` | `offload/Sync.cpp:350-354` | a NOTIFY signals a thread that is awake already, another sleeps on |
| `wait_notify`, `BailsOutOwned` | `offload/Sync.h:53-56` | an interrupted waiter becomes `mon->owner` again though the ownership has left |
| `suspension`, `ListLockEnough` | `vm/Thread.cpp:368-370` | a thread gets the list lock after the VM has stopped and runs |
| `suspension`, `AttachStalls` | `vm/Thread.cpp:1907-1912` | a push does not hold the heap lock an attaching thread stalls on |
| `suspension`, `HeapHolderAwake` | `vm/alloc/Heap.cpp:145-146` | a pull sleeps in `lockThreadSuspend` with the heap lock held |

Where one of these is about a hazard that `hazards` lists, its note says so. The hazards
behind `FlushedAll`, `ConnectedHasSocket`, `DeadDisconnected`, `CleanupDone`, `WaiterNotVulnerable`,
`Promoted`, `PipeOpen`, `DeathTold`, `SleepEnds`, `NothingWasted` and `BailsOutOwned` are documented here only.

The passing properties are stated around these: `race`, `raced`, `late`, `fault`, `lost`,
`crossed` and `wasted` are history variables that mark the first such event, so that what the code
does guarantee can be said precisely. No action reads them except to end a
behaviour there (`race` of LockOwnership and Suspension, `lost`, and `fault` when the VM aborts).

## 6. Proofs

TLAPS (1.4.5, SMT and Zenon backends, LS4 for the temporal steps) checks these
theorems for every value of the constants that satisfies the named assumptions.

**MuxStreamProofs** (`GAssumption`: G >= 2; `ThresholdAssumption`,
`BoundAssumption`: positive thresholds and packets, natural bounds).
`TypeCorrect`, `KarmaSafety`, `DebtIsExact`, `ReadsInOrder`. The inductive
invariant `IInv` joins `TypeOK` with: `PosInv`, the two positions differ by
what is unread, modulo the ring; `RingInv`, the ring holds the last units
written with a running sum of the karma they acknowledge; `KarmaInv`, what a side
may still send is what its peer acknowledged, and what a side has read it holds as
karma or has put into its stream; `NetInv`, what is on the wire is what comes after
the last unit read; `DebtExact`; and, for connections that are not up yet,
`HelloInv`, `FreshInv` and `BodyInv`. `InOrder` follows from `NetInv`: the head of the current connection is the unit the
reader expects. Order alone is not inductive: replaying from the ring needs
`RingInv`, which needs karma, which needs what acknowledgements are on the wire.

**RecoveryProofs** (finite sets of threads, positive depth). `TypeCorrect`,
`CountIsExact`, `CleanupIsExclusive`, `ConnectionsAreClean`, `NobodyIsForgotten`,
`OwnThreadsAreLocal`. `IInv` adds to the properties: `LockInv`, who holds
`offRecoveryLock` between steps; `QuietInv`, no hazard is counted during a clean-up;
`ControlInv`, what the control thread's place says about the flags; `SinceInv`,
`ResidueInv`, `InsideInv`, which connection a hazard and the state belong to (the state, until a touch
outside any hazard is `late`: one in time is for the connection that is up or for the lost one whose
clean-up is still to come);
`LocalInv`, a thread of the phone is local outside its hazards; `RoomInv`, `GhostInv`,
depths on the way in and out, and that whoever acts outside a hazard is in none. The count is a cardinality; lemmas show
how it changes when one thread's depth changes by one or all become 0.

**LockOwnershipProofs** (`NoneAssumption` only; any set of threads).
`TypeCorrect`, `OwnershipIsConserved`, `MonitorExcludes`, `MutexIsAccounted`. `IInv`: `TypeOK`,
`ThenInv` and `StopInv` (what a place says about the suspension), `TurnInv` (who waits for a
pull), `MutexAccounted`, `CarryInv` (which messages carry the ownership), and, until a race,
`OneOwner` and `LocalOwned` (a thread inside at an endpoint has its mutex, and the endpoint owns
the lock). Exclusion over both endpoints follows: two threads inside are
at one endpoint, and there the mutex is one.

**StreamProofs** holds the proofs of four modules, the channels, the two containers under
them and the clients of tcpmux.

*Channels* (`ThreadAssumption`: the threads of the two sides are different, `NoPacket` is none
of them; `BoundAssumption`: natural bounds, packets not empty; any sets of threads).
`ChannelsTypeCorrect`, `AlwaysQueuedOnce`, `AlwaysStreamsExact`, `NeverDangling`, `AlwaysTableWoken`. The inductive
invariant `ChannelsInv` is in two parts. `BaseInv` says what holds whatever is in the buffers:
the types; `ControlInv`, what the control thread's state says about the
connection, the queue, the hazards and who it has still to wake; `PacketInv` and `NeedInv`; `Life`,
how the place of a thread, its stage of life, its hazard and the table agree; `Mute`,
who has not written or read yet. `ChannelInv` says what the buffers hold: no unit is of a later
connection (`Past`); once the clean-up is done no thread in the table has anything in its
buffers or is on its way to the pipe (`Clean`); and, while connected, `Queued`, the pipe and the
queue share out the threads that have something to send (`Waiting`), each in one
place, and `StreamInv`, what a thread wrote is what was heard and what is in its
buffer, in order, or it has left the table and its buffer is all of earlier
connections (`Stale`). `QueuedOnce` is not inductive alone: that a thread about to write itself to the
pipe is not there already rests on its buffer having been empty, and that what is left in the
buffer of an exiting thread is not of this connection rests on `Clean` at the time of
connecting, which rests on the hazards that hold the clean-up back. TLC has checked
`ChannelsInv` on the 1.5 million states of the run `channels`. A step that touches no
buffer is covered by one lemma (`QuietStep`), one that writes by another (`WriteChan`).

*AuxFifo* (`BoundsAssumption`: buffers of at least two bytes, natural bounds).
`AlwaysHoldsStream`. `FifoInv`: `FifoTypeOK`, `BytesOK`, `HoldsStream` and `PositionsInv` (an
end in the first buffer is beyond its head, and with no buffer both are at the start). The bytes are taken by
their place in the buffers laid end to end (`At`, `EndOf`); lemmas say where a place is
(`PlaceOf`, `Within`) and how far the end moves.

*AuxQueue* (`CapsAssumption`: capacities 4, 8, ... up to any limit; `NothingAssumption`).
`QueueTypeCorrect`, `AlwaysSettled`, `ImplementsFifo`: `QueueSpec => Fifo!Spec`
under the mapping `Contents`. `RingInv`: `QueueTypeOK`, `Settled`, `HeadInv` (when the
queue has just run empty the head is at the start or beyond the first half), `Filled` (the cells between head and tail have been written). `Settled` and `HeadInv` rule
out a head equal to the new capacity after halving an empty ring.

*MuxClients* (`KarmaAssumption`: natural bounds, an acknowledgement threshold of 1 to
`CLIENT_KARMA`, packets of at least one byte). `KarmaAlwaysConserved`, `KarmaAlwaysQueued`,
`IdsReused`, `ClientTypeCorrect`. None of the three properties is inductive: that a packet finds
its client rests on what the two ends have said to each other, and the room for
it on all karma under way. `ClientsInv` therefore adds: `NamesInv`, the clients of
both ends bear the same names in the same order, the mux at most one ahead, and all but
the one behind the id are burned; `SocketInv`, what the state of a socket says about karma
and marks; `KarmaQueueInv`, the karma queue is the one client, if it has something to
tell; `FlightInv`, packets on the way name clients not given up where they go, in
rising order, strictly after a packet that says one is gone (`NamesRise`); `GoneInv`, what an end has told
(`ToldGone`) the other has heard (`HeardGone`) or is on its way to, and a client is
burned at an end exactly when that end has told and heard; `FlowInv`, the sum `Flow` of all that the karma of a
client has become, over both ends and both directions. The karma in packets is a
cardinality (`KarmaUnits`), so that no sum over a sequence is needed: lemmas say what
a packet put behind (`UnitsAppend`) or taken off (`UnitsTail`) is worth, and general ones what
a step does that says nothing (`LinkKept`), puts a packet on the way (`LinkPut`, `SentPut`) or takes
one off (`LinkTake`, `FlowTake`). TLC has checked the parts of `ClientsInv` on the 2.1 million states of
`mux_clients` and on the 186 thousand of `mux_clients_karma`.

**HeapSyncProofs** (`ThreadAssumption`: finitely many threads, at least one;
`BoundAssumption`: natural bounds). `TypeCorrect`, `RevisionsAreExact`, `DirtyIsQueued`,
`VolatilesHaveOneOwner`, `LockedIsFresh`. `IInv` adds to those properties: `ObjInv`, the
server knows the object only if the phone tracks it; `QueueInv`, what the mark says about
the entries of the write queue (a marked object is in it, one that is not marked at most
once); `AskInv`, who asks for the volatiles or waits for the monitor has a tracked object; `TurnInv`, the
pushes under way to an endpoint have different revisions; `VolInv`, the one
place of the right to the volatiles; `LockInv`, the one place of the right to
take the lock, and that only who has it has dirtied the guarded field;
`FreshInv`. The last two hold until a `race`. That the owner of the lock has the last write is not inductive: a push with
the lock is one of several under way, and older pushes may still carry the field.
`FreshInv` says that the update with the highest revision has the last write
(`Reaches`), and that a push with the lock has no lower revision than any of
them; with pulls in the order of revisions, nothing comes after it. The proof
goes by kinds of steps: those that touch neither the guarded field nor a push
(`Calm`), writes, pushes (`PushBy`) and pulls.

**SuspensionProofs** (`SuspensionAssumption`: `None` is no thread, natural bound; any set of
threads). `TypeCorrect`, `StoppedVMIsStopped`, `NobodyLeftCounted`, `NoWakeupIsLost`. `IInv`:
`TypeOK`; `ChildInv`, a thread that is being made is known to its parent only;
`NoLostWakeup`; and, until a race, `OneStops` (one thread is between the two locks of
a suspension), `Counted` and `UnlistedUncounted` (who is counted, how often, for whom), `Gathering` (while
the suspender waits all are counted, and those it has seen stopped stay so),
`Quiet` and `NoSleepInResume`. `WorldStopped` alone is not inductive: that a thread seen stopped
does not go on rests on its count, and the count on the one suspender.

**WaitNotifyProofs** (`WaitAssumption`: finitely many threads, at least one message).
`TypeCorrect`, `WaitSetsExact`, `InterruptsWake`, `Exclusion`, `NoWaiterForgotten`. `IInv` joins the
properties with `OneMutex` (one thread at a time in front of or inside the
monitor of an endpoint) and `SentBounded`. The wait sets are sequences: lemmas say
what appending, unlinking and dropping a prefix do to their members. The count is a
sum of `remoteWaitCount` and the messages under way, kept against the cardinality of
the sleepers; lemmas say how a message sent or received changes the one and a
step of a thread the other.

**TrackTrimProofs** (`TrimAssumption`; any identifiers, references and numbers of trims). `TypeCorrect`,
`QueueIsTracked`, `ReaderInStep`, `TrimIsExact`, `ObjectsAreSame`, `NobodyStuck`. `IInv`: `TypeOK`, `AskInv`, `HeapInv`
(heaps and queues consist of tracked objects), and `TrimInv`, the exchange: while the
connection holds, the endpoints and the two streams are in one of seven
situations (`Apart`, `Alone`, `Vectors`, `Answered`, `Flags`, `Onward`, `Behind`), four of them for
either endpoint. In those after the first two, `Joint` says that `live` is the least pair
of sets with the roots, closed in each heap and across, and that all marks are
within it. When both flags say no work, the marks are closed in both heaps and
across, so `live` is within them: the trim is exact. Least sets are defined by what
belongs to every closed set and used by instantiation, which spares the induction
over rounds and paths that the prover could not do.

`SameObjects` holds between trims only, so its invariant must say something inside them too.
The tables are untouched while the two exchange marks, and the threads of an endpoint that has
not come to the trim go on. The one place where the tables differ is when one endpoint
has left the trim and the other has yet to read its flag (`Last`). There the invariant speaks of
the table as it will be (`Settled`): `Agree` says that an identifier is settled at both
ends as one object, or at one end only, the one that will send it whole; `PushAgrees` that a
push names objects its sender still has, and that the reader has those not sent whole;
`OwnInv` that only own identifiers wait to be sent whole, so no new object meets another's
identifier. The first to leave establishes `Settled` from `Crosses`, in the situation `Flags`;
the second turns `Settled` into its table. A push to an endpoint at its `Last` suspends the claim
(`Uncrossed`): it is still under way when that endpoint leaves, which sets `crossed`.

`TrimMoves` (`NobodyStuck`; stated with the proof, since `TrimEnds` covers it in the run): nobody waits in
a trim for an endpoint that waits too, or that no request will bring to it. `EvenInv` adds to the
situations that the endpoints have equally many requests to serve,
but for the one that calls the other to a trim it has not come to (`Ahead`). A trim
both started leaves one request on each side, so each of the late trims has its request
too. Together they are the safety half of `TrimEnds`: as long as the connection
holds some step of the trim can be taken; that the rounds end is left to TLC.

## 7. Limits

Only model-checked, not proved: every liveness property (`Delivered`, `Forgotten`,
`Flushed`, `Pulled`, `TrimEnds`, `Resumed`, `GetsStopped`; fairness and ENABLED are
outside TLAPS's reach here). Every safety property the runs check is also a theorem.

Abstractions a reader should know of:

- Memory is sequentially consistent; a missing barrier (`offTableGet`,
  `offConnected` read without a lock by another processor) shows only as an interleaving.
- In the other modules suspending a VM is a step that is possible when every thread
  is at a safe point. Suspension is the justification, up to its two races, which
  are not composed with the others. It leaves out the debugger's suspensions of
  single threads and the time after which a suspension aborts the VM.
- Bounds, where the code has none, are constants in guards: units, connections and
  losses (`MaxSent`, `Conns`, `MaxLoss`, `MaxConn`, `MaxOut`, `MaxIn`), hazards (`MaxDepth`),
  writes and pushes (`MaxWrite`, `MaxPush`), messages (`MaxSent` of WaitNotify), trims and
  serial numbers (`MaxStarts`, `MaxSerial`), suspensions (`MaxStops`), bytes (`MaxPush`, `MaxSize`
  of AuxFifo), users of an id (`Uses`).
- tcpmux has one stream and one id in each model; a control packet that names
  several clients is left out, as is the 64-bit wrap of counters.
- HeapSync has one object. What depends on the object graph (proxies, objects
  first seen inside others) is reduced to "a push may come across the object".
- The loss of the connection inside a migration or a pull is not composed with
  LockOwnership, WaitNotify and HeapSync. Recovery shows that the clean-up excludes those made
  inside a hazard, as migrations and requests of the phone's own threads are; the daemons of the server's
  threads, exits, notifications and `offload://push` work outside any, and what they leave is
  bounded only by `late`.
- A thread's exit in Recovery goes up to its DEATH and push and the hazard it then waits in; its
  removal from `offThreadTable` is in Channels.
- LockOwnership and WaitNotify have one monitor and no recursive entry: the recursion
  count is saved and restored by the thread that has the monitor to itself.
- TrackTrim stops at the exchange: soft, weak and finalizer references, which the
  collector treats afterwards, are left out. A trim that sleeps in its read when the connection
  is lost is let go on in the model (`ReadLost`); in the code nobody wakes it, because
  `gcThreadContext` is not in `offThreadTable`, and what a lost trim leaves in its buffers
  stays there. Nothing after a loss is claimed but `LossEndsTrim`, which fails.

Not modelled, and why: Stack, MethodRules, Vector, Lookup, Types and Scheduler
(sequential code with little state); DexLoader (its exchange runs in lock-step inside
a push and a pull, its table only grows); the info table (what can go wrong there is the order
of memory accesses, which the models do not have); meteor_manager and the scripts (single-shot
file handling); the interpreter, compiler, class loader and collector of the stock VM, which METEOR
changes only by the calls that are modelled. They are by far the most of the lines.

## 8. Plan

Done, in the order of what the others rest on: MuxStream, Recovery, LockOwnership, AuxQueue,
AuxFifo, Channels, MuxClients, HeapSync, WaitNotify, TrackTrim, Suspension. The safety
properties of all of them are proved.

Next, models:
1. HeapSync with the loss of the connection: an abandoned push or pull, and what the
   clean-up of Recovery makes of the revisions and rights.
2. Threads by id: `offIdToThread` waiting for an attach while the VM is suspended, and the
   reuse of ids after an exit.
3. Class initialisation that the phone does for the server, with the waiters of the class lock.
4. MuxClients with two ids and edge-triggered readiness: control packets that name several
   clients, the end of file seen together with the last data.
5. LockOwnership on top of Suspension instead of the one-step suspension, to see what the
   two races of section 5 do to `Exclusive`.
6. DexLoader's lock-step inside a push; the info table's index computation as operators.

Next, proofs: the safety half of the other liveness properties, as `TrimMoves` is of
`TrimEnds`: who can move whenever somebody waits.
