--------------------------- MODULE LockOwnership ---------------------------
(***************************************************************************)
(* Ownership of one shared monitor by two endpoints: offload/Sync.cpp, the *)
(* activate/deactivate half of offload/Engine.cpp and the monitor entry    *)
(* and exit of vm/Sync.cpp.                                                *)
(*                                                                         *)
(* Every object both endpoints know carries an isLockOwner bit on each     *)
(* side.  A thread locks the object only where the bit is set; elsewhere   *)
(* it asks the other endpoint (OFF_ACTION_LOCK), whose daemon thread for   *)
(* it takes the monitor's mutex, checks the bit, suspends its VM and sends *)
(* the ownership.  A migrating thread takes along the ownership of the     *)
(* monitors it holds, and of those on its offLockList.                     *)
(*                                                                         *)
(* A thread and its daemon at the other endpoint never run together: one   *)
(* of the two is always waiting for the other's next message.  One program *)
(* counter per thread therefore stands for the pair, and a message in      *)
(* transit is a value of that counter.  Each action is the code between    *)
(* two points where the VM may suspend the actor.                          *)
(*                                                                         *)
(* Abstracted: recursive entry, Object.wait, objects the peer has not      *)
(* heard of, the heap data of a sync, and the loss of the connection (see  *)
(* Recovery).                                                              *)
(***************************************************************************)

EXTENDS Sequences

CONSTANTS Threads, None

ASSUME NoneAssumption == None \notin Threads

VARIABLES
  at,       \* the endpoint where the thread executes (offLocal)
  pc,       \* where the thread, or its daemon at the other endpoint, is
  then,     \* what it does once it has been granted the lock or has arrived
  own,      \* info->isLockOwner of the object, at each endpoint
  mutex,    \* who has the monitor's mutex (or the thin lock word)
  fat,      \* whether the lock word has been inflated to a Monitor
  last,     \* mon->lastOwner
  listed,   \* whose offLockList names the object, at each endpoint
  carries,  \* the thread's message in transit carries the ownership
  shown,    \* the pushed stacks show the monitor held
  turn,     \* pushes on their way to the endpoint, by revision
  stop,     \* whose dvmSuspendAllThreads is in force at the endpoint
  race      \* the first ownership race that happened; it ends the behaviour

vars == <<at, pc, then, own, mutex, fat, last, listed, carries, shown, turn,
          stop, race>>

End == {"phone", "server"}

\* The other endpoint.
Peer(e) == IF e = "phone" THEN "server" ELSE "phone"

(***************************************************************************)
(* run      outside the monitor           hold     inside it               *)
(* want     at the top of dvmLockObject                                    *)
(* block    in dvmLockMutex, THREAD_MONITOR                                *)
(* got      it has the mutex and has not looked at suspendCount yet        *)
(* again    after a suspension noticed in lockMonitor's loop               *)
(* ask      OFF_ACTION_LOCK sent                                           *)
(* dlock    the daemon waits for the mutex, THREAD_MONITOR                 *)
(* dlocked  the daemon has the mutex        dpush    and saw the ownership *)
(* dsent    the daemon has cleared the ownership, VM suspended             *)
(* granted  the grant is on its way                                        *)
(* leave    OFF_ACTION_MIGRATE sent, about to push                         *)
(* sent     doDeactivate done, VM suspended                                *)
(* arrive   the pushed thread is on its way   pull  VM suspended, pulling  *)
(***************************************************************************)
AskPc == {"ask", "dlock", "dlocked", "dpush", "dsent", "granted"}
MovePc == {"leave", "sent", "arrive", "pull"}
Pc == {"run", "want", "block", "got", "again", "hold"} \cup AskPc \cup MovePc

\* Threads start at the phone; the object is owned by the endpoint that gave it
\* its identifier (addTrackedObjectIdLocked).
Init ==
  /\ at = [t \in Threads |-> "phone"]
  /\ pc = [t \in Threads |-> "run"]
  /\ then = [t \in Threads |-> "run"]
  /\ \E creator \in End : own = [e \in End |-> e = creator]
  /\ mutex = [e \in End |-> None]
  /\ fat = [e \in End |-> FALSE]
  /\ last = [e \in End |-> None]
  /\ listed = [e \in End |-> {}]
  /\ carries = [t \in Threads |-> FALSE]
  /\ shown = [t \in Threads |-> FALSE]
  /\ turn = [e \in End |-> <<>>]
  /\ stop = [e \in End |-> None]
  /\ race = "none"

Go(t, next) == pc' = [pc EXCEPT ![t] = next]

\* The thread runs Java code or VM code in THREAD_RUNNING: not suspended.
Running(e) == stop[e] = None

\* offSyncPullDo waits until the revision it was sent is the next to be pulled.
MyTurn(t) == turn[at[t]] # <<>> /\ Head(turn[at[t]]) = t

-----------------------------------------------------------------------------
(* Monitor entry and exit, vm/Sync.cpp. *)

\* monitor-enter.
LockObject(t) ==
  /\ pc[t] = "run" /\ Running(at[t])
  /\ Go(t, "want")
  /\ UNCHANGED <<at, then, own, mutex, fat, last, listed, carries, shown,
                 turn, stop, race>>

\* Mutant: the ownership is not checked.
EnterUnowned(t) ==
  LET e == at[t]
  IN /\ pc[t] = "want" /\ Running(e)
     /\ mutex[e] = None
     /\ mutex' = [mutex EXCEPT ![e] = t]
     /\ \E spun \in BOOLEAN : fat' = [fat EXCEPT ![e] = @ \/ spun]
     /\ Go(t, "hold")
     /\ UNCHANGED <<at, then, own, last, listed, carries, shown, turn, stop,
                    race>>

\* Owned and free: a thin lock is taken by the compare-and-swap, a fat one by
\* dvmTryLockMutex.  A thread that had to spin for the thin lock inflates it.
Enter(t) ==
  LET e == at[t]
  IN /\ pc[t] = "want" /\ Running(e) /\ own[e]
     /\ mutex[e] = None
     /\ mutex' = [mutex EXCEPT ![e] = t]
     /\ \E spun \in BOOLEAN : fat' = [fat EXCEPT ![e] = @ \/ spun]
     /\ Go(t, "hold")
     /\ UNCHANGED <<at, then, own, last, listed, carries, shown, turn, stop,
                    race>>

\* Owned, fat and taken: lockMonitor waits in THREAD_MONITOR.  (For a taken
\* thin lock the spin loop goes back to the ownership check, "want".)
Block(t) ==
  LET e == at[t]
  IN /\ pc[t] \in {"want", "again"} /\ Running(e) /\ own[e] /\ fat[e]
     /\ pc[t] = "want" => mutex[e] # None
     /\ Go(t, "block")
     /\ UNCHANGED <<at, then, own, mutex, fat, last, listed, carries, shown,
                    turn, stop, race>>

\* dvmLockMutex succeeds, whether or not the VM is suspended.
Acquire(t) ==
  LET e == at[t]
  IN /\ pc[t] = "block" /\ mutex[e] = None
     /\ mutex' = [mutex EXCEPT ![e] = t]
     /\ Go(t, "got")
     /\ UNCHANGED <<at, then, own, fat, last, listed, carries, shown, turn,
                    stop, race>>

\* suspendCount is not zero: give the mutex back and check the ownership again.
BackOff(t) ==
  LET e == at[t]
  IN /\ pc[t] = "got" /\ stop[e] # None
     /\ mutex' = [mutex EXCEPT ![e] = None]
     /\ Go(t, "again")
     /\ UNCHANGED <<at, then, own, fat, last, listed, carries, shown, turn,
                    stop, race>>

\* suspendCount is zero: the thread is in, with no look at the ownership.
GetIn(t) ==
  LET e == at[t]
  IN /\ pc[t] = "got" /\ Running(e)
     /\ Go(t, "hold")
     /\ race' = IF own[e] THEN race ELSE "stolen"
     /\ UNCHANGED <<at, then, own, mutex, fat, last, listed, carries, shown,
                    turn, stop>>

\* monitor-exit: unlockMonitor records lastOwner, then offInsertIntoLockList.
UnlockObject(t) ==
  LET e == at[t]
  IN /\ pc[t] = "hold" /\ Running(e)
     /\ mutex' = [mutex EXCEPT ![e] = None]
     /\ last' = [last EXCEPT ![e] = IF fat[e] THEN t ELSE @]
     /\ listed' = [listed EXCEPT ![e] = @ \cup {t}]
     /\ Go(t, "run")
     /\ UNCHANGED <<at, then, own, fat, carries, shown, turn, stop, race>>

-----------------------------------------------------------------------------
(* Asking for the ownership, offload/Sync.cpp. *)

\* offEnsureLockOwnership: not the owner, send OFF_ACTION_LOCK and wait.
Ask(t) ==
  /\ pc[t] \in {"want", "again"} /\ Running(at[t]) /\ ~own[at[t]]
  /\ then' = [then EXCEPT ![t] = pc[t]]
  /\ Go(t, "ask")
  /\ UNCHANGED <<at, own, mutex, fat, last, listed, carries, shown, turn,
                 stop, race>>

\* offPerformLock on a free thin lock: lockMonitorNoOwn installs a monitor whose
\* mutex the daemon has, and the daemon checks the ownership before it can be
\* suspended: it denies the request and unlocks, or goes on to the push.
DaemonFatten(t) ==
  LET p == Peer(at[t])
  IN /\ pc[t] = "ask" /\ Running(p) /\ ~fat[p]
     /\ mutex[p] = None
     /\ fat' = [fat EXCEPT ![p] = TRUE]
     /\ \/ /\ own[p]
           /\ mutex' = [mutex EXCEPT ![p] = t]
           /\ Go(t, "dpush")
        \/ /\ ~own[p]
           /\ Go(t, then[t])
           /\ UNCHANGED mutex
     /\ UNCHANGED <<at, then, own, last, listed, carries, shown, turn, stop,
                    race>>

\* lockMonitorNoOwn on a fat lock: to THREAD_MONITOR and dvmLockMutex.
DaemonLock(t) ==
  LET p == Peer(at[t])
  IN /\ pc[t] = "ask" /\ Running(p) /\ fat[p]
     /\ Go(t, "dlock")
     /\ UNCHANGED <<at, then, own, mutex, fat, last, listed, carries, shown,
                    turn, stop, race>>

\* dvmLockMutex succeeds, whether or not the VM is suspended.
DaemonAcquire(t) ==
  LET p == Peer(at[t])
  IN /\ pc[t] = "dlock" /\ mutex[p] = None
     /\ mutex' = [mutex EXCEPT ![p] = t]
     /\ Go(t, "dlocked")
     /\ UNCHANGED <<at, then, own, fat, last, listed, carries, shown, turn,
                    stop, race>>

\* Mutant: unlockMonitorNoOwn is missing on the way out.
DenyLocked(t) ==
  LET p == Peer(at[t])
  IN /\ pc[t] = "dlocked" /\ Running(p) /\ ~own[p]
     /\ Go(t, then[t])
     /\ UNCHANGED <<at, then, own, mutex, fat, last, listed, carries, shown, turn,
                    stop, race>>

\* offPerformLock on a fat lock, once dvmChangeStatus lets the daemon run: not
\* ours to give.
Deny(t) ==
  LET p == Peer(at[t])
  IN /\ pc[t] = "dlocked" /\ Running(p) /\ ~own[p]
     /\ mutex' = [mutex EXCEPT ![p] = None]
     /\ Go(t, then[t])
     /\ UNCHANGED <<at, then, own, fat, last, listed, carries, shown, turn,
                    stop, race>>

\* offPerformLock: ours; on to offSyncPushDoIf.
Promise(t) ==
  LET p == Peer(at[t])
  IN /\ pc[t] = "dlocked" /\ Running(p) /\ own[p]
     /\ Go(t, "dpush")
     /\ UNCHANGED <<at, then, own, mutex, fat, last, listed, carries, shown,
                    turn, stop, race>>

\* dvmSuspendAllThreads and clearOwnership, which unlocks the mutex and sends
\* the grant whether or not the ownership is still here.  The daemon had the
\* mutex, so the stacks it pushes show nobody inside the monitor.
ClearOwnership(t) ==
  LET p == Peer(at[t])
  IN /\ pc[t] = "dpush" /\ Running(p)
     /\ stop' = [stop EXCEPT ![p] = t]
     /\ mutex' = [mutex EXCEPT ![p] = None]
     /\ own' = [own EXCEPT ![p] = FALSE]
     /\ carries' = [carries EXCEPT ![t] = TRUE]
     /\ shown' = [shown EXCEPT ![t] = FALSE]
     /\ turn' = [turn EXCEPT ![at[t]] = Append(@, t)]
     /\ race' = IF own[p] THEN race ELSE "twice"
     /\ Go(t, "dsent")
     /\ UNCHANGED <<at, then, fat, last, listed>>

\* The end of offSyncPushDoIf's suspension; the data follows.
DaemonResume(t) ==
  /\ pc[t] = "dsent"
  /\ stop' = [stop EXCEPT ![Peer(at[t])] = None]
  /\ Go(t, "granted")
  /\ UNCHANGED <<at, then, own, mutex, fat, last, listed, carries, shown,
                 turn, race>>

\* offSyncPullDo with setOwnership: suspend, take the ownership, resume.
SetOwnership(t) ==
  /\ pc[t] = "granted" /\ Running(at[t]) /\ MyTurn(t)
  /\ turn' = [turn EXCEPT ![at[t]] = Tail(@)]
  /\ own' = [own EXCEPT ![at[t]] = TRUE]
  /\ carries' = [carries EXCEPT ![t] = FALSE]
  /\ Go(t, then[t])
  /\ UNCHANGED <<at, then, mutex, fat, last, listed, shown, stop, race>>

-----------------------------------------------------------------------------
(* Migration, offload/Engine.cpp. *)

\* offMigrateThread: the scheduler moves the thread, or on the server
\* dvmLockObject does instead of asking for a lock; there the thread executes
\* monitor-enter again after the move.
Migrate(t) ==
  /\ pc[t] \in {"run", "hold", "want"} /\ Running(at[t])
  /\ pc[t] = "want" => at[t] = "server" /\ ~own[at[t]]
  /\ then' = [then EXCEPT ![t] = pc[t]]
  /\ Go(t, "leave")
  /\ UNCHANGED <<at, own, mutex, fat, last, listed, carries, shown, turn,
                 stop, race>>

\* A local thread that has entered the monitor, mon->owner.
InsideAt(u, e) ==
  /\ at[u] = e
  /\ pc[u] = "hold" \/ (pc[u] = "leave" /\ then[u] = "hold")

\* doDeactivate's test on an object of the offLockList: nobody is seen to hold
\* it, and a fat lock was last released by this thread.
MayGive(t) ==
  LET e == at[t]
  IN /\ t \in listed[e] /\ own[e]
     /\ \A u \in Threads : ~InsideAt(u, e)
     /\ fat[e] => last[e] = t

\* Mutant: the given ownership is not cleared here.
DeactivateKeep(t) ==
  LET e == at[t]
      held == then[t] = "hold"
  IN /\ pc[t] = "leave" /\ Running(e)
     /\ stop' = [stop EXCEPT ![e] = t]
     /\ mutex' = [mutex EXCEPT ![e] = IF held THEN None ELSE @]
     /\ shown' = [shown EXCEPT ![t] = \E u \in Threads : InsideAt(u, e)]
     /\ fat' = [fat EXCEPT ![e] = @ \/ shown'[t]]
     /\ turn' = [turn EXCEPT ![Peer(e)] = Append(@, t)]
     /\ \E give \in BOOLEAN :
          /\ give => MayGive(t)
          /\ own' = [own EXCEPT ![e] = @ /\ ~held]
          /\ carries' = [carries EXCEPT ![t] = held \/ give]
     /\ Go(t, "sent")
     /\ UNCHANGED <<at, then, last, listed, race>>

\* offSyncPushDoIf with doDeactivate, up to the resume.  offPushAllStacks
\* has fattened the monitor if a local thread is in it; offReduceMonitors gives up its
\* ownership, then its mutex.  The offLockList has room for few objects and
\* may have lost this one.
Deactivate(t) ==
  LET e == at[t]
      held == then[t] = "hold"
  IN /\ pc[t] = "leave" /\ Running(e)
     /\ stop' = [stop EXCEPT ![e] = t]
     /\ mutex' = [mutex EXCEPT ![e] = IF held THEN None ELSE @]
     /\ shown' = [shown EXCEPT ![t] = \E u \in Threads : InsideAt(u, e)]
     /\ fat' = [fat EXCEPT ![e] = @ \/ shown'[t]]
     /\ turn' = [turn EXCEPT ![Peer(e)] = Append(@, t)]
     /\ \E give \in BOOLEAN :
          /\ give => MayGive(t)
          /\ own' = [own EXCEPT ![e] = @ /\ ~held /\ ~give]
          /\ carries' = [carries EXCEPT ![t] = held \/ give]
     /\ Go(t, "sent")
     /\ UNCHANGED <<at, then, last, listed, race>>

\* The end of the suspension; the stack and the ownerships are on their way.
Depart(t) ==
  /\ pc[t] = "sent"
  /\ stop' = [stop EXCEPT ![at[t]] = None]
  /\ at' = [at EXCEPT ![t] = Peer(@)]
  /\ Go(t, "arrive")
  /\ UNCHANGED <<then, own, mutex, fat, last, listed, carries, shown, turn,
                 race>>

\* offPerformMigrate, activate: offSyncPullDo suspends the VM.  If the
\* pulled stacks show the monitor held, offReceiveMonitors makes it fat.
Pull(t) ==
  LET e == at[t]
  IN /\ pc[t] = "arrive" /\ Running(e) /\ MyTurn(t)
     /\ stop' = [stop EXCEPT ![e] = t]
     /\ fat' = [fat EXCEPT ![e] = @ \/ shown[t]]
     /\ Go(t, "pull")
     /\ UNCHANGED <<at, then, own, mutex, last, listed, carries, shown,
                    turn, race>>

\* doActivate and the resume: promoteMonitor takes the mutex of a monitor the
\* thread holds, while the VM is suspended.
Activate(t) ==
  LET e == at[t]
      held == then[t] = "hold"
  IN /\ pc[t] = "pull"
     /\ held => mutex[e] = None
     /\ mutex' = [mutex EXCEPT ![e] = IF held THEN t ELSE @]
     /\ own' = [own EXCEPT ![e] = @ \/ carries[t]]
     /\ listed' = [listed EXCEPT ![e] = IF carries[t] /\ ~held THEN @ \cup {t} ELSE @]
     /\ carries' = [carries EXCEPT ![t] = FALSE]
     /\ turn' = [turn EXCEPT ![e] = Tail(@)]
     /\ stop' = [stop EXCEPT ![e] = None]
     /\ Go(t, then[t])
     /\ UNCHANGED <<at, then, fat, last, shown, race>>

-----------------------------------------------------------------------------
Step(t) ==
  \/ LockObject(t) \/ Enter(t) \/ Block(t) \/ Acquire(t) \/ BackOff(t)
  \/ GetIn(t) \/ UnlockObject(t)
  \/ Ask(t) \/ DaemonFatten(t) \/ DaemonLock(t) \/ DaemonAcquire(t)
  \/ Deny(t) \/ Promise(t) \/ ClearOwnership(t) \/ DaemonResume(t)
  \/ SetOwnership(t)
  \/ Migrate(t) \/ Deactivate(t) \/ Depart(t) \/ Pull(t) \/ Activate(t)

Next == race = "none" /\ \E t \in Threads : Step(t)

Spec == Init /\ [][Next]_vars

\* Every thread that can go on does so.
FairSpec == Spec /\ \A t \in Threads : WF_vars(race = "none" /\ Step(t))
-----------------------------------------------------------------------------
(* The properties. *)

\* Types: program counters, endpoints and who holds what.
TypeOK ==
  /\ at \in [Threads -> End]
  /\ pc \in [Threads -> Pc]
  /\ then \in [Threads -> {"run", "want", "again", "hold"}]
  /\ own \in [End -> BOOLEAN]
  /\ mutex \in [End -> Threads \cup {None}]
  /\ fat \in [End -> BOOLEAN]
  /\ last \in [End -> Threads \cup {None}]
  /\ listed \in [End -> SUBSET Threads]
  /\ carries \in [Threads -> BOOLEAN]
  /\ shown \in [Threads -> BOOLEAN]
  /\ turn \in [End -> Seq(Threads)]
  /\ stop \in [End -> Threads \cup {None}]
  /\ race \in {"none", "twice", "stolen"}

\* The ownership is in exactly one place: the isLockOwner bit of one endpoint,
\* or one message on its way.
OneOwner ==
  /\ ~(own["phone"] /\ own["server"])
  /\ \A t \in Threads : carries[t] => ~own["phone"] /\ ~own["server"]
  /\ \A t, u \in Threads : carries[t] /\ carries[u] => t = u
  /\ own["phone"] \/ own["server"] \/ \E t \in Threads : carries[t]

\* As long as no race has happened, granting, denying and migrating neither
\* lose nor duplicate the ownership (setObjectOwnership, doDeactivate,
\* doActivate).
OwnershipConserved == race = "none" => OneOwner

\* Being inside the monitor, also while the thread is moved with it.
Inside(t) == pc[t] = "hold" \/ (pc[t] \in MovePc /\ then[t] = "hold")

\* As long as no race has happened, at most one thread of both endpoints
\* together is inside the monitor, and a local one holds the mutex of an
\* endpoint that owns the lock (Owned-Locked, Sync.h).
Exclusive ==
  race = "none" =>
    /\ \A t, u \in Threads : Inside(t) /\ Inside(u) => t = u
    /\ \A t \in Threads, e \in End : InsideAt(t, e) => own[e] /\ mutex[e] = t

\* The mutex is never left locked by a conversation that is over, and nobody
\* who believes to have it lacks it: what a missing or doubled dvmUnlockMutex
\* on one of the paths through offPerformLock or lockMonitor would break.
HasMutex(t, e) ==
  \/ at[t] = e /\ (pc[t] \in {"got", "hold"} \/ (pc[t] = "leave" /\ then[t] = "hold"))
  \/ at[t] # e /\ pc[t] \in {"dlocked", "dpush"}

MutexAccounted == \A t \in Threads, e \in End : mutex[e] = t <=> HasMutex(t, e)

-----------------------------------------------------------------------------
(* What the comments of the code say, and the code does not do. *)

\* offload/Sync.cpp, offPerformLock: a grant is cancelled if the ownership has
\* gone by the time the VM is suspended.
GrantsWhatItOwns == [][\A t \in Threads :
  pc[t] = "dpush" /\ pc'[t] = "dsent" => own[Peer(at[t])]]_vars

\* offload/Sync.h: all monitors held by a local thread are Owned-Locked.
HeldIsOwned == \A t \in Threads : pc[t] = "hold" => own[at[t]]

\* offload/Sync.h: a thread that becomes local turns its feigned locks into
\* owned ones: doActivate ends, or a race has ended the behaviour.
Promoted == \A t \in Threads :
  pc[t] = "pull" ~> (pc[t] # "pull" \/ race # "none")
=============================================================================
