----------------------------- MODULE Suspension -----------------------------
(***************************************************************************)
(* Stopping the threads of one VM: dvmSuspendAllThreads,                   *)
(* dvmResumeAllThreads, fullSuspendCheck and dvmChangeStatus of            *)
(* vm/Thread.cpp, with the thread list that attaching, new and leaving     *)
(* threads change, and the heap lock.  Every push and every pull of        *)
(* offload/Comm.cpp, the clean-up of offload/Recovery.cpp and every        *)
(* collection works on the premise that nobody else runs meanwhile.        *)
(*                                                                         *)
(* A thread's status follows from where it is: RUNNING in the places of    *)
(* Running, SUSPENDED when asleep, and one of the states in which it       *)
(* leaves the heap alone (NATIVE, VMWAIT, INITIALIZING, STARTING)          *)
(* elsewhere.  What is done under threadSuspendCountLock is one step.      *)
(*                                                                         *)
(* Left out: suspensions of the debugger, which may overlap, and the       *)
(* timeouts after which the VM aborts.                                     *)
(***************************************************************************)

EXTENDS Naturals

CONSTANTS
  Threads,
  None,
  MaxStops     \* bound: suspensions

ASSUME SuspensionAssumption ==
  /\ None \notin Threads
  /\ MaxStops \in Nat

VARIABLES
  pc,      \* where the thread is
  back,    \* where rise and asleep lead
  sc,      \* suspendCount
  signal,  \* sleepers the broadcast has reached
  todo,    \* threads the suspending one has yet to see stopped
  cause,   \* what the thread stops the others for
  heap,    \* who has gcHeapLock
  child,   \* the thread it has made and not let go
  stops,   \* suspensions so far
  race     \* somebody runs in a stopped VM, and how; the end

vars == <<pc, back, sc, signal, todo, cause, heap, child, stops, race>>

(***************************************************************************)
(* none      no thread                attach   wants to be in threadList   *)
(* pulse     in it, to lock and unlock gcHeapLock                          *)
(* starting  made by another thread, in threadList, waits for it           *)
(* native    outside the VM           asleep   in fullSuspendCheck         *)
(* list      in dvmLockThreadList     looking  has the list, e.g. getStatus *)
(* birth     wants to add its child   release  wants to let its child go   *)
(* leave     wants to be off threadList                                    *)
(* heap      in dvmLockHeap, blocked                                       *)
(* rise      RUNNING stored, suspendCount not yet looked at                *)
(* run       interprets               made     its child is in threadList  *)
(* try       in dvmLockHeap           want     in lockThreadSuspend        *)
(* slist     wants the list, to count                                      *)
(* gather    has counted, waits for the others to stop                     *)
(* world     dvmSuspendAllThreads has returned                             *)
(* rwant     in dvmResumeAllThreads   rlist    wants the list, to count    *)
(* cast      to broadcast                                                  *)
(***************************************************************************)
Executing ==
  {"run", "made", "looking", "try", "want", "gather", "world", "rwant", "cast"}

Pc == Executing \cup
  {"none", "attach", "pulse", "starting", "native", "asleep", "list", "birth",
   "release", "leave", "heap", "rise", "slist", "rlist"}

\* Mutant: dvmLockThreadList blocks without a change of status.
RunningAtLock(t) == pc[t] \in Executing \cup {"rise", "list"}

\* thread->status is THREAD_RUNNING.
Running(t) == pc[t] \in Executing \cup {"rise"}

\* The thread is in gDvm.threadList.
Listed(t) == pc[t] \notin {"none", "attach"}

\* threadListLock and _threadSuspendLock are free.
ListFree == \A t \in Threads : pc[t] \notin {"looking", "gather"}
SuspendFree == \A t \in Threads : pc[t] \notin {"slist", "gather", "rlist"}

\* The VM is stopped, for thread u.
Stopped(u) == pc[u] \in {"world", "rwant", "rlist"}

Init ==
  /\ pc \in [Threads -> {"run", "none"}]
  /\ back = [t \in Threads |-> "run"]
  /\ sc = [t \in Threads |-> 0]
  /\ signal = {}
  /\ todo = {}
  /\ cause = [t \in Threads |-> "none"]
  /\ heap = None
  /\ child = [t \in Threads |-> None]
  /\ stops = 0
  /\ race = "none"

Go(t, next) == pc' = [pc EXCEPT ![t] = next]

\* The thread takes part in the VM again; with the VM stopped, that is the end.
Resume(t, how) ==
  race' = IF \E u \in Threads \ {t} : Stopped(u) THEN how ELSE "none"

-----------------------------------------------------------------------------
(* Running, and stopping by oneself. *)

\* dvmChangeStatus to a state other than RUNNING.
GoNative(t) ==
  /\ pc[t] = "run"
  /\ Go(t, "native")
  /\ back' = [back EXCEPT ![t] = "run"]
  /\ UNCHANGED <<sc, signal, todo, cause, heap, child, stops, race>>

\* dvmChangeStatus to RUNNING, up to the store.
Rise(t) ==
  /\ pc[t] = "native"
  /\ Go(t, "rise")
  /\ UNCHANGED <<back, sc, signal, todo, cause, heap, child, stops, race>>

\* fullSuspendCheck with a suspendCount that is not 0.
Sleep(t, then) ==
  /\ sc[t] # 0
  /\ Go(t, "asleep")
  /\ back' = [back EXCEPT ![t] = then]
  /\ signal' = signal \ {t}
  /\ UNCHANGED <<sc, todo, cause, heap, child, stops, race>>

\* Mutant: the suspendCount is not looked at after the store.
SettleUnchecked(t) ==
  /\ pc[t] = "rise"
  /\ Go(t, back[t])
  /\ UNCHANGED <<back, sc, signal, todo, cause, heap, child, stops, race>>

\* The rest of dvmChangeStatus: suspendCount is looked at.
Settle(t) ==
  /\ pc[t] = "rise"
  /\ \/ Sleep(t, back[t])
     \/ /\ sc[t] = 0
        /\ Go(t, back[t])
        /\ Resume(t, "attached")
        /\ UNCHANGED <<back, sc, signal, todo, cause, heap, child, stops>>

\* dvmCheckSuspendPending at a safe point of the interpreter.
Poll(t) ==
  /\ pc[t] = "run"
  /\ Sleep(t, "run")

\* dvmWaitCond returns after a broadcast; the loop looks at suspendCount again.
Wake(t) ==
  /\ pc[t] = "asleep" /\ t \in signal
  /\ signal' = signal \ {t}
  /\ IF sc[t] = 0 THEN Go(t, back[t]) ELSE UNCHANGED pc
  /\ UNCHANGED <<back, sc, todo, cause, heap, child, stops, race>>

\* dvmWaitCond returns for no reason.
SpuriousWake(t) ==
  /\ pc[t] = "asleep" /\ t \notin signal /\ sc[t] = 0
  /\ Go(t, back[t])
  /\ UNCHANGED <<back, sc, signal, todo, cause, heap, child, stops, race>>

-----------------------------------------------------------------------------
(* The thread list. *)

\* dvmLockThreadList by a running thread: VMWAIT for as long as it blocks.
LockThreadList(t) ==
  /\ pc[t] = "run"
  /\ Go(t, "list")
  /\ UNCHANGED <<back, sc, signal, todo, cause, heap, child, stops, race>>

\* It has the lock: the old status is stored, with no look at suspendCount.
HaveThreadList(t) ==
  /\ pc[t] = "list" /\ ListFree
  /\ Go(t, "looking")
  /\ Resume(t, "list")
  /\ UNCHANGED <<back, sc, signal, todo, cause, heap, child, stops>>

\* dvmUnlockThreadList.
UnlockThreadList(t) ==
  /\ pc[t] = "looking"
  /\ Go(t, "run")
  /\ UNCHANGED <<back, sc, signal, todo, cause, heap, child, stops, race>>

\* dvmAttachCurrentThread, up to the thread list.
Attach(t) ==
  /\ pc[t] = "none" /\ \A u \in Threads : child[u] # t
  /\ Go(t, "attach")
  /\ UNCHANGED <<back, sc, signal, todo, cause, heap, child, stops, race>>

\* It puts itself into the list, whoever is suspended, with suspendCount 0.
AttachList(t) ==
  /\ pc[t] = "attach" /\ ListFree
  /\ Go(t, "pulse")
  /\ UNCHANGED <<back, sc, signal, todo, cause, heap, child, stops, race>>

\* VMWAIT, the heap lock locked and unlocked, and RUNNING.
AttachPulse(t) ==
  /\ pc[t] = "pulse" /\ heap = None
  /\ Go(t, "rise")
  /\ back' = [back EXCEPT ![t] = "run"]
  /\ UNCHANGED <<sc, signal, todo, cause, heap, child, stops, race>>

\* dvmCreateInterpThread: the pthread is created, and the list wanted.
Create(t, u) ==
  /\ pc[t] = "run" /\ pc[u] = "none" /\ \A w \in Threads : child[w] # u
  /\ child' = [child EXCEPT ![t] = u]
  /\ Go(t, "birth")
  /\ UNCHANGED <<back, sc, signal, todo, cause, heap, stops, race>>

\* The child goes into the list; the parent, VMWAIT by then, changes to RUNNING.
CreateList(t) ==
  /\ pc[t] = "birth" /\ ListFree
  /\ pc' = [pc EXCEPT ![t] = "rise", ![child[t]] = "starting"]
  /\ back' = [back EXCEPT ![t] = "made"]
  /\ UNCHANGED <<sc, signal, todo, cause, heap, child, stops, race>>

\* vmData and vmThread are set, and the list wanted again.
CreateMade(t) ==
  /\ pc[t] = "made"
  /\ Go(t, "release")
  /\ UNCHANGED <<back, sc, signal, todo, cause, heap, child, stops, race>>

\* The child's status becomes VMWAIT, and it goes on to RUNNING by itself.
CreateRelease(t) ==
  /\ pc[t] = "release" /\ ListFree
  /\ pc' = [pc EXCEPT ![t] = "run", ![child[t]] = "native"]
  /\ back' = [back EXCEPT ![child[t]] = "run"]
  /\ child' = [child EXCEPT ![t] = None]
  /\ Resume(t, "list")
  /\ UNCHANGED <<sc, signal, todo, cause, heap, stops>>

\* dvmDetachCurrentThread, when it is done with objects: VMWAIT.
Detach(t) ==
  /\ pc[t] = "run"
  /\ Go(t, "leave")
  /\ UNCHANGED <<back, sc, signal, todo, cause, heap, child, stops, race>>

\* unlinkThread and freeThread.
DetachUnlink(t) ==
  /\ pc[t] = "leave" /\ ListFree
  /\ Go(t, "none")
  /\ sc' = [sc EXCEPT ![t] = 0]
  /\ UNCHANGED <<back, signal, todo, cause, heap, child, stops, race>>

-----------------------------------------------------------------------------
(* Stopping the others. *)

\* A push, a pull or a collection begins; only a push leaves the heap lock alone.
Begin(t, why) ==
  /\ pc[t] = "run" /\ stops < MaxStops
  /\ stops' = stops + 1
  /\ cause' = [cause EXCEPT ![t] = why]
  /\ Go(t, IF why = "push" THEN "want" ELSE "try")
  /\ UNCHANGED <<back, sc, signal, todo, heap, child, race>>

\* dvmLockHeap: the lock is taken only if it is free at once.
LockHeap(t) ==
  /\ pc[t] = "try"
  /\ \/ heap = None /\ heap' = t /\ Go(t, "want")
     \/ heap # None /\ Go(t, "heap") /\ UNCHANGED heap
  /\ UNCHANGED <<back, sc, signal, todo, cause, child, stops, race>>

\* Otherwise the thread waits in VMWAIT until it has been free, and tries again.
HeapFree(t) ==
  /\ pc[t] = "heap" /\ heap = None
  /\ Go(t, "rise")
  /\ back' = [back EXCEPT ![t] = "try"]
  /\ UNCHANGED <<sc, signal, todo, cause, heap, child, stops, race>>

\* lockThreadSuspend: the lock, or a suspend check and another try.
LockThreadSuspend(t, mine, next) ==
  /\ pc[t] = mine
  /\ \/ /\ SuspendFree
        /\ Go(t, next)
        /\ UNCHANGED <<back, sc, signal, todo, cause, heap, child, stops, race>>
     \/ ~SuspendFree /\ Sleep(t, mine)

SuspendLock(t) == LockThreadSuspend(t, "want", "slist")

\* With the thread list locked, every other thread is counted.
SuspendCount(t) ==
  /\ pc[t] = "slist" /\ ListFree
  /\ sc' = [u \in Threads |-> IF Listed(u) /\ u # t THEN sc[u] + 1 ELSE sc[u]]
  /\ todo' = {u \in Threads : Listed(u) /\ u # t}
  /\ Go(t, "gather")
  /\ UNCHANGED <<back, signal, cause, heap, child, stops, race>>

\* waitForThreadSuspend for one of them: its status is no longer RUNNING.
WaitForThread(t) ==
  /\ pc[t] = "gather"
  /\ \E u \in todo : ~Running(u) /\ todo' = todo \ {u}
  /\ UNCHANGED <<pc, back, sc, signal, cause, heap, child, stops, race>>

\* The list and the suspend lock are released; a pull releases the heap lock.
SuspendDone(t) ==
  /\ pc[t] = "gather" /\ todo = {}
  /\ Go(t, "world")
  /\ heap' = IF cause[t] = "pull" THEN None ELSE heap
  /\ UNCHANGED <<back, sc, signal, todo, cause, child, stops, race>>

\* dvmResumeAllThreads.
ResumeAll(t) ==
  /\ pc[t] = "world"
  /\ Go(t, "rwant")
  /\ UNCHANGED <<back, sc, signal, todo, cause, heap, child, stops, race>>

ResumeLock(t) == LockThreadSuspend(t, "rwant", "rlist")

\* Mutant: only the sleeping ones are counted down.
ResumeSleepers(t) ==
  /\ pc[t] = "rlist" /\ ListFree
  /\ sc' = [u \in Threads |->
              IF pc[u] = "asleep" /\ u # t /\ sc[u] > 0 THEN sc[u] - 1 ELSE sc[u]]
  /\ Go(t, "cast")
  /\ UNCHANGED <<back, signal, todo, cause, heap, child, stops, race>>

\* Every other thread is counted down, unless it is at 0; both locks go.
ResumeCount(t) ==
  /\ pc[t] = "rlist" /\ ListFree
  /\ sc' = [u \in Threads |->
              IF Listed(u) /\ u # t /\ sc[u] > 0 THEN sc[u] - 1 ELSE sc[u]]
  /\ Go(t, "cast")
  /\ UNCHANGED <<back, signal, todo, cause, heap, child, stops, race>>

\* Mutant: the broadcast is left out.
BroadcastNobody(t) ==
  /\ pc[t] = "cast"
  /\ Go(t, "run")
  /\ heap' = IF cause[t] = "gc" THEN None ELSE heap
  /\ cause' = [cause EXCEPT ![t] = "none"]
  /\ UNCHANGED <<back, sc, signal, todo, child, stops, race>>

\* The broadcast on threadSuspendCountCond, and the end of a collection.
Broadcast(t) ==
  /\ pc[t] = "cast"
  /\ signal' = {u \in Threads : pc[u] = "asleep"}
  /\ Go(t, "run")
  /\ heap' = IF cause[t] = "gc" THEN None ELSE heap
  /\ cause' = [cause EXCEPT ![t] = "none"]
  /\ UNCHANGED <<back, sc, todo, child, stops, race>>

-----------------------------------------------------------------------------
\* What a thread goes on to do once it has begun.
Continue(t) ==
  \/ Settle(t) \/ Poll(t) \/ Wake(t)
  \/ HaveThreadList(t) \/ UnlockThreadList(t)
  \/ AttachList(t) \/ AttachPulse(t)
  \/ CreateList(t) \/ CreateMade(t) \/ CreateRelease(t) \/ DetachUnlink(t)
  \/ LockHeap(t) \/ HeapFree(t) \/ SuspendLock(t) \/ SuspendCount(t)
  \/ WaitForThread(t) \/ SuspendDone(t) \/ ResumeAll(t) \/ ResumeLock(t)
  \/ ResumeCount(t) \/ Broadcast(t)

\* What it may do or not.
Choose(t) ==
  \/ GoNative(t) \/ Rise(t) \/ SpuriousWake(t) \/ LockThreadList(t)
  \/ Attach(t) \/ Detach(t)
  \/ \E u \in Threads : Create(t, u)
  \/ \E why \in {"push", "pull", "gc"} : Begin(t, why)

Next == race = "none" /\ \E t \in Threads : Continue(t) \/ Choose(t)

Spec == Init /\ [][Next]_vars

\* A thread that can go on does, and reaches safe points; a lock that is free
\* again and again is got.
FairSpec == Spec /\ \A t \in Threads : SF_vars(race = "none" /\ Continue(t))
-----------------------------------------------------------------------------
(* The properties. *)

TypeOK ==
  /\ pc \in [Threads -> Pc]
  /\ back \in [Threads -> {"run", "made", "try", "want", "rwant"}]
  /\ sc \in [Threads -> Nat]
  /\ signal \subseteq Threads
  /\ todo \subseteq Threads
  /\ cause \in [Threads -> {"none", "push", "pull", "gc"}]
  /\ heap \in Threads \cup {None}
  /\ child \in [Threads -> Threads \cup {None}]
  /\ stops \in 0 .. MaxStops
  /\ race \in {"none", "list", "attached"}

\* When dvmSuspendAllThreads has returned, and until dvmResumeAllThreads counts
\* down, no other thread executes and no other thread has the VM stopped; before
\* the first of the two races that the model records.
WorldStopped ==
  race = "none" =>
    \A t, u \in Threads : t # u /\ Stopped(u) => pc[t] \notin Executing /\ ~Stopped(t)

\* A thread is counted only while somebody else has the VM stopped or is stopping
\* it, so that nobody who comes or goes meanwhile is left with a count for ever
\* (AttachList and DetachUnlink between SuspendCount and ResumeCount).
CountedForSomebody ==
  race = "none" =>
    \A t \in Threads : sc[t] > 0 =>
      sc[t] = 1 /\ \E u \in Threads \ {t} : pc[u] = "gather" \/ Stopped(u)

\* A sleeper that is no longer counted has been reached by a broadcast, or will be:
\* the window between the count and the broadcast loses nobody.
NoLostWakeup ==
  \A t \in Threads : pc[t] = "asleep" /\ sc[t] = 0 =>
    t \in signal \/ \E u \in Threads : pc[u] = "cast"

\* Everybody who is put to sleep runs again, unless the VM has met a race.
Resumed == \A t \in Threads : pc[t] = "asleep" ~> (pc[t] # "asleep" \/ race # "none")

\* Whoever begins to stop the VM gets it stopped: no lock that a thread waits for
\* is held by one that waits for it to stop.
GetsStopped ==
  \A t \in Threads : pc[t] \in {"try", "want"} ~> (pc[t] = "world" \/ race # "none")

-----------------------------------------------------------------------------
(* What the comments of the code say, and the code does not do. *)

\* vm/Thread.cpp, dvmLockThreadList: with the list locked no suspension is in
\* progress, so nothing has to be checked.
ListLockEnough == race # "list"

\* vm/Thread.cpp, dvmAttachCurrentThread: a thread that attaches stalls until the
\* suspension is over.
AttachStalls == race # "attached"

\* vm/alloc/Heap.cpp, dvmLockHeap: nobody suspends itself holding the heap lock.
HeapHolderAwake == heap # None => pc[heap] # "asleep"
=============================================================================
