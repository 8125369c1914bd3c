-------------------------- MODULE SuspensionProofs --------------------------
(***************************************************************************)
(* Proofs about Suspension: type correctness, that a stopped VM is stopped *)
(* (WorldStopped), that nobody is left with a suspend count                *)
(* (CountedForSomebody) and that no wake-up is lost (NoLostWakeup), for    *)
(* any number of threads and of suspensions.                               *)
(***************************************************************************)
EXTENDS Suspension, TLAPS

(* The thread has its child in threadList and has not let it go. *)
HasMade(t) ==
  \/ pc[t] \in {"made", "release"}
  \/ pc[t] \in {"rise", "asleep"} /\ back[t] = "made"

(* A child is known to nobody but its parent until it is let go. *)
ChildInv ==
  /\ \A t \in Threads : pc[t] = "birth" => child[t] \in Threads /\ pc[child[t]] = "none"
  /\ \A t \in Threads : HasMade(t) => child[t] \in Threads /\ pc[child[t]] = "starting"
  /\ \A t \in Threads : child[t] # None => pc[t] = "birth" \/ HasMade(t)
  /\ \A t, u \in Threads : child[t] = child[u] /\ child[t] # None => t = u
  /\ \A t \in Threads : pc[t] = "native" => back[t] = "run"

(* The thread is in a suspension of its own. *)
Stopping(t) == pc[t] \in {"slist", "gather", "world", "rwant", "rlist"}

OneStops == \A t, u \in Threads : Stopping(t) /\ Stopping(u) => t = u

(* Who is not in the list is not counted. *)
UnlistedUncounted == \A t \in Threads : ~Listed(t) => sc[t] = 0

Counted ==
  \A t \in Threads : sc[t] # 0 =>
    sc[t] = 1 /\ \E u \in Threads : u # t /\ (pc[u] = "gather" \/ Stopped(u))

(* While one waits for the others all of them are counted, and those it has *)
(* seen stopped stay so.                                                    *)
Gathering ==
  \A t, u \in Threads : pc[u] = "gather" /\ t # u /\ Listed(t) =>
    sc[t] # 0 /\ (t \notin todo => pc[t] \notin Executing)

Quiet ==
  \A t, u \in Threads : Stopped(u) /\ t # u =>
    pc[t] \notin Executing /\ (pc[t] = "asleep" => sc[t] # 0)

(* Nobody goes to sleep in dvmResumeAllThreads. *)
NoSleepInResume ==
  \A t \in Threads : pc[t] \in {"rise", "asleep"} => back[t] # "rwant"

StopInv ==
  race = "none" =>
    OneStops /\ UnlistedUncounted /\ Counted /\ Gathering /\ Quiet /\ NoSleepInResume

IInv == TypeOK /\ ChildInv /\ NoLostWakeup /\ StopInv
-----------------------------------------------------------------------------
(* Each step preserves the parts of the invariant. *)

(* Types. *)
LEMMA TypeStep ==
  ASSUME TypeOK, [Next]_vars
  PROVE  TypeOK'
<1> USE SuspensionAssumption DEF TypeOK, Pc, Executing, Go
<1>1. ASSUME NEW t \in Threads, GoNative(t) PROVE TypeOK'
  BY <1>1 DEF GoNative
<1>2. ASSUME NEW t \in Threads, Rise(t) PROVE TypeOK'
  BY <1>2 DEF Rise
<1>3. ASSUME NEW t \in Threads, Settle(t) PROVE TypeOK'
  BY <1>3 DEF Settle, Sleep, Resume
<1>4. ASSUME NEW t \in Threads, Poll(t) PROVE TypeOK'
  BY <1>4 DEF Poll, Sleep
<1>5. ASSUME NEW t \in Threads, Wake(t) PROVE TypeOK'
  BY <1>5 DEF Wake
<1>6. ASSUME NEW t \in Threads, SpuriousWake(t) PROVE TypeOK'
  BY <1>6 DEF SpuriousWake
<1>7. ASSUME NEW t \in Threads, LockThreadList(t) PROVE TypeOK'
  BY <1>7 DEF LockThreadList
<1>8. ASSUME NEW t \in Threads, HaveThreadList(t) PROVE TypeOK'
  BY <1>8 DEF HaveThreadList, Resume
<1>9. ASSUME NEW t \in Threads, UnlockThreadList(t) PROVE TypeOK'
  BY <1>9 DEF UnlockThreadList
<1>10. ASSUME NEW t \in Threads, Attach(t) PROVE TypeOK'
  BY <1>10 DEF Attach
<1>11. ASSUME NEW t \in Threads, AttachList(t) PROVE TypeOK'
  BY <1>11 DEF AttachList
<1>12. ASSUME NEW t \in Threads, AttachPulse(t) PROVE TypeOK'
  BY <1>12 DEF AttachPulse
<1>13. ASSUME NEW t \in Threads, CreateList(t) PROVE TypeOK'
  BY <1>13 DEF CreateList
<1>14. ASSUME NEW t \in Threads, CreateMade(t) PROVE TypeOK'
  BY <1>14 DEF CreateMade
<1>15. ASSUME NEW t \in Threads, CreateRelease(t) PROVE TypeOK'
  BY <1>15 DEF CreateRelease, Resume
<1>16. ASSUME NEW t \in Threads, Detach(t) PROVE TypeOK'
  BY <1>16 DEF Detach
<1>17. ASSUME NEW t \in Threads, DetachUnlink(t) PROVE TypeOK'
  BY <1>17 DEF DetachUnlink
<1>18. ASSUME NEW t \in Threads, LockHeap(t) PROVE TypeOK'
  BY <1>18 DEF LockHeap
<1>19. ASSUME NEW t \in Threads, HeapFree(t) PROVE TypeOK'
  BY <1>19 DEF HeapFree
<1>20. ASSUME NEW t \in Threads, SuspendLock(t) PROVE TypeOK'
  BY <1>20 DEF SuspendLock, LockThreadSuspend, Sleep
<1>21. ASSUME NEW t \in Threads, SuspendCount(t) PROVE TypeOK'
  BY <1>21 DEF SuspendCount
<1>22. ASSUME NEW t \in Threads, WaitForThread(t) PROVE TypeOK'
  BY <1>22 DEF WaitForThread
<1>23. ASSUME NEW t \in Threads, SuspendDone(t) PROVE TypeOK'
  BY <1>23 DEF SuspendDone
<1>24. ASSUME NEW t \in Threads, ResumeAll(t) PROVE TypeOK'
  BY <1>24 DEF ResumeAll
<1>25. ASSUME NEW t \in Threads, ResumeLock(t) PROVE TypeOK'
  BY <1>25 DEF ResumeLock, LockThreadSuspend, Sleep
<1>26. ASSUME NEW t \in Threads, ResumeCount(t) PROVE TypeOK'
  BY <1>26 DEF ResumeCount
<1>27. ASSUME NEW t \in Threads, Broadcast(t) PROVE TypeOK'
  BY <1>27 DEF Broadcast
<1>28. ASSUME NEW t \in Threads, NEW u \in Threads, Create(t, u) PROVE TypeOK'
  BY <1>28 DEF Create
<1>29. ASSUME NEW t \in Threads, NEW why \in {"push", "pull", "gc"},
             Begin(t, why)
      PROVE  TypeOK'
  BY <1>29 DEF Begin
<1>30. CASE UNCHANGED vars
  BY <1>30 DEF vars
<1>31. QED
  BY <1>1, <1>2, <1>3, <1>4, <1>5, <1>6, <1>7, <1>8, <1>9, <1>10, <1>11,
    <1>12, <1>13, <1>14, <1>15, <1>16, <1>17, <1>18, <1>19, <1>20, <1>21,
    <1>22, <1>23, <1>24, <1>25, <1>26, <1>27, <1>28, <1>29, <1>30 DEF Next,
    Continue, Choose

(* Only its parent moves a child that has not been let go: Attach and Create *)
(* leave it alone, and a thread that rises with a child goes on to release it. *)
LEMMA ChildStep ==
  ASSUME TypeOK, ChildInv, [Next]_vars
  PROVE  ChildInv'
<1> USE SuspensionAssumption DEF TypeOK, ChildInv, HasMade, Pc, Executing, Go
<1>1. ASSUME NEW t \in Threads, GoNative(t) PROVE ChildInv'
  BY <1>1 DEF GoNative
<1>2. ASSUME NEW t \in Threads, Rise(t) PROVE ChildInv'
  BY <1>2 DEF Rise
<1>3. ASSUME NEW t \in Threads, Settle(t) PROVE ChildInv'
  BY <1>3 DEF Settle, Sleep, Resume
<1>4. ASSUME NEW t \in Threads, Poll(t) PROVE ChildInv'
  BY <1>4 DEF Poll, Sleep
<1>5. ASSUME NEW t \in Threads, Wake(t) PROVE ChildInv'
  BY <1>5 DEF Wake
<1>6. ASSUME NEW t \in Threads, SpuriousWake(t) PROVE ChildInv'
  BY <1>6 DEF SpuriousWake
<1>7. ASSUME NEW t \in Threads, LockThreadList(t) PROVE ChildInv'
  BY <1>7 DEF LockThreadList
<1>8. ASSUME NEW t \in Threads, HaveThreadList(t) PROVE ChildInv'
  BY <1>8 DEF HaveThreadList, Resume
<1>9. ASSUME NEW t \in Threads, UnlockThreadList(t) PROVE ChildInv'
  BY <1>9 DEF UnlockThreadList
<1>10. ASSUME NEW t \in Threads, Attach(t) PROVE ChildInv'
  BY <1>10 DEF Attach
<1>11. ASSUME NEW t \in Threads, AttachList(t) PROVE ChildInv'
  BY <1>11 DEF AttachList
<1>12. ASSUME NEW t \in Threads, AttachPulse(t) PROVE ChildInv'
  BY <1>12 DEF AttachPulse
<1>13. ASSUME NEW t \in Threads, CreateList(t) PROVE ChildInv'
  BY <1>13 DEF CreateList
<1>14. ASSUME NEW t \in Threads, CreateMade(t) PROVE ChildInv'
  BY <1>14 DEF CreateMade
<1>15. ASSUME NEW t \in Threads, CreateRelease(t) PROVE ChildInv'
  BY <1>15 DEF CreateRelease, Resume
<1>16. ASSUME NEW t \in Threads, Detach(t) PROVE ChildInv'
  BY <1>16 DEF Detach
<1>17. ASSUME NEW t \in Threads, DetachUnlink(t) PROVE ChildInv'
  BY <1>17 DEF DetachUnlink
<1>18. ASSUME NEW t \in Threads, LockHeap(t) PROVE ChildInv'
  BY <1>18 DEF LockHeap
<1>19. ASSUME NEW t \in Threads, HeapFree(t) PROVE ChildInv'
  BY <1>19 DEF HeapFree
<1>20. ASSUME NEW t \in Threads, SuspendLock(t) PROVE ChildInv'
  BY <1>20 DEF SuspendLock, LockThreadSuspend, Sleep
<1>21. ASSUME NEW t \in Threads, SuspendCount(t) PROVE ChildInv'
  BY <1>21 DEF SuspendCount
<1>22. ASSUME NEW t \in Threads, WaitForThread(t) PROVE ChildInv'
  BY <1>22 DEF WaitForThread
<1>23. ASSUME NEW t \in Threads, SuspendDone(t) PROVE ChildInv'
  BY <1>23 DEF SuspendDone
<1>24. ASSUME NEW t \in Threads, ResumeAll(t) PROVE ChildInv'
  BY <1>24 DEF ResumeAll
<1>25. ASSUME NEW t \in Threads, ResumeLock(t) PROVE ChildInv'
  BY <1>25 DEF ResumeLock, LockThreadSuspend, Sleep
<1>26. ASSUME NEW t \in Threads, ResumeCount(t) PROVE ChildInv'
  BY <1>26 DEF ResumeCount
<1>27. ASSUME NEW t \in Threads, Broadcast(t) PROVE ChildInv'
  BY <1>27 DEF Broadcast
<1>28. ASSUME NEW t \in Threads, NEW u \in Threads, Create(t, u)
      PROVE  ChildInv'
  BY <1>28 DEF Create
<1>29. ASSUME NEW t \in Threads, NEW why \in {"push", "pull", "gc"},
             Begin(t, why)
      PROVE  ChildInv'
  BY <1>29 DEF Begin
<1>30. CASE UNCHANGED vars
  BY <1>30 DEF vars
<1>31. QED
  BY <1>1, <1>2, <1>3, <1>4, <1>5, <1>6, <1>7, <1>8, <1>9, <1>10, <1>11,
    <1>12, <1>13, <1>14, <1>15, <1>16, <1>17, <1>18, <1>19, <1>20, <1>21,
    <1>22, <1>23, <1>24, <1>25, <1>26, <1>27, <1>28, <1>29, <1>30 DEF Next,
    Continue, Choose

(* Only ResumeCount takes the count from a sleeper, and then stands at cast. *)
LEMMA WakeupStep ==
  ASSUME TypeOK, ChildInv, NoLostWakeup, [Next]_vars
  PROVE  NoLostWakeup'
<1> USE SuspensionAssumption DEF TypeOK, ChildInv, NoLostWakeup, Pc,
  Executing, Go
<1>1. ASSUME NEW t \in Threads, GoNative(t) PROVE NoLostWakeup'
  BY <1>1 DEF GoNative
<1>2. ASSUME NEW t \in Threads, Rise(t) PROVE NoLostWakeup'
  BY <1>2 DEF Rise
<1>3. ASSUME NEW t \in Threads, Settle(t) PROVE NoLostWakeup'
  BY <1>3 DEF Settle, Sleep, Resume
<1>4. ASSUME NEW t \in Threads, Poll(t) PROVE NoLostWakeup'
  BY <1>4 DEF Poll, Sleep
<1>5. ASSUME NEW t \in Threads, Wake(t) PROVE NoLostWakeup'
  BY <1>5 DEF Wake
<1>6. ASSUME NEW t \in Threads, SpuriousWake(t) PROVE NoLostWakeup'
  BY <1>6 DEF SpuriousWake
<1>7. ASSUME NEW t \in Threads, LockThreadList(t) PROVE NoLostWakeup'
  BY <1>7 DEF LockThreadList
<1>8. ASSUME NEW t \in Threads, HaveThreadList(t) PROVE NoLostWakeup'
  BY <1>8 DEF HaveThreadList, Resume
<1>9. ASSUME NEW t \in Threads, UnlockThreadList(t) PROVE NoLostWakeup'
  BY <1>9 DEF UnlockThreadList
<1>10. ASSUME NEW t \in Threads, Attach(t) PROVE NoLostWakeup'
  BY <1>10 DEF Attach
<1>11. ASSUME NEW t \in Threads, AttachList(t) PROVE NoLostWakeup'
  BY <1>11 DEF AttachList
<1>12. ASSUME NEW t \in Threads, AttachPulse(t) PROVE NoLostWakeup'
  BY <1>12 DEF AttachPulse
<1>13. ASSUME NEW t \in Threads, CreateList(t) PROVE NoLostWakeup'
  BY <1>13 DEF CreateList
<1>14. ASSUME NEW t \in Threads, CreateMade(t) PROVE NoLostWakeup'
  BY <1>14 DEF CreateMade
<1>15. ASSUME NEW t \in Threads, CreateRelease(t) PROVE NoLostWakeup'
  BY <1>15 DEF CreateRelease, Resume
<1>16. ASSUME NEW t \in Threads, Detach(t) PROVE NoLostWakeup'
  BY <1>16 DEF Detach
<1>17. ASSUME NEW t \in Threads, DetachUnlink(t) PROVE NoLostWakeup'
  BY <1>17 DEF DetachUnlink
<1>18. ASSUME NEW t \in Threads, LockHeap(t) PROVE NoLostWakeup'
  BY <1>18 DEF LockHeap
<1>19. ASSUME NEW t \in Threads, HeapFree(t) PROVE NoLostWakeup'
  BY <1>19 DEF HeapFree
<1>20. ASSUME NEW t \in Threads, SuspendLock(t) PROVE NoLostWakeup'
  BY <1>20 DEF SuspendLock, LockThreadSuspend, Sleep
<1>21. ASSUME NEW t \in Threads, SuspendCount(t) PROVE NoLostWakeup'
  BY <1>21 DEF SuspendCount
<1>22. ASSUME NEW t \in Threads, WaitForThread(t) PROVE NoLostWakeup'
  BY <1>22 DEF WaitForThread
<1>23. ASSUME NEW t \in Threads, SuspendDone(t) PROVE NoLostWakeup'
  BY <1>23 DEF SuspendDone
<1>24. ASSUME NEW t \in Threads, ResumeAll(t) PROVE NoLostWakeup'
  BY <1>24 DEF ResumeAll
<1>25. ASSUME NEW t \in Threads, ResumeLock(t) PROVE NoLostWakeup'
  BY <1>25 DEF ResumeLock, LockThreadSuspend, Sleep
<1>26. ASSUME NEW t \in Threads, ResumeCount(t) PROVE NoLostWakeup'
  BY <1>26 DEF ResumeCount
<1>27. ASSUME NEW t \in Threads, Broadcast(t) PROVE NoLostWakeup'
  BY <1>27 DEF Broadcast
<1>28. ASSUME NEW t \in Threads, NEW u \in Threads, Create(t, u)
      PROVE  NoLostWakeup'
  BY <1>28 DEF Create
<1>29. ASSUME NEW t \in Threads, NEW why \in {"push", "pull", "gc"},
             Begin(t, why)
      PROVE  NoLostWakeup'
  BY <1>29 DEF Begin
<1>30. CASE UNCHANGED vars
  BY <1>30 DEF vars
<1>31. QED
  BY <1>1, <1>2, <1>3, <1>4, <1>5, <1>6, <1>7, <1>8, <1>9, <1>10, <1>11,
    <1>12, <1>13, <1>14, <1>15, <1>16, <1>17, <1>18, <1>19, <1>20, <1>21,
    <1>22, <1>23, <1>24, <1>25, <1>26, <1>27, <1>28, <1>29, <1>30 DEF Next,
    Continue, Choose

(* Nobody joins or leaves while one gathers, and whoever sleeps in a stopped VM *)
(* is counted; a thread that has come since is not, and starts a race.          *)
LEMMA StopStep ==
  ASSUME TypeOK, ChildInv, StopInv, race = "none", [Next]_vars
  PROVE  StopInv'
<1> USE SuspensionAssumption DEF TypeOK, StopInv, OneStops,
  UnlistedUncounted, Counted, Gathering, Quiet, NoSleepInResume, Stopping,
  Listed, Stopped, Pc, Executing, Go
<1>1. ASSUME NEW t \in Threads, GoNative(t) PROVE StopInv'
  BY <1>1 DEF GoNative
<1>2. ASSUME NEW t \in Threads, Rise(t) PROVE StopInv'
  BY <1>2 DEF Rise, ChildInv, HasMade
<1>3. ASSUME NEW t \in Threads, Settle(t) PROVE StopInv'
  BY <1>3 DEF Settle, Sleep, Resume
<1>4. ASSUME NEW t \in Threads, Poll(t) PROVE StopInv'
  BY <1>4 DEF Poll, Sleep
<1>5. ASSUME NEW t \in Threads, Wake(t) PROVE StopInv'
  BY <1>5 DEF Wake
<1>6. ASSUME NEW t \in Threads, SpuriousWake(t) PROVE StopInv'
  BY <1>6 DEF SpuriousWake
<1>7. ASSUME NEW t \in Threads, LockThreadList(t) PROVE StopInv'
  BY <1>7 DEF LockThreadList
<1>8. ASSUME NEW t \in Threads, HaveThreadList(t) PROVE StopInv'
  BY <1>8 DEF HaveThreadList, Resume, ListFree
<1>9. ASSUME NEW t \in Threads, UnlockThreadList(t) PROVE StopInv'
  BY <1>9 DEF UnlockThreadList
<1>10. ASSUME NEW t \in Threads, Attach(t) PROVE StopInv'
  BY <1>10 DEF Attach
<1>11. ASSUME NEW t \in Threads, AttachList(t) PROVE StopInv'
  BY <1>11 DEF AttachList, ListFree
<1>12. ASSUME NEW t \in Threads, AttachPulse(t) PROVE StopInv'
  BY <1>12 DEF AttachPulse
<1>13. ASSUME NEW t \in Threads, CreateList(t) PROVE StopInv'
  BY <1>13 DEF CreateList, ListFree, ChildInv, HasMade
<1>14. ASSUME NEW t \in Threads, CreateMade(t) PROVE StopInv'
  BY <1>14 DEF CreateMade
<1>15. ASSUME NEW t \in Threads, CreateRelease(t) PROVE StopInv'
  BY <1>15 DEF CreateRelease, Resume, ListFree, ChildInv, HasMade
<1>16. ASSUME NEW t \in Threads, Detach(t) PROVE StopInv'
  BY <1>16 DEF Detach
<1>17. ASSUME NEW t \in Threads, DetachUnlink(t) PROVE StopInv'
  BY <1>17 DEF DetachUnlink, ListFree
<1>18. ASSUME NEW t \in Threads, LockHeap(t) PROVE StopInv'
  BY <1>18 DEF LockHeap
<1>19. ASSUME NEW t \in Threads, HeapFree(t) PROVE StopInv'
  BY <1>19 DEF HeapFree
<1>20. ASSUME NEW t \in Threads, SuspendLock(t) PROVE StopInv'
  BY <1>20 DEF SuspendLock, LockThreadSuspend, Sleep, SuspendFree
<1>21. ASSUME NEW t \in Threads, SuspendCount(t) PROVE StopInv'
  BY <1>21 DEF SuspendCount, ListFree
<1>22. ASSUME NEW t \in Threads, WaitForThread(t) PROVE StopInv'
  BY <1>22 DEF WaitForThread, Running
<1>23. ASSUME NEW t \in Threads, SuspendDone(t) PROVE StopInv'
  BY <1>23 DEF SuspendDone
<1>24. ASSUME NEW t \in Threads, ResumeAll(t) PROVE StopInv'
  BY <1>24 DEF ResumeAll
<1>25. ASSUME NEW t \in Threads, ResumeLock(t) PROVE StopInv'
  BY <1>25 DEF ResumeLock, LockThreadSuspend, Sleep, SuspendFree
<1>26. ASSUME NEW t \in Threads, ResumeCount(t) PROVE StopInv'
  BY <1>26 DEF ResumeCount, ListFree
<1>27. ASSUME NEW t \in Threads, Broadcast(t) PROVE StopInv'
  BY <1>27 DEF Broadcast
<1>28. ASSUME NEW t \in Threads, NEW u \in Threads, Create(t, u)
      PROVE  StopInv'
  BY <1>28 DEF Create
<1>29. ASSUME NEW t \in Threads, NEW why \in {"push", "pull", "gc"},
             Begin(t, why)
      PROVE  StopInv'
  BY <1>29 DEF Begin
<1>30. CASE UNCHANGED vars
  BY <1>30 DEF vars, Stopped
<1>31. QED
  BY <1>1, <1>2, <1>3, <1>4, <1>5, <1>6, <1>7, <1>8, <1>9, <1>10, <1>11,
    <1>12, <1>13, <1>14, <1>15, <1>16, <1>17, <1>18, <1>19, <1>20, <1>21,
    <1>22, <1>23, <1>24, <1>25, <1>26, <1>27, <1>28, <1>29, <1>30 DEF Next,
    Continue, Choose

-----------------------------------------------------------------------------
(* The invariant. *)

LEMMA Initially == Init => IInv
  BY SuspensionAssumption DEF Init, IInv, TypeOK, ChildInv, HasMade, NoLostWakeup, StopInv, OneStops,
    UnlistedUncounted, Counted, Gathering, Quiet, NoSleepInResume, Stopping,
    Listed, Stopped, Pc, Executing

LEMMA Inductive == IInv /\ [Next]_vars => IInv'
<1> SUFFICES ASSUME IInv, [Next]_vars PROVE IInv'
  OBVIOUS
<1>1. TypeOK' /\ ChildInv' /\ NoLostWakeup'
  BY TypeStep, ChildStep, WakeupStep DEF IInv
<1>2. CASE race = "none"
  BY <1>1, <1>2, StopStep DEF IInv
<1>3. CASE race # "none"
  <2>1. UNCHANGED vars
    BY <1>3 DEF Next
  <2> QED
    BY <1>3, <1>1, <2>1 DEF IInv, StopInv, vars
<1> QED
  BY <1>2, <1>3

LEMMA Always == Spec => []IInv
  BY Initially, Inductive, PTL DEF Spec

-----------------------------------------------------------------------------
(* The theorems. *)

\* Every variable has its type (the fields of Thread and the locks of gDvm that
\* vm/Thread.cpp uses), in particular no suspendCount goes below 0
\* (fullSuspendCheck asserts it).
THEOREM TypeCorrect == Spec => []TypeOK
<1>1. IInv => TypeOK
  BY DEF IInv
<1> QED
  BY <1>1, Always, PTL

\* From the return of dvmSuspendAllThreads to the count down of
\* dvmResumeAllThreads nobody else executes or has the VM stopped, up to the two
\* races of dvmLockThreadList and dvmAttachCurrentThread.
THEOREM StoppedVMIsStopped == Spec => []WorldStopped
<1>1. IInv => WorldStopped
  <2> SUFFICES ASSUME IInv, race = "none", NEW t \in Threads, NEW u \in Threads,
                      t # u, Stopped(u)
               PROVE  pc[t] \notin Executing /\ ~Stopped(t)
    BY DEF WorldStopped
  <2>1. pc[t] \notin Executing
    BY DEF IInv, StopInv, Quiet
  <2>2. Stopping(u) /\ (Stopped(t) => Stopping(t))
    BY DEF Stopped, Stopping
  <2>3. ~Stopped(t)
    BY <2>2 DEF IInv, StopInv, OneStops
  <2> QED
    BY <2>1, <2>3
<1> QED
  BY <1>1, Always, PTL

\* dvmResumeAllThreads leaves nobody with a count: a thread is counted, and once,
\* only while another stops the VM, whoever has attached or left since
\* dvmSuspendAllThreads counted.
THEOREM NobodyLeftCounted == Spec => []CountedForSomebody
<1>1. IInv => CountedForSomebody
  BY DEF IInv, StopInv, Counted, CountedForSomebody, TypeOK
<1> QED
  BY <1>1, Always, PTL

\* The broadcast of dvmResumeAllThreads comes after the count, with both locks
\* released in between; whoever has gone to sleep until then is reached by it.
THEOREM NoWakeupIsLost == Spec => []NoLostWakeup
<1>1. IInv => NoLostWakeup
  BY DEF IInv
<1> QED
  BY <1>1, Always, PTL
=============================================================================
