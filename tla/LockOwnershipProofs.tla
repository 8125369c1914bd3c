-------------------------- MODULE LockOwnershipProofs --------------------------
(***************************************************************************)
(* Proofs about LockOwnership: for every set of threads, the ownership of  *)
(* the monitor is conserved and the monitor excludes, up to the first of   *)
(* the two races the model records.                                        *)
(***************************************************************************)
EXTENDS LockOwnership, TLAPS

(* What a thread does next fits where it is. *)
ThenInv == \A t \in Threads :
  /\ pc[t] \in AskPc => then[t] \in {"want", "again"}
  /\ pc[t] \in MovePc => then[t] \in {"run", "hold", "want"}

(* Who has suspended a VM: the suspensions never overlap. *)
StopInv == \A t \in Threads :
  /\ pc[t] \in {"sent", "pull"} => stop[at[t]] = t
  /\ pc[t] = "dsent" => stop[Peer(at[t])] = t

(* The thread that is pulling is the one whose turn it is. *)
TurnInv == \A t \in Threads : pc[t] = "pull" => MyTurn(t)

(* Which messages carry the ownership: every grant, and the stack of every *)
(* thread that moves inside the monitor.                                   *)
CarryInv == \A t \in Threads :
  /\ carries[t] => pc[t] \in {"dsent", "granted", "sent", "arrive", "pull"}
  /\ pc[t] \in {"dsent", "granted"} => carries[t]
  /\ pc[t] \in {"sent", "arrive", "pull"} /\ then[t] = "hold" => carries[t]

(* A local thread inside the monitor is at the endpoint that owns it. *)
LocalOwned == \A t \in Threads : InsideAt(t, at[t]) => own[at[t]]

(* What holds until a race: the ownership is in one place, and the threads *)
(* inside are where it is.                                                 *)
SoFar == OneOwner /\ LocalOwned

IInv == /\ TypeOK /\ ThenInv /\ StopInv /\ TurnInv /\ MutexAccounted /\ CarryInv
        /\ (race = "none" => SoFar)

USE NoneAssumption

--------------------------------------------------------------------------------
(* The two endpoints. *)

(* The peer of an endpoint is the other one. *)
LEMMA PeerOther == \A e \in End : Peer(e) \in End /\ Peer(e) # e /\ Peer(Peer(e)) = e
  BY DEF End, Peer

(* There is no third endpoint. *)
LEMMA TwoEnds == \A e, f \in End : f # e => f = Peer(e)
  BY DEF End, Peer

(* A push behind the others leaves the first one first. *)
LEMMA HeadAppend ==
  ASSUME NEW s \in Seq(Threads), NEW x \in Threads, s # <<>>
  PROVE  Append(s, x) # <<>> /\ Head(Append(s, x)) = Head(s)
  OBVIOUS

(* The ownership, said of any two endpoints. *)
LEMMA OwnerEnds ==
  ASSUME TypeOK, OneOwner
  PROVE  /\ \A e \in End : ~(own[e] /\ own[Peer(e)])
         /\ \A t \in Threads, e \in End : carries[t] => ~own[e]
  BY DEF TypeOK, OneOwner, End, Peer

--------------------------------------------------------------------------------
(* Types. *)

(* Types of the places. *)
LEMMA PlaceType ==
  ASSUME TypeOK, NEW t \in Threads, Step(t)
  PROVE  at' \in [Threads -> End] /\ pc' \in [Threads -> Pc] /\ then' \in [Threads -> {"run", "want", "again", "hold"}]
<1>1. CASE LockObject(t)
  BY <1>1 DEF TypeOK, Pc, AskPc, MovePc, LockObject, Go
<1>2. CASE Enter(t)
  BY <1>2 DEF TypeOK, Pc, AskPc, MovePc, Enter, Go
<1>3. CASE Block(t)
  BY <1>3 DEF TypeOK, Pc, AskPc, MovePc, Block, Go
<1>4. CASE Acquire(t)
  BY <1>4 DEF TypeOK, Pc, AskPc, MovePc, Acquire, Go
<1>5. CASE BackOff(t)
  BY <1>5 DEF TypeOK, Pc, AskPc, MovePc, BackOff, Go
<1>6. CASE GetIn(t)
  BY <1>6 DEF TypeOK, Pc, AskPc, MovePc, GetIn, Go
<1>7. CASE UnlockObject(t)
  BY <1>7 DEF TypeOK, Pc, AskPc, MovePc, UnlockObject, Go
<1>8. CASE Ask(t)
  BY <1>8 DEF TypeOK, Pc, AskPc, MovePc, Ask, Go
<1>9. CASE DaemonFatten(t)
  BY <1>9 DEF TypeOK, Pc, AskPc, MovePc, DaemonFatten, Go
<1>10. CASE DaemonLock(t)
  BY <1>10 DEF TypeOK, Pc, AskPc, MovePc, DaemonLock, Go
<1>11. CASE DaemonAcquire(t)
  BY <1>11 DEF TypeOK, Pc, AskPc, MovePc, DaemonAcquire, Go
<1>12. CASE Deny(t)
  BY <1>12 DEF TypeOK, Pc, AskPc, MovePc, Deny, Go
<1>13. CASE Promise(t)
  BY <1>13 DEF TypeOK, Pc, AskPc, MovePc, Promise, Go
<1>14. CASE ClearOwnership(t)
  BY <1>14 DEF TypeOK, Pc, AskPc, MovePc, ClearOwnership, Go
<1>15. CASE DaemonResume(t)
  BY <1>15 DEF TypeOK, Pc, AskPc, MovePc, DaemonResume, Go
<1>16. CASE SetOwnership(t)
  BY <1>16 DEF TypeOK, Pc, AskPc, MovePc, SetOwnership, Go
<1>17. CASE Migrate(t)
  BY <1>17 DEF TypeOK, Pc, AskPc, MovePc, Migrate, Go
<1>18. CASE Deactivate(t)
  BY <1>18 DEF TypeOK, Pc, AskPc, MovePc, Deactivate, Go
<1>19. CASE Depart(t)
  BY <1>19, PeerOther DEF TypeOK, Pc, AskPc, MovePc, Depart, Go
<1>20. CASE Pull(t)
  BY <1>20 DEF TypeOK, Pc, AskPc, MovePc, Pull, Go
<1>21. CASE Activate(t)
  BY <1>21 DEF TypeOK, Pc, AskPc, MovePc, Activate, Go
<1> QED
  BY <1>1, <1>2, <1>3, <1>4, <1>5, <1>6, <1>7, <1>8, <1>9, <1>10, <1>11,
     <1>12, <1>13, <1>14, <1>15, <1>16, <1>17, <1>18, <1>19, <1>20, <1>21 DEF Step

(* Types of the flags. *)
LEMMA BitType ==
  ASSUME TypeOK, NEW t \in Threads, Step(t)
  PROVE  /\ own' \in [End -> BOOLEAN] /\ fat' \in [End -> BOOLEAN]
         /\ carries' \in [Threads -> BOOLEAN] /\ shown' \in [Threads -> BOOLEAN]
         /\ race' \in {"none", "twice", "stolen"}
<1>1. CASE LockObject(t)
  BY <1>1 DEF TypeOK, LockObject, Go
<1>2. CASE Enter(t)
  BY <1>2 DEF TypeOK, Enter, Go
<1>3. CASE Block(t)
  BY <1>3 DEF TypeOK, Block, Go
<1>4. CASE Acquire(t)
  BY <1>4 DEF TypeOK, Acquire, Go
<1>5. CASE BackOff(t)
  BY <1>5 DEF TypeOK, BackOff, Go
<1>6. CASE GetIn(t)
  BY <1>6 DEF TypeOK, GetIn, Go
<1>7. CASE UnlockObject(t)
  BY <1>7 DEF TypeOK, UnlockObject, Go
<1>8. CASE Ask(t)
  BY <1>8 DEF TypeOK, Ask, Go
<1>9. CASE DaemonFatten(t)
  BY <1>9, PeerOther DEF TypeOK, DaemonFatten, Go
<1>10. CASE DaemonLock(t)
  BY <1>10 DEF TypeOK, DaemonLock, Go
<1>11. CASE DaemonAcquire(t)
  BY <1>11, PeerOther DEF TypeOK, DaemonAcquire, Go
<1>12. CASE Deny(t)
  BY <1>12, PeerOther DEF TypeOK, Deny, Go
<1>13. CASE Promise(t)
  BY <1>13, PeerOther DEF TypeOK, Promise, Go
<1>14. CASE ClearOwnership(t)
  BY <1>14, PeerOther DEF TypeOK, ClearOwnership, Go
<1>15. CASE DaemonResume(t)
  BY <1>15, PeerOther DEF TypeOK, DaemonResume, Go
<1>16. CASE SetOwnership(t)
  BY <1>16 DEF TypeOK, SetOwnership, Go
<1>17. CASE Migrate(t)
  BY <1>17 DEF TypeOK, Migrate, Go
<1>18. CASE Deactivate(t)
  BY <1>18, PeerOther DEF TypeOK, Deactivate, Go
<1>19. CASE Depart(t)
  BY <1>19, PeerOther DEF TypeOK, Depart, Go
<1>20. CASE Pull(t)
  BY <1>20 DEF TypeOK, Pull, Go
<1>21. CASE Activate(t)
  BY <1>21 DEF TypeOK, Activate, Go
<1> QED
  BY <1>1, <1>2, <1>3, <1>4, <1>5, <1>6, <1>7, <1>8, <1>9, <1>10, <1>11,
     <1>12, <1>13, <1>14, <1>15, <1>16, <1>17, <1>18, <1>19, <1>20, <1>21 DEF Step

(* Types of the holders. *)
LEMMA HolderType ==
  ASSUME TypeOK, NEW t \in Threads, Step(t)
  PROVE  /\ mutex' \in [End -> Threads \cup {None}] /\ last' \in [End -> Threads \cup {None}]
         /\ listed' \in [End -> SUBSET Threads] /\ stop' \in [End -> Threads \cup {None}]
<1>1. CASE LockObject(t)
  BY <1>1 DEF TypeOK, LockObject, Go
<1>2. CASE Enter(t)
  BY <1>2 DEF TypeOK, Enter, Go
<1>3. CASE Block(t)
  BY <1>3 DEF TypeOK, Block, Go
<1>4. CASE Acquire(t)
  BY <1>4 DEF TypeOK, Acquire, Go
<1>5. CASE BackOff(t)
  BY <1>5 DEF TypeOK, BackOff, Go
<1>6. CASE GetIn(t)
  BY <1>6 DEF TypeOK, GetIn, Go
<1>7. CASE UnlockObject(t)
  BY <1>7 DEF TypeOK, UnlockObject, Go
<1>8. CASE Ask(t)
  BY <1>8 DEF TypeOK, Ask, Go
<1>9. CASE DaemonFatten(t)
  <2> USE <1>9 DEF DaemonFatten
  <2>1. CASE own[Peer(at[t])]
    <3>1. mutex' = [mutex EXCEPT ![Peer(at[t])] = t] /\ pc' = [pc EXCEPT ![t] = "dpush"]
      BY <2>1 DEF Go
    <3> QED
      BY <2>1, <3>1, PeerOther DEF TypeOK
  <2>2. CASE ~own[Peer(at[t])]
    <3>1. mutex' = mutex /\ pc' = [pc EXCEPT ![t] = then[t]]
      BY <2>2 DEF Go
    <3> QED
      BY <2>2, <3>1, PeerOther DEF TypeOK
  <2> QED
    BY <2>1, <2>2
<1>10. CASE DaemonLock(t)
  BY <1>10 DEF TypeOK, DaemonLock, Go
<1>11. CASE DaemonAcquire(t)
  BY <1>11, PeerOther DEF TypeOK, DaemonAcquire, Go
<1>12. CASE Deny(t)
  BY <1>12, PeerOther DEF TypeOK, Deny, Go
<1>13. CASE Promise(t)
  BY <1>13, PeerOther DEF TypeOK, Promise, Go
<1>14. CASE ClearOwnership(t)
  BY <1>14, PeerOther DEF TypeOK, ClearOwnership, Go
<1>15. CASE DaemonResume(t)
  BY <1>15, PeerOther DEF TypeOK, DaemonResume, Go
<1>16. CASE SetOwnership(t)
  BY <1>16 DEF TypeOK, SetOwnership, Go
<1>17. CASE Migrate(t)
  BY <1>17 DEF TypeOK, Migrate, Go
<1>18. CASE Deactivate(t)
  BY <1>18, PeerOther DEF TypeOK, Deactivate, Go
<1>19. CASE Depart(t)
  BY <1>19, PeerOther DEF TypeOK, Depart, Go
<1>20. CASE Pull(t)
  BY <1>20 DEF TypeOK, Pull, Go
<1>21. CASE Activate(t)
  BY <1>21 DEF TypeOK, Activate, Go
<1> QED
  BY <1>1, <1>2, <1>3, <1>4, <1>5, <1>6, <1>7, <1>8, <1>9, <1>10, <1>11,
     <1>12, <1>13, <1>14, <1>15, <1>16, <1>17, <1>18, <1>19, <1>20, <1>21 DEF Step

(* Type of the queues of pushes. *)
LEMMA TurnType ==
  ASSUME TypeOK, TurnInv, NEW t \in Threads, Step(t)
  PROVE  turn' \in [End -> Seq(Threads)]
<1>1. CASE LockObject(t)
  BY <1>1 DEF TypeOK, TurnInv, MyTurn, LockObject, Go
<1>2. CASE Enter(t)
  BY <1>2 DEF TypeOK, TurnInv, MyTurn, Enter, Go
<1>3. CASE Block(t)
  BY <1>3 DEF TypeOK, TurnInv, MyTurn, Block, Go
<1>4. CASE Acquire(t)
  BY <1>4 DEF TypeOK, TurnInv, MyTurn, Acquire, Go
<1>5. CASE BackOff(t)
  BY <1>5 DEF TypeOK, TurnInv, MyTurn, BackOff, Go
<1>6. CASE GetIn(t)
  BY <1>6 DEF TypeOK, TurnInv, MyTurn, GetIn, Go
<1>7. CASE UnlockObject(t)
  BY <1>7 DEF TypeOK, TurnInv, MyTurn, UnlockObject, Go
<1>8. CASE Ask(t)
  BY <1>8 DEF TypeOK, TurnInv, MyTurn, Ask, Go
<1>9. CASE DaemonFatten(t)
  BY <1>9, PeerOther DEF TypeOK, TurnInv, MyTurn, DaemonFatten, Go
<1>10. CASE DaemonLock(t)
  BY <1>10 DEF TypeOK, TurnInv, MyTurn, DaemonLock, Go
<1>11. CASE DaemonAcquire(t)
  BY <1>11, PeerOther DEF TypeOK, TurnInv, MyTurn, DaemonAcquire, Go
<1>12. CASE Deny(t)
  BY <1>12, PeerOther DEF TypeOK, TurnInv, MyTurn, Deny, Go
<1>13. CASE Promise(t)
  BY <1>13, PeerOther DEF TypeOK, TurnInv, MyTurn, Promise, Go
<1>14. CASE ClearOwnership(t)
  BY <1>14, PeerOther DEF TypeOK, TurnInv, MyTurn, ClearOwnership, Go
<1>15. CASE DaemonResume(t)
  BY <1>15, PeerOther DEF TypeOK, TurnInv, MyTurn, DaemonResume, Go
<1>16. CASE SetOwnership(t)
  BY <1>16 DEF TypeOK, TurnInv, MyTurn, SetOwnership, Go
<1>17. CASE Migrate(t)
  BY <1>17 DEF TypeOK, TurnInv, MyTurn, Migrate, Go
<1>18. CASE Deactivate(t)
  BY <1>18, PeerOther DEF TypeOK, TurnInv, MyTurn, Deactivate, Go
<1>19. CASE Depart(t)
  BY <1>19, PeerOther DEF TypeOK, TurnInv, MyTurn, Depart, Go
<1>20. CASE Pull(t)
  BY <1>20 DEF TypeOK, TurnInv, MyTurn, Pull, Go
<1>21. CASE Activate(t)
  BY <1>21 DEF TypeOK, TurnInv, MyTurn, Activate, Go
<1> QED
  BY <1>1, <1>2, <1>3, <1>4, <1>5, <1>6, <1>7, <1>8, <1>9, <1>10, <1>11,
     <1>12, <1>13, <1>14, <1>15, <1>16, <1>17, <1>18, <1>19, <1>20, <1>21 DEF Step

--------------------------------------------------------------------------------
(* Control. *)

(* What comes next fits the place. *)
LEMMA ThenStep ==
  ASSUME TypeOK, ThenInv, NEW t \in Threads, Step(t)
  PROVE  ThenInv'
<1>1. CASE LockObject(t)
  BY <1>1 DEF TypeOK, ThenInv, AskPc, MovePc, LockObject, Go
<1>2. CASE Enter(t)
  BY <1>2 DEF TypeOK, ThenInv, AskPc, MovePc, Enter, Go
<1>3. CASE Block(t)
  BY <1>3 DEF TypeOK, ThenInv, AskPc, MovePc, Block, Go
<1>4. CASE Acquire(t)
  BY <1>4 DEF TypeOK, ThenInv, AskPc, MovePc, Acquire, Go
<1>5. CASE BackOff(t)
  BY <1>5 DEF TypeOK, ThenInv, AskPc, MovePc, BackOff, Go
<1>6. CASE GetIn(t)
  BY <1>6 DEF TypeOK, ThenInv, AskPc, MovePc, GetIn, Go
<1>7. CASE UnlockObject(t)
  BY <1>7 DEF TypeOK, ThenInv, AskPc, MovePc, UnlockObject, Go
<1>8. CASE Ask(t)
  BY <1>8 DEF TypeOK, ThenInv, AskPc, MovePc, Ask, Go
<1>9. CASE DaemonFatten(t)
  BY <1>9 DEF TypeOK, ThenInv, AskPc, MovePc, DaemonFatten, Go
<1>10. CASE DaemonLock(t)
  BY <1>10 DEF TypeOK, ThenInv, AskPc, MovePc, DaemonLock, Go
<1>11. CASE DaemonAcquire(t)
  BY <1>11 DEF TypeOK, ThenInv, AskPc, MovePc, DaemonAcquire, Go
<1>12. CASE Deny(t)
  BY <1>12 DEF TypeOK, ThenInv, AskPc, MovePc, Deny, Go
<1>13. CASE Promise(t)
  BY <1>13 DEF TypeOK, ThenInv, AskPc, MovePc, Promise, Go
<1>14. CASE ClearOwnership(t)
  BY <1>14 DEF TypeOK, ThenInv, AskPc, MovePc, ClearOwnership, Go
<1>15. CASE DaemonResume(t)
  BY <1>15 DEF TypeOK, ThenInv, AskPc, MovePc, DaemonResume, Go
<1>16. CASE SetOwnership(t)
  BY <1>16 DEF TypeOK, ThenInv, AskPc, MovePc, SetOwnership, Go
<1>17. CASE Migrate(t)
  BY <1>17 DEF TypeOK, ThenInv, AskPc, MovePc, Migrate, Go
<1>18. CASE Deactivate(t)
  BY <1>18 DEF TypeOK, ThenInv, AskPc, MovePc, Deactivate, Go
<1>19. CASE Depart(t)
  BY <1>19 DEF TypeOK, ThenInv, AskPc, MovePc, Depart, Go
<1>20. CASE Pull(t)
  BY <1>20 DEF TypeOK, ThenInv, AskPc, MovePc, Pull, Go
<1>21. CASE Activate(t)
  BY <1>21 DEF TypeOK, ThenInv, AskPc, MovePc, Activate, Go
<1> QED
  BY <1>1, <1>2, <1>3, <1>4, <1>5, <1>6, <1>7, <1>8, <1>9, <1>10, <1>11,
     <1>12, <1>13, <1>14, <1>15, <1>16, <1>17, <1>18, <1>19, <1>20, <1>21 DEF Step

(* Suspensions do not overlap. *)
LEMMA StopStep ==
  ASSUME TypeOK, ThenInv, StopInv, NEW t \in Threads, Step(t)
  PROVE  StopInv'
<1>1. CASE LockObject(t)
  BY <1>1 DEF TypeOK, ThenInv, StopInv, AskPc, MovePc, LockObject, Go
<1>2. CASE Enter(t)
  BY <1>2 DEF TypeOK, ThenInv, StopInv, AskPc, MovePc, Enter, Go
<1>3. CASE Block(t)
  BY <1>3 DEF TypeOK, ThenInv, StopInv, AskPc, MovePc, Block, Go
<1>4. CASE Acquire(t)
  BY <1>4 DEF TypeOK, ThenInv, StopInv, AskPc, MovePc, Acquire, Go
<1>5. CASE BackOff(t)
  BY <1>5 DEF TypeOK, ThenInv, StopInv, AskPc, MovePc, BackOff, Go
<1>6. CASE GetIn(t)
  BY <1>6 DEF TypeOK, ThenInv, StopInv, AskPc, MovePc, GetIn, Go
<1>7. CASE UnlockObject(t)
  BY <1>7 DEF TypeOK, ThenInv, StopInv, AskPc, MovePc, UnlockObject, Go
<1>8. CASE Ask(t)
  BY <1>8 DEF TypeOK, ThenInv, StopInv, AskPc, MovePc, Ask, Go
<1>9. CASE DaemonFatten(t)
  BY <1>9, PeerOther DEF TypeOK, ThenInv, StopInv, AskPc, MovePc, DaemonFatten, Go
<1>10. CASE DaemonLock(t)
  BY <1>10 DEF TypeOK, ThenInv, StopInv, AskPc, MovePc, DaemonLock, Go
<1>11. CASE DaemonAcquire(t)
  BY <1>11, PeerOther DEF TypeOK, ThenInv, StopInv, AskPc, MovePc, DaemonAcquire, Go
<1>12. CASE Deny(t)
  BY <1>12, PeerOther DEF TypeOK, ThenInv, StopInv, AskPc, MovePc, Deny, Go
<1>13. CASE Promise(t)
  BY <1>13, PeerOther DEF TypeOK, ThenInv, StopInv, AskPc, MovePc, Promise, Go
<1>14. CASE ClearOwnership(t)
  BY <1>14, PeerOther DEF TypeOK, ThenInv, StopInv, AskPc, MovePc, Running, ClearOwnership, Go
<1>15. CASE DaemonResume(t)
  BY <1>15, PeerOther DEF TypeOK, ThenInv, StopInv, AskPc, MovePc, DaemonResume, Go
<1>16. CASE SetOwnership(t)
  BY <1>16 DEF TypeOK, ThenInv, StopInv, AskPc, MovePc, Running, SetOwnership, Go
<1>17. CASE Migrate(t)
  BY <1>17 DEF TypeOK, ThenInv, StopInv, AskPc, MovePc, Migrate, Go
<1>18. CASE Deactivate(t)
  BY <1>18, PeerOther DEF TypeOK, ThenInv, StopInv, AskPc, MovePc, Running, Deactivate, Go
<1>19. CASE Depart(t)
  BY <1>19, PeerOther DEF TypeOK, ThenInv, StopInv, AskPc, MovePc, Depart, Go
<1>20. CASE Pull(t)
  BY <1>20 DEF TypeOK, ThenInv, StopInv, AskPc, MovePc, Running, Pull, Go
<1>21. CASE Activate(t)
  <2>1. pc[t] = "pull" /\ pc' = [pc EXCEPT ![t] = then[t]] /\ at' = at
    BY <1>21 DEF Activate, Go
  <2>2. then[t] \in {"run", "hold", "want"}
    BY <2>1 DEF ThenInv, MovePc
  <2>3. stop' = [stop EXCEPT ![at[t]] = None] /\ stop[at[t]] = t
    BY <1>21, <2>1 DEF Activate, StopInv
  <2> QED
    BY <2>1, <2>2, <2>3, PeerOther DEF TypeOK, StopInv
<1> QED
  BY <1>1, <1>2, <1>3, <1>4, <1>5, <1>6, <1>7, <1>8, <1>9, <1>10, <1>11,
     <1>12, <1>13, <1>14, <1>15, <1>16, <1>17, <1>18, <1>19, <1>20, <1>21 DEF Step

(* A puller keeps its turn. *)
LEMMA TurnStep ==
  ASSUME TypeOK, ThenInv, StopInv, TurnInv, NEW t \in Threads, Step(t)
  PROVE  TurnInv'
<1>1. CASE LockObject(t)
  BY <1>1 DEF TypeOK, ThenInv, StopInv, TurnInv, MyTurn, AskPc, MovePc, LockObject, Go
<1>2. CASE Enter(t)
  BY <1>2 DEF TypeOK, ThenInv, StopInv, TurnInv, MyTurn, AskPc, MovePc, Enter, Go
<1>3. CASE Block(t)
  BY <1>3 DEF TypeOK, ThenInv, StopInv, TurnInv, MyTurn, AskPc, MovePc, Block, Go
<1>4. CASE Acquire(t)
  BY <1>4 DEF TypeOK, ThenInv, StopInv, TurnInv, MyTurn, AskPc, MovePc, Acquire, Go
<1>5. CASE BackOff(t)
  BY <1>5 DEF TypeOK, ThenInv, StopInv, TurnInv, MyTurn, AskPc, MovePc, BackOff, Go
<1>6. CASE GetIn(t)
  BY <1>6 DEF TypeOK, ThenInv, StopInv, TurnInv, MyTurn, AskPc, MovePc, GetIn, Go
<1>7. CASE UnlockObject(t)
  BY <1>7 DEF TypeOK, ThenInv, StopInv, TurnInv, MyTurn, AskPc, MovePc, UnlockObject, Go
<1>8. CASE Ask(t)
  BY <1>8 DEF TypeOK, ThenInv, StopInv, TurnInv, MyTurn, AskPc, MovePc, Ask, Go
<1>9. CASE DaemonFatten(t)
  <2> USE <1>9 DEF DaemonFatten
  <2>1. CASE own[Peer(at[t])]
    <3>1. mutex' = [mutex EXCEPT ![Peer(at[t])] = t] /\ pc' = [pc EXCEPT ![t] = "dpush"]
      BY <2>1 DEF Go
    <3> QED
      BY <2>1, <3>1, PeerOther DEF TypeOK, ThenInv, StopInv, TurnInv, MyTurn, AskPc, MovePc,
         Running
  <2>2. CASE ~own[Peer(at[t])]
    <3>1. mutex' = mutex /\ pc' = [pc EXCEPT ![t] = then[t]]
      BY <2>2 DEF Go
    <3> QED
      BY <2>2, <3>1, PeerOther DEF TypeOK, ThenInv, StopInv, TurnInv, MyTurn, AskPc, MovePc,
         Running
  <2> QED
    BY <2>1, <2>2
<1>10. CASE DaemonLock(t)
  BY <1>10 DEF TypeOK, ThenInv, StopInv, TurnInv, MyTurn, AskPc, MovePc, DaemonLock, Go
<1>11. CASE DaemonAcquire(t)
  BY <1>11, PeerOther DEF TypeOK, ThenInv, StopInv, TurnInv, MyTurn, AskPc, MovePc,
     DaemonAcquire, Go
<1>12. CASE Deny(t)
  BY <1>12, PeerOther DEF TypeOK, ThenInv, StopInv, TurnInv, MyTurn, AskPc, MovePc, Deny, Go
<1>13. CASE Promise(t)
  BY <1>13, PeerOther DEF TypeOK, ThenInv, StopInv, TurnInv, MyTurn, AskPc, MovePc, Promise, Go
<1>14. CASE ClearOwnership(t)
  <2>1. pc' = [pc EXCEPT ![t] = "dsent"] /\ at' = at
    BY <1>14 DEF TypeOK, ThenInv, StopInv, TurnInv, MyTurn, AskPc, MovePc, Running,
       ClearOwnership, Go
  <2>2. turn' = [turn EXCEPT ![at[t]] = Append(@, t)]
    BY <1>14 DEF TypeOK, ThenInv, StopInv, TurnInv, MyTurn, AskPc, MovePc, Running,
       ClearOwnership, Go
  <2>3. SUFFICES ASSUME NEW u \in Threads, pc'[u] = "pull" PROVE MyTurn(u)'
    BY DEF TurnInv
  <2>4. pc[u] = "pull" /\ turn[at[u]] # <<>> /\ Head(turn[at[u]]) = u
    BY <2>1, <2>3 DEF TypeOK, TurnInv, MyTurn
  <2>5. turn[at[u]] \in Seq(Threads) /\ at[u] \in End /\ at[t] \in End
    BY DEF TypeOK
  <2>6. turn'[at[u]] \in {turn[at[u]], Append(turn[at[u]], t)}
    BY <2>2, <2>5, PeerOther DEF TypeOK
  <2>7. turn'[at[u]] # <<>> /\ Head(turn'[at[u]]) = u
    BY <2>4, <2>5, <2>6, HeadAppend
  <2> QED
    BY <2>1, <2>7 DEF MyTurn
<1>15. CASE DaemonResume(t)
  BY <1>15, PeerOther DEF TypeOK, ThenInv, StopInv, TurnInv, MyTurn, AskPc, MovePc,
     DaemonResume, Go
<1>16. CASE SetOwnership(t)
  BY <1>16 DEF TypeOK, ThenInv, StopInv, TurnInv, MyTurn, AskPc, MovePc, Running, SetOwnership,
     Go
<1>17. CASE Migrate(t)
  BY <1>17 DEF TypeOK, ThenInv, StopInv, TurnInv, MyTurn, AskPc, MovePc, Migrate, Go
<1>18. CASE Deactivate(t)
  <2>1. pc' = [pc EXCEPT ![t] = "sent"] /\ at' = at
    BY <1>18 DEF TypeOK, ThenInv, StopInv, TurnInv, MyTurn, AskPc, MovePc, Running, Deactivate,
       Go
  <2>2. turn' = [turn EXCEPT ![Peer(at[t])] = Append(@, t)]
    BY <1>18 DEF TypeOK, ThenInv, StopInv, TurnInv, MyTurn, AskPc, MovePc, Running, Deactivate,
       Go
  <2>3. SUFFICES ASSUME NEW u \in Threads, pc'[u] = "pull" PROVE MyTurn(u)'
    BY DEF TurnInv
  <2>4. pc[u] = "pull" /\ turn[at[u]] # <<>> /\ Head(turn[at[u]]) = u
    BY <2>1, <2>3 DEF TypeOK, TurnInv, MyTurn
  <2>5. turn[at[u]] \in Seq(Threads) /\ at[u] \in End /\ at[t] \in End
    BY DEF TypeOK
  <2>6. turn'[at[u]] \in {turn[at[u]], Append(turn[at[u]], t)}
    BY <2>2, <2>5, PeerOther DEF TypeOK
  <2>7. turn'[at[u]] # <<>> /\ Head(turn'[at[u]]) = u
    BY <2>4, <2>5, <2>6, HeadAppend
  <2> QED
    BY <2>1, <2>7 DEF MyTurn
<1>19. CASE Depart(t)
  BY <1>19, PeerOther DEF TypeOK, ThenInv, StopInv, TurnInv, MyTurn, AskPc, MovePc, Depart, Go
<1>20. CASE Pull(t)
  BY <1>20 DEF TypeOK, ThenInv, StopInv, TurnInv, MyTurn, AskPc, MovePc, Running, Pull, Go
<1>21. CASE Activate(t)
  BY <1>21 DEF TypeOK, ThenInv, StopInv, TurnInv, MyTurn, AskPc, MovePc, Activate, Go
<1> QED
  BY <1>1, <1>2, <1>3, <1>4, <1>5, <1>6, <1>7, <1>8, <1>9, <1>10, <1>11,
     <1>12, <1>13, <1>14, <1>15, <1>16, <1>17, <1>18, <1>19, <1>20, <1>21 DEF Step

(* The mutex is with whom its path says. *)
LEMMA MutexStep ==
  ASSUME TypeOK, ThenInv, MutexAccounted, NEW t \in Threads, Step(t)
  PROVE  MutexAccounted'
<1>1. CASE LockObject(t)
  BY <1>1, PeerOther DEF TypeOK, ThenInv, MutexAccounted, HasMutex, AskPc, MovePc, LockObject,
     Go
<1>2. CASE Enter(t)
  BY <1>2, PeerOther DEF TypeOK, ThenInv, MutexAccounted, HasMutex, AskPc, MovePc, Enter, Go
<1>3. CASE Block(t)
  BY <1>3, PeerOther DEF TypeOK, ThenInv, MutexAccounted, HasMutex, AskPc, MovePc, Block, Go
<1>4. CASE Acquire(t)
  BY <1>4, PeerOther DEF TypeOK, ThenInv, MutexAccounted, HasMutex, AskPc, MovePc, Acquire, Go
<1>5. CASE BackOff(t)
  BY <1>5, PeerOther DEF TypeOK, ThenInv, MutexAccounted, HasMutex, AskPc, MovePc, BackOff, Go
<1>6. CASE GetIn(t)
  BY <1>6, PeerOther DEF TypeOK, ThenInv, MutexAccounted, HasMutex, AskPc, MovePc, GetIn, Go
<1>7. CASE UnlockObject(t)
  BY <1>7, PeerOther DEF TypeOK, ThenInv, MutexAccounted, HasMutex, AskPc, MovePc, UnlockObject,
     Go
<1>8. CASE Ask(t)
  BY <1>8, PeerOther DEF TypeOK, ThenInv, MutexAccounted, HasMutex, AskPc, MovePc, Ask, Go
<1>9. CASE DaemonFatten(t)
  <2>1. pc[t] = "ask" /\ at' = at /\ then' = then /\ own' = own /\ carries' = carries
    BY <1>9 DEF DaemonFatten
  <2>2. then[t] \in {"want", "again"}
    BY <2>1 DEF ThenInv, AskPc
  <2>3. CASE own[Peer(at[t])]
    <3>1. mutex' = [mutex EXCEPT ![Peer(at[t])] = t] /\ pc' = [pc EXCEPT ![t] = "dpush"] /\ mutex[Peer(at[t])] = None
      BY <1>9, <2>3 DEF DaemonFatten, Go
    <3> QED
      BY <2>1, <2>3, <3>1, PeerOther, TwoEnds DEF TypeOK, ThenInv, MutexAccounted, HasMutex,
         AskPc, MovePc
  <2>4. CASE ~own[Peer(at[t])]
    <3>1. mutex' = mutex /\ pc' = [pc EXCEPT ![t] = then[t]]
      BY <1>9, <2>4 DEF DaemonFatten, Go
    <3> QED
      BY <2>1, <2>2, <3>1, PeerOther, TwoEnds DEF TypeOK, MutexAccounted, HasMutex
  <2> QED
    BY <2>3, <2>4
<1>10. CASE DaemonLock(t)
  BY <1>10, PeerOther DEF TypeOK, ThenInv, MutexAccounted, HasMutex, AskPc, MovePc, DaemonLock,
     Go
<1>11. CASE DaemonAcquire(t)
  BY <1>11, PeerOther, TwoEnds DEF TypeOK, ThenInv, MutexAccounted, HasMutex, AskPc, MovePc,
     DaemonAcquire, Go
<1>12. CASE Deny(t)
  BY <1>12, PeerOther, TwoEnds DEF TypeOK, ThenInv, MutexAccounted, HasMutex, AskPc, MovePc,
     Deny, Go
<1>13. CASE Promise(t)
  BY <1>13, PeerOther DEF TypeOK, ThenInv, MutexAccounted, HasMutex, AskPc, MovePc, Promise, Go
<1>14. CASE ClearOwnership(t)
  BY <1>14, PeerOther, TwoEnds DEF TypeOK, ThenInv, MutexAccounted, HasMutex, AskPc, MovePc,
     ClearOwnership, Go
<1>15. CASE DaemonResume(t)
  BY <1>15, PeerOther, TwoEnds DEF TypeOK, ThenInv, MutexAccounted, HasMutex, AskPc, MovePc,
     DaemonResume, Go
<1>16. CASE SetOwnership(t)
  <2>1. pc' = [pc EXCEPT ![t] = then[t]] /\ then[t] \in {"want", "again"}
    BY <1>16 DEF TypeOK, ThenInv, AskPc, SetOwnership, Go
  <2> QED
    BY <1>16, <2>1, PeerOther, TwoEnds DEF TypeOK, ThenInv, MutexAccounted, HasMutex, AskPc,
       MovePc, SetOwnership
<1>17. CASE Migrate(t)
  BY <1>17, PeerOther DEF TypeOK, ThenInv, MutexAccounted, HasMutex, AskPc, MovePc, Migrate, Go
<1>18. CASE Deactivate(t)
  BY <1>18, PeerOther, TwoEnds DEF TypeOK, ThenInv, MutexAccounted, HasMutex, AskPc, MovePc,
     Deactivate, Go
<1>19. CASE Depart(t)
  BY <1>19, PeerOther, TwoEnds DEF TypeOK, ThenInv, MutexAccounted, HasMutex, AskPc, MovePc,
     Depart, Go
<1>20. CASE Pull(t)
  BY <1>20, PeerOther DEF TypeOK, ThenInv, MutexAccounted, HasMutex, AskPc, MovePc, Pull, Go
<1>21. CASE Activate(t)
  <2> DEFINE e == at[t]
  <2>1. pc[t] = "pull" /\ pc' = [pc EXCEPT ![t] = then[t]] /\ at' = at /\ then' = then
    BY <1>21 DEF Activate, Go
  <2>2. then[t] \in {"run", "hold", "want"} /\ e \in End
    BY <2>1 DEF TypeOK, ThenInv, MovePc
  <2>3. CASE then[t] = "hold"
    <3>1. mutex[e] = None /\ mutex' = [mutex EXCEPT ![e] = t]
      BY <1>21, <2>3 DEF Activate
    <3> QED
      BY <2>1, <2>2, <2>3, <3>1 DEF TypeOK, MutexAccounted, HasMutex
  <2>4. CASE then[t] # "hold"
    <3>1. mutex' = mutex
      BY <1>21, <2>4 DEF Activate, TypeOK
    <3> QED
      BY <2>1, <2>2, <2>4, <3>1 DEF TypeOK, MutexAccounted, HasMutex
  <2> QED
    BY <2>3, <2>4
<1> QED
  BY <1>1, <1>2, <1>3, <1>4, <1>5, <1>6, <1>7, <1>8, <1>9, <1>10, <1>11,
     <1>12, <1>13, <1>14, <1>15, <1>16, <1>17, <1>18, <1>19, <1>20, <1>21 DEF Step

--------------------------------------------------------------------------------
(* The ownership. *)

(* Which messages carry the ownership. *)
LEMMA CarryStep ==
  ASSUME TypeOK, ThenInv, CarryInv, NEW t \in Threads, Step(t)
  PROVE  CarryInv'
<1>1. CASE LockObject(t)
  BY <1>1 DEF TypeOK, ThenInv, CarryInv, AskPc, MovePc, LockObject, Go
<1>2. CASE Enter(t)
  BY <1>2 DEF TypeOK, ThenInv, CarryInv, AskPc, MovePc, Enter, Go
<1>3. CASE Block(t)
  BY <1>3 DEF TypeOK, ThenInv, CarryInv, AskPc, MovePc, Block, Go
<1>4. CASE Acquire(t)
  BY <1>4 DEF TypeOK, ThenInv, CarryInv, AskPc, MovePc, Acquire, Go
<1>5. CASE BackOff(t)
  BY <1>5 DEF TypeOK, ThenInv, CarryInv, AskPc, MovePc, BackOff, Go
<1>6. CASE GetIn(t)
  BY <1>6 DEF TypeOK, ThenInv, CarryInv, AskPc, MovePc, GetIn, Go
<1>7. CASE UnlockObject(t)
  BY <1>7 DEF TypeOK, ThenInv, CarryInv, AskPc, MovePc, UnlockObject, Go
<1>8. CASE Ask(t)
  BY <1>8 DEF TypeOK, ThenInv, CarryInv, AskPc, MovePc, Ask, Go
<1>9. CASE DaemonFatten(t)
  BY <1>9 DEF TypeOK, ThenInv, CarryInv, AskPc, MovePc, DaemonFatten, Go
<1>10. CASE DaemonLock(t)
  BY <1>10 DEF TypeOK, ThenInv, CarryInv, AskPc, MovePc, DaemonLock, Go
<1>11. CASE DaemonAcquire(t)
  BY <1>11 DEF TypeOK, ThenInv, CarryInv, AskPc, MovePc, DaemonAcquire, Go
<1>12. CASE Deny(t)
  BY <1>12 DEF TypeOK, ThenInv, CarryInv, AskPc, MovePc, Deny, Go
<1>13. CASE Promise(t)
  BY <1>13 DEF TypeOK, ThenInv, CarryInv, AskPc, MovePc, Promise, Go
<1>14. CASE ClearOwnership(t)
  BY <1>14 DEF TypeOK, ThenInv, CarryInv, AskPc, MovePc, ClearOwnership, Go
<1>15. CASE DaemonResume(t)
  BY <1>15 DEF TypeOK, ThenInv, CarryInv, AskPc, MovePc, DaemonResume, Go
<1>16. CASE SetOwnership(t)
  BY <1>16 DEF TypeOK, ThenInv, CarryInv, AskPc, MovePc, SetOwnership, Go
<1>17. CASE Migrate(t)
  BY <1>17 DEF TypeOK, ThenInv, CarryInv, AskPc, MovePc, Migrate, Go
<1>18. CASE Deactivate(t)
  BY <1>18 DEF TypeOK, ThenInv, CarryInv, AskPc, MovePc, Deactivate, Go
<1>19. CASE Depart(t)
  BY <1>19 DEF TypeOK, ThenInv, CarryInv, AskPc, MovePc, Depart, Go
<1>20. CASE Pull(t)
  BY <1>20 DEF TypeOK, ThenInv, CarryInv, AskPc, MovePc, Pull, Go
<1>21. CASE Activate(t)
  BY <1>21 DEF TypeOK, ThenInv, CarryInv, AskPc, MovePc, Activate, Go
<1> QED
  BY <1>1, <1>2, <1>3, <1>4, <1>5, <1>6, <1>7, <1>8, <1>9, <1>10, <1>11,
     <1>12, <1>13, <1>14, <1>15, <1>16, <1>17, <1>18, <1>19, <1>20, <1>21 DEF Step

(* The ownership moves and is neither lost nor doubled. *)
LEMMA OwnerStep ==
  ASSUME TypeOK, ThenInv, CarryInv, OneOwner, LocalOwned, race' = "none", NEW t \in Threads, Step(t)
  PROVE  OneOwner'
<1>1. CASE LockObject(t)
  BY <1>1 DEF TypeOK, OneOwner, LockObject, Go
<1>2. CASE Enter(t)
  BY <1>2 DEF TypeOK, OneOwner, Enter, Go
<1>3. CASE Block(t)
  BY <1>3 DEF TypeOK, OneOwner, Block, Go
<1>4. CASE Acquire(t)
  BY <1>4 DEF TypeOK, OneOwner, Acquire, Go
<1>5. CASE BackOff(t)
  BY <1>5 DEF TypeOK, OneOwner, BackOff, Go
<1>6. CASE GetIn(t)
  BY <1>6 DEF TypeOK, OneOwner, GetIn, Go
<1>7. CASE UnlockObject(t)
  BY <1>7 DEF TypeOK, OneOwner, UnlockObject, Go
<1>8. CASE Ask(t)
  BY <1>8 DEF TypeOK, OneOwner, Ask, Go
<1>9. CASE DaemonFatten(t)
  BY <1>9 DEF TypeOK, OneOwner, DaemonFatten, Go
<1>10. CASE DaemonLock(t)
  BY <1>10 DEF TypeOK, OneOwner, DaemonLock, Go
<1>11. CASE DaemonAcquire(t)
  BY <1>11 DEF TypeOK, OneOwner, DaemonAcquire, Go
<1>12. CASE Deny(t)
  BY <1>12 DEF TypeOK, OneOwner, Deny, Go
<1>13. CASE Promise(t)
  BY <1>13 DEF TypeOK, OneOwner, Promise, Go
<1>14. CASE ClearOwnership(t)
  BY <1>14 DEF TypeOK, CarryInv, OneOwner, End, Peer, ClearOwnership, Go
<1>15. CASE DaemonResume(t)
  BY <1>15 DEF TypeOK, OneOwner, DaemonResume, Go
<1>16. CASE SetOwnership(t)
  BY <1>16 DEF TypeOK, CarryInv, OneOwner, End, Peer, SetOwnership, Go
<1>17. CASE Migrate(t)
  BY <1>17 DEF TypeOK, OneOwner, Migrate, Go
<1>18. CASE Deactivate(t)
  BY <1>18 DEF TypeOK, ThenInv, CarryInv, OneOwner, LocalOwned, InsideAt, AskPc, MovePc,
     MayGive, End, Peer, Deactivate, Go
<1>19. CASE Depart(t)
  BY <1>19 DEF TypeOK, OneOwner, Depart, Go
<1>20. CASE Pull(t)
  BY <1>20 DEF TypeOK, OneOwner, Pull, Go
<1>21. CASE Activate(t)
  BY <1>21 DEF TypeOK, CarryInv, OneOwner, End, Peer, Activate, Go
<1> QED
  BY <1>1, <1>2, <1>3, <1>4, <1>5, <1>6, <1>7, <1>8, <1>9, <1>10, <1>11,
     <1>12, <1>13, <1>14, <1>15, <1>16, <1>17, <1>18, <1>19, <1>20, <1>21 DEF Step

(* Nobody is inside where the ownership is given up. *)
LEMMA LocalStep ==
  ASSUME TypeOK, ThenInv, MutexAccounted, CarryInv, LocalOwned, race' = "none", NEW t \in Threads, Step(t)
  PROVE  LocalOwned'
<1>1. CASE LockObject(t)
  BY <1>1, PeerOther DEF TypeOK, ThenInv, CarryInv, LocalOwned, InsideAt, AskPc, MovePc,
     LockObject, Go
<1>2. CASE Enter(t)
  BY <1>2, PeerOther DEF TypeOK, ThenInv, CarryInv, LocalOwned, InsideAt, AskPc, MovePc, Enter,
     Go
<1>3. CASE Block(t)
  BY <1>3, PeerOther DEF TypeOK, ThenInv, CarryInv, LocalOwned, InsideAt, AskPc, MovePc, Block,
     Go
<1>4. CASE Acquire(t)
  BY <1>4, PeerOther DEF TypeOK, ThenInv, CarryInv, LocalOwned, InsideAt, AskPc, MovePc,
     Acquire, Go
<1>5. CASE BackOff(t)
  BY <1>5, PeerOther DEF TypeOK, ThenInv, CarryInv, LocalOwned, InsideAt, AskPc, MovePc,
     BackOff, Go
<1>6. CASE GetIn(t)
  BY <1>6, PeerOther DEF TypeOK, ThenInv, CarryInv, LocalOwned, InsideAt, AskPc, MovePc, GetIn,
     Go
<1>7. CASE UnlockObject(t)
  BY <1>7, PeerOther DEF TypeOK, ThenInv, CarryInv, LocalOwned, InsideAt, AskPc, MovePc,
     UnlockObject, Go
<1>8. CASE Ask(t)
  BY <1>8, PeerOther DEF TypeOK, ThenInv, CarryInv, LocalOwned, InsideAt, AskPc, MovePc, Ask, Go
<1>9. CASE DaemonFatten(t)
  <2>1. pc[t] = "ask" /\ at' = at /\ then' = then /\ own' = own /\ carries' = carries
    BY <1>9 DEF DaemonFatten
  <2>2. then[t] \in {"want", "again"}
    BY <2>1 DEF ThenInv, AskPc
  <2>3. CASE own[Peer(at[t])]
    <3>1. mutex' = [mutex EXCEPT ![Peer(at[t])] = t] /\ pc' = [pc EXCEPT ![t] = "dpush"] /\ mutex[Peer(at[t])] = None
      BY <1>9, <2>3 DEF DaemonFatten, Go
    <3> QED
      BY <2>1, <2>3, <3>1, PeerOther, TwoEnds DEF TypeOK, ThenInv, MutexAccounted, HasMutex,
         CarryInv, LocalOwned, InsideAt, AskPc, MovePc, MayGive
  <2>4. CASE ~own[Peer(at[t])]
    <3>1. mutex' = mutex /\ pc' = [pc EXCEPT ![t] = then[t]]
      BY <1>9, <2>4 DEF DaemonFatten, Go
    <3> QED
      BY <2>1, <2>2, <3>1, PeerOther, TwoEnds DEF TypeOK, MutexAccounted, HasMutex, CarryInv,
         LocalOwned, InsideAt
  <2> QED
    BY <2>3, <2>4
<1>10. CASE DaemonLock(t)
  BY <1>10, PeerOther DEF TypeOK, ThenInv, CarryInv, LocalOwned, InsideAt, AskPc, MovePc,
     DaemonLock, Go
<1>11. CASE DaemonAcquire(t)
  BY <1>11, PeerOther, TwoEnds DEF TypeOK, ThenInv, CarryInv, LocalOwned, InsideAt, AskPc,
     MovePc, DaemonAcquire, Go
<1>12. CASE Deny(t)
  <2>1. pc' = [pc EXCEPT ![t] = then[t]] /\ then[t] \in {"want", "again"}
    BY <1>12 DEF TypeOK, ThenInv, AskPc, Deny, Go
  <2> QED
    BY <1>12, <2>1, PeerOther, TwoEnds DEF TypeOK, ThenInv, MutexAccounted, HasMutex, CarryInv,
       LocalOwned, InsideAt, AskPc, MovePc, MayGive, Deny
<1>13. CASE Promise(t)
  BY <1>13, PeerOther DEF TypeOK, ThenInv, CarryInv, LocalOwned, InsideAt, AskPc, MovePc,
     Promise, Go
<1>14. CASE ClearOwnership(t)
  BY <1>14, PeerOther, TwoEnds DEF TypeOK, ThenInv, MutexAccounted, HasMutex, CarryInv,
     LocalOwned, InsideAt, AskPc, MovePc, ClearOwnership, Go
<1>15. CASE DaemonResume(t)
  BY <1>15, PeerOther, TwoEnds DEF TypeOK, ThenInv, CarryInv, LocalOwned, InsideAt, AskPc,
     MovePc, DaemonResume, Go
<1>16. CASE SetOwnership(t)
  BY <1>16, PeerOther, TwoEnds DEF TypeOK, ThenInv, CarryInv, LocalOwned, InsideAt, AskPc,
     MovePc, SetOwnership, Go
<1>17. CASE Migrate(t)
  BY <1>17, PeerOther DEF TypeOK, ThenInv, CarryInv, LocalOwned, InsideAt, AskPc, MovePc,
     Migrate, Go
<1>18. CASE Deactivate(t)
  BY <1>18, PeerOther, TwoEnds DEF TypeOK, ThenInv, MutexAccounted, HasMutex, CarryInv,
     LocalOwned, InsideAt, AskPc, MovePc, MayGive, Deactivate, Go
<1>19. CASE Depart(t)
  BY <1>19, PeerOther, TwoEnds DEF TypeOK, ThenInv, CarryInv, LocalOwned, InsideAt, AskPc,
     MovePc, Depart, Go
<1>20. CASE Pull(t)
  BY <1>20, PeerOther DEF TypeOK, ThenInv, CarryInv, LocalOwned, InsideAt, AskPc, MovePc, Pull,
     Go
<1>21. CASE Activate(t)
  BY <1>21, PeerOther, TwoEnds DEF TypeOK, ThenInv, CarryInv, LocalOwned, InsideAt, AskPc,
     MovePc, Activate, Go
<1> QED
  BY <1>1, <1>2, <1>3, <1>4, <1>5, <1>6, <1>7, <1>8, <1>9, <1>10, <1>11,
     <1>12, <1>13, <1>14, <1>15, <1>16, <1>17, <1>18, <1>19, <1>20, <1>21 DEF Step

--------------------------------------------------------------------------------
(* The invariant. *)

(* A step keeps the invariant. *)
LEMMA StepInv == ASSUME IInv, race = "none", NEW t \in Threads, Step(t) PROVE IInv'
<1>1. TypeOK /\ ThenInv /\ StopInv /\ TurnInv /\ MutexAccounted /\ CarryInv
  BY DEF IInv
<1>2. OneOwner /\ LocalOwned
  BY DEF IInv, SoFar
<1>3. TypeOK'
  BY <1>1, PlaceType, BitType, HolderType, TurnType DEF TypeOK
<1>4. ThenInv' /\ StopInv' /\ TurnInv' /\ MutexAccounted' /\ CarryInv'
  BY <1>1, ThenStep, StopStep, TurnStep, MutexStep, CarryStep
<1>5. race' = "none" => OneOwner' /\ LocalOwned'
  BY <1>1, <1>2, OwnerStep, LocalStep
<1> QED
  BY <1>3, <1>4, <1>5 DEF IInv, SoFar

(* The invariant holds at the start: the phone owns the free monitor. *)
LEMMA InitInv == Init => IInv
<1> SUFFICES ASSUME Init PROVE IInv
  OBVIOUS
<1>1. TypeOK
  BY DEF Init, TypeOK, End, Pc
<1>2. ThenInv /\ StopInv /\ TurnInv /\ CarryInv
  BY DEF Init, ThenInv, StopInv, TurnInv, CarryInv, AskPc, MovePc
<1>3. MutexAccounted
  BY DEF Init, MutexAccounted, HasMutex, End
<1>4. OneOwner /\ LocalOwned
  BY DEF Init, OneOwner, LocalOwned, InsideAt, End
<1> QED
  BY <1>1, <1>2, <1>3, <1>4 DEF IInv, SoFar

(* A stuttering step keeps the invariant. *)
LEMMA StutterInv == IInv /\ UNCHANGED vars => IInv'
  BY DEF IInv, TypeOK, ThenInv, StopInv, TurnInv, MyTurn, MutexAccounted, HasMutex,
         CarryInv, SoFar, OneOwner, LocalOwned, InsideAt, vars

(* The inductive invariant of the protocol. *)
THEOREM InvHolds == Spec => []IInv
<1>1. IInv /\ [Next]_vars => IInv'
  BY StepInv, StutterInv DEF Next
<1> QED
  BY <1>1, InitInv, PTL DEF Spec

(* Until a race, the threads inside are one at most: those that are local  *)
(* are where the ownership is and hold its mutex, those that move carry    *)
(* it.                                                                     *)
LEMMA InsideAlone == IInv => Exclusive
<1> SUFFICES ASSUME IInv, race = "none" PROVE
      /\ \A t, u \in Threads : Inside(t) /\ Inside(u) => t = u
      /\ \A t \in Threads, e \in End : InsideAt(t, e) => own[e] /\ mutex[e] = t
  BY DEF Exclusive
<1>1. TypeOK /\ MutexAccounted /\ CarryInv /\ OneOwner /\ LocalOwned
  BY DEF IInv, SoFar
<1>2. \A t \in Threads, e \in End : InsideAt(t, e) => own[e] /\ mutex[e] = t
  BY <1>1 DEF TypeOK, LocalOwned, InsideAt, MutexAccounted, HasMutex
<1>3. \A t \in Threads : Inside(t) => InsideAt(t, at[t]) \/ carries[t]
  BY <1>1 DEF Inside, InsideAt, CarryInv, MovePc
<1>4. ASSUME NEW t \in Threads, NEW u \in Threads, Inside(t), Inside(u) PROVE t = u
  <2>1. CASE carries[t] /\ carries[u]
    BY <2>1, <1>1 DEF OneOwner
  <2>2. CASE carries[t] /\ InsideAt(u, at[u])
    BY <2>2, <1>1, <1>2, OwnerEnds DEF TypeOK
  <2>3. CASE carries[u] /\ InsideAt(t, at[t])
    BY <2>3, <1>1, <1>2, OwnerEnds DEF TypeOK
  <2>4. CASE InsideAt(t, at[t]) /\ InsideAt(u, at[u])
    <3>1. own[at[t]] /\ mutex[at[t]] = t /\ own[at[u]] /\ mutex[at[u]] = u
      BY <2>4, <1>1, <1>2 DEF TypeOK
    <3>2. at[t] = at[u]
      BY <3>1, <1>1, OwnerEnds, TwoEnds DEF TypeOK
    <3> QED
      BY <3>1, <3>2
  <2> QED
    BY <1>3, <1>4, <2>1, <2>2, <2>3, <2>4
<1> QED
  BY <1>2, <1>4

(* The types, for every set of threads. *)
THEOREM TypeCorrect == Spec => []TypeOK
  BY InvHolds, PTL DEF IInv

(* However grants, denials, suspensions and migrations interleave, the     *)
(* ownership is never lost, and is doubled by no step but the two races.   *)
THEOREM OwnershipIsConserved == Spec => []OwnershipConserved
<1>1. IInv => OwnershipConserved
  BY DEF IInv, SoFar, OwnershipConserved
<1> QED
  BY <1>1, InvHolds, PTL

(* Until a race, the monitor excludes across both endpoints. *)
THEOREM MonitorExcludes == Spec => []Exclusive
  BY InsideAlone, InvHolds, PTL

(* No path leaves the mutex locked behind it, races or not. *)
THEOREM MutexIsAccounted == Spec => []MutexAccounted
  BY InvHolds, PTL DEF IInv
================================================================================
