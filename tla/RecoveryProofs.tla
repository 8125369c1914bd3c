----------------------------- MODULE RecoveryProofs -----------------------------
(***************************************************************************)
(* Proofs about Recovery: for every set of threads, every nesting of       *)
(* hazards and every number of connections.                                *)
(***************************************************************************)
EXTENDS Recovery, FiniteSetTheorems, TLAPS

Entering == {"check", "enter", "wfc", "test", "trigger", "cond", "woken"}

(* A thread on its way into a hazard has room for it; one on its way out   *)
(* has one to leave.                                                       *)
RoomInv == \A t \in All : /\ pc[t] \in Entering => depth[t] < MaxDepth
                          /\ pc[t] = "clear" => depth[t] > 0

(* A thread of the server that is not attached, or still in its daemon, is *)
(* inside no hazard, and neither is any thread that acts aside.            *)
GhostInv == \A t \in All :
  /\ pc[t] \in {"none", "daemon", "serve"} => t \in Ghosts
  /\ pc[t] \in {"none", "daemon", "serve", "aside"} => depth[t] = 0

(* offRecoveryLock is held between steps by at most one thread. *)
LockInv == \A t \in All :
  pc[t] \in {"test", "trigger", "suspend", "cleaning"} <=> lock = t

(* No hazard is counted while the clean-up is under way. *)
QuietInv == \A t \in All : pc[t] \in {"suspend", "cleaning"} => hazards = 0

(* What the control thread's place says of the flags. *)
ControlInv == /\ connected <=> ctl \in {"greet", "up"}
              /\ ctl = "idle" => recovered \/ session = 0
              /\ ctl = "up" => ~recovered \/ raced
              /\ session = 0 => ctl = "idle"

(* A hazard entered before any connection is the one a trigger counts, on  *)
(* its way out.                                                            *)
SinceInv == \A t \in All :
  depth[t] > 0 /\ since[t] = 0 => depth[t] = 1 /\ pc[t] = "clear"

(* Nothing survives from one connection to the next: the offload state and *)
(* the hazards are of the current or last connection, and there are none   *)
(* between a clean-up and the next connection.  Of the offload state this  *)
(* holds until it is touched too late.                                     *)
ResidueInv == ~late =>
  /\ session = 0 => residue = {}
  /\ ~raced => residue \subseteq {session}
  /\ ~raced /\ recovered /\ ~connected => residue = {}
InsideInv == \A t \in All : depth[t] > 0 =>
  /\ session = 0 => since[t] = 0
  /\ ~raced => since[t] \in {0, session} /\ (connected \/ ~recovered)

(* A thread of the phone is local outside its hazards. *)
LocalInv == \A t \in Threads :
  depth[t] = 0 \/ (depth[t] = 1 /\ pc[t] = "clear") => local[t]

IInv == /\ TypeOK /\ HazardsExact /\ RoomInv /\ GhostInv /\ LockInv /\ QuietInv
        /\ ControlInv /\ SinceInv /\ ResidueInv /\ InsideInv /\ LocalInv /\ NobodyForgotten

USE ThreadAssumption, BoundAssumption

--------------------------------------------------------------------------------
(* Counting hazards.                                                       *)

(* Any set of tokens is finite. *)
LEMMA TokensFinite == ASSUME NEW S \in SUBSET (All \X (1 .. MaxDepth))
                      PROVE  IsFiniteSet(S) /\ Cardinality(S) \in Nat
<1>1. IsFiniteSet(All)
  BY FS_Union DEF All
<1>2. IsFiniteSet(1 .. MaxDepth)
  BY FS_Interval
<1>3. IsFiniteSet(All \X (1 .. MaxDepth))
  BY <1>1, <1>2, FS_Product
<1> QED
  BY <1>3, FS_Subset, FS_CardinalityType

(* Held is a set of tokens, before and after a step. *)
LEMMA HeldFinite == /\ IsFiniteSet(Held) /\ Cardinality(Held) \in Nat
                    /\ Cardinality(Held') \in Nat
<1>1. Held \in SUBSET (All \X (1 .. MaxDepth)) /\ Held' \in SUBSET (All \X (1 .. MaxDepth))
  BY DEF Held
<1> QED
  BY <1>1, TokensFinite

(* A hazard more is a token more... *)
LEMMA HeldEnter == ASSUME MineType, NEW t \in All, depth[t] < MaxDepth,
                          depth' = [depth EXCEPT ![t] = @ + 1]
                   PROVE  Cardinality(Held') = Cardinality(Held) + 1
<1> DEFINE h == <<t, depth[t] + 1>>
<1>1. h \in All \X (1 .. MaxDepth) /\ h \notin Held
  BY DEF MineType, Held
<1>2. \A g \in All \X (1 .. MaxDepth) : g[2] <= depth'[g[1]] <=> (g[2] <= depth[g[1]] \/ g = h)
  BY DEF MineType
<1>3. Held' = Held \cup {h}
  BY <1>1, <1>2 DEF Held
<1> QED
  BY <1>1, <1>3, HeldFinite, FS_AddElement

(* ...and one less a token less. *)
LEMMA HeldLeave == ASSUME MineType, NEW t \in All, depth[t] > 0,
                          depth' = [depth EXCEPT ![t] = @ - 1]
                   PROVE  Cardinality(Held') = Cardinality(Held) - 1
<1> DEFINE h == <<t, depth[t]>>
<1>1. h \in Held
  BY DEF MineType, Held
<1>2. \A g \in All \X (1 .. MaxDepth) : g[2] <= depth'[g[1]] <=> (g[2] <= depth[g[1]] /\ g # h)
  BY DEF MineType
<1>3. Held' = Held \ {h}
  BY <1>1, <1>2 DEF Held
<1> QED
  BY <1>1, <1>3, HeldFinite, FS_RemoveElement

(* No hazard is counted only when no thread is inside one. *)
LEMMA NoneHeld == ASSUME MineType, HazardsExact, hazards = 0
                  PROVE  \A t \in All : depth[t] = 0
<1>1. Held = {}
  BY HeldFinite, FS_EmptySet DEF HazardsExact
<1> SUFFICES ASSUME NEW t \in All, depth[t] # 0 PROVE FALSE
  OBVIOUS
<1>2. <<t, depth[t]>> \in Held
  BY DEF Held, MineType
<1> QED
  BY <1>1, <1>2

--------------------------------------------------------------------------------
(* Every step preserves every part of the invariant.                       *)

(* Types of the control flags. *)
LEMMA FlagStep == ASSUME IInv, [Next]_vars PROVE FlagType'
<1> USE DEF IInv, TypeOK, FlagType
<1>1. CASE Control
  <2>1. CASE Connect
    BY <2>1 DEF Connect, flags, mine, history, Count, Goto, All
  <2>2. CASE ConnectDone
    BY <2>2 DEF ConnectDone, flags, mine, history, Count, Goto, All
  <2>3. CASE Lose
    BY <2>3 DEF Lose, flags, mine, history, Count, Goto, All
  <2>4. CASE ControlClearance
    BY <2>4 DEF ControlClearance, flags, mine, history, Count, Goto, All
  <2> QED
    BY <1>1, <2>1, <2>2, <2>3, <2>4 DEF Control
<1>2. ASSUME NEW t \in All, CallEnter(t) \/ EnterRefused(t) \/ Suspend(t) PROVE FlagType'
  BY <1>2 DEF CallEnter, EnterRefused, Suspend, flags, mine, history, Count, Goto, All
<1>3. ASSUME NEW t \in All, Clearance(t) \/ ClearanceTest(t) PROVE FlagType'
  BY <1>3 DEF Clearance, ClearanceTest, flags, mine, history, Count, Goto, All
<1>4. ASSUME NEW t \in All, Work(t) \/ Migrate(t) \/ DaemonMigrate(t) \/ CallAside(t) PROVE FlagType'
  BY <1>4 DEF Work, Migrate, DaemonMigrate, CallAside, flags, mine, history, Count, Goto, All
<1>5. ASSUME NEW t \in All, Attach(t) \/ DaemonLost(t) \/ DaemonLeave(t) \/ Detach(t) PROVE FlagType'
  BY <1>5 DEF Attach, DaemonLost, DaemonLeave, Detach, flags, mine, history, Count, Goto, All
<1>6. ASSUME NEW t \in All, EnterConnected(t) PROVE FlagType'
  BY <1>6 DEF EnterConnected, flags, mine, history, Count, Goto, All
<1>7. ASSUME NEW t \in All, Trigger(t) PROVE FlagType'
  BY <1>7 DEF Trigger, flags, mine, history, Count, Goto, All
<1>8. ASSUME NEW t \in All, CallClear(t) PROVE FlagType'
  BY <1>8 DEF CallClear, flags, mine, history, Count, Goto, All
<1>9. ASSUME NEW t \in All, Clear(t) PROVE FlagType'
  BY <1>9 DEF Clear, Uncount, flags, mine, history, Count, Goto, All
<1>10. ASSUME NEW t \in All, Cleanup(t) PROVE FlagType'
  BY <1>10 DEF Cleanup, flags, mine, history, Count, Goto, All
<1>11. ASSUME NEW t \in All, Aside(t) \/ TrimGc(t) PROVE FlagType'
  BY <1>11 DEF Aside, TrimGc, Touch, flags, mine, history, Count, Goto, All
<1>12. CASE UNCHANGED vars
  BY <1>12 DEF vars, flags, mine, history, Count, Goto, All
<1> QED
  BY <1>1, <1>2, <1>3, <1>4, <1>5, <1>6, <1>7, <1>8, <1>9, <1>10, <1>11, <1>12 DEF Next, Step, Choice

(* Type of offRecoveryLock. *)
LEMMA LockTypeStep == ASSUME IInv, [Next]_vars PROVE (lock \in All \cup {NoThread})'
<1> USE DEF IInv, TypeOK, HazardType
<1>1. CASE Control
  BY <1>1 DEF Control, Connect, ConnectDone, Lose, ControlClearance, flags, mine, history, Count, Goto, All
<1>2. ASSUME NEW t \in All, CallEnter(t) \/ EnterRefused(t) \/ Suspend(t) PROVE (lock \in All \cup {NoThread})'
  BY <1>2 DEF CallEnter, EnterRefused, Suspend, flags, mine, history, Count, Goto, All
<1>3. ASSUME NEW t \in All, Clearance(t) \/ ClearanceTest(t) PROVE (lock \in All \cup {NoThread})'
  BY <1>3 DEF Clearance, ClearanceTest, flags, mine, history, Count, Goto, All
<1>4. ASSUME NEW t \in All, Work(t) \/ Migrate(t) \/ DaemonMigrate(t) \/ CallAside(t) PROVE (lock \in All \cup {NoThread})'
  BY <1>4 DEF Work, Migrate, DaemonMigrate, CallAside, flags, mine, history, Count, Goto, All
<1>5. ASSUME NEW t \in All, Attach(t) \/ DaemonLost(t) \/ DaemonLeave(t) \/ Detach(t) PROVE (lock \in All \cup {NoThread})'
  BY <1>5 DEF Attach, DaemonLost, DaemonLeave, Detach, flags, mine, history, Count, Goto, All
<1>6. ASSUME NEW t \in All, EnterConnected(t) PROVE (lock \in All \cup {NoThread})'
  BY <1>6 DEF EnterConnected, flags, mine, history, Count, Goto, All
<1>7. ASSUME NEW t \in All, Trigger(t) PROVE (lock \in All \cup {NoThread})'
  BY <1>7 DEF Trigger, flags, mine, history, Count, Goto, All
<1>8. ASSUME NEW t \in All, CallClear(t) PROVE (lock \in All \cup {NoThread})'
  BY <1>8 DEF CallClear, flags, mine, history, Count, Goto, All
<1>9. ASSUME NEW t \in All, Clear(t) PROVE (lock \in All \cup {NoThread})'
  BY <1>9 DEF Clear, Uncount, flags, mine, history, Count, Goto, All
<1>10. ASSUME NEW t \in All, Cleanup(t) PROVE (lock \in All \cup {NoThread})'
  BY <1>10 DEF Cleanup, flags, mine, history, Count, Goto, All
<1>11. ASSUME NEW t \in All, Aside(t) \/ TrimGc(t) PROVE (lock \in All \cup {NoThread})'
  BY <1>11 DEF Aside, TrimGc, Touch, flags, mine, history, Count, Goto, All
<1>12. CASE UNCHANGED vars
  BY <1>12 DEF vars, flags, mine, history, Count, Goto, All
<1> QED
  BY <1>1, <1>2, <1>3, <1>4, <1>5, <1>6, <1>7, <1>8, <1>9, <1>10, <1>11, <1>12 DEF Next, Step, Choice

(* Types of the threads' places. *)
LEMMA PcStep == ASSUME IInv, [Next]_vars PROVE PcType'
<1> USE DEF IInv, TypeOK, PcType
<1>1. CASE Control
  BY <1>1 DEF Control, Connect, ConnectDone, Lose, ControlClearance, flags, mine, history, Count, Goto, All, ThreadPc
<1>2. ASSUME NEW t \in All, CallEnter(t) \/ EnterRefused(t) \/ Suspend(t) PROVE PcType'
  BY <1>2 DEF CallEnter, EnterRefused, Suspend, flags, mine, history, Count, Goto, All, ThreadPc
<1>3. ASSUME NEW t \in All, Clearance(t) \/ ClearanceTest(t) PROVE PcType'
  BY <1>3 DEF Clearance, ClearanceTest, flags, mine, history, Count, Goto, All, ThreadPc
<1>4. ASSUME NEW t \in All, Work(t) \/ Migrate(t) \/ DaemonMigrate(t) \/ CallAside(t) PROVE PcType'
  BY <1>4 DEF Work, Migrate, DaemonMigrate, CallAside, flags, mine, history, Count, Goto, All, ThreadPc
<1>5. ASSUME NEW t \in All, Attach(t) \/ DaemonLost(t) \/ DaemonLeave(t) \/ Detach(t) PROVE PcType'
  BY <1>5 DEF Attach, DaemonLost, DaemonLeave, Detach, flags, mine, history, Count, Goto, All, ThreadPc
<1>6. ASSUME NEW t \in All, EnterConnected(t) PROVE PcType'
  BY <1>6 DEF EnterConnected, flags, mine, history, Count, Goto, All, ThreadPc
<1>7. ASSUME NEW t \in All, Trigger(t) PROVE PcType'
  BY <1>7 DEF Trigger, flags, mine, history, Count, Goto, All, ThreadPc
<1>8. ASSUME NEW t \in All, CallClear(t) PROVE PcType'
  BY <1>8 DEF CallClear, flags, mine, history, Count, Goto, All, ThreadPc
<1>9. ASSUME NEW t \in All, Clear(t) PROVE PcType'
  BY <1>9 DEF Clear, Uncount, flags, mine, history, Count, Goto, All, ThreadPc
<1>10. ASSUME NEW t \in All, Cleanup(t) PROVE PcType'
  BY <1>10 DEF Cleanup, flags, mine, history, Count, Goto, All, ThreadPc
<1>11. ASSUME NEW t \in All, Aside(t) \/ TrimGc(t) PROVE PcType'
  BY <1>11 DEF Aside, TrimGc, Touch, flags, mine, history, Count, Goto, All, ThreadPc
<1>12. CASE UNCHANGED vars
  BY <1>12 DEF vars, flags, mine, history, Count, Goto, All, ThreadPc
<1> QED
  BY <1>1, <1>2, <1>3, <1>4, <1>5, <1>6, <1>7, <1>8, <1>9, <1>10, <1>11, <1>12 DEF Next, Step, Choice

(* Types of the per-thread and offload state. *)
LEMMA MineStep == ASSUME IInv, [Next]_vars PROVE MineType'
<1> USE DEF IInv, TypeOK, MineType, RoomInv, Entering, FlagType
<1>1. CASE Control
  BY <1>1 DEF Control, Connect, ConnectDone, Lose, ControlClearance, flags, mine, history, Count, Goto, All
<1>2. ASSUME NEW t \in All, CallEnter(t) \/ EnterRefused(t) \/ Suspend(t) PROVE MineType'
  BY <1>2 DEF CallEnter, EnterRefused, Suspend, flags, mine, history, Count, Goto, All
<1>3. ASSUME NEW t \in All, Clearance(t) \/ ClearanceTest(t) PROVE MineType'
  BY <1>3 DEF Clearance, ClearanceTest, flags, mine, history, Count, Goto, All
<1>4. ASSUME NEW t \in All, Work(t) \/ Migrate(t) \/ DaemonMigrate(t) \/ CallAside(t) PROVE MineType'
  <2>1. CASE Work(t) \/ Migrate(t) \/ DaemonMigrate(t)
    BY <2>1 DEF Work, Migrate, DaemonMigrate, flags, history
  <2>2. CASE CallAside(t)
    BY <2>2 DEF CallAside, flags, history
  <2> QED
    BY <1>4, <2>1, <2>2
<1>5. ASSUME NEW t \in All, Attach(t) \/ DaemonLost(t) \/ DaemonLeave(t) \/ Detach(t) PROVE MineType'
  BY <1>5 DEF Attach, DaemonLost, DaemonLeave, Detach, flags, mine, history, Count, Goto, All
<1>6. ASSUME NEW t \in All, EnterConnected(t) PROVE MineType'
  BY <1>6 DEF EnterConnected, flags, mine, history, Count, Goto, All
<1>7. ASSUME NEW t \in All, Trigger(t) PROVE MineType'
  BY <1>7 DEF Trigger, flags, mine, history, Count, Goto, All
<1>8. ASSUME NEW t \in All, CallClear(t) PROVE MineType'
  BY <1>8 DEF CallClear, flags, mine, history, Count, Goto, All
<1>9. ASSUME NEW t \in All, Clear(t) PROVE MineType'
  BY <1>9 DEF Clear, Uncount, flags, mine, history, Count, Goto, All
<1>10. ASSUME NEW t \in All, Cleanup(t) PROVE MineType'
  BY <1>10 DEF Cleanup, flags, mine, history, Count, Goto, All
<1>11. ASSUME NEW t \in All, Aside(t) \/ TrimGc(t) PROVE MineType'
  <2>1. CASE Aside(t)
    <3>1. since[t] \in 0 .. MaxConn /\ 0 \in 0 .. MaxConn
      OBVIOUS
    <3>2. residue' \in SUBSET (0 .. MaxConn) /\ UNCHANGED <<depth, local, table>>
      BY <2>1, <3>1 DEF Aside, Touch
    <3>3. since' \in [All -> 0 .. MaxConn]
      BY <2>1, <3>1 DEF Aside
    <3> QED
      BY <3>2, <3>3
  <2>2. CASE TrimGc(t)
    BY <2>2 DEF TrimGc, Touch, flags
  <2> QED
    BY <1>11, <2>1, <2>2
<1>12. CASE UNCHANGED vars
  BY <1>12 DEF vars, flags, mine, history, Count, Goto, All
<1> QED
  BY <1>1, <1>2, <1>3, <1>4, <1>5, <1>6, <1>7, <1>8, <1>9, <1>10, <1>11, <1>12 DEF Next, Step, Choice

(* Entering leaves room, clearing has something to clear. *)
LEMMA RoomStep == ASSUME IInv, [Next]_vars PROVE RoomInv'
<1> USE DEF IInv, TypeOK, PcType, MineType, RoomInv, GhostInv, Entering
<1>1. CASE Control
  BY <1>1 DEF Control, Connect, ConnectDone, Lose, ControlClearance, flags, mine, history, Count, Goto, All
<1>2. ASSUME NEW t \in All, CallEnter(t) \/ EnterRefused(t) \/ Suspend(t) PROVE RoomInv'
  BY <1>2 DEF CallEnter, EnterRefused, Suspend, flags, mine, history, Count, Goto, All
<1>3. ASSUME NEW t \in All, Clearance(t) \/ ClearanceTest(t) PROVE RoomInv'
  BY <1>3 DEF Clearance, ClearanceTest, flags, mine, history, Count, Goto, All
<1>4. ASSUME NEW t \in All, Work(t) \/ Migrate(t) \/ DaemonMigrate(t) \/ CallAside(t) PROVE RoomInv'
  BY <1>4 DEF Work, Migrate, DaemonMigrate, CallAside, flags, mine, history, Count, Goto, All
<1>5. ASSUME NEW t \in All, Attach(t) \/ DaemonLost(t) \/ DaemonLeave(t) \/ Detach(t) PROVE RoomInv'
  BY <1>5 DEF Attach, DaemonLost, DaemonLeave, Detach, flags, mine, history, Count, Goto, All
<1>6. ASSUME NEW t \in All, EnterConnected(t) PROVE RoomInv'
  BY <1>6 DEF EnterConnected, flags, mine, history, Count, Goto, All
<1>7. ASSUME NEW t \in All, Trigger(t) PROVE RoomInv'
  BY <1>7 DEF Trigger, flags, mine, history, Count, Goto, All
<1>8. ASSUME NEW t \in All, CallClear(t) PROVE RoomInv'
  BY <1>8 DEF CallClear, flags, mine, history, Count, Goto, All
<1>9. ASSUME NEW t \in All, Clear(t) PROVE RoomInv'
  BY <1>9 DEF Clear, Uncount, flags, mine, history, Count, Goto, All
<1>10. ASSUME NEW t \in All, Cleanup(t) PROVE RoomInv'
  BY <1>10 DEF Cleanup, flags, mine, history, Count, Goto, All
<1>11. ASSUME NEW t \in All, Aside(t) \/ TrimGc(t) PROVE RoomInv'
  BY <1>11 DEF Aside, TrimGc, Touch, flags, mine, history, Count, Goto, All
<1>12. CASE UNCHANGED vars
  BY <1>12 DEF vars, flags, mine, history, Count, Goto, All
<1> QED
  BY <1>1, <1>2, <1>3, <1>4, <1>5, <1>6, <1>7, <1>8, <1>9, <1>10, <1>11, <1>12 DEF Next, Step, Choice

(* Threads in their daemon hold nothing. *)
LEMMA GhostStep == ASSUME IInv, [Next]_vars PROVE GhostInv'
<1> USE DEF IInv, TypeOK, PcType, MineType, RoomInv, GhostInv, Entering
<1>1. CASE Control
  BY <1>1 DEF Control, Connect, ConnectDone, Lose, ControlClearance, flags, mine, history, Count, Goto, All
<1>2. ASSUME NEW t \in All, CallEnter(t) \/ EnterRefused(t) \/ Suspend(t) PROVE GhostInv'
  BY <1>2 DEF CallEnter, EnterRefused, Suspend, flags, mine, history, Count, Goto, All
<1>3. ASSUME NEW t \in All, Clearance(t) \/ ClearanceTest(t) PROVE GhostInv'
  BY <1>3 DEF Clearance, ClearanceTest, flags, mine, history, Count, Goto, All
<1>4. ASSUME NEW t \in All, Work(t) \/ Migrate(t) \/ DaemonMigrate(t) \/ CallAside(t) PROVE GhostInv'
  BY <1>4 DEF Work, Migrate, DaemonMigrate, CallAside, flags, mine, history, Count, Goto, All
<1>5. ASSUME NEW t \in All, Attach(t) \/ DaemonLost(t) \/ DaemonLeave(t) \/ Detach(t) PROVE GhostInv'
  BY <1>5 DEF Attach, DaemonLost, DaemonLeave, Detach, flags, mine, history, Count, Goto, All
<1>6. ASSUME NEW t \in All, EnterConnected(t) PROVE GhostInv'
  BY <1>6 DEF EnterConnected, flags, mine, history, Count, Goto, All
<1>7. ASSUME NEW t \in All, Trigger(t) PROVE GhostInv'
  BY <1>7 DEF Trigger, flags, mine, history, Count, Goto, All
<1>8. ASSUME NEW t \in All, CallClear(t) PROVE GhostInv'
  BY <1>8 DEF CallClear, flags, mine, history, Count, Goto, All
<1>9. ASSUME NEW t \in All, Clear(t) PROVE GhostInv'
  BY <1>9 DEF Clear, Uncount, flags, mine, history, Count, Goto, All
<1>10. ASSUME NEW t \in All, Cleanup(t) PROVE GhostInv'
  BY <1>10 DEF Cleanup, flags, mine, history, Count, Goto, All
<1>11. ASSUME NEW t \in All, Aside(t) \/ TrimGc(t) PROVE GhostInv'
  BY <1>11 DEF Aside, TrimGc, Touch, flags, mine, history, Count, Goto, All
<1>12. CASE UNCHANGED vars
  BY <1>12 DEF vars, flags, mine, history, Count, Goto, All
<1> QED
  BY <1>1, <1>2, <1>3, <1>4, <1>5, <1>6, <1>7, <1>8, <1>9, <1>10, <1>11, <1>12 DEF Next, Step, Choice

(* Mutual exclusion of the steps that keep the lock. *)
LEMMA LockStep == ASSUME IInv, [Next]_vars PROVE LockInv'
<1> USE DEF IInv, TypeOK, PcType, LockInv
<1>1. CASE Control
  BY <1>1 DEF Control, Connect, ConnectDone, Lose, ControlClearance, flags, mine, history, Count, Goto, All
<1>2. ASSUME NEW t \in All, CallEnter(t) \/ EnterRefused(t) \/ Suspend(t) PROVE LockInv'
  BY <1>2 DEF CallEnter, EnterRefused, Suspend, flags, mine, history, Count, Goto, All
<1>3. ASSUME NEW t \in All, Clearance(t) \/ ClearanceTest(t) PROVE LockInv'
  BY <1>3 DEF Clearance, ClearanceTest, flags, mine, history, Count, Goto, All
<1>4. ASSUME NEW t \in All, Work(t) \/ Migrate(t) \/ DaemonMigrate(t) \/ CallAside(t) PROVE LockInv'
  BY <1>4 DEF Work, Migrate, DaemonMigrate, CallAside, flags, mine, history, Count, Goto, All
<1>5. ASSUME NEW t \in All, Attach(t) \/ DaemonLost(t) \/ DaemonLeave(t) \/ Detach(t) PROVE LockInv'
  BY <1>5 DEF Attach, DaemonLost, DaemonLeave, Detach, flags, mine, history, Count, Goto, All
<1>6. ASSUME NEW t \in All, EnterConnected(t) PROVE LockInv'
  BY <1>6 DEF EnterConnected, flags, mine, history, Count, Goto, All
<1>7. ASSUME NEW t \in All, Trigger(t) PROVE LockInv'
  BY <1>7 DEF Trigger, flags, mine, history, Count, Goto, All
<1>8. ASSUME NEW t \in All, CallClear(t) PROVE LockInv'
  BY <1>8 DEF CallClear, flags, mine, history, Count, Goto, All
<1>9. ASSUME NEW t \in All, Clear(t) PROVE LockInv'
  BY <1>9 DEF Clear, Uncount, flags, mine, history, Count, Goto, All
<1>10. ASSUME NEW t \in All, Cleanup(t) PROVE LockInv'
  BY <1>10 DEF Cleanup, flags, mine, history, Count, Goto, All
<1>11. ASSUME NEW t \in All, Aside(t) \/ TrimGc(t) PROVE LockInv'
  BY <1>11 DEF Aside, TrimGc, Touch, flags, mine, history, Count, Goto, All
<1>12. CASE UNCHANGED vars
  BY <1>12 DEF vars, flags, mine, history, Count, Goto, All
<1> QED
  BY <1>1, <1>2, <1>3, <1>4, <1>5, <1>6, <1>7, <1>8, <1>9, <1>10, <1>11, <1>12 DEF Next, Step, Choice

(* The count stays zero during a clean-up. *)
LEMMA QuietStep == ASSUME IInv, [Next]_vars PROVE QuietInv'
<1> USE DEF IInv, TypeOK, PcType, LockInv, QuietInv
<1>1. CASE Control
  BY <1>1 DEF Control, Connect, ConnectDone, Lose, ControlClearance, flags, mine, history, Count, Goto, All
<1>2. ASSUME NEW t \in All, CallEnter(t) \/ EnterRefused(t) \/ Suspend(t) PROVE QuietInv'
  BY <1>2 DEF CallEnter, EnterRefused, Suspend, flags, mine, history, Count, Goto, All
<1>3. ASSUME NEW t \in All, Clearance(t) \/ ClearanceTest(t) PROVE QuietInv'
  BY <1>3 DEF Clearance, ClearanceTest, flags, mine, history, Count, Goto, All
<1>4. ASSUME NEW t \in All, Work(t) \/ Migrate(t) \/ DaemonMigrate(t) \/ CallAside(t) PROVE QuietInv'
  BY <1>4 DEF Work, Migrate, DaemonMigrate, CallAside, flags, mine, history, Count, Goto, All
<1>5. ASSUME NEW t \in All, Attach(t) \/ DaemonLost(t) \/ DaemonLeave(t) \/ Detach(t) PROVE QuietInv'
  BY <1>5 DEF Attach, DaemonLost, DaemonLeave, Detach, flags, mine, history, Count, Goto, All
<1>6. ASSUME NEW t \in All, EnterConnected(t) PROVE QuietInv'
  BY <1>6 DEF EnterConnected, flags, mine, history, Count, Goto, All
<1>7. ASSUME NEW t \in All, Trigger(t) PROVE QuietInv'
  BY <1>7 DEF Trigger, flags, mine, history, Count, Goto, All
<1>8. ASSUME NEW t \in All, CallClear(t) PROVE QuietInv'
  BY <1>8 DEF CallClear, flags, mine, history, Count, Goto, All
<1>9. ASSUME NEW t \in All, Clear(t) PROVE QuietInv'
  BY <1>9 DEF Clear, Uncount, flags, mine, history, Count, Goto, All
<1>10. ASSUME NEW t \in All, Cleanup(t) PROVE QuietInv'
  BY <1>10 DEF Cleanup, flags, mine, history, Count, Goto, All
<1>11. ASSUME NEW t \in All, Aside(t) \/ TrimGc(t) PROVE QuietInv'
  BY <1>11 DEF Aside, TrimGc, Touch, flags, mine, history, Count, Goto, All
<1>12. CASE UNCHANGED vars
  BY <1>12 DEF vars, flags, mine, history, Count, Goto, All
<1> QED
  BY <1>1, <1>2, <1>3, <1>4, <1>5, <1>6, <1>7, <1>8, <1>9, <1>10, <1>11, <1>12 DEF Next, Step, Choice

(* The control thread's view of the flags. *)
LEMMA ControlStep == ASSUME IInv, [Next]_vars PROVE ControlInv'
<1> USE DEF IInv, TypeOK, FlagType, ControlInv
<1>1. CASE Control
  BY <1>1 DEF Control, Connect, ConnectDone, Lose, ControlClearance, flags, mine, history, Count, Goto, All
<1>2. ASSUME NEW t \in All, CallEnter(t) \/ EnterRefused(t) \/ Suspend(t) PROVE ControlInv'
  BY <1>2 DEF CallEnter, EnterRefused, Suspend, flags, mine, history, Count, Goto, All
<1>3. ASSUME NEW t \in All, Clearance(t) \/ ClearanceTest(t) PROVE ControlInv'
  BY <1>3 DEF Clearance, ClearanceTest, flags, mine, history, Count, Goto, All
<1>4. ASSUME NEW t \in All, Work(t) \/ Migrate(t) \/ DaemonMigrate(t) \/ CallAside(t) PROVE ControlInv'
  BY <1>4 DEF Work, Migrate, DaemonMigrate, CallAside, flags, mine, history, Count, Goto, All
<1>5. ASSUME NEW t \in All, Attach(t) \/ DaemonLost(t) \/ DaemonLeave(t) \/ Detach(t) PROVE ControlInv'
  BY <1>5 DEF Attach, DaemonLost, DaemonLeave, Detach, flags, mine, history, Count, Goto, All
<1>6. ASSUME NEW t \in All, EnterConnected(t) PROVE ControlInv'
  BY <1>6 DEF EnterConnected, flags, mine, history, Count, Goto, All
<1>7. ASSUME NEW t \in All, Trigger(t) PROVE ControlInv'
  BY <1>7 DEF Trigger, flags, mine, history, Count, Goto, All
<1>8. ASSUME NEW t \in All, CallClear(t) PROVE ControlInv'
  BY <1>8 DEF CallClear, flags, mine, history, Count, Goto, All
<1>9. ASSUME NEW t \in All, Clear(t) PROVE ControlInv'
  BY <1>9 DEF Clear, Uncount, flags, mine, history, Count, Goto, All
<1>10. ASSUME NEW t \in All, Cleanup(t) PROVE ControlInv'
  BY <1>10 DEF Cleanup, flags, mine, history, Count, Goto, All
<1>11. ASSUME NEW t \in All, Aside(t) \/ TrimGc(t) PROVE ControlInv'
  BY <1>11 DEF Aside, TrimGc, Touch, flags, mine, history, Count, Goto, All
<1>12. CASE UNCHANGED vars
  BY <1>12 DEF vars, flags, mine, history, Count, Goto, All
<1> QED
  BY <1>1, <1>2, <1>3, <1>4, <1>5, <1>6, <1>7, <1>8, <1>9, <1>10, <1>11, <1>12 DEF Next, Step, Choice

(* Hazards from before any connection. *)
LEMMA SinceStep == ASSUME IInv, [Next]_vars PROVE SinceInv'
<1> USE DEF IInv, TypeOK, PcType, MineType, FlagType, ControlInv, SinceInv, RoomInv, GhostInv
<1>1. CASE Control
  BY <1>1 DEF Control, Connect, ConnectDone, Lose, ControlClearance, flags, mine, history, Count, Goto, All
<1>2. ASSUME NEW t \in All, CallEnter(t) \/ EnterRefused(t) \/ Suspend(t) PROVE SinceInv'
  BY <1>2 DEF CallEnter, EnterRefused, Suspend, flags, mine, history, Count, Goto, All
<1>3. ASSUME NEW t \in All, Clearance(t) \/ ClearanceTest(t) PROVE SinceInv'
  BY <1>3 DEF Clearance, ClearanceTest, flags, mine, history, Count, Goto, All
<1>4. ASSUME NEW t \in All, Work(t) \/ Migrate(t) \/ DaemonMigrate(t) \/ CallAside(t) PROVE SinceInv'
  BY <1>4 DEF Work, Migrate, DaemonMigrate, CallAside, flags, mine, history, Count, Goto, All
<1>5. ASSUME NEW t \in All, Attach(t) \/ DaemonLost(t) \/ DaemonLeave(t) \/ Detach(t) PROVE SinceInv'
  BY <1>5 DEF Attach, DaemonLost, DaemonLeave, Detach, flags, mine, history, Count, Goto, All
<1>6. ASSUME NEW t \in All, EnterConnected(t) PROVE SinceInv'
  BY <1>6 DEF EnterConnected, flags, mine, history, Count, Goto, All
<1>7. ASSUME NEW t \in All, Trigger(t) PROVE SinceInv'
  BY <1>7 DEF Trigger, flags, mine, history, Count, Goto, All
<1>8. ASSUME NEW t \in All, CallClear(t) PROVE SinceInv'
  BY <1>8 DEF CallClear, flags, mine, history, Count, Goto, All
<1>9. ASSUME NEW t \in All, Clear(t) PROVE SinceInv'
  BY <1>9 DEF Clear, Uncount, flags, mine, history, Count, Goto, All
<1>10. ASSUME NEW t \in All, Cleanup(t) PROVE SinceInv'
  BY <1>10 DEF Cleanup, flags, mine, history, Count, Goto, All
<1>11. ASSUME NEW t \in All, Aside(t) \/ TrimGc(t) PROVE SinceInv'
  BY <1>11 DEF Aside, TrimGc, Touch, flags, mine, history, Count, Goto, All
<1>12. CASE UNCHANGED vars
  BY <1>12 DEF vars, flags, mine, history, Count, Goto, All
<1> QED
  BY <1>1, <1>2, <1>3, <1>4, <1>5, <1>6, <1>7, <1>8, <1>9, <1>10, <1>11, <1>12 DEF Next, Step, Choice

(* The offload state is of one connection. *)
LEMMA ResidueStep == ASSUME IInv, [Next]_vars PROVE ResidueInv'
<1> USE DEF IInv, TypeOK, ResidueInv
<1>1. CASE Control
  <2>1. CASE Connect
    BY <2>1 DEF Connect, mine, history, ControlInv, FlagType
  <2>2. CASE ConnectDone
    BY <2>2 DEF ConnectDone, mine, history
  <2>3. CASE Lose
    BY <2>3 DEF Lose, mine, history, ControlInv, FlagType
  <2>4. CASE ControlClearance
    BY <2>4 DEF ControlClearance, mine, history
  <2> QED
    BY <1>1, <2>1, <2>2, <2>3, <2>4 DEF Control
<1>2. ASSUME NEW t \in All, CallEnter(t) \/ EnterRefused(t) \/ Suspend(t) PROVE ResidueInv'
  BY <1>2 DEF CallEnter, EnterRefused, Suspend, flags, mine, history
<1>3. ASSUME NEW t \in All, Clearance(t) \/ ClearanceTest(t) PROVE ResidueInv'
  BY <1>3 DEF Clearance, ClearanceTest, flags, mine, history
<1>4. ASSUME NEW t \in All, Work(t) \/ Migrate(t) \/ DaemonMigrate(t) \/ CallAside(t) PROVE ResidueInv'
  <2>1. CASE Work(t)
    <3>1. since[t] # 0
      BY <2>1 DEF Work, SinceInv, MineType
    <3>2. session # 0 /\ (~raced => since[t] = session /\ (connected \/ ~recovered))
      BY <2>1, <3>1 DEF Work, InsideInv
    <3> QED
      BY <2>1, <3>2 DEF Work, flags, history
  <2>2. CASE Migrate(t) \/ DaemonMigrate(t) \/ CallAside(t)
    BY <2>2 DEF Migrate, DaemonMigrate, CallAside, flags, history
  <2> QED
    BY <1>4, <2>1, <2>2
<1>5. ASSUME NEW t \in All, Attach(t) \/ DaemonLost(t) \/ DaemonLeave(t) \/ Detach(t) PROVE ResidueInv'
  BY <1>5 DEF Attach, DaemonLost, DaemonLeave, Detach, flags, mine, history
<1>6. ASSUME NEW t \in All, EnterConnected(t) PROVE ResidueInv'
  BY <1>6 DEF EnterConnected, flags, history
<1>7. ASSUME NEW t \in All, Trigger(t) PROVE ResidueInv'
  BY <1>7 DEF Trigger, flags, history
<1>8. ASSUME NEW t \in All, CallClear(t) PROVE ResidueInv'
  BY <1>8 DEF CallClear, flags, history
<1>9. ASSUME NEW t \in All, Clear(t) PROVE ResidueInv'
  BY <1>9 DEF Clear, Uncount, flags, mine, history
<1>10. ASSUME NEW t \in All, Cleanup(t) PROVE ResidueInv'
  BY <1>10 DEF Cleanup, flags, mine, history
<1>11. ASSUME NEW t \in All, Aside(t) \/ TrimGc(t) PROVE ResidueInv'
  <2>1. PICK s \in {since[t], session} : Touch(s)
    BY <1>11 DEF Aside, TrimGc
  <2>2. UNCHANGED <<connected, recovered, session, raced>>
    BY <1>11 DEF Aside, TrimGc, flags
  <2>3. CASE TooLate(s)
    BY <2>1, <2>3 DEF Touch, FlagType
  <2>4. CASE ~TooLate(s)
    BY <2>1, <2>2, <2>4 DEF Touch, TooLate, ControlInv, FlagType
  <2> QED
    BY <2>3, <2>4
<1>12. CASE UNCHANGED vars
  BY <1>12 DEF vars, flags, mine, history
<1> QED
  BY <1>1, <1>2, <1>3, <1>4, <1>5, <1>6, <1>7, <1>8, <1>9, <1>10, <1>11, <1>12 DEF Next, Step, Choice

(* The hazards are of one connection. *)
LEMMA InsideStep == ASSUME IInv, [Next]_vars PROVE InsideInv'
<1> USE DEF IInv, TypeOK, PcType, MineType, FlagType, ControlInv, InsideInv, GhostInv
<1>1. CASE Control
  BY <1>1 DEF Control, Connect, ConnectDone, Lose, ControlClearance, flags, mine, history, Count, Goto, All
<1>2. ASSUME NEW t \in All, CallEnter(t) \/ EnterRefused(t) \/ Suspend(t) PROVE InsideInv'
  BY <1>2 DEF CallEnter, EnterRefused, Suspend, flags, mine, history, Count, Goto, All
<1>3. ASSUME NEW t \in All, Clearance(t) \/ ClearanceTest(t) PROVE InsideInv'
  BY <1>3 DEF Clearance, ClearanceTest, flags, mine, history, Count, Goto, All
<1>4. ASSUME NEW t \in All, Work(t) \/ Migrate(t) \/ DaemonMigrate(t) \/ CallAside(t) PROVE InsideInv'
  BY <1>4 DEF Work, Migrate, DaemonMigrate, CallAside, flags, mine, history, Count, Goto, All
<1>5. ASSUME NEW t \in All, Attach(t) \/ DaemonLost(t) \/ DaemonLeave(t) \/ Detach(t) PROVE InsideInv'
  BY <1>5 DEF Attach, DaemonLost, DaemonLeave, Detach, flags, mine, history, Count, Goto, All
<1>6. ASSUME NEW t \in All, EnterConnected(t) PROVE InsideInv'
  BY <1>6 DEF EnterConnected, flags, mine, history, Count, Goto, All
<1>7. ASSUME NEW t \in All, Trigger(t) PROVE InsideInv'
  BY <1>7 DEF Trigger, flags, mine, history, Count, Goto, All
<1>8. ASSUME NEW t \in All, CallClear(t) PROVE InsideInv'
  BY <1>8 DEF CallClear, flags, mine, history, Count, Goto, All
<1>9. ASSUME NEW t \in All, Clear(t) PROVE InsideInv'
  BY <1>9 DEF Clear, Uncount, flags, mine, history, Count, Goto, All
<1>10. ASSUME NEW t \in All, Cleanup(t) PROVE InsideInv'
  <2>1. \A u \in All : depth'[u] = 0
    BY <1>10, NoneHeld DEF Cleanup, QuietInv
  <2> QED
    BY <2>1
<1>11. ASSUME NEW t \in All, Aside(t) \/ TrimGc(t) PROVE InsideInv'
  BY <1>11 DEF Aside, TrimGc, Touch, flags, mine, history, Count, Goto, All
<1>12. CASE UNCHANGED vars
  BY <1>12 DEF vars, flags, mine, history, Count, Goto, All
<1> QED
  BY <1>1, <1>2, <1>3, <1>4, <1>5, <1>6, <1>7, <1>8, <1>9, <1>10, <1>11, <1>12 DEF Next, Step, Choice

(* Threads outside hazards are local. *)
LEMMA LocalStep == ASSUME IInv, [Next]_vars PROVE LocalInv'
<1> USE DEF IInv, TypeOK, PcType, MineType, GhostInv, LocalInv
<1>1. CASE Control
  BY <1>1 DEF Control, Connect, ConnectDone, Lose, ControlClearance, flags, mine, history, Count, Goto, All
<1>2. ASSUME NEW t \in All, CallEnter(t) \/ EnterRefused(t) \/ Suspend(t) PROVE LocalInv'
  BY <1>2 DEF CallEnter, EnterRefused, Suspend, flags, mine, history, Count, Goto, All
<1>3. ASSUME NEW t \in All, Clearance(t) \/ ClearanceTest(t) PROVE LocalInv'
  BY <1>3 DEF Clearance, ClearanceTest, flags, mine, history, Count, Goto, All
<1>4. ASSUME NEW t \in All, Work(t) \/ Migrate(t) \/ DaemonMigrate(t) \/ CallAside(t) PROVE LocalInv'
  BY <1>4 DEF Work, Migrate, DaemonMigrate, CallAside, flags, mine, history, Count, Goto, All
<1>5. ASSUME NEW t \in All, Attach(t) \/ DaemonLost(t) \/ DaemonLeave(t) \/ Detach(t) PROVE LocalInv'
  BY <1>5 DEF Attach, DaemonLost, DaemonLeave, Detach, flags, mine, history, Count, Goto, All
<1>6. ASSUME NEW t \in All, EnterConnected(t) PROVE LocalInv'
  BY <1>6 DEF EnterConnected, flags, mine, history, Count, Goto, All
<1>7. ASSUME NEW t \in All, Trigger(t) PROVE LocalInv'
  BY <1>7 DEF Trigger, flags, mine, history, Count, Goto, All
<1>8. ASSUME NEW t \in All, CallClear(t) PROVE LocalInv'
  BY <1>8 DEF CallClear, flags, mine, history, Count, Goto, All
<1>9. ASSUME NEW t \in All, Clear(t) PROVE LocalInv'
  BY <1>9 DEF Clear, Uncount, flags, mine, history, Count, Goto, All
<1>10. ASSUME NEW t \in All, Cleanup(t) PROVE LocalInv'
  BY <1>10 DEF Cleanup, flags, mine, history, Count, Goto, All
<1>11. ASSUME NEW t \in All, Aside(t) \/ TrimGc(t) PROVE LocalInv'
  BY <1>11 DEF Aside, TrimGc, Touch, flags, mine, history, Count, Goto, All
<1>12. CASE UNCHANGED vars
  BY <1>12 DEF vars, flags, mine, history, Count, Goto, All
<1> QED
  BY <1>1, <1>2, <1>3, <1>4, <1>5, <1>6, <1>7, <1>8, <1>9, <1>10, <1>11, <1>12 DEF Next, Step, Choice

(* Broadcasts reach every sleeper. *)
LEMMA ForgottenStep == ASSUME IInv, [Next]_vars PROVE NobodyForgotten'
<1> USE DEF IInv, TypeOK, PcType, FlagType, ControlInv, NobodyForgotten
<1>1. CASE Control
  BY <1>1 DEF Control, Connect, ConnectDone, Lose, ControlClearance, flags, mine, history, Count, Goto, All
<1>2. ASSUME NEW t \in All, CallEnter(t) \/ EnterRefused(t) \/ Suspend(t) PROVE NobodyForgotten'
  BY <1>2 DEF CallEnter, EnterRefused, Suspend, flags, mine, history, Count, Goto, All
<1>3. ASSUME NEW t \in All, Clearance(t) \/ ClearanceTest(t) PROVE NobodyForgotten'
  BY <1>3 DEF Clearance, ClearanceTest, flags, mine, history, Count, Goto, All
<1>4. ASSUME NEW t \in All, Work(t) \/ Migrate(t) \/ DaemonMigrate(t) \/ CallAside(t) PROVE NobodyForgotten'
  BY <1>4 DEF Work, Migrate, DaemonMigrate, CallAside, flags, mine, history, Count, Goto, All
<1>5. ASSUME NEW t \in All, Attach(t) \/ DaemonLost(t) \/ DaemonLeave(t) \/ Detach(t) PROVE NobodyForgotten'
  BY <1>5 DEF Attach, DaemonLost, DaemonLeave, Detach, flags, mine, history, Count, Goto, All
<1>6. ASSUME NEW t \in All, EnterConnected(t) PROVE NobodyForgotten'
  BY <1>6 DEF EnterConnected, flags, mine, history, Count, Goto, All
<1>7. ASSUME NEW t \in All, Trigger(t) PROVE NobodyForgotten'
  BY <1>7 DEF Trigger, flags, mine, history, Count, Goto, All
<1>8. ASSUME NEW t \in All, CallClear(t) PROVE NobodyForgotten'
  BY <1>8 DEF CallClear, flags, mine, history, Count, Goto, All
<1>9. ASSUME NEW t \in All, Clear(t) PROVE NobodyForgotten'
  BY <1>9 DEF Clear, Uncount, flags, mine, history, Count, Goto, All
<1>10. ASSUME NEW t \in All, Cleanup(t) PROVE NobodyForgotten'
  BY <1>10 DEF Cleanup, flags, mine, history, Count, Goto, All
<1>11. ASSUME NEW t \in All, Aside(t) \/ TrimGc(t) PROVE NobodyForgotten'
  BY <1>11 DEF Aside, TrimGc, Touch, flags, mine, history, Count, Goto, All
<1>12. CASE UNCHANGED vars
  BY <1>12 DEF vars, flags, mine, history, Count, Goto, All
<1> QED
  BY <1>1, <1>2, <1>3, <1>4, <1>5, <1>6, <1>7, <1>8, <1>9, <1>10, <1>11, <1>12 DEF Next, Step, Choice

(* The count follows the tokens. *)
LEMMA HazardStep == ASSUME IInv, [Next]_vars PROVE (hazards \in Nat /\ HazardsExact)'
<1> USE DEF IInv, TypeOK, HazardType, HazardsExact
<1>1. CASE Control
  BY <1>1 DEF Control, Connect, ConnectDone, Lose, ControlClearance, flags, mine, history, Held, HazardsExact, HazardType
<1>2. ASSUME NEW t \in All, CallEnter(t) \/ EnterRefused(t) \/ Suspend(t) PROVE (hazards \in Nat /\ HazardsExact)'
  BY <1>2 DEF CallEnter, EnterRefused, Suspend, flags, mine, history, Held, HazardsExact, HazardType
<1>3. ASSUME NEW t \in All, Clearance(t) \/ ClearanceTest(t) PROVE (hazards \in Nat /\ HazardsExact)'
  BY <1>3 DEF Clearance, ClearanceTest, flags, mine, history, Held, HazardsExact, HazardType
<1>4. ASSUME NEW t \in All, Work(t) \/ Migrate(t) \/ DaemonMigrate(t) \/ CallAside(t) PROVE (hazards \in Nat /\ HazardsExact)'
  BY <1>4 DEF Work, Migrate, DaemonMigrate, CallAside, flags, mine, history, Held, HazardsExact, HazardType
<1>5. ASSUME NEW t \in All, Attach(t) \/ DaemonLost(t) \/ DaemonLeave(t) \/ Detach(t) PROVE (hazards \in Nat /\ HazardsExact)'
  BY <1>5 DEF Attach, DaemonLost, DaemonLeave, Detach, flags, mine, history, Held, HazardsExact, HazardType
<1>6. ASSUME NEW t \in All, EnterConnected(t) PROVE (hazards \in Nat /\ HazardsExact)'
  <2>1. hazards' = hazards + 1 /\ depth' = [depth EXCEPT ![t] = @ + 1] /\ depth[t] < MaxDepth
    BY <1>6 DEF EnterConnected, Count, RoomInv, Entering
  <2>2. Cardinality(Held') = Cardinality(Held) + 1
    BY <2>1, HeldEnter
  <2> QED
    BY <2>1, <2>2
<1>7. ASSUME NEW t \in All, Trigger(t) PROVE (hazards \in Nat /\ HazardsExact)'
  <2>1. CASE recovered
    BY <1>7, <2>1 DEF Trigger, flags, Held
  <2>2. CASE ~recovered
    <3>1. hazards' = hazards + 1 /\ depth' = [depth EXCEPT ![t] = @ + 1] /\ depth[t] < MaxDepth
      BY <1>7, <2>2 DEF Trigger, Count, RoomInv, Entering
    <3>2. Cardinality(Held') = Cardinality(Held) + 1
      BY <3>1, HeldEnter
    <3> QED
      BY <3>1, <3>2
  <2> QED
    BY <2>1, <2>2
<1>8. ASSUME NEW t \in All, CallClear(t) PROVE (hazards \in Nat /\ HazardsExact)'
  BY <1>8 DEF CallClear, flags, mine, history, Held, HazardsExact, HazardType
<1>9. ASSUME NEW t \in All, Clear(t) PROVE (hazards \in Nat /\ HazardsExact)'
  <2>1. hazards' = hazards - 1 /\ depth' = [depth EXCEPT ![t] = @ - 1] /\ depth[t] > 0
    BY <1>9 DEF Clear, Uncount, RoomInv
  <2>2. Cardinality(Held') = Cardinality(Held) - 1 /\ Cardinality(Held') \in Nat
    BY <2>1, HeldLeave, HeldFinite
  <2> QED
    BY <2>1, <2>2
<1>10. ASSUME NEW t \in All, Cleanup(t) PROVE (hazards \in Nat /\ HazardsExact)'
  <2>1. hazards' = 0 /\ hazards = 0 /\ Held' = Held
    BY <1>10 DEF Cleanup, QuietInv, Held
  <2> QED
    BY <2>1
<1>11. ASSUME NEW t \in All, Aside(t) \/ TrimGc(t) PROVE (hazards \in Nat /\ HazardsExact)'
  BY <1>11 DEF Aside, TrimGc, Touch, flags, mine, history, Held, HazardsExact, HazardType
<1>12. CASE UNCHANGED vars
  BY <1>12 DEF vars, flags, mine, history, Held, HazardsExact, HazardType
<1> QED
  BY <1>1, <1>2, <1>3, <1>4, <1>5, <1>6, <1>7, <1>8, <1>9, <1>10, <1>11, <1>12 DEF Next, Step, Choice

--------------------------------------------------------------------------------
(* Theorems.                                                               *)

(* The invariant holds before the control thread starts. *)
LEMMA InitInv == Init => IInv
<1> SUFFICES ASSUME Init PROVE IInv
  OBVIOUS
<1> USE DEF Init
<1>1. TypeOK
  <2>0. /\ connected \in BOOLEAN /\ recovered \in BOOLEAN
        /\ raced \in BOOLEAN /\ late \in BOOLEAN
    OBVIOUS
  <2>1. FlagType /\ HazardType /\ PcType
    <3>1. ctl \in {"idle", "greet", "up", "wfc", "cond"} /\ session \in 0 .. MaxConn
      OBVIOUS
    <3>2. HazardType /\ PcType
      BY DEF HazardType, PcType, ThreadPc, All
    <3> QED
      BY <2>0, <3>1, <3>2 DEF FlagType
  <2>2. depth \in [All -> 0 .. MaxDepth] /\ since \in [All -> 0 .. MaxConn]
    OBVIOUS
  <2>3. local \in [All -> BOOLEAN]
    OBVIOUS
  <2>4. table \in SUBSET All /\ residue \in SUBSET (0 .. MaxConn)
    BY DEF All
  <2>5. MineType
    BY <2>2, <2>3, <2>4 DEF MineType
  <2> QED
    BY <2>1, <2>5 DEF TypeOK
<1>2. HazardsExact
  <2>1. Held = {}
    BY DEF Held, All
  <2> QED
    BY <2>1, FS_EmptySet DEF HazardsExact
<1>3. RoomInv /\ GhostInv /\ LockInv /\ QuietInv /\ SinceInv
  BY DEF RoomInv, GhostInv, LockInv, QuietInv, SinceInv, Entering, All
<1>4. ControlInv /\ ResidueInv /\ InsideInv /\ LocalInv /\ NobodyForgotten
  BY DEF ControlInv, ResidueInv, InsideInv, LocalInv, NobodyForgotten, All
<1> QED
  BY <1>1, <1>2, <1>3, <1>4 DEF IInv

(* The inductive invariant holds of every behaviour. *)
LEMMA InvHolds == Spec => []IInv
<1>1. IInv /\ [Next]_vars => IInv'
  BY FlagStep, HazardStep, LockTypeStep, PcStep, MineStep, RoomStep, GhostStep, LockStep, QuietStep, ControlStep, SinceStep, ResidueStep, InsideStep, LocalStep, ForgottenStep
     DEF IInv, TypeOK, HazardType
<1> QED
  BY <1>1, InitInv, PTL DEF Spec

(* Every variable keeps its type; offRecoveryHazards never goes negative. *)
THEOREM TypeCorrect == Spec => []TypeOK
<1>1. IInv => TypeOK
  BY DEF IInv
<1> QED
  BY <1>1, InvHolds, PTL

(* offRecoveryHazards is the number of hazards held, whatever threads      *)
(* there are and however they nest.                                        *)
THEOREM CountIsExact == Spec => []HazardsExact
<1>1. IInv => HazardsExact
  BY DEF IInv
<1> QED
  BY <1>1, InvHolds, PTL

(* No thread is inside a hazard while cleanupOffloadState is decided on,   *)
(* waited for or done.                                                     *)
THEOREM CleanupIsExclusive == Spec => []CleanupExclusive
<1>1. IInv => CleanupExclusive
  BY NoneHeld DEF IInv, TypeOK, QuietInv, CleanupExclusive
<1> QED
  BY <1>1, InvHolds, PTL

(* Without the overlap at the first connection, every connection starts    *)
(* with hazards that are its own, and, as long as nothing outside a hazard *)
(* touched the offload state after its clean-up, from a state that is.     *)
THEOREM ConnectionsAreClean == Spec => []ConnectsClean
<1>1. IInv => ConnectsClean
  BY DEF IInv, ResidueInv, InsideInv, ConnectsClean
<1> QED
  BY <1>1, InvHolds, PTL

(* No wake-up of offRecoveryCond is lost but at the first connection. *)
THEOREM NobodyIsForgotten == Spec => []NobodyForgotten
<1>1. IInv => NobodyForgotten
  BY DEF IInv
<1> QED
  BY <1>1, InvHolds, PTL

(* The assertion of cleanupThread holds of every thread of the phone. *)
THEOREM OwnThreadsAreLocal == Spec => []OwnLocalAtCleanup
<1>1. IInv => OwnLocalAtCleanup
  <2> SUFFICES ASSUME IInv, NEW t \in All, pc[t] = "cleaning", NEW u \in Threads
               PROVE  local[u]
    BY DEF OwnLocalAtCleanup
  <2>1. depth[u] = 0
    BY NoneHeld DEF IInv, TypeOK, QuietInv, All
  <2> QED
    BY <2>1 DEF IInv, LocalInv
<1> QED
  BY <1>1, InvHolds, PTL

================================================================================
