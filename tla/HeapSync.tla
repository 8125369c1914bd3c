-------------------------------- MODULE HeapSync --------------------------------
(***************************************************************************)
(* The shared heap of the two endpoints (offload/Comm.cpp, CommInlines.h   *)
(* and the volatiles of offload/Sync.cpp).  Each endpoint keeps a copy of  *)
(* every tracked object with a dirty bit for each field.  A push sends the *)
(* fields that are dirty with the next revision; pushes travel on the      *)
(* channels of different threads and are pulled in the order of their      *)
(* revisions.  The right to take an object's lock, and the right to use    *)
(* its volatile fields, moves between the endpoints together with a push.  *)
(*                                                                         *)
(* Abstraction.  One object with a field that the program uses under the   *)
(* object's lock and a volatile field; a value is the number of the write  *)
(* that stored it.  A thread and its parallel thread at the other endpoint *)
(* take turns, so they are one process here.  Pushes and pulls suspend the *)
(* VM: they are single steps that no thread between two safe points may    *)
(* be interrupted by.  The connection lasts (Recovery has its loss).  Who  *)
(* holds the monitor inside an endpoint is the matter of LockOwnership; of *)
(* that, what is here is the check of the ownership and its use, and the   *)
(* two places of the code where a suspension may come between them.        *)
(***************************************************************************)
EXTENDS Integers, FiniteSets

CONSTANTS Thread,
          MaxWrite,  \* bound: writes to each field
          MaxPush    \* bound: pushes of each endpoint

ASSUME ThreadAssumption == Thread # {} /\ IsFiniteSet(Thread)
ASSUME BoundAssumption == MaxWrite \in Nat /\ MaxPush \in Nat

End == {"phone", "server"}
Peer(e) == IF e = "phone" THEN "server" ELSE "phone"
Field == {"locked", "vol"}
Value == 0..MaxWrite
NoData == [f \in {} |-> 0]

VARIABLES
  obj,       \* the object: absent, private, or with an id
  heap,      \* its fields
  dirty,     \* ObjectInfo.dirty
  isQueued,  \* ObjectInfo.isQueued
  entries,   \* how often the object stands in offWriteQueue
  lockOwner, \* ObjectInfo.isLockOwner
  volOwner,  \* ObjectInfo.isVolatileOwner
  sendRev,   \* offSendRevision
  recvRev,   \* offRecvRevision
  loc,       \* where a thread runs (offLocal)
  pc,        \* what it does
  op,        \* the volatile access it is in
  msg,       \* the push or the revision that is under way to it
  race,      \* history: the first time ownership was used that had gone
  written,   \* history: writes to each field
  before,    \* history: volatile writes that were complete when a write began
  complete,  \* history: complete volatile writes
  anomaly    \* history: volatile accesses gone wrong

copy == <<obj, heap, dirty, isQueued, entries>>
rights == <<lockOwner, volOwner>>
revs == <<sendRev, recvRev>>
history == <<written, before, complete, anomaly>>
vars == <<copy, rights, revs, loc, pc, op, msg, race, history>>

NoMsg == [rev |-> 0, to |-> "phone", has |-> FALSE, data |-> NoData, lock |-> FALSE]

(* An object is private to the phone; threads run at either endpoint. *)
Init ==
  /\ obj = [e \in End |-> IF e = "phone" THEN "private" ELSE "absent"]
  /\ heap = [e \in End |-> [f \in Field |-> 0]]
  /\ dirty = [e \in End |-> {}]
  /\ isQueued = [e \in End |-> FALSE]
  /\ entries = [e \in End |-> 0]
  /\ lockOwner = [e \in End |-> FALSE]
  /\ volOwner = [e \in End |-> FALSE]
  /\ sendRev = [e \in End |-> 0]
  /\ recvRev = [e \in End |-> 0]
  /\ loc \in [Thread -> End]
  /\ pc = [t \in Thread |-> "run"]
  /\ op = [t \in Thread |-> 0]
  /\ msg = [t \in Thread |-> NoMsg]
  /\ race = "none"
  /\ written = [f \in Field |-> 0]
  /\ before = [v \in 1..MaxWrite |-> {}]
  /\ complete = {}
  /\ anomaly = {}

Tracked(e) == obj[e] = "tracked"

(* Every thread of e is at a safe point: e can be suspended. *)
Suspends(e) == \A t \in Thread : ~(loc[t] = e /\ pc[t] = "own")

--------------------------------------------------------------------------------
(* Tracking.                                                               *)

(* offMarkField: the object is queued unless it is marked as queued. *)
OffMarkField(e, f) ==
  /\ dirty' = [dirty EXCEPT ![e] = @ \cup {f}]
  /\ isQueued' = [isQueued EXCEPT ![e] = TRUE]
  /\ entries' = [entries EXCEPT ![e] = IF isQueued[e] THEN @ ELSE @ + 1]

(* A write to an object without an id is not tracked. *)
TrackWrite(e, f) ==
  IF Tracked(e) THEN OffMarkField(e, f) ELSE UNCHANGED <<dirty, isQueued, entries>>

(* The first race is kept. *)
Raced(which) == race' = IF race = "none" THEN which ELSE race

(* dvmSetField and offTrackInstanceWrite, inside the object's monitor.     *)
WriteField(t) ==
  LET e == loc[t] IN
  /\ written["locked"] < MaxWrite
  /\ written' = [written EXCEPT !["locked"] = @ + 1]
  /\ heap' = [heap EXCEPT ![e]["locked"] = written["locked"] + 1]
  /\ TrackWrite(e, "locked")
  /\ UNCHANGED <<obj, rights, revs, loc, op, msg, before, complete, anomaly>>

(* A thread takes the free monitor and writes: its endpoint owns the lock, *)
(* as offCheckLockOwnership has it, and nothing suspends the VM in between.*)
WriteLocked(t) ==
  /\ pc[t] = "run" /\ obj[loc[t]] # "absent" /\ (Tracked(loc[t]) => lockOwner[loc[t]])
  /\ WriteField(t)
  /\ UNCHANGED <<pc, race>>

(* lockMonitor, when the endpoint owns the lock and another thread has the *)
(* monitor: the thread waits for its mutex...                              *)
Contend(t) ==
  /\ pc[t] = "run" /\ Tracked(loc[t]) /\ lockOwner[loc[t]]
  /\ pc' = [pc EXCEPT ![t] = "block"]
  /\ UNCHANGED <<copy, rights, revs, loc, op, msg, race, history>>

(* ...and, having got it, gives it back when it sees a suspension, to look *)
(* at the ownership again...                                               *)
BackOff(t) ==
  /\ pc[t] = "block"
  /\ pc' = [pc EXCEPT ![t] = "run"]
  /\ UNCHANGED <<copy, rights, revs, loc, op, msg, race, history>>

(* ...or, when the suspension it may have waited through is over, goes in  *)
(* without.                                                                *)
GetIn(t) ==
  /\ pc[t] = "block"
  /\ WriteField(t)
  /\ pc' = [pc EXCEPT ![t] = "run"]
  /\ IF lockOwner[loc[t]] THEN UNCHANGED race ELSE Raced("stolen")

--------------------------------------------------------------------------------
(* Push and pull.                                                          *)

(* addTrackedObjectIdLocked: the maker of an object owns it. *)
Publish(e) ==
  /\ obj' = [obj EXCEPT ![e] = "tracked"]
  /\ lockOwner' = [lockOwner EXCEPT ![e] = TRUE]
  /\ volOwner' = [volOwner EXCEPT ![e] = TRUE]

(* offAddTrackedObject outside a push, as dvmIdentityHashCode calls it:    *)
(* all fields are dirty, and the object is queued but not marked as such.  *)
AddTrackedObject(t) ==
  LET e == loc[t] IN
  /\ pc[t] = "run" /\ obj[e] = "private"
  /\ Publish(e)
  /\ dirty' = [dirty EXCEPT ![e] = Field]
  /\ entries' = [entries EXCEPT ![e] = @ + 1]
  /\ UNCHANGED <<heap, isQueued, revs, loc, pc, op, msg, race, history>>

(* Mutant: the revision is raised before it is sent. *)
RevisionLate(e) == sendRev[e] + 1

(* Every push has the next revision. *)
Revision(e) == sendRev[e]

(* Mutant: the bits past the first word are not looked at. *)
DirtyFieldsLow(e) == dirty[e] \ {"locked"}

(* The fields that are written out (isFieldDirty). *)
DirtyFields(e) == dirty[e]

(* Mutant: the mark is left when the queue is emptied. *)
MarkAfterPushKeep(e) == isQueued[e]

(* The mark of what the push has sent. *)
MarkAfterPush(e) == FALSE

(* offSyncPushDoIf at e, on the channel of t: the dirty fields of the      *)
(* queued object, which is clean and not queued then.  A private object    *)
(* the push comes across (writeValue) is tracked and sent whole.  lock     *)
(* says that the right to take the lock goes with it.                      *)
SyncPush(e, t, lock) ==
  /\ Suspends(e) /\ sendRev[e] < MaxPush
  /\ sendRev' = [sendRev EXCEPT ![e] = @ + 1]
  /\ dirty' = [dirty EXCEPT ![e] = {}]
  /\ isQueued' = [isQueued EXCEPT ![e] = MarkAfterPush(e)]
  /\ entries' = [entries EXCEPT ![e] = 0]
  /\ \E fresh \in IF obj[e] = "private" THEN BOOLEAN ELSE {FALSE} :
       LET sent == IF fresh THEN Field ELSE IF entries[e] > 0 THEN DirtyFields(e) ELSE {} IN
       /\ msg' = [msg EXCEPT ![t] = [rev |-> Revision(e), to |-> Peer(e),
                                     has |-> fresh \/ entries[e] > 0,
                                     data |-> [f \in sent |-> heap[e][f]], lock |-> lock]]
       /\ IF fresh THEN Publish(e)
          ELSE /\ lockOwner' = [lockOwner EXCEPT ![e] = @ /\ ~lock]
               /\ UNCHANGED <<obj, volOwner>>
  /\ UNCHANGED <<heap, recvRev>>

(* Mutant: the pull waits until its revision has passed. *)
TurnPassed(e, r) == recvRev[e] > r

(* offSyncPullDo waits for its turn. *)
Turn(e, r) == recvRev[e] = r

(* clearDirty: what the other endpoint overwrote is not dirty. *)
Cleaned(e, fs) == dirty[e] \ fs

(* The fields that were sent, over the ones the endpoint has. *)
Inflated(e, data) ==
  [f \in Field |-> IF f \in DOMAIN data THEN data[f] ELSE heap[e][f]]

(* offSyncPullDo at the receiving endpoint: the fields that were sent are  *)
(* overwritten; an object it has not heard of is made, with its id.        *)
SyncPull(t) ==
  LET m == msg[t]
      e == m.to
  IN
  /\ pc[t] \in {"pull", "migrate", "grabbed"}
  /\ Suspends(e) /\ Turn(e, m.rev)
  /\ recvRev' = [recvRev EXCEPT ![e] = @ + 1]
  /\ obj' = IF m.has THEN [obj EXCEPT ![e] = "tracked"] ELSE obj
  /\ heap' = [heap EXCEPT ![e] = Inflated(e, m.data)]
  /\ dirty' = [dirty EXCEPT ![e] = Cleaned(e, DOMAIN m.data)]
  /\ lockOwner' = [lockOwner EXCEPT ![e] = @ \/ m.lock]
  /\ loc' = [loc EXCEPT ![t] = IF pc[t] = "migrate" THEN e ELSE @]
  /\ pc' = [pc EXCEPT ![t] = IF pc[t] = "grabbed" THEN "own" ELSE "run"]
  /\ msg' = [msg EXCEPT ![t] = NoMsg]
  /\ UNCHANGED <<isQueued, entries, volOwner, sendRev, op, race, history>>

(* The push that a program asks for (OFF_ACTION_SYNC). *)
Sync(t) ==
  /\ pc[t] = "run"
  /\ SyncPush(loc[t], t, FALSE)
  /\ pc' = [pc EXCEPT ![t] = "pull"]
  /\ UNCHANGED <<loc, op, race, history>>

(* offMigrateThread: the thread goes on at the other endpoint, and takes   *)
(* locks of its lock list along.                                           *)
Migrate(t) ==
  /\ pc[t] = "run"
  /\ \E lock \in IF lockOwner[loc[t]] THEN BOOLEAN ELSE {FALSE} : SyncPush(loc[t], t, lock)
  /\ pc' = [pc EXCEPT ![t] = "migrate"]
  /\ UNCHANGED <<loc, op, race, history>>

(* offEnsureLockOwnership asks for the lock. *)
AskLock(t) ==
  /\ pc[t] = "run" /\ Tracked(loc[t]) /\ ~lockOwner[loc[t]]
  /\ pc' = [pc EXCEPT ![t] = "lock"]
  /\ UNCHANGED <<copy, rights, revs, loc, op, msg, race, history>>

(* offPerformLock, by the parallel thread: promised, or denied.            *)
PerformLock(t) ==
  LET p == Peer(loc[t]) IN
  /\ pc[t] = "lock"
  /\ pc' = [pc EXCEPT ![t] = IF Tracked(p) /\ lockOwner[p] THEN "promise" ELSE "run"]
  /\ UNCHANGED <<copy, rights, revs, loc, op, msg, race, history>>

(* Once the VM is suspended, clearOwnership gives the lock with the push,  *)
(* whether or not the endpoint still owns it.                              *)
ClearOwnership(t) ==
  LET p == Peer(loc[t]) IN
  /\ pc[t] = "promise"
  /\ SyncPush(p, t, TRUE)
  /\ pc' = [pc EXCEPT ![t] = "pull"]
  /\ IF lockOwner[p] THEN UNCHANGED race ELSE Raced("twice")
  /\ UNCHANGED <<loc, op, history>>

--------------------------------------------------------------------------------
(* Volatile fields.                                                        *)

(* The endpoint has the volatiles, or has just pulled them. *)
Owns(e) == volOwner[e] \/ \E u \in Thread : loc[u] = e /\ pc[u] = "own"

(* The access is over and a write is tracked now: it was stored before the *)
(* right was asked for.  It is lost if what is there now is a write that   *)
(* it came after.                                                          *)
Finish(t) ==
  LET e == loc[t]
      n == op[t]
  IN
  /\ pc' = [pc EXCEPT ![t] = "run"]
  /\ op' = [op EXCEPT ![t] = 0]
  /\ msg' = [msg EXCEPT ![t] = NoMsg]
  /\ IF n = 0 THEN UNCHANGED <<dirty, isQueued, entries, complete>>
     ELSE OffMarkField(e, "vol") /\ complete' = complete \cup {n}
  /\ anomaly' = anomaly \cup (IF Owns(e) THEN {} ELSE {"unowned"})
                        \cup (IF n # 0 /\ heap[e]["vol"] \in before[n] THEN {"lost"} ELSE {})
  /\ UNCHANGED <<obj, heap, lockOwner, revs, loc, race, written, before>>

(* dvmSetFieldIntVolatile: the value is stored; if the endpoint has the    *)
(* right to the volatiles the write is tracked, else the right is asked    *)
(* for.                                                                    *)
WriteVolatile(t) ==
  LET e == loc[t]
      n == written["vol"] + 1
  IN
  /\ pc[t] = "run" /\ obj[e] # "absent" /\ n <= MaxWrite
  /\ written' = [written EXCEPT !["vol"] = n]
  /\ before' = [before EXCEPT ![n] = complete]
  /\ heap' = [heap EXCEPT ![e]["vol"] = n]
  /\ IF Tracked(e) => volOwner[e]
     THEN TrackWrite(e, "vol") /\ complete' = complete \cup {n} /\ UNCHANGED <<pc, op>>
     ELSE /\ pc' = [pc EXCEPT ![t] = "ask"] /\ op' = [op EXCEPT ![t] = n]
          /\ UNCHANGED <<dirty, isQueued, entries, complete>>
  /\ UNCHANGED <<obj, rights, revs, loc, msg, race, anomaly>>

(* dvmGetFieldIntVolatile without the right to the volatiles. *)
ReadVolatile(t) ==
  /\ pc[t] = "run" /\ Tracked(loc[t]) /\ ~volOwner[loc[t]]
  /\ pc' = [pc EXCEPT ![t] = "ask"]
  /\ UNCHANGED <<copy, rights, revs, loc, op, msg, race, history>>

(* Mutant: the right is given and kept. *)
GivenKeep(e) == volOwner

(* The right is given up before the push that carries it. *)
Given(e) == [volOwner EXCEPT ![e] = FALSE]

(* offPerformGrabVolatiles by the parallel thread: the right is given, or  *)
(* the asker is told how far it must have pulled.                          *)
PerformGrab(t) ==
  LET p == Peer(loc[t]) IN
  /\ pc[t] = "ask"
  /\ IF Tracked(p) /\ volOwner[p]
     THEN volOwner' = Given(p) /\ pc' = [pc EXCEPT ![t] = "give"] /\ UNCHANGED msg
     ELSE /\ pc' = [pc EXCEPT ![t] = "told"]
          /\ msg' = [msg EXCEPT ![t].rev = sendRev[p]]
          /\ UNCHANGED volOwner
  /\ UNCHANGED <<copy, lockOwner, revs, loc, op, race, history>>

(* ...with a push. *)
GivePush(t) ==
  /\ pc[t] = "give"
  /\ SyncPush(Peer(loc[t]), t, FALSE)
  /\ pc' = [pc EXCEPT ![t] = "grabbed"]
  /\ UNCHANGED <<loc, op, race, history>>

(* The pull is over: the right is noted and used. *)
Own(t) ==
  /\ pc[t] = "own"
  /\ volOwner' = [volOwner EXCEPT ![loc[t]] = TRUE]
  /\ Finish(t)

(* The endpoint was told a revision it has reached... *)
ToldReached(t) ==
  /\ pc[t] = "told" /\ msg[t].rev <= recvRev[loc[t]]
  /\ Finish(t)
  /\ UNCHANGED volOwner

(* ...or one it has to wait for... *)
ToldWait(t) ==
  /\ pc[t] = "told" /\ msg[t].rev > recvRev[loc[t]]
  /\ pc' = [pc EXCEPT ![t] = "sleep"]
  /\ UNCHANGED <<copy, rights, revs, loc, op, msg, race, history>>

(* ...until the revision is exactly that. *)
CaughtUp(t) ==
  /\ pc[t] = "sleep" /\ msg[t].rev = recvRev[loc[t]]
  /\ Finish(t)
  /\ UNCHANGED volOwner

--------------------------------------------------------------------------------
Next ==
  \E t \in Thread :
    \/ WriteLocked(t) \/ AddTrackedObject(t) \/ Sync(t) \/ Migrate(t) \/ SyncPull(t)
    \/ Contend(t) \/ BackOff(t) \/ GetIn(t) \/ AskLock(t) \/ PerformLock(t) \/ ClearOwnership(t)
    \/ WriteVolatile(t) \/ ReadVolatile(t) \/ PerformGrab(t) \/ GivePush(t) \/ Own(t)
    \/ ToldReached(t) \/ ToldWait(t) \/ CaughtUp(t)

Spec == Init /\ [][Next]_vars

(* A thread whose push has arrived, or who is told to go on, goes on. *)
Fairness ==
  \A t \in Thread : /\ WF_vars(SyncPull(t)) /\ WF_vars(Own(t)) /\ WF_vars(PerformGrab(t))
                    /\ WF_vars(ToldReached(t)) /\ WF_vars(ToldWait(t)) /\ WF_vars(CaughtUp(t))
FairSpec == Spec /\ Fairness

--------------------------------------------------------------------------------
Pulling(t) == pc[t] \in {"pull", "migrate", "grabbed"}
Data == UNION {[fs -> Value] : fs \in SUBSET Field}
Message == [rev : 0..MaxPush, to : End, has : BOOLEAN, lock : BOOLEAN, data : Data]

CopyType == /\ obj \in [End -> {"absent", "private", "tracked"}]
            /\ heap \in [End -> [Field -> Value]]
            /\ dirty \in [End -> SUBSET Field]
            /\ isQueued \in [End -> BOOLEAN] /\ entries \in [End -> 0..2]
RightType == lockOwner \in [End -> BOOLEAN] /\ volOwner \in [End -> BOOLEAN]
RevType == sendRev \in [End -> 0..MaxPush] /\ recvRev \in [End -> 0..MaxPush]
ThreadType == /\ loc \in [Thread -> End]
              /\ pc \in [Thread -> {"run", "pull", "migrate", "block", "lock", "promise",
                                    "ask", "give", "grabbed", "own", "told", "sleep"}]
              /\ op \in [Thread -> Value] /\ msg \in [Thread -> Message]
HistoryType == /\ written \in [Field -> Value]
               /\ before \in [1..MaxWrite -> SUBSET (1..MaxWrite)]
               /\ complete \subseteq 1..MaxWrite
               /\ anomaly \subseteq {"unowned", "lost"}
               /\ race \in {"none", "twice", "stolen"}

(* The shape of every variable; the object stands in the write queue at    *)
(* most twice (once as new, once as written to).                           *)
TypeOK == CopyType /\ RightType /\ RevType /\ ThreadType /\ HistoryType

(* The endpoint that owns the lock has the last write made under it,       *)
(* whichever pushes carried it, in whichever order their data arrived; as  *)
(* long as no ownership was granted or used that had gone since the check. *)
LockedFresh ==
  race = "none" => \A e \in End : lockOwner[e] => heap[e]["locked"] = written["locked"]

(* The same of every owner, which the code does not keep: "If we find      *)
(* after suspending the VM that we no longer own the object the sync will  *)
(* be cancelled".                                                          *)
OwnerFresh == \A e \in End : lockOwner[e] => heap[e]["locked"] = written["locked"]

(* The pushes under way to e. *)
Arriving(e) == {t \in Thread : Pulling(t) /\ msg[t].to = e}

(* The pushes an endpoint has not pulled have exactly the revisions        *)
(* between its own and the sender's, each once: everybody who waits for a  *)
(* turn gets one.                                                          *)
RevisionsExact ==
  \A e \in End :
    /\ {msg[t].rev : t \in Arriving(e)} = recvRev[e]..(sendRev[Peer(e)] - 1)
    /\ Cardinality(Arriving(e)) = sendRev[Peer(e)] - recvRev[e]

(* A dirty field is never forgotten: its object stands in the write queue. *)
DirtyQueued == \A e \in End : dirty[e] # {} => entries[e] > 0

(* Who has the right to the volatiles, and on whose channel it is on its   *)
(* way.                                                                    *)
VolHolders == {e \in End : volOwner[e]}
VolCarriers == {t \in Thread : pc[t] \in {"give", "grabbed", "own"}}

(* The right to the volatiles of an object is with one endpoint, or on its *)
(* way.                                                                    *)
OneVolatileOwner ==
  Cardinality(VolHolders) + Cardinality(VolCarriers)
    = IF \E e \in End : Tracked(e) THEN 1 ELSE 0

(* A push that was sent is pulled: whoever waits for the end of it goes on.*)
Pulled == \A t \in Thread : Pulling(t) ~> ~Pulling(t)

(* A volatile write is never replaced by one it came after. *)
WriteKept == "lost" \notin anomaly

(* offGrabVolatiles returns with the right to the volatiles. *)
GrabOwns == "unowned" \notin anomaly

(* A thread that waits for a revision sees it reached. *)
SleepEnds == \A t \in Thread : pc[t] = "sleep" ~> pc[t] # "sleep"
================================================================================
