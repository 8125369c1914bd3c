----------------------------- MODULE HeapSyncProofs -----------------------------
(***************************************************************************)
(* Proofs about HeapSync: for every finite set of threads and every number *)
(* of writes and pushes.                                                   *)
(***************************************************************************)
EXTENDS HeapSync, FiniteSetTheorems, TLAPS

(* The object is made by the phone; the server knows it only if the phone  *)
(* tracks it.                                                              *)
ObjInv == /\ obj["phone"] # "absent" /\ obj["server"] # "private"
          /\ Tracked("server") => Tracked("phone")

(* An object without an id is not queued, and a push that has it was sent  *)
(* by an endpoint that tracks it.                                          *)
QueueInv == /\ \A e \in End : /\ ~Tracked(e) => entries[e] = 0 /\ dirty[e] = {}
                              /\ isQueued[e] => entries[e] > 0
                              /\ ~isQueued[e] => entries[e] <= 1
            /\ \A t \in Thread : Pulling(t) /\ msg[t].has => Tracked(Peer(msg[t].to))

(* A volatile access that asks for the right is to a tracked object, as is *)
(* a monitor that is waited for.                                           *)
Asking == {"block", "ask", "give", "grabbed", "own", "told", "sleep"}
AskInv == \A t \in Thread : pc[t] \in Asking => Tracked(loc[t])

(* The pushes under way to an endpoint have different revisions. *)
TurnInv == \A e \in End :
  /\ recvRev[e] <= sendRev[Peer(e)]
  /\ \A t, u \in Arriving(e) : msg[t].rev = msg[u].rev => t = u

(* The right to the volatiles, place by place. *)
VolInv ==
  IF \E e \in End : Tracked(e)
  THEN \/ VolCarriers = {} /\ \E e \in End : VolHolders = {e}
       \/ VolHolders = {} /\ \E t \in Thread : VolCarriers = {t}
  ELSE VolHolders = {} /\ VolCarriers = {}

(* A push that the right to take the lock goes with, and one that has the  *)
(* field that is used under it.                                            *)
Carries(t) == Pulling(t) /\ msg[t].lock
Updates(t, e) == t \in Arriving(e) /\ "locked" \in DOMAIN msg[t].data

(* The right to take the lock is in one place at most, in none before the  *)
(* object is tracked; who has dirtied the field has the right.             *)
LockInv ==
  /\ ~Tracked("phone") => /\ \A e \in End : ~lockOwner[e]
                          /\ \A t \in Thread : Pulling(t) => ~msg[t].lock /\ msg[t].data = NoData
  /\ \A e \in End : lockOwner[e] => ~lockOwner[Peer(e)] /\ \A t \in Thread : ~Carries(t)
  /\ \A t, u \in Thread : Carries(t) /\ Carries(u) => t = u
  /\ \A e \in End : "locked" \in dirty[e] => lockOwner[e]

(* When e has pulled what is under way to it, it has the last write. *)
Fresh(e) == heap[e]["locked"] = written["locked"] /\ \A u \in Thread : ~Updates(u, e)
Reaches(e) ==
  \/ Fresh(e)
  \/ \E t \in Thread : /\ Updates(t, e) /\ msg[t].data["locked"] = written["locked"]
                       /\ \A u \in Thread : Updates(u, e) => msg[u].rev <= msg[t].rev

(* Whoever has the right to take the lock has the last write, and the      *)
(* other endpoint will have it with what is under way, unless it is still  *)
(* to be sent; a push that carries the right comes behind all of it.       *)
FreshInv ==
  /\ ~Tracked("phone") => heap["phone"]["locked"] = written["locked"]
  /\ \A e \in End : lockOwner[e] => Fresh(e) /\ ("locked" \in dirty[e] \/ Reaches(Peer(e)))
  /\ \A t \in Thread, e \in End : Carries(t) /\ t \in Arriving(e) =>
       /\ Reaches(e) /\ Fresh(Peer(e))
       /\ \A u \in Thread : Updates(u, e) => msg[u].rev <= msg[t].rev

(* The last two hold until ownership is used that has gone. *)
IInv == /\ TypeOK /\ ObjInv /\ QueueInv /\ AskInv /\ RevisionsExact /\ TurnInv
        /\ DirtyQueued /\ VolInv /\ (race = "none" => LockInv /\ FreshInv)

USE ThreadAssumption, BoundAssumption

--------------------------------------------------------------------------------
(* The endpoints, and the places of a thread.                              *)

(* The two endpoints are each other's peer. *)
LEMMA EndCases == /\ "phone" \in End /\ "server" \in End
                  /\ \A e \in End : /\ e = "phone" \/ e = "server"
                                    /\ Peer(e) \in End /\ Peer(e) # e /\ Peer(Peer(e)) = e
                  /\ Peer("phone") = "server" /\ Peer("server") = "phone"
  BY DEF End, Peer

(* Fields of a push, whichever were sent. *)
LEMMA DataType == ASSUME NEW S \in SUBSET Field, NEW g \in [S -> Value]
                  PROVE  g \in Data /\ DOMAIN g = S
  BY DEF Data

(* ...and back. *)
LEMMA DataFields == ASSUME NEW g \in Data
                    PROVE  DOMAIN g \subseteq Field /\ \A f \in DOMAIN g : g[f] \in Value
  BY DEF Data

(* No field at all. *)
LEMMA NoDataType == NoData \in Data /\ DOMAIN NoData = {}
<1>1. NoData \in [{} -> Value]
  BY DEF NoData
<1> QED
  BY <1>1, DataType DEF NoData

(* The pushes under way are finitely many. *)
LEMMA ArrivingFinite == \A e : IsFiniteSet(Arriving(e)) /\ Cardinality(Arriving(e)) \in Nat
<1> SUFFICES ASSUME NEW e PROVE IsFiniteSet(Arriving(e)) /\ Cardinality(Arriving(e)) \in Nat
  OBVIOUS
<1>1. Arriving(e) \subseteq Thread
  BY DEF Arriving
<1> QED
  BY <1>1, FS_Subset, FS_CardinalityType DEF ThreadAssumption

(* The parts of a push. *)
LEMMA PushParts ==
  ASSUME TypeOK, NEW e \in End, NEW t \in Thread, NEW lock \in BOOLEAN, SyncPush(e, t, lock)
  PROVE  \E fresh \in BOOLEAN, g \in Data :
           /\ fresh => obj[e] = "private"
           /\ DOMAIN g = IF fresh THEN Field ELSE IF entries[e] > 0 THEN dirty[e] ELSE {}
           /\ \A f \in DOMAIN g : g[f] = heap[e][f]
           /\ msg' = [msg EXCEPT ![t] = [rev |-> sendRev[e], to |-> Peer(e),
                        has |-> fresh \/ entries[e] > 0, data |-> g, lock |-> lock]]
           /\ fresh => Publish(e)
           /\ ~fresh => /\ lockOwner' = [lockOwner EXCEPT ![e] = @ /\ ~lock]
                        /\ UNCHANGED <<obj, volOwner>>
<1>1. PICK fresh \in IF obj[e] = "private" THEN BOOLEAN ELSE {FALSE} :
        LET sent == IF fresh THEN Field ELSE IF entries[e] > 0 THEN DirtyFields(e) ELSE {} IN
        /\ msg' = [msg EXCEPT ![t] = [rev |-> Revision(e), to |-> Peer(e),
                                     has |-> fresh \/ entries[e] > 0,
                                     data |-> [f \in sent |-> heap[e][f]], lock |-> lock]]
        /\ IF fresh THEN Publish(e)
           ELSE /\ lockOwner' = [lockOwner EXCEPT ![e] = @ /\ ~lock]
                /\ UNCHANGED <<obj, volOwner>>
  BY DEF SyncPush
<1> DEFINE sent == IF fresh THEN Field ELSE IF entries[e] > 0 THEN dirty[e] ELSE {}
           g == [f \in sent |-> heap[e][f]]
<1>2. sent \in SUBSET Field
  BY DEF TypeOK, CopyType
<1>3. heap[e] \in [Field -> Value]
  BY DEF TypeOK, CopyType
<1>4. g \in [sent -> Value]
  BY <1>2, <1>3
<1>5. g \in Data /\ DOMAIN g = sent
  BY <1>2, <1>4, DataType
<1>6. fresh \in BOOLEAN /\ (fresh => obj[e] = "private")
  BY <1>1
<1>7. msg' = [msg EXCEPT ![t] = [rev |-> sendRev[e], to |-> Peer(e),
                has |-> fresh \/ entries[e] > 0, data |-> g, lock |-> lock]]
  BY <1>1 DEF Revision, DirtyFields
<1>8. /\ fresh => Publish(e)
      /\ ~fresh => /\ lockOwner' = [lockOwner EXCEPT ![e] = @ /\ ~lock]
                   /\ UNCHANGED <<obj, volOwner>>
  BY <1>1
<1>9. \A f \in DOMAIN g : g[f] = heap[e][f]
  BY <1>5
<1> QED
  BY <1>5, <1>6, <1>7, <1>8, <1>9

--------------------------------------------------------------------------------
(* Steps that touch neither the guarded field nor a push.                  *)

Calm == /\ \A t \in Thread : /\ Pulling(t)' <=> Pulling(t)
                             /\ Pulling(t) => msg'[t] = msg[t]
        /\ \A e \in End : /\ heap'[e]["locked"] = heap[e]["locked"]
                          /\ "locked" \in dirty'[e] <=> "locked" \in dirty[e]
        /\ written'["locked"] = written["locked"]
        /\ UNCHANGED <<obj, lockOwner, sendRev, recvRev, race>>

(* What such a step preserves. *)
LEMMA CalmStep == ASSUME IInv, Calm
                  PROVE  /\ ObjInv' /\ RevisionsExact' /\ TurnInv'
                         /\ race' = "none" => LockInv' /\ FreshInv'
<1>1. \A e : Arriving(e)' = Arriving(e)
  BY DEF Calm, Arriving
<1>2. \A e : \A t \in Arriving(e) : msg'[t] = msg[t]
  BY DEF Calm, Arriving
<1>3. ObjInv' /\ \A e : Tracked(e)' <=> Tracked(e)
  BY DEF Calm, ObjInv, IInv, Tracked
<1>4. RevisionsExact'
  <2> SUFFICES ASSUME NEW e \in End
               PROVE  /\ {msg'[t].rev : t \in Arriving(e)'} = recvRev'[e]..(sendRev'[Peer(e)] - 1)
                      /\ Cardinality(Arriving(e)') = sendRev'[Peer(e)] - recvRev'[e]
    BY DEF RevisionsExact
  <2>1. {msg'[t].rev : t \in Arriving(e)'} = {msg[t].rev : t \in Arriving(e)}
    BY <1>1, <1>2
  <2> QED
    BY <1>1, <2>1 DEF RevisionsExact, IInv, Calm
<1>5. TurnInv'
  BY <1>1, <1>2 DEF TurnInv, IInv, Calm
<1>6. \A t \in Thread : /\ Carries(t)' <=> Carries(t)
                        /\ \A e : Updates(t, e)' <=> Updates(t, e)
  BY <1>1, <1>2 DEF Carries, Updates, Calm
<1>7. \A e \in End : (Fresh(e)' <=> Fresh(e)) /\ (Reaches(e)' <=> Reaches(e))
  <2>1. \A e \in End : Fresh(e)' <=> Fresh(e)
    BY <1>6 DEF Fresh, Calm
  <2>2. \A e \in End : \A t \in Thread : Updates(t, e) => msg'[t] = msg[t]
    BY <1>2 DEF Updates
  <2>3. \A e \in End : Reaches(e)' <=> Reaches(e)
    BY <1>6, <2>1, <2>2 DEF Reaches, Calm
  <2> QED
    BY <2>1, <2>3
<1>8. ASSUME race' = "none" PROVE LockInv'
  BY <1>8, <1>3, <1>6 DEF LockInv, IInv, Calm
<1>9. ASSUME race' = "none" PROVE FreshInv'
  <2>0. race = "none"
    BY <1>9 DEF Calm
  <2>1. \A e \in End : \A t \in Thread : Updates(t, e) => msg'[t] = msg[t]
    BY <1>2 DEF Updates
  <2>2. ~Tracked("phone")' => heap'["phone"]["locked"] = written'["locked"]
    BY <2>0, <1>3, EndCases DEF FreshInv, IInv, Calm
  <2>3. \A e \in End : lockOwner'[e] => Fresh(e)' /\ ("locked" \in dirty'[e] \/ Reaches(Peer(e))')
    BY <2>0, <1>7, EndCases DEF FreshInv, IInv, Calm
  <2>4. ASSUME NEW t \in Thread, NEW e \in End, Carries(t)', t \in Arriving(e)'
        PROVE  /\ Reaches(e)' /\ Fresh(Peer(e))'
               /\ \A u \in Thread : Updates(u, e)' => msg'[u].rev <= msg'[t].rev
    <3>1. Carries(t) /\ t \in Arriving(e)
      BY <2>4, <1>1, <1>6
    <3>2. msg'[t] = msg[t]
      BY <3>1, <1>2
    <3> QED
      BY <2>0, <3>1, <3>2, <2>1, <1>6, <1>7, EndCases DEF FreshInv, IInv
  <2> QED
    BY <2>2, <2>3, <2>4 DEF FreshInv
<1> QED
  BY <1>3, <1>4, <1>5, <1>8, <1>9

CalmNext(t) == \/ Contend(t) \/ BackOff(t) \/ AskLock(t) \/ PerformLock(t) \/ WriteVolatile(t) \/ ReadVolatile(t) \/ PerformGrab(t)
               \/ Own(t) \/ ToldReached(t) \/ ToldWait(t) \/ CaughtUp(t)

(* The end of a volatile access leaves the guarded field alone. *)
LEMMA FinishCalm == ASSUME IInv, NEW t \in Thread, ~Pulling(t), Finish(t)
                    PROVE  Calm /\ ~Pulling(t)'
<1>1. \A u \in Thread : Pulling(u)' <=> Pulling(u)
  BY DEF Finish, Pulling, IInv, TypeOK, ThreadType
<1>2. \A u \in Thread : Pulling(u) => msg'[u] = msg[u]
  BY DEF Finish, IInv, TypeOK, ThreadType
<1>3. \A e \in End : "locked" \in dirty'[e] <=> "locked" \in dirty[e]
  BY DEF Finish, OffMarkField, IInv, TypeOK, CopyType
<1>4. UNCHANGED <<heap, written, obj, lockOwner, sendRev, recvRev, race>>
  BY DEF Finish, revs
<1> QED
  BY <1>1, <1>2, <1>3, <1>4 DEF Calm

(* The steps that are calm. *)
LEMMA CalmActions == ASSUME IInv, NEW t \in Thread, CalmNext(t) PROVE Calm
<1> USE DEF IInv, TypeOK, ThreadType
<1>1. CASE Contend(t) \/ BackOff(t)
  BY <1>1 DEF Contend, BackOff, Calm, Pulling, copy, rights, revs, history
<1>2. CASE AskLock(t) \/ PerformLock(t)
  BY <1>2 DEF AskLock, PerformLock, Calm, Pulling, copy, rights, revs, history
<1>3. CASE WriteVolatile(t)
  <2>1. \A u \in Thread : Pulling(u)' <=> Pulling(u)
    BY <1>3 DEF WriteVolatile, Pulling
  <2>2. \A e \in End : "locked" \in dirty'[e] <=> "locked" \in dirty[e]
    <3>1. dirty' = dirty \/ dirty' = [dirty EXCEPT ![loc[t]] = @ \cup {"vol"}]
      BY <1>3 DEF WriteVolatile, TrackWrite, OffMarkField
    <3>2. \A e \in End : dirty'[e] = dirty[e] \/ dirty'[e] = dirty[e] \cup {"vol"}
      BY <3>1 DEF CopyType
    <3>3. "locked" # "vol"
      OBVIOUS
    <3> QED
      BY <3>2, <3>3
  <2>3. \A e \in End : heap'[e]["locked"] = heap[e]["locked"]
    BY <1>3 DEF WriteVolatile, CopyType, Field
  <2>4. written'["locked"] = written["locked"]
    BY <1>3 DEF WriteVolatile, HistoryType, Field
  <2>5. UNCHANGED <<msg, obj, lockOwner, sendRev, recvRev, race>>
    BY <1>3 DEF WriteVolatile, rights, revs
  <2> QED
    BY <2>1, <2>2, <2>3, <2>4, <2>5 DEF Calm
<1>4. CASE ReadVolatile(t)
  BY <1>4 DEF ReadVolatile, Calm, Pulling, copy, rights, revs, history
<1>5. CASE PerformGrab(t)
  <2>1. \A u \in Thread : Pulling(u)' <=> Pulling(u)
    BY <1>5 DEF PerformGrab, Pulling
  <2>2. \A u \in Thread : Pulling(u) => msg'[u] = msg[u]
    BY <1>5 DEF PerformGrab, Pulling
  <2>3. UNCHANGED <<copy, lockOwner, revs, race, history>>
    BY <1>5 DEF PerformGrab
  <2> QED
    BY <2>1, <2>2, <2>3 DEF Calm, copy, revs, history
<1>6. CASE Own(t) \/ ToldReached(t) \/ CaughtUp(t)
  BY <1>6, FinishCalm DEF Own, ToldReached, CaughtUp, Pulling
<1>7. CASE ToldWait(t)
  BY <1>7 DEF ToldWait, Calm, Pulling, copy, rights, revs, history
<1> QED
  BY <1>1, <1>2, <1>3, <1>4, <1>5, <1>6, <1>7 DEF CalmNext

--------------------------------------------------------------------------------
(* Pushes.                                                                 *)

PullPc == {"pull", "migrate", "grabbed"}
PushBy(e, t, lock, p) ==
  /\ SyncPush(e, t, lock) /\ pc' = [pc EXCEPT ![t] = p] /\ ~Pulling(t)
  /\ (lock /\ race' = "none" => lockOwner[e])
  /\ (race' = "none" => race = "none") /\ UNCHANGED history

(* What a push does to those under way. *)
LEMMA PushArriving ==
  ASSUME IInv, NEW e \in End, NEW t \in Thread, NEW lock \in BOOLEAN, NEW p \in PullPc,
         PushBy(e, t, lock, p)
  PROVE  /\ t \notin Arriving(e) /\ t \notin Arriving(Peer(e))
         /\ Arriving(Peer(e))' = Arriving(Peer(e)) \cup {t}
         /\ Arriving(e)' = Arriving(e)
         /\ \A u \in Thread : u # t => msg'[u] = msg[u] /\ (Pulling(u)' <=> Pulling(u))
         /\ Pulling(t)'
<1>1. msg'[t].to = Peer(e) /\ \A u \in Thread : u # t => msg'[u] = msg[u]
  BY PushParts DEF PushBy, IInv, TypeOK, ThreadType
<1>2. Pulling(t)' /\ \A u \in Thread : u # t => (Pulling(u)' <=> Pulling(u))
  BY DEF PushBy, PullPc, Pulling, IInv, TypeOK, ThreadType
<1>3. ~Pulling(t)
  BY DEF PushBy
<1>4. t \notin Arriving(e) /\ t \notin Arriving(Peer(e))
  BY <1>3 DEF Arriving
<1>5. Arriving(Peer(e))' = Arriving(Peer(e)) \cup {t}
  BY <1>1, <1>2, <1>4 DEF Arriving
<1>6. Arriving(e)' = Arriving(e)
  BY <1>1, <1>2, <1>4, EndCases DEF Arriving
<1> QED
  BY <1>1, <1>2, <1>4, <1>5, <1>6

(* The revision of a push is the next one. *)
LEMMA PushRevisions ==
  ASSUME IInv, NEW e \in End, NEW t \in Thread, NEW lock \in BOOLEAN, NEW p \in PullPc,
         PushBy(e, t, lock, p)
  PROVE  /\ RevisionsExact' /\ TurnInv' /\ msg'[t].rev = sendRev[e]
         /\ \A u \in Arriving(Peer(e)) : msg[u].rev < sendRev[e]
<1> DEFINE d == Peer(e)
<1>1. /\ msg'[t].rev = sendRev[e] /\ sendRev' = [sendRev EXCEPT ![e] = @ + 1]
      /\ recvRev' = recvRev
  <2>1. msg'[t].rev = sendRev[e]
    BY PushParts DEF PushBy, IInv, TypeOK, ThreadType
  <2> QED
    BY <2>1 DEF PushBy, SyncPush
<1>2. /\ t \notin Arriving(d) /\ Arriving(d)' = Arriving(d) \cup {t} /\ Arriving(e)' = Arriving(e)
      /\ t \notin Arriving(e)
  BY PushArriving
<1>3. \A u \in Thread : u # t => msg'[u] = msg[u]
  BY PushArriving
<1>4. /\ \A x \in End : sendRev[x] \in Nat /\ recvRev[x] \in Nat
      /\ \A x \in End : recvRev[x] <= sendRev[Peer(x)]
  BY EndCases DEF IInv, TypeOK, RevType, TurnInv
<1>5. /\ {msg[u].rev : u \in Arriving(d)} = recvRev[d]..(sendRev[e] - 1)
      /\ Cardinality(Arriving(d)) = sendRev[e] - recvRev[d]
  BY EndCases DEF IInv, RevisionsExact
<1>6. \A u \in Arriving(d) : msg[u].rev \in recvRev[d]..(sendRev[e] - 1)
  BY <1>5
<1>7. /\ sendRev'[e] = sendRev[e] + 1 /\ sendRev'[d] = sendRev[d]
  BY <1>1, EndCases DEF IInv, TypeOK, RevType
<1>8. Arriving(e) \subseteq Thread /\ Arriving(d) \subseteq Thread
  BY DEF Arriving
<1>9. {msg'[u].rev : u \in Arriving(d)'} = recvRev'[d]..(sendRev'[e] - 1)
  <2>1. {msg'[u].rev : u \in Arriving(d)'} = {msg[u].rev : u \in Arriving(d)} \cup {sendRev[e]}
    BY <1>1, <1>2, <1>3, <1>8
  <2>2. recvRev[d]..sendRev[e] = (recvRev[d]..(sendRev[e] - 1)) \cup {sendRev[e]}
    BY <1>4, EndCases
  <2>3. sendRev'[e] - 1 = sendRev[e]
    BY <1>4, <1>7
  <2> QED
    BY <2>1, <2>2, <2>3, <1>1, <1>5
<1>10. Cardinality(Arriving(d)') = sendRev'[e] - recvRev'[d]
  <2>1. Cardinality(Arriving(d) \cup {t}) = Cardinality(Arriving(d)) + 1
    BY <1>2, ArrivingFinite, FS_AddElement
  <2> QED
    BY <2>1, <1>1, <1>2, <1>4, <1>5, <1>7, EndCases
<1>11. /\ {msg'[u].rev : u \in Arriving(e)'} = recvRev'[e]..(sendRev'[d] - 1)
       /\ Cardinality(Arriving(e)') = sendRev'[d] - recvRev'[e]
  <2>1. {msg'[u].rev : u \in Arriving(e)'} = {msg[u].rev : u \in Arriving(e)}
    BY <1>2, <1>3, <1>8
  <2> QED
    BY <2>1, <1>1, <1>2, <1>7 DEF IInv, RevisionsExact
<1>12. RevisionsExact'
  BY <1>9, <1>10, <1>11, EndCases DEF RevisionsExact
<1>13. \A u \in Arriving(d) : msg[u].rev < sendRev[e]
  BY <1>4, <1>6, EndCases
<1>14. TurnInv'
  <2>1. \A x \in End : recvRev'[x] <= sendRev'[Peer(x)]
    BY <1>1, <1>4, <1>7, EndCases
  <2>2. \A u, w \in Arriving(e)' : msg'[u].rev = msg'[w].rev => u = w
    BY <1>2, <1>3, <1>8 DEF IInv, TurnInv
  <2>3. \A u, w \in Arriving(d)' : msg'[u].rev = msg'[w].rev => u = w
    <3>1. \A u, w \in Arriving(d) : msg[u].rev = msg[w].rev => u = w
      BY EndCases DEF IInv, TurnInv
    <3>2. \A u \in Arriving(d) : msg'[u] = msg[u] /\ msg[u].rev # sendRev[e]
      BY <1>2, <1>3, <1>8, <1>13, <1>6, <1>4
    <3> QED
      BY <3>1, <3>2, <1>1, <1>2
  <2> QED
    BY <2>1, <2>2, <2>3, EndCases DEF TurnInv
<1> QED
  BY <1>1, <1>12, <1>13, <1>14

(* The object and the write queue after a push. *)
LEMMA PushQueue ==
  ASSUME IInv, NEW e \in End, NEW t \in Thread, NEW lock \in BOOLEAN, NEW p \in PullPc,
         PushBy(e, t, lock, p)
  PROVE  ObjInv' /\ QueueInv' /\ DirtyQueued'
<1>1. /\ dirty' = [dirty EXCEPT ![e] = {}] /\ isQueued' = [isQueued EXCEPT ![e] = FALSE]
      /\ entries' = [entries EXCEPT ![e] = 0]
  BY DEF PushBy, SyncPush, MarkAfterPush
<1>2. obj' = obj \/ (obj[e] = "private" /\ obj' = [obj EXCEPT ![e] = "tracked"])
  BY PushParts DEF PushBy, Publish, IInv
<1>3. msg'[t].to = Peer(e) /\ (msg'[t].has => obj'[e] = "tracked")
  <2>1. PICK fresh \in BOOLEAN, g \in Data :
          /\ msg' = [msg EXCEPT ![t] = [rev |-> sendRev[e], to |-> Peer(e),
                       has |-> fresh \/ entries[e] > 0, data |-> g, lock |-> lock]]
          /\ fresh => Publish(e)
          /\ ~fresh => UNCHANGED <<obj, volOwner>>
    BY PushParts DEF PushBy, IInv
  <2>2. msg'[t].to = Peer(e) /\ msg'[t].has = (fresh \/ entries[e] > 0)
    BY <2>1 DEF IInv, TypeOK, ThreadType
  <2>3. entries[e] > 0 => obj[e] = "tracked"
    BY DEF IInv, QueueInv, Tracked
  <2>4. fresh => obj'[e] = "tracked"
    BY <2>1 DEF Publish, IInv, TypeOK, CopyType
  <2> QED
    BY <2>1, <2>2, <2>3, <2>4
<1>4. \A x \in End : Tracked(x) => Tracked(x)'
  BY <1>2 DEF Tracked, IInv, TypeOK, CopyType
<1>5. ObjInv'
  BY <1>2, EndCases DEF ObjInv, IInv, Tracked, TypeOK, CopyType
<1>6. \A x \in End : /\ ~Tracked(x)' => entries'[x] = 0 /\ dirty'[x] = {}
                     /\ isQueued'[x] => entries'[x] > 0
                     /\ ~isQueued'[x] => entries'[x] <= 1
                     /\ dirty'[x] # {} => entries'[x] > 0
  BY <1>1, <1>4 DEF IInv, QueueInv, DirtyQueued, TypeOK, CopyType
<1>7. \A u \in Thread : (Pulling(u) /\ msg[u].has => Tracked(Peer(msg[u].to)))'
  <2> SUFFICES ASSUME NEW u \in Thread, Pulling(u)', msg'[u].has
               PROVE  obj'[Peer(msg'[u].to)] = "tracked"
    BY DEF Tracked
  <2>1. CASE u = t
    <3>1. Peer(msg'[u].to) = e
      BY <2>1, <1>3, EndCases
    <3> QED
      BY <2>1, <3>1, <1>3
  <2>2. CASE u # t
    <3>1. msg'[u] = msg[u] /\ Pulling(u)
      BY <2>2, PushArriving
    <3>2. Tracked(Peer(msg[u].to)) /\ Peer(msg[u].to) \in End
      BY <3>1, EndCases DEF IInv, QueueInv, TypeOK, ThreadType, Message
    <3> QED
      BY <3>1, <3>2, <1>4 DEF Tracked
  <2> QED
    BY <2>1, <2>2
<1>8. QueueInv' /\ DirtyQueued'
  BY <1>6, <1>7 DEF QueueInv, DirtyQueued
<1> QED
  BY <1>5, <1>8

(* A push that comes across the private object is the first to know it. *)
LEMMA PushLock ==
  ASSUME IInv, NEW e \in End, NEW t \in Thread, NEW lock \in BOOLEAN, NEW p \in PullPc,
         PushBy(e, t, lock, p), race' = "none"
  PROVE  LockInv' /\ FreshInv'
<1> DEFINE d == Peer(e)
<1>a. race = "none"
  BY DEF PushBy
<1> USE <1>a
<1>0. d \in End /\ d # e /\ Peer(d) = e
  BY EndCases
<1>1. PICK fresh \in BOOLEAN, g \in Data :
        /\ fresh => obj[e] = "private"
        /\ DOMAIN g = IF fresh THEN Field ELSE IF entries[e] > 0 THEN dirty[e] ELSE {}
        /\ \A f \in DOMAIN g : g[f] = heap[e][f]
        /\ msg' = [msg EXCEPT ![t] = [rev |-> sendRev[e], to |-> Peer(e),
                     has |-> fresh \/ entries[e] > 0, data |-> g, lock |-> lock]]
        /\ fresh => Publish(e)
        /\ ~fresh => /\ lockOwner' = [lockOwner EXCEPT ![e] = @ /\ ~lock]
                     /\ UNCHANGED <<obj, volOwner>>
  BY PushParts DEF PushBy, IInv
<1>2. /\ msg'[t].rev = sendRev[e] /\ msg'[t].to = d /\ msg'[t].data = g /\ msg'[t].lock = lock
      /\ \A u \in Thread : u # t => msg'[u] = msg[u]
  BY <1>1 DEF IInv, TypeOK, ThreadType
<1>3. dirty' = [dirty EXCEPT ![e] = {}] /\ heap' = heap /\ written' = written
  BY DEF PushBy, SyncPush, history
<1>4. /\ Arriving(d)' = Arriving(d) \cup {t} /\ Arriving(e)' = Arriving(e)
      /\ t \notin Arriving(e) /\ t \notin Arriving(d)
      /\ Pulling(t)' /\ ~Pulling(t)
      /\ \A u \in Thread : u # t => (Pulling(u)' <=> Pulling(u))
  <2>1. ~Pulling(t)
    BY DEF PushBy
  <2> QED
    BY <2>1, PushArriving
<1>5. /\ \A u \in Thread : Updates(u, e)' <=> Updates(u, e)
      /\ \A u \in Thread : u # t => (Updates(u, d)' <=> Updates(u, d))
      /\ ~Updates(t, d) /\ (Updates(t, d)' <=> "locked" \in DOMAIN g)
  BY <1>2, <1>4 DEF Updates
<1>6. /\ \A u \in Thread : u # t => (Carries(u)' <=> Carries(u))
      /\ ~Carries(t) /\ (Carries(t)' <=> lock)
  BY <1>2, <1>4 DEF Carries
<1>7. \A u \in Thread : Updates(u, d) => msg[u].rev < sendRev[e]
  BY PushRevisions DEF Updates
<1>8. sendRev[e] \in Nat
  BY DEF IInv, TypeOK, RevType
<1>9. CASE fresh
  <2>1. e = "phone" /\ ~Tracked("phone") /\ d = "server"
    BY <1>9, <1>1, EndCases DEF IInv, ObjInv, Tracked
  <2>2. /\ \A x \in End : ~lockOwner[x]
        /\ \A u \in Thread : Pulling(u) => ~msg[u].lock /\ msg[u].data = NoData
    BY <2>1 DEF IInv, LockInv
  <2>3. ~lock
    BY <2>1, <2>2, EndCases DEF PushBy
  <2>4. \A u \in Thread, x \in End : ~Updates(u, x)
    BY <2>2, NoDataType DEF Updates, Arriving
  <2>5. \A u \in Thread : ~Carries(u)'
    BY <1>6, <2>2, <2>3 DEF Carries
  <2>6. lockOwner' = [lockOwner EXCEPT ![e] = TRUE] /\ obj' = [obj EXCEPT ![e] = "tracked"]
    BY <1>9, <1>1 DEF Publish
  <2>7. Tracked("phone")' /\ lockOwner'[e] /\ ~lockOwner'[d]
    BY <2>1, <2>2, <2>6, <1>0 DEF Tracked, IInv, TypeOK, CopyType, RightType
  <2>8. "locked" \notin dirty'[e] /\ "locked" \notin dirty'[d]
    BY <1>0, <1>3, <2>2 DEF IInv, LockInv, TypeOK, CopyType
  <2>9. LockInv'
    BY <2>5, <2>7, <2>8, <2>1, <1>0, EndCases DEF LockInv
  <2>10. heap[e]["locked"] = written["locked"]
    BY <2>1 DEF IInv, FreshInv
  <2>11. Fresh(e)'
    BY <2>4, <2>10, <1>3, <1>5 DEF Fresh
  <2>12. "locked" \in DOMAIN g /\ g["locked"] = written["locked"]
    BY <1>9, <1>1, <2>10 DEF Field
  <2>13. Reaches(d)'
    <3>1. Updates(t, d)' /\ msg'[t].data["locked"] = written'["locked"]
      BY <2>12, <1>2, <1>3, <1>5
    <3>2. \A u \in Thread : Updates(u, d)' => msg'[u].rev <= msg'[t].rev
      BY <1>5, <2>4, <1>0, <1>2, <1>8
    <3> QED
      BY <3>1, <3>2 DEF Reaches
  <2>14. FreshInv'
    BY <2>5, <2>7, <2>11, <2>13, <2>1, EndCases DEF FreshInv
  <2> QED
    BY <2>9, <2>14
<1>10. CASE ~fresh
  <2>1. lockOwner' = [lockOwner EXCEPT ![e] = @ /\ ~lock] /\ obj' = obj
    BY <1>10, <1>1
  <2>2. lockOwner'[e] = (lockOwner[e] /\ ~lock) /\ lockOwner'[d] = lockOwner[d]
    BY <2>1, <1>0 DEF IInv, TypeOK, RightType
  <2>3. \A x \in End : Tracked(x)' <=> Tracked(x)
    BY <2>1 DEF Tracked
  <2>4. lock => lockOwner[e]
    BY DEF PushBy
  <2>5. DOMAIN g \subseteq dirty[e] /\ (dirty[e] # {} => DOMAIN g = dirty[e])
    BY <1>10, <1>1 DEF IInv, DirtyQueued
  <2>6. "locked" \in DOMAIN g => lockOwner[e]
    BY <2>5 DEF IInv, LockInv
  <2>7. dirty'[e] = {} /\ dirty'[d] = dirty[d]
    BY <1>3, <1>0 DEF IInv, TypeOK, CopyType
  <2>8. LockInv'
    <3>1. ~Tracked("phone")' => /\ \A x \in End : ~lockOwner'[x]
                                /\ \A u \in Thread : Pulling(u)' => ~msg'[u].lock /\ msg'[u].data = NoData
      <4> SUFFICES ASSUME ~Tracked("phone")
                   PROVE  /\ \A x \in End : ~lockOwner'[x]
                          /\ \A u \in Thread : Pulling(u)' => ~msg'[u].lock /\ msg'[u].data = NoData
        BY <2>3, EndCases
      <4>1. /\ \A x \in End : ~lockOwner[x]
            /\ \A u \in Thread : Pulling(u) => ~msg[u].lock /\ msg[u].data = NoData
        BY DEF IInv, LockInv
      <4>2. ~Tracked("server")
        BY DEF IInv, ObjInv
      <4>3. dirty[e] = {}
        BY <4>2, EndCases DEF IInv, QueueInv
      <4>4. g = NoData
        <5>1. DOMAIN g = {}
          BY <4>3, <2>5
        <5>2. g = [f \in DOMAIN g |-> g[f]]
          BY DEF Data
        <5> QED
          BY <5>1, <5>2 DEF NoData
      <4> QED
        BY <4>1, <4>4, <2>2, <2>4, <1>2, <1>4, EndCases, <1>0
    <3>2. \A x \in End : lockOwner'[x] => ~lockOwner'[Peer(x)] /\ \A u \in Thread : ~Carries(u)'
      BY <2>2, <2>4, <1>0, <1>6, EndCases DEF IInv, LockInv
    <3>3. \A u, w \in Thread : Carries(u)' /\ Carries(w)' => u = w
      BY <2>4, <1>6 DEF IInv, LockInv
    <3>4. \A x \in End : "locked" \in dirty'[x] => lockOwner'[x]
      BY <2>2, <2>7, <1>0, EndCases DEF IInv, LockInv
    <3> QED
      BY <3>1, <3>2, <3>3, <3>4 DEF LockInv
  <2>9. Fresh(e)' <=> Fresh(e)
    BY <1>3, <1>5 DEF Fresh
  <2>10. Reaches(e)' <=> Reaches(e)
    BY <2>9, <1>2, <1>3, <1>4, <1>5 DEF Reaches, Updates
  <2>11. ~Updates(t, d)' => (Fresh(d)' <=> Fresh(d)) /\ (Reaches(d)' <=> Reaches(d))
    BY <1>2, <1>3, <1>5 DEF Reaches, Fresh
  <2>12. \A u \in Thread : Updates(u, d)' => msg'[u].rev <= sendRev[e]
    <3> SUFFICES ASSUME NEW u \in Thread, Updates(u, d)' PROVE msg'[u].rev <= sendRev[e]
      OBVIOUS
    <3>1. CASE u = t
      BY <3>1, <1>2, <1>8
    <3>2. CASE u # t
      <4>1. Updates(u, d) /\ msg'[u] = msg[u]
        BY <3>2, <1>2, <1>5
      <4>2. msg[u].rev \in Nat
        BY DEF IInv, TypeOK, ThreadType, Message
      <4> QED
        BY <4>1, <4>2, <1>7, <1>8
    <3> QED
      BY <3>1, <3>2
  <2>13. ASSUME lockOwner[e] PROVE Fresh(e)' /\ Reaches(d)'
    <3>1. Fresh(e) /\ ("locked" \in dirty[e] \/ Reaches(d))
      BY <2>13 DEF IInv, FreshInv
    <3>2. CASE Updates(t, d)'
      <4>1. g["locked"] = written["locked"]
        BY <3>1, <3>2, <1>1, <1>5 DEF Fresh
      <4> QED
        BY <4>1, <3>1, <3>2, <2>9, <2>12, <1>2, <1>3 DEF Reaches
    <3>3. CASE ~Updates(t, d)'
      <4>1. "locked" \notin dirty[e]
        BY <3>3, <2>5, <1>5
      <4> QED
        BY <4>1, <3>1, <3>3, <2>9, <2>11
    <3> QED
      BY <3>2, <3>3
  <2>14. ASSUME NEW u \in Thread, NEW x \in End, Carries(u)', u \in Arriving(x)'
         PROVE  /\ Reaches(x)' /\ Fresh(Peer(x))'
                /\ \A w \in Thread : Updates(w, x)' => msg'[w].rev <= msg'[u].rev
    <3>1. CASE u = t
      <4>1. x = d /\ lockOwner[e]
        BY <2>14, <3>1, <1>0, <1>4, <1>6, <2>4, EndCases
      <4> QED
        BY <4>1, <3>1, <2>12, <2>13, <1>0, <1>2
    <3>2. CASE u # t
      <4>1. Carries(u) /\ u \in Arriving(x) /\ msg'[u] = msg[u]
        BY <2>14, <3>2, <1>0, <1>2, <1>4, <1>6, EndCases
      <4>2. ~lockOwner[e] /\ ~lockOwner[d]
        BY <4>1, <1>0 DEF IInv, LockInv
      <4>3. ~Updates(t, d)' /\ ~Updates(t, e)'
        BY <4>2, <2>6, <1>4, <1>5 DEF Updates
      <4>4. /\ Reaches(x) /\ Fresh(Peer(x))
            /\ \A w \in Thread : Updates(w, x) => msg[w].rev <= msg[u].rev
        BY <4>1 DEF IInv, FreshInv
      <4>5. \A w \in Thread : Updates(w, x)' => Updates(w, x) /\ msg'[w] = msg[w]
        BY <4>3, <1>0, <1>2, <1>5, EndCases
      <4>6. Reaches(x)' /\ Fresh(Peer(x))'
        BY <4>3, <4>4, <2>9, <2>10, <2>11, <1>0, EndCases
      <4> QED
        BY <4>1, <4>4, <4>5, <4>6
    <3> QED
      BY <3>1, <3>2
  <2>15. ASSUME NEW x \in End, lockOwner'[x]
         PROVE  Fresh(x)' /\ ("locked" \in dirty'[x] \/ Reaches(Peer(x))')
    <3>1. CASE x = e
      BY <3>1, <2>15, <2>2, <2>13
    <3>2. CASE x = d
      <4>1. lockOwner[d] /\ ~lockOwner[e]
        BY <3>2, <2>15, <2>2, <1>0 DEF IInv, LockInv
      <4>2. ~Updates(t, d)'
        BY <4>1, <2>6, <1>5
      <4>3. Fresh(d) /\ ("locked" \in dirty[d] \/ Reaches(e))
        BY <4>1, <1>0 DEF IInv, FreshInv
      <4> QED
        BY <3>2, <4>2, <4>3, <2>7, <2>10, <2>11, <1>0
    <3> QED
      BY <3>1, <3>2, <1>0, EndCases
  <2>16. ~Tracked("phone")' => heap'["phone"]["locked"] = written'["locked"]
    BY <2>3, <1>3, EndCases DEF IInv, FreshInv
  <2>17. FreshInv'
    BY <2>14, <2>15, <2>16 DEF FreshInv
  <2> QED
    BY <2>8, <2>17
<1> QED
  BY <1>9, <1>10

--------------------------------------------------------------------------------
(* Pulls.                                                                  *)

(* What a pull does to the pushes under way: the one with the least        *)
(* revision is gone.                                                       *)
LEMMA PullArriving ==
  ASSUME IInv, NEW t \in Thread, SyncPull(t), NEW e \in End, e = msg[t].to
  PROVE  /\ t \in Arriving(e) /\ t \notin Arriving(Peer(e))
         /\ Arriving(e)' = Arriving(e) \ {t} /\ Arriving(Peer(e))' = Arriving(Peer(e))
         /\ \A u \in Thread : u # t => msg'[u] = msg[u] /\ (Pulling(u)' <=> Pulling(u))
         /\ Pulling(t) /\ ~Pulling(t)'
         /\ msg[t].rev = recvRev[e]
         /\ \A u \in Arriving(e) : u # t => msg[u].rev > msg[t].rev
<1>1. Pulling(t) /\ msg[t].rev = recvRev[e]
  BY DEF SyncPull, Pulling, Turn
<1>2. /\ \A u \in Thread : u # t => msg'[u] = msg[u] /\ (Pulling(u)' <=> Pulling(u))
      /\ ~Pulling(t)'
  BY DEF SyncPull, Pulling, IInv, TypeOK, ThreadType
<1>3. t \in Arriving(e) /\ t \notin Arriving(Peer(e))
  BY <1>1, EndCases DEF Arriving
<1>4. Arriving(e)' = Arriving(e) \ {t}
  BY <1>2 DEF Arriving
<1>5. Arriving(Peer(e))' = Arriving(Peer(e))
  BY <1>2, <1>3 DEF Arriving
<1>6. \A u \in Arriving(e) : u # t => msg[u].rev > msg[t].rev
  <2> SUFFICES ASSUME NEW u \in Arriving(e), u # t PROVE msg[u].rev > msg[t].rev
    OBVIOUS
  <2>1. msg[u].rev # msg[t].rev
    BY <1>3 DEF IInv, TurnInv
  <2>2. msg[u].rev \in recvRev[e]..(sendRev[Peer(e)] - 1)
    BY DEF IInv, RevisionsExact
  <2>3. recvRev[e] \in Nat /\ sendRev[Peer(e)] \in Nat
    BY EndCases DEF IInv, TypeOK, RevType
  <2> QED
    BY <1>1, <2>1, <2>2, <2>3
<1> QED
  BY <1>1, <1>2, <1>3, <1>4, <1>5, <1>6

(* The next revision is the next to be pulled. *)
LEMMA PullRevisions == ASSUME IInv, NEW t \in Thread, SyncPull(t), NEW e \in End, e = msg[t].to
                       PROVE  RevisionsExact' /\ TurnInv'
<1> DEFINE d == Peer(e)
<1>0. e \in End /\ d \in End /\ d # e /\ Peer(d) = e
  BY EndCases
<1>1. /\ t \in Arriving(e) /\ Arriving(e)' = Arriving(e) \ {t} /\ Arriving(d)' = Arriving(d)
      /\ t \notin Arriving(d) /\ msg[t].rev = recvRev[e]
      /\ \A u \in Thread : u # t => msg'[u] = msg[u]
      /\ \A u \in Arriving(e) : u # t => msg[u].rev > msg[t].rev
  BY <1>0, PullArriving
<1>2. recvRev' = [recvRev EXCEPT ![e] = @ + 1] /\ sendRev' = sendRev
  BY DEF SyncPull
<1>3. recvRev'[e] = recvRev[e] + 1 /\ recvRev'[d] = recvRev[d]
  BY <1>0, <1>2 DEF IInv, TypeOK, RevType
<1>4. \A x \in End : sendRev[x] \in Nat /\ recvRev[x] \in Nat
  BY DEF IInv, TypeOK, RevType
<1>5. /\ {msg[u].rev : u \in Arriving(e)} = recvRev[e]..(sendRev[d] - 1)
      /\ Cardinality(Arriving(e)) = sendRev[d] - recvRev[e]
  BY <1>0 DEF IInv, RevisionsExact
<1>6. recvRev[e] < sendRev[d]
  <2>1. msg[t].rev \in recvRev[e]..(sendRev[d] - 1)
    BY <1>1, <1>5
  <2> QED
    BY <2>1, <1>0, <1>4
<1>7. Arriving(e) \subseteq Thread /\ Arriving(d) \subseteq Thread
  BY DEF Arriving
<1>8. {msg'[u].rev : u \in Arriving(e)'} = recvRev'[e]..(sendRev'[d] - 1)
  <2>1. {msg'[u].rev : u \in Arriving(e)'} = {msg[u].rev : u \in Arriving(e)} \ {recvRev[e]}
    BY <1>1, <1>7, <1>0, <1>4
  <2>2. (recvRev[e] + 1)..(sendRev[d] - 1) = (recvRev[e]..(sendRev[d] - 1)) \ {recvRev[e]}
    BY <1>0, <1>4
  <2> QED
    BY <2>1, <2>2, <1>2, <1>3, <1>5
<1>9. Cardinality(Arriving(e)') = sendRev'[d] - recvRev'[e]
  <2>1. Cardinality(Arriving(e) \ {t}) = Cardinality(Arriving(e)) - 1
    BY <1>1, ArrivingFinite, FS_RemoveElement
  <2> QED
    BY <2>1, <1>0, <1>1, <1>2, <1>3, <1>4, <1>5
<1>10. /\ {msg'[u].rev : u \in Arriving(d)'} = recvRev'[d]..(sendRev'[e] - 1)
       /\ Cardinality(Arriving(d)') = sendRev'[e] - recvRev'[d]
  <2>1. {msg'[u].rev : u \in Arriving(d)'} = {msg[u].rev : u \in Arriving(d)}
    BY <1>1, <1>7
  <2> QED
    BY <2>1, <1>0, <1>1, <1>2, <1>3 DEF IInv, RevisionsExact
<1>11. RevisionsExact'
  BY <1>0, <1>8, <1>9, <1>10, EndCases DEF RevisionsExact
<1>12. TurnInv'
  <2>1. \A x \in End : recvRev'[x] <= sendRev'[Peer(x)]
    <3>1. recvRev[d] <= sendRev[e]
      BY <1>0 DEF IInv, TurnInv
    <3> QED
      BY <3>1, <1>0, <1>2, <1>3, <1>4, <1>6, EndCases
  <2>2. \A x \in End : \A u \in Arriving(x)' : u \in Arriving(x) /\ msg'[u] = msg[u]
    BY <1>0, <1>1, <1>7, EndCases
  <2> QED
    BY <2>1, <2>2 DEF IInv, TurnInv
<1> QED
  BY <1>11, <1>12

(* The object and the write queue after a pull. *)
LEMMA PullQueue == ASSUME IInv, NEW t \in Thread, SyncPull(t), NEW e \in End, e = msg[t].to
                   PROVE  /\ ObjInv' /\ QueueInv' /\ DirtyQueued'
                          /\ \A x \in End : Tracked(x) => Tracked(x)'
<1>0. e \in End /\ Peer(e) \in End /\ Peer(e) # e
  BY EndCases
<1>1. /\ obj' = IF msg[t].has THEN [obj EXCEPT ![e] = "tracked"] ELSE obj
      /\ dirty' = [dirty EXCEPT ![e] = @ \ DOMAIN msg[t].data]
      /\ isQueued' = isQueued /\ entries' = entries
  BY DEF SyncPull, Cleaned
<1>2. \A x \in End : Tracked(x) => Tracked(x)'
  BY <1>1 DEF Tracked, IInv, TypeOK, CopyType
<1>3. msg[t].has => obj[Peer(e)] = "tracked"
  BY <1>0, PullArriving DEF IInv, QueueInv, Tracked
<1>4. ObjInv'
  BY <1>0, <1>1, <1>3, EndCases DEF ObjInv, IInv, Tracked, TypeOK, CopyType
<1>5. \A x \in End : dirty'[x] \subseteq dirty[x]
  BY <1>1 DEF IInv, TypeOK, CopyType
<1>6. DirtyQueued'
  BY <1>1, <1>5 DEF DirtyQueued, IInv
<1>7. \A x \in End : /\ ~Tracked(x)' => entries'[x] = 0 /\ dirty'[x] = {}
                     /\ isQueued'[x] => entries'[x] > 0
                     /\ ~isQueued'[x] => entries'[x] <= 1
  BY <1>1, <1>2, <1>5 DEF IInv, QueueInv
<1>8. \A u \in Thread : (Pulling(u) /\ msg[u].has => Tracked(Peer(msg[u].to)))'
  <2> SUFFICES ASSUME NEW u \in Thread, Pulling(u)', msg'[u].has
               PROVE  obj'[Peer(msg'[u].to)] = "tracked"
    BY DEF Tracked
  <2>1. u # t /\ msg'[u] = msg[u] /\ Pulling(u)
    BY <1>0, PullArriving
  <2>2. Tracked(Peer(msg[u].to)) /\ Peer(msg[u].to) \in End
    BY <2>1, EndCases DEF IInv, QueueInv, TypeOK, ThreadType, Message
  <2> QED
    BY <2>1, <2>2, <1>2 DEF Tracked
<1>9. QueueInv'
  BY <1>7, <1>8 DEF QueueInv
<1> QED
  BY <1>2, <1>4, <1>6, <1>9

(* The lock and the field used under it after a pull. *)
LEMMA PullLock == ASSUME IInv, NEW t \in Thread, SyncPull(t), NEW e \in End, e = msg[t].to,
                         race = "none"
                  PROVE  LockInv' /\ FreshInv'
<1> DEFINE d == Peer(e)
<1>0. e \in End /\ d \in End /\ d # e /\ Peer(d) = e
  BY EndCases
<1>1. /\ t \in Arriving(e) /\ t \notin Arriving(d)
      /\ Arriving(e)' = Arriving(e) \ {t} /\ Arriving(d)' = Arriving(d)
      /\ \A u \in Thread : u # t => msg'[u] = msg[u] /\ (Pulling(u)' <=> Pulling(u))
      /\ Pulling(t) /\ ~Pulling(t)'
      /\ \A u \in Arriving(e) : u # t => msg[u].rev > msg[t].rev
  BY <1>0, PullArriving
<1>2. /\ heap' = [heap EXCEPT ![e] = Inflated(e, msg[t].data)]
      /\ dirty' = [dirty EXCEPT ![e] = @ \ DOMAIN msg[t].data]
      /\ lockOwner' = [lockOwner EXCEPT ![e] = @ \/ msg[t].lock]
      /\ written' = written
  BY DEF SyncPull, Cleaned, history
<1>3. /\ heap'[d] = heap[d] /\ dirty'[d] = dirty[d] /\ lockOwner'[d] = lockOwner[d]
      /\ lockOwner'[e] = (lockOwner[e] \/ msg[t].lock)
      /\ dirty'[e] = dirty[e] \ DOMAIN msg[t].data
      /\ heap'[e]["locked"] = IF Updates(t, e) THEN msg[t].data["locked"] ELSE heap[e]["locked"]
  BY <1>0, <1>1, <1>2 DEF Inflated, Field, Updates, IInv, TypeOK, CopyType, RightType
<1>4. /\ \A u \in Thread : Updates(u, d)' <=> Updates(u, d)
      /\ \A u \in Thread : Updates(u, e)' <=> (Updates(u, e) /\ u # t)
      /\ \A u \in Thread : Carries(u)' <=> (Carries(u) /\ u # t)
      /\ Carries(t) <=> msg[t].lock
  BY <1>1 DEF Updates, Carries, Arriving
<1>5. \A u \in Thread : Updates(u, e) /\ msg[u].rev <= msg[t].rev => u = t
  <2>1. \A u \in Thread : msg[u].rev \in Nat
    BY DEF IInv, TypeOK, ThreadType, Message
  <2> QED
    BY <1>1, <2>1 DEF Updates
<1>6. Fresh(d)' <=> Fresh(d)
  BY <1>2, <1>3, <1>4 DEF Fresh
<1>7. Reaches(d)' <=> Reaches(d)
  <2>1. \A u \in Thread : Updates(u, d) => msg'[u] = msg[u]
    BY <1>1 DEF Updates
  <2> QED
    BY <2>1, <1>2, <1>4, <1>6 DEF Reaches
<1>8. ASSUME Reaches(e) PROVE Reaches(e)'
  <2>1. CASE Fresh(e)
    <3>1. Fresh(e)'
      BY <2>1, <1>2, <1>3, <1>4 DEF Fresh
    <3> QED
      BY <3>1 DEF Reaches
  <2>2. CASE ~Fresh(e)
    <3>1. PICK w \in Thread : /\ Updates(w, e) /\ msg[w].data["locked"] = written["locked"]
                              /\ \A u \in Thread : Updates(u, e) => msg[u].rev <= msg[w].rev
      BY <1>8, <2>2 DEF Reaches
    <3>2. CASE w = t
      <4>1. Fresh(e)'
        BY <3>1, <3>2, <1>2, <1>3, <1>4, <1>5 DEF Fresh
      <4> QED
        BY <4>1 DEF Reaches
    <3>3. CASE w # t
      <4>1. Updates(w, e)' /\ msg'[w].data["locked"] = written'["locked"]
        BY <3>1, <3>3, <1>1, <1>2, <1>4
      <4>2. \A u \in Thread : Updates(u, e)' => msg'[u].rev <= msg'[w].rev
        BY <3>1, <3>3, <1>1, <1>4
      <4> QED
        BY <4>1, <4>2 DEF Reaches
    <3> QED
      BY <3>2, <3>3
  <2> QED
    BY <2>1, <2>2
<1>9. \A x \in End : Tracked(x) => Tracked(x)'
  BY PullQueue
<1>10. Tracked("phone") \/ ~Tracked("phone")'
  <2>1. ASSUME ~Tracked("phone") PROVE obj'["phone"] # "tracked"
    <3>1. ~Tracked("server")
      BY <2>1 DEF IInv, ObjInv
    <3>2. ~msg[t].has
      BY <2>1, <3>1, <1>0, <1>1, EndCases DEF IInv, QueueInv
    <3> QED
      BY <2>1, <3>2 DEF SyncPull, Tracked
  <2> QED
    BY <2>1 DEF Tracked
<1>11. LockInv'
  <2>1. ~Tracked("phone")' => /\ \A x \in End : ~lockOwner'[x]
                              /\ \A u \in Thread : Pulling(u)' => ~msg'[u].lock /\ msg'[u].data = NoData
    <3> SUFFICES ASSUME ~Tracked("phone")
                 PROVE  /\ \A x \in End : ~lockOwner'[x]
                        /\ \A u \in Thread : Pulling(u)' => ~msg'[u].lock /\ msg'[u].data = NoData
      BY <1>9, EndCases
    <3>1. /\ \A x \in End : ~lockOwner[x]
          /\ \A u \in Thread : Pulling(u) => ~msg[u].lock /\ msg[u].data = NoData
      BY DEF IInv, LockInv
    <3>2. \A x \in End : ~lockOwner'[x]
      <4>1. ~lockOwner[d] /\ ~lockOwner[e] /\ ~msg[t].lock
        BY <3>1, <1>0, <1>1
      <4>2. ~lockOwner'[d] /\ ~lockOwner'[e]
        BY <4>1, <1>3
      <4> QED
        BY <4>2, <1>0, EndCases
    <3>3. \A u \in Thread : Pulling(u)' => u # t /\ msg'[u] = msg[u] /\ Pulling(u)
      BY <1>1
    <3> QED
      BY <3>1, <3>2, <3>3
  <2>2. \A x \in End : lockOwner'[x] => ~lockOwner'[Peer(x)] /\ \A u \in Thread : ~Carries(u)'
    <3>1. lockOwner[e] => ~lockOwner[d] /\ \A u \in Thread : ~Carries(u)
      BY <1>0 DEF IInv, LockInv
    <3>2. lockOwner[d] => ~lockOwner[e] /\ \A u \in Thread : ~Carries(u)
      BY <1>0 DEF IInv, LockInv
    <3>3. \A u, w \in Thread : Carries(u) /\ Carries(w) => u = w
      BY DEF IInv, LockInv
    <3>4. lockOwner'[e] => ~lockOwner'[d] /\ \A u \in Thread : ~Carries(u)'
      BY <3>1, <3>2, <3>3, <1>3, <1>4
    <3>5. lockOwner'[d] => ~lockOwner'[e] /\ \A u \in Thread : ~Carries(u)'
      BY <3>2, <1>3, <1>4
    <3>6. \A x \in End : (x = e /\ Peer(x) = d) \/ (x = d /\ Peer(x) = e)
      BY <1>0, EndCases
    <3> QED
      BY <3>4, <3>5, <3>6
  <2>3. \A u, w \in Thread : Carries(u)' /\ Carries(w)' => u = w
    BY <1>4 DEF IInv, LockInv
  <2>4. \A x \in End : "locked" \in dirty'[x] => lockOwner'[x]
    <3>1. /\ "locked" \in dirty[e] => lockOwner[e]
          /\ "locked" \in dirty[d] => lockOwner[d]
      BY <1>0 DEF IInv, LockInv
    <3>2. "locked" \in dirty'[e] => lockOwner'[e]
      BY <3>1, <1>3
    <3>3. "locked" \in dirty'[d] => lockOwner'[d]
      BY <3>1, <1>3
    <3> QED
      BY <3>2, <3>3, <1>0, EndCases
  <2> QED
    BY <2>1, <2>2, <2>3, <2>4 DEF LockInv
<1>12. ASSUME Carries(t) PROVE Fresh(e)' /\ Fresh(d)'
  <2>1. Reaches(e) /\ Fresh(d) /\ \A u \in Thread : Updates(u, e) => msg[u].rev <= msg[t].rev
    BY <1>12, <1>0, <1>1 DEF IInv, FreshInv
  <2>2. \A u \in Thread : Updates(u, e) => u = t
    BY <2>1, <1>5
  <2>3. heap'[e]["locked"] = written["locked"]
    BY <2>1, <2>2, <1>3 DEF Reaches, Fresh
  <2> QED
    BY <2>1, <2>2, <2>3, <1>2, <1>4, <1>6 DEF Fresh
<1>13. ASSUME lockOwner[e] PROVE Fresh(e)'
  <2>1. Fresh(e)
    BY <1>13, <1>0 DEF IInv, FreshInv
  <2> QED
    BY <2>1, <1>2, <1>3, <1>4 DEF Fresh
<1>14. ASSUME NEW x \in End, lockOwner'[x]
       PROVE  Fresh(x)' /\ ("locked" \in dirty'[x] \/ Reaches(Peer(x))')
  <2>1. CASE x = e /\ Carries(t)
    BY <2>1, <1>12 DEF Reaches
  <2>2. CASE x = e /\ ~Carries(t)
    <3>1. lockOwner[e]
      BY <2>2, <1>14, <1>3, <1>4
    <3>2. Fresh(e) /\ ("locked" \in dirty[e] \/ Reaches(d))
      BY <3>1, <1>0 DEF IInv, FreshInv
    <3>3. "locked" \notin DOMAIN msg[t].data
      BY <3>2, <1>1 DEF Fresh, Updates
    <3> QED
      BY <2>2, <3>1, <3>2, <3>3, <1>3, <1>7, <1>13
  <2>3. CASE x = d
    <3>1. Fresh(d) /\ ("locked" \in dirty[d] \/ Reaches(e))
      BY <2>3, <1>14, <1>0, <1>3 DEF IInv, FreshInv
    <3> QED
      BY <2>3, <3>1, <1>0, <1>3, <1>6, <1>8
  <2> QED
    BY <2>1, <2>2, <2>3, <1>0, EndCases
<1>15. ASSUME NEW u \in Thread, NEW x \in End, Carries(u)', u \in Arriving(x)'
       PROVE  /\ Reaches(x)' /\ Fresh(Peer(x))'
              /\ \A w \in Thread : Updates(w, x)' => msg'[w].rev <= msg'[u].rev
  <2>1. u # t /\ Carries(u) /\ u \in Arriving(x) /\ msg'[u] = msg[u]
    BY <1>15, <1>0, <1>1, <1>4, EndCases
  <2>2. /\ Reaches(x) /\ Fresh(Peer(x))
        /\ \A w \in Thread : Updates(w, x) => msg[w].rev <= msg[u].rev
    BY <2>1 DEF IInv, FreshInv
  <2>3. \A w \in Thread : Updates(w, x)' => Updates(w, x) /\ msg'[w] = msg[w]
    BY <1>0, <1>1, <1>4, EndCases DEF Updates
  <2>4. CASE x = e
    BY <2>1, <2>2, <2>3, <2>4, <1>6, <1>8
  <2>5. CASE x = d
    <3>1. Fresh(e)'
      BY <2>2, <2>5, <1>0, <1>2, <1>3, <1>4 DEF Fresh
    <3> QED
      BY <3>1, <2>1, <2>2, <2>3, <2>5, <1>0, <1>7
  <2> QED
    BY <2>4, <2>5, <1>0, EndCases
<1>16. ~Tracked("phone")' => heap'["phone"]["locked"] = written'["locked"]
  <2> SUFFICES ASSUME ~Tracked("phone") PROVE heap'["phone"]["locked"] = written'["locked"]
    BY <1>9, EndCases
  <2>1. msg[t].data = NoData /\ heap["phone"]["locked"] = written["locked"]
    BY <1>1 DEF IInv, LockInv, FreshInv
  <2>2. ~Updates(t, e)
    BY <2>1, NoDataType DEF Updates
  <2> QED
    BY <2>1, <2>2, <1>0, <1>2, <1>3, EndCases
<1>17. FreshInv'
  BY <1>14, <1>15, <1>16 DEF FreshInv
<1> QED
  BY <1>11, <1>17

--------------------------------------------------------------------------------
(* Writes, and the tracking of the object.                                 *)

(* A step that leaves every push under way alone and marks a field of a    *)
(* tracked object, or none. *)
LEMMA MarkStep ==
  ASSUME IInv, \A u \in Thread : Pulling(u)' => Pulling(u) /\ msg'[u] = msg[u], obj' = obj,
         \/ UNCHANGED <<dirty, isQueued, entries>>
         \/ \E e \in End, f \in Field : Tracked(e) /\ OffMarkField(e, f)
  PROVE  QueueInv' /\ DirtyQueued'
<1>1. \A u \in Thread : (Pulling(u) /\ msg[u].has => Tracked(Peer(msg[u].to)))'
  BY DEF IInv, QueueInv, Tracked
<1>2. CASE UNCHANGED <<dirty, isQueued, entries>>
  BY <1>1, <1>2 DEF IInv, QueueInv, DirtyQueued, Tracked
<1>3. CASE \E e \in End, f \in Field : Tracked(e) /\ OffMarkField(e, f)
  <2>1. PICK e \in End, f \in Field : Tracked(e) /\ OffMarkField(e, f)
    BY <1>3
  <2>2. /\ isQueued'[e] /\ entries'[e] > 0
        /\ \A x \in End : x # e => /\ isQueued'[x] = isQueued[x] /\ entries'[x] = entries[x]
                                   /\ dirty'[x] = dirty[x]
    BY <2>1 DEF OffMarkField, IInv, TypeOK, CopyType, QueueInv
  <2>3. \A x \in End : /\ ~Tracked(x)' => entries'[x] = 0 /\ dirty'[x] = {}
                       /\ isQueued'[x] => entries'[x] > 0
                       /\ ~isQueued'[x] => entries'[x] <= 1
    BY <2>1, <2>2 DEF IInv, QueueInv, Tracked
  <2>4. DirtyQueued'
    BY <2>2 DEF IInv, DirtyQueued
  <2> QED
    BY <1>1, <2>3, <2>4 DEF QueueInv
<1> QED
  BY <1>2, <1>3

(* The steps that are calm mark a field of a tracked object, or none. *)
LEMMA CalmQueue == ASSUME IInv, NEW t \in Thread, CalmNext(t) PROVE QueueInv' /\ DirtyQueued'
<1>1. \A u \in Thread : Pulling(u)' => Pulling(u) /\ msg'[u] = msg[u]
  BY CalmActions DEF Calm
<1>2. obj' = obj
  BY CalmActions DEF Calm
<1>3. loc[t] \in End /\ "vol" \in Field
  BY DEF IInv, TypeOK, ThreadType, Field
<1>4. \/ UNCHANGED <<dirty, isQueued, entries>>
      \/ \E e \in End, f \in Field : Tracked(e) /\ OffMarkField(e, f)
  <2>1. CASE \/ Contend(t) \/ BackOff(t) \/ AskLock(t) \/ PerformLock(t)
            \/ ReadVolatile(t) \/ PerformGrab(t) \/ ToldWait(t)
    BY <2>1 DEF Contend, BackOff, AskLock, PerformLock, ReadVolatile, PerformGrab, ToldWait, copy
  <2>2. CASE WriteVolatile(t)
    BY <2>2, <1>3 DEF WriteVolatile, TrackWrite
  <2>3. CASE Own(t) \/ ToldReached(t) \/ CaughtUp(t)
    <3>1. Tracked(loc[t]) /\ Finish(t)
      BY <2>3 DEF Own, ToldReached, CaughtUp, IInv, AskInv, Asking
    <3> QED
      BY <3>1, <1>3 DEF Finish
  <2> QED
    BY <2>1, <2>2, <2>3 DEF CalmNext
<1> QED
  BY <1>1, <1>2, <1>4, MarkStep

(* A step that leaves the channels alone. *)
LEMMA IdleRevisions == ASSUME IInv, UNCHANGED <<msg, sendRev, recvRev>>,
                              \A t \in Thread : Pulling(t)' <=> Pulling(t)
                       PROVE  /\ RevisionsExact' /\ TurnInv'
                              /\ \A t \in Thread : /\ Carries(t)' <=> Carries(t)
                                                   /\ \A e : Updates(t, e)' <=> Updates(t, e)
<1>1. \A e : Arriving(e)' = Arriving(e)
  BY DEF Arriving
<1>2. RevisionsExact'
  BY <1>1 DEF IInv, RevisionsExact
<1>3. TurnInv'
  BY <1>1 DEF IInv, TurnInv
<1>4. \A t \in Thread : (Carries(t)' <=> Carries(t)) /\ \A e : Updates(t, e)' <=> Updates(t, e)
  BY <1>1 DEF Carries, Updates
<1> QED
  BY <1>2, <1>3, <1>4

(* A write under the lock: the writer has the right, or nobody else knows  *)
(* the object. *)
LEMMA WriteLockedStep ==
  ASSUME IInv, NEW t \in Thread, WriteLocked(t) \/ GetIn(t)
  PROVE  /\ ObjInv' /\ QueueInv' /\ DirtyQueued' /\ RevisionsExact' /\ TurnInv'
         /\ race' = "none" => LockInv' /\ FreshInv'
<1> DEFINE e == loc[t]
           d == Peer(e)
           n == written["locked"] + 1
<1>0. e \in End /\ d \in End /\ d # e /\ Peer(d) = e
  BY EndCases DEF IInv, TypeOK, ThreadType
<1>a. WriteField(t) /\ \A u \in Thread : Pulling(u)' <=> Pulling(u)
  BY DEF WriteLocked, GetIn, Pulling, IInv, TypeOK, ThreadType
<1>b. obj[e] # "absent" /\ (race' = "none" => race = "none" /\ (Tracked(e) => lockOwner[e]))
  <2>1. CASE WriteLocked(t)
    BY <2>1 DEF WriteLocked
  <2>2. CASE GetIn(t)
    <3>1. Tracked(e)
      BY <2>2 DEF GetIn, IInv, AskInv, Asking
    <3> QED
      BY <2>2, <3>1 DEF GetIn, Raced, Tracked
  <2> QED
    BY <2>1, <2>2
<1>1. UNCHANGED <<obj, lockOwner, sendRev, recvRev, loc, msg>>
  BY <1>a DEF WriteField, rights, revs
<1>2. heap'[e]["locked"] = n /\ heap'[d] = heap[d] /\ written'["locked"] = n
  BY <1>0, <1>a DEF WriteField, IInv, TypeOK, CopyType, HistoryType, Field
<1>3. /\ Tracked(e) => OffMarkField(e, "locked")
      /\ ~Tracked(e) => UNCHANGED <<dirty, isQueued, entries>>
  BY <1>a DEF WriteField, TrackWrite
<1>4. RevisionsExact' /\ TurnInv' /\ \A u \in Thread : /\ Carries(u)' <=> Carries(u)
                                                       /\ \A x : Updates(u, x)' <=> Updates(u, x)
  BY <1>a, <1>1, IdleRevisions
<1>5. QueueInv' /\ DirtyQueued'
  <2>1. \A u \in Thread : Pulling(u)' => Pulling(u) /\ msg'[u] = msg[u]
    BY <1>a, <1>1
  <2>2. "locked" \in Field
    BY DEF Field
  <2> QED
    BY <2>1, <2>2, <1>0, <1>1, <1>3, MarkStep
<1>6. ObjInv' /\ \A x : Tracked(x)' <=> Tracked(x)
  BY <1>1 DEF IInv, ObjInv, Tracked
<1>7. /\ dirty'[d] = dirty[d]
      /\ Tracked(e) => dirty'[e] = dirty[e] \cup {"locked"}
      /\ ~Tracked(e) => dirty'[e] = dirty[e]
  BY <1>0, <1>3 DEF OffMarkField, IInv, TypeOK, CopyType
<1> SUFFICES ASSUME race' = "none" PROVE LockInv' /\ FreshInv'
  BY <1>4, <1>5, <1>6
<1>c. race = "none" /\ (Tracked(e) => lockOwner[e])
  BY <1>b
<1> USE <1>c
<1>8. LockInv'
  <2>1. \A x \in End : "locked" \in dirty'[x] => lockOwner'[x]
    BY <1>0, <1>1, <1>2, <1>7, EndCases DEF IInv, LockInv
  <2> QED
    BY <2>1, <1>a, <1>1, <1>4, <1>6 DEF IInv, LockInv
<1>9. CASE Tracked(e)
  <2>1. lockOwner[e] /\ ~lockOwner[d] /\ \A u \in Thread : ~Carries(u)
    BY <1>0, <1>2, <1>9 DEF IInv, LockInv
  <2>2. Fresh(e)'
    <3>1. Fresh(e)
      BY <2>1, <1>0 DEF IInv, FreshInv
    <3> QED
      BY <3>1, <1>1, <1>2, <1>4 DEF Fresh
  <2>3. \A x \in End : lockOwner'[x] => Fresh(x)' /\ ("locked" \in dirty'[x] \/ Reaches(Peer(x))')
    BY <2>1, <2>2, <1>0, <1>1, <1>7, <1>9, EndCases
  <2>4. Tracked("phone")'
    BY <1>6, <1>9, <1>0, EndCases DEF IInv, ObjInv
  <2> QED
    BY <2>1, <2>3, <2>4, <1>4, <1>5, <1>6, <1>8 DEF FreshInv
<1>10. CASE ~Tracked(e)
  <2>1. e = "phone"
    BY <1>0, <1>b, <1>10, EndCases DEF IInv, ObjInv, TypeOK, CopyType, Tracked
  <2>2. \A x \in End : ~lockOwner'[x]
    BY <2>1, <1>1, <1>10 DEF IInv, LockInv
  <2>3. \A u \in Thread : ~Carries(u)'
    BY <2>1, <1>4, <1>10 DEF IInv, LockInv, Carries
  <2> QED
    BY <2>1, <2>2, <2>3, <1>2, <1>4, <1>5, <1>6, <1>8 DEF FreshInv
<1> QED
  BY <1>9, <1>10

(* The object gets an id: its maker has everything. *)
LEMMA TrackStep ==
  ASSUME IInv, NEW t \in Thread, AddTrackedObject(t)
  PROVE  /\ ObjInv' /\ QueueInv' /\ DirtyQueued' /\ RevisionsExact' /\ TurnInv'
         /\ race' = "none" => LockInv' /\ FreshInv'
<1>0. loc[t] = "phone" /\ obj["phone"] = "private"
  BY EndCases DEF AddTrackedObject, IInv, ObjInv, TypeOK, ThreadType
<1>1. UNCHANGED <<heap, isQueued, sendRev, recvRev, loc, pc, msg, written, race>>
  BY DEF AddTrackedObject, revs, history
<1>2. /\ obj'["phone"] = "tracked" /\ obj'["server"] = obj["server"]
      /\ lockOwner'["phone"] /\ lockOwner'["server"] = lockOwner["server"]
      /\ dirty'["phone"] = Field /\ dirty'["server"] = dirty["server"]
      /\ entries'["phone"] = entries["phone"] + 1 /\ entries'["server"] = entries["server"]
  BY <1>0, EndCases DEF AddTrackedObject, Publish, IInv, TypeOK, CopyType, RightType
<1>3. ~Tracked("phone") /\ ~Tracked("server") /\ obj["server"] = "absent"
  BY <1>0, EndCases DEF Tracked, IInv, ObjInv, TypeOK, CopyType
<1>4. RevisionsExact' /\ TurnInv' /\ \A u \in Thread : /\ Carries(u)' <=> Carries(u)
                                                       /\ \A x : Updates(u, x)' <=> Updates(u, x)
  <2>1. \A u \in Thread : Pulling(u)' <=> Pulling(u)
    BY <1>1 DEF Pulling
  <2> QED
    BY <2>1, <1>1, IdleRevisions
<1>5. ObjInv' /\ Tracked("phone")' /\ ~Tracked("server")'
  BY <1>2, <1>3 DEF ObjInv, Tracked
<1>6. /\ entries["phone"] = 0 /\ entries["server"] = 0 /\ dirty["server"] = {}
      /\ ~isQueued["phone"] /\ ~isQueued["server"]
  BY <1>3, EndCases DEF IInv, QueueInv
<1>7. \A u \in Thread : Pulling(u) => ~msg[u].has
  <2>1. \A u \in Thread : Peer(msg[u].to) = "phone" \/ Peer(msg[u].to) = "server"
    BY EndCases DEF IInv, TypeOK, ThreadType, Message
  <2> QED
    BY <2>1, <1>3 DEF IInv, QueueInv
<1>9. QueueInv' /\ DirtyQueued'
  <2>1. \A u \in Thread : Pulling(u)' => ~msg'[u].has
    BY <1>1, <1>7 DEF Pulling
  <2>2. DirtyQueued'
    BY <1>2, <1>6, EndCases DEF DirtyQueued
  <2>3. \A x \in End : /\ ~Tracked(x)' => entries'[x] = 0 /\ dirty'[x] = {}
                       /\ isQueued'[x] => entries'[x] > 0
                       /\ ~isQueued'[x] => entries'[x] <= 1
    BY <1>1, <1>2, <1>5, <1>6, EndCases
  <2> QED
    BY <2>1, <2>2, <2>3 DEF QueueInv
<1> SUFFICES ASSUME race' = "none" PROVE LockInv' /\ FreshInv'
  BY <1>4, <1>5, <1>9
<1>a. race = "none"
  BY <1>1
<1>8. \A u \in Thread : ~Carries(u) /\ \A x : ~Updates(u, x)
  <2>1. \A u \in Thread : Pulling(u) => ~msg[u].lock /\ msg[u].data = NoData
    BY <1>3, <1>a DEF IInv, LockInv
  <2> QED
    BY <2>1, NoDataType DEF Carries, Updates, Arriving
<1>10. ~lockOwner["server"]
  BY <1>a, <1>3, EndCases DEF IInv, LockInv
<1>11. LockInv'
  BY <1>2, <1>4, <1>5, <1>6, <1>8, <1>10, EndCases DEF LockInv
<1>12. Fresh("phone")'
  BY <1>a, <1>1, <1>3, <1>4, <1>8 DEF IInv, FreshInv, Fresh
<1>13. "locked" \in dirty'["phone"]
  BY <1>2 DEF Field
<1>14. FreshInv'
  BY <1>2, <1>4, <1>5, <1>8, <1>10, <1>12, <1>13, EndCases DEF FreshInv
<1> QED
  BY <1>11, <1>14

--------------------------------------------------------------------------------
(* The actions that push.                                                  *)

PushNext(t) == Sync(t) \/ Migrate(t) \/ ClearOwnership(t) \/ GivePush(t)

(* Each is a push, from the thread's endpoint or the other one.  The right *)
(* to the volatiles goes along only when it was given.                     *)
LEMMA PushActions ==
  ASSUME IInv, NEW t \in Thread, PushNext(t)
  PROVE  \E e \in End, lock \in BOOLEAN, p \in PullPc :
           PushBy(e, t, lock, p) /\ (p = "grabbed" <=> pc[t] = "give") /\ pc[t] # "grabbed"
             /\ pc[t] # "own" /\ loc' = loc /\ (p = "grabbed" => Tracked(loc[t])) /\ op' = op
<1>0. loc[t] \in End /\ Peer(loc[t]) \in End
  BY EndCases DEF IInv, TypeOK, ThreadType
<1>1. CASE Sync(t)
  <2>1. PushBy(loc[t], t, FALSE, "pull") /\ pc[t] = "run" /\ loc' = loc /\ op' = op
    BY <1>1 DEF Sync, PushBy, Pulling
  <2> QED
    BY <2>1, <1>0 DEF PullPc
<1>2. CASE Migrate(t)
  <2>1. PICK lock \in IF lockOwner[loc[t]] THEN BOOLEAN ELSE {FALSE} : SyncPush(loc[t], t, lock)
    BY <1>2 DEF Migrate
  <2>2. lock \in BOOLEAN /\ (lock => lockOwner[loc[t]])
    BY <2>1
  <2>3. PushBy(loc[t], t, lock, "migrate") /\ pc[t] = "run" /\ loc' = loc /\ op' = op
    BY <1>2, <2>1, <2>2 DEF Migrate, PushBy, Pulling
  <2> QED
    BY <2>2, <2>3, <1>0 DEF PullPc
<1>3. CASE ClearOwnership(t)
  <2>1. PushBy(Peer(loc[t]), t, TRUE, "pull") /\ pc[t] = "promise" /\ loc' = loc /\ op' = op
    BY <1>3 DEF ClearOwnership, Raced, PushBy, Pulling
  <2> QED
    BY <2>1, <1>0 DEF PullPc
<1>4. CASE GivePush(t)
  <2>1. PushBy(Peer(loc[t]), t, FALSE, "grabbed") /\ pc[t] = "give" /\ loc' = loc /\ op' = op
    BY <1>4 DEF GivePush, PushBy, Pulling
  <2>2. Tracked(loc[t])
    BY <2>1 DEF IInv, AskInv, Asking
  <2> QED
    BY <2>1, <2>2, <1>0 DEF PullPc
<1> QED
  BY <1>1, <1>2, <1>3, <1>4 DEF PushNext

(* Every step is of one of five kinds. *)
LEMMA Kinds == ASSUME NEW t \in Thread,
                      \/ WriteLocked(t) \/ AddTrackedObject(t) \/ Sync(t) \/ Migrate(t)
                      \/ SyncPull(t) \/ Contend(t) \/ BackOff(t) \/ GetIn(t)
                      \/ AskLock(t) \/ PerformLock(t) \/ ClearOwnership(t)
                      \/ WriteVolatile(t) \/ ReadVolatile(t) \/ PerformGrab(t)
                      \/ GivePush(t) \/ Own(t)
                      \/ ToldReached(t) \/ ToldWait(t) \/ CaughtUp(t)
               PROVE  \/ WriteLocked(t) \/ GetIn(t) \/ AddTrackedObject(t) \/ SyncPull(t)
                      \/ CalmNext(t) \/ PushNext(t)
  BY DEF CalmNext, PushNext

--------------------------------------------------------------------------------
(* Volatile accesses.                                                      *)

(* One thread moves, and asks only about a tracked object. *)
LEMMA AskStep ==
  ASSUME IInv, NEW t \in Thread, \A e \in End : Tracked(e) => Tracked(e)',
         \A u \in Thread : u # t => pc'[u] = pc[u] /\ loc'[u] = loc[u],
         pc'[t] \in Asking => loc'[t] \in End /\ Tracked(loc'[t])
  PROVE  AskInv'
<1> SUFFICES ASSUME NEW u \in Thread, pc'[u] \in Asking PROVE obj'[loc'[u]] = "tracked"
  BY DEF AskInv, Tracked
<1>1. CASE u = t
  BY <1>1 DEF Tracked
<1>2. CASE u # t
  <2>1. Tracked(loc[u]) /\ loc[u] \in End /\ loc'[u] = loc[u]
    BY <1>2 DEF IInv, AskInv, TypeOK, ThreadType
  <2> QED
    BY <2>1 DEF Tracked
<1> QED
  BY <1>1, <1>2

(* Nobody takes or gives the right to the volatiles. *)
LEMMA VolSame ==
  ASSUME IInv, volOwner' = volOwner, VolCarriers' = VolCarriers,
         (\E e \in End : Tracked(e))' <=> \E e \in End : Tracked(e)
  PROVE  VolInv'
<1>1. VolHolders' = VolHolders
  BY DEF VolHolders
<1> QED
  BY <1>1 DEF IInv, VolInv

(* The maker of the object gets the right. *)
LEMMA VolPublish ==
  ASSUME IInv, NEW e \in End, obj[e] = "private", Publish(e),
         VolCarriers = {} => VolCarriers' = {}
  PROVE  VolInv' /\ VolCarriers = {}
<1>1. e = "phone" /\ ~\E x \in End : Tracked(x)
  BY EndCases DEF IInv, ObjInv, Tracked
<1>2. VolHolders = {} /\ VolCarriers = {}
  BY <1>1 DEF IInv, VolInv
<1>3. VolHolders' = {e} /\ (\E x \in End : Tracked(x))'
  BY <1>2 DEF Publish, VolHolders, Tracked, IInv, TypeOK, RightType, CopyType
<1> QED
  BY <1>2, <1>3 DEF VolInv

(* Pushes: the right stays where it is, or gets on its way. *)
LEMMA PushAccess == ASSUME IInv, NEW t \in Thread, PushNext(t) PROVE AskInv' /\ VolInv'
<1>1. PICK e \in End, lock \in BOOLEAN, p \in PullPc :
        PushBy(e, t, lock, p) /\ (p = "grabbed" <=> pc[t] = "give") /\ pc[t] # "grabbed"
          /\ pc[t] # "own" /\ loc' = loc /\ (p = "grabbed" => Tracked(loc[t]))
  BY PushActions
<1>2. pc' = [pc EXCEPT ![t] = p] /\ p \in {"pull", "migrate", "grabbed"}
  BY <1>1 DEF PushBy, PullPc
<1>3. VolCarriers' = VolCarriers
  BY <1>1, <1>2 DEF VolCarriers, IInv, TypeOK, ThreadType
<1>4. PICK fresh \in BOOLEAN : /\ fresh => obj[e] = "private" /\ Publish(e)
                               /\ ~fresh => UNCHANGED <<obj, volOwner>>
  BY <1>1, PushParts DEF PushBy, IInv
<1>5. VolInv'
  <2>1. CASE fresh
    BY <2>1, <1>3, <1>4, VolPublish
  <2>2. CASE ~fresh
    BY <2>2, <1>3, <1>4, VolSame DEF Tracked
  <2> QED
    BY <2>1, <2>2
<1>6. AskInv'
  <2>1. \A x \in End : Tracked(x) => Tracked(x)'
    BY <1>4 DEF Tracked, Publish, IInv, TypeOK, CopyType
  <2>2. \A u \in Thread : u # t => pc'[u] = pc[u] /\ loc'[u] = loc[u]
    BY <1>1, <1>2 DEF IInv, TypeOK, ThreadType
  <2>3. pc'[t] \in Asking => loc'[t] \in End /\ Tracked(loc'[t])
    BY <1>1, <1>2 DEF IInv, TypeOK, ThreadType, Asking
  <2> QED
    BY <2>1, <2>2, <2>3, AskStep
<1> QED
  BY <1>5, <1>6

(* A pull: the right has come. *)
LEMMA PullAccess == ASSUME IInv, NEW t \in Thread, SyncPull(t) PROVE AskInv' /\ VolInv'
<1>1. msg[t].to \in End
  BY DEF IInv, TypeOK, ThreadType, Message
<1>2. \A x \in End : Tracked(x) => Tracked(x)'
  BY <1>1, PullQueue
<1>3. VolCarriers' = VolCarriers /\ volOwner' = volOwner
  BY DEF SyncPull, VolCarriers, IInv, TypeOK, ThreadType
<1>4. (\E e \in End : Tracked(e))' <=> \E e \in End : Tracked(e)
  <2>1. CASE msg[t].has
    <3>1. Tracked(Peer(msg[t].to)) /\ Peer(msg[t].to) \in End
      BY <2>1, <1>1, EndCases DEF SyncPull, Pulling, IInv, QueueInv
    <3> QED
      BY <3>1, <1>2
  <2>2. CASE ~msg[t].has
    BY <2>2 DEF SyncPull, Tracked
  <2> QED
    BY <2>1, <2>2
<1>5. \A u \in Thread : u # t => pc'[u] = pc[u] /\ loc'[u] = loc[u]
  BY DEF SyncPull, IInv, TypeOK, ThreadType
<1>6. pc'[t] \in Asking => loc'[t] \in End /\ Tracked(loc'[t])
  <2> SUFFICES ASSUME pc'[t] \in Asking PROVE loc'[t] = loc[t] /\ pc[t] = "grabbed"
    BY DEF IInv, AskInv, Asking, TypeOK, ThreadType
  <2> QED
    BY DEF SyncPull, Asking, IInv, TypeOK, ThreadType
<1> QED
  BY <1>2, <1>3, <1>4, <1>5, <1>6, AskStep, VolSame

(* The end of an access, and what leads to it. *)
LEMMA CalmAccess == ASSUME IInv, NEW t \in Thread, CalmNext(t) PROVE AskInv' /\ VolInv'
<1> USE DEF IInv, TypeOK, ThreadType
<1>1. obj' = obj /\ \A x : Tracked(x)' <=> Tracked(x)
  BY CalmActions DEF Calm, Tracked
<1>2. loc' = loc /\ \A u \in Thread : u # t => pc'[u] = pc[u]
  BY DEF CalmNext, Contend, BackOff, AskLock, PerformLock, WriteVolatile, ReadVolatile, PerformGrab, Own, ToldReached,
         ToldWait, CaughtUp, Finish
<1>3. AskInv'
  <2>1. pc'[t] \in Asking => Tracked(loc[t])
    <3>1. CASE Contend(t) \/ BackOff(t) \/ AskLock(t) \/ PerformLock(t)
      BY <3>1 DEF Contend, BackOff, AskLock, PerformLock, Asking
    <3>2. CASE WriteVolatile(t)
      BY <3>2 DEF WriteVolatile, Asking
    <3>3. CASE ReadVolatile(t) \/ PerformGrab(t) \/ Own(t) \/ ToldReached(t) \/ ToldWait(t) \/ CaughtUp(t)
      BY <3>3 DEF ReadVolatile, PerformGrab, Own, ToldReached, ToldWait, CaughtUp, AskInv, Asking
    <3> QED
      BY <3>1, <3>2, <3>3 DEF CalmNext
  <2> QED
    BY <1>1, <1>2, <2>1, AskStep
<1>4. VolInv'
  <2>1. CASE \/ Contend(t) \/ BackOff(t) \/ AskLock(t) \/ PerformLock(t)
            \/ WriteVolatile(t) \/ ReadVolatile(t) \/ ToldWait(t)
    <3>1. VolCarriers' = VolCarriers /\ volOwner' = volOwner
      BY <2>1 DEF Contend, BackOff, AskLock, PerformLock, WriteVolatile, ReadVolatile, ToldWait,
                  rights, VolCarriers
    <3> QED
      BY <3>1, <1>1, VolSame
  <2>2. CASE ToldReached(t) \/ CaughtUp(t)
    <3>1. VolCarriers' = VolCarriers /\ volOwner' = volOwner
      BY <2>2 DEF ToldReached, CaughtUp, Finish, VolCarriers
    <3> QED
      BY <3>1, <1>1, VolSame
  <2>3. CASE PerformGrab(t)
    <3>1. CASE volOwner' = volOwner
      <4>0. pc' = [pc EXCEPT ![t] = "told"] /\ pc[t] = "ask"
        BY <2>3, <3>1, EndCases DEF PerformGrab, Given, RightType
      <4>1. VolCarriers' = VolCarriers
        BY <4>0 DEF VolCarriers
      <4> QED
        BY <3>1, <4>1, <1>1, VolSame
    <3>2. CASE volOwner' # volOwner
      <4> DEFINE p == Peer(loc[t])
      <4>1. /\ p \in End /\ Tracked(p) /\ volOwner[p] /\ volOwner' = [volOwner EXCEPT ![p] = FALSE]
            /\ pc' = [pc EXCEPT ![t] = "give"]
        BY <2>3, <3>2, EndCases DEF PerformGrab, Given
      <4>2. VolCarriers = {} /\ VolHolders = {p}
        BY <4>1 DEF VolInv, VolHolders
      <4>3. VolHolders' = {}
        BY <4>1, <4>2 DEF VolHolders, RightType
      <4>4. VolCarriers' = {t}
        BY <4>1, <4>2 DEF VolCarriers
      <4> QED
        BY <4>1, <4>3, <4>4, <1>1 DEF VolInv
    <3> QED
      BY <3>1, <3>2
  <2>4. CASE Own(t)
    <3>1. /\ t \in VolCarriers /\ pc' = [pc EXCEPT ![t] = "run"]
          /\ volOwner' = [volOwner EXCEPT ![loc[t]] = TRUE] /\ Tracked(loc[t])
      BY <2>4 DEF Own, Finish, VolCarriers, AskInv, Asking
    <3>2. VolHolders = {} /\ VolCarriers = {t}
      BY <3>1 DEF VolInv
    <3>3. VolHolders' = {loc[t]}
      BY <3>1, <3>2 DEF VolHolders, RightType
    <3>4. VolCarriers' = {}
      BY <3>1, <3>2 DEF VolCarriers
    <3> QED
      BY <3>1, <3>3, <3>4, <1>1 DEF VolInv
  <2> QED
    BY <2>1, <2>2, <2>3, <2>4 DEF CalmNext
<1> QED
  BY <1>3, <1>4

(* Writes under the lock and the tracking of the object. *)
LEMMA LocalAccess == ASSUME IInv, NEW t \in Thread,
                            WriteLocked(t) \/ GetIn(t) \/ AddTrackedObject(t)
                     PROVE  AskInv' /\ VolInv'
<1>1. loc' = loc /\ \A u \in Thread : u # t => pc'[u] = pc[u]
  BY DEF WriteLocked, GetIn, WriteField, AddTrackedObject, IInv, TypeOK, ThreadType
<1>2. VolCarriers' = VolCarriers /\ (pc'[t] = pc[t] \/ pc'[t] = "run")
  BY DEF VolCarriers, WriteLocked, GetIn, AddTrackedObject, IInv, TypeOK, ThreadType
<1>3. \A x \in End : Tracked(x) => Tracked(x)'
  BY DEF WriteLocked, GetIn, WriteField, AddTrackedObject, Publish, Tracked, IInv, TypeOK, CopyType
<1>4. AskInv'
  <2>1. pc'[t] \in Asking => loc'[t] \in End /\ Tracked(loc'[t])
    BY <1>1, <1>2, <1>3 DEF IInv, AskInv, Asking, TypeOK, ThreadType
  <2> QED
    BY <1>1, <1>3, <2>1, AskStep
<1>5. VolInv'
  <2>1. CASE WriteLocked(t) \/ GetIn(t)
    <3>1. obj' = obj /\ volOwner' = volOwner
      BY <2>1 DEF WriteLocked, GetIn, WriteField, rights
    <3> QED
      BY <3>1, <1>2, VolSame DEF Tracked
  <2>2. CASE AddTrackedObject(t)
    <3>1. loc[t] \in End /\ obj[loc[t]] = "private" /\ Publish(loc[t])
      BY <2>2 DEF AddTrackedObject, IInv, TypeOK, ThreadType
    <3> QED
      BY <3>1, <1>2, VolPublish
  <2> QED
    BY <2>1, <2>2
<1> QED
  BY <1>4, <1>5

--------------------------------------------------------------------------------
(* Types.                                                                  *)

(* An object stands at most twice in the write queue: a mark adds one      *)
(* entry, and only to an object that stands there once at most. *)
LEMMA MarkType ==
  ASSUME IInv, NEW e \in End, NEW f \in Field, OffMarkField(e, f)
  PROVE  /\ dirty' \in [End -> SUBSET Field] /\ isQueued' \in [End -> BOOLEAN]
         /\ entries' \in [End -> 0..2]
<1>1. ~isQueued[e] => entries[e] <= 1
  BY DEF IInv, QueueInv
<1> QED
  BY <1>1 DEF OffMarkField, IInv, TypeOK, CopyType

(* The end of a volatile access. *)
LEMMA FinishType == ASSUME IInv, NEW t \in Thread, Finish(t)
                    PROVE  CopyType' /\ RevType' /\ ThreadType' /\ HistoryType'
<1>0. loc[t] \in End /\ "vol" \in Field /\ op[t] \in Value /\ Value = 0..MaxWrite
  BY DEF IInv, TypeOK, ThreadType, Field, Value
<1>1. CopyType'
  <2>1. /\ dirty' \in [End -> SUBSET Field] /\ isQueued' \in [End -> BOOLEAN]
        /\ entries' \in [End -> 0..2]
    BY <1>0, MarkType DEF Finish, IInv, TypeOK, CopyType
  <2>2. obj' = obj /\ heap' = heap
    BY DEF Finish
  <2> QED
    BY <2>1, <2>2 DEF IInv, TypeOK, CopyType
<1>2. RevType'
  BY DEF Finish, revs, IInv, TypeOK, RevType
<1>3. NoMsg \in Message
  BY NoDataType DEF NoMsg, Message, End
<1>4. ThreadType'
  <2>1. /\ pc' = [pc EXCEPT ![t] = "run"] /\ op' = [op EXCEPT ![t] = 0]
        /\ msg' = [msg EXCEPT ![t] = NoMsg] /\ loc' = loc
    BY DEF Finish
  <2>2. 0 \in Value
    BY DEF Value
  <2> QED
    BY <2>1, <2>2, <1>3 DEF IInv, TypeOK, ThreadType
<1>5. HistoryType'
  <2>0. race' = race
    BY DEF Finish
  <2>1. complete' \subseteq 1..MaxWrite
    <3>1. op[t] # 0 => op[t] \in 1..MaxWrite
      BY <1>0
    <3>2. complete' = complete \/ (op[t] # 0 /\ complete' = complete \cup {op[t]})
      BY DEF Finish
    <3> QED
      BY <3>1, <3>2 DEF IInv, TypeOK, HistoryType
  <2>2. anomaly' \subseteq {"unowned", "lost"}
    BY DEF Finish, IInv, TypeOK, HistoryType
  <2> QED
    BY <2>0, <2>1, <2>2 DEF Finish, IInv, TypeOK, HistoryType
<1> QED
  BY <1>1, <1>2, <1>4, <1>5

(* Calm steps. *)
LEMMA CalmType == ASSUME IInv, NEW t \in Thread, CalmNext(t) PROVE TypeOK'
<1>0. loc[t] \in End /\ Peer(loc[t]) \in End
  BY EndCases DEF IInv, TypeOK, ThreadType
<1>1. CASE \/ Contend(t) \/ BackOff(t) \/ AskLock(t) \/ PerformLock(t)
          \/ ReadVolatile(t) \/ ToldWait(t)
  <2>1. UNCHANGED <<copy, rights, revs, loc, op, msg, race, history>>
    BY <1>1 DEF Contend, BackOff, AskLock, PerformLock, ReadVolatile, ToldWait
  <2>2. pc' \in [Thread -> {"run", "pull", "migrate", "block", "lock", "promise",
                            "ask", "give", "grabbed", "own", "told", "sleep"}]
    BY <1>1 DEF Contend, BackOff, AskLock, PerformLock, ReadVolatile, ToldWait, IInv, TypeOK, ThreadType
  <2> QED
    BY <2>1, <2>2 DEF copy, rights, revs, history, IInv, TypeOK, CopyType, RightType, RevType,
                      ThreadType, HistoryType
<1>2. CASE Own(t) \/ ToldReached(t) \/ CaughtUp(t)
  <2>1. RightType'
    BY <1>2 DEF Own, ToldReached, CaughtUp, Finish, IInv, TypeOK, RightType
  <2> QED
    BY <1>2, <2>1, FinishType DEF Own, ToldReached, CaughtUp, TypeOK
<1>3. CASE PerformGrab(t)
  <2>1. UNCHANGED <<copy, lockOwner, revs, loc, op, race, history>>
    BY <1>3 DEF PerformGrab
  <2>2. RightType'
    BY <1>3 DEF PerformGrab, Given, IInv, TypeOK, RightType
  <2>3. ThreadType'
    <3>1. sendRev[Peer(loc[t])] \in 0..MaxPush
      BY <1>0 DEF IInv, TypeOK, RevType
    <3>2. msg' = msg \/ msg' = [msg EXCEPT ![t].rev = sendRev[Peer(loc[t])]]
      BY <1>3 DEF PerformGrab
    <3>3. msg \in [Thread -> Message]
      BY DEF IInv, TypeOK, ThreadType
    <3>4. [msg[t] EXCEPT !.rev = sendRev[Peer(loc[t])]] \in Message
      BY <3>1, <3>3 DEF Message
    <3>5. msg' \in [Thread -> Message]
      BY <3>2, <3>3, <3>4
    <3> QED
      BY <1>3, <3>5 DEF PerformGrab, IInv, TypeOK, ThreadType
  <2> QED
    BY <2>1, <2>2, <2>3 DEF copy, revs, history, IInv, TypeOK, CopyType, RevType, HistoryType
<1>4. CASE WriteVolatile(t)
  <2> DEFINE n == written["vol"] + 1
  <2>1. n \in 1..MaxWrite /\ n \in Value /\ "vol" \in Field
    BY <1>4 DEF WriteVolatile, IInv, TypeOK, HistoryType, Field, Value
  <2>2. /\ dirty' \in [End -> SUBSET Field] /\ isQueued' \in [End -> BOOLEAN]
        /\ entries' \in [End -> 0..2]
    BY <1>0, <1>4, <2>1, MarkType DEF WriteVolatile, TrackWrite, IInv, TypeOK, CopyType
  <2>3. heap' \in [End -> [Field -> Value]]
    BY <1>4, <2>1 DEF WriteVolatile, IInv, TypeOK, CopyType
  <2>4. CopyType' /\ RightType' /\ RevType'
    BY <1>4, <2>2, <2>3 DEF WriteVolatile, rights, revs, IInv, TypeOK, CopyType, RightType, RevType
  <2>5. ThreadType'
    BY <1>4, <2>1 DEF WriteVolatile, IInv, TypeOK, ThreadType
  <2>6. HistoryType'
    <3>1. written' \in [Field -> Value] /\ anomaly' = anomaly /\ race' = race
      BY <1>4, <2>1 DEF WriteVolatile, IInv, TypeOK, HistoryType
    <3>2. before' \in [1..MaxWrite -> SUBSET (1..MaxWrite)]
      BY <1>4 DEF WriteVolatile, IInv, TypeOK, HistoryType
    <3>3. complete' \subseteq 1..MaxWrite
      BY <1>4, <2>1 DEF WriteVolatile, IInv, TypeOK, HistoryType
    <3> QED
      BY <3>1, <3>2, <3>3 DEF IInv, TypeOK, HistoryType
  <2> QED
    BY <2>4, <2>5, <2>6 DEF TypeOK
<1> QED
  BY <1>1, <1>2, <1>3, <1>4 DEF CalmNext

(* Pushes. *)
LEMMA PushType == ASSUME IInv, NEW t \in Thread, PushNext(t) PROVE TypeOK'
<1>1. PICK e \in End, lock \in BOOLEAN, p \in PullPc :
        PushBy(e, t, lock, p) /\ loc' = loc /\ op' = op
  BY PushActions
<1>2. /\ SyncPush(e, t, lock) /\ pc' = [pc EXCEPT ![t] = p] /\ UNCHANGED history
      /\ heap' = heap /\ recvRev' = recvRev
  BY <1>1 DEF PushBy, SyncPush
<1>3. PICK fresh \in BOOLEAN, g \in Data :
        /\ msg' = [msg EXCEPT ![t] = [rev |-> sendRev[e], to |-> Peer(e),
                     has |-> fresh \/ entries[e] > 0, data |-> g, lock |-> lock]]
        /\ fresh => Publish(e)
        /\ ~fresh => /\ lockOwner' = [lockOwner EXCEPT ![e] = @ /\ ~lock]
                     /\ UNCHANGED <<obj, volOwner>>
  BY <1>2, PushParts DEF IInv
<1>4. obj' \in [End -> {"absent", "private", "tracked"}] /\ RightType'
  BY <1>3 DEF Publish, IInv, TypeOK, CopyType, RightType
<1>5. CopyType'
  <2>1. /\ dirty' = [dirty EXCEPT ![e] = {}] /\ isQueued' = [isQueued EXCEPT ![e] = FALSE]
        /\ entries' = [entries EXCEPT ![e] = 0]
    BY <1>2 DEF SyncPush, MarkAfterPush
  <2> QED
    BY <1>2, <1>4, <2>1 DEF IInv, TypeOK, CopyType
<1>6. RevType'
  BY <1>2 DEF SyncPush, IInv, TypeOK, RevType
<1>7. ThreadType'
  <2>1. sendRev[e] \in 0..MaxPush /\ Peer(e) \in End
    BY EndCases DEF IInv, TypeOK, RevType
  <2>2. msg' \in [Thread -> Message]
    BY <1>3, <2>1 DEF IInv, TypeOK, ThreadType, Message
  <2>3. pc' \in [Thread -> {"run", "pull", "migrate", "block", "lock", "promise",
                            "ask", "give", "grabbed", "own", "told", "sleep"}]
    BY <1>2 DEF PullPc, IInv, TypeOK, ThreadType
  <2> QED
    BY <1>1, <2>2, <2>3 DEF IInv, TypeOK, ThreadType
<1>8. HistoryType'
  <2>1. race' \in {"none", "twice", "stolen"}
    BY DEF PushNext, Sync, Migrate, ClearOwnership, Raced, GivePush, IInv, TypeOK, HistoryType
  <2> QED
    BY <2>1, <1>2 DEF history, IInv, TypeOK, HistoryType
<1> QED
  BY <1>4, <1>5, <1>6, <1>7, <1>8 DEF TypeOK

(* Pulls. *)
LEMMA PullType == ASSUME IInv, NEW t \in Thread, SyncPull(t) PROVE TypeOK'
<1>1. PICK e \in End : e = msg[t].to
  BY DEF IInv, TypeOK, ThreadType, Message
<1>2. CopyType'
  <2>1. msg[t].data \in Data
    BY DEF IInv, TypeOK, ThreadType, Message
  <2>2. Inflated(e, msg[t].data) \in [Field -> Value]
    BY <2>1, DataFields DEF Inflated, IInv, TypeOK, CopyType
  <2>3. heap' \in [End -> [Field -> Value]]
    BY <1>1, <2>2 DEF SyncPull, IInv, TypeOK, CopyType
  <2>4. dirty' \in [End -> SUBSET Field]
    BY DEF SyncPull, Cleaned, IInv, TypeOK, CopyType
  <2> QED
    BY <2>3, <2>4 DEF SyncPull, IInv, TypeOK, CopyType
<1>3. RightType' /\ HistoryType'
  BY DEF SyncPull, history, IInv, TypeOK, RightType, HistoryType
<1>4. RevType'
  <2>1. t \in Arriving(e) /\ msg[t].rev = recvRev[e]
    BY <1>1, PullArriving
  <2>2. msg[t].rev \in recvRev[e]..(sendRev[Peer(e)] - 1)
    BY <2>1 DEF IInv, RevisionsExact
  <2>3. sendRev[Peer(e)] \in 0..MaxPush /\ recvRev[e] \in 0..MaxPush
    BY EndCases DEF IInv, TypeOK, RevType
  <2>4. recvRev[e] + 1 \in 0..MaxPush
    BY <2>1, <2>2, <2>3
  <2> QED
    BY <1>1, <2>4 DEF SyncPull, IInv, TypeOK, RevType
<1>5. ThreadType'
  <2>1. NoMsg \in Message
    BY NoDataType DEF NoMsg, Message, End
  <2> QED
    BY <1>1, <2>1 DEF SyncPull, IInv, TypeOK, ThreadType
<1> QED
  BY <1>2, <1>3, <1>4, <1>5 DEF TypeOK

(* Writes under the lock, and the tracking of the object. *)
LEMMA LocalType == ASSUME IInv, NEW t \in Thread,
                          WriteLocked(t) \/ GetIn(t) \/ AddTrackedObject(t)
                   PROVE  TypeOK'
<1>0. loc[t] \in End /\ "locked" \in Field
  BY DEF IInv, TypeOK, ThreadType, Field
<1>1. CASE WriteLocked(t) \/ GetIn(t)
  <2>0a. WriteField(t)
    BY <1>1 DEF WriteLocked, GetIn
  <2>0b. pc' \in [Thread -> {"run", "pull", "migrate", "block", "lock", "promise",
                            "ask", "give", "grabbed", "own", "told", "sleep"}]
    BY <1>1 DEF WriteLocked, GetIn, IInv, TypeOK, ThreadType
  <2>0c. race' \in {"none", "twice", "stolen"}
    BY <1>1 DEF WriteLocked, GetIn, Raced, IInv, TypeOK, HistoryType
  <2>0. /\ WriteField(t)
        /\ pc' \in [Thread -> {"run", "pull", "migrate", "block", "lock", "promise",
                               "ask", "give", "grabbed", "own", "told", "sleep"}]
        /\ race' \in {"none", "twice", "stolen"}
    BY <2>0a, <2>0b, <2>0c
  <2>1. written["locked"] + 1 \in Value
    BY <2>0 DEF WriteField, IInv, TypeOK, HistoryType, Value, Field
  <2>2. /\ dirty' \in [End -> SUBSET Field] /\ isQueued' \in [End -> BOOLEAN]
        /\ entries' \in [End -> 0..2]
    BY <1>0, <2>0, MarkType DEF WriteField, TrackWrite, IInv, TypeOK, CopyType
  <2>3. heap' \in [End -> [Field -> Value]] /\ obj' = obj
    BY <2>0, <2>1 DEF WriteField, IInv, TypeOK, CopyType
  <2>4. CopyType'
    BY <2>2, <2>3 DEF IInv, TypeOK, CopyType
  <2>5. RightType' /\ RevType' /\ ThreadType'
    BY <2>0 DEF WriteField, rights, revs, IInv, TypeOK, RightType, RevType, ThreadType
  <2>6. HistoryType'
    BY <2>0, <2>1 DEF WriteField, IInv, TypeOK, HistoryType
  <2> QED
    BY <2>4, <2>5, <2>6 DEF TypeOK
<1>2. CASE AddTrackedObject(t)
  <2>1. entries[loc[t]] = 0
    BY <1>0, <1>2 DEF AddTrackedObject, IInv, QueueInv, Tracked
  <2>2. CopyType'
    BY <1>0, <1>2, <2>1 DEF AddTrackedObject, Publish, IInv, TypeOK, CopyType
  <2>3. RightType' /\ RevType' /\ ThreadType' /\ HistoryType'
    BY <1>2 DEF AddTrackedObject, Publish, revs, history, IInv, TypeOK, RightType, RevType,
                ThreadType, HistoryType
  <2> QED
    BY <2>2, <2>3 DEF TypeOK
<1> QED
  BY <1>1, <1>2

--------------------------------------------------------------------------------
(* The invariant.                                                          *)

(* It holds at the start. *)
LEMMA InvInit == ASSUME Init PROVE IInv
<1> USE DEF Init
<1>0. \A x \in End : ~Tracked(x)
  BY DEF Tracked
<1>1. TypeOK
  <2>1. NoMsg \in Message
    BY NoDataType DEF NoMsg, Message, End
  <2>2. 0 \in Value
    BY DEF Value
  <2> QED
    BY <2>1, <2>2 DEF TypeOK, CopyType, RightType, RevType, ThreadType, HistoryType
<1>2. ObjInv
  BY DEF ObjInv, Tracked, End
<1>3. \A t \in Thread : ~Pulling(t) /\ pc[t] = "run"
  BY DEF Pulling
<1>4. \A e : Arriving(e) = {}
  BY <1>3 DEF Arriving
<1>5. QueueInv /\ DirtyQueued /\ AskInv
  BY <1>3 DEF QueueInv, DirtyQueued, AskInv, Asking
<1>6. RevisionsExact /\ TurnInv
  <2>1. \A e \in End : recvRev[e] = 0 /\ sendRev[Peer(e)] = 0
    BY EndCases
  <2>2. Cardinality({}) = 0
    BY FS_EmptySet
  <2>3. \A e : {msg[t].rev : t \in Arriving(e)} = {}
    BY <1>4
  <2>4. RevisionsExact
    <3> SUFFICES ASSUME NEW e \in End
                 PROVE  /\ {msg[t].rev : t \in Arriving(e)} = recvRev[e]..(sendRev[Peer(e)] - 1)
                        /\ Cardinality(Arriving(e)) = sendRev[Peer(e)] - recvRev[e]
      BY DEF RevisionsExact
    <3>1. recvRev[e]..(sendRev[Peer(e)] - 1) = {} /\ sendRev[Peer(e)] - recvRev[e] = 0
      BY <2>1
    <3> QED
      BY <1>4, <2>2, <2>3, <3>1
  <2> QED
    BY <1>4, <2>1, <2>4 DEF TurnInv
<1>7. VolInv
  <2>1. VolHolders = {} /\ VolCarriers = {}
    BY DEF VolHolders, VolCarriers
  <2> QED
    BY <1>0, <2>1 DEF VolInv
<1>8. LockInv
  BY <1>3, EndCases DEF LockInv, Carries
<1>9. FreshInv
  BY <1>3, EndCases DEF FreshInv, Carries, Field
<1> QED
  BY <1>1, <1>2, <1>5, <1>6, <1>7, <1>8, <1>9 DEF IInv

(* Every step preserves it. *)
LEMMA InvNext == ASSUME IInv, [Next]_vars PROVE IInv'
<1>1. CASE UNCHANGED vars
  <2> USE <1>1 DEF vars, copy, rights, revs, history
  <2>1. TypeOK' /\ ObjInv' /\ QueueInv' /\ AskInv' /\ DirtyQueued'
    BY DEF IInv, TypeOK, CopyType, RightType, RevType, ThreadType, HistoryType, ObjInv, QueueInv,
           AskInv, DirtyQueued, Tracked, Pulling
  <2>2. Calm
    BY DEF Calm, Pulling
  <2>3. VolInv'
    BY VolSame DEF VolCarriers, Tracked
  <2> QED
    BY <2>1, <2>2, <2>3, CalmStep DEF IInv
<1>2. CASE Next
  <2>1. PICK t \in Thread : \/ WriteLocked(t) \/ GetIn(t) \/ AddTrackedObject(t) \/ SyncPull(t)
                            \/ CalmNext(t) \/ PushNext(t)
    BY <1>2, Kinds DEF Next
  <2>2. CASE WriteLocked(t) \/ GetIn(t) \/ AddTrackedObject(t)
    BY <2>2, WriteLockedStep, TrackStep, LocalAccess, LocalType DEF IInv
  <2>3. CASE SyncPull(t)
    <3>1. msg[t].to \in End
      BY DEF IInv, TypeOK, ThreadType, Message
    <3>2. race' = race
      BY <2>3 DEF SyncPull
    <3> QED
      BY <2>3, <3>1, <3>2, PullRevisions, PullQueue, PullLock, PullAccess, PullType DEF IInv
  <2>4. CASE CalmNext(t)
    BY <2>4, CalmActions, CalmStep, CalmQueue, CalmAccess, CalmType DEF IInv
  <2>5. CASE PushNext(t)
    <3>1. PICK e \in End, lock \in BOOLEAN, p \in PullPc : PushBy(e, t, lock, p)
      BY <2>5, PushActions
    <3> QED
      BY <2>5, <3>1, PushRevisions, PushQueue, PushLock, PushAccess, PushType DEF IInv
  <2> QED
    BY <2>1, <2>2, <2>3, <2>4, <2>5
<1> QED
  BY <1>1, <1>2

(* The inductive invariant of the two copies. *)
THEOREM Invariance == Spec => []IInv
<1>1. Init => IInv
  BY InvInit
<1>2. IInv /\ [Next]_vars => IInv'
  BY InvNext
<1> QED
  BY <1>1, <1>2, PTL DEF Spec

(* Every variable keeps its shape; the object stands at most twice in an   *)
(* endpoint's write queue, however its writes, its tracking and the pushes *)
(* follow each other.                                                      *)
THEOREM TypeCorrect == Spec => []TypeOK
<1>1. IInv => TypeOK
  BY DEF IInv
<1> QED
  BY <1>1, Invariance, PTL

(* The revisions of the pushes under way to an endpoint are exactly those  *)
(* it has not pulled, each once, whichever threads' channels carry them.   *)
THEOREM RevisionsAreExact == Spec => []RevisionsExact
<1>1. IInv => RevisionsExact
  BY DEF IInv
<1> QED
  BY <1>1, Invariance, PTL

(* No dirty field is without an entry in the write queue.                  *)
THEOREM DirtyIsQueued == Spec => []DirtyQueued
<1>1. IInv => DirtyQueued
  BY DEF IInv
<1> QED
  BY <1>1, Invariance, PTL

(* The right to the volatiles of a tracked object is in exactly one place. *)
THEOREM VolatilesHaveOneOwner == Spec => []OneVolatileOwner
<1>1. IInv => OneVolatileOwner
  <2> SUFFICES ASSUME VolInv PROVE OneVolatileOwner
    BY DEF IInv
  <2>1. Cardinality({}) = 0
    BY FS_EmptySet
  <2>2. \A x : Cardinality({x}) = 1
    BY FS_Singleton
  <2> QED
    BY <2>1, <2>2 DEF VolInv, OneVolatileOwner
<1> QED
  BY <1>1, Invariance, PTL

(* Whoever may take the object's lock has the last write made under it,    *)
(* until ownership is granted or used that has gone since it was checked.  *)
THEOREM LockedIsFresh == Spec => []LockedFresh
<1>1. IInv => LockedFresh
  BY DEF IInv, FreshInv, Fresh, LockedFresh
<1> QED
  BY <1>1, Invariance, PTL

================================================================================
