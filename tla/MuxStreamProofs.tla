---------------------------- MODULE MuxStreamProofs ----------------------------
(***************************************************************************)
(* Theorems about the resumable main stream, for every ring size, every    *)
(* acknowledgement threshold and every number of connections and losses.   *)
(***************************************************************************)
EXTENDS MuxStream, TLAPS

USE DEF NoConn, NoPos

(* Each side's peer is a side. *)
LEMMA PeerInEnd == \A e \in End : Peer(e) \in End
  BY DEF End, Peer

(* Positions stay inside the ring. *)
LEMMA WrapInRing == \A x \in Int : -G <= x /\ x < 2 * G => Wrap(x) \in 0 .. G-1
  BY GAssumption DEF Wrap

(* The initial state has the right types. *)
LEMMA InitType == Init => TypeOK
<1> SUFFICES ASSUME Init PROVE TypeOK
  OBVIOUS
<1> USE GAssumption, BoundAssumption DEF Init
<1>1. LinkType
  BY DEF LinkType, End, Conn
<1>2. NetType
  BY DEF NetType
<1>3. RingType
  BY DEF RingType, Unit
<1>4. DebtType /\ InType /\ KarmaType
  BY DEF DebtType, InType, KarmaType, InitialKarma
<1>5. OutType
  <2>1. wq \in [End -> SUBSET Writers]
    OBVIOUS
  <2>2. wleft \in [End -> 0 .. MaxPacket] /\ wack \in [End -> Nat]
    OBVIOUS
  <2>3. pc \in [End -> {"idle", "body", "flush"}]
    OBVIOUS
  <2> QED
    BY <2>1, <2>2, <2>3 DEF OutType
<1>6. EndType
  <2>1. losses \in 0 .. MaxLoss
    OBVIOUS
  <2>2. lost \in BOOLEAN
    OBVIOUS
  <2> QED
    BY <2>1, <2>2 DEF EndType
<1> QED
  BY <1>1, <1>2, <1>3, <1>4, <1>5, <1>6 DEF TypeOK

(* Writing a position on a connection. *)
LEMMA HdrType == ASSUME NEW h \in [Conn -> [End -> NoPos .. G-1]], NEW c \in Conn,
                        NEW e \in End, NEW x \in 0 .. G-1
                 PROVE  [h EXCEPT ![c][e] = x] \in [Conn -> [End -> NoPos .. G-1]]
  BY GAssumption

(* The fields of a unit, and how one is made. *)
LEMMA UnitFields == /\ \A u \in Unit : u.n \in Nat /\ u.ack \in Nat /\ u.cum \in Nat
                    /\ \A n, a, s \in Nat : [n |-> n, ack |-> a, cum |-> s] \in Unit
  BY DEF Unit

(* mainw goes to one of its places. *)
LEMMA LoopTestType == \A q, d : LoopTest(q, d) \in {"idle", "body", "flush"}
  BY DEF LoopTest

(* The debt computed in mainr fits the ring. *)
LEMMA OwedType == \A s, r \in 0 .. G-1 : Owed(s, r) \in 0 .. G-1
  BY GAssumption DEF Owed

(* The parts of TypeOK that speak of a group of variables are untouched by *)
(* the steps that leave the group alone.                                   *)
LEMMA TypeUnchanged ==
  /\ LinkType /\ UNCHANGED linkVars => LinkType'
  /\ NetType /\ UNCHANGED net => NetType'
  /\ RingType /\ UNCHANGED ringVars => RingType'
  /\ DebtType /\ UNCHANGED debt => DebtType'
  /\ InType /\ UNCHANGED inVars => InType'
  /\ KarmaType /\ UNCHANGED karma => KarmaType'
  /\ OutType /\ UNCHANGED <<wq, outVars, pc>> => OutType'
  /\ EndType /\ UNCHANGED <<losses, lost>> => EndType'
<1>1. LinkType /\ UNCHANGED linkVars => LinkType'
  BY DEF LinkType, linkVars
<1>2. NetType /\ UNCHANGED net => NetType'
  BY DEF NetType
<1>3. RingType /\ UNCHANGED ringVars => RingType'
  BY DEF RingType, ringVars
<1>4. DebtType /\ UNCHANGED debt => DebtType'
  BY DEF DebtType
<1>5. InType /\ UNCHANGED inVars => InType'
  BY DEF InType, inVars
<1>6. KarmaType /\ UNCHANGED karma => KarmaType'
  BY DEF KarmaType
<1>7. OutType /\ UNCHANGED <<wq, outVars, pc>> => OutType'
  BY DEF OutType, outVars
<1>8. EndType /\ UNCHANGED <<losses, lost>> => EndType'
  BY DEF EndType
<1> QED
  BY <1>1, <1>2, <1>3, <1>4, <1>5, <1>6, <1>7, <1>8

(* Each step keeps every variable in its type: in particular a debt and a  *)
(* ring index are always between 0 and GLOBAL_KARMA - 1.                   *)
LEMMA NextType == TypeOK /\ [Next]_vars => TypeOK'
<1> SUFFICES ASSUME TypeOK, [Next]_vars PROVE TypeOK'
  OBVIOUS
<1> USE GAssumption, BoundAssumption, TypeUnchanged DEF TypeOK
<1>1. CASE MuxConnected
  <2>1. LinkType'
    <3>1. cur["mux"] \in Conn /\ "mux" \in End /\ rpos["mux"] \in 0 .. G-1
      BY DEF LinkType, InType, Conn, End
    <3>2. hdr' \in [Conn -> [End -> NoPos .. G-1]]
      BY <1>1, <3>1, HdrType DEF MuxConnected, LinkType
    <3> QED
      BY <1>1, <3>1, <3>2 DEF MuxConnected, LinkType
  <2> QED
    BY <1>1, <2>1 DEF MuxConnected
<1>2. CASE MuxLose
  <2>1. LinkType'
    BY <1>2 DEF MuxLose, LinkType, End
  <2>2. OutType' /\ EndType'
    BY <1>2 DEF MuxLose, Fails, OutType, EndType, outVars
  <2> QED
    BY <1>2, <2>1, <2>2 DEF MuxLose
<1>3. CASE DemuxLose
  <2>1. LinkType'
    BY <1>3 DEF DemuxLose, LinkType, End
  <2>2. OutType' /\ EndType'
    BY <1>3 DEF DemuxLose, Fails, OutType, EndType, outVars
  <2> QED
    BY <1>3, <2>1, <2>2 DEF DemuxLose
<1>4. ASSUME NEW c \in Conn, DemuxKey(c) PROVE TypeOK'
  <2>1. LinkType'
    <3>1. "demux" \in End /\ "demux" # "mux" /\ rpos["demux"] \in 0 .. G-1
      BY DEF InType, End
    <3>2. hdr' \in [Conn -> [End -> NoPos .. G-1]]
      BY <1>4, <3>1, HdrType DEF DemuxKey, LinkType
    <3> QED
      BY <1>4, <3>1, <3>2 DEF DemuxKey, LinkType, Conn
  <2> QED
    BY <1>4, <2>1 DEF DemuxKey
<1>5. ASSUME NEW c \in Conn, DemuxKeyUnmatched(c) PROVE TypeOK'
  BY <1>5 DEF DemuxKeyUnmatched, EndType
<1>6. ASSUME NEW c \in Conn, PendLose(c) PROVE TypeOK'
  BY <1>6 DEF PendLose, LinkType, EndType
<1>7. ASSUME NEW e \in End, Handshake(e) PROVE TypeOK'
  <2>0. cur[e] \in Conn /\ Peer(e) \in End /\ hdr[cur[e]][Peer(e)] # -1
    BY <1>7, PeerInEnd DEF Handshake, LinkType, Conn
  <2>1. hdr[cur[e]][Peer(e)] \in 0 .. G-1 /\ spos[e] \in 0 .. G-1
    <3>1. hdr[cur[e]][Peer(e)] \in -1 .. G-1
      BY <2>0 DEF LinkType
    <3> QED
      BY <2>0, <3>1 DEF RingType
  <2>2. DebtType'
    BY <1>7, <2>1, OwedType DEF Handshake, DebtType
  <2>3. OutType'
    BY <1>7, LoopTestType DEF Handshake, OutType, outVars
  <2>4. LinkType'
    BY <1>7 DEF Handshake, LinkType, End
  <2> QED
    BY <1>7, <2>2, <2>3, <2>4 DEF Handshake
<1>8. ASSUME NEW e \in End, Recv(e) PROVE TypeOK'
  <2>1. cur[e] \in Conn
    BY <1>8 DEF Recv, Open, LinkType, Conn
  <2>2. /\ net[cur[e]][Peer(e)] \in Seq(Unit)
        /\ Head(net[cur[e]][Peer(e)]) \in Unit
        /\ Tail(net[cur[e]][Peer(e)]) \in Seq(Unit)
    BY <1>8, <2>1, PeerInEnd DEF Recv, NetType
  <2>3. NetType'
    BY <1>8, <2>1, <2>2, PeerInEnd DEF Recv, NetType
  <2>4. InType'
    <3>1. Wrap(rpos[e] + 1) \in 0 .. G-1
      BY WrapInRing DEF InType
    <3>2. rpos' \in [End -> 0 .. G-1]
      BY <1>8, <3>1 DEF Recv, InType
    <3>3. rkarma' \in [End -> Nat]
      BY <1>8 DEF Recv, InType
    <3>4. got' \in [End -> Nat]
      BY <1>8, <2>2, UnitFields DEF Recv, InType
    <3> QED
      BY <3>2, <3>3, <3>4 DEF InType
  <2>5. KarmaType'
    <3>1. Head(net[cur[e]][Peer(e)]).ack \in Nat
      BY <2>2, UnitFields
    <3>2. karma' = [karma EXCEPT ![e] = karma[e] + Head(net[cur[e]][Peer(e)]).ack]
      BY <1>8 DEF Recv
    <3> QED
      BY <3>1, <3>2 DEF KarmaType
  <2>6. OutType'
    BY <1>8 DEF Recv, PushWriters, OutType, Writers, outVars
  <2> QED
    BY <1>8, <2>3, <2>4, <2>5, <2>6 DEF Recv
<1>9. ASSUME NEW e \in End, ClientReady(e) \/ ControlReady(e) PROVE TypeOK'
  <2>1. OutType'
    BY <1>9 DEF ClientReady, ControlReady, PushWriters, OutType, Writers, outVars
  <2> QED
    BY <1>9, <2>1 DEF ClientReady, ControlReady
<1>10. ASSUME NEW e \in End, Writable(e) \/ MainwReturn(e) \/ MainwFlush(e) PROVE TypeOK'
  <2>1. OutType'
    BY <1>10, LoopTestType DEF Writable, MainwReturn, MainwFlush, OutType, outVars
  <2> QED
    BY <1>10, <2>1 DEF Writable, MainwReturn, MainwFlush
<1>11. ASSUME NEW e \in End, PayDebt(e) PROVE TypeOK'
  <2>1. OldestOwed(e) \in 0 .. G-1
    BY WrapInRing DEF OldestOwed, RingType, DebtType
  <2>2. ring[e][OldestOwed(e)] \in Unit
    BY <2>1 DEF RingType
  <2>3. NetType'
    BY <1>11, <2>2 DEF PayDebt, NetType
  <2>4. DebtType'
    BY <1>11 DEF PayDebt, DebtType
  <2> QED
    BY <1>11, <2>3, <2>4 DEF PayDebt
<1>12. ASSUME NEW e \in End, GrabAck(e) PROVE TypeOK'
  <2>1. OutType'
    BY <1>12 DEF GrabAck, OutType, InType, Writers
  <2>2. InType'
    BY <1>12 DEF GrabAck, InType
  <2> QED
    BY <1>12, <2>1, <2>2 DEF GrabAck
<1>13. ASSUME NEW e \in End, GrabData(e) PROVE TypeOK'
  <2>1. OutType'
    BY <1>13 DEF GrabData, OutType, Writers
  <2> QED
    BY <1>13, <2>1 DEF GrabData
<1>14. ASSUME NEW e \in End, WriteOut(e) PROVE TypeOK'
  <2> DEFINE ack == IF wleft[e] = 1 THEN wack[e] ELSE 0
             last == ring[e][Wrap(spos[e] - 1)]
             u == [n |-> sent[e] + 1, ack |-> ack, cum |-> last.cum + ack]
  <2>1. Wrap(spos[e] - 1) \in 0 .. G-1 /\ Wrap(spos[e] + 1) \in 0 .. G-1
    BY WrapInRing DEF RingType
  <2>2. last \in Unit
    BY <2>1 DEF RingType
  <2>3. u \in Unit
    <3>1. sent[e] + 1 \in Nat /\ ack \in Nat
      BY DEF OutType, RingType
    <3>2. last.cum + ack \in Nat
      BY <2>2, <3>1, UnitFields
    <3> QED
      BY <3>1, <3>2, UnitFields
  <2>4. /\ net' = [net EXCEPT ![cur[e]][e] = Append(@, u)]
        /\ ring' = [ring EXCEPT ![e][spos[e]] = u]
    BY <1>14 DEF WriteOut
  <2> HIDE DEF u
  <2>5. NetType'
    BY <2>3, <2>4 DEF NetType
  <2>6. RingType'
    <3>1. spos' = [spos EXCEPT ![e] = Wrap(spos[e] + 1)] /\ sent' = [sent EXCEPT ![e] = sent[e] + 1]
      BY <1>14 DEF WriteOut
    <3>2. ring' \in [End -> [0 .. G-1 -> Unit]]
      BY <2>3, <2>4 DEF RingType
    <3>3. spos' \in [End -> 0 .. G-1]
      BY <2>1, <3>1 DEF RingType
    <3>4. sent' \in [End -> Nat]
      BY <3>1 DEF RingType
    <3> QED
      BY <3>2, <3>3, <3>4 DEF RingType
  <2>7. OutType'
    <3>1. wleft[e] \in 1 .. MaxPacket /\ wleft[e] - 1 \in 0 .. MaxPacket
      BY <1>14, BoundAssumption DEF WriteOut, OutType
    <3>2. wleft' \in [End -> 0 .. MaxPacket]
      BY <1>14, <3>1 DEF WriteOut, OutType
    <3>3. wack' \in [End -> Nat]
      BY <1>14 DEF WriteOut, OutType
    <3>4. pc' \in [End -> {"idle", "body", "flush"}]
      BY <1>14, LoopTestType DEF WriteOut, OutType
    <3>5. wq' = wq
      BY <1>14 DEF WriteOut
    <3> QED
      BY <3>2, <3>3, <3>4, <3>5 DEF OutType
  <2>8. KarmaType'
    BY <1>14 DEF WriteOut, KarmaType
  <2> QED
    BY <1>14, <2>5, <2>6, <2>7, <2>8 DEF WriteOut
<1>15. CASE UNCHANGED vars
  BY <1>15 DEF vars, linkVars, ringVars, inVars, outVars
<1> QED
  BY <1>1, <1>2, <1>3, <1>4, <1>5, <1>6, <1>7, <1>8, <1>9, <1>10, <1>11, <1>12,
     <1>13, <1>14, <1>15 DEF Next, Step

(* The variables keep their types; the debt computed in mainr is always in *)
(* the range mainw can pay from the ring.                                  *)
THEOREM TypeCorrect == Spec => []TypeOK
  BY InitType, NextType, PTL DEF Spec

--------------------------------------------------------------------------------
(* The inductive invariant behind KarmaSafe, DebtExact and InOrder.        *)

(* The unit of ordinal n, for the last G ordinals, is in the ring. *)
At(e, n) == ring[e][Wrap(spos[e] - 1 - (sent[e] - n))]
Lag(e) == sent[e] - got[Peer(e)]
InRing(e, n) == sent[e] - G < n /\ n <= sent[e]

(* The two positions differ by what is unread, modulo the ring. *)
PosInv == \A e \in End : /\ Lag(e) \in 0 .. G-1
                         /\ spos[e] - rpos[Peer(e)] \in {Lag(e), Lag(e) - G}

(* The ring holds the last units written, with a running sum of acks. *)
RingInv == \A e \in End : \A n \in 0 .. sent[e] :
             InRing(e, n) => /\ At(e, n).n = n
                             /\ At(e, n).cum <= At(e, sent[e]).cum
                             /\ InRing(e, n - 1) /\ n > 0
                                  => At(e, n).cum = At(e, n - 1).cum + At(e, n).ack

(* What each side may still send is what its peer acknowledged to it, and  *)
(* a side has put into its stream the karma it no longer holds.            *)
KarmaInv == \A e \in End :
             /\ karma[e] >= 0
             /\ karma[e] = G - 1 - sent[e] + At(Peer(e), got[e]).cum
             /\ got[e] - rkarma[e] = At(e, sent[e]).cum + wack[e]
             /\ wleft[e] = 0 => wack[e] = 0

(* What is on the wire is what comes after the last unit read. *)
NetInv == \A e \in End : LET c == cur[Peer(e)] IN
            c # NoConn =>
              /\ got[Peer(e)] + Len(net[c][e]) <= sent[e]
              /\ \A i \in 1 .. Len(net[c][e]) : net[c][e][i] = At(e, got[Peer(e)] + i)

(* Until a side has read the position its peer sent on the connection they *)
(* share, it has written nothing there and that position is current.       *)
HelloInv == \A e \in End : LET c == cur[e] IN
            (c # NoConn /\ c = cur[Peer(e)] /\ hs[e] # "up") =>
              /\ net[c][e] = <<>>
              /\ hdr[c][Peer(e)] \in {NoPos, rpos[Peer(e)]}

(* A connection the demux has not adopted is unused, and the position the  *)
(* mux announced on its latest one is still current.                       *)
FreshInv == \A c \in Conn :
             /\ hdr[c]["demux"] = NoPos =>
                  net[c]["mux"] = <<>> /\ net[c]["demux"] = <<>> /\ cur["demux"] # c
             /\ c \in pend => hdr[c]["demux"] = NoPos /\ hdr[c]["mux"] # NoPos
             /\ c > cur["mux"] => hdr[c]["demux"] = NoPos /\ hdr[c]["mux"] = NoPos
             /\ c = cur["mux"] =>
                  /\ hs["mux"] = "connecting" <=> hdr[c]["mux"] = NoPos
                  /\ hdr[c]["mux"] = NoPos => hdr[c]["demux"] = NoPos
                  /\ hs["mux"] = "up" => hdr[c]["demux"] # NoPos
                  /\ hdr[c]["demux"] = NoPos => hdr[c]["mux"] \in {NoPos, rpos["mux"]}

(* mainw writes only on a connection whose handshake is over. *)
BodyInv == \A e \in End : pc[e] = "body" => Open(e)

IInv == /\ TypeOK /\ PosInv /\ RingInv /\ KarmaInv /\ NetInv /\ DebtExact
        /\ HelloInv /\ FreshInv /\ BodyInv

(* The two sides are each other's peer. *)
LEMMA PeerPeer == \A e \in End : /\ Peer(e) \in End /\ Peer(e) # e /\ Peer(Peer(e)) = e
  BY DEF End, Peer

(* The two sides by name. *)
LEMMA EndCases == /\ "mux" \in End /\ "demux" \in End /\ "mux" # "demux"
                  /\ \A e \in End : e = "mux" \/ e = "demux"
                  /\ Peer("mux") = "demux" /\ Peer("demux") = "mux"
  BY DEF End, Peer

(* Stepping back k + 1 places from the next position is stepping back k    *)
(* places from this one, and does not reach the place just written.        *)
LEMMA WrapBack == ASSUME NEW s \in 0 .. G-1, NEW k \in 0 .. G-1
                  PROVE  /\ Wrap(s - 1 - k) \in 0 .. G-1
                         /\ Wrap(Wrap(s + 1) - 1 - 0) = s
                         /\ k < G-1 => /\ Wrap(Wrap(s + 1) - 1 - (k + 1)) = Wrap(s - 1 - k)
                                       /\ Wrap(s - 1 - k) # s
<1>1. CASE s + 1 < G
  <2>1. Wrap(s + 1) = s + 1
    BY <1>1, GAssumption DEF Wrap
  <2>2. s + 1 - 1 - 0 = s /\ s + 1 - 1 - (k + 1) = s - 1 - k
    OBVIOUS
  <2>3. Wrap(s) = s
    BY GAssumption DEF Wrap
  <2>4. Wrap(s - 1 - k) \in 0 .. G-1 /\ (k < G-1 => Wrap(s - 1 - k) # s)
    BY GAssumption DEF Wrap
  <2> QED
    BY <2>1, <2>2, <2>3, <2>4
<1>2. CASE s + 1 = G
  <2>1. Wrap(s + 1) = 0
    BY <1>2, GAssumption DEF Wrap
  <2>2. Wrap(0 - 1 - 0) = s
    BY <1>2, GAssumption DEF Wrap
  <2>3. k < G-1 => Wrap(0 - 1 - (k + 1)) = G - 2 - k
    BY <1>2, GAssumption DEF Wrap
  <2>4. k < G-1 => Wrap(s - 1 - k) = G - 2 - k
    BY <1>2, GAssumption DEF Wrap
  <2>5. Wrap(s - 1 - k) \in 0 .. G-1 /\ (k < G-1 => Wrap(s - 1 - k) # s)
    BY GAssumption DEF Wrap
  <2> QED
    BY <2>1, <2>2, <2>3, <2>4, <2>5
<1> QED
  BY <1>1, <1>2, GAssumption

(* The index At uses is a ring index. *)
LEMMA AtType == ASSUME TypeOK, NEW e \in End, NEW n \in Int, InRing(e, n)
                PROVE  At(e, n) \in Unit
<1> DEFINE k == sent[e] - n
<1>1. k \in 0 .. G-1 /\ spos[e] \in 0 .. G-1 /\ ring[e] \in [0 .. G-1 -> Unit]
  BY GAssumption DEF TypeOK, RingType, InRing
<1> HIDE DEF k
<1>2. Wrap(spos[e] - 1 - k) \in 0 .. G-1
  BY <1>1, WrapBack
<1> QED
  BY <1>1, <1>2 DEF At, k

(* A unit is overwritten only by the one G places later. *)
LEMMA AtWrite == ASSUME TypeOK, NEW e \in End, NEW n \in Int, WriteOut(e),
                        sent[e] + 1 - G < n, n <= sent[e]
                 PROVE  At(e, n)' = At(e, n)
<1> DEFINE k == sent[e] - n
<1>1. /\ k \in 0 .. G-1 /\ k < G-1 /\ spos[e] \in 0 .. G-1
      /\ ring \in [End -> [0 .. G-1 -> Unit]]
      /\ sent'[e] - n = k + 1 /\ spos'[e] = Wrap(spos[e] + 1)
  <2>1. /\ sent[e] \in Nat /\ spos[e] \in 0 .. G-1 /\ ring \in [End -> [0 .. G-1 -> Unit]]
        /\ spos \in [End -> 0 .. G-1] /\ sent \in [End -> Nat]
    BY DEF TypeOK, RingType
  <2>2. sent'[e] = sent[e] + 1 /\ spos'[e] = Wrap(spos[e] + 1)
    BY <2>1 DEF WriteOut
  <2>3. \A a, b \in Int : (b + 1) - a = (b - a) + 1
    OBVIOUS
  <2>4. sent'[e] - n = k + 1
    BY <2>1, <2>2, <2>3
  <2>5. k \in 0 .. G-1 /\ k < G-1
    BY <2>1, GAssumption
  <2> QED
    BY <2>1, <2>2, <2>4, <2>5
<1>2. At(e, n)' = ring'[e][Wrap(Wrap(spos[e] + 1) - 1 - (k + 1))]
  BY <1>1 DEF At
<1>3. At(e, n) = ring[e][Wrap(spos[e] - 1 - k)]
  BY DEF At
<1> HIDE DEF k
<1>4. /\ Wrap(Wrap(spos[e] + 1) - 1 - (k + 1)) = Wrap(spos[e] - 1 - k)
      /\ Wrap(spos[e] - 1 - k) # spos[e]
      /\ Wrap(spos[e] - 1 - k) \in 0 .. G-1
  BY <1>1, WrapBack
<1>5. \A i \in 0 .. G-1 : i # spos[e] => ring'[e][i] = ring[e][i]
  BY <1>1 DEF WriteOut
<1> QED
  BY <1>2, <1>3, <1>4, <1>5

(* The unit just written is the last of the ring. *)
LEMMA AtWritten == ASSUME TypeOK, NEW e \in End, WriteOut(e)
                   PROVE  LET ack == IF wleft[e] = 1 THEN wack[e] ELSE 0
                              u == [n |-> sent[e] + 1, ack |-> ack,
                                    cum |-> At(e, sent[e]).cum + ack]
                          IN  /\ At(e, sent[e])' = u
                              /\ net' = [net EXCEPT ![cur[e]][e] = Append(@, u)]
<1>1. /\ sent[e] \in Nat /\ spos[e] \in 0 .. G-1
      /\ ring \in [End -> [0 .. G-1 -> Unit]]
      /\ sent'[e] = sent[e] + 1 /\ spos'[e] = Wrap(spos[e] + 1)
  BY DEF TypeOK, RingType, WriteOut
<1>2. sent'[e] - sent'[e] = 0 /\ sent[e] - sent[e] = 0
  BY <1>1
<1>3. spos[e] - 1 - 0 = spos[e] - 1
  BY <1>1
<1>4. At(e, sent[e]) = ring[e][Wrap(spos[e] - 1)]
  BY <1>2, <1>3 DEF At
<1>5. At(e, sent[e])' = ring'[e][spos[e]]
  BY <1>1, <1>2, WrapBack DEF At
<1> QED
  BY <1>1, <1>4, <1>5 DEF WriteOut

(* Global karma bounds what the peer has not read. *)
LEMMA LagBound == ASSUME TypeOK, PosInv, RingInv, KarmaInv, NEW e \in End
                  PROVE  Lag(e) <= G - 1 - karma[e]
<1> DEFINE p == Peer(e)
<1>1. p \in End /\ Peer(p) = e
  BY PeerPeer
<1>2. /\ sent[e] \in Nat /\ got[e] \in Nat /\ sent[p] \in Nat /\ got[p] \in Nat
      /\ rkarma[p] \in Nat /\ wack[p] \in Nat /\ karma[e] \in Int
  BY <1>1 DEF TypeOK, RingType, InType, OutType, KarmaType
<1>3. Lag(p) = sent[p] - got[e] /\ Lag(e) = sent[e] - got[p]
  BY <1>1 DEF Lag
<1>4. InRing(p, got[e]) /\ InRing(p, sent[p]) /\ got[e] \in 0 .. sent[p]
  BY <1>1, <1>2, <1>3, GAssumption DEF PosInv, InRing
<1>5. At(p, got[e]).cum \in Nat /\ At(p, sent[p]).cum \in Nat
  BY <1>1, <1>2, <1>4, AtType, UnitFields
<1>6. At(p, got[e]).cum <= At(p, sent[p]).cum
  BY <1>1, <1>4 DEF RingInv
<1>7. At(p, sent[p]).cum <= got[p]
  BY <1>1, <1>2, <1>5 DEF KarmaInv
<1>8. karma[e] = G - 1 - sent[e] + At(p, got[e]).cum
  BY DEF KarmaInv
<1> QED
  BY <1>2, <1>3, <1>5, <1>6, <1>7, <1>8, GAssumption

(* The invariant holds before anything was written. *)
LEMMA InitInv == Init => IInv
<1> SUFFICES ASSUME Init PROVE IInv
  OBVIOUS
<1> USE GAssumption, BoundAssumption, PeerPeer DEF Init
<1>1. TypeOK
  BY InitType
<1>2. PosInv
  BY DEF PosInv, Lag
<1>3. /\ \A e \in End : Wrap(spos[e] - 1 - (sent[e] - 0)) \in 0 .. G-1
      /\ \A e \in End : At(e, 0) = [n |-> 0, ack |-> 0, cum |-> 0]
  BY DEF Wrap, At
<1>4. RingInv
  BY <1>3 DEF RingInv, InRing
<1>5. KarmaInv
  BY <1>3 DEF KarmaInv, InitialKarma
<1>6. NetInv
  BY DEF NetInv, Conn, End, Peer
<1>7. DebtExact /\ HelloInv /\ BodyInv
  BY EndCases DEF DebtExact, HelloInv, BodyInv
<1>8. FreshInv
  BY EndCases DEF FreshInv, Conn
<1> QED
  BY <1>1, <1>2, <1>4, <1>5, <1>6, <1>7, <1>8 DEF IInv

(* What each part of the invariant depends on. *)
LEMMA InvUnchanged ==
  /\ PosInv /\ UNCHANGED <<sent, got, spos, rpos>> => PosInv'
  /\ RingInv /\ UNCHANGED ringVars => RingInv'
  /\ KarmaInv /\ UNCHANGED <<karma, ringVars, got, rkarma, wack, wleft>> => KarmaInv'
  /\ NetInv /\ UNCHANGED <<cur, got, net, ringVars>> => NetInv'
  /\ DebtExact /\ UNCHANGED <<cur, hs, got, net, debt, sent>> => DebtExact'
  /\ HelloInv /\ UNCHANGED <<cur, hs, net, hdr, rpos>> => HelloInv'
  /\ FreshInv /\ UNCHANGED <<cur, hs, pend, net, hdr, rpos>> => FreshInv'
  /\ BodyInv /\ UNCHANGED <<cur, hs, pc>> => BodyInv'
<1>1. PosInv /\ UNCHANGED <<sent, got, spos, rpos>> => PosInv'
  BY DEF PosInv, Lag
<1>2. RingInv /\ UNCHANGED ringVars => RingInv'
  BY DEF RingInv, ringVars, At, InRing
<1>3. KarmaInv /\ UNCHANGED <<karma, ringVars, got, rkarma, wack, wleft>> => KarmaInv'
  BY DEF KarmaInv, ringVars, At
<1>4. NetInv /\ UNCHANGED <<cur, got, net, ringVars>> => NetInv'
  BY DEF NetInv, ringVars, At
<1>5. DebtExact /\ UNCHANGED <<cur, hs, got, net, debt, sent>> => DebtExact'
  BY DEF DebtExact
<1>6. HelloInv /\ UNCHANGED <<cur, hs, net, hdr, rpos>> => HelloInv'
  BY DEF HelloInv
<1>7. FreshInv /\ UNCHANGED <<cur, hs, pend, net, hdr, rpos>> => FreshInv'
  BY DEF FreshInv
<1>8. BodyInv /\ UNCHANGED <<cur, hs, pc>> => BodyInv'
  BY DEF BodyInv, Open
<1> QED
  BY <1>1, <1>2, <1>3, <1>4, <1>5, <1>6, <1>7, <1>8

(* The mux writes its header on a new connection. *)
LEMMA MuxConnectedInv == ASSUME IInv, MuxConnected, TypeOK' PROVE IInv'
<1> USE InvUnchanged DEF IInv
<1>1. PosInv' /\ RingInv' /\ KarmaInv' /\ NetInv'
  BY DEF MuxConnected, ringVars, inVars, outVars
<1>2. /\ cur["mux"] \in Conn /\ hdr[cur["mux"]]["mux"] = NoPos
      /\ hdr[cur["mux"]]["demux"] = NoPos /\ cur["demux"] # cur["mux"]
  BY EndCases DEF MuxConnected, FreshInv, TypeOK, LinkType, Conn
<1>3. DebtExact' /\ HelloInv'
  BY <1>2, EndCases DEF MuxConnected, DebtExact, HelloInv
<1>4. FreshInv'
  <2>1. hs' = [hs EXCEPT !["mux"] = "hello"] /\ hs'["mux"] = "hello"
    BY EndCases DEF MuxConnected, TypeOK, LinkType
  <2>2. \A c \in Conn : hdr'[c]["demux"] = hdr[c]["demux"]
    BY EndCases DEF MuxConnected, TypeOK, LinkType
  <2>3. \A c \in Conn : hdr'[c]["mux"] = IF c = cur["mux"] THEN rpos["mux"] ELSE hdr[c]["mux"]
    BY EndCases DEF MuxConnected, TypeOK, LinkType
  <2>4. rpos["mux"] # NoPos
    BY EndCases, GAssumption DEF TypeOK, InType
  <2>5. /\ pend' = pend \cup {cur["mux"]} /\ cur' = cur /\ net' = net /\ rpos' = rpos
        /\ cur["mux"] \in Int
    BY EndCases DEF MuxConnected, inVars, TypeOK, LinkType
  <2> SUFFICES ASSUME NEW c \in Conn PROVE FreshInv!(c)'
    BY DEF FreshInv
  <2>6. CASE c = cur["mux"]
    BY <1>2, <2>1, <2>2, <2>3, <2>4, <2>5, <2>6 DEF FreshInv
  <2>7. CASE c # cur["mux"]
    BY <1>2, <2>1, <2>2, <2>3, <2>4, <2>5, <2>7 DEF FreshInv
  <2> QED
    BY <2>6, <2>7
<1>5. BodyInv'
  BY EndCases DEF MuxConnected, BodyInv, Open, TypeOK, LinkType
<1> QED
  BY <1>1, <1>3, <1>4, <1>5

(* The mux gives a connection up and opens the next, which nobody has used. *)
LEMMA MuxLoseInv == ASSUME IInv, MuxLose, TypeOK' PROVE IInv'
<1> USE InvUnchanged DEF IInv
<1>1. PosInv' /\ RingInv' /\ KarmaInv'
  BY DEF MuxLose, ringVars, inVars, outVars
<1> DEFINE d == cur["mux"] + 1
<1>2. /\ d \in Conn /\ d > cur["mux"] /\ cur'["mux"] = d /\ cur'["demux"] = cur["demux"]
      /\ hs'["mux"] = "connecting" /\ hs'["demux"] = hs["demux"]
      /\ pc'["mux"] = "idle" /\ pc'["demux"] = pc["demux"]
  <2>1. cur["mux"] \in 0 .. Conns /\ cur["mux"] < Conns
    BY EndCases DEF MuxLose, TypeOK, LinkType
  <2>2. d \in Conn /\ d > cur["mux"]
    BY <2>1, BoundAssumption DEF Conn
  <2> QED
    BY <2>2, EndCases DEF MuxLose, TypeOK, LinkType, OutType
<1>3. /\ hdr[d]["demux"] = NoPos /\ hdr[d]["mux"] = NoPos
      /\ net[d]["mux"] = <<>> /\ net[d]["demux"] = <<>> /\ cur["demux"] # d
  BY <1>2 DEF FreshInv
<1> HIDE DEF d
<1>4. NetInv'
  <2>1. \A e \in End, n \in Int : At(e, n)' = At(e, n)
    BY DEF MuxLose, ringVars, At
  <2>2. got["mux"] <= sent["demux"] /\ got["mux"] \in Nat
    <3>1. sent["demux"] - got["mux"] \in 0 .. G-1
      BY EndCases DEF PosInv, Lag
    <3>2. sent["demux"] \in Nat /\ got["mux"] \in Nat
      BY EndCases DEF TypeOK, InType, RingType
    <3> QED
      BY <3>1, <3>2
  <2>3. LET c == cur'["mux"] IN /\ got["mux"] + Len(net[c]["demux"]) <= sent["demux"]
                                /\ Len(net[c]["demux"]) = 0
    BY <1>2, <1>3, <2>2
  <2> QED
    BY <1>2, <2>1, <2>3, EndCases DEF MuxLose, NetInv, ringVars, inVars, At
<1>5. DebtExact' /\ HelloInv'
  BY <1>2, <1>3, EndCases DEF DebtExact, HelloInv
<1>6. FreshInv'
  <2>1. \A c \in Conn : c > d => c > cur["mux"]
    BY <1>2, EndCases DEF TypeOK, LinkType, Conn
  <2> QED
    BY <1>2, <1>3, <2>1, EndCases DEF MuxLose, FreshInv
<1>7. BodyInv'
  BY <1>2, EndCases DEF BodyInv, Open
<1> QED
  BY <1>1, <1>4, <1>5, <1>6, <1>7

(* The demux gives a connection up. *)
LEMMA DemuxLoseInv == ASSUME IInv, DemuxLose, TypeOK' PROVE IInv'
<1> USE InvUnchanged DEF IInv
<1>1. PosInv' /\ RingInv' /\ KarmaInv'
  BY DEF DemuxLose, ringVars, inVars, outVars
<1>2. /\ cur'["demux"] = NoConn /\ cur'["mux"] = cur["mux"] /\ cur["mux"] # NoConn
      /\ pc'["demux"] = "idle" /\ pc'["mux"] = pc["mux"]
  BY EndCases DEF DemuxLose, TypeOK, LinkType, OutType
<1>3. NetInv'
  <2>1. \A e \in End, n \in Int : At(e, n)' = At(e, n)
    BY DEF DemuxLose, ringVars, At
  <2> QED
    BY <1>2, <2>1, EndCases DEF DemuxLose, NetInv, ringVars, inVars, At
<1>4. DebtExact' /\ HelloInv'
  BY <1>2, EndCases DEF DebtExact, HelloInv
<1>5. FreshInv'
  BY <1>2, EndCases DEF DemuxLose, FreshInv, Conn, inVars
<1>6. BodyInv'
  BY <1>2, EndCases DEF DemuxLose, BodyInv, Open
<1> QED
  BY <1>1, <1>3, <1>4, <1>5, <1>6

(* The demux switches its context to another connection. *)
LEMMA DemuxKeyInv == ASSUME IInv, TypeOK', NEW d \in Conn, DemuxKey(d) PROVE IInv'
<1> USE InvUnchanged DEF IInv
<1>1. PosInv' /\ RingInv' /\ KarmaInv'
  BY DEF DemuxKey, ringVars, inVars, outVars
<1>2. /\ cur'["demux"] = d /\ cur'["mux"] = cur["mux"] /\ d # NoConn
      /\ hs'["demux"] = "hello" /\ hs'["mux"] = hs["mux"]
      /\ pend' = pend \ {d} /\ net' = net /\ rpos' = rpos /\ pc' = pc
      /\ pc["demux"] = "idle"
  BY EndCases DEF DemuxKey, inVars, TypeOK, LinkType, Conn
<1>3. /\ hdr[d]["demux"] = NoPos /\ hdr[d]["mux"] # NoPos
      /\ net[d]["mux"] = <<>> /\ net[d]["demux"] = <<>>
      /\ d = cur["mux"] => hs["mux"] = "hello" /\ hdr[d]["mux"] = rpos["mux"]
  BY EndCases DEF DemuxKey, FreshInv, TypeOK, LinkType
<1>4. /\ \A c \in Conn : hdr'[c]["mux"] = hdr[c]["mux"]
      /\ \A c \in Conn : hdr'[c]["demux"] = IF c = d THEN rpos["demux"] ELSE hdr[c]["demux"]
      /\ rpos["demux"] # NoPos
  BY EndCases, GAssumption DEF DemuxKey, TypeOK, LinkType, InType
<1>5. NetInv'
  <2>1. \A e \in End, n \in Int : At(e, n)' = At(e, n)
    BY DEF DemuxKey, ringVars, At
  <2>2. got["demux"] <= sent["mux"] /\ got["demux"] \in Nat
    <3>1. sent["mux"] - got["demux"] \in 0 .. G-1
      BY EndCases DEF PosInv, Lag
    <3>2. sent["mux"] \in Nat /\ got["demux"] \in Nat
      BY EndCases DEF TypeOK, InType, RingType
    <3> QED
      BY <3>1, <3>2
  <2>3. got["demux"] + Len(net[d]["mux"]) <= sent["mux"] /\ Len(net[d]["mux"]) = 0
    BY <1>3, <2>2
  <2> QED
    BY <1>2, <2>1, <2>3, EndCases DEF DemuxKey, NetInv, ringVars, inVars, At
<1>6. DebtExact'
  BY <1>2, <1>3, EndCases DEF DebtExact
<1>7. HelloInv'
  BY <1>2, <1>3, <1>4, EndCases DEF HelloInv
<1>8. FreshInv'
  BY <1>2, <1>3, <1>4, EndCases DEF FreshInv
<1>9. BodyInv'
  BY <1>2, EndCases DEF BodyInv, Open
<1> QED
  BY <1>1, <1>5, <1>6, <1>7, <1>8, <1>9

(* A connection is lost before its key is read, or is not recognised. *)
LEMMA PendLoseInv == ASSUME IInv, TypeOK', NEW d \in Conn,
                            PendLose(d) \/ DemuxKeyUnmatched(d)
                     PROVE  IInv'
<1> USE InvUnchanged DEF IInv
<1>1. FreshInv'
  BY DEF PendLose, DemuxKeyUnmatched, FreshInv, linkVars, inVars
<1> QED
  BY <1>1 DEF PendLose, DemuxKeyUnmatched, linkVars, ringVars, inVars, outVars

(* The debt is computed when the peer's position is read. *)
LEMMA HandshakeInv == ASSUME IInv, TypeOK', NEW e \in End, Handshake(e) PROVE IInv'
<1> USE InvUnchanged DEF IInv
<1> DEFINE c == cur[e]
           p == Peer(e)
<1>1. PosInv' /\ RingInv' /\ KarmaInv' /\ NetInv'
  BY DEF Handshake, ringVars, inVars, outVars
<1>2. /\ c # NoConn /\ c \in Conn /\ hs[e] = "hello" /\ hs'[e] = "up" /\ hs'[p] = hs[p]
      /\ hdr[c][p] # NoPos /\ debt'[e] = Owed(spos[e], hdr[c][p]) /\ debt'[p] = debt[p]
      /\ p \in End /\ Peer(p) = e
      /\ \A x \in End : x = e \/ x = p
  BY PeerPeer, EndCases DEF Handshake, TypeOK, LinkType, DebtType, Conn, Peer
<1>3. cur[p] = c => net[c][e] = <<>> /\ hdr[c][p] = rpos[p]
  BY <1>2 DEF HelloInv
<1>4. cur[p] = c => debt'[e] = Lag(e)
  <2>1. Lag(e) \in 0 .. G-1 /\ spos[e] - rpos[p] \in {Lag(e), Lag(e) - G}
    BY DEF PosInv
  <2>2. spos[e] \in 0 .. G-1 /\ rpos[p] \in 0 .. G-1
    BY <1>2 DEF TypeOK, RingType, InType
  <2>3. Owed(spos[e], rpos[p]) = Lag(e)
    BY <2>1, <2>2, GAssumption DEF Owed
  <2> QED
    BY <1>2, <1>3, <2>3
<1>5. DebtExact'
  <2>1. cur[p] = c => got[p] + Len(net[c][e]) + debt'[e] = sent[e]
    <3>1. got[p] \in Nat /\ sent[e] \in Nat /\ Lag(e) = sent[e] - got[p]
      BY <1>2 DEF TypeOK, InType, RingType, Lag
    <3> QED
      BY <1>3, <1>4, <3>1
  <2> QED
    BY <1>2, <2>1 DEF Handshake, DebtExact, ringVars, inVars
<1>6. HelloInv'
  BY <1>2 DEF Handshake, HelloInv, inVars
<1>7. FreshInv'
  BY <1>2, EndCases DEF Handshake, FreshInv, inVars
<1>8. BodyInv'
  BY <1>2 DEF Handshake, BodyInv, Open, TypeOK, OutType
<1> QED
  BY <1>1, <1>5, <1>6, <1>7, <1>8

(* push_writer starts mainw only on an open connection. *)
LEMMA PushBody == ASSUME BodyInv, NEW e \in End, NEW new, PushWriters(e, new),
                         TypeOK, UNCHANGED <<cur, hs>>
                  PROVE  BodyInv'
  BY DEF PushWriters, BodyInv, Open, TypeOK, OutType

(* mainr reads the next unit and applies its acknowledgement. *)
LEMMA RecvInv == ASSUME IInv, TypeOK', NEW e \in End, Recv(e)
                 PROVE  IInv' /\ got'[e] = got[e] + 1
<1> USE DEF IInv
<1> DEFINE c == cur[e]
           p == Peer(e)
           q == net[c][p]
           u == Head(q)
<1>1. /\ c # NoConn /\ c \in Conn /\ hs[e] = "up" /\ p \in End /\ p # e /\ Peer(p) = e
      /\ \A x \in End : x = e \/ x = p
      /\ q \in Seq(Unit) /\ q # <<>> /\ Len(q) \in Nat /\ Len(q) >= 1 /\ u = q[1]
  <2>1. c # NoConn /\ c \in Conn /\ hs[e] = "up" /\ p \in End /\ p # e /\ Peer(p) = e
    BY PeerPeer DEF Recv, Open, TypeOK, LinkType, Conn
  <2>2. \A x \in End : x = e \/ x = p
    BY DEF End, Peer
  <2>3. q \in Seq(Unit) /\ q # <<>>
    BY <2>1 DEF Recv, TypeOK, NetType
  <2> QED
    BY <2>1, <2>2, <2>3
<1>2. /\ net'[c][p] = Tail(q)
      /\ \A d \in Conn, x \in End : (d # c \/ x # p) => net'[d][x] = net[d][x]
      /\ got'[e] = u.n /\ got'[p] = got[p]
      /\ rpos'[e] = Wrap(rpos[e] + 1) /\ rpos'[p] = rpos[p]
      /\ rkarma'[e] = rkarma[e] + 1 /\ rkarma'[p] = rkarma[p]
      /\ karma'[e] = karma[e] + u.ack /\ karma'[p] = karma[p]
      /\ UNCHANGED <<linkVars, ringVars, debt, outVars>>
  <2>1. /\ net'[c][p] = Tail(q)
        /\ \A d \in Conn, x \in End : (d # c \/ x # p) => net'[d][x] = net[d][x]
    BY <1>1 DEF Recv, TypeOK, NetType
  <2>2. /\ got'[e] = u.n /\ got'[p] = got[p]
        /\ rpos'[e] = Wrap(rpos[e] + 1) /\ rpos'[p] = rpos[p]
        /\ rkarma'[e] = rkarma[e] + 1 /\ rkarma'[p] = rkarma[p]
    BY <1>1 DEF Recv, TypeOK, InType
  <2>3. karma'[e] = karma[e] + u.ack /\ karma'[p] = karma[p]
    BY <1>1 DEF Recv, TypeOK, KarmaType
  <2> QED
    BY <2>1, <2>2, <2>3 DEF Recv
<1>3. /\ \A x \in End, n \in Int : At(x, n)' = At(x, n)
      /\ sent' = sent /\ spos' = spos
  BY <1>2 DEF ringVars, At
<1>4. /\ sent[p] \in Nat /\ got[e] \in Nat /\ sent[e] \in Nat /\ got[p] \in Nat
      /\ spos[p] \in 0 .. G-1 /\ rpos[e] \in 0 .. G-1 /\ karma[e] \in Int
      /\ rkarma[e] \in Nat /\ wack[e] \in Nat
  BY <1>1 DEF TypeOK, RingType, InType, KarmaType, OutType
<1>5. /\ got[e] + Len(q) <= sent[p]
      /\ \A i \in 1 .. Len(q) : q[i] = At(p, got[e] + i)
  BY <1>1 DEF NetInv
<1>6. Lag(p) = sent[p] - got[e] /\ Lag(p) \in 0 .. G-1 /\ Lag(p) >= 1
  <2>1. Lag(p) = sent[p] - got[e]
    BY <1>1 DEF Lag
  <2>2. Lag(p) \in 0 .. G-1
    BY <1>1 DEF PosInv
  <2> QED
    BY <1>1, <1>4, <1>5, <2>1, <2>2
<1>7. u = At(p, got[e] + 1)
  BY <1>1, <1>5
<1>8. InRing(p, got[e] + 1) /\ InRing(p, got[e]) /\ got[e] + 1 - 1 = got[e]
  BY <1>4, <1>6, GAssumption DEF InRing
<1>9. u.n = got[e] + 1 /\ At(p, got[e] + 1).cum = At(p, got[e]).cum + u.ack
  <2>1. got[e] + 1 \in 0 .. sent[p] /\ got[e] + 1 > 0
    BY <1>4, <1>6
  <2>2. \A n \in 0 .. sent[p] :
          InRing(p, n) => /\ At(p, n).n = n
                          /\ InRing(p, n - 1) /\ n > 0
                               => At(p, n).cum = At(p, n - 1).cum + At(p, n).ack
    BY <1>1 DEF RingInv
  <2> DEFINE n == got[e] + 1
  <2>3. n \in 0 .. sent[p] /\ InRing(p, n) /\ InRing(p, n - 1) /\ n > 0 /\ n - 1 = got[e]
    BY <1>4, <1>6, <2>1, GAssumption DEF InRing
  <2> HIDE DEF n
  <2>4. At(p, n).n = n /\ At(p, n).cum = At(p, n - 1).cum + At(p, n).ack
    BY <2>2, <2>3
  <2> QED
    BY <1>7, <2>3, <2>4 DEF n
<1>10. /\ At(p, got[e]).cum \in Nat /\ u.ack \in Nat
  BY <1>1, <1>4, <1>7, <1>8, AtType, UnitFields
<1> HIDE DEF c, p, q, u
<1>11. PosInv'
  <2>1. Lag(p)' = Lag(p) - 1 /\ Lag(e)' = Lag(e)
    <3>1. Lag(p)' = sent'[p] - got'[e] /\ Lag(e)' = sent'[e] - got'[p]
      BY <1>1 DEF Lag, p
    <3>2. sent'[p] = sent[p] /\ got'[e] = got[e] + 1 /\ got'[p] = got[p] /\ sent'[e] = sent[e]
      BY <1>1, <1>2, <1>3, <1>9
    <3>3. Lag(p) = sent[p] - got[e] /\ Lag(e) = sent[e] - got[p]
      BY <1>1 DEF Lag, p
    <3>4. \A a, b \in Int : a - (b + 1) = (a - b) - 1
      OBVIOUS
    <3> QED
      BY <1>4, <3>1, <3>2, <3>3, <3>4
  <2>2. spos[p] - rpos[e] \in {Lag(p), Lag(p) - G}
    BY <1>1 DEF PosInv
  <2>3. spos[p] - Wrap(rpos[e] + 1) \in {Lag(p) - 1, Lag(p) - 1 - G}
    BY <1>4, <1>6, <2>2, GAssumption DEF Wrap
  <2>4. Lag(p) - 1 \in 0 .. G-1
    BY <1>6, GAssumption
  <2> QED
    BY <1>1, <1>2, <1>3, <2>1, <2>3, <2>4 DEF PosInv, p
<1>12. RingInv'
  BY <1>2, InvUnchanged
<1>13. KarmaInv'
  <2>1. /\ karma'[e] >= 0
        /\ karma'[e] = G - 1 - sent[e] + At(p, got[e] + 1).cum
        /\ (got[e] + 1) - rkarma'[e] = At(e, sent[e]).cum + wack[e]
    <3>1. /\ karma[e] >= 0 /\ karma[e] = G - 1 - sent[e] + At(p, got[e]).cum
          /\ got[e] - rkarma[e] = At(e, sent[e]).cum + wack[e]
      BY DEF KarmaInv, p
    <3>2. (got[e] + 1) - (rkarma[e] + 1) = got[e] - rkarma[e]
      BY <1>4
    <3>3. karma'[e] = karma[e] + u.ack /\ rkarma'[e] = rkarma[e] + 1
      BY <1>2
    <3>4. karma'[e] >= 0 /\ karma'[e] = G - 1 - sent[e] + (At(p, got[e]).cum + u.ack)
      BY <1>4, <1>10, <3>1, <3>3, GAssumption
    <3> QED
      BY <1>9, <3>1, <3>2, <3>3, <3>4
  <2>2. /\ At(e, sent[e])' = At(e, sent[e]) /\ At(p, sent[p])' = At(p, sent[p])
        /\ At(p, got[e])' = At(p, got[e] + 1)
        /\ At(e, got[p])' = At(e, got[p])
    BY <1>1, <1>2, <1>4, <1>9 DEF At, ringVars, TypeOK, RingType
  <2>3. KarmaInv!(p)'
    BY <1>1, <1>2, <1>3, <2>2 DEF KarmaInv, outVars
  <2>4. KarmaInv!(e)'
    <3>1. got'[e] = got[e] + 1 /\ sent' = sent /\ wack' = wack /\ wleft' = wleft
      BY <1>2, <1>3, <1>9 DEF outVars
    <3>2. wleft[e] = 0 => wack[e] = 0
      BY DEF KarmaInv
    <3>3. /\ (karma[e] >= 0)'
          /\ (karma[e] = G - 1 - sent[e] + At(Peer(e), got[e]).cum)'
      BY <2>1, <2>2, <3>1 DEF p
    <3>4. (got[e] - rkarma[e] = At(e, sent[e]).cum + wack[e])'
      <4>1. got'[e] - rkarma'[e] = At(e, sent[e]).cum + wack[e]
        BY <2>1, <3>1
      <4>2. (At(e, sent[e]).cum)' = At(e, sent[e]).cum /\ wack'[e] = wack[e]
        BY <2>2, <3>1
      <4> QED
        BY <4>1, <4>2
    <3> QED
      BY <3>1, <3>2, <3>3, <3>4
  <2> QED
    BY <1>1, <2>3, <2>4 DEF KarmaInv
<1>14. NetInv'
  <2>1. Len(Tail(q)) = Len(q) - 1 /\ \A i \in 1 .. Len(Tail(q)) : Tail(q)[i] = q[i + 1]
    BY <1>1
  <2>2. got'[e] + Len(Tail(q)) <= sent[p]
    BY <1>1, <1>2, <1>4, <1>5, <1>9, <2>1
  <2>3. \A i \in 1 .. Len(Tail(q)) : Tail(q)[i] = At(p, got[e] + i)'
    <3> SUFFICES ASSUME NEW i \in 1 .. Len(Tail(q)) PROVE Tail(q)[i] = At(p, got[e] + i)'
      OBVIOUS
    <3>1. i + 1 \in 1 .. Len(q) /\ got[e] + (i + 1) = got'[e] + i
      <4>1. Len(Tail(q)) = Len(q) - 1 /\ Len(q) \in Nat
        BY <1>1, <2>1
      <4>2. got'[e] = got[e] + 1
        BY <1>2, <1>9
      <4>3. i \in Int /\ 1 <= i /\ i <= Len(q) - 1
        BY <4>1
      <4>4. \A a, b \in Int : a + (b + 1) = (a + 1) + b
        OBVIOUS
      <4>5. \A m \in Int : i <= m - 1 => i + 1 \in 1 .. m
        BY <4>3
      <4>6. i + 1 \in 1 .. Len(q)
        BY <4>1, <4>3, <4>5
      <4> QED
        BY <1>4, <4>2, <4>3, <4>4, <4>6
    <3>2. q[i + 1] = At(p, got[e] + (i + 1))
      BY <1>5, <3>1
    <3>3. At(p, got[e] + i)' = At(p, got[e] + (i + 1))
      BY <1>1, <1>2, <3>1 DEF ringVars, At
    <3>4. Tail(q)[i] = q[i + 1]
      BY <2>1
    <3> QED
      BY <3>2, <3>3, <3>4
  <2>4. NetInv!(p)'
    BY <1>1, <1>2, <1>3, <2>2, <2>3 DEF linkVars, c
  <2>5. NetInv!(e)'
    <3>1. cur[p] # NoConn => cur[p] \in Conn /\ net'[cur[p]][e] = net[cur[p]][e]
      BY <1>1, <1>2 DEF TypeOK, LinkType, Conn
    <3> QED
      BY <1>1, <1>2, <1>3, <3>1 DEF NetInv, linkVars, p, ringVars, At
  <2> QED
    BY <1>1, <2>4, <2>5 DEF NetInv
<1>15. DebtExact'
  <2>1. Len(Tail(q)) = Len(q) - 1
    BY <1>1
  <2>2. (cur[p] = c /\ hs[p] = "up") => got'[e] + Len(Tail(q)) + debt[p] = sent[p]
    <3>1. debt[p] \in Int
      BY <1>1 DEF TypeOK, DebtType
    <3>2. (cur[p] = c /\ hs[p] = "up") => got[e] + Len(q) + debt[p] = sent[p]
      BY <1>1 DEF DebtExact, c, q
    <3>3. got'[e] = got[e] + 1 /\ Len(q) \in Nat
      BY <1>1, <1>2, <1>9
    <3> SUFFICES ASSUME cur[p] = c, hs[p] = "up"
                 PROVE  got'[e] + Len(Tail(q)) + debt[p] = sent[p]
      OBVIOUS
    <3>4. got[e] + Len(q) + debt[p] = sent[p]
      BY <3>2
    <3>5. \A a, b, m \in Int : (a + 1) + (m - 1) + b = a + m + b
      OBVIOUS
    <3>6. (got[e] + 1) + (Len(q) - 1) + debt[p] = sent[p]
      <4>1. got[e] \in Int /\ Len(q) \in Int /\ debt[p] \in Int
        BY <1>4, <3>1, <3>3, <3>4
      <4>2. (got[e] + 1) + (Len(q) - 1) + debt[p] = got[e] + Len(q) + debt[p]
        BY <3>5, <4>1
      <4> QED
        BY <3>1, <3>3, <3>4, <4>2
    <3> QED
      BY <2>1, <3>3, <3>6
  <2>3. cur[p] = c => net'[c][e] = net[c][e]
    BY <1>1, <1>2
  <2> QED
    BY <1>1, <1>2, <1>3, <2>2, <2>3 DEF DebtExact, linkVars, c, p
<1>16. HelloInv'
  BY <1>1, <1>2 DEF HelloInv, linkVars, c, p, q
<1>17. FreshInv'
  <2>1. \A d \in Conn, x \in End : net[d][x] = <<>> => net'[d][x] = <<>>
    BY <1>1, <1>2 DEF c, q
  <2>2. e = "mux" => hdr[c]["demux"] # NoPos
    BY <1>1, EndCases DEF FreshInv, c, p, q
  <2>3. rpos'["mux"] = rpos["mux"] \/ (e = "mux" /\ c = cur["mux"])
    BY <1>1, <1>2, EndCases DEF c
  <2> QED
    BY <2>1, <2>2, <2>3, <1>2, EndCases DEF FreshInv, linkVars
<1>18. BodyInv'
  BY <1>2, PushBody DEF Recv, linkVars
<1> QED
  BY <1>2, <1>9, <1>11, <1>12, <1>13, <1>14, <1>15, <1>16, <1>17, <1>18

(* Queueing a writer, and the steps of mainw that only move pc. *)
LEMMA QueueInv == ASSUME IInv, TypeOK', NEW e \in End,
                         \/ ClientReady(e) \/ ControlReady(e) \/ Writable(e)
                         \/ MainwReturn(e) \/ MainwFlush(e)
                  PROVE  IInv'
<1> USE DEF IInv
<1>1. UNCHANGED <<linkVars, net, ringVars, debt, karma, inVars, outVars>>
  BY DEF ClientReady, ControlReady, Writable, MainwReturn, MainwFlush
<1>2. BodyInv'
  <2>1. CASE ClientReady(e) \/ ControlReady(e)
    BY <1>1, <2>1, PushBody DEF ClientReady, ControlReady, linkVars
  <2>2. CASE Writable(e) \/ MainwReturn(e) \/ MainwFlush(e)
    BY <1>1, <2>2 DEF Writable, MainwReturn, MainwFlush, BodyInv, Open, TypeOK, OutType, linkVars
  <2> QED
    BY <2>1, <2>2
<1> QED
  BY <1>1, <1>2, InvUnchanged DEF linkVars, ringVars, inVars, outVars

(* A packet is put into wout; an acknowledgement moves from rkarma to wack. *)
LEMMA GrabInv == ASSUME IInv, TypeOK', NEW e \in End, GrabAck(e) \/ GrabData(e)
                 PROVE  IInv'
<1> USE DEF IInv
<1>1. /\ UNCHANGED <<linkVars, net, ringVars, debt, karma, rpos, got, pc>>
  BY DEF GrabAck, GrabData, inVars
<1>2. KarmaInv'
  <2>1. wack[e] = 0 /\ wleft[e] = 0 /\ rkarma[e] \in Nat /\ got[e] \in Nat
    BY DEF GrabAck, GrabData, KarmaInv, TypeOK, InType
  <2>2. \A x \in End : /\ At(x, sent[x])' = At(x, sent[x])
                       /\ At(Peer(x), got[x])' = At(Peer(x), got[x])
    BY <1>1 DEF At, ringVars
  <2>3. \A x \in End : x # e => /\ rkarma'[x] = rkarma[x] /\ wack'[x] = wack[x]
                                /\ wleft'[x] = wleft[x]
    BY DEF GrabAck, GrabData, inVars, TypeOK, OutType, InType
  <2>4. \A x \in End : x # e => KarmaInv!(x)'
    BY <1>1, <2>2, <2>3 DEF KarmaInv, ringVars
  <2>5. CASE GrabAck(e)
    <3>1. /\ rkarma'[e] = 0 /\ wack'[e] = rkarma[e] /\ wleft'[e] > 0
      BY <2>5 DEF GrabAck, TypeOK, OutType, InType
    <3>2. got[e] - rkarma[e] = At(e, sent[e]).cum + 0
      BY <2>1 DEF KarmaInv
    <3>3. InRing(e, sent[e]) /\ sent[e] \in Nat
      BY GAssumption DEF InRing, TypeOK, RingType
    <3>4. At(e, sent[e]).cum \in Nat
      BY <3>3, AtType, UnitFields
    <3>5. got[e] - 0 = At(e, sent[e]).cum + rkarma[e]
      BY <2>1, <3>2, <3>4
    <3>6. KarmaInv!(e)'
      BY <1>1, <2>2, <3>1, <3>5 DEF KarmaInv, ringVars
    <3> QED
      BY <2>4, <3>6 DEF KarmaInv
  <2>6. CASE GrabData(e)
    <3>1. rkarma' = rkarma /\ wack'[e] = 0
      BY <2>6 DEF GrabData, inVars, TypeOK, OutType
    <3>2. KarmaInv!(e)'
      BY <1>1, <2>1, <2>2, <3>1 DEF KarmaInv, ringVars
    <3> QED
      BY <2>4, <3>2 DEF KarmaInv
  <2> QED
    BY <2>5, <2>6
<1> QED
  BY <1>1, <1>2, InvUnchanged DEF linkVars, ringVars

(* A unit of the ring is resent: it is the one after those on the wire. *)
LEMMA PayDebtInv == ASSUME IInv, TypeOK', NEW e \in End, PayDebt(e) PROVE IInv'
<1> USE DEF IInv
<1> DEFINE c == cur[e]
           p == Peer(e)
           u == ring[e][OldestOwed(e)]
           q == net[c][e]
<1>1. /\ UNCHANGED <<linkVars, ringVars, karma, inVars, outVars, pc>>
      /\ debt'[e] = debt[e] - 1 /\ debt[e] > 0 /\ p \in End /\ p # e /\ Peer(p) = e
      /\ debt'[p] = debt[p]
      /\ \A x \in End : x = e \/ x = p
  <2>1. \A x \in End : x = e \/ x = p
    BY DEF End, Peer
  <2> QED
    BY <2>1, PeerPeer DEF PayDebt, TypeOK, DebtType
<1>2. /\ c \in Conn /\ c # NoConn /\ hs[e] = "up"
  BY DEF PayDebt, BodyInv, Open, TypeOK, LinkType, Conn
<1>3. /\ q \in Seq(Unit) /\ Len(q) \in Nat /\ net'[c][e] = Append(q, u)
      /\ \A d \in Conn, x \in End : (d # c \/ x # e) => net'[d][x] = net[d][x]
  BY <1>2 DEF PayDebt, TypeOK, NetType
<1>4. /\ sent[e] \in Nat /\ got[p] \in Nat /\ spos[e] \in 0 .. G-1 /\ debt[e] \in 0 .. G-1
  BY <1>1 DEF TypeOK, RingType, InType, DebtType
<1>5. u = At(e, sent[e] - debt[e] + 1)
  <2>1. spos[e] - 1 - (sent[e] - (sent[e] - debt[e] + 1)) = spos[e] - debt[e]
    BY <1>4
  <2> QED
    BY <2>1 DEF At, OldestOwed
<1>6. cur[p] = c => got[p] + Len(q) + debt[e] = sent[e]
  BY <1>1, <1>2 DEF DebtExact
<1>7. \A x \in End, n \in Int : At(x, n)' = At(x, n)
  BY <1>1 DEF At, ringVars
<1> HIDE DEF c, p, u, q
<1>8. NetInv'
  <2>1. cur[p] = c => /\ got[p] + Len(net'[c][e]) <= sent[e]
                      /\ \A i \in 1 .. Len(net'[c][e]) : net'[c][e][i] = At(e, got[p] + i)
    <3> SUFFICES ASSUME cur[p] = c
                 PROVE  /\ got[p] + Len(net'[c][e]) <= sent[e]
                        /\ \A i \in 1 .. Len(net'[c][e]) : net'[c][e][i] = At(e, got[p] + i)
      OBVIOUS
    <3>1. u \in Unit
      <4>1. InRing(e, sent[e] - debt[e] + 1) /\ sent[e] - debt[e] + 1 \in Int
        BY <1>1, <1>4, GAssumption DEF InRing
      <4> QED
        BY <1>5, <4>1, AtType
    <3>2. /\ Len(Append(q, u)) = Len(q) + 1
          /\ \A i \in 1 .. Len(q) : Append(q, u)[i] = q[i]
          /\ Append(q, u)[Len(q) + 1] = u
      BY <1>3, <3>1
    <3>3. got[p] + (Len(q) + 1) <= sent[e]
      BY <1>1, <1>3, <1>4, <1>6
    <3>4. \A i \in 1 .. Len(q) : q[i] = At(e, got[p] + i)
      BY <1>1, <1>2 DEF NetInv, p, q
    <3>5. sent[e] - debt[e] + 1 = got[p] + (Len(q) + 1)
      <4>1. Len(q) \in Nat /\ got[p] + Len(q) + debt[e] = sent[e]
        BY <1>3, <1>6
      <4> QED
        BY <1>4, <4>1
    <3>6. u = At(e, got[p] + (Len(q) + 1))
      BY <1>5, <3>5
    <3>7. \A i \in 1 .. Len(q) + 1 : i \in 1 .. Len(q) \/ i = Len(q) + 1
      BY <1>3
    <3>8. \A i \in 1 .. Len(q) + 1 : Append(q, u)[i] = At(e, got[p] + i)
      BY <3>2, <3>4, <3>6, <3>7
    <3>9. net'[c][e] = Append(q, u)
      BY <1>3
    <3> QED
      BY <3>2, <3>3, <3>8, <3>9
  <2>2. cur[p] # NoConn /\ cur[p] # c => cur[p] \in Conn /\ net'[cur[p]][e] = net[cur[p]][e]
    BY <1>1, <1>3 DEF TypeOK, LinkType, Conn
  <2>3. net'[c][p] = net[c][p]
    BY <1>1, <1>2, <1>3
  <2>4. NetInv!(e)'
    BY <1>1, <1>2, <2>1, <2>2 DEF NetInv, linkVars, ringVars, inVars, At, p
  <2>5. NetInv!(p)'
    BY <1>1, <1>2, <2>3 DEF NetInv, linkVars, ringVars, inVars, At, c
  <2> QED
    BY <1>1, <2>4, <2>5 DEF NetInv
<1>9. DebtExact'
  <2>1. cur[p] = c => got[p] + Len(net'[c][e]) + debt'[e] = sent[e]
    <3>1. Len(net'[c][e]) = Len(q) + 1
      BY <1>3 
    <3>2. \A a, b, m \in Int : a + (m + 1) + (b - 1) = a + m + b
      OBVIOUS
    <3>3. got[p] + (Len(q) + 1) + (debt[e] - 1) = got[p] + Len(q) + debt[e]
      <4>1. Len(q) \in Int /\ got[p] \in Int /\ debt[e] \in Int
        BY <1>3, <1>4
      <4> QED
        BY <3>2, <4>1
    <3> QED
      BY <1>1, <1>6, <3>1, <3>3
  <2>2. cur[p] = c => net'[c][p] = net[c][p]
    BY <1>1, <1>2, <1>3
  <2> QED
    BY <1>1, <2>1, <2>2 DEF DebtExact, linkVars, ringVars, inVars, c, p
<1>10. HelloInv'
  BY <1>1, <1>2, <1>3 DEF HelloInv, linkVars, inVars, c, p
<1>11. FreshInv'
  <2>1. hdr[c]["demux"] # NoPos
    BY <1>2, EndCases DEF FreshInv, c
  <2> QED
    BY <1>1, <1>3, <2>1, EndCases DEF FreshInv, linkVars, inVars
<1> QED
  BY <1>1, <1>8, <1>9, <1>10, <1>11, InvUnchanged DEF linkVars, ringVars, inVars, outVars

(* A unit is written: the ring moves on by one place and the karma pays for it. *)
LEMMA WriteOutInv == ASSUME IInv, TypeOK', NEW e \in End, WriteOut(e) PROVE IInv'
<1> USE DEF IInv
<1> DEFINE c == cur[e]
           p == Peer(e)
           ack == IF wleft[e] = 1 THEN wack[e] ELSE 0
           u == [n |-> sent[e] + 1, ack |-> ack, cum |-> At(e, sent[e]).cum + ack]
           q == net[c][e]
           next(n) == ring'[e][Wrap(spos'[e] - 1 - (sent'[e] - n))]
<1>1. /\ UNCHANGED <<linkVars, debt, inVars, wq>>
      /\ p \in End /\ p # e /\ Peer(p) = e
      /\ \A x \in End : x = e \/ x = p
      /\ debt[e] = 0 /\ wleft[e] > 0 /\ karma[e] > 0
  <2>1. \A x \in End : x = e \/ x = p
    BY DEF End, Peer
  <2> QED
    BY <2>1, PeerPeer DEF WriteOut
<1>2. /\ sent'[e] = sent[e] + 1 /\ sent'[p] = sent[p]
      /\ spos'[e] = Wrap(spos[e] + 1) /\ spos'[p] = spos[p]
      /\ karma'[e] = karma[e] - 1 /\ karma'[p] = karma[p]
      /\ wleft'[e] = wleft[e] - 1 /\ wleft'[p] = wleft[p]
      /\ wack'[e] = (IF wleft[e] = 1 THEN 0 ELSE wack[e]) /\ wack'[p] = wack[p]
      /\ ring'[p] = ring[p]
  BY <1>1 DEF WriteOut, TypeOK, RingType, KarmaType, OutType
<1>3. c \in Conn /\ c # NoConn /\ hs[e] = "up"
  BY DEF WriteOut, BodyInv, Open, TypeOK, LinkType, Conn
<1>4. /\ sent[e] \in Nat /\ sent[p] \in Nat /\ got[e] \in Nat /\ got[p] \in Nat
      /\ spos[e] \in 0 .. G-1 /\ rpos[p] \in 0 .. G-1 /\ karma[e] \in Int
      /\ wleft[e] \in Nat /\ wack[e] \in Nat /\ rkarma[e] \in Nat /\ ack \in Nat
  BY <1>1, BoundAssumption DEF TypeOK, RingType, InType, KarmaType, OutType
<1>5. Lag(e) = sent[e] - got[p] /\ Lag(e) \in 0 .. G-1 /\ Lag(e) <= G - 1 - karma[e]
  BY LagBound DEF Lag, PosInv
<1>6. Lag(e) < G - 1
  BY <1>1, <1>4, <1>5, GAssumption
<1>7. At(e, sent[e])' = u /\ net' = [net EXCEPT ![c][e] = Append(@, u)]
  BY AtWritten
<1>8. InRing(e, sent[e]) /\ At(e, sent[e]) \in Unit
  BY <1>4, AtType, GAssumption DEF InRing
<1>9. At(e, sent[e]).cum \in Nat /\ u \in Unit /\ u.n = sent[e] + 1 /\ u.ack = ack
      /\ u.cum = At(e, sent[e]).cum + ack
  BY <1>4, <1>8, UnitFields
<1>10. /\ \A n \in Int : sent[e] + 1 - G < n /\ n <= sent[e] => next(n) = At(e, n)
       /\ next(sent[e] + 1) = u
  <2>1. \A n \in Int : sent[e] + 1 - G < n /\ n <= sent[e] => At(e, n)' = At(e, n)
    BY AtWrite
  <2>2. \A n \in Int : At(e, n)' = next(n)
    BY DEF At
  <2>3. next(sent[e] + 1) = At(e, sent[e])'
    BY <1>2 DEF At
  <2> QED
    BY <1>7, <2>1, <2>2, <2>3
<1>11. \A n \in Int : At(p, n)' = At(p, n)
  BY <1>2 DEF At
<1> HIDE DEF c, p, u, q, ack, next
<1>12. PosInv'
  <2>1. Lag(e)' = Lag(e) + 1 /\ Lag(p)' = Lag(p)
    BY <1>1, <1>2, <1>4 DEF Lag, inVars, p
  <2>2. spos[e] - rpos[p] \in {Lag(e), Lag(e) - G}
    BY DEF PosInv, p
  <2>3. Wrap(spos[e] + 1) - rpos[p] \in {Lag(e) + 1, (Lag(e) + 1) - G}
    BY <1>4, <1>5, <1>6, <2>2, GAssumption DEF Wrap
  <2>4. Lag(e) + 1 \in 0 .. G-1
    BY <1>5, <1>6, GAssumption
  <2>5. PosInv!(e)'
    BY <1>1, <1>2, <2>1, <2>3, <2>4 DEF inVars, p
  <2>6. PosInv!(p)'
    BY <1>1, <1>2, <2>1 DEF PosInv, inVars
  <2> QED
    BY <1>1, <2>5, <2>6 DEF PosInv
<1>13. RingInv'
  <2>1. RingInv!(p)'
    BY <1>1, <1>2, <1>11 DEF RingInv, InRing, At
  <2>2. \A n \in 0 .. sent[e] + 1 : sent[e] + 1 - G < n =>
          /\ next(n).n = n
          /\ next(n).cum <= u.cum
          /\ sent[e] + 1 - G < n - 1 /\ n > 0 =>
               next(n).cum = next(n - 1).cum + next(n).ack
    <3> SUFFICES ASSUME NEW n \in 0 .. sent[e] + 1, sent[e] + 1 - G < n
                 PROVE  /\ next(n).n = n
                        /\ next(n).cum <= u.cum
                        /\ sent[e] + 1 - G < n - 1 /\ n > 0 =>
                             next(n).cum = next(n - 1).cum + next(n).ack
      OBVIOUS
    <3>1. CASE n = sent[e] + 1
      <4>1. next(n) = u /\ n - 1 = sent[e]
        BY <1>4, <1>10, <3>1
      <4>2. sent[e] + 1 - G < n - 1 => next(n - 1) = At(e, sent[e])
        BY <1>4, <1>10, <4>1
      <4> QED
        BY <1>4, <1>9, <3>1, <4>1, <4>2
    <3>2. CASE n <= sent[e]
      <4>1. n \in 0 .. sent[e] /\ InRing(e, n) /\ next(n) = At(e, n)
        BY <1>4, <1>10, <3>2, GAssumption DEF InRing
      <4>2. /\ At(e, n).n = n /\ At(e, n).cum <= At(e, sent[e]).cum
            /\ InRing(e, n - 1) /\ n > 0 => At(e, n).cum = At(e, n - 1).cum + At(e, n).ack
        BY <4>1 DEF RingInv
      <4>3. At(e, n).cum \in Nat
        BY <4>1, AtType, UnitFields
      <4>4. sent[e] + 1 - G < n - 1 => InRing(e, n - 1) /\ next(n - 1) = At(e, n - 1)
        BY <1>4, <1>10, <3>2, GAssumption DEF InRing
      <4>5. At(e, n).cum <= u.cum
        BY <1>4, <1>9, <4>2, <4>3
      <4> QED
        BY <4>1, <4>2, <4>4, <4>5
    <3> QED
      BY <1>4, <3>1, <3>2
  <2>3. RingInv!(e)'
    <3>1. sent'[e] = sent[e] + 1 /\ next(sent'[e]) = u
      BY <1>2, <1>10
    <3>2. \A n \in 0 .. sent'[e] : sent'[e] - G < n <=> sent[e] + 1 - G < n
      BY <1>4, <3>1, GAssumption
    <3>3. \A n \in 0 .. sent'[e] : sent'[e] - G < n - 1 <=> sent[e] + 1 - G < n - 1
      BY <1>4, <3>1, GAssumption
    <3> QED
      BY <2>2, <3>1, <3>2, <3>3 DEF InRing, At, next
  <2> QED
    BY <1>1, <2>1, <2>3 DEF RingInv
<1>14. KarmaInv'
  <2>1. At(e, got[p])' = At(e, got[p]) /\ At(p, got[e])' = At(p, got[e])
    <3>1. sent[e] + 1 - G < got[p] /\ got[p] <= sent[e]
      BY <1>4, <1>5, <1>6, GAssumption
    <3>2. got' = got
      BY <1>1 DEF inVars
    <3> QED
      BY <1>1, <1>2, <1>4, <1>10, <3>1, <3>2 DEF At, next
  <2>2. /\ karma[e] = G - 1 - sent[e] + At(p, got[e]).cum
        /\ got[e] - rkarma[e] = At(e, sent[e]).cum + wack[e]
        /\ wleft[e] = 0 => wack[e] = 0
    BY DEF KarmaInv, p
  <2>3. At(p, got[e]).cum \in Int
    <3>1. Lag(p) = sent[p] - got[e] /\ Lag(p) \in 0 .. G-1
      BY <1>1 DEF Lag, PosInv
    <3>2. InRing(p, got[e])
      BY <1>4, <3>1, GAssumption DEF InRing
    <3> QED
      BY <1>1, <1>4, <3>2, AtType, UnitFields
  <2>4. KarmaInv!(e)'
    <3>1. karma'[e] >= 0 /\ karma'[e] = G - 1 - sent'[e] + At(p, got[e]).cum
      BY <1>1, <1>2, <1>4, <2>2, <2>3, GAssumption
    <3>2. got[e] - rkarma[e] = u.cum + wack'[e]
      BY <1>2, <1>4, <1>9, <2>2 DEF ack
    <3>3. wleft'[e] = 0 => wack'[e] = 0
      BY <1>2, <1>4
    <3> QED
      BY <1>1, <1>7, <2>1, <3>1, <3>2, <3>3 DEF inVars, p
  <2>5. KarmaInv!(p)'
    <3>1. At(p, sent[p])' = At(p, sent[p])
      BY <1>2 DEF At
    <3> QED
      BY <1>1, <1>2, <2>1, <3>1 DEF KarmaInv, inVars
  <2> QED
    BY <1>1, <2>4, <2>5 DEF KarmaInv
<1>15. /\ q \in Seq(Unit) /\ Len(q) \in Nat /\ net'[c][e] = Append(q, u)
       /\ \A d \in Conn, x \in End : (d # c \/ x # e) => net'[d][x] = net[d][x]
  BY <1>3, <1>7, <1>9 DEF TypeOK, NetType, q
<1>16. cur[p] = c => got[p] + Len(q) = sent[e]
  <2>1. cur[p] = c => got[p] + Len(q) + 0 = sent[e]
    BY <1>1, <1>3 DEF DebtExact, c, p, q
  <2>2. Len(q) \in Int
    BY <1>15
  <2> QED
    BY <1>4, <2>1, <2>2
<1>17. /\ Len(Append(q, u)) = Len(q) + 1
       /\ \A i \in 1 .. Len(q) : Append(q, u)[i] = q[i]
       /\ Append(q, u)[Len(q) + 1] = u
  BY <1>9, <1>15
<1>18. got' = got /\ cur' = cur /\ hs' = hs /\ debt' = debt /\ hdr' = hdr /\ rpos' = rpos
       /\ pend' = pend
  BY <1>1 DEF inVars, linkVars
<1>19. NetInv'
  <2>1. cur[p] # NoConn =>
          \A i \in 1 .. Len(net[cur[p]][e]) : net[cur[p]][e][i] = next(got[p] + i)
    <3> SUFFICES ASSUME cur[p] # NoConn, NEW i \in 1 .. Len(net[cur[p]][e])
                 PROVE  net[cur[p]][e][i] = next(got[p] + i)
      OBVIOUS
    <3>1. /\ got[p] + Len(net[cur[p]][e]) <= sent[e]
          /\ net[cur[p]][e][i] = At(e, got[p] + i)
      BY DEF NetInv, p
    <3>2. Len(net[cur[p]][e]) \in Nat
      BY <1>1 DEF TypeOK, NetType, LinkType, Conn
    <3>3. got[p] + i \in Int /\ sent[e] + 1 - G < got[p] + i /\ got[p] + i <= sent[e]
      <4>1. \A b, m, j, s, g \in Int :
              (s + 1 - g < b /\ b + m <= s /\ 1 <= j /\ j <= m)
                => b + j \in Int /\ s + 1 - g < b + j /\ b + j <= s
        OBVIOUS
      <4>2. sent[e] + 1 - G < got[p] /\ got[p] \in Int /\ sent[e] \in Int /\ G \in Int
        <5>1. \A a, b, g \in Int : a - b < g - 1 => a + 1 - g < b
          OBVIOUS
        <5>2. got[p] \in Int /\ sent[e] \in Int /\ G \in Int
          BY <1>4, GAssumption
        <5>3. sent[e] - got[p] < G - 1
          BY <1>5, <1>6
        <5> QED
          BY <5>1, <5>2, <5>3
      <4>3. i \in Int /\ 1 <= i /\ i <= Len(net[cur[p]][e]) /\ Len(net[cur[p]][e]) \in Int
        BY <3>2
      <4> QED
        BY <3>1, <4>1, <4>2, <4>3
    <3> QED
      BY <1>10, <3>1, <3>3
  <2>2. cur[p] = c =>
          /\ got[p] + Len(net'[c][e]) <= sent[e] + 1
          /\ \A i \in 1 .. Len(net'[c][e]) : net'[c][e][i] = next(got[p] + i)
    <3> SUFFICES ASSUME cur[p] = c
                 PROVE  /\ got[p] + Len(Append(q, u)) <= sent[e] + 1
                        /\ \A i \in 1 .. Len(Append(q, u)) : Append(q, u)[i] = next(got[p] + i)
      BY <1>15
    <3>1. Len(q) \in Nat /\ got[p] + Len(q) = sent[e]
      BY <1>15, <1>16
    <3>2. got[p] + (Len(q) + 1) = sent[e] + 1
      <4>1. \A a, b, m \in Int : a + m = b => a + (m + 1) = b + 1
        OBVIOUS
      <4>2. got[p] \in Int /\ sent[e] \in Int /\ Len(q) \in Int
        BY <1>4, <3>1
      <4> QED
        BY <3>1, <4>1, <4>2
    <3>3. \A i \in 1 .. Len(q) : q[i] = next(got[p] + i)
      BY <1>3, <2>1 DEF q
    <3>4. u = next(got[p] + (Len(q) + 1))
      BY <1>10, <3>2
    <3>5. \A i \in 1 .. Len(q) + 1 : i \in 1 .. Len(q) \/ i = Len(q) + 1
      BY <3>1
    <3>6. \A i \in 1 .. Len(q) + 1 : Append(q, u)[i] = next(got[p] + i)
      BY <1>17, <3>3, <3>4, <3>5
    <3>7. got[p] + (Len(q) + 1) <= sent[e] + 1
      BY <1>4, <3>2
    <3> QED
      BY <1>17, <3>6, <3>7
  <2>3. cur[p] # NoConn /\ cur[p] # c =>
          /\ got[p] + Len(net'[cur[p]][e]) <= sent[e] + 1
          /\ \A i \in 1 .. Len(net'[cur[p]][e]) : net'[cur[p]][e][i] = next(got[p] + i)
    <3> SUFFICES ASSUME cur[p] # NoConn, cur[p] # c
                 PROVE  /\ got[p] + Len(net'[cur[p]][e]) <= sent[e] + 1
                        /\ \A i \in 1 .. Len(net'[cur[p]][e]) : net'[cur[p]][e][i] = next(got[p] + i)
      OBVIOUS
    <3>1. cur[p] \in Conn /\ net'[cur[p]][e] = net[cur[p]][e]
      BY <1>1, <1>15 DEF TypeOK, LinkType, Conn
    <3>2. got[p] + Len(net[cur[p]][e]) <= sent[e] /\ Len(net[cur[p]][e]) \in Nat
      BY <3>1 DEF NetInv, p, TypeOK, NetType
    <3>3. got[p] + Len(net[cur[p]][e]) <= sent[e] + 1
      <4>1. \A a, b, m \in Int : a + m <= b => a + m <= b + 1
        OBVIOUS
      <4>2. got[p] \in Int /\ sent[e] \in Int
        BY <1>4
      <4> QED
        BY <3>2, <4>1, <4>2
    <3> QED
      BY <2>1, <3>1, <3>3
  <2>4. NetInv!(e)'
    BY <1>2, <1>18, <2>2, <2>3 DEF At, next, p
  <2>5. NetInv!(p)'
    <3>1. net'[c][p] = net[c][p]
      BY <1>1, <1>3, <1>15
    <3>2. c # NoConn => /\ got[e] + Len(net[c][p]) <= sent[p]
                        /\ \A i \in 1 .. Len(net[c][p]) : net[c][p][i] = At(p, got[e] + i)
      BY <1>1 DEF NetInv, c
    <3> QED
      BY <1>1, <1>2, <1>18, <3>1, <3>2 DEF At, c
  <2> QED
    BY <1>1, <2>4, <2>5 DEF NetInv
<1>20. DebtExact'
  <2>1. cur[p] = c => got[p] + Len(net'[c][e]) + debt[e] = sent'[e]
    <3> SUFFICES ASSUME cur[p] = c PROVE got[p] + (Len(q) + 1) + 0 = sent[e] + 1
      BY <1>1, <1>2, <1>15, <1>17
    <3>1. Len(q) \in Nat /\ got[p] + Len(q) = sent[e]
      BY <1>15, <1>16
    <3> QED
      BY <1>4, <3>1
  <2>2. net'[c][p] = net[c][p]
    BY <1>1, <1>3, <1>15
  <2>3. DebtExact!(e)'
    BY <1>18, <2>1 DEF c, p
  <2>4. DebtExact!(p)'
    BY <1>1, <1>2, <1>18, <2>2 DEF DebtExact, c
  <2> QED
    BY <1>1, <2>3, <2>4 DEF DebtExact
<1>21. HelloInv'
  BY <1>1, <1>3, <1>15, <1>18 DEF HelloInv, c, p
<1>22. FreshInv'
  <2>1. hdr[c]["demux"] # NoPos
    BY <1>3, EndCases DEF FreshInv, c
  <2> QED
    BY <1>15, <1>18, <2>1, EndCases DEF FreshInv
<1>23. BodyInv'
  BY <1>3, <1>18 DEF BodyInv, Open, WriteOut, TypeOK, OutType, c
<1> QED
  BY <1>12, <1>13, <1>14, <1>19, <1>20, <1>21, <1>22, <1>23

(* Every step preserves the invariant. *)
LEMMA NextInv == IInv /\ [Next]_vars => IInv'
<1> SUFFICES ASSUME IInv, [Next]_vars PROVE IInv'
  OBVIOUS
<1>1. TypeOK'
  BY NextType DEF IInv
<1>2. CASE UNCHANGED vars
  BY <1>1, <1>2, InvUnchanged DEF IInv, vars, ringVars
<1>3. CASE Next
  BY <1>1, <1>3, MuxConnectedInv, MuxLoseInv, DemuxLoseInv, DemuxKeyInv, PendLoseInv,
     HandshakeInv, RecvInv, QueueInv, GrabInv, PayDebtInv, WriteOutInv DEF Next, Step
<1> QED
  BY <1>2, <1>3

(* What is proved of the invariant, for the theorems below. *)
LEMMA InvHolds == Spec => []IInv
  BY InitInv, NextInv, PTL DEF Spec

(* For every ring size and every pattern of losses and reconnects: a unit  *)
(* the peer has not read is never overwritten in stream[], and the sanity  *)
(* check of read_ack never fires.                                          *)
THEOREM KarmaSafety == Spec => []KarmaSafe
<1>1. IInv => KarmaSafe
  <2> SUFFICES ASSUME IInv, NEW e \in End
               PROVE  karma[e] \in 0 .. G-1 /\ Lag(e) \in 0 .. G-1 - karma[e]
    BY DEF KarmaSafe, Lag
  <2>1. /\ karma[e] >= 0 /\ karma[e] \in Int
        /\ Lag(e) \in 0 .. G-1 /\ Lag(e) <= G - 1 - karma[e]
    BY LagBound DEF IInv, KarmaInv, PosInv, TypeOK, KarmaType
  <2> QED
    BY <2>1, GAssumption
<1> QED
  BY <1>1, InvHolds, PTL

(* The debt computed from the two positions modulo GLOBAL_KARMA is exactly *)
(* what is neither read nor on the wire.                                   *)
THEOREM DebtIsExact == Spec => []DebtExact
<1>1. IInv => DebtExact
  BY DEF IInv
<1> QED
  BY <1>1, InvHolds, PTL

(* Exactly-once, in-order reading of the stream across reconnects.         *)
THEOREM ReadsInOrder == Spec => InOrder
<1>1. IInv /\ [Next]_vars => [\A e \in End : got'[e] \in {got[e], got[e] + 1}]_vars
  <2> SUFFICES ASSUME IInv, Next, NEW e \in End
               PROVE  got'[e] \in {got[e], got[e] + 1}
    OBVIOUS
  <2>1. TypeOK'
    BY NextType DEF IInv
  <2>2. ASSUME NEW x \in End, Recv(x) PROVE got'[e] \in {got[e], got[e] + 1}
    <3>1. got'[x] = got[x] + 1
      BY <2>1, <2>2, RecvInv
    <3> QED
      BY <2>2, <3>1 DEF Recv, IInv, TypeOK, InType
  <2>3. CASE got' = got
    BY <2>3
  <2>4. got' = got \/ \E x \in End : Recv(x)
    BY DEF Next, Step, MuxConnected, MuxLose, DemuxLose, DemuxKey, DemuxKeyUnmatched,
           PendLose, Handshake, ClientReady, ControlReady, Writable, PayDebt, GrabAck,
           GrabData, WriteOut, MainwReturn, MainwFlush, inVars
  <2> QED
    BY <2>2, <2>3, <2>4
<1> QED
  BY <1>1, InvHolds, PTL DEF Spec, InOrder

================================================================================
