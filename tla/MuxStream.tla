------------------------------- MODULE MuxStream -------------------------------
(***************************************************************************)
(* The resumable main stream of meteor_dalvik/tcpmux/tcpmux.c.  A mux      *)
(* (phone side) and a demux (server side) share one logical byte stream in *)
(* each direction; the TCP connection under it may be lost and replaced at *)
(* any time.  Each side keeps the last GLOBAL_KARMA bytes it wrote in a    *)
(* ring, both tell each other the position they have read up to when a     *)
(* connection is set up, and the difference (stream_debt) is resent.       *)
(*                                                                         *)
(* Abstraction.  A stream is made of units.  A unit stands for a byte: its *)
(* payload is its ordinal n in the sender's stream, and the last unit of a *)
(* control packet carries the karma it acknowledges.  A write or a read of *)
(* many bytes is several consecutive steps, which the code also takes when *)
(* the kernel accepts or returns one byte at a time.  The write queue is   *)
(* reduced to which kinds of writers are in it: the control client "ctl"   *)
(* and data clients "cli".  Each process is one thread: pc[e] says where   *)
(* in mainw it is, "idle" when no mainw is in progress.                    *)
(***************************************************************************)
EXTENDS Integers, Sequences

CONSTANTS G,            \* GLOBAL_KARMA
          AckThreshold, \* ACK_THRESHOLD
          MaxPacket,    \* units of the largest packet (header and VPACKETSIZE)
          Conns,        \* bound: TCP connections the mux may open
          MaxLoss,      \* bound: connections lost for no reason of the program
          MaxSent       \* bound: units each side may write

ASSUME GAssumption == G \in Nat /\ G >= 2
ASSUME ThresholdAssumption == AckThreshold \in Nat \ {0}
ASSUME BoundAssumption == /\ MaxPacket \in Nat \ {0}
                          /\ Conns \in Nat \ {0}
                          /\ MaxLoss \in Nat
                          /\ MaxSent \in Nat

End == {"mux", "demux"}
Peer(e) == IF e = "mux" THEN "demux" ELSE "mux"
Conn == 1 .. Conns
Writers == {"ctl", "cli"}
NoConn == 0     \* mainfd = -1
NoPos == -1     \* no position written on this connection yet

(* n: ordinal in the stream; ack: karma acknowledged by the packet this is *)
(* the last unit of; cum: sum of ack up to here, a history value that no   *)
(* action reads.                                                           *)
Unit == [n : Nat, ack : Nat, cum : Nat]

VARIABLES
  cur,      \* connection behind mainfd of the context
  hs,       \* handshake_st of the context, and is_connecting
  pend,     \* connections whose key the demux has not read (preliminary contexts)
  hdr,      \* hdr[c][e]: position e wrote when connection c was set up
  net,      \* net[c][e]: units written by e on c and not read yet
  ring,     \* stream
  spos,     \* stream_pos
  debt,     \* stream_debt
  karma,    \* stream_karma
  rpos,     \* rstream_pos
  rkarma,   \* rstream_karma
  wq,       \* kinds of writers in the write queue
  wleft,    \* units of wout still to write (0: wout.id = 0)
  wack,     \* karma acknowledged by wout
  pc,       \* progress of mainw
  sent,     \* history: units ever written to the stream
  got,      \* history: ordinal of the last unit read from the stream
  losses,   \* bound: losses so far
  lost      \* TRUE once the demux serves the mux from a second context

linkVars == <<cur, hs, pend, hdr>>
ringVars == <<ring, spos, sent>>
outVars == <<wleft, wack>>
inVars == <<rpos, rkarma, got>>
vars == <<cur, hs, pend, hdr, net, ring, spos, debt, karma, rpos, rkarma,
          wq, wleft, wack, pc, sent, got, losses, lost>>

Wrap(x) == IF x < 0 THEN x + G ELSE IF x >= G THEN x - G ELSE x

(* One less than the ring holds, so that a full ring and an empty one have *)
(* different positions.                                                    *)
FullKarma == G
InitialKarma == G - 1

(* The debt to a peer that has read up to position r. *)
OwedNothing(s, r) == 0
Owed(s, r) == IF s - r < 0 THEN s - r + G ELSE s - r

(* The ring index of the oldest unit owed. *)
SecondOwed(e) == Wrap(spos[e] - debt[e] + 1)
OldestOwed(e) == Wrap(spos[e] - debt[e])

(* The mainw entry test: mainfd open, not connecting, handshake over. *)
Open(e) == cur[e] # NoConn /\ hs[e] = "up"

(* The test of mainw's outer loop, with write queue q and debt d: into the *)
(* body, or straight to the code after the loop.                           *)
LoopTest(q, d) == IF q # {} \/ d > 0 THEN "body" ELSE "flush"

Init ==
  /\ cur = [e \in End |-> IF e = "mux" THEN 1 ELSE NoConn]
  /\ hs = [e \in End |-> IF e = "mux" THEN "connecting" ELSE "none"]
  /\ pend = {}
  /\ hdr = [c \in Conn |-> [e \in End |-> NoPos]]
  /\ net = [c \in Conn |-> [e \in End |-> <<>>]]
  /\ ring = [e \in End |-> [i \in 0 .. G-1 |-> [n |-> 0, ack |-> 0, cum |-> 0]]]
  /\ spos = [e \in End |-> 0]
  /\ debt = [e \in End |-> 0]
  /\ karma = [e \in End |-> InitialKarma]
  /\ rpos = [e \in End |-> 0]
  /\ rkarma = [e \in End |-> 0]
  /\ wq = [e \in End |-> {}]
  /\ wleft = [e \in End |-> 0]
  /\ wack = [e \in End |-> 0]
  /\ pc = [e \in End |-> "idle"]
  /\ sent = [e \in End |-> 0]
  /\ got = [e \in End |-> 0]
  /\ losses = 0
  /\ lost = FALSE

--------------------------------------------------------------------------------
(* Setting a connection up.                                                *)

(* The mux's connect completed: it writes its key and its read position. *)
MuxConnected ==
  /\ hs["mux"] = "connecting"
  /\ hs' = [hs EXCEPT !["mux"] = "hello"]
  /\ hdr' = [hdr EXCEPT ![cur["mux"]]["mux"] = rpos["mux"]]
  /\ pend' = pend \cup {cur["mux"]}
  /\ UNCHANGED <<cur, net, ringVars, debt, karma, inVars, wq, outVars, pc,
                 losses, lost>>

(* The demux has read the whole key on connection c.  A context that has   *)
(* the key and finished its own handshake takes the connection over,       *)
(* dropping the one it had; the first connection makes the context.  In    *)
(* both cases the context answers with its read position.                  *)
DemuxKey(c) ==
  /\ pc["demux"] = "idle"
  /\ c \in pend
  /\ hs["demux"] \in {"none", "up"}
  /\ pend' = pend \ {c}
  /\ cur' = [cur EXCEPT !["demux"] = c]
  /\ hs' = [hs EXCEPT !["demux"] = "hello"]
  /\ hdr' = [hdr EXCEPT ![c]["demux"] = rpos["demux"]]
  /\ UNCHANGED <<net, ringVars, debt, karma, inVars, wq, outVars, pc, losses, lost>>

(* The key arrives while the context that has it is still between key and  *)
(* position: it is not recognised and the preliminary context, with a      *)
(* stream of its own that starts at 0, serves the connection.  The model   *)
(* ends here.                                                              *)
DemuxKeyUnmatched(c) ==
  /\ pc["demux"] = "idle"
  /\ c \in pend
  /\ hs["demux"] = "hello"
  /\ lost' = TRUE
  /\ UNCHANGED <<linkVars, net, ringVars, debt, karma, inVars, wq, outVars, pc, losses>>

(* e reads the position its peer wrote on the connection: what the peer    *)
(* has not read is owed to it, and mainw starts paying.                    *)
Handshake(e) ==
  LET c == cur[e]
      owed == Owed(spos[e], hdr[c][Peer(e)])
  IN  /\ pc[e] = "idle"
      /\ c # NoConn
      /\ hs[e] = "hello"
      /\ hdr[c][Peer(e)] # NoPos
      /\ hs' = [hs EXCEPT ![e] = "up"]
      /\ debt' = [debt EXCEPT ![e] = owed]
      /\ pc' = [pc EXCEPT ![e] = LoopTest(wq[e], owed)]
      /\ UNCHANGED <<cur, pend, hdr, net, ringVars, karma, inVars, wq, outVars,
                     losses, lost>>

--------------------------------------------------------------------------------
(* Losing a connection.                                                    *)

(* Where e may see its connection fail: in an event handler that is not in *)
(* mainw, or at a write of mainw.                                          *)
AtSyscall(e) == \/ pc[e] = "idle"
                \/ pc[e] = "body" /\ (debt[e] > 0 \/ (wleft[e] > 0 /\ karma[e] > 0))

(* The peer has closed its end of c, or will never have one. *)
PeerGone(e) ==
  LET c == cur[e]
  IN IF e = "mux" THEN hdr[c]["mux"] # NoPos /\ c \notin pend /\ cur["demux"] # c
                  ELSE cur["mux"] # c

(* A connection fails for no reason of the program, or because the peer is *)
(* gone.                                                                   *)
Fails(e) == IF PeerGone(e) THEN losses' = losses
                           ELSE losses < MaxLoss /\ losses' = losses + 1

(* The mux loses its connection (error, end of file, a changed interface)  *)
(* and opens the next one.                                                 *)
MuxLose ==
  /\ AtSyscall("mux")
  /\ Fails("mux")
  /\ cur["mux"] < Conns
  /\ cur' = [cur EXCEPT !["mux"] = @ + 1]
  /\ hs' = [hs EXCEPT !["mux"] = "connecting"]
  /\ pc' = [pc EXCEPT !["mux"] = "idle"]
  /\ UNCHANGED <<pend, hdr, net, ringVars, debt, karma, inVars, wq, outVars, lost>>

(* The demux's context loses its connection; handshake_st stays. *)
DemuxLose ==
  /\ AtSyscall("demux")
  /\ cur["demux"] # NoConn
  /\ Fails("demux")
  /\ cur' = [cur EXCEPT !["demux"] = NoConn]
  /\ pc' = [pc EXCEPT !["demux"] = "idle"]
  /\ UNCHANGED <<hs, pend, hdr, net, ringVars, debt, karma, inVars, wq, outVars, lost>>

(* A connection fails before the demux has read its key. *)
PendLose(c) ==
  /\ c \in pend
  /\ IF c # cur["mux"] THEN losses' = losses
                       ELSE losses < MaxLoss /\ losses' = losses + 1
  /\ pend' = pend \ {c}
  /\ UNCHANGED <<cur, hs, hdr, net, ringVars, debt, karma, inVars, wq, outVars, pc, lost>>

--------------------------------------------------------------------------------
(* Handlers that read or that queue writers.                               *)

(* push_writer, called outside mainw: only a queue that was empty starts   *)
(* mainw.                                                                  *)
PushWriters(e, new) ==
  /\ wq' = [wq EXCEPT ![e] = @ \cup new]
  /\ pc' = [pc EXCEPT ![e] = IF wq[e] = {} /\ new # {} /\ Open(e)
                             THEN "body" ELSE @]

(* mainr reads one unit: the position and the karma to acknowledge move    *)
(* on; an acknowledgement that the unit completes is applied, and the      *)
(* clients it names may be queued.                                         *)
Recv(e) ==
  LET c == cur[e]
      u == Head(net[c][Peer(e)])
  IN  /\ pc[e] = "idle"
      /\ Open(e)
      /\ net[c][Peer(e)] # <<>>
      /\ net' = [net EXCEPT ![c][Peer(e)] = Tail(@)]
      /\ rpos' = [rpos EXCEPT ![e] = Wrap(@ + 1)]
      /\ rkarma' = [rkarma EXCEPT ![e] = @ + 1]
      /\ got' = [got EXCEPT ![e] = u.n]
      /\ karma' = [karma EXCEPT ![e] = @ + u.ack]
      /\ \E named \in IF u.ack > 0 THEN {{}, {"cli"}} ELSE {{}} :
           PushWriters(e, (IF rkarma'[e] >= AckThreshold THEN {"ctl"} ELSE {}) \cup named)
      /\ UNCHANGED <<linkVars, ringVars, debt, outVars, losses, lost>>

(* clientr: a client has data. *)
ClientReady(e) ==
  /\ pc[e] = "idle"
  /\ sent[e] < MaxSent
  /\ PushWriters(e, {"cli"})
  /\ UNCHANGED <<linkVars, net, ringVars, debt, karma, inVars, outVars, losses, lost>>

(* The keep-alive timer, or a client's karma reaching the threshold. *)
ControlReady(e) ==
  /\ pc[e] = "idle"
  /\ sent[e] < MaxSent
  /\ PushWriters(e, {"ctl"})
  /\ UNCHANGED <<linkVars, net, ringVars, debt, karma, inVars, outVars, losses, lost>>

--------------------------------------------------------------------------------
(* mainw.                                                                  *)

(* EPOLLOUT on the main connection. *)
Writable(e) ==
  /\ pc[e] = "idle"
  /\ Open(e)
  /\ pc' = [pc EXCEPT ![e] = LoopTest(wq[e], debt[e])]
  /\ UNCHANGED <<linkVars, net, ringVars, debt, karma, inVars, wq, outVars, losses, lost>>

(* Resend one unit of the ring. *)
PayDebt(e) ==
  /\ pc[e] = "body"
  /\ debt[e] > 0
  /\ net' = [net EXCEPT ![cur[e]][e] = Append(@, ring[e][OldestOwed(e)])]
  /\ debt' = [debt EXCEPT ![e] = @ - 1]
  /\ UNCHANGED <<linkVars, ringVars, karma, inVars, wq, outVars, pc, losses, lost>>

GrabAckKeep(e) ==
  /\ pc[e] = "body" /\ debt[e] = 0 /\ wleft[e] = 0
  /\ "ctl" \in wq[e]
  /\ \E size \in 1 .. MaxPacket :
       /\ sent[e] + size <= MaxSent
       /\ wleft' = [wleft EXCEPT ![e] = size]
  /\ wack' = [wack EXCEPT ![e] = rkarma[e]]
  /\ \E q \in {wq[e], wq[e] \ {"ctl"}} : wq' = [wq EXCEPT ![e] = q]
  /\ UNCHANGED <<linkVars, net, ringVars, debt, karma, inVars, pc, losses, lost>>

(* write_ack: the karma read so far goes into a control packet.  The       *)
(* control client stays queued when more clients are to be acknowledged    *)
(* than one packet holds.                                                  *)
GrabAck(e) ==
  /\ pc[e] = "body" /\ debt[e] = 0 /\ wleft[e] = 0
  /\ "ctl" \in wq[e]
  /\ \E size \in 1 .. MaxPacket :
       /\ sent[e] + size <= MaxSent
       /\ wleft' = [wleft EXCEPT ![e] = size]
  /\ wack' = [wack EXCEPT ![e] = rkarma[e]]
  /\ rkarma' = [rkarma EXCEPT ![e] = 0]
  /\ \E q \in {wq[e], wq[e] \ {"ctl"}} : wq' = [wq EXCEPT ![e] = q]
  /\ UNCHANGED <<linkVars, net, ringVars, debt, karma, rpos, got, pc, losses, lost>>

(* A data client is taken from the queue: what can be read from it becomes *)
(* a packet, or there was nothing (and, on end of file, the control client *)
(* is queued to say so).                                                   *)
GrabData(e) ==
  /\ pc[e] = "body" /\ debt[e] = 0 /\ wleft[e] = 0
  /\ "cli" \in wq[e]
  /\ \E size \in 0 .. MaxPacket, q \in {wq[e], wq[e] \ {"cli"}} :
       /\ sent[e] + size <= MaxSent
       /\ wleft' = [wleft EXCEPT ![e] = size]
       /\ wack' = [wack EXCEPT ![e] = 0]
       /\ \E eof \in IF size = 0 THEN {{}, {"ctl"}} ELSE {{}} :
            wq' = [wq EXCEPT ![e] = q \cup eof]
  /\ UNCHANGED <<linkVars, net, ringVars, debt, karma, inVars, pc, losses, lost>>

(* write_mainfd: one unit of wout goes to the connection and to the ring. *)
WriteOut(e) ==
  LET ack == IF wleft[e] = 1 THEN wack[e] ELSE 0
      last == ring[e][Wrap(spos[e] - 1)]
      u == [n |-> sent[e] + 1, ack |-> ack, cum |-> last.cum + ack]
  IN  /\ pc[e] = "body" /\ debt[e] = 0 /\ wleft[e] > 0
      /\ karma[e] > 0
      /\ net' = [net EXCEPT ![cur[e]][e] = Append(@, u)]
      /\ ring' = [ring EXCEPT ![e][spos[e]] = u]
      /\ spos' = [spos EXCEPT ![e] = Wrap(@ + 1)]
      /\ sent' = [sent EXCEPT ![e] = @ + 1]
      /\ karma' = [karma EXCEPT ![e] = @ - 1]
      /\ wleft' = [wleft EXCEPT ![e] = @ - 1]
      /\ wack' = [wack EXCEPT ![e] = IF wleft[e] = 1 THEN 0 ELSE @]
      /\ pc' = [pc EXCEPT ![e] = IF wleft[e] = 1 THEN LoopTest(wq[e], 0) ELSE @]
      /\ UNCHANGED <<linkVars, debt, inVars, wq, losses, lost>>

(* mainw returns from its loop: the kernel takes no more, there is no      *)
(* global karma, or nobody has anything to write.                          *)
MainwReturn(e) ==
  /\ pc[e] = "body"
  /\ debt[e] > 0 \/ wleft[e] > 0 \/ wq[e] = {} \/ sent[e] = MaxSent
  /\ pc' = [pc EXCEPT ![e] = "idle"]
  /\ UNCHANGED <<linkVars, net, ringVars, debt, karma, inVars, wq, outVars, losses, lost>>

(* After the loop: partial packets are forced out. *)
MainwFlush(e) ==
  /\ pc[e] = "flush"
  /\ pc' = [pc EXCEPT ![e] = "idle"]
  /\ UNCHANGED <<linkVars, net, ringVars, debt, karma, inVars, wq, outVars, losses, lost>>

Step(e) ==
  \/ Handshake(e) \/ Recv(e) \/ ClientReady(e) \/ ControlReady(e) \/ Writable(e)
  \/ PayDebt(e) \/ GrabAck(e) \/ GrabData(e) \/ WriteOut(e) \/ MainwReturn(e)
  \/ MainwFlush(e)

Next ==
  /\ ~lost
  /\ \/ MuxConnected \/ MuxLose \/ DemuxLose
     \/ \E c \in Conn : DemuxKey(c) \/ DemuxKeyUnmatched(c) \/ PendLose(c)
     \/ \E e \in End : Step(e)

Spec == Init /\ [][Next]_vars

(* mainr, called when the main connection is readable: a position, a unit  *)
(* of the stream, or the end of file of a connection whose other end is    *)
(* gone.                                                                   *)
Mainr(e) == \/ Handshake(e) \/ Recv(e)
            \/ e = "mux" /\ PeerGone(e) /\ MuxLose
            \/ e = "demux" /\ cur[e] # NoConn /\ PeerGone(e) /\ DemuxLose

Mainw(e) == \/ Writable(e) \/ PayDebt(e) \/ GrabAck(e) \/ GrabData(e)
            \/ WriteOut(e) \/ MainwReturn(e) \/ MainwFlush(e)

(* What the scheduling of the two processes guarantees.  epoll reports     *)
(* every ready descriptor and handlers return, so a connection that stays  *)
(* readable is read; EPOLLOUT is raised only when the kernel has room, so  *)
(* resending that keeps being retried gets through.  Nothing is assumed of *)
(* the clients.                                                            *)
Fairness ==
  /\ WF_vars(MuxConnected)
  /\ SF_vars(\E c \in Conn : DemuxKey(c) \/ DemuxKeyUnmatched(c))
  /\ \A e \in End : SF_vars(Mainr(e)) /\ WF_vars(Mainw(e)) /\ SF_vars(PayDebt(e))

FairSpec == Init /\ [][Next]_vars /\ Fairness

--------------------------------------------------------------------------------
(* Properties.                                                             *)

LinkType == /\ cur \in [End -> 0 .. Conns] /\ cur["mux"] # NoConn
            /\ hs \in [End -> {"none", "connecting", "hello", "up"}]
            /\ hs["mux"] # "none" /\ hs["demux"] # "connecting"
            /\ pend \in SUBSET Conn
            /\ hdr \in [Conn -> [End -> NoPos .. G-1]]
NetType == net \in [Conn -> [End -> Seq(Unit)]]
RingType == /\ ring \in [End -> [0 .. G-1 -> Unit]]
            /\ spos \in [End -> 0 .. G-1]
            /\ sent \in [End -> Nat]
DebtType == debt \in [End -> 0 .. G-1]
InType == /\ rpos \in [End -> 0 .. G-1]
          /\ rkarma \in [End -> Nat]
          /\ got \in [End -> Nat]
KarmaType == karma \in [End -> Int]
OutType == /\ wq \in [End -> SUBSET Writers]
           /\ wleft \in [End -> 0 .. MaxPacket]
           /\ wack \in [End -> Nat]
           /\ pc \in [End -> {"idle", "body", "flush"}]
EndType == losses \in 0 .. MaxLoss /\ lost \in BOOLEAN

(* The shape of every variable: positions, debts and the ring indices they *)
(* give stay inside the ring.                                              *)
TypeOK == /\ LinkType /\ NetType /\ RingType /\ DebtType
          /\ InType /\ KarmaType /\ OutType /\ EndType

(* Exactly once, in order: whatever connections are lost, replaced or      *)
(* resumed in between, the unit mainr reads is always the successor of the *)
(* one it read before: nothing is skipped, repeated or taken from another  *)
(* connection's replay.                                                    *)
InOrder == [][\A e \in End : got'[e] \in {got[e], got[e] + 1}]_vars

(* Global karma keeps the ring safe: a unit the peer has not read is never *)
(* overwritten in stream[], and the check of read_ack ("Bad global karma   *)
(* acknowledgment") never fires.                                           *)
KarmaSafe == \A e \in End : /\ karma[e] \in 0 .. G-1
                            /\ sent[e] - got[Peer(e)] \in 0 .. G-1 - karma[e]

(* A side that has finished its handshake on the connection its peer reads *)
(* owes exactly what is neither read nor on the wire: the debt computed    *)
(* from two positions modulo GLOBAL_KARMA is never off by a lap.           *)
DebtExact == \A e \in End :
  LET c == cur[e] IN
  (c # NoConn /\ hs[e] = "up" /\ cur[Peer(e)] = c)
    => got[Peer(e)] + Len(net[c][e]) + debt[e] = sent[e]

(* Every unit mainw has counted as written reaches the peer, on this       *)
(* connection or, resent, on a later one (unless the demux lost the        *)
(* context): as no more than MaxSent are written, again and again, and so  *)
(* for good, none is missing.                                              *)
Delivered == \A e \in End : []<>(got[Peer(e)] = sent[e] \/ lost)

(* The comment after mainw's loop: "We flushed all the data we had to      *)
(* write."                                                                 *)
FlushedAll == \A e \in End : pc[e] = "flush" => wleft[e] = 0

(* The comment at the key match: "Switch into existing context if it       *)
(* exists."  A context that has carried data is never passed over.         *)
SwitchesContext == lost => sent["demux"] = 0 /\ got["demux"] = 0

================================================================================
