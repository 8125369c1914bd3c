------------------------------- MODULE MuxClients -------------------------------
(***************************************************************************)
(* The clients of tcpmux/tcpmux.c: connections multiplexed over the main   *)
(* stream.  A client of the mux is accepted from the phone's VM, its twin  *)
(* at the demux is made when its id is first named and connects to the     *)
(* server's VM.  A client may have CLIENT_KARMA bytes unacknowledged; the  *)
(* acknowledgements of all clients go into control packets, where a karma  *)
(* of -1 says that the client is gone.  When each end has said so to the   *)
(* other the client is burned and its id can be used again.                *)
(*                                                                         *)
(* Abstraction.  One id, used by one client after the other, beside the    *)
(* control client.  Data are counted, not carried.  The main stream hands  *)
(* over packets in order and exactly once, as MuxStream shows, but may     *)
(* stop at any time and make mainw return.  With one id the karma queue    *)
(* has at most one client, so a control packet names one at most.  Each    *)
(* process is one thread; busy says that it is inside mainw's loop, or in  *)
(* get_client, where no other handler runs.                                *)
(***************************************************************************)
EXTENDS Integers, Sequences, FiniteSets, Functions

CONSTANTS K,            \* CLIENT_KARMA
          AckThreshold, \* ACK_THRESHOLD
          VPacketSize,  \* VPACKETSIZE
          Uses          \* bound: clients that use the id one after the other

ASSUME KarmaAssumption == /\ K \in Nat /\ AckThreshold \in 1..K
                          /\ VPacketSize \in Nat \ {0} /\ Uses \in Nat

End == {"mux", "demux"}
Peer(e) == IF e = "mux" THEN "demux" ELSE "mux"
Client == 1..Uses
Control == 0       \* client_table[0]
None == 0          \* no client behind the id
NoOut == [kind |-> "none", of |-> 0, n |-> 0]

VARIABLES
  client,  \* client_table at the id
  made,    \* clients allocated so far
  of,      \* history: the mux's client that a client is the twin of
  sock,    \* s and is_connecting of every client
  polled,  \* clients that epoll_wait has reported while they were connecting
  rdead,   \* clients marked is_rdead
  burned,  \* clients marked is_burned
  wkarma,
  rkarma,
  out_sz,
  wq,      \* the write queue
  kq,      \* the queue of clients to acknowledge
  wout,    \* the packet being written
  net,     \* packets written by an end and not read yet
  busy,
  error    \* why the process ended

tables == <<client, made, of>>
state == <<sock, polled, rdead, burned, wkarma, rkarma, out_sz, kq>>
clientVars == <<tables, state, wq, wout, net, busy, error>>

ClientInit ==
  /\ client = [e \in End |-> None]
  /\ made = [e \in End |-> 0]
  /\ of = [e \in End |-> [c \in Client |-> 0]]
  /\ sock = [e \in End |-> [c \in Client |-> "none"]]
  /\ polled = [e \in End |-> {}]
  /\ rdead = [e \in End |-> {}]
  /\ burned = [e \in End |-> {}]
  /\ wkarma = [e \in End |-> [c \in Client |-> 0]]
  /\ rkarma = [e \in End |-> [c \in Client |-> 0]]
  /\ out_sz = [e \in End |-> [c \in Client |-> 0]]
  /\ wq = [e \in End |-> <<>>]
  /\ kq = [e \in End |-> <<>>]
  /\ wout = [e \in End |-> NoOut]
  /\ net = [e \in End |-> <<>>]
  /\ busy = [e \in End |-> "no"]
  /\ error = "none"

Running == error = "none"
Idle(e) == Running /\ busy[e] = "no"
Lesser(a, b) == IF a <= b THEN a ELSE b

(* push_writer: into the write queue, unless in_write_queue. *)
PushWriter(q, c) == IF c \in Range(q) THEN q ELSE Append(q, c)

(* Is the karma r one that is to be told to the peer? *)
Tellable(r) == r = -1 \/ r >= AckThreshold

(* Mutant: the client is queued whether it was queued before or not. *)
SetRkarmaAgain(e, c, r, q) ==
  /\ rkarma' = [rkarma EXCEPT ![e][c] = r]
  /\ kq' = IF Tellable(r) THEN [kq EXCEPT ![e] = Append(@, c)] ELSE kq
  /\ wq' = [wq EXCEPT ![e] = IF Tellable(r) /\ kq[e] = <<>> THEN PushWriter(q, Control) ELSE q]

(* set_rkarma, with the write queue q: a client that now has karma to tell *)
(* is queued, and the control client with the first of them.               *)
SetRkarma(e, c, r, q) ==
  LET joins == ~Tellable(rkarma[e][c]) /\ Tellable(r) IN
  /\ rkarma' = [rkarma EXCEPT ![e][c] = r]
  /\ kq' = IF joins THEN [kq EXCEPT ![e] = Append(@, c)] ELSE kq
  /\ wq' = [wq EXCEPT ![e] = IF joins /\ kq[e] = <<>> THEN PushWriter(q, Control) ELSE q]

(* disconnect_client. *)
Disconnect(e, c, q) ==
  /\ sock' = [sock EXCEPT ![e][c] = "closed"]
  /\ SetRkarma(e, c, -1, q)

(* The client leaves the table and goes on the burn list. *)
Burn(e, c) ==
  /\ client' = [client EXCEPT ![e] = None]
  /\ burned' = [burned EXCEPT ![e] = @ \cup {c}]

--------------------------------------------------------------------------------
(* Events of the clients.                                                  *)

(* accept: the mux has a new client; its peer may send it K bytes. *)
Accept ==
  LET c == made["mux"] + 1 IN
  /\ Idle("mux") /\ client["mux"] = None /\ c \in Client
  /\ client' = [client EXCEPT !["mux"] = c]
  /\ made' = [made EXCEPT !["mux"] = c]
  /\ of' = [of EXCEPT !["mux"][c] = c]
  /\ sock' = [sock EXCEPT !["mux"][c] = "open"]
  /\ wkarma' = [wkarma EXCEPT !["mux"][c] = K]
  /\ SetRkarma("mux", c, K, wq["mux"])
  /\ UNCHANGED <<polled, rdead, burned, out_sz, wout, net, busy, error>>

(* The end of muxloop's round, where burned clients are freed, and the     *)
(* next epoll_wait, which reports some of the connecting clients.          *)
Poll(e) ==
  /\ Idle(e) /\ polled[e] = {}
  /\ polled' \in [End -> SUBSET Client] /\ polled'[Peer(e)] = polled[Peer(e)]
  /\ \A c \in polled'[e] : sock[e][c] = "connecting"
  /\ sock' = [sock EXCEPT ![e] = [c \in Client |-> IF c \in burned[e] THEN "freed" ELSE @[c]]]
  /\ polled' # polled \/ sock' # sock
  /\ UNCHANGED <<tables, rdead, burned, wkarma, rkarma, out_sz, kq, wq, wout, net, busy, error>>

(* The demux's connect to the server's VM ended, or failed.  is_connecting *)
(* outlives the socket of a client that was disconnected after epoll_wait. *)
Connected(e, c) ==
  /\ Idle(e) /\ c \in polled[e]
  /\ polled' = [polled EXCEPT ![e] = @ \ {c}]
  /\ \/ /\ sock[e][c] = "connecting"
        /\ \/ sock' = [sock EXCEPT ![e][c] = "open"] /\ UNCHANGED <<rkarma, kq, wq>>
           \/ Disconnect(e, c, wq[e])
        /\ UNCHANGED error
     \/ /\ sock[e][c] = "closed"
        /\ error' = "twice"
        /\ UNCHANGED <<sock, rkarma, kq, wq>>
  /\ UNCHANGED <<tables, rdead, burned, wkarma, out_sz, wout, net, busy>>

(* clientr: a client has something to read, or was closed. *)
Readable(e, c) ==
  /\ Idle(e) /\ sock[e][c] = "open"
  /\ wq' = [wq EXCEPT ![e] = PushWriter(@, c)]
  /\ UNCHANGED <<tables, state, wout, net, busy, error>>

(* Mutant: the karma earned replaces the karma not yet told. *)
ClientWSet(e, c, n) ==
  /\ \E m \in 0..n : /\ out_sz' = [out_sz EXCEPT ![e][c] = n - m]
                     /\ SetRkarma(e, c, m, wq[e])
  /\ UNCHANGED sock

(* clientw: the client takes some of the n bytes kept for it, or fails.    *)
ClientW(e, c, n) ==
  \/ /\ \E m \in 0..n :
          /\ out_sz' = [out_sz EXCEPT ![e][c] = n - m]
          /\ SetRkarma(e, c, rkarma[e][c] + m, wq[e])
     /\ UNCHANGED sock
  \/ /\ n > 0
     /\ out_sz' = [out_sz EXCEPT ![e][c] = n]
     /\ Disconnect(e, c, wq[e])

Writable(e, c) ==
  /\ Idle(e) /\ sock[e][c] = "open" /\ out_sz[e][c] > 0
  /\ ClientW(e, c, out_sz[e][c])
  /\ UNCHANGED <<tables, polled, rdead, burned, wkarma, wout, net, busy, error>>

(* The keep-alive timer, or enough read from the main stream. *)
PushControl(e) ==
  /\ Idle(e)
  /\ wq' = [wq EXCEPT ![e] = PushWriter(@, Control)]
  /\ UNCHANGED <<tables, state, wout, net, busy, error>>

--------------------------------------------------------------------------------
(* mainw.                                                                  *)

(* After a step of the loop: on with it, unless a packet waits to be       *)
(* written or the queue is empty.                                          *)
LoopOn(e) ==
  busy' = [busy EXCEPT ![e] = IF wout'[e] = NoOut /\ wq'[e] # <<>> THEN "loop" ELSE "no"]

GrabTest(e) == Running /\ busy[e] \in {"no", "loop"} /\ wout[e] = NoOut /\ wq[e] # <<>>

(* Mutant: a client is forgotten when the peer has been told. *)
ForgetsEarly(e, c) == rkarma[e][c] = -1

(* Mutant: the mark that read_ack left is not looked at. *)
ForgetsNever(e, c) == FALSE

(* The peer has said that the client is gone. *)
Forgets(e, c) == c \in rdead[e]

(* write_ack: what the queued client is owed, or that it is gone.  A       *)
(* client the peer has said is gone is burned.                             *)
GrabAck(e) ==
  LET c == Head(kq[e]) IN
  /\ GrabTest(e) /\ Head(wq[e]) = Control
  /\ wq' = [wq EXCEPT ![e] = Tail(@)]
  /\ IF kq[e] = <<>>
     THEN /\ wout' = [wout EXCEPT ![e] = [kind |-> "ack", of |-> 0, n |-> 0]]
          /\ UNCHANGED <<client, burned, rkarma, kq>>
     ELSE /\ wout' = [wout EXCEPT ![e] = [kind |-> "ack", of |-> of[e][c], n |-> rkarma[e][c]]]
          /\ rkarma' = [rkarma EXCEPT ![e][c] = 0]
          /\ kq' = [kq EXCEPT ![e] = Tail(@)]
          /\ IF Forgets(e, c) THEN Burn(e, c) ELSE UNCHANGED <<client, burned>>
  /\ LoopOn(e)
  /\ UNCHANGED <<made, of, sock, polled, rdead, wkarma, out_sz, net, error>>

(* A client that is burned or closed is passed over.  One that was freed   *)
(* is not there to be looked at.                                           *)
GrabDead(e) ==
  LET c == Head(wq[e]) IN
  /\ GrabTest(e) /\ c # Control
  /\ sock[e][c] \in {"closed", "freed"} \/ c \in burned[e]
  /\ wq' = [wq EXCEPT ![e] = Tail(@)]
  /\ error' = IF sock[e][c] = "freed" THEN "freed" ELSE error
  /\ UNCHANGED wout
  /\ LoopOn(e)
  /\ UNCHANGED <<tables, state, net>>

(* n bytes of the most that a packet and the client's karma allow are read *)
(* from the client; it stays queued only if they were all there and it has *)
(* karma left.  A client that has been closed is disconnected.             *)
GrabData(e) ==
  LET c == Head(wq[e])
      most == Lesser(VPacketSize, wkarma[e][c])
      rest == Tail(wq[e])
  IN
  /\ GrabTest(e) /\ c # Control /\ c \notin burned[e] /\ sock[e][c] \in {"open", "connecting"}
  /\ \E n \in 0..most :
       /\ wkarma' = [wkarma EXCEPT ![e][c] = @ - n]
       /\ wout' = [wout EXCEPT ![e] = IF n = 0 THEN NoOut
                                      ELSE [kind |-> "data", of |-> of[e][c], n |-> n]]
       /\ \/ /\ wq' = [wq EXCEPT ![e] = IF n = most /\ n < wkarma[e][c] THEN Append(rest, c)
                                        ELSE rest]
             /\ UNCHANGED <<sock, rkarma, kq>>
          \/ n = 0 /\ most > 0 /\ Disconnect(e, c, rest)
  /\ LoopOn(e)
  /\ UNCHANGED <<tables, polled, rdead, burned, out_sz, net, error>>

(* A socket that never began to connect is read: the read fails, and       *)
(* disconnect_client too, as epoll does not know the socket.               *)
GrabStuck(e) ==
  LET c == Head(wq[e]) IN
  /\ GrabTest(e) /\ c # Control /\ sock[e][c] = "stuck"
  /\ wq' = [wq EXCEPT ![e] = Tail(@)]
  /\ error' = IF wkarma[e][c] > 0 THEN "stuck" ELSE error
  /\ UNCHANGED wout
  /\ LoopOn(e)
  /\ UNCHANGED <<tables, state, net>>

(* The packet is out; an acknowledgement that names no client says nothing *)
(* to the peer's clients.                                                  *)
WriteOut(e) ==
  /\ Idle(e) /\ wout[e] # NoOut
  /\ net' = [net EXCEPT ![e] = IF wout[e].of = 0 THEN @ ELSE Append(@, wout[e])]
  /\ wout' = [wout EXCEPT ![e] = NoOut]
  /\ UNCHANGED wq
  /\ LoopOn(e)
  /\ UNCHANGED <<tables, state, error>>

--------------------------------------------------------------------------------
(* mainr: a packet from the peer.                                          *)

Incoming(e) == Head(net[Peer(e)])
Arrived(e) == Running /\ busy[e] \in {"no", "take"} /\ net[Peer(e)] # <<>>
Take(e) == /\ net' = [net EXCEPT ![Peer(e)] = Tail(@)]
           /\ busy' = [busy EXCEPT ![e] = "no"]

(* initiate_client_connect: the connection is begun, or is there at once.  *)
(* If connect fails epoll does not know the socket, and the disconnect     *)
(* that follows gives up on it.                                            *)
BeginConnect == {"connecting", "open", "stuck"}

(* A twin may send when it has been told so. *)
TwinKarma == 0

(* get_client for an id that is not in use: the demux makes a client; at   *)
(* the mux it is an error, but for an acknowledgement, which is passed     *)
(* over.                                                                   *)
GetClient(e) ==
  LET c == made[e] + 1 IN
  /\ Arrived(e) /\ client[e] = None
  /\ IF e = "mux"
     THEN /\ error' = IF Incoming(e).kind = "data" THEN "unknown" ELSE error
          /\ Take(e)
          /\ UNCHANGED <<tables, sock, wkarma>>
     ELSE /\ c \in Client
          /\ client' = [client EXCEPT ![e] = c]
          /\ made' = [made EXCEPT ![e] = c]
          /\ of' = [of EXCEPT ![e][c] = Incoming(e).of]
          /\ \E s \in BeginConnect : sock' = [sock EXCEPT ![e][c] = s]
          /\ wkarma' = [wkarma EXCEPT ![e][c] = TwinKarma]
          /\ busy' = [busy EXCEPT ![e] = "take"]
          /\ UNCHANGED <<net, error>>
  /\ UNCHANGED <<polled, rdead, burned, rkarma, out_sz, kq, wq, wout>>

(* Is the packet meant for the client it is given to? *)
Meant(e, c) == Incoming(e).of = of[e][c]
Result(e, c) == IF Meant(e, c) THEN error ELSE "mixed"

(* Data for a client: kept, and written to it if it is up. *)
ReadData(e) ==
  LET c == client[e]
      n == out_sz[e][c] + Incoming(e).n
  IN
  /\ Arrived(e) /\ c # None /\ Incoming(e).kind = "data"
  /\ CASE n > K -> error' = "full" /\ UNCHANGED <<out_sz, sock, rkarma, kq, wq>>
       [] n <= K /\ sock[e][c] = "open" -> ClientW(e, c, n) /\ error' = Result(e, c)
       [] OTHER -> /\ out_sz' = [out_sz EXCEPT ![e][c] = n] /\ error' = Result(e, c)
                   /\ UNCHANGED <<sock, rkarma, kq, wq>>
  /\ Take(e)
  /\ UNCHANGED <<tables, polled, rdead, burned, wkarma, wout>>

(* read_ack: the client may send more... *)
ReadKarma(e) ==
  LET c == client[e] IN
  /\ Arrived(e) /\ c # None /\ Incoming(e).kind = "ack" /\ Incoming(e).n >= 0
  /\ wkarma' = [wkarma EXCEPT ![e][c] = @ + Incoming(e).n]
  /\ wq' = [wq EXCEPT ![e] = PushWriter(@, c)]
  /\ error' = Result(e, c)
  /\ Take(e)
  /\ UNCHANGED <<tables, sock, polled, rdead, burned, rkarma, out_sz, kq, wout>>

(* ...or its twin is gone.  If it is up it is disconnected and marked; if  *)
(* it was down and the peer has been told it is burned; if the peer has    *)
(* not been told yet it is marked, to be burned then.  disconnect_client   *)
(* does nothing to a client whose connection never began.                  *)
ReadGone(e) ==
  LET c == client[e] IN
  /\ Arrived(e) /\ c # None /\ Incoming(e).kind = "ack" /\ Incoming(e).n = -1
  /\ CASE sock[e][c] \in {"open", "connecting"} ->
            /\ rdead' = [rdead EXCEPT ![e] = @ \cup {c}]
            /\ Disconnect(e, c, wq[e])
            /\ UNCHANGED <<client, burned>>
       [] sock[e][c] = "closed" /\ rkarma[e][c] = 0 ->
            Burn(e, c) /\ UNCHANGED <<rdead, sock, rkarma, kq, wq>>
       [] OTHER ->
            /\ rdead' = [rdead EXCEPT ![e] = @ \cup {c}]
            /\ UNCHANGED <<client, burned, sock, rkarma, kq, wq>>
  /\ error' = Result(e, c)
  /\ Take(e)
  /\ UNCHANGED <<made, of, polled, wkarma, out_sz, wout>>

--------------------------------------------------------------------------------
Grab(e) == GrabAck(e) \/ GrabDead(e) \/ GrabStuck(e) \/ GrabData(e)
Mainr(e) == GetClient(e) \/ ReadData(e) \/ ReadKarma(e) \/ ReadGone(e)

ClientNext ==
  \/ Accept
  \/ \E e \in End :
       \/ PushControl(e) \/ Poll(e) \/ Grab(e) \/ WriteOut(e) \/ Mainr(e)
       \/ \E c \in Client : Connected(e, c) \/ Readable(e, c) \/ Writable(e, c)

ClientSpec == ClientInit /\ [][ClientNext]_clientVars

(* The main stream is up again and again, and MuxStream's Delivered holds: *)
(* what is queued is grabbed and written out, and what was written is      *)
(* read.  mainw's loop ends, and muxloop then serves every descriptor that *)
(* has an event, so being ready again and again is enough to be served.    *)
ClientFairness ==
  \A e \in End :
    WF_clientVars(Grab(e)) /\ SF_clientVars(WriteOut(e)) /\ SF_clientVars(Mainr(e))
FairClientSpec == ClientSpec /\ ClientFairness

--------------------------------------------------------------------------------
Packet == [kind : {"none", "data", "ack"}, of : 0..Uses, n : -1..K]

ClientTypeOK ==
  /\ client \in [End -> 0..Uses] /\ made \in [End -> 0..Uses]
  /\ of \in [End -> [Client -> 0..Uses]]
  /\ sock \in [End -> [Client -> {"none", "connecting", "open", "stuck", "closed", "freed"}]]
  /\ polled \in [End -> SUBSET Client]
  /\ rdead \in [End -> SUBSET Client] /\ burned \in [End -> SUBSET Client]
  /\ wkarma \in [End -> [Client -> 0..K]]
  /\ rkarma \in [End -> [Client -> -1..K]]
  /\ out_sz \in [End -> [Client -> 0..K]]
  /\ wq \in [End -> Seq(Client \cup {Control})] /\ kq \in [End -> Seq(Client)]
  /\ wout \in [End -> Packet] /\ net \in [End -> Seq(Packet)]
  /\ busy \in [End -> {"no", "loop", "take"}]
  /\ error \in {"none", "freed", "twice", "stuck", "unknown", "full", "mixed"}

(* What an end has on the way to the other, the packet being written last. *)
Flight(e) == IF wout[e].of = 0 THEN net[e] ELSE Append(net[e], wout[e])

(* The units of a kind, for a name, in the packets s: the k-th of packet j *)
(* is <<j, k>>.                                                            *)
KarmaUnits(s, id, kind) ==
  {u \in (DOMAIN s) \X (1..K) : s[u[1]].of = id /\ s[u[1]].kind = kind /\ u[2] <= s[u[1]].n}

Sent(e, id, kind) == Cardinality(KarmaUnits(Flight(e), id, kind))

Twins(e, c) == {d \in Client : of[Peer(e)][d] = of[e][c]}
Positive(n) == IF n > 0 THEN n ELSE 0

(* What c may still send, and has sent and is not acknowledged for yet on  *)
(* the way there or back...                                                *)
Credit(e, c) ==
  wkarma[e][c] + Sent(e, of[e][c], "data") + Sent(Peer(e), of[e][c], "ack")

(* ...or with its twin d, as data or as karma. *)
Held(e, d) == out_sz[e][d] + Positive(rkarma[e][d])

(* The karma of a client is never more than CLIENT_KARMA, counting what is *)
(* with it, on the way, and owed to it by its one twin, and none is lost   *)
(* while the twin lives, whichever end made the client and whatever was    *)
(* told late.                                                              *)
KarmaConserved ==
  \A e \in End : \A c \in Client : c = client[e] =>
    /\ Twins(e, c) = {} => Credit(e, c) = K
    /\ \A d \in Twins(e, c) :
         /\ Twins(e, c) = {d}
         /\ Credit(e, c) + Held(Peer(e), d) <= K
         /\ sock[Peer(e)][d] \notin {"closed", "freed"} => Credit(e, c) + Held(Peer(e), d) = K

(* What write_ack and set_rkarma assert: a client is in the karma queue    *)
(* exactly once when it has something to tell, a burned one never is, and  *)
(* one the peer gave up has nothing left to tell but that it is gone.      *)
KarmaQueued ==
  \A e \in End :
    /\ \A c \in Client : Tellable(rkarma[e][c]) <=> Cardinality({i \in DOMAIN kq[e] : kq[e][i] = c}) = 1
    /\ Len(kq[e]) = Cardinality(Range(kq[e]))
    /\ \A c \in Range(kq[e]) : /\ c \notin burned[e]
                               /\ c \in rdead[e] => rkarma[e][c] = -1
    /\ kq[e] # <<>> => Control \in Range(wq[e])

(* An id is free at both ends before it is used again: no packet reaches   *)
(* an end that has forgotten its client, or the client that came after it, *)
(* and a client always has room for what its twin was allowed to send.     *)
IdReuse == error \notin {"unknown", "mixed", "full"}

(* A client that was closed at either end is forgotten at both: each end   *)
(* hears of it, tells its own part and frees the id.  (A connect that      *)
(* failed at once is the exception: DeadDisconnected.)                     *)
Forgotten ==
  \A e \in End : \A c \in Client :
    sock[e][c] = "closed" ~> \/ c \in burned[e] \/ ~Running
                            \/ \E d \in Client : sock["demux"][d] = "stuck"

(* A client in the write queue is still allocated: mainw looks at it       *)
(* before it moves past the dead.                                          *)
QueuedAllocated ==
  \A e \in End : \A c \in Range(wq[e]) \ {Control} : sock[e][c] # "freed"

(* What socket_connected asserts: the client whose connection ended has a  *)
(* socket.                                                                 *)
ConnectedHasSocket == error # "twice"

(* A client marked dead by read_ack has been disconnected. *)
DeadDisconnected ==
  \A e \in End : \A c \in rdead[e] : sock[e][c] \in {"closed", "freed"}
================================================================================
