-------------------------------- MODULE Channels --------------------------------
(***************************************************************************)
(* The per-thread channels of the phone's VM: vm/offload/Control.cpp with  *)
(* the exit of threads in vm/offload/Threading.cpp.  Every thread has a    *)
(* write and a read buffer.  A thread whose write buffer stops being empty *)
(* puts itself into a pipe; the control thread moves it to its queue of    *)
(* writers, sends one packet of the thread at its head at a time, and      *)
(* hands what arrives to the thread named in the packet.                   *)
(*                                                                         *)
(* Abstraction.  Data are numbered units, marked with the connection they  *)
(* were written in.  A packet is written or read in one step: its header,  *)
(* its compression and the pieces the socket takes it in are states of the *)
(* control thread alone.  The server is what it hears and what it says.    *)
(* The critical sections of offBufferLock are single steps.  A hazard, and *)
(* the clean-up when none is left, are as the module Recovery has them.    *)
(***************************************************************************)
EXTENDS Integers, Sequences, FiniteSets

CONSTANTS Threads,    \* threads started on the phone
          Ghosts,     \* threads the server started, attached here when named
          NoPacket,
          MaxPacket,  \* bound: units written, read or sent at once
          MaxOut,     \* bound: units a thread writes during a connection
          MaxIn,      \* bound: units the server writes to a thread of the phone
          MaxConn     \* bound: connections

ASSUME ThreadAssumption == Threads \cap Ghosts = {} /\ NoPacket \notin Threads \cup Ghosts
ASSUME BoundAssumption == /\ MaxPacket \in Nat \ {0} /\ MaxOut \in Nat
                          /\ MaxIn \in Nat /\ MaxConn \in Nat

All == Threads \cup Ghosts

VARIABLES
  connected,  \* offConnected
  recovered,  \* offRecovered
  ctl,        \* the control thread: "up", "waking", "waiting" or "down"
  towake,     \* threads it has still to signal after a loss
  session,    \* number of the current or last connection
  pipe,       \* threads in offNetPipe
  queue,      \* wthreads
  packet,     \* the packet being sent: its thread and its units
  wbuf,       \* offWriteBuffer
  rbuf,       \* offReadBuffer
  said,       \* units each thread wrote during this connection
  told,       \* units the server wrote to each thread
  answer,     \* the number of the RESUME to an exiting thread, 0 before
  heard,      \* what the server got from each thread
  got,        \* what each thread read
  pc,         \* where each thread is
  need,       \* units an offReadBuffer still has to fill
  haz,        \* is the thread inside a hazard
  known,      \* not offLocalOnly
  stage,      \* "live"; "dying" in offThreadExited; "last" after its RESUME
  table,      \* offThreadTable
  fault       \* history: "stray", an exit wrote to its channel while the
              \* connection was gone; "aborted"

control == <<connected, recovered, ctl, towake, session, queue, packet>>
content == <<wbuf, rbuf, said, told, answer, heard, got>>
threads == <<pc, need, haz, known, stage, table>>
vars == <<control, pipe, content, threads, fault>>

Init ==
  /\ connected = FALSE /\ recovered = TRUE
  /\ ctl = "down" /\ towake = {} /\ session = 0
  /\ pipe = <<>> /\ queue = <<>> /\ packet = NoPacket
  /\ wbuf = [t \in All |-> <<>>] /\ rbuf = [t \in All |-> <<>>]
  /\ said = [t \in All |-> 0] /\ told = [t \in All |-> 0]
  /\ answer = [t \in All |-> 0]
  /\ heard = [t \in All |-> <<>>] /\ got = [t \in All |-> <<>>]
  /\ pc = [t \in All |-> IF t \in Threads THEN "out" ELSE "none"]
  /\ need = [t \in All |-> 0]
  /\ haz = [t \in All |-> FALSE]
  /\ known = [t \in All |-> t \in Ghosts]
  /\ stage = [t \in All |-> "live"]
  /\ table = Threads
  /\ fault = "none"

Goto(t, where) == pc' = [pc EXCEPT ![t] = where]

(* Units of the current connection with the numbers from i to j. *)
Units(i, j) == [k \in 1..(j - i + 1) |-> [conn |-> session, n |-> i + k - 1]]

Least(a, b) == IF a <= b THEN a ELSE b

--------------------------------------------------------------------------------
(* What a thread does with its channel.                                    *)

(* A thread enters a hazard: to migrate, which makes it known to the       *)
(* server, or for a lock or a volatile field.                              *)
EnterHazard(t) ==
  /\ t \in Threads /\ pc[t] = "out" /\ connected
  /\ haz' = [haz EXCEPT ![t] = TRUE]
  /\ \E k \in {known[t], TRUE} : known' = [known EXCEPT ![t] = k]
  /\ Goto(t, "run")
  /\ UNCHANGED <<control, pipe, content, need, stage, table, fault>>

ClearHazard(t) ==
  /\ pc[t] = "run"
  /\ haz' = [haz EXCEPT ![t] = FALSE]
  /\ Goto(t, "out")
  /\ UNCHANGED <<control, pipe, content, need, known, stage, table, fault>>

(* Where a thread goes on after a send. *)
AfterSend(t) ==
  CASE stage[t] = "live" -> "run" [] stage[t] = "dying" -> "bye" [] OTHER -> "flush"

(* offSendMessage, under the lock: k units into the write buffer.  If it   *)
(* was empty the thread has to be written to the pipe afterwards.          *)
SendMessage(t, k) ==
  /\ wbuf' = [wbuf EXCEPT ![t] = @ \o Units(said[t] + 1, said[t] + k)]
  /\ said' = [said EXCEPT ![t] = @ + k]
  /\ UNCHANGED <<rbuf, told, answer, heard, got>>

Send(t) ==
  /\ pc[t] = "run"
  /\ \E k \in 1..MaxPacket : said[t] + k <= MaxOut /\ SendMessage(t, k)
  /\ Goto(t, IF wbuf[t] = <<>> THEN "pipe" ELSE "run")
  /\ UNCHANGED <<control, pipe, need, haz, known, stage, table, fault>>

(* The write to offNetPipe; with the pipe closed, writeFdFull aborts. *)
WritePipe(t) ==
  /\ pc[t] = "pipe"
  /\ IF ctl = "down"
     THEN fault' = "aborted" /\ UNCHANGED <<pipe, pc>>
     ELSE pipe' = Append(pipe, t) /\ Goto(t, AfterSend(t)) /\ UNCHANGED fault
  /\ UNCHANGED <<control, content, need, haz, known, stage, table>>

Read(t) ==
  /\ pc[t] = "run"
  /\ \E n \in 1..MaxPacket : need' = [need EXCEPT ![t] = n]
  /\ Goto(t, "read")
  /\ UNCHANGED <<control, pipe, content, haz, known, stage, table, fault>>

(* Where a thread goes on when it has read what it needs: back to its      *)
(* work; an exiting one on through its daemon's messages until the RESUME, *)
(* then out of its hazard; a ghost, which is told of its death, to detach. *)
Ended(t) == stage[t] = "live" \/ ~connected \/ Len(got'[t]) = answer[t]
ReadDone(t) ==
  /\ Goto(t, CASE t \in Ghosts -> "detach"
               [] t \in Threads /\ stage[t] = "live" -> "run"
               [] OTHER -> IF Ended(t) THEN "remove" ELSE "read")
  /\ need' = [need EXCEPT ![t] = IF Ended(t) THEN 0 ELSE 1]
  /\ haz' = [haz EXCEPT ![t] = @ /\ (stage[t] = "live" \/ ~Ended(t))]

ReadTurnDeaf(t) ==
  LET n == Least(need[t], Len(rbuf[t])) IN
  /\ pc[t] = "read"
  /\ got' = [got EXCEPT ![t] = @ \o SubSeq(rbuf[t], 1, n)]
  /\ rbuf' = [rbuf EXCEPT ![t] = SubSeq(@, n + 1, Len(@))]
  /\ IF n < need[t]
     THEN need' = [need EXCEPT ![t] = @ - n] /\ Goto(t, "readwait") /\ UNCHANGED haz
     ELSE ReadDone(t)
  /\ UNCHANGED <<control, pipe, wbuf, said, told, answer, heard, known, stage, table, fault>>

(* What one look at the read buffer takes: connected, what is there of     *)
(* what is needed; without a connection offReadBuffer takes nothing, while *)
(* SIZED_READ still hands out what is there in full.                       *)
Handed(t) ==
  {n \in 0..Len(rbuf[t]) : IF connected THEN n = Least(need[t], Len(rbuf[t]))
                                        ELSE n \in {0, need[t]}}

(* SIZED_READ and the loop of offReadBuffer, from the lock to the wait or  *)
(* the end.  Without a connection the rest is filled with 0x55.            *)
ReadTurn(t) ==
  /\ pc[t] = "read"
  /\ \E n \in Handed(t) :
       /\ got' = [got EXCEPT ![t] = @ \o SubSeq(rbuf[t], 1, n)]
       /\ rbuf' = [rbuf EXCEPT ![t] = SubSeq(@, n + 1, Len(@))]
       /\ IF connected /\ n < need[t]
          THEN /\ need' = [need EXCEPT ![t] = @ - n]
               /\ Goto(t, "readwait")
               /\ UNCHANGED haz
          ELSE ReadDone(t)
  /\ UNCHANGED <<control, pipe, wbuf, said, told, answer, heard, known, stage, table, fault>>

--------------------------------------------------------------------------------
(* offThreadExited, by a thread that no longer counts as running: the      *)
(* clean-up does not wait for it unless it is inside a hazard.             *)

Exit(t) ==
  /\ t \in Threads /\ pc[t] = "out"
  /\ stage' = [stage EXCEPT ![t] = "dying"]
  /\ Goto(t, IF known[t] THEN "death" ELSE "remove")
  /\ UNCHANGED <<control, pipe, content, need, haz, known, table, fault>>

Stray == IF connected THEN fault ELSE "stray"

(* OFF_ACTION_DEATH and the sync that follows it. *)
Death(t) ==
  /\ pc[t] = "death"
  /\ SendMessage(t, 1)
  /\ fault' = Stray
  /\ Goto(t, IF wbuf[t] = <<>> THEN "pipe" ELSE "bye")
  /\ UNCHANGED <<control, pipe, need, haz, known, stage, table>>

(* offThreadWaitForResume: inside a hazard, if there is a connection. *)
WaitForResume(t) ==
  /\ pc[t] = "bye"
  /\ haz' = [haz EXCEPT ![t] = connected]
  /\ need' = [need EXCEPT ![t] = IF connected THEN 1 ELSE 0]
  /\ Goto(t, IF connected THEN "read" ELSE "remove")
  /\ UNCHANGED <<control, pipe, content, known, stage, table, fault>>

(* thread_attach, when its daemon has returned: a hazard for the exit, or, *)
(* once the loss of the connection has been dealt with, none.              *)
Detach(t) ==
  /\ pc[t] = "detach"
  /\ connected \/ recovered
  /\ haz' = [haz EXCEPT ![t] = connected]
  /\ stage' = [stage EXCEPT ![t] = "dying"]
  /\ Goto(t, "remove")
  /\ UNCHANGED <<control, pipe, content, need, known, table, fault>>

(* The control thread has the table's lock while it signals. *)
Remove(t) ==
  /\ pc[t] = "remove" /\ ctl # "waking"
  /\ table' = table \ {t}
  /\ Goto(t, "flush")
  /\ UNCHANGED <<control, pipe, content, need, haz, known, stage, fault>>

(* A thread of the server answers with a last RESUME and flushes again;    *)
(* then, as any other, it is freed and its hazard cleared.                 *)
AfterFlush(t) == IF t \in Ghosts /\ stage[t] = "dying" THEN "resume" ELSE "gone"

FlushTurnAtOnce(t) ==
  /\ pc[t] = "flush"
  /\ Goto(t, AfterFlush(t))
  /\ haz' = [haz EXCEPT ![t] = @ /\ AfterFlush(t) # "gone"]
  /\ UNCHANGED <<control, pipe, content, need, known, stage, table, fault>>

FlushTurn(t) ==
  LET wait == wbuf[t] # <<>> /\ connected IN
  /\ pc[t] = "flush"
  /\ Goto(t, IF wait THEN "flushwait" ELSE AfterFlush(t))
  /\ haz' = [haz EXCEPT ![t] = @ /\ (wait \/ AfterFlush(t) # "gone")]
  /\ UNCHANGED <<control, pipe, content, need, known, stage, table, fault>>

Resume(t) ==
  /\ pc[t] = "resume"
  /\ SendMessage(t, 1)
  /\ fault' = Stray
  /\ stage' = [stage EXCEPT ![t] = "last"]
  /\ Goto(t, IF wbuf[t] = <<>> THEN "pipe" ELSE "flush")
  /\ UNCHANGED <<control, pipe, need, haz, known, table>>

--------------------------------------------------------------------------------
(* The control thread.                                                     *)

(* pthread_cond_signal on a thread's offBufferCond. *)
Signalled(t) ==
  CASE pc[t] = "readwait" -> "read" [] pc[t] = "flushwait" -> "flush" [] OTHER -> pc[t]

(* message_loop: the thread at the head of the queue is to send a packet,  *)
(* of at most what its first buffer holds.                                 *)
PickWriter ==
  LET t == Head(queue)
      most == Least(Len(wbuf[t]), MaxPacket)
  IN
  /\ ctl = "up" /\ packet = NoPacket /\ queue # <<>>
  /\ \E n \in IF most = 0 THEN {0} ELSE 1..most : packet' = <<t, n>>
  /\ UNCHANGED <<connected, recovered, ctl, towake, session, queue, pipe, content, threads, fault>>

Requeue(t, n) == <<t>>

RestNone(t, n) == <<>>

(* What is left of a thread's units after a packet of n, and its place in  *)
(* the queue: none when nothing is left.                                   *)
Rest(t, n) == SubSeq(wbuf[t], n + 1, Len(wbuf[t]))
Again(t, n) == IF Rest(t, n) = <<>> THEN <<>> ELSE <<t>>

WakeNobody(t, n) == pc[t]

WakeIfEmpty(t, n) == IF Rest(t, n) = <<>> THEN Signalled(t) ELSE pc[t]

(* The packet is out: its units leave the buffer, and the thread is queued *)
(* again, behind the others, or signalled that it has nothing left.        *)
WritePacket ==
  LET t == packet[1]
      n == packet[2]
  IN
  /\ ctl = "up" /\ packet # NoPacket
  /\ heard' = [heard EXCEPT ![t] = @ \o SubSeq(wbuf[t], 1, n)]
  /\ wbuf' = [wbuf EXCEPT ![t] = Rest(t, n)]
  /\ packet' = NoPacket
  /\ queue' = Tail(queue) \o Again(t, n)
  /\ Goto(t, WakeIfEmpty(t, n))
  /\ UNCHANGED <<connected, recovered, ctl, towake, session, pipe, rbuf, said, told, answer, got,
                 need, haz, known, stage, table, fault>>

ReadPipe ==
  /\ ctl = "up" /\ pipe # <<>>
  /\ pipe' = Tail(pipe)
  /\ queue' = Append(queue, Head(pipe))
  /\ UNCHANGED <<connected, recovered, ctl, towake, session, packet, content, threads, fault>>

(* What the server writes to a thread: to a live thread anything, to one   *)
(* that exits its RESUME once all of the thread has been heard, to one of  *)
(* its own its death.                                                      *)
ServerMay(t, k) ==
  \/ t \in Threads /\ stage[t] = "live" /\ told[t] + k <= MaxIn
  \/ /\ t \in Threads /\ stage[t] = "dying" /\ k = 1
     /\ answer[t] = 0 /\ heard[t] # <<>> /\ Len(heard[t]) = said[t]
  \/ t \in Ghosts /\ told[t] = 0 /\ k = 1

(* A packet has arrived: offIdToThread, which attaches a thread that is    *)
(* not known yet, then the read buffer and the signal.                     *)
Receive(t) ==
  /\ ctl = "up" /\ (t \in table \/ pc[t] = "none")
  /\ \E k \in 1..MaxPacket :
        /\ ServerMay(t, k)
        /\ rbuf' = [rbuf EXCEPT ![t] = @ \o Units(told[t] + 1, told[t] + k)]
        /\ told' = [told EXCEPT ![t] = @ + k]
  /\ answer' = [answer EXCEPT ![t] = IF stage[t] = "dying" THEN told[t] + 1 ELSE @]
  /\ IF pc[t] = "none"
     THEN Goto(t, "read") /\ need' = [need EXCEPT ![t] = 1] /\ table' = table \cup {t}
     ELSE Goto(t, Signalled(t)) /\ UNCHANGED <<need, table>>
  /\ UNCHANGED <<control, pipe, wbuf, said, heard, got, haz, known, stage, fault>>

(* The socket fails: the queue is dropped, offConnected cleared...         *)
Lose ==
  /\ ctl = "up"
  /\ queue' = <<>> /\ packet' = NoPacket
  /\ connected' = FALSE
  /\ ctl' = "waking" /\ towake' = table
  /\ UNCHANGED <<recovered, session, pipe, content, threads, fault>>

(* ...and every thread in the table signalled, under the table's lock. *)
SignalThread(t) ==
  /\ ctl = "waking" /\ t \in towake
  /\ towake' = towake \ {t}
  /\ Goto(t, Signalled(t))
  /\ UNCHANGED <<connected, recovered, ctl, session, queue, packet, pipe, content,
                 need, haz, known, stage, table, fault>>

Woken ==
  /\ ctl = "waking" /\ towake = {}
  /\ ctl' = "waiting"
  /\ UNCHANGED <<connected, recovered, towake, session, queue, packet, pipe, content, threads, fault>>

(* cleanupThread for every thread in the table, once no hazard is left. *)
Cleanup ==
  /\ ctl \in {"waking", "waiting"} /\ ~recovered
  /\ \A t \in All : ~haz[t]
  /\ recovered' = TRUE
  /\ wbuf' = [t \in All |-> IF t \in table THEN <<>> ELSE wbuf[t]]
  /\ rbuf' = [t \in All |-> IF t \in table THEN <<>> ELSE rbuf[t]]
  /\ known' = [t \in All |-> known[t] /\ t \notin table]
  /\ fault' = IF \E t \in All : pc[t] = "pipe" THEN "stray" ELSE fault
  /\ UNCHANGED <<connected, ctl, towake, session, queue, packet, pipe, said, told, answer, heard, got,
                 pc, need, haz, stage, table>>

(* offControlLoop: recovered, the control thread closes the pipe... *)
ClosePipe ==
  /\ ctl = "waiting" /\ recovered
  /\ ctl' = "down" /\ pipe' = <<>>
  /\ UNCHANGED <<connected, recovered, towake, session, queue, packet, content, threads, fault>>

(* ...and some time later connects to a new server, with a new pipe. *)
Connect ==
  /\ ctl = "down" /\ session < MaxConn
  /\ connected' = TRUE /\ recovered' = FALSE
  /\ ctl' = "up" /\ session' = session + 1
  /\ said' = [t \in All |-> 0] /\ told' = [t \in All |-> 0]
  /\ answer' = [t \in All |-> 0]
  /\ heard' = [t \in All |-> <<>>] /\ got' = [t \in All |-> <<>>]
  /\ UNCHANGED <<towake, queue, packet, pipe, wbuf, rbuf, threads, fault>>

--------------------------------------------------------------------------------
ThreadNext(t) ==
  \/ EnterHazard(t) \/ ClearHazard(t) \/ Send(t) \/ WritePipe(t) \/ Read(t) \/ ReadTurn(t)
  \/ Exit(t) \/ Death(t) \/ WaitForResume(t) \/ Detach(t) \/ Remove(t) \/ FlushTurn(t)
  \/ Resume(t)

ControlNext ==
  \/ PickWriter \/ WritePacket \/ ReadPipe \/ Woken
  \/ \E t \in All : SignalThread(t)

(* An abort ends the process. *)
Next ==
  /\ fault # "aborted"
  /\ \/ \E t \in All : ThreadNext(t) \/ Receive(t)
     \/ ControlNext
     \/ Lose \/ Cleanup \/ ClosePipe \/ Connect

Spec == Init /\ [][Next]_vars

(* The control thread's loop goes on, and a thread that is exiting is run. *)
FairSpec ==
  /\ Spec
  /\ WF_vars(fault # "aborted" /\ PickWriter)
  /\ WF_vars(fault # "aborted" /\ WritePacket)
  /\ WF_vars(fault # "aborted" /\ ReadPipe)
  /\ \A t \in All : WF_vars(fault # "aborted" /\ FlushTurn(t))

--------------------------------------------------------------------------------
(* The control thread and the threads agree on what is asked for: a thread *)
(* wants units exactly while it is in offReadBuffer, the packet being sent *)
(* is of the thread at the head of the queue, and no more than it has.     *)
TypeOK ==
  /\ connected \in BOOLEAN /\ recovered \in BOOLEAN
  /\ ctl \in {"up", "waking", "waiting", "down"} /\ (connected <=> ctl = "up")
  /\ towake \subseteq table /\ table \subseteq All
  /\ session \in 0..MaxConn
  /\ pipe \in Seq(All) /\ queue \in Seq(All)
  /\ packet # NoPacket => /\ packet \in All \X (0..MaxPacket)
                          /\ queue # <<>> /\ packet[1] = Head(queue)
                          /\ packet[2] <= Len(wbuf[packet[1]])
  /\ said \in [All -> 0..MaxOut + 1] /\ told \in [All -> 0..MaxIn + 1]
  /\ pc \in [All -> {"none", "out", "run", "pipe", "read", "readwait", "death", "bye", "detach",
                     "remove", "flush", "flushwait", "resume", "gone"}]
  /\ need \in [All -> 0..MaxPacket]
  /\ \A t \in All : need[t] # 0 <=> pc[t] \in {"read", "readwait"}
  /\ haz \in [All -> BOOLEAN] /\ known \in [All -> BOOLEAN]
  /\ stage \in [All -> {"live", "dying", "last"}]
  /\ fault \in {"none", "stray", "aborted"}

(* Where a thread stands to be served: the pipe, then the queue. *)
Places(t) == {i \in 1..Len(pipe \o queue) : (pipe \o queue)[i] = t}

(* Has the thread units of this connection to send? *)
Pending(t) == wbuf[t] # <<>> /\ wbuf[t][1].conn = session

(* A thread stands in the pipe or in the queue exactly once while it has   *)
(* something to send, and not at all when it has nothing: offSendMessage   *)
(* tests for empty under the lock and writes the pipe after it, while      *)
(* message_loop empties the buffer, drops the thread or queues it again.   *)
QueuedOnce ==
  connected /\ fault = "none" =>
    \A t \in All : Cardinality(Places(t)) = IF Pending(t) /\ pc[t] # "pipe" THEN 1 ELSE 0

(* Per thread, the server hears and the thread reads what was written to   *)
(* its channel during this connection, in order, nothing twice, nothing    *)
(* left out, and nothing of an earlier connection.                         *)
StreamsExact ==
  connected /\ fault = "none" =>
    \A t \in All :
      /\ heard[t] = Units(1, Len(heard[t])) /\ got[t] = Units(1, Len(got[t]))
      /\ t \in table => /\ heard[t] \o wbuf[t] = Units(1, said[t])
                        /\ got[t] \o rbuf[t] = Units(1, told[t])

(* A thread that has been freed is nowhere the control thread would still  *)
(* find it: that is what offThreadExited flushes for.                      *)
NoDangling ==
  connected /\ fault = "none" =>
    \A t \in All : pc[t] = "gone" => Places(t) = {} /\ t \notin table

(* When message_loop has signalled the threads after a loss, none that is  *)
(* in the table sleeps on: offConnected is cleared before, without the     *)
(* lock that a thread tests it under.                                      *)
TableWoken ==
  ctl \in {"waiting", "down"} => \A t \in table : pc[t] \notin {"readwait", "flushwait"}

(* An exiting thread's flush of what it wrote during this connection ends, *)
(* or the connection is lost.                                              *)
Flushed ==
  \A t \in All :
    pc[t] = "flushwait" /\ Pending(t) ~> (pc[t] # "flushwait" \/ ~connected)

(* message_loop wakes "anybody who is waiting for the remote endpoint to   *)
(* do something" when the connection is lost.                              *)
EverybodyWoken ==
  ctl = "waiting" => \A t \in All : pc[t] \notin {"readwait", "flushwait"}

(* The write to offNetPipe succeeds (writeFdFull aborts when it does not). *)
PipeOpen == fault # "aborted"

(* offThreadExited lets "the other side know the thread is exiting": a     *)
(* thread that waits for the answer has its death sent or to be sent.      *)
DeathTold ==
  \A t \in Threads :
    connected /\ stage[t] = "dying" /\ pc[t] = "readwait" => heard[t] # <<>> \/ Pending(t)
================================================================================
