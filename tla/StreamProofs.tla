----------------------------- MODULE StreamProofs -----------------------------
(***************************************************************************)
(* The channels of the threads, the two containers they are built of, and  *)
(* the clients of tcpmux.  For every set of threads and every bound: a     *)
(* thread stands in the pipe or the queue exactly once while it has        *)
(* something to send, and what is heard and read is what was written.  For *)
(* every buffer size AuxFifo holds the stream, and for every set of values *)
(* AuxQueue is a queue.  For every karma, packet size and number of        *)
(* clients, MuxClients neither loses nor exceeds a client's karma, and     *)
(* uses an id again only when both ends have done with its last client.    *)
(***************************************************************************)
EXTENDS Channels, AuxFifo, AuxQueue, MuxClients, SequenceTheorems, FiniteSetTheorems, TLAPS

(* The channels.                                                           *)

Unit == [conn : Nat, n : Nat]

(* Where a thread is while it is in the table, besides the pipe. *)
Inside == {"out", "run", "read", "readwait", "death", "bye", "detach", "remove"}

(* How far the life of a thread is, by where it is: a thread of the phone  *)
(* writes for itself and tells of its death, a ghost only answers its      *)
(* death; both leave the table before they flush.  A hazard protects what  *)
(* a live thread does with its channel, and the wait for the RESUME.       *)
Life(t) ==
  /\ t \in table <=> pc[t] \in Inside \/ (pc[t] = "pipe" /\ stage[t] # "last")
  /\ t \in Threads =>
       \/ stage[t] = "live" /\ pc[t] = "out"
       \/ stage[t] = "live" /\ pc[t] \in {"run", "pipe", "read", "readwait"} /\ haz[t]
       \/ stage[t] = "dying" /\ pc[t] \in {"read", "readwait"} /\ haz[t]
       \/ stage[t] = "dying" /\ pc[t] \in {"death", "pipe", "bye", "remove", "flush", "flushwait", "gone"}
  /\ t \in Ghosts =>
       \/ stage[t] = "live" /\ pc[t] \in {"none", "read", "readwait", "detach"}
       \/ stage[t] = "dying" /\ pc[t] \in {"remove", "flush", "flushwait", "resume"}
       \/ stage[t] = "last" /\ pc[t] \in {"pipe", "flush", "flushwait", "gone"}

(* The types that the steps need, and the states of the control thread. *)
Types ==
  /\ connected \in BOOLEAN /\ recovered \in BOOLEAN
  /\ ctl \in {"up", "waking", "waiting", "down"} /\ session \in Nat
  /\ towake \subseteq table /\ table \subseteq All
  /\ pipe \in Seq(All) /\ queue \in Seq(All)
  /\ wbuf \in [All -> Seq(Unit)] /\ rbuf \in [All -> Seq(Unit)]
  /\ heard \in [All -> Seq(Unit)] /\ got \in [All -> Seq(Unit)]
  /\ said \in [All -> Nat] /\ told \in [All -> Nat] /\ answer \in [All -> Nat]
  /\ pc \in [All -> {"none", "out", "run", "pipe", "read", "readwait", "death", "bye", "detach",
                     "remove", "flush", "flushwait", "resume", "gone"}]
  /\ need \in [All -> 0..MaxPacket]
  /\ haz \in [All -> BOOLEAN] /\ known \in [All -> BOOLEAN]
  /\ stage \in [All -> {"live", "dying", "last"}]
  /\ fault \in {"none", "stray", "aborted"}

(* While it is not connected the control thread has no queue, and once it  *)
(* has recovered there is no hazard left; a thread asleep for data is one  *)
(* that it will still wake.                                                *)
ControlInv ==
  /\ connected <=> ctl = "up"
  /\ connected => ~recovered
  /\ ctl = "down" => recovered /\ pipe = <<>>
  /\ ctl # "waking" => towake = {}
  /\ ctl # "up" => queue = <<>> /\ packet = NoPacket
  /\ recovered => \A t \in All : ~haz[t]
  /\ ~connected => \A t \in table : pc[t] = "readwait" => ctl = "waking" /\ t \in towake

PacketInv ==
  packet # NoPacket => /\ packet \in All \X Nat
                       /\ queue # <<>> /\ packet[1] = Head(queue)
                       /\ packet[2] <= Len(wbuf[packet[1]])

NeedInv == \A t \in All : need[t] # 0 <=> pc[t] \in {"read", "readwait"}

(* What has never had anything to write or to read. *)
Mute(t) ==
  /\ t \in Ghosts /\ stage[t] # "last" => wbuf[t] = <<>> /\ said[t] = 0 /\ heard[t] = <<>>
  /\ pc[t] = "none" => rbuf[t] = <<>> /\ told[t] = 0 /\ got[t] = <<>>

BaseInv ==
  /\ Types /\ ControlInv /\ PacketInv /\ NeedInv
  /\ \A t \in All : Life(t) /\ Mute(t)

(* No unit is of a connection that is still to come. *)
Past == \A t \in All : \A i \in 1..Len(wbuf[t]) : wbuf[t][i].conn <= session

(* The units of a connection, from the first on. *)
Run(s, c) == \A i \in 1..Len(s) : s[i] = [conn |-> c, n |-> i]

(* What a thread wrote during this connection is what the server has heard *)
(* of it and what is in its buffer.                                        *)
Written(t) ==
  /\ Run(heard[t] \o wbuf[t], session)
  /\ said[t] = Len(heard[t]) + Len(wbuf[t])

(* A thread that has left the table may keep units of an earlier           *)
(* connection, and has written nothing since.                              *)
Stale(t) ==
  /\ t \notin table /\ heard[t] = <<>>
  /\ \A i \in 1..Len(wbuf[t]) : wbuf[t][i].conn # session

(* What a thread wrote and read during a connection, in its buffer and     *)
(* beyond it.                                                              *)
StreamInv(t) ==
  /\ Written(t) \/ Stale(t)
  /\ t \in table => /\ Run(got[t] \o rbuf[t], session)
                    /\ told[t] = Len(got[t]) + Len(rbuf[t])
  /\ Run(got[t], session)
  /\ pc[t] = "pipe" => wbuf[t] # <<>> /\ Written(t)
  /\ pc[t] = "gone" => ~Pending(t)

(* Nothing is in s twice. *)
Once(s) == \A i, j \in 1..Len(s) : s[i] = s[j] => i = j
In(s, t) == \E i \in 1..Len(s) : s[i] = t

(* Between them p and q hold the members of S, each in one place. *)
Queued(p, q, S) ==
  /\ Once(p) /\ Once(q)
  /\ \A t \in All : ~(In(p, t) /\ In(q, t))
  /\ \A t \in All : In(p, t) \/ In(q, t) <=> t \in S

(* The threads that have something to send and are not about to write      *)
(* themselves to the pipe.                                                 *)
Waiting == {t \in All : Pending(t) /\ pc[t] # "pipe"}

(* Cleaned up, the threads in the table have empty buffers and none is on  *)
(* its way to the pipe.                                                    *)
Clean ==
  /\ \A t \in table : wbuf[t] = <<>> /\ rbuf[t] = <<>>
  /\ \A t \in All : pc[t] # "pipe"

ChannelInv ==
  /\ Past
  /\ fault = "none" =>
       /\ recovered => Clean
       /\ connected => Queued(pipe, queue, Waiting) /\ \A t \in All : StreamInv(t)

(* The first part is kept by entering a hazard.                            *)
LEMMA EnterHazardBase == ASSUME BaseInv, NEW t \in All, EnterHazard(t) PROVE BaseInv'
<1> USE DEF BaseInv, EnterHazard, Goto, control, content, threads
<1>1. Types'
  BY DEF Types, All
<1>2. ControlInv'
  BY DEF Types, ControlInv, Life, Inside, All
<1>3. PacketInv'
  BY DEF Types, ControlInv, PacketInv
<1>4. NeedInv'
  BY DEF Types, NeedInv
<1>5. \A u \in All : Life(u)' /\ Mute(u)'
  BY ThreadAssumption DEF Types, Life, Mute, Inside, All
<1> QED
  BY <1>1, <1>2, <1>3, <1>4, <1>5

(* The first part is kept by leaving a hazard.                             *)
LEMMA ClearHazardBase == ASSUME BaseInv, NEW t \in All, ClearHazard(t) PROVE BaseInv'
<1> USE DEF BaseInv, ClearHazard, Goto, control, content, threads
<1>1. Types'
  BY DEF Types, All
<1>2. ControlInv'
  BY DEF Types, ControlInv, Life, Inside, All
<1>3. PacketInv'
  BY DEF Types, ControlInv, PacketInv
<1>4. NeedInv'
  BY DEF Types, NeedInv
<1>5. \A u \in All : Life(u)' /\ Mute(u)'
  BY ThreadAssumption DEF Types, Life, Mute, Inside, All
<1> QED
  BY <1>1, <1>2, <1>3, <1>4, <1>5

(* The first part is kept by the call of offReadBuffer.                    *)
LEMMA ReadBase == ASSUME BaseInv, NEW t \in All, Read(t) PROVE BaseInv'
<1> USE DEF BaseInv, Read, Goto, control, content, threads
<1>1. Types'
  BY DEF Types, All
<1>2. ControlInv'
  BY DEF Types, ControlInv, Life, Inside, All
<1>3. PacketInv'
  BY DEF Types, ControlInv, PacketInv
<1>4. NeedInv'
  BY DEF Types, NeedInv
<1>5. \A u \in All : Life(u)' /\ Mute(u)'
  BY ThreadAssumption DEF Types, Life, Mute, Inside, All
<1> QED
  BY <1>1, <1>2, <1>3, <1>4, <1>5

(* The first part is kept by the start of an exit.                         *)
LEMMA ExitBase == ASSUME BaseInv, NEW t \in All, Exit(t) PROVE BaseInv'
<1> USE DEF BaseInv, Exit, Goto, control, content, threads
<1>1. Types'
  BY DEF Types, All
<1>2. ControlInv'
  BY DEF Types, ControlInv, Life, Inside, All
<1>3. PacketInv'
  BY DEF Types, ControlInv, PacketInv
<1>4. NeedInv'
  BY DEF Types, NeedInv
<1>5. \A u \in All : Life(u)' /\ Mute(u)'
  BY ZenonT(60), ThreadAssumption DEF Types, Life, Mute, Inside, All
<1> QED
  BY <1>1, <1>2, <1>3, <1>4, <1>5

(* The first part is kept by offThreadWaitForResume.                       *)
LEMMA WaitForResumeBase == ASSUME BaseInv, NEW t \in All, WaitForResume(t) PROVE BaseInv'
<1> USE DEF BaseInv, WaitForResume, Goto, control, content, threads
<1>1. Types'
  BY BoundAssumption DEF Types, All
<1>2. ControlInv'
  BY DEF Types, ControlInv, Life, Inside, All
<1>3. PacketInv'
  BY DEF Types, ControlInv, PacketInv
<1>4. NeedInv'
  BY SMTT(30) DEF Types, NeedInv
<1>5. \A u \in All : Life(u)' /\ Mute(u)'
  BY ThreadAssumption DEF Types, Life, Mute, Inside, All
<1> QED
  BY <1>1, <1>2, <1>3, <1>4, <1>5

(* The first part is kept by the end of a daemon.                          *)
LEMMA DetachBase == ASSUME BaseInv, NEW t \in All, Detach(t) PROVE BaseInv'
<1> USE DEF BaseInv, Detach, Goto, control, content, threads
<1>1. Types'
  BY DEF Types, All
<1>2. ControlInv'
  BY DEF Types, ControlInv, Life, Inside, All
<1>3. PacketInv'
  BY DEF Types, ControlInv, PacketInv
<1>4. NeedInv'
  BY DEF Types, NeedInv
<1>5. \A u \in All : Life(u)' /\ Mute(u)'
  BY ZenonT(60), ThreadAssumption DEF Types, Life, Mute, Inside, All
<1> QED
  BY <1>1, <1>2, <1>3, <1>4, <1>5

(* The first part is kept by leaving the table.                            *)
LEMMA RemoveBase == ASSUME BaseInv, NEW t \in All, Remove(t) PROVE BaseInv'
<1> USE DEF BaseInv, Remove, Goto, control, content, threads
<1>1. Types'
  BY DEF Types, ControlInv, All
<1>2. ControlInv'
  BY DEF Types, ControlInv, Life, Inside, All
<1>3. PacketInv'
  BY DEF Types, ControlInv, PacketInv
<1>4. NeedInv'
  BY DEF Types, NeedInv
<1>5. \A u \in All : Life(u)' /\ Mute(u)'
  BY ZenonT(60), ThreadAssumption DEF Types, Life, Mute, Inside, All
<1> QED
  BY <1>1, <1>2, <1>3, <1>4, <1>5

(* The first part is kept by a turn of the flush.                          *)
LEMMA FlushTurnBase == ASSUME BaseInv, NEW t \in All, FlushTurn(t) PROVE BaseInv'
<1> USE DEF BaseInv, FlushTurn, AfterFlush, Goto, control, content, threads
<1>1. Types'
  BY DEF Types, All
<1>2. ControlInv'
  BY DEF Types, ControlInv, Life, Inside, All
<1>3. PacketInv'
  BY DEF Types, ControlInv, PacketInv
<1>4. NeedInv'
  BY DEF Types, NeedInv
<1>5. \A u \in All : Life(u)' /\ Mute(u)'
  <2> SUFFICES ASSUME NEW u \in All PROVE Life(u)' /\ Mute(u)'
    OBVIOUS
  <2>1. CASE u # t
    BY <2>1 DEF Types, Life, Mute, Inside, All
  <2>2. CASE u = t
    <3>1. pc'[t] = "flushwait" \/ pc'[t] = AfterFlush(t)
      BY DEF Types
    <3>2. /\ pc[t] = "flush" /\ table' = table /\ stage' = stage
          /\ wbuf' = wbuf /\ said' = said /\ heard' = heard
      OBVIOUS
    <3>3. pc'[t] \in {"flushwait", "resume", "gone"} /\ (pc'[t] = "resume" => t \in Ghosts /\ stage[t] = "dying")
          /\ (pc'[t] = "gone" => ~(t \in Ghosts /\ stage[t] = "dying"))
      BY <3>1
    <3> QED
      BY ONLY <2>2, <3>2, <3>3, ThreadAssumption, Life(t), Mute(t) DEF Life, Mute, Inside, All
  <2> QED
    BY <2>1, <2>2
<1> QED
  BY <1>1, <1>2, <1>3, <1>4, <1>5

(* The first part is kept by the signal to a thread.                       *)
LEMMA SignalThreadBase == ASSUME BaseInv, NEW t \in All, SignalThread(t) PROVE BaseInv'
<1> USE DEF BaseInv, SignalThread, Signalled, Goto, control, content, threads
<1>1. Types'
  BY DEF Types, All
<1>2. ControlInv'
  BY DEF Types, ControlInv, Life, Inside, All
<1>3. PacketInv'
  BY DEF Types, ControlInv, PacketInv
<1>4. NeedInv'
  BY DEF Types, NeedInv
<1>5. \A u \in All : Life(u)' /\ Mute(u)'
  BY ZenonT(60), ThreadAssumption DEF Types, Life, Mute, Inside, All
<1> QED
  BY <1>1, <1>2, <1>3, <1>4, <1>5

(* The first part is kept by the choice of a writer.                       *)
LEMMA PickWriterBase == ASSUME BaseInv, PickWriter PROVE BaseInv'
<1> USE DEF BaseInv, PickWriter, Least, Goto, control, content, threads
<1>1. Types'
  BY DEF Types, All
<1>2. ControlInv'
  BY DEF Types, ControlInv, Life, Inside, All
<1>3. PacketInv'
  <2> SUFFICES ASSUME packet' # NoPacket
               PROVE  /\ packet' \in All \X Nat
                      /\ queue # <<>> /\ packet'[1] = Head(queue) /\ packet'[2] <= Len(wbuf[packet'[1]])
    BY DEF PacketInv
  <2> DEFINE w == Head(queue)
             k == Len(wbuf[w])
             most == Least(k, MaxPacket)
  <2>1. w \in All /\ k \in Nat /\ queue # <<>>
    <3>1. queue # <<>>
      OBVIOUS
    <3>2. queue \in Seq(All) /\ wbuf \in [All -> Seq(Unit)]
      BY ONLY Types DEF Types
    <3> QED
      BY ONLY <3>1, <3>2
  <2>2. PICK n \in IF most = 0 THEN {0} ELSE 1..most : packet' = <<w, n>>
    OBVIOUS
  <2> HIDE DEF w, k
  <2>3. most \in Nat /\ most <= k
    BY <2>1, BoundAssumption
  <2> HIDE DEF most
  <2>4. n \in Nat /\ n <= k
    BY <2>1, <2>2, <2>3
  <2> QED
    BY ONLY <2>1, <2>2, <2>4 DEF w, k
<1>4. NeedInv'
  BY DEF Types, NeedInv
<1>5. \A u \in All : Life(u)' /\ Mute(u)'
  BY ThreadAssumption DEF Types, Life, Mute, Inside, All
<1> QED
  BY <1>1, <1>2, <1>3, <1>4, <1>5

(* The first part is kept by the end of the signals.                       *)
LEMMA WokenBase == ASSUME BaseInv, Woken PROVE BaseInv'
<1> USE DEF BaseInv, Woken, Goto, control, content, threads
<1>1. Types'
  BY DEF Types, All
<1>2. ControlInv'
  BY DEF Types, ControlInv, Life, Inside, All
<1>3. PacketInv'
  BY DEF Types, ControlInv, PacketInv
<1>4. NeedInv'
  BY DEF Types, NeedInv
<1>5. \A u \in All : Life(u)' /\ Mute(u)'
  BY ThreadAssumption DEF Types, Life, Mute, Inside, All
<1> QED
  BY <1>1, <1>2, <1>3, <1>4, <1>5

(* The first part is kept by the loss of the connection.                   *)
LEMMA LoseBase == ASSUME BaseInv, Lose PROVE BaseInv'
<1> USE DEF BaseInv, Lose, Goto, control, content, threads
<1>1. Types'
  <2>1. queue' \in Seq(All) /\ towake' \subseteq table
    BY DEF Types
  <2> QED
    BY <2>1 DEF Types
<1>2. ControlInv'
  BY DEF Types, ControlInv, Life, Inside, All
<1>3. PacketInv'
  BY DEF Types, ControlInv, PacketInv
<1>4. NeedInv'
  BY DEF Types, NeedInv
<1>5. \A u \in All : Life(u)' /\ Mute(u)'
  BY ThreadAssumption DEF Types, Life, Mute, Inside, All
<1> QED
  BY <1>1, <1>2, <1>3, <1>4, <1>5

(* The first part is kept by the end of the pipe.                          *)
LEMMA ClosePipeBase == ASSUME BaseInv, ClosePipe PROVE BaseInv'
<1> USE DEF BaseInv, ClosePipe, Goto, control, content, threads
<1>1. Types'
  BY DEF Types, All
<1>2. ControlInv'
  BY DEF Types, ControlInv, Life, Inside, All
<1>3. PacketInv'
  BY DEF Types, ControlInv, PacketInv
<1>4. NeedInv'
  BY DEF Types, NeedInv
<1>5. \A u \in All : Life(u)' /\ Mute(u)'
  BY ThreadAssumption DEF Types, Life, Mute, Inside, All
<1> QED
  BY <1>1, <1>2, <1>3, <1>4, <1>5

(* The first part is kept by the write to the pipe.                        *)
LEMMA WritePipeBase == ASSUME BaseInv, NEW t \in All, WritePipe(t) PROVE BaseInv'
<1> USE DEF BaseInv, WritePipe, AfterSend, Goto, control, content, threads
<1>0. \/ /\ ctl # "down" /\ pipe' = Append(pipe, t) /\ fault' = fault
         /\ \E x \in {"run", "bye", "flush"} :
              /\ x = "run" <=> stage[t] = "live"
              /\ x = "bye" <=> stage[t] = "dying"
              /\ pc' = [pc EXCEPT ![t] = x]
      \/ ctl = "down" /\ pipe' = pipe /\ pc' = pc /\ fault' = "aborted"
  BY DEF Types
<1>00. /\ pc[t] = "pipe" /\ UNCHANGED <<connected, recovered, ctl, towake, session, queue, packet>>
       /\ UNCHANGED <<wbuf, rbuf, said, told, answer, heard, got, need, haz, known, stage, table>>
  OBVIOUS
<1>1. Types'
  <2>0. pipe \in Seq(All) /\ t \in All
    BY DEF Types
  <2>1. pipe' \in Seq(All)
    BY ONLY <1>0, <2>0
  <2> QED
    BY ONLY <1>0, <1>00, <2>1, Types DEF Types
<1>2. ControlInv'
  BY SMTT(30) DEF Types, ControlInv, Life, Inside, All
<1>3. PacketInv'
  BY DEF Types, ControlInv, PacketInv
<1>4. NeedInv'
  BY DEF Types, NeedInv
<1>5. \A u \in All : Life(u)' /\ Mute(u)'
  <2> SUFFICES ASSUME NEW u \in All PROVE Life(u)' /\ Mute(u)'
    OBVIOUS
  <2>1. Life(u)'
    BY ONLY <1>0, <1>00, ThreadAssumption, Types, Life(u), u \in All, t \in All DEF Types, Life, Inside
  <2>2. Mute(u)'
    BY ONLY <1>0, <1>00, Types, Mute(u), u \in All, t \in All DEF Types, Mute
  <2> QED
    BY <2>1, <2>2
<1> QED
  BY <1>1, <1>2, <1>3, <1>4, <1>5

(* The first part is kept by the read from the pipe.                       *)
LEMMA ReadPipeBase == ASSUME BaseInv, ReadPipe PROVE BaseInv'
<1> USE DEF BaseInv, ReadPipe, Goto, control, content, threads
<1>1. Types'
  BY SMTT(30) DEF Types, All
<1>2. ControlInv'
  BY DEF Types, ControlInv, Life, Inside, All
<1>3. PacketInv'
  <2>0. queue \in Seq(All) /\ Head(pipe) \in All /\ queue' = Append(queue, Head(pipe))
    BY DEF Types
  <2>1. queue # <<>> => queue' # <<>> /\ Head(queue') = Head(queue)
    BY ONLY <2>0
  <2> QED
    BY <2>1 DEF PacketInv
<1>4. NeedInv'
  BY DEF Types, NeedInv
<1>5. \A u \in All : Life(u)' /\ Mute(u)'
  BY ThreadAssumption DEF Types, Life, Mute, Inside, All
<1> QED
  BY <1>1, <1>2, <1>3, <1>4, <1>5


-----------------------------------------------------------------------------
(* Units that follow each other, as a sequence.                            *)
LEMMA UnitsSeq ==
  ASSUME session \in Nat, NEW a \in Nat, NEW k \in Nat
  PROVE  /\ Units(a + 1, a + k) \in Seq(Unit) /\ Len(Units(a + 1, a + k)) = k
         /\ \A i \in 1..k : Units(a + 1, a + k)[i] = [conn |-> session, n |-> a + i]
<1> DEFINE v == [i \in 1..k |-> [conn |-> session, n |-> a + i]]
<1>1. Units(a + 1, a + k) = v
  <2>1. (a + k) - (a + 1) + 1 = k /\ \A i \in 1..k : (a + 1) + i - 1 = a + i
    OBVIOUS
  <2> QED
    BY <2>1 DEF Units
<1>2. v \in Seq(Unit) /\ Len(v) = k /\ \A i \in 1..k : v[i] = [conn |-> session, n |-> a + i]
  <2>1. \A i \in 1..k : [conn |-> session, n |-> a + i] \in Unit
    BY DEF Unit
  <2> QED
    BY <2>1
<1> QED
  BY <1>1, <1>2

(* What offSendMessage does to the buffer.                                 *)
LEMMA Wrote ==
  ASSUME Types, NEW t \in All, NEW k \in Nat, SendMessage(t, k)
  PROVE  \E v \in Seq(Unit) :
           /\ Len(v) = k /\ \A i \in 1..k : v[i] = [conn |-> session, n |-> said[t] + i]
           /\ wbuf' \in [All -> Seq(Unit)] /\ wbuf'[t] = wbuf[t] \o v
           /\ \A u \in All : u # t => wbuf'[u] = wbuf[u] /\ said'[u] = said[u]
           /\ said' \in [All -> Nat] /\ said'[t] = said[t] + k
           /\ UNCHANGED <<rbuf, told, answer, heard, got>>
<1> DEFINE v == Units(said[t] + 1, said[t] + k)
<1>1. said[t] \in Nat /\ session \in Nat /\ wbuf[t] \in Seq(Unit) /\ wbuf \in [All -> Seq(Unit)] /\ said \in [All -> Nat]
  BY DEF Types
<1>2. v \in Seq(Unit) /\ Len(v) = k /\ \A i \in 1..k : v[i] = [conn |-> session, n |-> said[t] + i]
  BY <1>1, UnitsSeq
<1> HIDE DEF v
<1>3. wbuf' = [wbuf EXCEPT ![t] = wbuf[t] \o v] /\ said' = [said EXCEPT ![t] = said[t] + k]
      /\ UNCHANGED <<rbuf, told, answer, heard, got>>
  BY DEF SendMessage, v
<1>4. wbuf[t] \o v \in Seq(Unit)
  BY <1>1, <1>2
<1>5. /\ wbuf' \in [All -> Seq(Unit)] /\ wbuf'[t] = wbuf[t] \o v
      /\ \A u \in All : u # t => wbuf'[u] = wbuf[u] /\ said'[u] = said[u]
      /\ said' \in [All -> Nat] /\ said'[t] = said[t] + k
  BY ONLY <1>1, <1>3, <1>4, t \in All, k \in Nat
<1> QED
  BY ONLY <1>2, <1>3, <1>5

(* A step that writes k units keeps the invariant of the control thread    *)
(* and of where the threads are, if it leaves the writer where it may be.  *)
LEMMA WriteBase ==
  ASSUME BaseInv, NEW t \in All, NEW k \in Nat, SendMessage(t, k), UNCHANGED <<control, pipe, need, haz, known, table>>,
         t \in Threads \/ stage'[t] = "last",
         stage' \in [All -> {"live", "dying", "last"}], \A u \in All : u # t => stage'[u] = stage[u] /\ pc'[u] = pc[u],
         pc' \in [All -> {"run", "pipe", "bye", "flush"} \cup {pc[u] : u \in All}],
         pc'[t] \in {"run", "pipe", "bye", "flush"}, pc[t] \notin {"read", "readwait"},
         fault' \in {"none", "stray", "aborted"}, Life(t)'
  PROVE  BaseInv'
<1> USE DEF BaseInv, control
<1>0. PICK v \in Seq(Unit) :
           /\ Len(v) = k
           /\ wbuf' \in [All -> Seq(Unit)] /\ wbuf'[t] = wbuf[t] \o v
           /\ \A u \in All : u # t => wbuf'[u] = wbuf[u] /\ said'[u] = said[u]
           /\ said' \in [All -> Nat]
           /\ UNCHANGED <<rbuf, told, answer, heard, got>>
  BY Wrote
<1>00. pc' \in [All -> {"none", "out", "run", "pipe", "read", "readwait", "death", "bye", "detach",
                     "remove", "flush", "flushwait", "resume", "gone"}]
  BY DEF Types
<1>1. Types'
  BY <1>0, <1>00 DEF Types
<1>2. ControlInv'
  BY DEF Types, ControlInv, All
<1>3. PacketInv'
  <2>1. \A u \in All : Len(wbuf'[u]) \in Nat /\ Len(wbuf[u]) \in Nat /\ Len(wbuf[u]) <= Len(wbuf'[u])
    <3> SUFFICES ASSUME NEW u \in All
                 PROVE  Len(wbuf'[u]) \in Nat /\ Len(wbuf[u]) \in Nat /\ Len(wbuf[u]) <= Len(wbuf'[u])
      OBVIOUS
    <3>1. wbuf[u] \in Seq(Unit)
      BY DEF Types
    <3> QED
      BY <1>0, <3>1
  <2> SUFFICES ASSUME packet # NoPacket PROVE PacketInv'
    BY DEF PacketInv
  <2>2. packet[1] \in All /\ packet[2] \in Nat /\ packet[2] <= Len(wbuf[packet[1]])
    BY DEF PacketInv
  <2>3. packet[2] <= Len(wbuf'[packet[1]])
    BY <2>1, <2>2
  <2> QED
    BY <2>3 DEF PacketInv
<1>4. NeedInv'
  BY DEF Types, NeedInv
<1>5. ASSUME NEW u \in All PROVE Life(u)' /\ Mute(u)'
  <2>1. CASE u = t
    BY <1>0, <2>1, ThreadAssumption DEF Mute, Types, Life, Inside, All
  <2>2. CASE u # t
    BY ZenonT(60), <1>0, <2>2 DEF Mute, Types, Life, Inside
  <2> QED
    BY <2>1, <2>2
<1> QED
  BY <1>1, <1>2, <1>3, <1>4, <1>5

(* The first part is kept by offSendMessage.                               *)
LEMMA SendBase == ASSUME BaseInv, NEW t \in All, Send(t) PROVE BaseInv'
<1>1. PICK k \in 1..MaxPacket : SendMessage(t, k)
  BY DEF Send
<1>2. pc[t] = "run" /\ \E x \in {"pipe", "run"} : pc' = [pc EXCEPT ![t] = x]
  BY DEF Send, Goto
<1>3. UNCHANGED <<control, pipe, need, haz, known, stage, table, fault>>
  BY DEF Send
<1>4. pc \in [All -> {pc[u] : u \in All}] /\ stage \in [All -> {"live", "dying", "last"}] /\ fault \in {"none", "stray", "aborted"}
  BY DEF BaseInv, Types
<1>5. Life(t)' /\ t \in Threads
  BY <1>2, <1>3, <1>4, ThreadAssumption DEF BaseInv, Life, Inside, All
<1>6. k \in Nat
  BY BoundAssumption
<1> QED
  BY <1>1, <1>2, <1>3, <1>4, <1>5, <1>6, WriteBase

(* The first part is kept by the news of a death.                          *)
LEMMA DeathBase == ASSUME BaseInv, NEW t \in All, Death(t) PROVE BaseInv'
<1>1. SendMessage(t, 1)
  BY DEF Death
<1>2. pc[t] = "death" /\ \E x \in {"pipe", "bye"} : pc' = [pc EXCEPT ![t] = x]
  BY DEF Death, Goto
<1>3. UNCHANGED <<control, pipe, need, haz, known, stage, table>>
  BY DEF Death
<1>4. pc \in [All -> {pc[u] : u \in All}] /\ stage \in [All -> {"live", "dying", "last"}] /\ fault' \in {"none", "stray", "aborted"}
  BY DEF BaseInv, Types, Death, Stray
<1>5. Life(t)' /\ t \in Threads
  BY <1>2, <1>3, <1>4, ThreadAssumption DEF BaseInv, Life, Inside, All
<1> QED
  BY <1>1, <1>2, <1>3, <1>4, <1>5, WriteBase

(* The first part is kept by a ghost's last RESUME.                        *)
LEMMA ResumeBase == ASSUME BaseInv, NEW t \in All, Resume(t) PROVE BaseInv'
<1>1. SendMessage(t, 1)
  BY DEF Resume
<1>2. pc[t] = "resume" /\ \E x \in {"pipe", "flush"} : pc' = [pc EXCEPT ![t] = x]
  BY DEF Resume, Goto
<1>3. UNCHANGED <<control, pipe, need, haz, known, table>> /\ stage' = [stage EXCEPT ![t] = "last"]
  BY DEF Resume
<1>4. pc \in [All -> {pc[u] : u \in All}] /\ stage \in [All -> {"live", "dying", "last"}] /\ fault' \in {"none", "stray", "aborted"}
  BY DEF BaseInv, Types, Resume, Stray
<1>5. Life(t)' /\ t \in Ghosts /\ stage'[t] = "last"
  BY <1>2, <1>3, <1>4, ThreadAssumption DEF BaseInv, Life, Inside, All
<1> QED
  BY <1>1, <1>2, <1>3, <1>4, <1>5, WriteBase

(* What a turn of offReadBuffer takes, and where the thread goes on.       *)
LEMMA ReadFacts ==
  ASSUME BaseInv, NEW t \in All, ReadTurn(t)
  PROVE  \E n \in 0..Len(rbuf[t]) : \E x \in {"readwait", "detach", "run", "remove", "read"} :
           /\ got' \in [All -> Seq(Unit)] /\ got'[t] = got[t] \o SubSeq(rbuf[t], 1, n)
           /\ rbuf' \in [All -> Seq(Unit)] /\ rbuf'[t] = SubSeq(rbuf[t], n + 1, Len(rbuf[t]))
           /\ \A u \in All : u # t => /\ got'[u] = got[u] /\ rbuf'[u] = rbuf[u]
                                      /\ haz'[u] = haz[u] /\ need'[u] = need[u]
           /\ pc[t] = "read" /\ pc' = [pc EXCEPT ![t] = x]
           /\ haz' \in [All -> BOOLEAN] /\ need' \in [All -> 0..MaxPacket]
           /\ need'[t] # 0 <=> x \in {"read", "readwait"}
           /\ x = "readwait" => connected /\ haz' = haz
           /\ x = "detach" => t \in Ghosts /\ haz' = haz
           /\ x = "run" => t \in Threads /\ stage[t] = "live" /\ haz' = haz
           /\ x = "remove" => t \in Threads /\ stage[t] = "dying" /\ ~haz'[t]
           /\ x = "read" => t \in Threads /\ stage[t] = "dying" /\ haz' = haz
<1>0. PICK n \in Handed(t) :
      /\ got' = [got EXCEPT ![t] = @ \o SubSeq(rbuf[t], 1, n)]
      /\ rbuf' = [rbuf EXCEPT ![t] = SubSeq(@, n + 1, Len(@))]
      /\ IF connected /\ n < need[t]
         THEN /\ need' = [need EXCEPT ![t] = @ - n]
              /\ Goto(t, "readwait")
              /\ UNCHANGED haz
         ELSE ReadDone(t)
  BY DEF ReadTurn
<1>1. /\ rbuf \in [All -> Seq(Unit)] /\ rbuf[t] \in Seq(Unit) /\ got \in [All -> Seq(Unit)] /\ got[t] \in Seq(Unit)
      /\ need \in [All -> 0..MaxPacket] /\ haz \in [All -> BOOLEAN] /\ haz[t] \in BOOLEAN /\ need[t] \in 0..MaxPacket
      /\ pc \in [All -> {"none", "out", "run", "pipe", "read", "readwait", "death", "bye", "detach",
                     "remove", "flush", "flushwait", "resume", "gone"}]
      /\ stage[t] \in {"live", "dying", "last"} /\ MaxPacket \in Nat /\ MaxPacket >= 1 /\ connected \in BOOLEAN
  <2>1. Types
    BY ONLY BaseInv DEF BaseInv
  <2>2. /\ rbuf \in [All -> Seq(Unit)] /\ got \in [All -> Seq(Unit)]
        /\ need \in [All -> 0..MaxPacket] /\ haz \in [All -> BOOLEAN]
        /\ stage \in [All -> {"live", "dying", "last"}] /\ connected \in BOOLEAN
        /\ pc \in [All -> {"none", "out", "run", "pipe", "read", "readwait", "death", "bye", "detach",
                     "remove", "flush", "flushwait", "resume", "gone"}]
    BY ONLY <2>1 DEF Types
  <2>3. MaxPacket \in Nat /\ MaxPacket >= 1
    BY ONLY BoundAssumption
  <2> QED
    BY ONLY <2>2, <2>3, t \in All
<1>2. n \in 0..Len(rbuf[t]) /\ (connected /\ n < need[t] => need[t] - n \in 1..MaxPacket)
  BY <1>1 DEF Handed, Least
<1>3. /\ pc[t] = "read"
      /\ got' = [got EXCEPT ![t] = got[t] \o SubSeq(rbuf[t], 1, n)]
      /\ rbuf' = [rbuf EXCEPT ![t] = SubSeq(rbuf[t], n + 1, Len(rbuf[t]))]
      /\ \/ /\ connected /\ n < need[t]
            /\ need' = [need EXCEPT ![t] = need[t] - n]
            /\ pc' = [pc EXCEPT ![t] = "readwait"] /\ haz' = haz
         \/ ReadDone(t)
  BY <1>0 DEF ReadTurn, Goto
<1>4. SubSeq(rbuf[t], 1, n) \in Seq(Unit) /\ SubSeq(rbuf[t], n + 1, Len(rbuf[t])) \in Seq(Unit)
      /\ got[t] \o SubSeq(rbuf[t], 1, n) \in Seq(Unit)
  BY <1>1, <1>2
<1>5. /\ got' \in [All -> Seq(Unit)] /\ got'[t] = got[t] \o SubSeq(rbuf[t], 1, n)
      /\ rbuf' \in [All -> Seq(Unit)] /\ rbuf'[t] = SubSeq(rbuf[t], n + 1, Len(rbuf[t]))
      /\ \A u \in All : u # t => got'[u] = got[u] /\ rbuf'[u] = rbuf[u]
  BY ONLY <1>1, <1>3, <1>4, t \in All
<1>7. Life(t)
  BY DEF BaseInv
<1>8. CASE connected /\ n < need[t]
           /\ need' = [need EXCEPT ![t] = need[t] - n]
           /\ pc' = [pc EXCEPT ![t] = "readwait"] /\ haz' = haz
  <2>1. /\ \A u \in All : u # t => haz'[u] = haz[u] /\ need'[u] = need[u]
        /\ haz' \in [All -> BOOLEAN] /\ need' \in [All -> 0..MaxPacket] /\ need'[t] # 0
    BY ONLY <1>1, <1>2, <1>8, t \in All
  <2> QED
    BY ONLY <1>2, <1>3, <1>5, <1>8, <2>1
<1>9. CASE ReadDone(t)
  <2>1. PICK x \in {"detach", "run", "remove", "read"} :
          /\ pc' = [pc EXCEPT ![t] = x]
          /\ need' = [need EXCEPT ![t] = IF x = "read" THEN 1 ELSE 0]
          /\ x = "remove" => haz' = [haz EXCEPT ![t] = FALSE]
          /\ x # "remove" => haz' = haz
          /\ x = "detach" => t \in Ghosts
          /\ x = "run" => t \in Threads /\ stage[t] = "live"
          /\ x \in {"read", "remove"} => t \in Threads /\ stage[t] = "dying"
    <3>0. haz = [haz EXCEPT ![t] = haz[t] /\ TRUE] /\ [haz EXCEPT ![t] = FALSE] = [haz EXCEPT ![t] = haz[t] /\ FALSE]
      BY <1>1
    <3>1. CASE t \in Ghosts
      <4>1. t \notin Threads /\ stage[t] = "live"
        BY <1>3, <1>7, <3>1, ThreadAssumption DEF Life
      <4> QED
        BY <1>1, <1>9, <3>0, <3>1, <4>1 DEF ReadDone, Ended, Goto
    <3>2. CASE t \in Threads /\ stage[t] = "live"
      <4>1. t \notin Ghosts
        BY <3>2, ThreadAssumption
      <4> QED
        BY <1>1, <1>9, <3>0, <3>2, <4>1 DEF ReadDone, Ended, Goto
    <3>3. CASE t \in Threads /\ stage[t] = "dying"
      <4>1. t \notin Ghosts
        BY <3>3, ThreadAssumption
      <4>2. CASE Ended(t)
        BY <1>1, <1>9, <3>0, <3>3, <4>1, <4>2 DEF ReadDone, Goto
      <4>3. CASE ~Ended(t)
        BY <1>1, <1>9, <3>0, <3>3, <4>1, <4>3 DEF ReadDone, Goto
      <4> QED
        BY <4>2, <4>3
    <3> QED
      BY <1>3, <1>7, <3>1, <3>2, <3>3 DEF Life, All
  <2>2. /\ \A u \in All : u # t => haz'[u] = haz[u]
        /\ haz' \in [All -> BOOLEAN] /\ (x = "remove" => ~haz'[t]) /\ (x # "remove" => haz' = haz)
    BY ONLY <1>1, <2>1, t \in All
  <2>3. PICK m \in 0..1 : need' = [need EXCEPT ![t] = m] /\ (m # 0 <=> x = "read")
    <3>1. CASE x = "read"
      BY ONLY <2>1, <3>1, 1 \in 0..1, 1 # 0
    <3>2. CASE x # "read"
      BY ONLY <2>1, <3>2, 0 \in 0..1
    <3> QED
      BY <3>1, <3>2
  <2>4. /\ \A u \in All : u # t => need'[u] = need[u]
        /\ need' \in [All -> 0..MaxPacket] /\ (need'[t] # 0 <=> x = "read")
    BY ONLY <1>1, <2>3, t \in All
  <2> QED
    BY ONLY <1>2, <1>3, <1>5, <2>1, <2>2, <2>4
<1> QED
  BY <1>3, <1>8, <1>9

(* The first part is kept by a turn of offReadBuffer.                      *)
LEMMA ReadTurnBase == ASSUME BaseInv, NEW t \in All, ReadTurn(t) PROVE BaseInv'
<1> USE DEF BaseInv
<1>1. PICK n \in 0..Len(rbuf[t]), x \in {"readwait", "detach", "run", "remove", "read"} :
           /\ got' \in [All -> Seq(Unit)]
           /\ rbuf' \in [All -> Seq(Unit)]
           /\ \A u \in All : u # t => /\ got'[u] = got[u] /\ rbuf'[u] = rbuf[u]
                                      /\ haz'[u] = haz[u] /\ need'[u] = need[u]
           /\ pc[t] = "read" /\ pc' = [pc EXCEPT ![t] = x]
           /\ haz' \in [All -> BOOLEAN] /\ need' \in [All -> 0..MaxPacket]
           /\ need'[t] # 0 <=> x \in {"read", "readwait"}
           /\ x = "readwait" => connected /\ haz' = haz
           /\ x = "detach" => t \in Ghosts /\ haz' = haz
           /\ x = "run" => t \in Threads /\ stage[t] = "live" /\ haz' = haz
           /\ x = "remove" => t \in Threads /\ stage[t] = "dying" /\ ~haz'[t]
           /\ x = "read" => t \in Threads /\ stage[t] = "dying" /\ haz' = haz
  BY ZenonT(60), ReadFacts
<1>2. UNCHANGED <<control, pipe, wbuf, said, told, answer, heard, known, stage, table, fault>>
  BY DEF ReadTurn
<1> USE DEF control
<1>3. pc' \in [All -> {"none", "out", "run", "pipe", "read", "readwait", "death", "bye", "detach",
                     "remove", "flush", "flushwait", "resume", "gone"}]
      /\ \A u \in All : (u = t => pc'[u] = x) /\ (u # t => pc'[u] = pc[u])
  BY <1>1 DEF Types
<1>4. Types'
  BY <1>1, <1>2, <1>3 DEF Types
<1>5. ControlInv'
  <2>1. \A u \in All : haz'[u] => haz[u]
    BY <1>1
  <2>2. ~connected => \A u \in All : pc'[u] = "readwait" => pc[u] = "readwait"
    BY <1>1, <1>3
  <2>3. table \subseteq All
    BY DEF Types
  <2> QED
    BY ONLY ControlInv, <1>2, <2>1, <2>2, <2>3 DEF ControlInv, control
<1>6. PacketInv'
  BY <1>2 DEF PacketInv
<1>7. NeedInv'
  BY ZenonT(60), <1>1, <1>3 DEF NeedInv
<1>8. ASSUME NEW u \in All PROVE Life(u)' /\ Mute(u)'
  <2>1. CASE u # t
    BY ONLY Life(u), Mute(u), u \in All, <1>1, <1>2, <1>3, <2>1 DEF Life, Mute
  <2>2. CASE u = t
    <3>1. Life(t) /\ Mute(t)
      OBVIOUS
    <3>2. ~(t \in Threads /\ t \in Ghosts)
      BY ThreadAssumption
    <3>3. stage[t] = "live" \/ (stage[t] = "dying" /\ t \in Threads)
      BY <1>1, <3>1 DEF Life, All
    <3>4. haz[t] \/ t \in Ghosts
      BY <1>1, <3>1 DEF Life, All
    <3>5. /\ stage'[t] = stage[t] /\ table' = table /\ pc'[t] = x /\ pc[t] = "read" /\ wbuf' = wbuf /\ said' = said
          /\ heard' = heard
      BY <1>1, <1>2, <1>3
    <3>6. Life(t)'
      BY ONLY <1>1, <3>1, <3>2, <3>3, <3>4, <3>5 DEF Life, Inside
    <3>7. Mute(t)'
      BY ONLY <3>1, <3>3, <3>5, x \in {"readwait", "detach", "run", "remove", "read"} DEF Mute
    <3> QED
      BY <2>2, <3>6, <3>7
  <2> QED
    BY <2>1, <2>2
<1> QED
  BY <1>4, <1>5, <1>6, <1>7, <1>8

(* What WritePacket does to the buffer and to the sleep of its thread.     *)
LEMMA PacketFacts ==
  ASSUME BaseInv, WritePacket
  PROVE  \E t \in All : \E n \in 0..Len(wbuf[t]) :
           /\ ctl = "up" /\ queue # <<>> /\ t = Head(queue) /\ packet = <<t, n>>
           /\ heard' \in [All -> Seq(Unit)] /\ heard'[t] = heard[t] \o SubSeq(wbuf[t], 1, n)
           /\ wbuf' \in [All -> Seq(Unit)] /\ wbuf'[t] = SubSeq(wbuf[t], n + 1, Len(wbuf[t]))
           /\ \A u \in All : u # t => heard'[u] = heard[u] /\ wbuf'[u] = wbuf[u] /\ pc'[u] = pc[u]
           /\ packet' = NoPacket
           /\ wbuf'[t] = <<>> => queue' = Tail(queue)
           /\ wbuf'[t] # <<>> => queue' = Append(Tail(queue), t)
           /\ queue' \in Seq(All)
           /\ pc' \in [All -> {"none", "out", "run", "pipe", "read", "readwait", "death", "bye", "detach",
                     "remove", "flush", "flushwait", "resume", "gone"}]
           /\ \/ pc'[t] = pc[t]
              \/ pc[t] = "readwait" /\ pc'[t] = "read"
              \/ pc[t] = "flushwait" /\ pc'[t] = "flush"
<1> DEFINE PC == {"none", "out", "run", "pipe", "read", "readwait", "death", "bye", "detach",
                     "remove", "flush", "flushwait", "resume", "gone"}
           t == packet[1]
           n == packet[2]
<1>1. ctl = "up" /\ t \in All /\ n \in Nat /\ queue # <<>> /\ t = Head(queue) /\ n <= Len(wbuf[t]) /\ packet = <<t, n>>
  BY DEF WritePacket, BaseInv, PacketInv
<1>2. /\ wbuf \in [All -> Seq(Unit)] /\ heard \in [All -> Seq(Unit)] /\ queue \in Seq(All) /\ pc \in [All -> PC]
      /\ wbuf[t] \in Seq(Unit) /\ heard[t] \in Seq(Unit)
  BY <1>1 DEF BaseInv, Types
<1>3. /\ heard' = [heard EXCEPT ![t] = heard[t] \o SubSeq(wbuf[t], 1, n)]
      /\ wbuf' = [wbuf EXCEPT ![t] = SubSeq(wbuf[t], n + 1, Len(wbuf[t]))]
      /\ packet' = NoPacket
      /\ queue' = Tail(queue) \o Again(t, n)
      /\ pc' = [pc EXCEPT ![t] = WakeIfEmpty(t, n)]
  BY DEF WritePacket, Goto, Rest
<1>4. WakeIfEmpty(t, n) \in PC
      /\ \/ WakeIfEmpty(t, n) = pc[t]
         \/ pc[t] = "readwait" /\ WakeIfEmpty(t, n) = "read"
         \/ pc[t] = "flushwait" /\ WakeIfEmpty(t, n) = "flush"
  BY <1>1, <1>2 DEF WakeIfEmpty, Signalled
<1>5. Again(t, n) = IF SubSeq(wbuf[t], n + 1, Len(wbuf[t])) = <<>> THEN <<>> ELSE <<t>>
  BY DEF Again, Rest
<1> HIDE DEF t, n, PC
<1>6. n \in 0..Len(wbuf[t])
  BY <1>1, <1>2
<1>7. SubSeq(wbuf[t], n + 1, Len(wbuf[t])) \in Seq(Unit) /\ SubSeq(wbuf[t], 1, n) \in Seq(Unit)
      /\ heard[t] \o SubSeq(wbuf[t], 1, n) \in Seq(Unit)
  BY <1>2, <1>6
<1>8. /\ heard' \in [All -> Seq(Unit)] /\ heard'[t] = heard[t] \o SubSeq(wbuf[t], 1, n)
      /\ wbuf' \in [All -> Seq(Unit)] /\ wbuf'[t] = SubSeq(wbuf[t], n + 1, Len(wbuf[t]))
      /\ \A u \in All : u # t => heard'[u] = heard[u] /\ wbuf'[u] = wbuf[u] /\ pc'[u] = pc[u]
      /\ pc' \in [All -> PC] /\ pc'[t] = WakeIfEmpty(t, n)
  BY ONLY <1>1, <1>2, <1>3, <1>4, <1>7
<1>9. /\ wbuf'[t] = <<>> => queue' = Tail(queue)
      /\ wbuf'[t] # <<>> => queue' = Append(Tail(queue), t)
      /\ queue' \in Seq(All)
  <2>1. Tail(queue) \in Seq(All) /\ Tail(queue) \o <<>> = Tail(queue) /\ Tail(queue) \o <<t>> = Append(Tail(queue), t)
        /\ Append(Tail(queue), t) \in Seq(All)
    BY ONLY <1>1, <1>2
  <2> QED
    BY ONLY <1>3, <1>5, <1>8, <2>1
<1> QED
  BY ONLY <1>1, <1>3, <1>4, <1>6, <1>8, <1>9 DEF PC

(* The first part is kept by a packet that is out.                         *)
LEMMA WritePacketBase == ASSUME BaseInv, WritePacket PROVE BaseInv'
<1> USE DEF BaseInv
<1>1. PICK t \in All : \E n \in 0..Len(wbuf[t]) :
           /\ ctl = "up" /\ queue # <<>> /\ t = Head(queue)
           /\ heard' \in [All -> Seq(Unit)]
           /\ wbuf' \in [All -> Seq(Unit)]
           /\ \A u \in All : u # t => heard'[u] = heard[u] /\ wbuf'[u] = wbuf[u] /\ pc'[u] = pc[u]
           /\ packet' = NoPacket
           /\ queue' \in Seq(All)
           /\ pc' \in [All -> {"none", "out", "run", "pipe", "read", "readwait", "death", "bye", "detach",
                     "remove", "flush", "flushwait", "resume", "gone"}]
           /\ \/ pc'[t] = pc[t]
              \/ pc[t] = "readwait" /\ pc'[t] = "read"
              \/ pc[t] = "flushwait" /\ pc'[t] = "flush"
           /\ wbuf[t] = <<>> => wbuf'[t] = <<>> /\ heard'[t] = heard[t]
  <2>0. PICK t \in All : \E n \in 0..Len(wbuf[t]) :
           /\ ctl = "up" /\ queue # <<>> /\ t = Head(queue)
           /\ heard' \in [All -> Seq(Unit)] /\ heard'[t] = heard[t] \o SubSeq(wbuf[t], 1, n)
           /\ wbuf' \in [All -> Seq(Unit)] /\ wbuf'[t] = SubSeq(wbuf[t], n + 1, Len(wbuf[t]))
           /\ \A u \in All : u # t => heard'[u] = heard[u] /\ wbuf'[u] = wbuf[u] /\ pc'[u] = pc[u]
           /\ packet' = NoPacket
           /\ queue' \in Seq(All)
           /\ pc' \in [All -> {"none", "out", "run", "pipe", "read", "readwait", "death", "bye", "detach",
                     "remove", "flush", "flushwait", "resume", "gone"}]
           /\ \/ pc'[t] = pc[t]
              \/ pc[t] = "readwait" /\ pc'[t] = "read"
              \/ pc[t] = "flushwait" /\ pc'[t] = "flush"
    BY PacketFacts
  <2>1. PICK n \in 0..Len(wbuf[t]) :
           /\ ctl = "up" /\ queue # <<>> /\ t = Head(queue)
           /\ heard' \in [All -> Seq(Unit)] /\ heard'[t] = heard[t] \o SubSeq(wbuf[t], 1, n)
           /\ wbuf' \in [All -> Seq(Unit)] /\ wbuf'[t] = SubSeq(wbuf[t], n + 1, Len(wbuf[t]))
           /\ \A u \in All : u # t => heard'[u] = heard[u] /\ wbuf'[u] = wbuf[u] /\ pc'[u] = pc[u]
           /\ packet' = NoPacket
           /\ queue' \in Seq(All)
           /\ pc' \in [All -> {"none", "out", "run", "pipe", "read", "readwait", "death", "bye", "detach",
                     "remove", "flush", "flushwait", "resume", "gone"}]
           /\ \/ pc'[t] = pc[t]
              \/ pc[t] = "readwait" /\ pc'[t] = "read"
              \/ pc[t] = "flushwait" /\ pc'[t] = "flush"
    BY <2>0
  <2>2. heard[t] \in Seq(Unit)
    BY DEF Types
  <2>3. wbuf[t] = <<>> => wbuf'[t] = <<>> /\ heard'[t] = heard[t]
    <3> SUFFICES ASSUME wbuf[t] = <<>> PROVE wbuf'[t] = <<>> /\ heard'[t] = heard[t]
      OBVIOUS
    <3>1. n = 0 /\ Len(wbuf[t]) = 0
      OBVIOUS
    <3>2. SubSeq(<<>>, 1, 0) = <<>> /\ heard[t] \o <<>> = heard[t]
      BY <2>2
    <3>3. wbuf'[t] = SubSeq(<<>>, 1, 0) /\ heard'[t] = heard[t] \o SubSeq(<<>>, 1, 0)
      BY ONLY <2>1, <3>1, wbuf[t] = <<>>
    <3> QED
      BY ONLY <3>2, <3>3
  <2> QED
    BY <2>1, <2>3
<1>2. UNCHANGED <<connected, recovered, ctl, towake, session, pipe, rbuf, said, told, answer, got,
                 need, haz, known, stage, table, fault>>
  BY DEF WritePacket
<1>3. Types'
  BY <1>1, <1>2 DEF Types
<1>4. ControlInv'
  BY <1>1, <1>2 DEF Types, ControlInv
<1>5. PacketInv'
  BY <1>1 DEF PacketInv
<1>6. NeedInv'
  BY <1>1, <1>2 DEF NeedInv
<1>7. ASSUME NEW u \in All PROVE Life(u)' /\ Mute(u)'
  <2>1. Life(u)'
    BY ONLY <1>1, <1>2, Life(u), u \in All DEF Life, Inside
  <2>2. pc'[u] = "none" => pc[u] = "none"
    BY <1>1
  <2>3. wbuf[u] = <<>> => wbuf'[u] = <<>> /\ heard'[u] = heard[u]
    BY <1>1
  <2>4. Mute(u)'
    BY ONLY <1>2, <2>2, <2>3, Mute(u) DEF Mute
  <2> QED
    BY <2>1, <2>4
<1> QED
  BY <1>3, <1>4, <1>5, <1>6, <1>7

(* What arrives.                                                           *)
LEMMA ReceiveFacts ==
  ASSUME BaseInv, NEW t \in All, Receive(t)
  PROVE  \E v \in Seq(Unit) :
           /\ ctl = "up" /\ (t \in table \/ (t \in Ghosts /\ pc[t] = "none"))
           /\ \A i \in 1..Len(v) : v[i] = [conn |-> session, n |-> told[t] + i]
           /\ rbuf' \in [All -> Seq(Unit)] /\ rbuf'[t] = rbuf[t] \o v
           /\ told' \in [All -> Nat] /\ told'[t] = told[t] + Len(v)
           /\ answer' \in [All -> Nat]
           /\ \A u \in All : u # t => rbuf'[u] = rbuf[u] /\ told'[u] = told[u] /\ pc'[u] = pc[u] /\ need'[u] = need[u]
           /\ need' \in [All -> 0..MaxPacket]
           /\ pc' \in [All -> {"none", "out", "run", "pipe", "read", "readwait", "death", "bye", "detach",
                     "remove", "flush", "flushwait", "resume", "gone"}]
           /\ pc[t] = "none" => pc'[t] = "read" /\ need'[t] = 1 /\ table' = table \cup {t}
           /\ pc[t] # "none" =>
                /\ need' = need /\ table' = table
                /\ pc'[t] = pc[t] \/ (pc[t] = "readwait" /\ pc'[t] = "read")
<1> USE DEF BaseInv
<1>1. PICK k \in 1..MaxPacket :
        /\ rbuf' = [rbuf EXCEPT ![t] = rbuf[t] \o Units(told[t] + 1, told[t] + k)]
        /\ told' = [told EXCEPT ![t] = told[t] + k]
  BY DEF Receive
<1>2. /\ k \in Nat /\ told[t] \in Nat /\ session \in Nat /\ rbuf[t] \in Seq(Unit) /\ MaxPacket \in Nat /\ MaxPacket >= 1
      /\ rbuf \in [All -> Seq(Unit)] /\ told \in [All -> Nat] /\ answer \in [All -> Nat]
      /\ need \in [All -> 0..MaxPacket]
      /\ pc \in [All -> {"none", "out", "run", "pipe", "read", "readwait", "death", "bye", "detach",
                     "remove", "flush", "flushwait", "resume", "gone"}]
  BY BoundAssumption DEF Types
<1> DEFINE v == Units(told[t] + 1, told[t] + k)
<1>3. v \in Seq(Unit) /\ Len(v) = k /\ \A i \in 1..k : v[i] = [conn |-> session, n |-> told[t] + i]
  BY <1>2, UnitsSeq
<1> HIDE DEF v
<1>4. /\ rbuf' \in [All -> Seq(Unit)] /\ rbuf'[t] = rbuf[t] \o v
      /\ told' \in [All -> Nat] /\ told'[t] = told[t] + k
      /\ \A u \in All : u # t => rbuf'[u] = rbuf[u] /\ told'[u] = told[u]
  <2>1. rbuf[t] \o v \in Seq(Unit) /\ rbuf' = [rbuf EXCEPT ![t] = rbuf[t] \o v]
    BY <1>1, <1>2, <1>3 DEF v
  <2>2. told[t] + k \in Nat /\ told' = [told EXCEPT ![t] = told[t] + k]
    BY <1>1, <1>2
  <2> QED
    BY ONLY <1>2, <2>1, <2>2, t \in All
<1>5. answer' \in [All -> Nat]
  BY <1>2 DEF Receive
<1>6. Life(t) /\ ctl = "up" /\ (t \in table \/ pc[t] = "none")
  BY DEF Receive
<1>7. t \in table \/ (t \in Ghosts /\ pc[t] = "none")
  BY <1>6, ThreadAssumption DEF Life, All, Inside
<1>8. CASE pc[t] = "none"
  <2>1. pc' = [pc EXCEPT ![t] = "read"] /\ need' = [need EXCEPT ![t] = 1] /\ table' = table \cup {t}
    BY <1>8 DEF Receive, Goto
  <2>2. /\ \A u \in All : u # t => pc'[u] = pc[u] /\ need'[u] = need[u]
        /\ need' \in [All -> 0..MaxPacket] /\ pc'[t] = "read" /\ need'[t] = 1
        /\ pc' \in [All -> {"none", "out", "run", "pipe", "read", "readwait", "death", "bye", "detach",
                     "remove", "flush", "flushwait", "resume", "gone"}]
    BY ONLY <1>2, <2>1, t \in All
  <2> QED
    BY ONLY <1>3, <1>4, <1>5, <1>6, <1>7, <1>8, <2>1, <2>2
<1>9. CASE pc[t] # "none"
  <2>1. pc' = [pc EXCEPT ![t] = Signalled(t)] /\ need' = need /\ table' = table
    BY <1>9 DEF Receive, Goto
  <2>2. pc[t] # "flushwait"
    BY <1>6, <1>9, ThreadAssumption DEF Life, All, Inside
  <2>3. PICK x : x = Signalled(t)
    OBVIOUS
  <2>4. x = pc[t] \/ (pc[t] = "readwait" /\ x = "read")
    BY <2>2, <2>3 DEF Signalled
  <2>5. /\ \A u \in All : u # t => pc'[u] = pc[u] /\ need'[u] = need[u]
        /\ pc'[t] = pc[t] \/ (pc[t] = "readwait" /\ pc'[t] = "read")
        /\ pc' \in [All -> {"none", "out", "run", "pipe", "read", "readwait", "death", "bye", "detach",
                     "remove", "flush", "flushwait", "resume", "gone"}]
    BY ONLY <1>2, <2>1, <2>3, <2>4, t \in All
  <2> QED
    BY ONLY <1>2, <1>3, <1>4, <1>5, <1>6, <1>7, <1>9, <2>1, <2>5
<1> QED
  BY <1>8, <1>9

(* The first part is kept by a packet that has arrived.                    *)
LEMMA ReceiveBase == ASSUME BaseInv, NEW t \in All, Receive(t) PROVE BaseInv'
<1> USE DEF BaseInv
<1>1. /\ ctl = "up" /\ (t \in table \/ (t \in Ghosts /\ pc[t] = "none"))
      /\ rbuf' \in [All -> Seq(Unit)]
      /\ told' \in [All -> Nat]
      /\ answer' \in [All -> Nat]
      /\ \A u \in All : u # t => rbuf'[u] = rbuf[u] /\ told'[u] = told[u] /\ pc'[u] = pc[u] /\ need'[u] = need[u]
      /\ need' \in [All -> 0..MaxPacket]
      /\ pc' \in [All -> {"none", "out", "run", "pipe", "read", "readwait", "death", "bye", "detach",
                     "remove", "flush", "flushwait", "resume", "gone"}]
      /\ pc[t] = "none" => pc'[t] = "read" /\ need'[t] = 1 /\ table' = table \cup {t}
      /\ pc[t] # "none" =>
           /\ need' = need /\ table' = table
           /\ pc'[t] = pc[t] \/ (pc[t] = "readwait" /\ pc'[t] = "read")
  BY ReceiveFacts
<1>2. UNCHANGED <<control, pipe, wbuf, said, heard, got, haz, known, stage, fault>>
  BY DEF Receive
<1> USE DEF control
<1>3. Types'
  BY <1>1, <1>2 DEF Types
<1>4. ControlInv'
  BY ONLY ControlInv, <1>1, <1>2 DEF ControlInv, control
<1>5. PacketInv'
  BY ONLY PacketInv, <1>2 DEF PacketInv, control
<1>6. NeedInv'
  <2> SUFFICES ASSUME NEW u \in All PROVE need'[u] # 0 <=> pc'[u] \in {"read", "readwait"}
    BY DEF NeedInv
  <2>1. need[u] # 0 <=> pc[u] \in {"read", "readwait"}
    BY DEF NeedInv
  <2>2. CASE u # t
    BY ONLY <1>1, <2>1, <2>2
  <2>3. CASE u = t /\ pc[t] = "none"
    BY ONLY <1>1, <2>3
  <2>4. CASE u = t /\ pc[t] # "none"
    BY ONLY <1>1, <2>1, <2>4
  <2> QED
    BY ONLY <2>2, <2>3, <2>4
<1>7. ASSUME NEW u \in All PROVE Life(u)' /\ Mute(u)'
  <2>1. Life(u)'
    BY ONLY Life(u), <1>1, <1>2, u \in All, ThreadAssumption DEF Life, Inside, All
  <2>2. Mute(u)'
    BY ONLY <1>1, <1>2, Mute(u), u \in All DEF Mute
  <2> QED
    BY <2>1, <2>2
<1> QED
  BY <1>3, <1>4, <1>5, <1>6, <1>7

(* The first part is kept by the clean-up.                                 *)
LEMMA CleanupBase == ASSUME BaseInv, Cleanup PROVE BaseInv'
<1> USE DEF BaseInv
<1>1. /\ wbuf' \in [All -> Seq(Unit)] /\ rbuf' \in [All -> Seq(Unit)] /\ known' \in [All -> BOOLEAN]
      /\ \A u \in All : /\ wbuf'[u] = wbuf[u] \/ wbuf'[u] = <<>>
                        /\ rbuf'[u] = rbuf[u] \/ rbuf'[u] = <<>>
  <2>1. <<>> \in Seq(Unit) /\ wbuf \in [All -> Seq(Unit)] /\ rbuf \in [All -> Seq(Unit)] /\ known \in [All -> BOOLEAN]
    BY DEF Types
  <2>2. /\ wbuf' = [t \in All |-> IF t \in table THEN <<>> ELSE wbuf[t]]
        /\ rbuf' = [t \in All |-> IF t \in table THEN <<>> ELSE rbuf[t]]
        /\ known' = [t \in All |-> known[t] /\ t \notin table]
    BY DEF Cleanup
  <2> QED
    BY ONLY <2>1, <2>2
<1>2. UNCHANGED <<connected, ctl, towake, session, queue, packet, pipe, said, told, answer, heard, got,
                 pc, need, haz, stage, table>>
      /\ recovered' = TRUE /\ fault' \in {"none", "stray", "aborted"} /\ ctl \in {"waking", "waiting"}
      /\ \A t \in All : ~haz[t]
  BY DEF Cleanup, Types
<1>3. Types'
  BY <1>1, <1>2 DEF Types
<1>4. ControlInv'
  BY ONLY ControlInv, <1>2 DEF ControlInv
<1>5. PacketInv'
  BY ONLY PacketInv, <1>2, ControlInv DEF PacketInv, ControlInv
<1>6. NeedInv'
  BY <1>2 DEF NeedInv
<1>7. ASSUME NEW u \in All PROVE Life(u)' /\ Mute(u)'
  BY ONLY Life(u), Mute(u), <1>1, <1>2, u \in All DEF Life, Inside, Mute
<1> QED
  BY <1>3, <1>4, <1>5, <1>6, <1>7

(* The first part is kept by a new connection.                             *)
LEMMA ConnectBase == ASSUME BaseInv, Connect PROVE BaseInv'
<1> USE DEF BaseInv
<1>1. /\ said' \in [All -> Nat] /\ told' \in [All -> Nat] /\ answer' \in [All -> Nat]
      /\ heard' \in [All -> Seq(Unit)] /\ got' \in [All -> Seq(Unit)]
      /\ \A u \in All : said'[u] = 0 /\ told'[u] = 0 /\ heard'[u] = <<>> /\ got'[u] = <<>>
  <2>1. /\ <<>> \in Seq(Unit) /\ 0 \in Nat
        /\ said' = [t \in All |-> 0] /\ told' = [t \in All |-> 0] /\ answer' = [t \in All |-> 0]
        /\ heard' = [t \in All |-> <<>>] /\ got' = [t \in All |-> <<>>]
    BY DEF Connect
  <2> QED
    BY ONLY <2>1
<1>2. /\ UNCHANGED <<towake, queue, packet, pipe, wbuf, rbuf, threads, fault>>
      /\ connected' = TRUE /\ recovered' = FALSE /\ ctl = "down" /\ ctl' = "up" /\ session' = session + 1
  BY DEF Connect
<1> USE DEF threads
<1>3. Types'
  <2>1. session' \in Nat /\ connected' \in BOOLEAN /\ recovered' \in BOOLEAN
    <3>1. session \in Nat
      BY DEF Types
    <3>2. connected' = TRUE /\ recovered' = FALSE /\ session' = session + 1
      BY DEF Connect
    <3>3. session' \in Nat
      BY ONLY <3>1, <3>2
    <3>4. connected' \in BOOLEAN /\ recovered' \in BOOLEAN
      BY ONLY <3>2
    <3> QED
      BY ONLY <3>3, <3>4
  <2> QED
    BY ONLY Types, <1>1, <1>2, <2>1 DEF Types, threads
<1>4. ControlInv'
  BY ONLY ControlInv, <1>2 DEF ControlInv, threads
<1>5. PacketInv'
  BY ONLY PacketInv, <1>2, ControlInv DEF PacketInv, ControlInv
<1>6. NeedInv'
  BY <1>2 DEF NeedInv
<1>7. ASSUME NEW u \in All PROVE Life(u)' /\ Mute(u)'
  BY ONLY Life(u), Mute(u), <1>1, <1>2, u \in All DEF Life, Inside, Mute, threads
<1> QED
  BY <1>3, <1>4, <1>5, <1>6, <1>7

(* The first part of the invariant holds at the start and is kept by every *)
(* step.                                                                   *)
LEMMA StartBase == Init => BaseInv
<1> SUFFICES ASSUME Init PROVE BaseInv
  OBVIOUS
<1> USE DEF Init
<1>1. Types
  <2>1. <<>> \in Seq(Unit) /\ <<>> \in Seq(All)
    OBVIOUS
  <2>2. /\ wbuf \in [All -> Seq(Unit)] /\ rbuf \in [All -> Seq(Unit)]
        /\ heard \in [All -> Seq(Unit)] /\ got \in [All -> Seq(Unit)]
    BY <2>1
  <2>3. /\ said \in [All -> Nat] /\ told \in [All -> Nat] /\ answer \in [All -> Nat]
        /\ need \in [All -> 0..MaxPacket]
    BY BoundAssumption
  <2>4. pc \in [All -> {"none", "out", "run", "pipe", "read", "readwait", "death", "bye", "detach",
                     "remove", "flush", "flushwait", "resume", "gone"}]
    BY DEF All
  <2>5. /\ haz \in [All -> BOOLEAN] /\ known \in [All -> BOOLEAN]
        /\ stage \in [All -> {"live", "dying", "last"}]
    BY DEF All
  <2>6. /\ connected \in BOOLEAN /\ recovered \in BOOLEAN
        /\ ctl \in {"up", "waking", "waiting", "down"} /\ session \in Nat
        /\ towake \subseteq table /\ table \subseteq All
        /\ pipe \in Seq(All) /\ queue \in Seq(All) /\ fault \in {"none", "stray", "aborted"}
    BY <2>1 DEF All
  <2> QED
    BY ONLY <2>2, <2>3, <2>4, <2>5, <2>6 DEF Types
<1>2. ControlInv /\ PacketInv
  BY DEF ControlInv, PacketInv, All
<1>3. NeedInv
  BY DEF NeedInv
<1>4. \A t \in All : Life(t) /\ Mute(t)
  BY ThreadAssumption DEF Life, Mute, Inside, All
<1> QED
  BY <1>1, <1>2, <1>3, <1>4 DEF BaseInv

(* Every step keeps the first part of the invariant.                       *)
LEMMA StepBase == BaseInv /\ [Next]_vars => BaseInv'
<1> SUFFICES ASSUME BaseInv, [Next]_vars PROVE BaseInv'
  OBVIOUS
<1>1. CASE UNCHANGED vars
  BY <1>1 DEF BaseInv, Types, ControlInv, PacketInv, NeedInv, Life, Mute, Inside, vars, control, content, threads
<1>2. ASSUME NEW t \in All, ThreadNext(t) PROVE BaseInv'
  BY <1>2, EnterHazardBase, ClearHazardBase, SendBase, WritePipeBase, ReadBase, ReadTurnBase, ExitBase, DeathBase,
     WaitForResumeBase, DetachBase, RemoveBase, FlushTurnBase, ResumeBase DEF ThreadNext
<1>3. ASSUME NEW t \in All, Receive(t) \/ SignalThread(t) PROVE BaseInv'
  BY <1>3, ReceiveBase, SignalThreadBase
<1>4. CASE PickWriter \/ WritePacket \/ ReadPipe \/ Woken \/ Lose \/ Cleanup \/ ClosePipe \/ Connect
  BY <1>4, PickWriterBase, WritePacketBase, ReadPipeBase, WokenBase, LoseBase, CleanupBase, ClosePipeBase, ConnectBase
<1> QED
  BY <1>1, <1>2, <1>3, <1>4 DEF Next, ControlNext

-----------------------------------------------------------------------------
(* Two sequences of units behind each other.                               *)
LEMMA CatSeq ==
  ASSUME NEW a \in Seq(Unit), NEW b \in Seq(Unit)
  PROVE  /\ a \o b \in Seq(Unit) /\ Len(a \o b) = Len(a) + Len(b)
         /\ \A i \in 1..Len(a) + Len(b) : (a \o b)[i] = IF i <= Len(a) THEN a[i] ELSE b[i - Len(a)]
OBVIOUS

(* A sequence of units is cut in two without loss.                         *)
LEMMA CutSeq ==
  ASSUME NEW a \in Seq(Unit), NEW b \in Seq(Unit), NEW n \in 0..Len(b)
  PROVE  /\ (a \o SubSeq(b, 1, n)) \o SubSeq(b, n + 1, Len(b)) = a \o b
         /\ Len(a \o SubSeq(b, 1, n)) = Len(a) + n
         /\ Len(SubSeq(b, n + 1, Len(b))) = Len(b) - n
         /\ \A i \in 1..Len(b) - n : SubSeq(b, n + 1, Len(b))[i] = b[n + i]
<1> DEFINE x == SubSeq(b, 1, n)
           y == SubSeq(b, n + 1, Len(b))
<1>1. x \in Seq(Unit) /\ Len(x) = n /\ \A i \in 1..n : x[i] = b[i]
  OBVIOUS
<1>2. y \in Seq(Unit) /\ Len(y) = Len(b) - n /\ \A i \in 1..Len(b) - n : y[i] = b[n + i]
  OBVIOUS
<1> HIDE DEF x, y
<1> DEFINE w == a \o x
<1>3. w \in Seq(Unit) /\ Len(w) = Len(a) + n /\ \A i \in 1..Len(a) + n : w[i] = IF i <= Len(a) THEN a[i] ELSE x[i - Len(a)]
  BY <1>1
<1> HIDE DEF w
<1>4. /\ w \o y \in Seq(Unit) /\ Len(w \o y) = Len(w) + Len(y)
      /\ \A i \in 1..Len(w) + Len(y) : (w \o y)[i] = IF i <= Len(w) THEN w[i] ELSE y[i - Len(w)]
  BY ONLY <1>2, <1>3, CatSeq
<1>5. /\ a \o b \in Seq(Unit) /\ Len(a \o b) = Len(a) + Len(b)
      /\ \A i \in 1..Len(a) + Len(b) : (a \o b)[i] = IF i <= Len(a) THEN a[i] ELSE b[i - Len(a)]
  OBVIOUS
<1>6. Len(a) \in Nat /\ Len(b) \in Nat /\ n \in Nat /\ n <= Len(b)
  OBVIOUS
<1>7. Len(w \o y) = Len(a \o b)
  BY ONLY <1>2, <1>3, <1>4, <1>5, <1>6
<1>8. ASSUME NEW i \in 1..Len(a) + Len(b) PROVE (w \o y)[i] = (a \o b)[i]
  <2>1. CASE i <= Len(a)
    BY ONLY <1>1, <1>2, <1>3, <1>4, <1>5, <1>6, i \in 1..Len(a) + Len(b), <2>1
  <2>2. CASE i > Len(a) /\ i <= Len(a) + n
    BY ONLY <1>1, <1>2, <1>3, <1>4, <1>5, <1>6, i \in 1..Len(a) + Len(b), <2>2
  <2>3. CASE i > Len(a) + n
    <3>1. (w \o y)[i] = y[i - (Len(a) + n)] /\ (a \o b)[i] = b[i - Len(a)]
      BY ONLY SMTT(30), <1>2, <1>3, <1>4, <1>5, <1>6, i \in 1..Len(a) + Len(b), <2>3
    <3>2. i - (Len(a) + n) \in 1..Len(b) - n /\ n + (i - (Len(a) + n)) = i - Len(a)
      BY ONLY <1>6, i \in 1..Len(a) + Len(b), <2>3
    <3> QED
      BY ONLY <1>2, <3>1, <3>2
  <2> QED
    <3>1. i <= Len(a) \/ (i > Len(a) /\ i <= Len(a) + n) \/ i > Len(a) + n
      BY ONLY <1>6, i \in 1..Len(a) + Len(b)
    <3> QED
      BY ONLY <2>1, <2>2, <2>3, <3>1
<1>9. w \o y = a \o b
  BY ONLY SMTT(30), <1>4, <1>5, <1>7, <1>8
<1> QED
  BY ONLY <1>1, <1>2, <1>3, <1>9 DEF w, x, y

(* A run is continued by the units that follow it.                         *)
LEMMA RunGoesOn ==
  ASSUME NEW s \in Seq(Unit), NEW v \in Seq(Unit), NEW c \in Nat, Run(s, c),
         \A i \in 1..Len(v) : v[i] = [conn |-> c, n |-> Len(s) + i]
  PROVE  Run(s \o v, c)
<1> SUFFICES ASSUME NEW i \in 1..Len(s \o v) PROVE (s \o v)[i] = [conn |-> c, n |-> i]
  BY DEF Run
<1>1. CASE i <= Len(s)
  BY <1>1 DEF Run
<1>2. CASE i > Len(s)
  <2>1. (s \o v)[i] = v[i - Len(s)] /\ i - Len(s) \in 1..Len(v) /\ Len(s) + (i - Len(s)) = i
    BY <1>2
  <2> QED
    BY <2>1
<1> QED
  BY <1>1, <1>2

(* The beginning of a run is a run.                                        *)
LEMMA RunBegins ==
  ASSUME NEW s \in Seq(Unit), NEW v \in Seq(Unit), NEW c \in Nat, Run(s \o v, c)
  PROVE  Run(s, c)
<1> SUFFICES ASSUME NEW i \in 1..Len(s) PROVE s[i] = [conn |-> c, n |-> i]
  BY DEF Run
<1>1. (s \o v)[i] = s[i] /\ i \in 1..Len(s \o v)
  OBVIOUS
<1> QED
  BY <1>1 DEF Run

(* An empty sequence of units is a run.                                    *)
LEMMA RunEmpty == ASSUME NEW c PROVE Run(<<>>, c) /\ Run(<<>> \o <<>>, c) /\ Len(<<>>) = 0
<1>1. <<>> \o <<>> = <<>>
  OBVIOUS
<1> QED
  BY <1>1 DEF Run

(* A thread that has written during this connection and has something left *)
(* in its buffer is one with something to send.                            *)
LEMMA WrittenPending ==
  ASSUME NEW t \in All, session \in Nat, wbuf[t] \in Seq(Unit), heard[t] \in Seq(Unit), Written(t), wbuf[t] # <<>>
  PROVE  Pending(t)
<1> DEFINE i == Len(heard[t]) + 1
<1>1. i \in 1..Len(heard[t] \o wbuf[t]) /\ (heard[t] \o wbuf[t])[i] = wbuf[t][1]
  <2>1. ASSUME NEW a \in Seq(Unit), NEW b \in Seq(Unit), b # <<>>
        PROVE  Len(a) + 1 \in 1..Len(a \o b) /\ (a \o b)[Len(a) + 1] = b[1]
    <3>1. Len(b) >= 1 /\ Len(a) \in Nat /\ Len(b) \in Nat
      BY ONLY a \in Seq(Unit), b \in Seq(Unit), b # <<>>
    <3>2. Len(a \o b) = Len(a) + Len(b) /\ Len(a) + 1 \in 1..Len(a) + Len(b) /\ (Len(a) + 1) - Len(a) = 1
      BY <3>1, CatSeq
    <3> QED
      BY <3>1, <3>2, CatSeq
  <2> QED
    BY <2>1
<1>2. wbuf[t][1] = [conn |-> session, n |-> i]
  BY <1>1 DEF Written, Run
<1> QED
  BY <1>2 DEF Pending

-----------------------------------------------------------------------------
(* What stands in a sequence after it was lengthened or shortened.         *)
LEMMA InAppend ==
  ASSUME NEW s \in Seq(All), NEW t \in All, Once(s), ~In(s, t)
  PROVE  Once(Append(s, t)) /\ \A u \in All : In(Append(s, t), u) <=> In(s, u) \/ u = t
<1> DEFINE r == Append(s, t)
<1>1. Len(r) = Len(s) + 1 /\ (\A i \in 1..Len(s) : r[i] = s[i]) /\ r[Len(s) + 1] = t /\ Len(s) \in Nat
  OBVIOUS
<1> HIDE DEF r
<1>2. Once(r)
  <2> SUFFICES ASSUME NEW i \in 1..Len(r), NEW j \in 1..Len(r), r[i] = r[j] PROVE i = j
    BY DEF Once
  <2>1. CASE i <= Len(s) /\ j <= Len(s)
    BY <1>1, <2>1 DEF Once
  <2>2. CASE i = Len(s) + 1 /\ j <= Len(s)
    <3>1. j \in 1..Len(s) /\ s[j] = t
      BY <1>1, <2>2
    <3> QED
      BY <3>1 DEF In
  <2>3. CASE j = Len(s) + 1 /\ i <= Len(s)
    <3>1. i \in 1..Len(s) /\ s[i] = t
      BY <1>1, <2>3
    <3> QED
      BY <3>1 DEF In
  <2> QED
    BY <1>1, <2>1, <2>2, <2>3
<1>3. ASSUME NEW u \in All PROVE In(r, u) <=> In(s, u) \/ u = t
  <2>1. ASSUME In(r, u) PROVE In(s, u) \/ u = t
    <3>1. PICK i \in 1..Len(r) : r[i] = u
      BY <2>1 DEF In
    <3>2. CASE i = Len(s) + 1
      BY <1>1, <3>1, <3>2
    <3>3. CASE i \in 1..Len(s)
      BY <1>1, <3>1, <3>3 DEF In
    <3> QED
      BY <1>1, <3>2, <3>3
  <2>2. ASSUME In(s, u) PROVE In(r, u)
    <3>1. PICK i \in 1..Len(s) : s[i] = u
      BY <2>2 DEF In
    <3>2. i \in 1..Len(r) /\ r[i] = u
      BY <1>1, <3>1
    <3> QED
      BY <3>2 DEF In
  <2>3. In(r, t)
    <3>1. Len(s) + 1 \in 1..Len(r) /\ r[Len(s) + 1] = t
      BY <1>1
    <3> QED
      BY <3>1 DEF In
  <2> QED
    BY <2>1, <2>2, <2>3
<1> QED
  BY <1>2, <1>3 DEF r

(* What stands in a sequence whose first member was taken.                 *)
LEMMA InTail ==
  ASSUME NEW s \in Seq(All), s # <<>>, Once(s)
  PROVE  /\ Tail(s) \in Seq(All) /\ Head(s) \in All /\ In(s, Head(s)) /\ Once(Tail(s))
         /\ \A u \in All : In(Tail(s), u) <=> In(s, u) /\ u # Head(s)
<1> DEFINE r == Tail(s)
           h == Head(s)
<1>1. /\ r \in Seq(All) /\ h \in All /\ Len(r) = Len(s) - 1 /\ (\A i \in 1..Len(r) : r[i] = s[i + 1])
      /\ h = s[1] /\ Len(s) \in Nat /\ Len(s) >= 1
  OBVIOUS
<1> HIDE DEF r, h
<1>2. In(s, h)
  <2>1. 1 \in 1..Len(s) /\ s[1] = h
    BY <1>1
  <2> QED
    BY <2>1 DEF In
<1>3. Once(r)
  <2> SUFFICES ASSUME NEW i \in 1..Len(r), NEW j \in 1..Len(r), r[i] = r[j] PROVE i = j
    BY DEF Once
  <2>1. i + 1 \in 1..Len(s) /\ j + 1 \in 1..Len(s) /\ s[i + 1] = s[j + 1]
    BY <1>1
  <2>2. i + 1 = j + 1
    BY <2>1 DEF Once
  <2> QED
    BY <1>1, <2>2
<1>4. ASSUME NEW u \in All PROVE In(r, u) <=> In(s, u) /\ u # h
  <2>1. ASSUME In(r, u) PROVE In(s, u) /\ u # h
    <3>1. PICK i \in 1..Len(r) : r[i] = u
      BY <2>1 DEF In
    <3>2. i + 1 \in 1..Len(s) /\ s[i + 1] = u /\ 1 \in 1..Len(s) /\ i + 1 # 1
      BY <1>1, <3>1
    <3>3. In(s, u)
      BY <3>2 DEF In
    <3>4. u # h
      BY <1>1, <3>2 DEF Once
    <3> QED
      BY <3>3, <3>4
  <2>2. ASSUME In(s, u), u # h PROVE In(r, u)
    <3>1. PICK i \in 1..Len(s) : s[i] = u
      BY <2>2 DEF In
    <3>2. i # 1
      BY <1>1, <2>2, <3>1
    <3>3. i - 1 \in 1..Len(r) /\ r[i - 1] = u
      BY <1>1, <3>1, <3>2
    <3> QED
      BY <3>3 DEF In
  <2> QED
    BY <2>1, <2>2
<1> QED
  BY <1>1, <1>2, <1>3, <1>4 DEF r, h

(* The writers, as threads write themselves to the pipe, are moved to the  *)
(* queue, served, and leave it or stay.                                    *)
LEMMA QueueSame ==
  ASSUME NEW p, NEW q, NEW S, NEW Z, Queued(p, q, S), \A t \in All : t \in S <=> t \in Z
  PROVE  Queued(p, q, Z)
BY DEF Queued

(* A thread that was not waiting writes itself to the pipe.                *)
LEMMA QueuePush ==
  ASSUME NEW p \in Seq(All), NEW q, NEW S, NEW Z, Queued(p, q, S), NEW t \in All, t \notin S,
         \A u \in All : u \in Z <=> u \in S \/ u = t
  PROVE  Queued(Append(p, t), q, Z)
<1>1. ~In(p, t) /\ ~In(q, t) /\ Once(p) /\ Once(q)
  BY DEF Queued
<1>2. Once(Append(p, t)) /\ \A u \in All : In(Append(p, t), u) <=> In(p, u) \/ u = t
  BY <1>1, InAppend
<1> QED
  BY ONLY <1>1, <1>2, Queued(p, q, S), \A u \in All : u \in Z <=> u \in S \/ u = t DEF Queued

(* The first thread in the pipe is moved to the queue.                     *)
LEMMA QueueMove ==
  ASSUME NEW p \in Seq(All), NEW q \in Seq(All), NEW S, Queued(p, q, S), p # <<>>
  PROVE  Queued(Tail(p), Append(q, Head(p)), S)
<1>1. /\ Tail(p) \in Seq(All) /\ Head(p) \in All /\ In(p, Head(p)) /\ Once(Tail(p))
      /\ \A u \in All : In(Tail(p), u) <=> In(p, u) /\ u # Head(p)
  BY InTail DEF Queued
<1>2. ~In(q, Head(p)) /\ Once(q)
  BY <1>1 DEF Queued
<1>3. Once(Append(q, Head(p))) /\ \A u \in All : In(Append(q, Head(p)), u) <=> In(q, u) \/ u = Head(p)
  BY <1>1, <1>2, InAppend
<1> QED
  BY ONLY <1>1, <1>2, <1>3, Queued(p, q, S) DEF Queued

(* The thread at the head of the queue leaves it.                          *)
LEMMA QueueDrop ==
  ASSUME NEW p, NEW q \in Seq(All), NEW S, NEW Z, Queued(p, q, S), q # <<>>,
         \A u \in All : u \in Z <=> u \in S /\ u # Head(q)
  PROVE  Queued(p, Tail(q), Z)
<1>1. /\ Tail(q) \in Seq(All) /\ Head(q) \in All /\ In(q, Head(q)) /\ Once(Tail(q))
      /\ \A u \in All : In(Tail(q), u) <=> In(q, u) /\ u # Head(q)
  BY InTail DEF Queued
<1> QED
  BY ONLY <1>1, Queued(p, q, S), \A u \in All : u \in Z <=> u \in S /\ u # Head(q) DEF Queued

(* The thread at the head of the queue goes behind the others.             *)
LEMMA QueueTurn ==
  ASSUME NEW p, NEW q \in Seq(All), NEW S, Queued(p, q, S), q # <<>>
  PROVE  Queued(p, Append(Tail(q), Head(q)), S)
<1>1. /\ Tail(q) \in Seq(All) /\ Head(q) \in All /\ In(q, Head(q)) /\ Once(Tail(q))
      /\ \A u \in All : In(Tail(q), u) <=> In(q, u) /\ u # Head(q)
  BY InTail DEF Queued
<1>2. /\ Once(Append(Tail(q), Head(q)))
      /\ \A u \in All : In(Append(Tail(q), Head(q)), u) <=> In(Tail(q), u) \/ u = Head(q)
  BY <1>1, InAppend
<1> QED
  BY ONLY <1>1, <1>2, Queued(p, q, S) DEF Queued

-----------------------------------------------------------------------------
(* What a thread wrote and read stays exact in a step that leaves it alone *)
(* and neither puts it back into the table nor frees it with a full buffer.*)
LEMMA SameStream ==
  ASSUME NEW u \in All, StreamInv(u), session' = session,
         wbuf'[u] = wbuf[u], rbuf'[u] = rbuf[u], heard'[u] = heard[u], got'[u] = got[u],
         said'[u] = said[u], told'[u] = told[u],
         u \in table' => u \in table, pc'[u] = "pipe" => pc[u] = "pipe",
         pc'[u] = "gone" => pc[u] = "gone" \/ wbuf[u] = <<>>
  PROVE  StreamInv(u)'
<1>1. Written(u) => Written(u)'
  BY DEF Written, Run
<1>2. Stale(u) => Stale(u)'
  BY DEF Stale
<1>3. u \in table' => Run(got[u] \o rbuf[u], session)' /\ told'[u] = Len(got'[u]) + Len(rbuf'[u])
  BY DEF StreamInv, Run
<1>4. Run(got[u], session)'
  BY DEF StreamInv, Run
<1>5. pc'[u] = "pipe" => wbuf'[u] # <<>> /\ Written(u)'
  BY <1>1 DEF StreamInv
<1>6. pc'[u] = "gone" => ~Pending(u)'
  BY DEF StreamInv, Pending
<1> QED
  BY <1>1, <1>2, <1>3, <1>4, <1>5, <1>6 DEF StreamInv

(* A step that neither writes nor reads units, moves no thread to or from  *)
(* the pipe and frees only a thread with nothing to send.                  *)
LEMMA QuietStep ==
  ASSUME BaseInv, ChannelInv, UNCHANGED <<session, connected, recovered, pipe, queue>>,
         UNCHANGED <<wbuf, rbuf, heard, got, said, told>>,
         fault' = "none" => fault = "none", table' \subseteq table,
         \A u \in All : pc'[u] = "pipe" <=> pc[u] = "pipe",
         \A u \in All : pc'[u] = "gone" => pc[u] = "gone" \/ wbuf[u] = <<>> \/ ~connected
  PROVE  ChannelInv'
<1>1. Past'
  BY DEF ChannelInv, Past
<1>2. ASSUME fault' = "none", recovered' PROVE Clean'
  BY <1>2 DEF ChannelInv, Clean
<1>3. ASSUME fault' = "none", connected' PROVE Queued(pipe, queue, Waiting)' /\ \A t \in All : StreamInv(t)'
  <2>1. Queued(pipe, queue, Waiting) /\ \A t \in All : StreamInv(t)
    BY <1>3 DEF ChannelInv
  <2>2. \A t \in All : StreamInv(t)'
    BY <1>3, <2>1, SameStream
  <2>3. \A t \in All : t \in Waiting <=> t \in Waiting'
    BY DEF Waiting, Pending
  <2>4. Queued(pipe, queue, Waiting')
    BY ONLY <2>1, <2>3, QueueSame
  <2>5. Queued(pipe, queue, Waiting)'
    BY ONLY <2>4, UNCHANGED <<session, connected, recovered, pipe, queue>> DEF Queued, Once, In
  <2> QED
    BY <2>2, <2>5
<1> QED
  BY ONLY <1>1, <1>2, <1>3 DEF ChannelInv


(* The steps of that kind, each with where it leaves its thread.           *)
LEMMA EnterHazardChan == ASSUME BaseInv, ChannelInv, NEW t \in All, EnterHazard(t) PROVE ChannelInv'
<1>1. /\ \A u \in All : u # t => pc'[u] = pc[u]
      /\ pc[t] # "pipe" /\ pc'[t] = "run"
  BY DEF EnterHazard, Goto, BaseInv, Types
<1>2. table' \subseteq table
  BY DEF EnterHazard
<1> QED
  BY <1>1, <1>2, QuietStep DEF EnterHazard, control, content

(* The second part is kept by leaving a hazard.                            *)
LEMMA ClearHazardChan == ASSUME BaseInv, ChannelInv, NEW t \in All, ClearHazard(t) PROVE ChannelInv'
<1>1. /\ \A u \in All : u # t => pc'[u] = pc[u]
      /\ pc[t] # "pipe" /\ pc'[t] = "out"
  BY DEF ClearHazard, Goto, BaseInv, Types
<1>2. table' \subseteq table
  BY DEF ClearHazard
<1> QED
  BY <1>1, <1>2, QuietStep DEF ClearHazard, control, content

(* The second part is kept by the call of offReadBuffer.                   *)
LEMMA ReadChan == ASSUME BaseInv, ChannelInv, NEW t \in All, Read(t) PROVE ChannelInv'
<1>1. /\ \A u \in All : u # t => pc'[u] = pc[u]
      /\ pc[t] # "pipe" /\ pc'[t] = "read"
  BY DEF Read, Goto, BaseInv, Types
<1>2. table' \subseteq table
  BY DEF Read
<1> QED
  BY <1>1, <1>2, QuietStep DEF Read, control, content

(* The second part is kept by the start of an exit.                        *)
LEMMA ExitChan == ASSUME BaseInv, ChannelInv, NEW t \in All, Exit(t) PROVE ChannelInv'
<1>1. /\ \A u \in All : u # t => pc'[u] = pc[u]
      /\ pc[t] # "pipe" /\ pc'[t] \in {"death", "remove"}
  BY DEF Exit, Goto, BaseInv, Types
<1>2. table' \subseteq table
  BY DEF Exit
<1> QED
  BY <1>1, <1>2, QuietStep DEF Exit, control, content

(* The second part is kept by offThreadWaitForResume.                      *)
LEMMA WaitForResumeChan == ASSUME BaseInv, ChannelInv, NEW t \in All, WaitForResume(t) PROVE ChannelInv'
<1>1. /\ \A u \in All : u # t => pc'[u] = pc[u]
      /\ pc[t] # "pipe" /\ pc'[t] \in {"read", "remove"}
  BY DEF WaitForResume, Goto, BaseInv, Types
<1>2. table' \subseteq table
  BY DEF WaitForResume
<1> QED
  BY <1>1, <1>2, QuietStep DEF WaitForResume, control, content

(* The second part is kept by the end of a daemon.                         *)
LEMMA DetachChan == ASSUME BaseInv, ChannelInv, NEW t \in All, Detach(t) PROVE ChannelInv'
<1>1. /\ \A u \in All : u # t => pc'[u] = pc[u]
      /\ pc[t] # "pipe" /\ pc'[t] = "remove"
  BY DEF Detach, Goto, BaseInv, Types
<1>2. table' \subseteq table
  BY DEF Detach
<1> QED
  BY <1>1, <1>2, QuietStep DEF Detach, control, content

(* The second part is kept by leaving the table.                           *)
LEMMA RemoveChan == ASSUME BaseInv, ChannelInv, NEW t \in All, Remove(t) PROVE ChannelInv'
<1>1. /\ \A u \in All : u # t => pc'[u] = pc[u]
      /\ pc[t] # "pipe" /\ pc'[t] = "flush"
  BY DEF Remove, Goto, BaseInv, Types
<1>2. table' \subseteq table
  BY DEF Remove
<1> QED
  BY <1>1, <1>2, QuietStep DEF Remove, control, content

(* The second part is kept by a turn of the flush.                         *)
LEMMA FlushTurnChan == ASSUME BaseInv, ChannelInv, NEW t \in All, FlushTurn(t) PROVE ChannelInv'
<1>1. /\ \A u \in All : u # t => pc'[u] = pc[u]
      /\ pc[t] # "pipe" /\ pc'[t] \in {"flushwait", "resume", "gone"}
      /\ (pc'[t] = "gone" => wbuf[t] = <<>> \/ ~connected)
  BY DEF FlushTurn, Goto, AfterFlush, BaseInv, Types
<1>2. table' \subseteq table
  BY DEF FlushTurn
<1> QED
  BY <1>1, <1>2, QuietStep DEF FlushTurn, control, content

(* The second part is kept by the signal to a thread.                      *)
LEMMA SignalThreadChan == ASSUME BaseInv, ChannelInv, NEW t \in All, SignalThread(t) PROVE ChannelInv'
<1>1. /\ \A u \in All : u # t => pc'[u] = pc[u]
      /\ (pc'[t] = "pipe" <=> pc[t] = "pipe") /\ (pc'[t] = "gone" => pc[t] = "gone")
  BY DEF SignalThread, Goto, Signalled, BaseInv, Types
<1>2. table' \subseteq table
  BY DEF SignalThread
<1> QED
  BY <1>1, <1>2, QuietStep DEF SignalThread, control, content

(* The second part is kept by the choice of a writer.                      *)
LEMMA PickWriterChan == ASSUME BaseInv, ChannelInv, PickWriter PROVE ChannelInv'
BY QuietStep DEF PickWriter, content, threads

(* The second part is kept by the end of the signals.                      *)
LEMMA WokenChan == ASSUME BaseInv, ChannelInv, Woken PROVE ChannelInv'
BY QuietStep DEF Woken, content, threads


(* A thread writes units of this connection, and is to write itself to the *)
(* pipe if it had none before.                                             *)
LEMMA WriteChan ==
  ASSUME BaseInv, ChannelInv, NEW t \in All, NEW k \in Nat \ {0}, SendMessage(t, k),
         UNCHANGED <<session, connected, recovered, pipe, queue, table>>,
         fault' = "none" => fault = "none" /\ ~recovered,
         \A u \in All : u # t => pc'[u] = pc[u],
         pc[t] # "pipe", pc'[t] # "gone", pc'[t] = "pipe" <=> wbuf[t] = <<>>,
         connected /\ fault = "none" => Written(t)
  PROVE  ChannelInv'
<1>1. PICK v \in Seq(Unit) :
           /\ Len(v) = k /\ \A i \in 1..k : v[i] = [conn |-> session, n |-> said[t] + i]
           /\ wbuf' \in [All -> Seq(Unit)] /\ wbuf'[t] = wbuf[t] \o v
           /\ \A u \in All : u # t => wbuf'[u] = wbuf[u] /\ said'[u] = said[u]
           /\ said' \in [All -> Nat] /\ said'[t] = said[t] + k
           /\ UNCHANGED <<rbuf, told, answer, heard, got>>
  BY Wrote DEF BaseInv
<1>2. /\ wbuf[t] \in Seq(Unit) /\ heard[t] \in Seq(Unit) /\ session \in Nat /\ said[t] \in Nat
  BY DEF BaseInv, Types
<1>3. /\ wbuf'[t] \in Seq(Unit) /\ Len(wbuf'[t]) = Len(wbuf[t]) + k /\ wbuf'[t] # <<>>
      /\ \A i \in 1..Len(wbuf[t]) + k : wbuf'[t][i] = IF i <= Len(wbuf[t]) THEN wbuf[t][i] ELSE v[i - Len(wbuf[t])]
  <2>1. Len(wbuf'[t]) = Len(wbuf[t]) + k /\ wbuf'[t] \in Seq(Unit)
    <3>1. wbuf'[t] = wbuf[t] \o v /\ Len(v) = k /\ v \in Seq(Unit)
      BY <1>1
    <3> QED
      BY ONLY <1>2, <3>1, CatSeq
  <2>2. wbuf'[t] # <<>>
    BY ONLY <1>2, <2>1, k \in Nat \ {0}
  <2> QED
    BY ONLY <1>1, <1>2, <2>1, <2>2, CatSeq
<1>4. Past'
  <2> SUFFICES ASSUME NEW u \in All, NEW i \in 1..Len(wbuf'[u]) PROVE wbuf'[u][i].conn <= session
    BY DEF Past
  <2>1. CASE u # t
    BY <1>1, <2>1 DEF ChannelInv, Past
  <2>2. CASE u = t /\ i <= Len(wbuf[t])
    <3>1. i \in 1..Len(wbuf[t]) /\ wbuf'[t][i] = wbuf[t][i]
      BY <1>2, <1>3, <2>2
    <3> QED
      BY <2>2, <3>1 DEF ChannelInv, Past
  <2>3. CASE u = t /\ i > Len(wbuf[t])
    <3>1. i - Len(wbuf[t]) \in 1..k /\ wbuf'[t][i] = v[i - Len(wbuf[t])]
      BY SMTT(30), <1>2, <1>3, <2>3
    <3> QED
      BY <1>1, <1>2, <2>3, <3>1
  <2> QED
    BY <1>2, <2>1, <2>2, <2>3
<1>5. ASSUME fault' = "none", connected PROVE Queued(pipe', queue', Waiting') /\ \A u \in All : StreamInv(u)'
  <2>1. Queued(pipe, queue, Waiting) /\ (\A u \in All : StreamInv(u)) /\ Written(t)
    BY <1>5 DEF ChannelInv
  <2>2. Written(t)'
    <3>1. Len(heard[t] \o wbuf[t]) = said[t] /\ heard[t] \o wbuf[t] \in Seq(Unit)
      BY ONLY <1>2, <2>1, CatSeq DEF Written
    <3>2. Run((heard[t] \o wbuf[t]) \o v, session)
      <4>1. \A i \in 1..Len(v) : v[i] = [conn |-> session, n |-> Len(heard[t] \o wbuf[t]) + i]
        BY ONLY <1>1, <3>1
      <4>2. Run(heard[t] \o wbuf[t], session)
        BY ONLY <2>1 DEF Written
      <4> QED
        BY ONLY <1>2, <3>1, <4>1, <4>2, v \in Seq(Unit), RunGoesOn
    <3>3. (heard[t] \o wbuf[t]) \o v = heard[t] \o (wbuf[t] \o v)
      <4>1. ASSUME NEW a \in Seq(Unit), NEW b \in Seq(Unit), NEW c \in Seq(Unit) PROVE (a \o b) \o c = a \o (b \o c)
        BY ONLY a \in Seq(Unit), b \in Seq(Unit), c \in Seq(Unit), ConcatAssociative
      <4> QED
        BY ONLY <1>2, v \in Seq(Unit), <4>1
    <3>4. Run(heard'[t] \o wbuf'[t], session)
      BY ONLY <1>1, <3>2, <3>3
    <3>5. said'[t] = Len(heard'[t]) + Len(wbuf'[t])
      <4>1. said[t] = Len(heard[t]) + Len(wbuf[t]) /\ heard'[t] = heard[t] /\ said'[t] = said[t] + k
        BY ONLY <1>1, <2>1 DEF Written
      <4>2. Len(heard[t]) \in Nat /\ Len(wbuf[t]) \in Nat /\ k \in Nat
        BY ONLY <1>2, k \in Nat \ {0}
      <4> QED
        <5>1. Len(wbuf'[t]) = Len(wbuf[t]) + k
          BY <1>3
        <5>2. Len(heard'[t]) = Len(heard[t])
          BY ONLY <4>1
        <5>3. (Len(heard[t]) + Len(wbuf[t])) + k = Len(heard[t]) + (Len(wbuf[t]) + k)
          <6>1. ASSUME NEW x \in Nat, NEW y \in Nat, NEW z \in Nat PROVE (x + y) + z = x + (y + z)
            OBVIOUS
          <6> QED
            BY ONLY <4>2, <6>1
        <5> QED
          BY ONLY <4>1, <5>1, <5>2, <5>3
    <3> QED
      BY ONLY <3>4, <3>5, session' = session DEF Written, Run
  <2>3. ASSUME NEW u \in All PROVE StreamInv(u)'
    <3>1. CASE u # t
      BY ONLY <1>1, <2>1, <3>1, u \in All, SameStream, \A x \in All : x # t => pc'[x] = pc[x],
         UNCHANGED <<session, connected, recovered, pipe, queue, table>>
    <3>2. CASE u = t
      <4>1. /\ t \in table' => Run(got'[t] \o rbuf'[t], session) /\ told'[t] = Len(got'[t]) + Len(rbuf'[t])
            /\ Run(got'[t], session)
        BY ONLY <1>1, <2>1, t \in All, UNCHANGED <<session, connected, recovered, pipe, queue, table>> DEF StreamInv
      <4> QED
        BY ONLY <1>3, <2>2, <3>2, <4>1, pc'[t] # "gone", session' = session DEF StreamInv, Run
    <3> QED
      BY <3>1, <3>2
  <2>4. \A u \in All : u \in Waiting <=> u \in Waiting'
    <3> SUFFICES ASSUME NEW u \in All PROVE Pending(u) /\ pc[u] # "pipe" <=> Pending(u)' /\ pc'[u] # "pipe"
      BY DEF Waiting
    <3>1. CASE u # t
      BY <1>1, <3>1 DEF Pending
    <3>2. CASE u = t /\ wbuf[t] = <<>>
      BY <3>2 DEF Pending
    <3>3. CASE u = t /\ wbuf[t] # <<>>
      <4>1. Len(wbuf[t]) >= 1 /\ Len(wbuf[t]) \in Nat
        BY <1>2, <3>3
      <4>2. wbuf'[t][1] = wbuf[t][1]
        <5>1. 1 \in 1..Len(wbuf[t]) + k
          BY ONLY <4>1, k \in Nat \ {0}
        <5> QED
          BY ONLY <1>3, <4>1, <5>1
      <4> QED
        BY <1>3, <3>3, <4>2 DEF Pending
    <3> QED
      BY <3>1, <3>2, <3>3
  <2> QED
    BY <2>1, <2>3, <2>4, QueueSame
<1> QED
  <2>1. connected' /\ fault' = "none" => Queued(pipe, queue, Waiting)' /\ \A u \in All : StreamInv(u)'
    BY <1>5 DEF Queued, Once, In
  <2>2. fault' = "none" => ~recovered'
    OBVIOUS
  <2> QED
    BY ONLY <1>4, <2>1, <2>2 DEF ChannelInv

(* The second part is kept by offSendMessage.                              *)
LEMMA SendChan == ASSUME BaseInv, ChannelInv, NEW t \in All, Send(t) PROVE ChannelInv'
<1>1. /\ pc[t] = "run" /\ stage[t] = "live" /\ haz[t] /\ t \in table
  BY DEF Send, BaseInv, Life, Inside, All
<1>2. ~recovered
  BY <1>1 DEF BaseInv, ControlInv
<1>3. PICK k \in Nat \ {0} : SendMessage(t, k)
  BY BoundAssumption DEF Send
<1>4. /\ \A u \in All : u # t => pc'[u] = pc[u]
      /\ pc'[t] = "pipe" <=> wbuf[t] = <<>>
      /\ pc'[t] # "gone"
  BY DEF Send, Goto, BaseInv, Types
<1>5. connected /\ fault = "none" => Written(t)
  BY <1>1 DEF ChannelInv, StreamInv, Stale
<1> QED
  BY <1>1, <1>2, <1>3, <1>4, <1>5, WriteChan DEF Send, control

(* The second part is kept by the news of a death.                         *)
LEMMA DeathChan == ASSUME BaseInv, ChannelInv, NEW t \in All, Death(t) PROVE ChannelInv'
<1>1. pc[t] = "death" /\ t \in table /\ SendMessage(t, 1) /\ 1 \in Nat \ {0}
  BY DEF Death, BaseInv, Life, Inside
<1>2. connected => ~recovered
  BY DEF BaseInv, ControlInv
<1>3. fault' = "none" => fault = "none" /\ ~recovered
  BY <1>2 DEF Death, Stray
<1>4. /\ \A u \in All : u # t => pc'[u] = pc[u]
      /\ pc'[t] = "pipe" <=> wbuf[t] = <<>>
      /\ pc'[t] # "gone"
  BY DEF Death, Goto, BaseInv, Types
<1>5. connected /\ fault = "none" => Written(t)
  BY <1>1 DEF ChannelInv, StreamInv, Stale
<1> QED
  BY <1>1, <1>3, <1>4, <1>5, WriteChan DEF Death, control

(* The second part is kept by a ghost's last RESUME.                       *)
LEMMA ResumeChan == ASSUME BaseInv, ChannelInv, NEW t \in All, Resume(t) PROVE ChannelInv'
<1>1. pc[t] = "resume" /\ SendMessage(t, 1) /\ 1 \in Nat \ {0}
  BY DEF Resume
<1>2. connected => ~recovered
  BY DEF BaseInv, ControlInv
<1>3. fault' = "none" => fault = "none" /\ ~recovered
  BY <1>2 DEF Resume, Stray
<1>4. /\ \A u \in All : u # t => pc'[u] = pc[u]
      /\ pc'[t] = "pipe" <=> wbuf[t] = <<>>
      /\ pc'[t] # "gone"
  BY DEF Resume, Goto, BaseInv, Types
<1>5. Written(t)
  <2>1. t \in Ghosts /\ stage[t] = "dying"
    BY <1>1 DEF BaseInv, Life, All
  <2>2. wbuf[t] = <<>> /\ said[t] = 0 /\ heard[t] = <<>>
    BY <2>1 DEF BaseInv, Mute
  <2> QED
    BY <2>2, RunEmpty DEF Written
<1> QED
  BY <1>1, <1>3, <1>4, <1>5, WriteChan DEF Resume, control

(* The second part is kept by the write to the pipe.                       *)
LEMMA WritePipeChan == ASSUME BaseInv, ChannelInv, NEW t \in All, WritePipe(t) PROVE ChannelInv'
<1>1. UNCHANGED <<control, content, need, haz, known, stage, table>> /\ pc[t] = "pipe"
  BY DEF WritePipe
<1>2. Past'
  BY <1>1 DEF ChannelInv, Past, control, content
<1>3. CASE ctl = "down"
  BY <1>2, <1>3 DEF WritePipe, ChannelInv
<1>4. CASE ctl # "down" /\ fault # "none"
  BY <1>2, <1>4 DEF WritePipe, ChannelInv
<1>5. CASE ctl # "down" /\ fault = "none"
  <2>1. pipe' = Append(pipe, t) /\ (\A u \in All : u # t => pc'[u] = pc[u]) /\ pc'[t] \notin {"pipe", "gone"}
    BY <1>5 DEF WritePipe, Goto, AfterSend, BaseInv, Types
  <2>2. ~recovered
    BY <1>1, <1>5 DEF ChannelInv, Clean
  <2>3. ASSUME connected PROVE Queued(pipe', queue', Waiting') /\ \A u \in All : StreamInv(u)'
    <3>1. Queued(pipe, queue, Waiting) /\ (\A u \in All : StreamInv(u)) /\ pipe \in Seq(All)
      BY <1>5, <2>3 DEF ChannelInv, BaseInv, Types
    <3>2. Written(t) /\ wbuf[t] # <<>>
      BY <1>1, <3>1 DEF StreamInv
    <3>3. Pending(t)
      BY <3>2, WrittenPending DEF BaseInv, Types
    <3>4. t \notin Waiting /\ \A u \in All : u \in Waiting' <=> u \in Waiting \/ u = t
      <4>1. \A u \in All : Pending(u)' <=> Pending(u)
        BY <1>1 DEF Pending, control, content
      <4> QED
        BY <1>1, <2>1, <3>3, <4>1 DEF Waiting
    <3>5. Queued(Append(pipe, t), queue, Waiting')
      BY ONLY <3>1, <3>4, t \in All, QueuePush
    <3>6. \A u \in All : StreamInv(u)'
      BY <1>1, <2>1, <3>1, SameStream DEF control, content
    <3> QED
      BY <1>1, <2>1, <3>5, <3>6 DEF control
  <2>4. connected' => Queued(pipe, queue, Waiting)' /\ \A u \in All : StreamInv(u)'
    BY <1>1, <2>3 DEF Queued, Once, In, control
  <2> QED
    BY <1>1, <1>2, <2>2, <2>4 DEF ChannelInv, control
<1> QED
  BY <1>3, <1>4, <1>5

(* The second part is kept by a turn of offReadBuffer.                     *)
LEMMA ReadTurnChan == ASSUME BaseInv, ChannelInv, NEW t \in All, ReadTurn(t) PROVE ChannelInv'
<1>1. UNCHANGED <<control, pipe, wbuf, said, told, answer, heard, known, stage, table, fault>> /\ pc[t] = "read"
  BY DEF ReadTurn
<1>2. t \in table
  BY <1>1 DEF BaseInv, Life, Inside
<1>3. PICK n \in 0..Len(rbuf[t]) : \E x \in {"readwait", "detach", "run", "remove", "read"} :
           /\ got'[t] = got[t] \o SubSeq(rbuf[t], 1, n)
           /\ rbuf'[t] = SubSeq(rbuf[t], n + 1, Len(rbuf[t]))
           /\ \A u \in All : u # t => got'[u] = got[u] /\ rbuf'[u] = rbuf[u]
           /\ pc' = [pc EXCEPT ![t] = x]
  BY ZenonT(60), ReadFacts
<1>4. (\A u \in All : u # t => pc'[u] = pc[u]) /\ pc'[t] \notin {"pipe", "gone"}
  BY <1>3 DEF BaseInv, Types
<1>5. rbuf[t] \in Seq(Unit) /\ got[t] \in Seq(Unit) /\ session \in Nat
  BY DEF BaseInv, Types
<1>6. /\ got'[t] \o rbuf'[t] = got[t] \o rbuf[t]
      /\ Len(got'[t]) + Len(rbuf'[t]) = Len(got[t]) + Len(rbuf[t])
  <2>1. /\ got'[t] \o rbuf'[t] = got[t] \o rbuf[t]
        /\ Len(got'[t]) = Len(got[t]) + n /\ Len(rbuf'[t]) = Len(rbuf[t]) - n
    <3>1. got'[t] = got[t] \o SubSeq(rbuf[t], 1, n) /\ rbuf'[t] = SubSeq(rbuf[t], n + 1, Len(rbuf[t]))
      BY <1>3
    <3>2. /\ (got[t] \o SubSeq(rbuf[t], 1, n)) \o SubSeq(rbuf[t], n + 1, Len(rbuf[t])) = got[t] \o rbuf[t]
          /\ Len(got[t] \o SubSeq(rbuf[t], 1, n)) = Len(got[t]) + n
          /\ Len(SubSeq(rbuf[t], n + 1, Len(rbuf[t]))) = Len(rbuf[t]) - n
      BY ONLY <1>5, n \in 0..Len(rbuf[t]), CutSeq
    <3> QED
      BY ONLY <3>1, <3>2
  <2>2. Len(got[t]) \in Nat /\ Len(rbuf[t]) \in Nat /\ n \in Nat
    BY <1>5
  <2>3. ASSUME NEW x \in Nat, NEW y \in Nat, NEW z \in Nat PROVE (x + z) + (y - z) = x + y
    OBVIOUS
  <2>4. (Len(got[t]) + n) + (Len(rbuf[t]) - n) = Len(got[t]) + Len(rbuf[t])
    BY ONLY <2>2, <2>3
  <2> QED
    BY ONLY <2>1, <2>4
<1>7. Past'
  BY <1>1 DEF ChannelInv, Past, control
<1>8. ASSUME fault = "none", recovered PROVE Clean'
  <2>1. (\A u \in table : wbuf[u] = <<>> /\ rbuf[u] = <<>>) /\ (\A u \in All : pc[u] # "pipe") /\ table \subseteq All
    BY <1>8 DEF ChannelInv, Clean, BaseInv, Types
  <2>2. rbuf'[t] = <<>>
    <3>1. rbuf[t] = <<>> /\ n \in 0..0
      BY <1>2, <1>3, <2>1
    <3>2. SubSeq(<<>>, 0 + 1, 0) = <<>> /\ Len(<<>>) = 0 /\ n = 0
      BY ONLY <3>1
    <3> QED
      BY ONLY <1>3, <3>1, <3>2
  <2> QED
    BY <1>1, <1>3, <1>4, <2>1, <2>2 DEF Clean
<1>9. ASSUME fault = "none", connected PROVE Queued(pipe, queue, Waiting') /\ \A u \in All : StreamInv(u)'
  <2>1. Queued(pipe, queue, Waiting) /\ (\A u \in All : StreamInv(u))
    BY <1>9 DEF ChannelInv
  <2>2. \A u \in All : u \in Waiting <=> u \in Waiting'
    BY <1>1, <1>4 DEF Waiting, Pending, control
  <2>3. ASSUME NEW u \in All PROVE StreamInv(u)'
    <3>1. CASE u # t
      BY <1>1, <1>3, <1>4, <2>1, <3>1, SameStream DEF control
    <3>2. CASE u = t
      <4>1. Run(got[t] \o rbuf[t], session) /\ told[t] = Len(got[t]) + Len(rbuf[t]) /\ (Written(t) \/ Stale(t))
        BY <1>2, <2>1 DEF StreamInv
      <4>2. Run(got'[t] \o rbuf'[t], session) /\ told'[t] = Len(got'[t]) + Len(rbuf'[t])
        BY <1>1, <1>6, <4>1
      <4>3. got'[t] \in Seq(Unit) /\ rbuf'[t] \in Seq(Unit)
        BY SMTT(30), <1>3, <1>5
      <4>4. Run(got'[t], session)
        BY ONLY <1>5, <4>2, <4>3, RunBegins
      <4>5. Written(t)' \/ Stale(t)'
        BY <1>1, <4>1 DEF Written, Stale, Run, control
      <4>6. session' = session
        BY <1>1 DEF control
      <4> QED
        BY ONLY <1>4, <3>2, <4>2, <4>4, <4>5, <4>6 DEF StreamInv, Run
    <3> QED
      BY <3>1, <3>2
  <2> QED
    BY <2>1, <2>2, <2>3, QueueSame
<1> QED
  <2>1. connected' /\ fault' = "none" => Queued(pipe, queue, Waiting)' /\ \A u \in All : StreamInv(u)'
    BY <1>1, <1>9 DEF Queued, Once, In, control
  <2>2. fault' = "none" /\ recovered' => Clean'
    BY <1>1, <1>8 DEF control
  <2> QED
    BY ONLY <1>7, <2>1, <2>2 DEF ChannelInv

(* The second part is kept by the read from the pipe.                      *)
LEMMA ReadPipeChan == ASSUME BaseInv, ChannelInv, ReadPipe PROVE ChannelInv'
<1>1. /\ pipe # <<>> /\ pipe' = Tail(pipe) /\ queue' = Append(queue, Head(pipe))
      /\ UNCHANGED <<connected, recovered, ctl, towake, session, packet, content, threads, fault>>
  BY DEF ReadPipe
<1>2. Past'
  BY <1>1 DEF ChannelInv, Past, content
<1>3. ASSUME fault = "none", recovered PROVE Clean'
  BY <1>1, <1>3 DEF ChannelInv, Clean, content, threads
<1>4. ASSUME fault = "none", connected PROVE Queued(pipe', queue', Waiting') /\ \A u \in All : StreamInv(u)'
  <2>1. Queued(pipe, queue, Waiting) /\ (\A u \in All : StreamInv(u)) /\ pipe \in Seq(All) /\ queue \in Seq(All)
    BY <1>4 DEF ChannelInv, BaseInv, Types
  <2>2. \A u \in All : u \in Waiting <=> u \in Waiting'
    BY <1>1 DEF Waiting, Pending, content, threads
  <2>3. \A u \in All : StreamInv(u)'
    BY <1>1, <2>1, SameStream DEF content, threads
  <2>4. Queued(Tail(pipe), Append(queue, Head(pipe)), Waiting)
    BY ONLY <1>1, <2>1, QueueMove
  <2> QED
    BY <1>1, <2>2, <2>3, <2>4, QueueSame
<1> QED
  <2>1. connected' /\ fault' = "none" => Queued(pipe, queue, Waiting)' /\ \A u \in All : StreamInv(u)'
    BY <1>1, <1>4 DEF Queued, Once, In
  <2> QED
    BY ONLY <1>1, <1>2, <1>3, <2>1 DEF ChannelInv

(* The second part is kept by the loss of the connection.                  *)
LEMMA LoseChan == ASSUME BaseInv, ChannelInv, Lose PROVE ChannelInv'
<1>1. ~recovered /\ recovered' = recovered /\ connected' = FALSE
  BY DEF Lose, BaseInv, ControlInv
<1>2. Past'
  BY DEF Lose, ChannelInv, Past, content
<1> QED
  BY <1>1, <1>2 DEF ChannelInv

(* The second part is kept by the end of the pipe.                         *)
LEMMA ClosePipeChan == ASSUME BaseInv, ChannelInv, ClosePipe PROVE ChannelInv'
<1>1. ~connected /\ UNCHANGED <<connected, recovered, session, content, threads, fault>>
  BY DEF ClosePipe, BaseInv, ControlInv
<1>2. Past' /\ (Clean => Clean')
  BY <1>1 DEF ChannelInv, Past, Clean, content, threads
<1> QED
  BY <1>1, <1>2 DEF ChannelInv

(* The second part is kept by the clean-up.                                *)
LEMMA CleanupChan == ASSUME BaseInv, ChannelInv, Cleanup PROVE ChannelInv'
<1>1. /\ wbuf' = [t \in All |-> IF t \in table THEN <<>> ELSE wbuf[t]]
      /\ rbuf' = [t \in All |-> IF t \in table THEN <<>> ELSE rbuf[t]]
      /\ fault' = IF \E t \in All : pc[t] = "pipe" THEN "stray" ELSE fault
      /\ UNCHANGED <<connected, session, pc, table>> /\ ~connected /\ table \subseteq All
  BY DEF Cleanup, BaseInv, ControlInv, Types
<1>2. Past'
  <2> SUFFICES ASSUME NEW u \in All, NEW i \in 1..Len(wbuf'[u]) PROVE wbuf'[u][i].conn <= session
    BY <1>1 DEF Past
  <2>1. u \notin table
    <3> SUFFICES ASSUME u \in table PROVE FALSE
      OBVIOUS
    <3>1. i \in 1..Len(<<>>)
      BY <1>1
    <3> QED
      BY ONLY <3>1
  <2> QED
    BY <1>1, <2>1 DEF ChannelInv, Past
<1>3. fault' = "none" => Clean'
  BY <1>1 DEF Clean
<1> QED
  BY <1>1, <1>2, <1>3 DEF ChannelInv

(* The second part is kept by a packet that is out.                        *)
LEMMA WritePacketChan == ASSUME BaseInv, ChannelInv, WritePacket PROVE ChannelInv'
<1>1. PICK t \in All : \E n \in 0..Len(wbuf[t]) :
           /\ ctl = "up" /\ queue # <<>> /\ t = Head(queue) /\ packet = <<t, n>>
           /\ heard'[t] = heard[t] \o SubSeq(wbuf[t], 1, n)
           /\ wbuf'[t] = SubSeq(wbuf[t], n + 1, Len(wbuf[t]))
           /\ \A u \in All : u # t => heard'[u] = heard[u] /\ wbuf'[u] = wbuf[u] /\ pc'[u] = pc[u]
           /\ wbuf'[t] = <<>> => queue' = Tail(queue)
           /\ wbuf'[t] # <<>> => queue' = Append(Tail(queue), t)
           /\ \/ pc'[t] = pc[t]
              \/ pc[t] = "readwait" /\ pc'[t] = "read"
              \/ pc[t] = "flushwait" /\ pc'[t] = "flush"
  BY PacketFacts
<1>2. PICK n \in 0..Len(wbuf[t]) :
           /\ ctl = "up" /\ queue # <<>> /\ t = Head(queue)
           /\ heard'[t] = heard[t] \o SubSeq(wbuf[t], 1, n)
           /\ wbuf'[t] = SubSeq(wbuf[t], n + 1, Len(wbuf[t]))
           /\ \A u \in All : u # t => heard'[u] = heard[u] /\ wbuf'[u] = wbuf[u] /\ pc'[u] = pc[u]
           /\ wbuf'[t] = <<>> => queue' = Tail(queue)
           /\ wbuf'[t] # <<>> => queue' = Append(Tail(queue), t)
           /\ \/ pc'[t] = pc[t]
              \/ pc[t] = "readwait" /\ pc'[t] = "read"
              \/ pc[t] = "flushwait" /\ pc'[t] = "flush"
  BY <1>1
<1>3. UNCHANGED <<connected, recovered, session, pipe, rbuf, said, told, got, table, fault>>
  BY DEF WritePacket
<1>4. /\ wbuf[t] \in Seq(Unit) /\ heard[t] \in Seq(Unit) /\ queue \in Seq(All) /\ session \in Nat
      /\ connected /\ ~recovered
  BY <1>2 DEF BaseInv, Types, ControlInv
<1>5. /\ heard'[t] \o wbuf'[t] = heard[t] \o wbuf[t]
      /\ Len(heard'[t]) + Len(wbuf'[t]) = Len(heard[t]) + Len(wbuf[t])
      /\ Len(wbuf'[t]) = Len(wbuf[t]) - n /\ \A i \in 1..Len(wbuf[t]) - n : wbuf'[t][i] = wbuf[t][n + i]
      /\ wbuf'[t] \in Seq(Unit) /\ heard'[t] \in Seq(Unit)
  <2>1. heard'[t] = heard[t] \o SubSeq(wbuf[t], 1, n) /\ wbuf'[t] = SubSeq(wbuf[t], n + 1, Len(wbuf[t]))
    BY <1>2
  <2>2. /\ (heard[t] \o SubSeq(wbuf[t], 1, n)) \o SubSeq(wbuf[t], n + 1, Len(wbuf[t])) = heard[t] \o wbuf[t]
        /\ Len(heard[t] \o SubSeq(wbuf[t], 1, n)) = Len(heard[t]) + n
        /\ Len(SubSeq(wbuf[t], n + 1, Len(wbuf[t]))) = Len(wbuf[t]) - n
        /\ \A i \in 1..Len(wbuf[t]) - n : SubSeq(wbuf[t], n + 1, Len(wbuf[t]))[i] = wbuf[t][n + i]
    BY ONLY <1>4, n \in 0..Len(wbuf[t]), CutSeq
  <2>3. Len(heard[t]) \in Nat /\ Len(wbuf[t]) \in Nat /\ n \in Nat
    BY <1>4
  <2>4. ASSUME NEW x \in Nat, NEW y \in Nat, NEW z \in Nat PROVE (x + z) + (y - z) = x + y
    OBVIOUS
  <2>5. (Len(heard[t]) + n) + (Len(wbuf[t]) - n) = Len(heard[t]) + Len(wbuf[t])
    BY ONLY <2>3, <2>4
  <2>6. wbuf'[t] \in Seq(Unit) /\ heard'[t] \in Seq(Unit)
    BY ONLY <1>4, <2>1, n \in 0..Len(wbuf[t])
  <2> QED
    BY ONLY <2>1, <2>2, <2>5, <2>6
<1>6. Past'
  <2> SUFFICES ASSUME NEW u \in All, NEW i \in 1..Len(wbuf'[u]) PROVE wbuf'[u][i].conn <= session
    BY <1>3 DEF Past
  <2>1. CASE u # t
    BY <1>2, <2>1 DEF ChannelInv, Past
  <2>2. CASE u = t
    <3>1. n + i \in 1..Len(wbuf[t]) /\ wbuf'[t][i] = wbuf[t][n + i]
      BY SMTT(30), <1>4, <1>5, <2>2
    <3> QED
      BY <2>2, <3>1 DEF ChannelInv, Past
  <2> QED
    BY <2>1, <2>2
<1>7. ASSUME fault = "none" PROVE Queued(pipe, queue', Waiting') /\ \A u \in All : StreamInv(u)'
  <2>1. Queued(pipe, queue, Waiting) /\ (\A u \in All : StreamInv(u))
    BY <1>4, <1>7 DEF ChannelInv
  <2>2. In(queue, t) /\ Tail(queue) \in Seq(All)
    BY ONLY <1>2, <1>4, <2>1, InTail DEF Queued
  <2>3. t \in Waiting
    BY <2>1, <2>2 DEF Queued
  <2>4. Pending(t) /\ pc[t] # "pipe" /\ wbuf[t] # <<>>
    BY <2>3 DEF Waiting, Pending
  <2>5. Written(t)
    <3>1. 1 \in 1..Len(wbuf[t]) /\ wbuf[t][1].conn = session
      BY <1>4, <2>4 DEF Pending
    <3> QED
      BY <2>1, <3>1 DEF StreamInv, Stale
  <2>6. pc'[t] \notin {"pipe", "gone"}
    BY <1>2, <2>1, <2>4 DEF StreamInv
  <2>7. Written(t)'
    BY <1>3, <1>5, <2>5 DEF Written, Run
  <2>8. Pending(t)' <=> wbuf'[t] # <<>>
    <3>1. ASSUME wbuf'[t] # <<>> PROVE Pending(t)'
      <4>1. PICK a \in Seq(Unit), b \in Seq(Unit), c \in Nat : a = heard'[t] /\ b = wbuf'[t] /\ c = session'
        BY <1>3, <1>4, <1>5
      <4>2. Run(a \o b, c) /\ b # <<>>
        BY ONLY <2>7, <3>1, <4>1 DEF Written, Run
      <4>3. Len(a) + 1 \in 1..Len(a \o b) /\ (a \o b)[Len(a) + 1] = b[1]
        <5>1. Len(b) >= 1 /\ Len(a) \in Nat /\ Len(b) \in Nat
          BY ONLY a \in Seq(Unit), b \in Seq(Unit), <4>2
        <5>2. Len(a \o b) = Len(a) + Len(b) /\ Len(a) + 1 \in 1..Len(a) + Len(b) /\ (Len(a) + 1) - Len(a) = 1
          BY ONLY a \in Seq(Unit), b \in Seq(Unit), <5>1, CatSeq
        <5> QED
          BY ONLY a \in Seq(Unit), b \in Seq(Unit), <5>1, <5>2, CatSeq
      <4>4. b[1].conn = c
        <5>1. b[1] = [conn |-> c, n |-> Len(a) + 1]
          BY ONLY <4>2, <4>3 DEF Run
        <5> QED
          BY ONLY <5>1
      <4> QED
        BY ONLY <3>1, <4>1, <4>4 DEF Pending
    <3> QED
      BY <3>1 DEF Pending
  <2>9. ASSUME NEW u \in All PROVE StreamInv(u)'
    <3>1. CASE u # t
      BY <1>2, <1>3, <2>1, <3>1, SameStream
    <3>2. CASE u = t
      <4>1. /\ t \in table' => Run(got'[t] \o rbuf'[t], session) /\ told'[t] = Len(got'[t]) + Len(rbuf'[t])
            /\ Run(got'[t], session)
        BY ONLY <1>3, <2>1, t \in All DEF StreamInv
      <4> QED
        BY ONLY <1>3, <2>6, <2>7, <3>2, <4>1 DEF StreamInv, Run
    <3> QED
      BY <3>1, <3>2
  <2>10. \A u \in All : u # t => (u \in Waiting' <=> u \in Waiting)
    BY <1>2, <1>3 DEF Waiting, Pending
  <2>11. t \in Waiting' <=> wbuf'[t] # <<>>
    BY <2>6, <2>8 DEF Waiting
  <2>12. CASE wbuf'[t] = <<>>
    <3>1. \A u \in All : u \in Waiting' <=> u \in Waiting /\ u # Head(queue)
      BY <1>2, <2>10, <2>11, <2>12
    <3>2. Queued(pipe, Tail(queue), Waiting')
      BY ONLY <1>2, <1>4, <2>1, <3>1, QueueDrop
    <3> QED
      BY <1>2, <2>9, <2>12, <3>2
  <2>13. CASE wbuf'[t] # <<>>
    <3>1. \A u \in All : u \in Waiting <=> u \in Waiting'
      BY <2>3, <2>10, <2>11, <2>13
    <3>2. Queued(pipe, Append(Tail(queue), Head(queue)), Waiting)
      BY ONLY <1>2, <1>4, <2>1, QueueTurn
    <3> QED
      BY <1>2, <2>9, <2>13, <3>1, <3>2, QueueSame
  <2> QED
    BY <2>12, <2>13
<1> QED
  <2>1. connected' /\ fault' = "none" => Queued(pipe, queue, Waiting)' /\ \A u \in All : StreamInv(u)'
    BY <1>3, <1>7 DEF Queued, Once, In
  <2> QED
    BY ONLY <1>3, <1>4, <1>6, <2>1 DEF ChannelInv

(* The second part is kept by a packet that has arrived.                   *)
LEMMA ReceiveChan == ASSUME BaseInv, ChannelInv, NEW t \in All, Receive(t) PROVE ChannelInv'
<1>1. PICK v \in Seq(Unit) :
           /\ ctl = "up" /\ (t \in table \/ (t \in Ghosts /\ pc[t] = "none"))
           /\ \A i \in 1..Len(v) : v[i] = [conn |-> session, n |-> told[t] + i]
           /\ rbuf'[t] = rbuf[t] \o v
           /\ told'[t] = told[t] + Len(v)
           /\ \A u \in All : u # t => rbuf'[u] = rbuf[u] /\ told'[u] = told[u] /\ pc'[u] = pc[u] /\ need'[u] = need[u]
           /\ pc[t] = "none" => pc'[t] = "read" /\ need'[t] = 1 /\ table' = table \cup {t}
           /\ pc[t] # "none" =>
                /\ need' = need /\ table' = table
                /\ pc'[t] = pc[t] \/ (pc[t] = "readwait" /\ pc'[t] = "read")
  BY ReceiveFacts
<1>2. UNCHANGED <<control, pipe, wbuf, said, heard, got, haz, known, stage, fault>>
  BY DEF Receive
<1>3. /\ rbuf[t] \in Seq(Unit) /\ got[t] \in Seq(Unit) /\ session \in Nat /\ told[t] \in Nat
      /\ connected /\ ~recovered
  BY <1>1 DEF BaseInv, Types, ControlInv
<1>4. Past'
  BY <1>2 DEF ChannelInv, Past, control
<1>5. ASSUME fault = "none" PROVE Queued(pipe, queue, Waiting') /\ \A u \in All : StreamInv(u)'
  <2>1. Queued(pipe, queue, Waiting) /\ (\A u \in All : StreamInv(u))
    BY <1>3, <1>5 DEF ChannelInv
  <2>2. \A u \in All : (u \in table' => u \in table \/ u = t)
    BY <1>1
  <2>3. (pc'[t] = "pipe" => pc[t] = "pipe") /\ (pc[t] = "pipe" => pc'[t] = "pipe") /\ (pc'[t] = "gone" => pc[t] = "gone")
    BY <1>1
  <2>4. \A u \in All : u \in Waiting <=> u \in Waiting'
    BY <1>1, <1>2, <2>3 DEF Waiting, Pending, control
  <2>5. Run(got[t] \o rbuf[t], session) /\ told[t] = Len(got[t]) + Len(rbuf[t]) /\ (Written(t) \/ (Stale(t) /\ t \notin table'))
    <3>1. CASE t \in table
      BY <2>1, <3>1 DEF StreamInv, Stale
    <3>2. CASE t \in Ghosts /\ pc[t] = "none"
      <4>1. rbuf[t] = <<>> /\ told[t] = 0 /\ got[t] = <<>> /\ Life(t)
        BY <3>2 DEF BaseInv, Mute
      <4>2. stage[t] = "live"
        BY <3>2, <4>1, ThreadAssumption DEF Life
      <4>3. wbuf[t] = <<>> /\ said[t] = 0 /\ heard[t] = <<>>
        BY <3>2, <4>2 DEF BaseInv, Mute
      <4>4. Written(t)
        BY <4>3, RunEmpty DEF Written
      <4> QED
        BY <4>1, <4>4, RunEmpty
    <3> QED
      BY <1>1, <3>1, <3>2
  <2>6. ASSUME NEW u \in All PROVE StreamInv(u)'
    <3>1. CASE u # t
      BY <1>1, <1>2, <2>1, <2>2, <3>1, SameStream DEF control
    <3>2. CASE u = t
      <4>1. got[t] \o rbuf[t] \in Seq(Unit) /\ Len(got[t] \o rbuf[t]) = told[t]
        BY ONLY <1>3, <2>5, CatSeq
      <4>2. \A i \in 1..Len(v) : v[i] = [conn |-> session, n |-> Len(got[t] \o rbuf[t]) + i]
        BY ONLY <1>1, <4>1
      <4>3. Run((got[t] \o rbuf[t]) \o v, session)
        BY ONLY <1>3, <2>5, <4>1, <4>2, v \in Seq(Unit), RunGoesOn
      <4>4. (got[t] \o rbuf[t]) \o v = got[t] \o (rbuf[t] \o v)
        <5>1. ASSUME NEW a \in Seq(Unit), NEW b \in Seq(Unit), NEW c \in Seq(Unit) PROVE (a \o b) \o c = a \o (b \o c)
          BY ONLY a \in Seq(Unit), b \in Seq(Unit), c \in Seq(Unit), ConcatAssociative
        <5> QED
          BY ONLY <1>3, v \in Seq(Unit), <5>1
      <4>5. got'[t] = got[t] /\ rbuf'[t] = rbuf[t] \o v /\ session' = session /\ told'[t] = told[t] + Len(v)
        BY <1>1, <1>2 DEF control
      <4>6. Run(got'[t] \o rbuf'[t], session)
        BY ONLY <4>3, <4>4, <4>5
      <4>7. told'[t] = Len(got'[t]) + Len(rbuf'[t])
        <5>1. Len(rbuf[t] \o v) = Len(rbuf[t]) + Len(v) /\ Len(got[t]) \in Nat /\ Len(rbuf[t]) \in Nat /\ Len(v) \in Nat
          BY ONLY <1>3, v \in Seq(Unit), CatSeq
        <5>2. ASSUME NEW x \in Nat, NEW y \in Nat, NEW z \in Nat PROVE (x + y) + z = x + (y + z)
          OBVIOUS
        <5>3. (Len(got[t]) + Len(rbuf[t])) + Len(v) = Len(got[t]) + (Len(rbuf[t]) + Len(v))
          BY ONLY <5>1, <5>2
        <5> QED
          BY ONLY <2>5, <4>5, <5>1, <5>3
      <4>8. Run(got'[t], session)
        BY <2>1, <4>5 DEF StreamInv
      <4>9. Written(t)' \/ Stale(t)'
        BY <1>2, <2>5 DEF Written, Stale, Run, control
      <4>10. pc'[t] = "pipe" => wbuf'[t] # <<>> /\ Written(t)'
        BY <1>2, <2>1, <2>3 DEF StreamInv, Written, Run, control
      <4>11. pc'[t] = "gone" => ~Pending(t)'
        BY <1>2, <2>1, <2>3 DEF StreamInv, Pending, control
      <4> QED
        BY ONLY <3>2, <4>5, <4>6, <4>7, <4>8, <4>9, <4>10, <4>11 DEF StreamInv, Run
    <3> QED
      BY <3>1, <3>2
  <2> QED
    BY <2>1, <2>4, <2>6, QueueSame
<1> QED
  <2>1. connected' /\ fault' = "none" => Queued(pipe, queue, Waiting)' /\ \A u \in All : StreamInv(u)'
    BY <1>2, <1>5 DEF Queued, Once, In, control
  <2> QED
    BY ONLY <1>2, <1>3, <1>4, <2>1 DEF ChannelInv, control

(* The second part is kept by a new connection.                            *)
LEMMA ConnectChan == ASSUME BaseInv, ChannelInv, Connect PROVE ChannelInv'
<1>1. /\ ctl = "down" /\ connected' = TRUE /\ recovered' = FALSE /\ session' = session + 1
      /\ UNCHANGED <<towake, queue, packet, pipe, wbuf, rbuf, threads, fault>>
      /\ \A t \in All : said'[t] = 0 /\ told'[t] = 0 /\ heard'[t] = <<>> /\ got'[t] = <<>>
  BY DEF Connect
<1>2. recovered /\ pipe = <<>> /\ queue = <<>> /\ session \in Nat
  BY <1>1 DEF BaseInv, ControlInv, Types
<1>3. \A t \in All : \A i \in 1..Len(wbuf[t]) : wbuf[t][i].conn <= session /\ wbuf[t][i].conn \in Nat
  <2>1. \A t \in All : wbuf[t] \in Seq(Unit)
    BY DEF BaseInv, Types
  <2>2. ASSUME NEW t \in All, NEW i \in 1..Len(wbuf[t]) PROVE wbuf[t][i].conn <= session /\ wbuf[t][i].conn \in Nat
    <3>1. wbuf[t][i] \in Unit
      BY <2>1
    <3>2. wbuf[t][i].conn \in Nat
      BY ONLY <3>1 DEF Unit
    <3> QED
      BY <3>2 DEF ChannelInv, Past
  <2> QED
    BY <2>2
<1>4. \A t \in All : \A i \in 1..Len(wbuf[t]) : wbuf[t][i].conn <= session' /\ wbuf[t][i].conn # session'
  <2> SUFFICES ASSUME NEW t \in All, NEW i \in 1..Len(wbuf[t])
               PROVE  wbuf[t][i].conn <= session' /\ wbuf[t][i].conn # session'
    OBVIOUS
  <2>1. wbuf[t][i].conn <= session /\ wbuf[t][i].conn \in Nat
    BY <1>3
  <2> QED
    BY ONLY <1>1, <1>2, <2>1
<1>5. Past'
  BY <1>1, <1>4 DEF Past
<1>6. ASSUME NEW t \in All PROVE ~Pending(t)'
  <2> SUFFICES ASSUME wbuf'[t] # <<>>, wbuf'[t][1].conn = session' PROVE FALSE
    BY DEF Pending
  <2>1. wbuf[t] \in Seq(Unit) /\ wbuf' = wbuf
    BY <1>1 DEF BaseInv, Types
  <2>2. 1 \in 1..Len(wbuf[t])
    BY <2>1
  <2> QED
    BY <1>4, <2>1, <2>2
<1>7. ASSUME fault = "none" PROVE Queued(<<>>, <<>>, Waiting') /\ \A t \in All : StreamInv(t)'
  <2>1. Clean /\ pc' = pc /\ table' = table /\ wbuf' = wbuf /\ rbuf' = rbuf
    BY <1>1, <1>2, <1>7 DEF ChannelInv, threads
  <2>2. Queued(<<>>, <<>>, Waiting')
    BY <1>6 DEF Queued, Once, In, Waiting
  <2>3. ASSUME NEW t \in All PROVE StreamInv(t)'
    <3>1. said'[t] = 0 /\ told'[t] = 0 /\ heard'[t] = <<>> /\ got'[t] = <<>>
      BY <1>1
    <3>2. CASE t \in table
      <4>1. wbuf'[t] = <<>> /\ rbuf'[t] = <<>>
        BY <2>1, <3>2 DEF Clean
      <4> QED
        BY <1>6, <2>1, <3>1, <4>1, RunEmpty DEF StreamInv, Written, Clean
    <3>3. CASE t \notin table
      <4>1. Stale(t)'
        BY <1>4, <2>1, <3>1, <3>3 DEF Stale
      <4> QED
        BY <1>6, <2>1, <3>1, <3>3, <4>1, RunEmpty DEF StreamInv, Clean
    <3> QED
      BY <3>2, <3>3
  <2> QED
    BY <2>2, <2>3
<1> QED
  <2>1. fault' = "none" => Queued(pipe, queue, Waiting)' /\ \A u \in All : StreamInv(u)'
    BY <1>1, <1>2, <1>7 DEF Queued, Once, In
  <2> QED
    BY ONLY <1>1, <1>5, <2>1 DEF ChannelInv

-----------------------------------------------------------------------------
(* The inductive invariant of the channels. *)
ChannelsInv == BaseInv /\ ChannelInv

(* The second part of the invariant holds at the start.                    *)
LEMMA StartChan == Init => ChannelInv
<1> SUFFICES ASSUME Init PROVE ChannelInv
  OBVIOUS
<1>1. connected = FALSE /\ (\A t \in All : wbuf[t] = <<>> /\ rbuf[t] = <<>> /\ pc[t] # "pipe")
  BY DEF Init
<1>2. table \subseteq All
  BY DEF Init, All
<1>3. Past
  BY <1>1 DEF Past
<1>4. Clean
  BY <1>1, <1>2 DEF Clean
<1> QED
  BY <1>1, <1>3, <1>4 DEF ChannelInv

(* Every step keeps the second part of the invariant.                      *)
LEMMA StepChan == ChannelsInv /\ [Next]_vars => ChannelInv'
<1> SUFFICES ASSUME BaseInv, ChannelInv, [Next]_vars PROVE ChannelInv'
  BY DEF ChannelsInv
<1>1. CASE UNCHANGED vars
  <2>1. UNCHANGED <<session, connected, recovered, pipe, queue, wbuf, rbuf, heard, got, said, told, fault, table, pc>>
    BY <1>1 DEF vars, control, content, threads
  <2> QED
    BY <2>1, QuietStep
<1>2. ASSUME NEW t \in All, ThreadNext(t) PROVE ChannelInv'
  BY <1>2, EnterHazardChan, ClearHazardChan, SendChan, WritePipeChan, ReadChan, ReadTurnChan, ExitChan, DeathChan,
     WaitForResumeChan, DetachChan, RemoveChan, FlushTurnChan, ResumeChan DEF ThreadNext
<1>3. ASSUME NEW t \in All, Receive(t) \/ SignalThread(t) PROVE ChannelInv'
  BY <1>3, ReceiveChan, SignalThreadChan
<1>4. CASE PickWriter \/ WritePacket \/ ReadPipe \/ Woken \/ Lose \/ Cleanup \/ ClosePipe \/ Connect
  BY <1>4, PickWriterChan, WritePacketChan, ReadPipeChan, WokenChan, LoseChan, CleanupChan, ClosePipeChan, ConnectChan
<1> QED
  BY <1>1, <1>2, <1>3, <1>4 DEF Next, ControlNext

(* The threads in the table and their channels, the control thread's queue *)
(* and what is in the buffers stay as the invariant has them.              *)
THEOREM ChannelsInvHolds == Spec => []ChannelsInv
<1>1. Init => ChannelsInv
  BY StartBase, StartChan DEF ChannelsInv
<1>2. ChannelsInv /\ [Next]_vars => ChannelsInv'
  BY StepBase, StepChan DEF ChannelsInv
<1> QED
  BY <1>1, <1>2, PTL DEF Spec

(* Where a thread stands in the pipe and the queue, taken as one sequence. *)
LEMMA PlacesCount ==
  ASSUME pipe \in Seq(All), queue \in Seq(All), Queued(pipe, queue, Waiting), NEW t \in All
  PROVE  /\ t \in Waiting => Cardinality(Places(t)) = 1
         /\ t \notin Waiting => Places(t) = {} /\ Cardinality(Places(t)) = 0
<1>1. /\ Len(pipe \o queue) = Len(pipe) + Len(queue) /\ Len(pipe) \in Nat /\ Len(queue) \in Nat
      /\ \A i \in 1..Len(pipe) + Len(queue) : (pipe \o queue)[i] = IF i <= Len(pipe) THEN pipe[i] ELSE queue[i - Len(pipe)]
  OBVIOUS
<1>2. ASSUME NEW i \in Places(t)
      PROVE  \/ i \in 1..Len(pipe) /\ pipe[i] = t
             \/ i - Len(pipe) \in 1..Len(queue) /\ queue[i - Len(pipe)] = t
  <2>1. i \in 1..Len(pipe) + Len(queue) /\ (pipe \o queue)[i] = t
    BY <1>1 DEF Places
  <2> QED
    BY ONLY <1>1, <2>1
<1>3. CASE t \notin Waiting
  <2>1. ~In(pipe, t) /\ ~In(queue, t)
    BY <1>3 DEF Queued
  <2>2. Places(t) = {}
    BY <1>2, <2>1 DEF In
  <2> QED
    BY <1>3, <2>2, FS_EmptySet
<1>4. CASE t \in Waiting
  <2>1. \E i \in Places(t) : TRUE
    <3>1. CASE In(pipe, t)
      <4>1. PICK i \in 1..Len(pipe) : pipe[i] = t
        BY <3>1 DEF In
      <4>2. i \in 1..Len(pipe) + Len(queue) /\ (pipe \o queue)[i] = t
        BY ONLY <1>1, <4>1
      <4> QED
        BY <1>1, <4>2 DEF Places
    <3>2. CASE In(queue, t)
      <4>1. PICK i \in 1..Len(queue) : queue[i] = t
        BY <3>2 DEF In
      <4>2. /\ Len(pipe) + i \in 1..Len(pipe) + Len(queue) /\ ~(Len(pipe) + i <= Len(pipe))
            /\ (Len(pipe) + i) - Len(pipe) = i
        BY ONLY <1>1, i \in 1..Len(queue)
      <4>3. (pipe \o queue)[Len(pipe) + i] = t
        BY ONLY <1>1, <4>1, <4>2
      <4> QED
        BY <1>1, <4>2, <4>3 DEF Places
    <3> QED
      BY <1>4, <3>1, <3>2 DEF Queued
  <2>2. PICK i \in Places(t) : TRUE
    BY <2>1
  <2>3. ASSUME NEW j \in Places(t) PROVE j = i
    <3>1. i \in Int /\ j \in Int
      BY DEF Places
    <3>2. CASE i \in 1..Len(pipe) /\ pipe[i] = t
      <4>1. In(pipe, t)
        BY <3>2 DEF In
      <4>2. ~In(queue, t)
        BY <4>1 DEF Queued
      <4>3. j \in 1..Len(pipe) /\ pipe[j] = t
        BY <1>2, <4>2 DEF In
      <4> QED
        BY <3>2, <4>3 DEF Queued, Once
    <3>3. CASE i - Len(pipe) \in 1..Len(queue) /\ queue[i - Len(pipe)] = t
      <4>1. In(queue, t)
        BY <3>3 DEF In
      <4>2. ~In(pipe, t)
        BY <4>1 DEF Queued
      <4>3. j - Len(pipe) \in 1..Len(queue) /\ queue[j - Len(pipe)] = t
        BY <1>2, <4>2 DEF In
      <4>4. i - Len(pipe) = j - Len(pipe)
        BY <3>3, <4>3 DEF Queued, Once
      <4> QED
        BY ONLY <1>1, <3>1, <4>4
    <3> QED
      BY <1>2, <3>2, <3>3
  <2>4. Places(t) = {i}
    BY <2>2, <2>3
  <2> QED
    BY <1>4, <2>4, FS_Singleton
<1> QED
  BY <1>3, <1>4

(* A run of the current connection is its units from the first on. *)
LEMMA RunUnits ==
  ASSUME NEW s \in Seq(Unit), session \in Nat, Run(s, session)
  PROVE  s = Units(1, Len(s))
<1>1. /\ Len(s) \in Nat /\ 0 \in Nat /\ 0 + 1 = 1 /\ 0 + Len(s) = Len(s) /\ \A i \in 1..Len(s) : 0 + i = i
  OBVIOUS
<1>2. /\ Units(1, Len(s)) \in Seq(Unit) /\ Len(Units(1, Len(s))) = Len(s)
      /\ \A i \in 1..Len(s) : Units(1, Len(s))[i] = [conn |-> session, n |-> 0 + i]
  <2>1. /\ Units(0 + 1, 0 + Len(s)) \in Seq(Unit) /\ Len(Units(0 + 1, 0 + Len(s))) = Len(s)
        /\ \A i \in 1..Len(s) : Units(0 + 1, 0 + Len(s))[i] = [conn |-> session, n |-> 0 + i]
    BY ONLY <1>1, session \in Nat, UnitsSeq
  <2> QED
    BY ONLY <1>1, <2>1
<1>3. \A i \in 1..Len(s) : s[i] = Units(1, Len(s))[i]
  BY ONLY <1>1, <1>2, Run(s, session) DEF Run
<1> QED
  BY ONLY <1>2, <1>3, s \in Seq(Unit)

(* What the invariant says in the terms of the properties. *)
LEMMA ChannelsProps == ChannelsInv => QueuedOnce /\ StreamsExact /\ NoDangling /\ TableWoken
<1> SUFFICES ASSUME BaseInv, ChannelInv PROVE QueuedOnce /\ StreamsExact /\ NoDangling /\ TableWoken
  BY DEF ChannelsInv
<1>1. pipe \in Seq(All) /\ queue \in Seq(All) /\ session \in Nat
  BY DEF BaseInv, Types
<1>2. QueuedOnce /\ NoDangling
  <2> SUFFICES ASSUME connected, fault = "none", NEW t \in All
               PROVE  /\ Cardinality(Places(t)) = IF Pending(t) /\ pc[t] # "pipe" THEN 1 ELSE 0
                      /\ pc[t] = "gone" => Places(t) = {} /\ t \notin table
    BY DEF QueuedOnce, NoDangling
  <2>1. Queued(pipe, queue, Waiting) /\ StreamInv(t)
    BY DEF ChannelInv
  <2>2. t \in Waiting <=> Pending(t) /\ pc[t] # "pipe"
    BY DEF Waiting
  <2>3. /\ t \in Waiting => Cardinality(Places(t)) = 1
        /\ t \notin Waiting => Places(t) = {} /\ Cardinality(Places(t)) = 0
    BY ONLY <1>1, <2>1, t \in All, PlacesCount
  <2>4. pc[t] = "gone" => ~Pending(t) /\ t \notin table
    BY <2>1 DEF StreamInv, BaseInv, Life, Inside
  <2> QED
    BY ONLY <2>2, <2>3, <2>4
<1>3. StreamsExact
  <2> SUFFICES ASSUME connected, fault = "none", NEW t \in All
               PROVE  /\ heard[t] = Units(1, Len(heard[t])) /\ got[t] = Units(1, Len(got[t]))
                      /\ t \in table => /\ heard[t] \o wbuf[t] = Units(1, said[t])
                                        /\ got[t] \o rbuf[t] = Units(1, told[t])
    BY DEF StreamsExact
  <2>1. StreamInv(t)
    BY DEF ChannelInv
  <2>2. heard[t] \in Seq(Unit) /\ got[t] \in Seq(Unit) /\ wbuf[t] \in Seq(Unit) /\ rbuf[t] \in Seq(Unit)
    BY DEF BaseInv, Types
  <2>3. Run(heard[t], session)
    <3>1. CASE Written(t)
      BY <1>1, <2>2, <3>1, RunBegins DEF Written
    <3>2. CASE Stale(t)
      BY <3>2, RunEmpty DEF Stale
    <3> QED
      BY <2>1, <3>1, <3>2 DEF StreamInv
  <2>4. heard[t] = Units(1, Len(heard[t])) /\ got[t] = Units(1, Len(got[t]))
    BY <1>1, <2>1, <2>2, <2>3, RunUnits DEF StreamInv
  <2>5. ASSUME t \in table
        PROVE  heard[t] \o wbuf[t] = Units(1, said[t]) /\ got[t] \o rbuf[t] = Units(1, told[t])
    <3>1. /\ Run(heard[t] \o wbuf[t], session) /\ said[t] = Len(heard[t]) + Len(wbuf[t])
          /\ Run(got[t] \o rbuf[t], session) /\ told[t] = Len(got[t]) + Len(rbuf[t])
      BY <2>1, <2>5 DEF StreamInv, Written, Stale
    <3>2. /\ heard[t] \o wbuf[t] \in Seq(Unit) /\ Len(heard[t] \o wbuf[t]) = said[t]
          /\ got[t] \o rbuf[t] \in Seq(Unit) /\ Len(got[t] \o rbuf[t]) = told[t]
      BY ONLY <2>2, <3>1, CatSeq
    <3>3. /\ heard[t] \o wbuf[t] = Units(1, Len(heard[t] \o wbuf[t]))
          /\ got[t] \o rbuf[t] = Units(1, Len(got[t] \o rbuf[t]))
      BY ONLY <1>1, <3>1, <3>2, RunUnits
    <3> QED
      BY ONLY <3>2, <3>3
  <2> QED
    BY <2>4, <2>5
<1>4. TableWoken
  BY DEF TableWoken, BaseInv, ControlInv, Life, Inside, Types
<1> QED
  BY <1>2, <1>3, <1>4

(* A thread stands in the pipe or the queue exactly once while it has      *)
(* something to send.                                                      *)
THEOREM AlwaysQueuedOnce == Spec => []QueuedOnce
BY ChannelsInvHolds, ChannelsProps, PTL

(* What is heard and read on a thread's channel is what was written to it  *)
(* during the connection, in order and complete.                           *)
THEOREM AlwaysStreamsExact == Spec => []StreamsExact
BY ChannelsInvHolds, ChannelsProps, PTL

(* A thread that was freed is in no place the control thread looks at. *)
THEOREM NeverDangling == Spec => []NoDangling
BY ChannelsInvHolds, ChannelsProps, PTL

(* After a loss the control thread leaves none asleep that is in the table.*)
THEOREM AlwaysTableWoken == Spec => []TableWoken
BY ChannelsInvHolds, ChannelsProps, PTL

-----------------------------------------------------------------------------
(* How many units there are: a thread writes its death beyond the bound on *)
(* what it writes alive, and is written one answer.                        *)
Bounded ==
  /\ session <= MaxConn
  /\ packet # NoPacket => packet[2] <= MaxPacket
  /\ \A t \in All : /\ said[t] <= MaxOut + 1
                    /\ stage[t] = "live" \/ pc[t] = "death" => said[t] <= MaxOut
                    /\ told[t] <= MaxIn + 1
                    /\ t \in Threads /\ answer[t] = 0 => told[t] <= MaxIn

(* The types and places the bounds are about.                              *)
LEMMA Counters ==
  ASSUME BaseInv, NEW t \in All
  PROVE  /\ said[t] \in Nat /\ told[t] \in Nat /\ answer[t] \in Nat /\ session \in Nat
         /\ MaxOut \in Nat /\ MaxIn \in Nat /\ MaxConn \in Nat /\ MaxPacket \in Nat /\ MaxPacket >= 1
<1>1. Types
  BY DEF BaseInv
<1>2. said \in [All -> Nat] /\ told \in [All -> Nat] /\ answer \in [All -> Nat] /\ session \in Nat
  BY ONLY <1>1 DEF Types
<1>3. MaxOut \in Nat /\ MaxIn \in Nat /\ MaxConn \in Nat /\ MaxPacket \in Nat /\ MaxPacket >= 1
  BY ONLY BoundAssumption
<1> QED
  BY ONLY <1>2, <1>3, t \in All

(* A step that writes nothing keeps the bounds.                            *)
LEMMA BoundedQuiet ==
  ASSUME Bounded, UNCHANGED <<session, said, told, answer>>,
         packet' # NoPacket => packet' = packet,
         \A t \in All : stage'[t] = "live" \/ pc'[t] = "death" => stage[t] = "live" \/ pc[t] = "death"
  PROVE  Bounded'
BY DEF Bounded

(* A step that writes k units keeps the bounds if it may write so many.    *)
LEMMA BoundedWrite ==
  ASSUME BaseInv, Bounded, NEW t \in All, NEW k \in Nat, SendMessage(t, k), UNCHANGED <<session, packet>>,
         \A u \in All : u # t => stage'[u] = stage[u] /\ pc'[u] = pc[u],
         said[t] + k <= MaxOut \/ (said[t] + k <= MaxOut + 1 /\ stage'[t] # "live" /\ pc'[t] # "death")
  PROVE  Bounded'
<1>1. PICK v \in Seq(Unit) :
           /\ \A u \in All : u # t => wbuf'[u] = wbuf[u] /\ said'[u] = said[u]
           /\ said' \in [All -> Nat] /\ said'[t] = said[t] + k
           /\ UNCHANGED <<rbuf, told, answer, heard, got>>
  BY Wrote DEF BaseInv
<1>2. said'[t] <= MaxOut + 1 /\ (stage'[t] = "live" \/ pc'[t] = "death" => said'[t] <= MaxOut)
  <2>1. said[t] \in Nat /\ MaxOut \in Nat
    BY Counters
  <2> QED
    BY <1>1, <2>1
<1>3. ASSUME NEW u \in All
      PROVE  said'[u] <= MaxOut + 1 /\ (stage'[u] = "live" \/ pc'[u] = "death" => said'[u] <= MaxOut)
  <2>1. CASE u = t
    BY <1>2, <2>1
  <2>2. CASE u # t
    BY <1>1, <2>2 DEF Bounded
  <2> QED
    BY <2>1, <2>2
<1> QED
  BY <1>1, <1>3 DEF Bounded

(* Every step keeps the bounds.                                            *)
LEMMA StepBounded == ASSUME BaseInv, Bounded, [Next]_vars PROVE Bounded'
<1> DEFINE PC == {"none", "out", "run", "pipe", "read", "readwait", "death", "bye", "detach",
                     "remove", "flush", "flushwait", "resume", "gone"}
<1>0. pc \in [All -> PC] /\ stage \in [All -> {"live", "dying", "last"}]
  BY DEF BaseInv, Types
<1>1. CASE UNCHANGED vars
  BY <1>1, BoundedQuiet DEF vars, control, content, threads
<1>2. ASSUME NEW t \in All, EnterHazard(t) \/ ClearHazard(t) \/ WritePipe(t) \/ Read(t) \/ WaitForResume(t)
                            \/ Remove(t) \/ FlushTurn(t) \/ SignalThread(t)
      PROVE Bounded'
  <2>1. UNCHANGED <<session, said, told, answer, packet, stage>>
    BY <1>2 DEF EnterHazard, ClearHazard, WritePipe, Read, WaitForResume, Remove, FlushTurn, SignalThread, control, content
  <2>2. \A u \in All : u # t => pc'[u] = pc[u]
    BY <1>0, <1>2 DEF EnterHazard, ClearHazard, WritePipe, Read, WaitForResume, Remove, FlushTurn, SignalThread, Goto
  <2>3. pc'[t] = "death" => pc[t] = "death"
    <3>1. CASE EnterHazard(t) \/ ClearHazard(t) \/ Read(t) \/ WaitForResume(t) \/ Remove(t)
      BY <1>0, <3>1 DEF EnterHazard, ClearHazard, Read, WaitForResume, Remove, Goto
    <3>2. CASE WritePipe(t)
      BY <1>0, <3>2 DEF WritePipe, AfterSend, Goto
    <3>3. CASE FlushTurn(t)
      BY <1>0, <3>3 DEF FlushTurn, AfterFlush, Goto
    <3>4. CASE SignalThread(t)
      BY <1>0, <3>4 DEF SignalThread, Signalled, Goto
    <3> QED
      BY <1>2, <3>1, <3>2, <3>3, <3>4
  <2> QED
    BY <2>1, <2>2, <2>3, BoundedQuiet
<1>3. ASSUME NEW t \in All, ReadTurn(t) PROVE Bounded'
  <2>1. PICK n \in 0..Len(rbuf[t]) : \E x \in {"readwait", "detach", "run", "remove", "read"} : pc' = [pc EXCEPT ![t] = x]
    BY <1>3, ReadFacts
  <2>2. \A u \in All : pc'[u] = "death" => pc[u] = "death"
    BY <1>0, <2>1
  <2>3. UNCHANGED <<session, said, told, answer, packet, stage>>
    BY <1>3 DEF ReadTurn, control
  <2> QED
    BY <2>2, <2>3, BoundedQuiet
<1>4. ASSUME NEW t \in All, Exit(t) \/ Detach(t) PROVE Bounded'
  <2>1. UNCHANGED <<session, said, told, answer, packet>>
    BY <1>4 DEF Exit, Detach, control, content
  <2>2. \A u \in All : u # t => pc'[u] = pc[u] /\ stage'[u] = stage[u]
    BY <1>0, <1>4 DEF Exit, Detach, Goto
  <2>3. stage[t] = "live"
    BY <1>4, ThreadAssumption DEF BaseInv, Life, Exit, Detach, All
  <2> QED
    BY <2>1, <2>2, <2>3, BoundedQuiet
<1>5. ASSUME NEW t \in All, Send(t) PROVE Bounded'
  <2>1. PICK k \in 1..MaxPacket : said[t] + k <= MaxOut /\ SendMessage(t, k)
    BY <1>5 DEF Send
  <2>2. k \in Nat
    BY BoundAssumption
  <2>3. \A u \in All : u # t => pc'[u] = pc[u] /\ stage'[u] = stage[u]
    BY <1>0, <1>5 DEF Send, Goto
  <2> QED
    BY <1>5, <2>1, <2>2, <2>3, BoundedWrite DEF Send, control
<1>6. ASSUME NEW t \in All, Death(t) PROVE Bounded'
  <2>1. SendMessage(t, 1) /\ said[t] <= MaxOut /\ UNCHANGED <<session, packet, stage>>
    BY <1>6 DEF Death, Bounded, control
  <2>2. (\A u \in All : u # t => pc'[u] = pc[u]) /\ pc'[t] # "death"
    BY <1>0, <1>6 DEF Death, Goto
  <2>3. stage[t] # "live"
    BY <1>6, ThreadAssumption DEF Death, BaseInv, Life, All
  <2>4. said[t] + 1 <= MaxOut + 1
    BY <2>1, Counters
  <2> QED
    BY <2>1, <2>2, <2>3, <2>4, 1 \in Nat, BoundedWrite
<1>7. ASSUME NEW t \in All, Resume(t) PROVE Bounded'
  <2>1. SendMessage(t, 1) /\ UNCHANGED <<session, packet>> /\ stage' = [stage EXCEPT ![t] = "last"] /\ pc[t] = "resume"
    BY <1>7 DEF Resume, control
  <2>2. (\A u \in All : u # t => pc'[u] = pc[u] /\ stage'[u] = stage[u]) /\ pc'[t] # "death" /\ stage'[t] # "live"
    BY <1>0, <1>7 DEF Resume, Goto
  <2>3. said[t] = 0
    BY <2>1 DEF BaseInv, Mute, Life, All
  <2>4. said[t] + 1 <= MaxOut + 1
    BY <2>3, Counters
  <2> QED
    BY <2>1, <2>2, <2>4, 1 \in Nat, BoundedWrite
<1>8. ASSUME NEW t \in All, Receive(t) PROVE Bounded'
  <2>1. PICK k \in 1..MaxPacket : ServerMay(t, k) /\ told' = [told EXCEPT ![t] = told[t] + k]
    BY <1>8 DEF Receive
  <2>2. /\ UNCHANGED <<session, packet, said, stage>>
        /\ answer' = [answer EXCEPT ![t] = IF stage[t] = "dying" THEN told[t] + 1 ELSE answer[t]]
    BY <1>8 DEF Receive, control
  <2>3. told \in [All -> Nat] /\ answer \in [All -> Nat]
    BY DEF BaseInv, Types
  <2>4. /\ told'[t] = told[t] + k /\ answer'[t] = IF stage[t] = "dying" THEN told[t] + 1 ELSE answer[t]
        /\ \A u \in All : u # t => told'[u] = told[u] /\ answer'[u] = answer[u]
    BY ONLY <2>1, <2>2, <2>3, t \in All
  <2>5. \A u \in All : pc'[u] = "death" => pc[u] = "death"
    BY <1>0, <1>8 DEF Receive, Goto, Signalled
  <2>6. told'[t] <= MaxIn + 1 /\ (t \in Threads /\ answer'[t] = 0 => told'[t] <= MaxIn)
    <3>1. told[t] \in Nat /\ MaxIn \in Nat /\ answer[t] \in Nat /\ k \in Nat
      BY Counters
    <3>2. t \in Threads /\ answer[t] = 0 => told[t] <= MaxIn
      BY DEF Bounded
    <3>3. CASE t \in Threads /\ stage[t] = "live" /\ told[t] + k <= MaxIn
      BY ONLY <2>4, <3>1, <3>3
    <3>4. CASE t \in Threads /\ stage[t] = "dying" /\ k = 1 /\ answer[t] = 0
      BY ONLY <2>4, <3>1, <3>2, <3>4
    <3>5. CASE t \in Ghosts /\ told[t] = 0 /\ k = 1
      <4>1. t \notin Threads
        BY <3>5, ThreadAssumption
      <4> QED
        BY ONLY <2>4, <3>1, <3>5, <4>1
    <3> QED
      BY <2>1, <3>3, <3>4, <3>5 DEF ServerMay
  <2>7. ASSUME NEW u \in All
        PROVE  told'[u] <= MaxIn + 1 /\ (u \in Threads /\ answer'[u] = 0 => told'[u] <= MaxIn)
    <3>1. CASE u = t
      BY <2>6, <3>1
    <3>2. CASE u # t
      BY <2>4, <3>2 DEF Bounded
    <3> QED
      BY <3>1, <3>2
  <2> QED
    BY <2>2, <2>5, <2>7 DEF Bounded
<1>9. CASE PickWriter
  <2>1. UNCHANGED <<session, said, told, answer, stage, pc>>
    BY <1>9 DEF PickWriter, content, threads
  <2>2. packet'[2] <= MaxPacket
    <3> DEFINE t == Head(queue)
               most == Least(Len(wbuf[t]), MaxPacket)
    <3>1. t \in All /\ wbuf[t] \in Seq(Unit)
      <4>1. queue # <<>>
        BY <1>9 DEF PickWriter
      <4>2. queue \in Seq(All) /\ wbuf \in [All -> Seq(Unit)]
        BY ONLY BaseInv DEF BaseInv, Types
      <4> QED
        BY ONLY <4>1, <4>2
    <3>2. most \in Nat /\ most <= MaxPacket
      BY <3>1, Counters DEF Least
    <3>3. PICK n \in IF most = 0 THEN {0} ELSE 1..most : packet' = <<t, n>>
      BY <1>9 DEF PickWriter
    <3> HIDE DEF most, t
    <3>4. n <= MaxPacket
      BY <3>1, <3>2, <3>3, Counters
    <3> QED
      BY <3>3, <3>4
  <2> QED
    BY <2>1, <2>2 DEF Bounded
<1>10. CASE WritePacket
  <2>1. UNCHANGED <<session, said, told, answer, stage>> /\ packet' = NoPacket
    BY <1>10 DEF WritePacket
  <2>2. \A u \in All : pc'[u] = "death" => pc[u] = "death"
    BY <1>0, <1>10 DEF WritePacket, Goto, WakeIfEmpty, Signalled
  <2> QED
    BY <2>1, <2>2, BoundedQuiet
<1>11. CASE ReadPipe \/ Woken \/ Lose \/ Cleanup \/ ClosePipe
  BY <1>11, BoundedQuiet DEF ReadPipe, Woken, Lose, Cleanup, ClosePipe, content, threads
<1>12. CASE Connect
  <2>1. session < MaxConn /\ session' = session + 1 /\ session \in Nat /\ MaxConn \in Nat
    BY <1>12, BoundAssumption DEF Connect, BaseInv, Types
  <2>2. session' <= MaxConn
    BY ONLY <2>1
  <2>3. packet' = NoPacket
    BY <1>12 DEF Connect, BaseInv, ControlInv
  <2>4. \A u \in All : said'[u] = 0 /\ told'[u] = 0
    BY <1>12 DEF Connect
  <2>5. MaxOut \in Nat /\ MaxIn \in Nat
    BY BoundAssumption
  <2> QED
    BY <2>2, <2>3, <2>4, <2>5 DEF Bounded
<1> QED
  BY <1>1, <1>2, <1>3, <1>4, <1>5, <1>6, <1>7, <1>8, <1>9, <1>10, <1>11, <1>12 DEF Next, ThreadNext, ControlNext

(* The types of the channels: the flags, buffers and places agree.         *)
THEOREM ChannelsTypeCorrect == Spec => []TypeOK
<1>1. Init => Bounded
  <2> SUFFICES ASSUME Init PROVE Bounded
    OBVIOUS
  <2>1. session = 0 /\ packet = NoPacket /\ \A t \in All : said[t] = 0 /\ told[t] = 0
    BY DEF Init
  <2> QED
    BY <2>1, BoundAssumption DEF Bounded
<1>2. BaseInv /\ Bounded => TypeOK
  <2> SUFFICES ASSUME BaseInv, Bounded PROVE TypeOK
    OBVIOUS
  <2>1. session \in 0..MaxConn
    BY BoundAssumption DEF BaseInv, Types, Bounded
  <2>2. said \in [All -> 0..MaxOut + 1] /\ told \in [All -> 0..MaxIn + 1]
    <3>1. \A t \in All : said[t] \in 0..MaxOut + 1 /\ told[t] \in 0..MaxIn + 1
      BY Counters DEF Bounded
    <3>2. said \in [All -> Nat] /\ told \in [All -> Nat]
      BY DEF BaseInv, Types
    <3> QED
      BY <3>1, <3>2
  <2>3. packet # NoPacket => /\ packet \in All \X (0..MaxPacket)
                             /\ queue # <<>> /\ packet[1] = Head(queue)
                             /\ packet[2] <= Len(wbuf[packet[1]])
    <3> SUFFICES ASSUME packet # NoPacket
                 PROVE  /\ packet \in All \X (0..MaxPacket)
                        /\ queue # <<>> /\ packet[1] = Head(queue)
                        /\ packet[2] <= Len(wbuf[packet[1]])
      OBVIOUS
    <3>1. packet \in All \X Nat /\ packet[2] <= MaxPacket
      BY DEF BaseInv, PacketInv, Bounded
    <3>2. MaxPacket \in Nat
      BY BoundAssumption
    <3>3. packet[2] \in 0..MaxPacket
      BY ONLY <3>1, <3>2
    <3> QED
      BY <3>1, <3>3 DEF BaseInv, PacketInv
  <2> QED
    BY <2>1, <2>2, <2>3 DEF TypeOK, BaseInv, Types, ControlInv, NeedInv
<1>3. Spec => []Bounded
  <2>1. BaseInv /\ Bounded /\ [Next]_vars => Bounded'
    BY StepBounded
  <2>2. ChannelsInv => BaseInv
    BY DEF ChannelsInv
  <2> QED
    BY <1>1, <2>1, <2>2, ChannelsInvHolds, PTL DEF Spec
<1>4. ChannelsInv => BaseInv
  BY DEF ChannelsInv
<1> QED
  BY <1>2, <1>3, <1>4, ChannelsInvHolds, PTL

--------------------------------------------------------------------------------
(* The buffers of a FifoBuffer.                                            *)

(* An open end of the first buffer is beyond its head; with no buffer both *)
(* positions are at the start.                                             *)
PositionsInv ==
  /\ buffers = <<>> => pos_head = 0 /\ pos_tail = 0
  /\ Len(buffers) = 1 /\ pos_tail # 0 => pos_head < pos_tail

(* The stream is one of bytes. *)
BytesOK == data \in [stored : Seq(0 .. MaxSize), next : 0 .. MaxSize]

(* The inductive invariant of the buffers. *)
FifoInv == FifoTypeOK /\ PositionsInv /\ BytesOK /\ HoldsStream

USE BoundsAssumption

(* The cell x of the buffers laid end to end, and the end of n of them     *)
(* when the last is filled up to t, or full when t is zero.                *)
At(bufs, x) == bufs[x \div B + 1][x % B]
EndOf(n, t) == IF t # 0 THEN B * (n - 1) + t ELSE B * n

(* A product with a larger factor is larger. *)
LEMMA Steps ==
  ASSUME NEW p \in Nat, NEW q \in Nat, p < q PROVE B * p + B <= B * q
<1>1. PICK d \in Nat : q = p + 1 + d
  <2>1. q - p - 1 \in Nat /\ q = p + 1 + (q - p - 1)
    OBVIOUS
  <2> QED
    BY <2>1
<1>2. B * d >= 0
  OBVIOUS
<1>3. B * q = B * p + B + B * d
  BY <1>1
<1> QED
  BY <1>2, <1>3

(* The buffer and the place in it of a cell are the only ones that give it. *)
LEMMA PlaceOf ==
  ASSUME NEW x \in Nat
  PROVE  /\ x \div B \in Nat /\ x % B \in 0 .. B - 1 /\ x = B * (x \div B) + (x % B)
         /\ \A q \in Nat : \A r \in 0 .. B - 1 : x = B * q + r => x \div B = q /\ x % B = r
<1>1. x \div B \in Nat /\ x % B \in 0 .. B - 1 /\ x = B * (x \div B) + (x % B)
  OBVIOUS
<1>2. ASSUME NEW q \in Nat, NEW r \in 0 .. B - 1, x = B * q + r
      PROVE  x \div B = q /\ x % B = r
  <2> DEFINE p == x \div B
             k == x % B
  <2>1. p \in Nat /\ k \in 0 .. B - 1 /\ B * p + k = B * q + r
    BY <1>1, <1>2
  <2> HIDE DEF p, k
  <2>2. CASE p < q
    <3>1. B * p + B <= B * q
      BY <2>1, <2>2, Steps
    <3>2. B * p \in Int /\ B * q \in Int
      BY <2>1
    <3> QED
      BY <2>1, <3>1, <3>2
  <2>3. CASE q < p
    <3>1. B * q + B <= B * p
      BY <2>1, <2>3, Steps
    <3>2. B * p \in Int /\ B * q \in Int
      BY <2>1
    <3> QED
      BY <2>1, <3>1, <3>2
  <2>4. CASE p = q
    BY <2>1, <2>4 DEF p, k
  <2> QED
    BY <2>1, <2>2, <2>3, <2>4
<1> QED
  BY <1>1, <1>2

(* The cells of n buffers, and which of them are in the last. *)
LEMMA Within ==
  ASSUME NEW n \in Nat, NEW x \in Nat, x < B * n
  PROVE  /\ x \div B + 1 \in 1 .. n
         /\ x >= B * (n - 1) => x \div B + 1 = n /\ x % B = x - B * (n - 1)
         /\ x < B * (n - 1) => x \div B + 1 < n
<1> DEFINE q == x \div B
           r == x % B
<1>1. q \in Nat /\ r \in 0 .. B - 1 /\ x = B * q + r
  BY PlaceOf
<1> HIDE DEF q, r
<1>2. q < n
  <2>1. CASE n <= q
    <3>1. B * n <= B * q
      <4>1. CASE n = q
        BY <4>1, <1>1
      <4>2. CASE n < q
        BY <4>2, <1>1, Steps
      <4> QED
        BY <2>1, <4>1, <4>2, <1>1
    <3> QED
      BY <3>1, <1>1
  <2> QED
    BY <2>1, <1>1
<1>3. CASE q < n - 1
  <2>1. B * q + B <= B * (n - 1)
    BY <1>1, <1>3, Steps
  <2> QED
    BY <1>1, <1>3, <2>1 DEF q, r
<1>4. CASE q = n - 1
  BY <1>1, <1>4 DEF q, r
<1> QED
  BY <1>1, <1>2, <1>3, <1>4

-----------------------------------------------------------------------------
(* The stream as its length and its bytes. *)

(* The end of the buffers, in the form of auxFifoSize; unless there is no  *)
(* buffer it is beyond the head.                                           *)
LEMMA EndFacts ==
  ASSUME NEW n \in Nat, NEW h \in 0 .. B - 1, NEW t \in 0 .. B - 1,
         n = 0 => h = 0 /\ t = 0, n = 1 /\ t # 0 => h < t
  PROVE  /\ EndOf(n, t) \in Nat /\ EndOf(n, t) <= B * n
         /\ n = 0 => EndOf(n, t) = 0
         /\ n > 0 => /\ EndOf(n, t) = B * (n - 1) + (IF t # 0 THEN t ELSE B)
                     /\ EndOf(n, t) > h
<1>1. CASE n = 0
  BY <1>1 DEF EndOf
<1>2. CASE n = 1
  BY <1>2 DEF EndOf
<1>3. CASE n > 1
  <2>1. B * 1 <= B * (n - 1) /\ B * (n - 1) \in Nat /\ B * n = B * (n - 1) + B
    <3>1. n - 1 = 1 \/ 1 < n - 1
      BY <1>3
    <3>2. B * 1 <= B * (n - 1)
      BY <1>3, <3>1, Steps
    <3> QED
      BY <1>3, <3>2
  <2> QED
    BY <1>3, <2>1 DEF EndOf
<1> QED
  BY <1>1, <1>2, <1>3

(* auxFifoSize is the distance of the head from the end. *)
SizeOf(n, h, t) == IF n = 0 THEN 0 ELSE B * (n - 1) + (IF t # 0 THEN t ELSE B) - h

(* auxFifoSize is the distance from the head to the end.                   *)
LEMMA SizeEnd ==
  ASSUME NEW n \in Nat, NEW h \in 0 .. B - 1, NEW t \in 0 .. B - 1,
         n = 0 => h = 0 /\ t = 0, n = 1 /\ t # 0 => h < t
  PROVE  /\ SizeOf(n, h, t) = EndOf(n, t) - h /\ SizeOf(n, h, t) \in Nat
         /\ n > 0 => SizeOf(n, h, t) > 0
<1> DEFINE e == EndOf(n, t)
           p == B * (n - 1)
<1>1. /\ e \in Nat /\ (n = 0 => e = 0)
      /\ n > 0 => e = p + (IF t # 0 THEN t ELSE B) /\ e > h
  BY EndFacts
<1>2. p \in Int
  OBVIOUS
<1> HIDE DEF e
<1>3. CASE n = 0
  BY <1>1, <1>3 DEF SizeOf, e
<1>4. CASE n > 0
  <2>1. SizeOf(n, h, t) = p + (IF t # 0 THEN t ELSE B) - h
    BY <1>4 DEF SizeOf
  <2> HIDE DEF p
  <2>2. SizeOf(n, h, t) = e - h
    BY <1>1, <1>2, <1>4, <2>1
  <2> QED
    BY <1>1, <1>4, <2>2 DEF e
<1> QED
  BY <1>3, <1>4

(* And the other way round: the facts that the steps start from. *)
LEMMA FifoFacts ==
  ASSUME FifoInv
  PROVE  /\ Len(buffers) \in Nat /\ (Len(buffers) = 0 <=> buffers = <<>>)
         /\ pos_head \in 0 .. B - 1 /\ pos_tail \in 0 .. B - 1
         /\ Len(buffers) = 0 => pos_head = 0 /\ pos_tail = 0
         /\ Len(buffers) = 1 /\ pos_tail # 0 => pos_head < pos_tail
         /\ data.stored \in Seq(0 .. MaxSize) /\ Len(data.stored) \in Nat /\ data.next \in 0 .. MaxSize
         /\ Len(data.stored) = EndOf(Len(buffers), pos_tail) - pos_head
         /\ \A i \in 1 .. Len(data.stored) : data.stored[i] = At(buffers, pos_head + i - 1)
<1>1. /\ Len(buffers) \in Nat /\ (Len(buffers) = 0 <=> buffers = <<>>)
      /\ pos_head \in 0 .. B - 1 /\ pos_tail \in 0 .. B - 1
      /\ Len(buffers) = 0 => pos_head = 0 /\ pos_tail = 0
      /\ Len(buffers) = 1 /\ pos_tail # 0 => pos_head < pos_tail
      /\ data.stored \in Seq(0 .. MaxSize) /\ Len(data.stored) \in Nat /\ data.next \in 0 .. MaxSize
  BY DEF FifoInv, FifoTypeOK, PositionsInv, BytesOK
<1>2. auxFifoSize \in Nat /\ auxFifoSize = EndOf(Len(buffers), pos_tail) - pos_head
  <2>1. auxFifoSize = SizeOf(Len(buffers), pos_head, pos_tail)
    BY <1>1 DEF SizeOf, auxFifoSize, auxFifoEmpty
  <2> QED
    BY <1>1, <2>1, SizeEnd
<1>3. data.stored = [i \in 1 .. auxFifoSize |->
                       buffers[(pos_head + i - 1) \div B + 1][(pos_head + i - 1) % B]]
  BY DEF FifoInv, HoldsStream, Stream
<1>4. Len(data.stored) = auxFifoSize
  BY <1>1, <1>2, <1>3
<1>5. \A i \in 1 .. Len(data.stored) : data.stored[i] = At(buffers, pos_head + i - 1)
  BY <1>3, <1>4 DEF At
<1> QED
  BY <1>1, <1>2, <1>4, <1>5

-----------------------------------------------------------------------------
(* The steps. *)

(* The invariant of the buffers holds at the start.                        *)
LEMMA FifoStart == auxFifoCreate => FifoInv
<1> SUFFICES ASSUME auxFifoCreate PROVE FifoInv
  OBVIOUS
<1>1. FifoTypeOK /\ PositionsInv /\ BytesOK
  BY DEF auxFifoCreate, FifoTypeOK, PositionsInv, BytesOK
<1>2. auxFifoSize = 0
  BY DEF auxFifoCreate, auxFifoSize, auxFifoEmpty
<1>3. HoldsStream
  BY <1>2 DEF auxFifoCreate, HoldsStream, Stream, auxFifoEmpty
<1> QED
  BY <1>1, <1>3 DEF FifoInv

(* auxFifoPushData begins: nothing has been copied yet. *)
LEMMA PushDataInv == ASSUME FifoInv, NEW n \in 1 .. MaxPush, PushData(n) PROVE FifoInv'
  BY DEF FifoInv, PushData, FifoTypeOK, PositionsInv, BytesOK, HoldsStream, Stream, auxFifoSize,
         auxFifoEmpty

(* What a turn of its loop does to the cells: those before the old end     *)
(* stay, and the bytes follow them.                                        *)
LEMMA PushTurnInv == ASSUME FifoInv, PushTurn PROVE FifoInv'
<1> DEFINE V == [0 .. B - 1 -> (0 .. MaxSize) \cup {Junk}]
           L == Len(buffers)
           amt == IF pos_tail + bytes < B THEN bytes ELSE B - pos_tail
           last == Len(WithRoom)
           end == EndOf(L, pos_tail)
           s == data.stored
           copied(i) == pos_tail <= i /\ i < pos_tail + amt
           cell == [i \in 0 .. B - 1 |->
                      IF copied(i) THEN Byte(data.next + i - pos_tail) ELSE WithRoom[last][i]]
<1>1. /\ L \in Nat /\ (L = 0 <=> buffers = <<>>) /\ buffers \in Seq(V)
      /\ pos_head \in Nat /\ pos_head < B /\ pos_tail \in Nat /\ pos_tail < B
      /\ (L = 0 => pos_head = 0 /\ pos_tail = 0) /\ (L = 1 /\ pos_tail # 0 => pos_head < pos_tail)
      /\ bytes \in Nat /\ bytes > 0 /\ bytes <= MaxPush /\ freeBufs \in Nat
      /\ s \in Seq(0 .. MaxSize) /\ Len(s) \in Nat /\ data.next \in Nat
  BY FifoFacts DEF FifoInv, FifoTypeOK, PushTurn
<1>2. Len(s) = end - pos_head /\ end \in Nat /\ end <= B * L
      /\ \A i \in 1 .. Len(s) : s[i] = At(buffers, pos_head + i - 1)
  BY <1>1, FifoFacts, EndFacts
<1>3. amt \in Nat /\ amt > 0 /\ amt <= bytes /\ pos_tail + amt <= B
  BY <1>1
<1>4. \A m \in Int : Byte(m) \in 0 .. MaxSize
  BY DEF Byte
<1>5. /\ WithRoom \in Seq(V) /\ last \in Nat /\ last > 0
      /\ \A i \in 1 .. L : WithRoom[i] = buffers[i]
      /\ end = B * (last - 1) + pos_tail
      /\ (pos_tail # 0 => last = L) /\ (pos_tail = 0 => last = L + 1)
  <2>1. CASE pos_tail # 0
    BY <1>1, <2>1 DEF WithRoom, EndOf
  <2>2. CASE pos_tail = 0
    <3>1. [i \in 0 .. B - 1 |-> Junk] \in V
      OBVIOUS
    <3>2. WithRoom = Append(buffers, [i \in 0 .. B - 1 |-> Junk])
      BY <2>2 DEF WithRoom
    <3> HIDE DEF V
    <3> QED
      BY <1>1, <2>2, <3>1, <3>2 DEF EndOf
  <2> QED
    BY <2>1, <2>2
<1>6. /\ buffers' = [WithRoom EXCEPT ![last] = cell]
      /\ freeBufs' = (IF pos_tail = 0 /\ freeBufs > 0 THEN freeBufs - 1 ELSE freeBufs)
      /\ pos_tail' = (pos_tail + amt) % B /\ bytes' = bytes - amt /\ pos_head' = pos_head
      /\ data' = [stored |-> s \o [i \in 1 .. amt |-> Byte(data.next + i - 1)],
                  next |-> Byte(data.next + amt)]
  BY DEF PushTurn, Offset
<1>7. cell \in V /\ \A i \in 0 .. B - 1 :
        cell[i] = IF copied(i) THEN Byte(data.next + i - pos_tail) ELSE WithRoom[last][i]
  <2>1. WithRoom[last] \in V
    BY <1>5
  <2> DEFINE old == WithRoom[last]
  <2> HIDE DEF amt, last, old
  <2>2. \A i \in 0 .. B - 1 : Byte(data.next + i - pos_tail) \in (0 .. MaxSize) \cup {Junk}
    <3>1. \A i \in 0 .. B - 1 : data.next + i - pos_tail \in Int
      BY <1>1
    <3> QED
      BY ONLY <1>4, <3>1
  <2>3. \A i \in 0 .. B - 1 : old[i] \in (0 .. MaxSize) \cup {Junk}
    BY <2>1 DEF old
  <2>4. \A i \in 0 .. B - 1 : cell[i] \in (0 .. MaxSize) \cup {Junk}
    BY <2>2, <2>3 DEF old
  <2> QED
    BY <2>4
<1> HIDE DEF V, L, amt, last, end, cell
<1>8. /\ buffers' \in Seq(V) /\ Len(buffers') = last /\ buffers'[last] = cell
      /\ \A i \in 1 .. last - 1 : buffers'[i] = buffers[i]
  BY SMTT(30), <1>1, <1>5, <1>6, <1>7 DEF last
<1>9. pos_tail' = (IF pos_tail + amt = B THEN 0 ELSE pos_tail + amt)
  <2> DEFINE y == pos_tail + amt
  <2>1. y \in Nat /\ y <= B /\ pos_tail' = y % B
    BY <1>1, <1>3, <1>6
  <2> HIDE DEF y
  <2>2. CASE y < B
    <3>1. y = B * 0 + y /\ y \in 0 .. B - 1
      BY <2>1, <2>2
    <3>2. y % B = y
      BY ONLY <2>1, <3>1, PlaceOf, 0 \in Nat
    <3> QED
      BY <2>1, <2>2, <3>2 DEF y
  <2>3. CASE y = B
    <3>1. y = B * 1 + 0 /\ 0 \in 0 .. B - 1
      BY <2>1, <2>3
    <3>2. y % B = 0
      BY ONLY <2>1, <3>1, PlaceOf, 1 \in Nat
    <3> QED
      BY <2>1, <2>3, <3>2 DEF y
  <2> QED
    BY <2>1, <2>2, <2>3
<1>10. EndOf(last, pos_tail') = end + amt
  <2>1. B * last = B * (last - 1) + B
    BY <1>5
  <2> QED
    BY <1>1, <1>3, <1>5, <1>9, <2>1 DEF EndOf
<1>11. FifoTypeOK'
  <2>1. buffers' \in Seq([0 .. B - 1 -> (0 .. MaxSize) \cup {Junk}])
    BY <1>8 DEF V
  <2>2. pos_head' \in 0 .. B - 1 /\ pos_tail' \in 0 .. B - 1 /\ bytes' \in 0 .. MaxPush
    BY <1>1, <1>3, <1>6, <1>9
  <2>3. freeBufs' \in Nat
    BY <1>1, <1>6
  <2> QED
    BY <2>1, <2>2, <2>3 DEF FifoTypeOK
<1>12. PositionsInv'
  <2>1. last = 1 /\ pos_tail' # 0 => pos_head < pos_tail'
    BY <1>1, <1>3, <1>5, <1>9
  <2> QED
    BY <1>1, <1>5, <1>6, <1>8, <2>1 DEF PositionsInv
<1> DEFINE more == [i \in 1 .. amt |-> Byte(data.next + i - 1)]
<1>13. /\ more \in Seq(0 .. MaxSize) /\ Len(more) = amt
       /\ \A i \in 1 .. amt : more[i] = Byte(data.next + i - 1)
  <2>1. \A i \in 1 .. amt : Byte(data.next + i - 1) \in 0 .. MaxSize
    <3>1. \A i \in 1 .. amt : data.next + i - 1 \in Int
      BY <1>1, <1>3
    <3> QED
      BY ONLY <1>4, <3>1
  <2> QED
    BY <1>3, <2>1
<1> HIDE DEF more, s
<1>14. data'.stored = s \o more /\ data'.next = Byte(data.next + amt)
       /\ data' \in [stored : {data'.stored}, next : {data'.next}]
  BY <1>6 DEF more, s
<1>15. data'.stored \in Seq(0 .. MaxSize) /\ Len(data'.stored) = Len(s) + amt
       /\ (\A i \in 1 .. Len(s) : data'.stored[i] = s[i])
       /\ \A i \in 1 .. amt : data'.stored[Len(s) + i] = more[i]
  <2> DEFINE M == 0 .. MaxSize
  <2>1. s \in Seq(M) /\ more \in Seq(M) /\ Len(more) = amt /\ amt \in Nat
    BY <1>1, <1>3, <1>13 DEF s
  <2> HIDE DEF M
  <2>2. /\ s \o more \in Seq(M) /\ Len(s \o more) = Len(s) + amt
        /\ \A i \in 1 .. Len(s) : (s \o more)[i] = s[i]
        /\ \A i \in 1 .. amt : (s \o more)[Len(s) + i] = more[i]
    BY <2>1
  <2> QED
    BY ONLY <1>14, <2>2 DEF M
<1>16. BytesOK'
  <2>1. Byte(data.next + amt) \in 0 .. MaxSize
    <3>1. data.next + amt \in Int
      BY <1>1, <1>3
    <3> QED
      BY ONLY <1>4, <3>1
  <2> QED
    BY ONLY <1>14, <1>15, <2>1 DEF BytesOK
<1>17. ASSUME NEW i \in 1 .. Len(s) + amt PROVE data'.stored[i] = At(buffers', pos_head + i - 1)
  <2> DEFINE x == pos_head + i - 1
             q == x \div B + 1
             r == x % B
  <2>1. x \in Nat /\ x < end + amt /\ x = pos_head + i - 1 /\ (i \in 1 .. Len(s) <=> x < end)
    BY <1>1, <1>2, <1>3
  <2>2. B * last = B * (last - 1) + B /\ end + amt <= B * last /\ end >= B * (last - 1)
        /\ B * (last - 1) \in Nat
    BY <1>1, <1>3, <1>5
  <2> HIDE DEF x
  <2>3. /\ q \in 1 .. last /\ r \in 0 .. B - 1
        /\ x >= B * (last - 1) => q = last /\ r = x - B * (last - 1)
        /\ x < B * (last - 1) => q < last
    <3>1. x \in Nat /\ x < B * last /\ last \in Nat
      BY <1>2, <1>3, <1>5, <2>1, <2>2
    <3> QED
      BY ONLY <3>1, Within, PlaceOf
  <2>4. x < end => q \in 1 .. L
    <3>1. x < end => x < B * L
      BY <1>1, <1>2, <2>1
    <3> QED
      BY ONLY <1>1, <2>1, <3>1, Within
  <2> HIDE DEF q, r
  <2>5. CASE x < end
    <3>1. data'.stored[i] = buffers[q][r]
      BY <1>2, <1>15, <2>1, <2>5 DEF At, q, r, x, s
    <3>2. CASE x < B * (last - 1)
      BY <1>8, <2>3, <3>1, <3>2 DEF At, q, r, x
    <3>3. CASE x >= B * (last - 1)
      <4>1. q = last /\ r < pos_tail
        BY <1>1, <1>5, <2>1, <2>2, <2>3, <2>5, <3>3
      <4>2. cell[r] = buffers[q][r]
        <5>1. cell[r] = WithRoom[last][r]
          BY <1>1, <1>7, <2>3, <4>1
        <5> QED
          BY <1>5, <2>4, <2>5, <4>1, <5>1
      <4> QED
        BY <1>8, <3>1, <4>1, <4>2 DEF At, q, r, x
    <3> QED
      BY <2>1, <2>2, <3>2, <3>3
  <2>6. CASE x >= end
    <3> DEFINE j == x - end + 1
    <3>1. j \in 1 .. amt /\ i = Len(s) + j
      BY <1>1, <1>2, <1>3, <2>1, <2>6
    <3>2. q = last /\ r = pos_tail + j - 1
      BY <1>1, <1>5, <2>1, <2>2, <2>3, <2>6
    <3> HIDE DEF j
    <3>3. cell[r] = Byte(data.next + r - pos_tail)
      <4>1. pos_tail <= r /\ r < pos_tail + amt
        BY <1>1, <1>3, <3>1, <3>2
      <4> QED
        BY <1>7, <2>3, <4>1
    <3>4. data.next + r - pos_tail = data.next + j - 1
      BY <1>1, <3>1, <3>2
    <3>5. data'.stored[i] = Byte(data.next + j - 1)
      BY <1>13, <1>15, <3>1
    <3> QED
      BY <1>8, <3>2, <3>3, <3>4, <3>5 DEF At, q, r, x
  <2> QED
    BY <1>2, <2>1, <2>5, <2>6
<1>18. HoldsStream'
  <2>1. Len(data'.stored) = EndOf(Len(buffers'), pos_tail') - pos_head'
    <3>1. EndOf(Len(buffers'), pos_tail') = end + amt
      BY <1>8, <1>10
    <3>2. Len(data'.stored) = Len(s) + amt /\ pos_head' = pos_head /\ Len(s) = end - pos_head
      BY <1>2, <1>6, <1>15
    <3> QED
      BY <1>1, <1>2, <1>3, <3>1, <3>2
  <2>2. \A i \in 1 .. Len(data'.stored) : data'.stored[i] = At(buffers', pos_head' + i - 1)
    BY <1>6, <1>15, <1>17
  <2>3. pos_head' \in 0 .. B - 1 /\ pos_tail' \in 0 .. B - 1
    BY <1>11 DEF FifoTypeOK
  <2>4. (buffers' = <<>> => pos_head' = 0 /\ pos_tail' = 0)
        /\ (Len(buffers') = 1 /\ pos_tail' # 0 => pos_head' < pos_tail')
    BY <1>12 DEF PositionsInv
  <2>5. last \in Nat /\ last > 0 /\ buffers' # <<>>
    BY <1>5, <1>8
  <2>6. auxFifoSize' = Len(data'.stored) /\ data'.stored # <<>>
    <3>1. auxFifoSize' = SizeOf(last, pos_head', pos_tail')
      BY <1>8, <2>5 DEF SizeOf, auxFifoSize, auxFifoEmpty
    <3>2. /\ SizeOf(last, pos_head', pos_tail') = EndOf(last, pos_tail') - pos_head'
          /\ SizeOf(last, pos_head', pos_tail') > 0
      BY <1>8, <2>3, <2>4, <2>5, SizeEnd
    <3> QED
      BY <1>8, <1>15, <2>1, <3>1, <3>2
  <2>7. data'.stored = [i \in 1 .. Len(data'.stored) |-> data'.stored[i]]
    BY ONLY <1>15
  <2> QED
    BY ONLY <2>2, <2>5, <2>6, <2>7 DEF HoldsStream, Stream, At, auxFifoEmpty
<1> QED
  BY <1>11, <1>12, <1>16, <1>18 DEF FifoInv

(* auxFifoPopBytes takes the first n bytes: the head moves on, and with it *)
(* goes the first buffer when they were its last, or the only one when     *)
(* they were the last of all.                                              *)
LEMMA PopBytesInv == ASSUME FifoInv, NEW n \in 1 .. B, PopBytes(n) PROVE FifoInv'
<1> DEFINE V == [0 .. B - 1 -> (0 .. MaxSize) \cup {Junk}]
           M == 0 .. MaxSize
           L == Len(buffers)
           L1 == Len(buffers')
           end == EndOf(L, pos_tail)
           end1 == EndOf(L1, pos_tail')
           s == data.stored
           s1 == data'.stored
<1>1. /\ L \in Nat /\ (L = 0 <=> buffers = <<>>) /\ buffers \in Seq(V)
      /\ pos_head \in Nat /\ pos_head < B /\ pos_tail \in Nat /\ pos_tail < B
      /\ (L = 0 => pos_head = 0 /\ pos_tail = 0) /\ (L = 1 /\ pos_tail # 0 => pos_head < pos_tail)
      /\ s \in Seq(M) /\ Len(s) \in Nat /\ bytes \in 0 .. MaxPush /\ freeBufs \in Nat
      /\ n \in Nat /\ n > 0 /\ n <= B
  BY FifoFacts DEF FifoInv, FifoTypeOK
<1>2. Len(s) = end - pos_head /\ end \in Nat /\ end <= B * L
      /\ (L > 0 => end = B * (L - 1) + (IF pos_tail # 0 THEN pos_tail ELSE B))
      /\ \A i \in 1 .. Len(s) : s[i] = At(buffers, pos_head + i - 1)
  BY ZenonT(60), <1>1, FifoFacts, EndFacts
<1>3. L > 0 /\ pos_head + n <= B /\ (L = 1 /\ pos_tail # 0 => pos_head + n <= pos_tail)
  BY SMTT(30), <1>1 DEF PopBytes, auxFifoGetBufferSize
<1>4. s1 = SubSeq(s, n + 1, Len(s)) /\ data'.next = data.next /\ data' \in [stored : {s1}, next : M]
  BY DEF PopBytes, FifoInv, BytesOK
<1>5. bytes' = bytes
  BY DEF PopBytes
<1> HIDE DEF V, M, L, L1, end, end1, s, s1
<1>6. end >= pos_head + n
  <2>1. CASE L = 1
    <3>1. B * (L - 1) = 0
      BY <2>1
    <3>2. end = IF pos_tail # 0 THEN pos_tail ELSE B
      BY <1>1, <1>2, <1>3, <3>1
    <3>3. pos_tail # 0 => pos_head + n <= pos_tail
      BY <1>3, <2>1
    <3> QED
      BY ONLY <1>1, <1>3, <3>2, <3>3
  <2>2. CASE L > 1
    <3>1. B * 0 + B <= B * (L - 1) /\ B * (L - 1) \in Nat
      <4>1. 0 < L - 1 /\ L - 1 \in Nat
        BY <1>1, <2>2
      <4> QED
        BY <4>1, Steps
    <3> DEFINE p == B * (L - 1)
    <3>2. p >= B /\ p \in Nat
      BY <3>1
    <3>3. end = p + IF pos_tail # 0 THEN pos_tail ELSE B
      BY <1>2, <1>3
    <3> HIDE DEF p
    <3> QED
      BY <1>1, <1>2, <1>3, <3>2, <3>3
  <2> QED
    BY <1>1, <1>3, <2>1, <2>2
<1>7. /\ s1 \in Seq(M) /\ Len(s1) = Len(s) - n /\ \A i \in 1 .. Len(s) - n : s1[i] = s[n + i]
  <2>1. n <= Len(s)
    BY <1>1, <1>2, <1>6
  <2> QED
    BY <1>1, <1>4, <2>1
(* It is enough to know where the head and the end come to be, and that    *)
(* the cells from the head on are the old ones.                            *)
<1>8. ASSUME buffers' \in Seq(V), freeBufs' \in Nat, pos_head' \in 0 .. B - 1, pos_tail' \in 0 .. B - 1,
             L1 = 0 => pos_head' = 0 /\ pos_tail' = 0, L1 = 1 /\ pos_tail' # 0 => pos_head' < pos_tail',
             end1 - pos_head' = Len(s) - n,
             \A i \in 1 .. Len(s) - n : At(buffers', pos_head' + i - 1) = At(buffers, pos_head + (n + i) - 1)
      PROVE  FifoInv'
  <2>1. L1 \in Nat /\ (L1 = 0 <=> buffers' = <<>>)
    BY <1>8 DEF L1
  <2>2. FifoTypeOK' /\ BytesOK' /\ PositionsInv'
    <3>1. FifoTypeOK'
      BY <1>1, <1>5, <1>8 DEF FifoTypeOK, V
    <3>2. BytesOK'
      BY <1>4, <1>7 DEF BytesOK, M
    <3>3. PositionsInv'
      BY <1>8, <2>1 DEF PositionsInv, L1
    <3> QED
      BY <3>1, <3>2, <3>3
  <2>3. auxFifoSize' = SizeOf(L1, pos_head', pos_tail')
    BY <2>1 DEF SizeOf, auxFifoSize, auxFifoEmpty, L1
  <2>4. /\ SizeOf(L1, pos_head', pos_tail') = end1 - pos_head'
        /\ L1 > 0 => SizeOf(L1, pos_head', pos_tail') > 0
    BY <1>8, <2>1, SizeEnd DEF end1
  <2>5. auxFifoSize' = Len(s1)
    BY <1>7, <1>8, <2>3, <2>4
  <2>6. Len(s1) = 0 => L1 = 0
    BY <2>1, <2>3, <2>4, <2>5
  <2>7. L1 = 0 => Len(s1) = 0
    BY <1>8, <2>3, <2>5 DEF SizeOf
  <2>8. buffers' = <<>> <=> s1 = <<>>
    <3>1. s1 = <<>> <=> Len(s1) = 0
      BY <1>7
    <3> QED
      BY <2>1, <2>6, <2>7, <3>1
  <2>9. \A i \in 1 .. Len(s1) : s1[i] = At(buffers', pos_head' + i - 1)
    <3> SUFFICES ASSUME NEW i \in 1 .. Len(s) - n PROVE s1[i] = At(buffers', pos_head' + i - 1)
      BY <1>7
    <3>1. n + i \in 1 .. Len(s)
      BY <1>1
    <3> QED
      BY <1>2, <1>7, <1>8, <3>1
  <2>10. s1 = [i \in 1 .. Len(s1) |-> s1[i]]
    BY <1>7
  <2>11. HoldsStream'
    BY <2>5, <2>8, <2>9, <2>10 DEF HoldsStream, Stream, At, auxFifoEmpty, s1
  <2> QED
    BY <2>2, <2>11 DEF FifoInv
(* The bytes stay in the range of the cells. *)
<1>9. \A i \in 1 .. Len(s) - n : pos_head + (n + i) - 1 \in Nat /\ pos_head + (n + i) - 1 < B * L
  BY <1>1, <1>2, <1>3
<1>10. ASSUME buffers' = Tail(buffers)
       PROVE  /\ buffers' \in Seq(V) /\ L1 = L - 1
              /\ \A x \in Nat : x < B * (L - 1) => At(buffers', x) = At(buffers, B + x)
  <2>1. /\ buffers' \in Seq(V) /\ L1 = L - 1 /\ L1 \in Nat
        /\ \A j \in 1 .. L - 1 : buffers'[j] = buffers[j + 1]
    BY <1>1, <1>3, <1>10 DEF L, L1
  <2>2. ASSUME NEW x \in Nat, x < B * (L - 1) PROVE At(buffers', x) = At(buffers, B + x)
    <3> DEFINE q == x \div B
               r == x % B
    <3>1. q \in Nat /\ r \in 0 .. B - 1 /\ x = B * q + r
      BY PlaceOf
    <3>2. q + 1 \in 1 .. L - 1
      <4>1. L - 1 \in Nat
        BY <1>1, <1>3
      <4> QED
        BY ONLY <2>2, <4>1, Within
    <3> HIDE DEF q, r
    <3>3. B + x = B * (q + 1) + r /\ B + x \in Nat /\ q + 1 \in Nat
      BY <3>1
    <3>4. (B + x) \div B = q + 1 /\ (B + x) % B = r
      BY ONLY ZenonT(60), <3>1, <3>3, PlaceOf
    <3>5. At(buffers', x) = buffers'[q + 1][r]
      BY DEF At, q, r
    <3>6. At(buffers, B + x) = buffers[(q + 1) + 1][r]
      BY <3>4 DEF At
    <3> QED
      BY <2>1, <3>2, <3>5, <3>6
  <2> QED
    BY <2>1, <2>2
<1>11. CASE pos_head + n = B
  <2>1. pos_head' = 0 /\ buffers' = Tail(buffers) /\ freeBufs' = freeBufs + 1 /\ pos_tail' = pos_tail
    BY <1>11 DEF PopBytes
  <2>2. L = 1 => pos_tail = 0
    BY <1>1, <1>3, <1>11
  <2>3. end1 = end - B
    <3>1. L1 = L - 1 /\ L - 1 \in Nat
      BY <1>1, <1>3, <1>10, <2>1
    <3>2. B * L = B * (L - 1) + B /\ B * (L - 1) = B * (L - 1 - 1) + B /\ B * (L - 1) \in Int /\ B * (L - 1 - 1) \in Int
      BY <1>1
    <3> QED
      BY <1>1, <2>1, <2>2, <3>1, <3>2 DEF EndOf, end, end1
  <2>4. \A i \in 1 .. Len(s) - n : At(buffers', 0 + i - 1) = At(buffers, pos_head + (n + i) - 1)
    <3> SUFFICES ASSUME NEW i \in 1 .. Len(s) - n
                 PROVE  At(buffers', 0 + i - 1) = At(buffers, pos_head + (n + i) - 1)
      OBVIOUS
    <3>1. 0 + i - 1 \in Nat /\ pos_head + (n + i) - 1 = B + (0 + i - 1) /\ pos_head + (n + i) - 1 < B * L
      BY <1>1, <1>9, <1>11
    <3>2. B * L = B * (L - 1) + B /\ B * (L - 1) \in Int
      BY <1>1
    <3>3. 0 + i - 1 < B * (L - 1)
      BY <1>1, <3>1, <3>2
    <3> QED
      BY <1>10, <2>1, <3>1, <3>3
  <2>5. pos_head' \in 0 .. B - 1 /\ pos_tail' \in 0 .. B - 1 /\ freeBufs' \in Nat
    BY <1>1, <2>1
  <2>6. buffers' \in Seq(V) /\ L1 = L - 1
    BY <1>10, <2>1
  <2>7. (L1 = 0 => pos_head' = 0 /\ pos_tail' = 0) /\ (L1 = 1 /\ pos_tail' # 0 => pos_head' < pos_tail')
    BY <1>1, <2>1, <2>2, <2>6
  <2>8. end1 - pos_head' = Len(s) - n
    BY <1>1, <1>2, <1>11, <2>1, <2>3
  <2> QED
    BY <1>8, <2>1, <2>4, <2>5, <2>6, <2>7, <2>8
<1>12. CASE pos_head + n # B /\ pos_head + n = pos_tail /\ L = 1
  <2>1. pos_head' = 0 /\ pos_tail' = 0 /\ buffers' = Tail(buffers) /\ freeBufs' = freeBufs + 1
    BY <1>12 DEF PopBytes, L
  <2>2. buffers' \in Seq(V) /\ L1 = 0 /\ freeBufs' \in Nat
    BY <1>1, <1>10, <1>12, <2>1
  <2>3. end1 = 0 /\ Len(s) - n = 0
    BY <1>1, <1>2, <1>3, <1>12, <2>1, <2>2 DEF EndOf, end1
  <2> QED
    BY <1>8, <2>1, <2>2, <2>3
<1>13. CASE pos_head + n # B /\ ~(pos_head + n = pos_tail /\ L = 1)
  <2>1. pos_head' = pos_head + n /\ buffers' = buffers /\ freeBufs' = freeBufs /\ pos_tail' = pos_tail
    BY <1>13 DEF PopBytes, L
  <2>2. L1 = L /\ end1 = end
    BY <2>1 DEF L1, L, end1, end
  <2>3. pos_head' \in 0 .. B - 1 /\ (L = 1 /\ pos_tail # 0 => pos_head' < pos_tail)
    BY <1>1, <1>3, <1>13, <2>1
  <2>4. \A i \in 1 .. Len(s) - n : pos_head' + i - 1 = pos_head + (n + i) - 1
    BY <1>1, <2>1
  <2>5. pos_tail' \in 0 .. B - 1 /\ freeBufs' \in Nat /\ buffers' \in Seq(V) /\ L1 # 0
    BY <1>1, <1>3, <2>1, <2>2
  <2>6. end1 - pos_head' = Len(s) - n
    BY <1>1, <1>2, <2>1, <2>2
  <2>7. \A i \in 1 .. Len(s) - n : At(buffers', pos_head' + i - 1) = At(buffers, pos_head + (n + i) - 1)
    BY <2>1, <2>4
  <2> QED
    BY <1>8, <2>1, <2>2, <2>3, <2>5, <2>6, <2>7
<1> QED
  BY <1>11, <1>12, <1>13

-----------------------------------------------------------------------------
(* FifoInv is an invariant of the buffers. *)
THEOREM FifoInvHolds == FifoSpec => []FifoInv
<1>1. FifoInv /\ [FifoNext]_fifoVars => FifoInv'
  <2> SUFFICES ASSUME FifoInv, [FifoNext]_fifoVars PROVE FifoInv'
    OBVIOUS
  <2>1. CASE UNCHANGED fifoVars
    BY <2>1 DEF fifoVars, FifoInv, FifoTypeOK, PositionsInv, BytesOK, HoldsStream, Stream, auxFifoSize,
                auxFifoEmpty
  <2>2. CASE \E n \in 1 .. MaxPush : PushData(n)
    BY <2>2, PushDataInv
  <2>3. CASE PushTurn
    BY <2>3, PushTurnInv
  <2>4. CASE \E n \in 1 .. B : PopBytes(n)
    BY <2>4, PopBytesInv
  <2> QED
    BY <2>1, <2>2, <2>3, <2>4 DEF FifoNext
<1> QED
  BY <1>1, FifoStart, PTL DEF FifoSpec

(* The buffers hold exactly what was pushed and not popped, in order, for  *)
(* every size of a buffer and of the pushes, and auxFifoSize tells its     *)
(* length: what a sync sends as the length of what follows.                *)
THEOREM AlwaysHoldsStream == FifoSpec => []HoldsStream
<1>1. FifoInv => HoldsStream
  BY DEF FifoInv
<1> QED
  BY <1>1, FifoInvHolds, PTL

--------------------------------------------------------------------------------
(* The ring of a Queue.                                                    *)

(* When the queue has just run empty, the head is at the start of the      *)
(* array or beyond its first half: the loop does not leave it at the end.  *)
HeadInv == shrinking /\ size = 0 /\ cap > 4 => pos = 0 \/ pos > cap \div 2

(* The cells between head and tail have been written. *)
Filled == \A i \in 1 .. size : array[Mask(pos + i - 1, cap)] \in Values

RingInv == QueueTypeOK /\ Settled /\ HeadInv /\ Filled

USE CapsAssumption, NothingAssumption

-----------------------------------------------------------------------------
(* Arithmetic of the ring. *)

(* The mask of an index that has gone round at most once. *)
LEMMA MaskOnce ==
  ASSUME NEW c \in Nat, c > 0, NEW x \in Nat, x < 2 * c
  PROVE  Mask(x, c) = IF x < c THEN x ELSE x - c
<1>1. CASE x < c
  BY <1>1 DEF Mask
<1>2. CASE x >= c
  BY <1>2 DEF Mask
<1> QED
  BY <1>1, <1>2

(* Capacities are at least four; all but the smallest are even. *)
LEMMA CapFacts ==
  ASSUME NEW c \in Caps
  PROVE  /\ c \in Nat /\ c >= 4
         /\ c > 4 => c >= 8 /\ c \div 2 \in Caps /\ 2 * (c \div 2) = c
  OBVIOUS

(* The i-th cell from a head p, in an array of c cells. *)
Cell(p, c, i) == IF p + i - 1 < c THEN p + i - 1 ELSE p + i - 1 - c

(* The types of the fields, spelled out. *)
LEMMA Fields ==
  ASSUME QueueTypeOK
  PROVE  /\ cap \in Nat /\ cap >= 4 /\ pos \in Nat /\ pos < cap
         /\ size \in Nat /\ size <= cap
         /\ cap > 4 => cap >= 8 /\ cap \div 2 \in Caps /\ 2 * (cap \div 2) = cap
         /\ cap \div 2 \in Nat
  BY CapFacts DEF QueueTypeOK

(* The index the code masks is that cell. *)
LEMMA CellMask ==
  ASSUME NEW c \in Caps, NEW p \in 0 .. c - 1, NEW i \in 1 .. c
  PROVE  Mask(p + i - 1, c) = Cell(p, c, i) /\ Cell(p, c, i) \in 0 .. c - 1
<1> DEFINE x == p + i - 1
<1>1. c \in Nat /\ c > 0 /\ p \in Nat /\ p < c /\ i \in Nat /\ i >= 1 /\ i <= c
  BY CapFacts
<1>2. x \in Nat /\ x < 2 * c
  BY <1>1
<1> HIDE DEF x
<1>3. Mask(x, c) = IF x < c THEN x ELSE x - c
  BY <1>1, <1>2, MaskOnce
<1>4. Cell(p, c, i) = IF x < c THEN x ELSE x - c
  BY DEF Cell, x
<1>5. Cell(p, c, i) \in 0 .. c - 1
  BY <1>1, <1>2, <1>4
<1> QED
  BY <1>3, <1>4, <1>5 DEF x

(* A sequence is the function of its elements. *)
LEMMA SeqCells ==
  ASSUME NEW s \in Seq(Values) PROVE s = [i \in 1 .. Len(s) |-> s[i]]
  OBVIOUS

(* The queue as a sequence, without the mask. *)
LEMMA ContentsCells ==
  ASSUME RingInv
  PROVE  /\ Contents = [i \in 1 .. size |-> array[Cell(pos, cap, i)]]
         /\ Contents \in Seq(Values) /\ Len(Contents) = size
         /\ \A i \in 1 .. size : Contents[i] = array[Cell(pos, cap, i)]
<1>1. \A i \in 1 .. size : Mask(pos + i - 1, cap) = Cell(pos, cap, i) /\ array[Mask(pos + i - 1, cap)] \in Values
  <2> SUFFICES ASSUME NEW i \in 1 .. size
               PROVE  Mask(pos + i - 1, cap) = Cell(pos, cap, i) /\ array[Mask(pos + i - 1, cap)] \in Values
    OBVIOUS
  <2>1. cap \in Caps /\ pos \in 0 .. cap - 1 /\ i \in 1 .. cap
    BY Fields DEF RingInv, QueueTypeOK
  <2> QED
    BY <2>1, CellMask DEF RingInv, Filled
<1>2. Contents = [i \in 1 .. size |-> array[Cell(pos, cap, i)]]
  BY <1>1 DEF Contents
<1>3. Contents \in [1 .. size -> Values]
  BY <1>1 DEF Contents
<1> QED
  BY <1>2, <1>3, Fields DEF RingInv

-----------------------------------------------------------------------------
(* auxQueuePush. *)

(* What the array holds after the push: every queued value in the cell the *)
(* new capacity gives it, and the new one behind them.                     *)
LEMMA PushCells ==
  ASSUME RingInv, NEW v \in Values, Push(v)
  PROVE  /\ QueueTypeOK'
         /\ \A i \in 1 .. size : array'[Cell(pos', cap', i)] = array[Cell(pos, cap, i)]
         /\ array'[Cell(pos', cap', size + 1)] = v
<1> DEFINE newCap == IF size = cap THEN 2 * cap ELSE cap
<1>1. QueueTypeOK
  BY DEF RingInv
<1>2. newCap \in Caps /\ newCap \in Nat /\ newCap >= cap /\ size + 1 <= newCap /\ pos < newCap
      /\ (newCap = cap \/ (newCap = 2 * cap /\ size = cap))
  BY <1>1, Fields DEF Push
<1>3. cap' = newCap /\ size' = size + 1 /\ pos' = pos /\ out' = out /\ shrinking' = shrinking
      /\ array' = [Room(newCap) EXCEPT ![Mask(pos + size, newCap)] = v]
  BY DEF Push
<1> HIDE DEF newCap
<1>4. Room(newCap) \in [0 .. newCap - 1 -> Values \cup {Nothing}]
  <2>1. \A i \in 0 .. newCap - 1 : i < cap => i \in 0 .. cap - 1
    BY <1>2, Fields, <1>1
  <2>2. \A i \in 0 .. newCap - 1 : ~(i < cap) /\ i - cap < pos => i - cap \in 0 .. cap - 1
    BY <1>1, <1>2, Fields
  <2> QED
    BY <1>1, <2>1, <2>2 DEF Room, QueueTypeOK
<1>5. Mask(pos + size, newCap) = Cell(pos, newCap, size + 1)
      /\ Mask(pos + size, newCap) \in 0 .. newCap - 1
  <2>1. pos \in 0 .. newCap - 1 /\ size + 1 \in 1 .. newCap /\ pos + (size + 1) - 1 = pos + size
    BY <1>1, <1>2, Fields
  <2> QED
    BY <2>1, <1>2, CellMask
<1>6. QueueTypeOK'
  <2>1. array' \in [0 .. newCap - 1 -> Values \cup {Nothing}]
    BY <1>3, <1>4, <1>5
  <2>2. pos \in 0 .. newCap - 1 /\ size + 1 \in 0 .. newCap
    BY <1>1, <1>2, Fields
  <2> QED
    BY <1>1, <1>2, <1>3, <2>1, <2>2 DEF QueueTypeOK
<1>7. Cell(pos', cap', size + 1) = Mask(pos + size, newCap)
  BY <1>3, <1>5
<1>8. array'[Cell(pos', cap', size + 1)] = v
  BY <1>3, <1>4, <1>5, <1>7
<1>9. ASSUME NEW i \in 1 .. size PROVE array'[Cell(pos', cap', i)] = array[Cell(pos, cap, i)]
  <2>1. i \in Nat /\ i >= 1 /\ i <= size
    BY <1>1, Fields
  <2>2. Cell(pos', cap', i) = IF pos + i - 1 < newCap THEN pos + i - 1 ELSE pos + i - 1 - newCap
    BY <1>3 DEF Cell
  <2>3. Cell(pos', cap', i) \in 0 .. newCap - 1 /\ Cell(pos', cap', i) # Mask(pos + size, newCap)
    BY <2>1, <2>2, <1>1, <1>2, <1>5, Fields DEF Cell
  <2>4. array'[Cell(pos', cap', i)] = Room(newCap)[Cell(pos', cap', i)]
    BY <2>3, <1>3, <1>4
  <2>5. Room(newCap)[Cell(pos', cap', i)] = array[Cell(pos, cap, i)]
    <3>1. CASE newCap = cap
      <4>1. Cell(pos', cap', i) = Cell(pos, cap, i) /\ Cell(pos', cap', i) < cap
        BY <3>1, <2>1, <2>2, <1>1, Fields DEF Cell
      <4> QED
        BY <4>1, <2>3 DEF Room
    <3>2. CASE newCap = 2 * cap /\ size = cap
      <4>1. Cell(pos', cap', i) = pos + i - 1
        BY <3>2, <2>1, <2>2, <1>1, Fields
      <4>2. CASE pos + i - 1 < cap
        BY <4>1, <4>2, <2>3 DEF Room, Cell
      <4>3. CASE ~(pos + i - 1 < cap)
        <5>1. pos + i - 1 - cap < pos
          BY <3>2, <2>1, <1>1, Fields
        <5>2. Room(newCap)[Cell(pos', cap', i)] = array[pos + i - 1 - cap]
          <6> DEFINE k == pos + i - 1
          <6>1. k \in 0 .. newCap - 1 /\ ~(k < cap) /\ k - cap < pos /\ Cell(pos', cap', i) = k
            BY <4>1, <4>3, <5>1, <2>1, <2>3, <1>1, Fields
          <6> HIDE DEF k
          <6>2. Room(newCap)[k] = array[k - cap]
            BY <6>1 DEF Room
          <6> QED
            BY <6>1, <6>2, <2>1, <1>1, Fields DEF k
        <5> QED
          BY <4>3, <5>2 DEF Cell
      <4> QED
        BY <4>2, <4>3
    <3> QED
      BY <3>1, <3>2, <1>2
  <2> QED
    BY <2>4, <2>5
<1> QED
  BY <1>6, <1>8, <1>9

(* A push keeps the invariant and appends the value. *)
LEMMA PushStep ==
  ASSUME RingInv, NEW v \in Values, Push(v)
  PROVE  RingInv' /\ Contents' = Append(Contents, v)
<1>1. QueueTypeOK /\ Settled
  BY DEF RingInv
<1>2. QueueTypeOK'
  BY PushCells
<1>3. size' = size + 1 /\ pos' = pos /\ ~shrinking /\ ~shrinking'
      /\ cap' = (IF size = cap THEN 2 * cap ELSE cap)
  BY DEF Push
<1>4. ~CanShrink
  BY <1>1, <1>3 DEF Settled
<1>5. ~CanShrink'
  BY <1>1, <1>3, <1>4, Fields DEF CanShrink
<1>6. Settled' /\ HeadInv'
  BY <1>3, <1>5 DEF Settled, HeadInv
<1>7. \A i \in 1 .. size : array'[Cell(pos', cap', i)] = Contents[i] /\ Contents[i] \in Values
  BY PushCells, ContentsCells, Fields DEF RingInv
<1>8. ASSUME NEW i \in 1 .. size'
      PROVE  /\ array'[Mask(pos' + i - 1, cap')] = Append(Contents, v)[i]
             /\ array'[Mask(pos' + i - 1, cap')] \in Values
  <2>1. i \in 1 .. cap'
    BY <1>2, Fields DEF QueueTypeOK
  <2>2. Mask(pos' + i - 1, cap') = Cell(pos', cap', i)
    BY <1>2, <2>1, CellMask DEF QueueTypeOK
  <2>3. CASE i \in 1 .. size
    BY <2>2, <2>3, <1>7, ContentsCells
  <2>4. CASE i = size + 1
    BY <2>2, <2>4, PushCells, ContentsCells
  <2>5. i \in 1 .. size \/ i = size + 1
    BY <1>1, <1>3, Fields
  <2> QED
    BY <2>3, <2>4, <2>5
<1>9. Filled'
  BY <1>8 DEF Filled
<1>10. Contents' = Append(Contents, v)
  <2>1. Append(Contents, v) \in Seq(Values) /\ Len(Append(Contents, v)) = size + 1
    BY ContentsCells
  <2>2. Append(Contents, v) = [i \in 1 .. size + 1 |-> Append(Contents, v)[i]]
    BY <2>1, SeqCells
  <2> QED
    BY <2>2, <1>3, <1>8 DEF Contents
<1> QED
  BY <1>2, <1>6, <1>9, <1>10 DEF RingInv

-----------------------------------------------------------------------------
(* auxQueuePop. *)

(* Taking the head keeps the invariant, returns the oldest value and       *)
(* leaves the others.                                                      *)
LEMMA PopStep ==
  ASSUME RingInv, Pop
  PROVE  RingInv' /\ Contents # <<>> /\ out' = Head(Contents) /\ Contents' = Tail(Contents)
<1>1. QueueTypeOK /\ Settled /\ ~shrinking /\ size > 0
  BY DEF RingInv, Pop
<1>2. size' = size - 1 /\ cap' = cap /\ array' = array /\ shrinking' /\ out' = array[pos]
      /\ pos' = Mask(pos + 1, cap)
  BY DEF Pop
<1>3. pos' = (IF pos + 1 < cap THEN pos + 1 ELSE 0) /\ pos' \in 0 .. cap - 1
  <2>1. pos + 1 \in Nat /\ pos + 1 < 2 * cap /\ cap > 0
    BY <1>1, Fields
  <2>2. Mask(pos + 1, cap) = IF pos + 1 < cap THEN pos + 1 ELSE pos + 1 - cap
    BY <2>1, <1>1, Fields, MaskOnce
  <2> QED
    BY <2>2, <1>1, <1>2, Fields
<1>4. QueueTypeOK'
  <2>1. array[pos] \in Values \cup {Nothing} /\ size - 1 \in 0 .. cap
    BY <1>1, Fields DEF QueueTypeOK
  <2> QED
    BY <1>1, <1>2, <1>3, <2>1 DEF QueueTypeOK
<1>5. Settled'
  BY <1>2 DEF Settled
<1>6. HeadInv'
  <2>1. ASSUME size - 1 = 0, cap > 4, pos + 1 < cap PROVE pos + 1 > cap \div 2
    <3>1. ~(4 * size <= cap /\ pos + size <= cap \div 2)
      BY <1>1, <2>1 DEF Settled, CanShrink
    <3> QED
      BY <3>1, <2>1, <1>1, Fields
  <2> QED
    BY <2>1, <1>1, <1>2, <1>3, Fields DEF HeadInv
<1>7. ASSUME NEW i \in 1 .. size'
      PROVE  /\ i + 1 \in 1 .. size
             /\ array'[Mask(pos' + i - 1, cap')] = Contents[i + 1]
             /\ Contents[i + 1] \in Values
  <2>1. i \in Nat /\ i >= 1 /\ i + 1 <= size /\ i + 1 \in 1 .. size /\ i \in 1 .. cap
    BY <1>1, <1>2, Fields
  <2>2. Mask(pos' + i - 1, cap') = Cell(pos', cap, i)
    BY <2>1, <1>2, <1>3, <1>4, CellMask DEF QueueTypeOK
  <2>3. Cell(pos', cap, i) = Cell(pos, cap, i + 1)
    BY <2>1, <1>1, <1>3, Fields DEF Cell
  <2>4. Contents[i + 1] = array[Cell(pos, cap, i + 1)] /\ Contents[i + 1] \in Values
    BY <2>1, ContentsCells
  <2> QED
    BY <2>1, <2>2, <2>3, <2>4, <1>2
<1>8. Filled'
  BY <1>7 DEF Filled
<1>9. Contents # <<>> /\ out' = Head(Contents)
  <2>1. Cell(pos, cap, 1) = pos /\ 1 \in 1 .. size
    BY <1>1, Fields DEF Cell
  <2> QED
    BY <2>1, <1>1, <1>2, ContentsCells
<1>10. Contents' = Tail(Contents)
  <2>1. Tail(Contents) \in Seq(Values) /\ Len(Tail(Contents)) = size - 1
        /\ \A i \in 1 .. size - 1 : Tail(Contents)[i] = Contents[i + 1]
    BY <1>9, <1>1, ContentsCells, Fields
  <2>2. Tail(Contents) = [i \in 1 .. size - 1 |-> Tail(Contents)[i]]
    BY <2>1, SeqCells
  <2> QED
    BY <2>1, <2>2, <1>2, <1>7 DEF Contents
<1> QED
  BY <1>4, <1>5, <1>6, <1>8, <1>9, <1>10 DEF RingInv

(* A turn of the loop cuts nothing off.  The head stays inside the smaller *)
(* array even when the queue is empty.                                     *)
LEMMA ShrinkStep ==
  ASSUME RingInv, Shrink
  PROVE  RingInv' /\ Contents' = Contents /\ out' = out
<1> DEFINE half == cap \div 2
<1>1. QueueTypeOK /\ shrinking /\ cap > 4 /\ pos + size <= half /\ HeadInv
  BY DEF RingInv, Shrink, CanShrink, QueueTypeOK
<1>2. cap' = half /\ array' = [i \in 0 .. half - 1 |-> array[i]] /\ pos' = pos /\ size' = size
      /\ out' = out /\ shrinking' = shrinking
  BY DEF Shrink
<1>3. half \in Caps /\ half \in Nat /\ half >= 4 /\ 2 * half = cap
  BY <1>1, Fields
<1> HIDE DEF half
<1>4. pos < half
  <2>1. CASE size = 0
    <3>1. pos = 0 \/ pos > half
      BY <2>1, <1>1 DEF HeadInv, half
    <3> QED
      BY <3>1, <2>1, <1>1, <1>3, Fields
  <2>2. CASE size # 0
    BY <2>2, <1>1, <1>3, Fields
  <2> QED
    BY <2>1, <2>2
<1>5. QueueTypeOK'
  <2>1. pos \in 0 .. half - 1 /\ size \in 0 .. half
    BY <1>1, <1>3, <1>4, Fields
  <2>2. \A i \in 0 .. half - 1 : i \in 0 .. cap - 1
    BY <1>3
  <2>3. array' \in [0 .. half - 1 -> Values \cup {Nothing}]
    BY <2>2, <1>1, <1>2 DEF QueueTypeOK
  <2> QED
    BY <2>1, <2>3, <1>1, <1>2, <1>3 DEF QueueTypeOK
<1>6. Settled' /\ HeadInv'
  <2>1. ASSUME size = 0 PROVE pos = 0
    <3>1. pos = 0 \/ pos > half
      BY <2>1, <1>1 DEF HeadInv, half
    <3> QED
      BY <3>1, <1>1, <1>3, <1>4, Fields
  <2> QED
    BY <2>1, <1>1, <1>2 DEF Settled, HeadInv
<1>7. ASSUME NEW i \in 1 .. size
      PROVE  /\ array'[Mask(pos' + i - 1, cap')] = Contents[i]
             /\ Contents[i] \in Values
  <2>1. i \in Nat /\ i >= 1 /\ i <= size /\ i \in 1 .. half /\ pos \in 0 .. half - 1
    BY <1>1, <1>3, <1>4, Fields
  <2>2. Mask(pos' + i - 1, cap') = Cell(pos, half, i)
    BY <2>1, <1>2, <1>3, CellMask
  <2>3. Cell(pos, half, i) = Cell(pos, cap, i) /\ Cell(pos, half, i) \in 0 .. half - 1
    BY <2>1, <1>1, <1>3, Fields DEF Cell
  <2>4. Contents[i] = array[Cell(pos, cap, i)] /\ Contents[i] \in Values
    BY ContentsCells
  <2> QED
    BY <2>2, <2>3, <2>4, <1>2
<1>8. Filled'
  BY <1>2, <1>7 DEF Filled
<1>9. Contents' = Contents
  <2>1. Contents = [i \in 1 .. size |-> Contents[i]]
    BY ContentsCells, SeqCells
  <2> QED
    BY <2>1, <1>2, <1>7 DEF Contents
<1> QED
  BY <1>2, <1>5, <1>6, <1>8, <1>9 DEF RingInv

(* The loop ends where nothing is left to shrink. *)
LEMMA ReturnStep ==
  ASSUME RingInv, Return
  PROVE  RingInv' /\ Contents' = Contents /\ out' = out
<1>1. UNCHANGED <<array, pos, size, cap, out>> /\ ~CanShrink /\ shrinking' = FALSE
  BY DEF Return, RingInv, QueueTypeOK
<1>2. QueueTypeOK' /\ Filled'
  BY <1>1 DEF RingInv, QueueTypeOK, Filled
<1>3. Settled' /\ HeadInv'
  BY <1>1 DEF Settled, HeadInv, CanShrink
<1> QED
  BY <1>1, <1>2, <1>3 DEF RingInv, Contents

-----------------------------------------------------------------------------
(* The theorems. *)

(* The empty queue. *)
LEMMA RingStart == auxQueueCreate => RingInv /\ F!Init
<1> SUFFICES ASSUME auxQueueCreate PROVE RingInv /\ F!Init
  OBVIOUS
<1>1. QueueTypeOK
  <2>1. cap = 4 /\ 4 - 1 = 3
    BY DEF auxQueueCreate
  <2>2. array \in [0 .. cap - 1 -> Values \cup {Nothing}]
    BY <2>1 DEF auxQueueCreate
  <2>3. cap \in Caps /\ pos \in 0 .. cap - 1 /\ size \in 0 .. cap
    BY <2>1 DEF auxQueueCreate
  <2>4. out \in Values \cup {Nothing} /\ shrinking \in BOOLEAN
    BY DEF auxQueueCreate
  <2> QED
    BY <2>2, <2>3, <2>4 DEF QueueTypeOK
<1>2. Settled /\ HeadInv /\ Filled
  BY DEF auxQueueCreate, Settled, CanShrink, HeadInv, Filled
<1>3. Contents = <<>>
  BY DEF auxQueueCreate, Contents
<1> QED
  BY <1>1, <1>2, <1>3 DEF RingInv, auxQueueCreate, F!Init

(* A stuttering step changes nothing. *)
LEMMA RingStutter == RingInv /\ UNCHANGED queueVars => RingInv' /\ UNCHANGED <<Contents, out>>
  BY DEF RingInv, QueueTypeOK, Settled, CanShrink, HeadInv, Filled, Contents, queueVars

(* Every step keeps the invariant and is a step of a queue or none. *)
LEMMA RingStep == RingInv /\ [QueueNext]_queueVars => RingInv' /\ [F!Next]_<<Contents, out>>
<1> SUFFICES ASSUME RingInv, [QueueNext]_queueVars PROVE RingInv' /\ [F!Next]_<<Contents, out>>
  OBVIOUS
<1>1. ASSUME NEW v \in Values, Push(v) PROVE RingInv' /\ F!Next
  <2>1. out' = out
    BY <1>1 DEF Push
  <2> QED
    BY <1>1, <2>1, PushStep DEF F!Next, F!Push
<1>2. CASE Pop
  BY <1>2, PopStep DEF F!Next, F!Pop
<1>3. CASE Shrink
  BY <1>3, ShrinkStep
<1>4. CASE Return
  BY <1>4, ReturnStep
<1>5. CASE UNCHANGED queueVars
  BY <1>5, RingStutter
<1> QED
  BY <1>1, <1>2, <1>3, <1>4, <1>5 DEF QueueNext

(* The inductive invariant of the ring. *)
THEOREM RingInvHolds == QueueSpec => []RingInv
  BY RingStart, RingStep, PTL DEF QueueSpec

(* The head is inside the array, and the array holds everything, after any *)
(* sequence of pushes and pops.                                            *)
THEOREM QueueTypeCorrect == QueueSpec => []QueueTypeOK
  BY RingInvHolds, PTL DEF RingInv

(* auxQueuePop leaves nothing to shrink. *)
THEOREM AlwaysSettled == QueueSpec => []Settled
  BY RingInvHolds, PTL DEF RingInv

(* The growing and shrinking ring implements a queue: its steps are pushes *)
(* and pops of the sequence between its head and its tail.                 *)
THEOREM ImplementsFifo == QueueSpec => IsFifo
  BY RingInvHolds, RingStart, RingStep, PTL DEF QueueSpec, IsFifo, F!Spec

--------------------------------------------------------------------------------
(* The clients of tcpmux.                                                  *)

(* The clients whose end has told the peer that they are gone, and those   *)
(* the peer has told so.                                                   *)
ToldGone(e) == {c \in Client : sock[e][c] \in {"closed", "freed"} /\ rkarma[e][c] = 0}
HeardGone(e) == rdead[e] \cup burned[e]

(* The clients of both ends have the same names, one twin each. *)
NamesInv ==
  /\ \A e \in End : \A c \in Client : of[e][c] = IF c <= made[e] THEN c ELSE 0
  /\ made["demux"] <= made["mux"] /\ made["mux"] <= made["demux"] + 1
  /\ \A e \in End : client[e] \in {None, made[e]}
  /\ \A e \in End : \A c \in Client : c \in burned[e] <=> (c <= made[e] /\ c # client[e])

(* What the socket of a client says about its karma and its marks. *)
SocketOK(e, c) ==
  /\ sock[e][c] = "none" <=> c > made[e]
  /\ sock[e][c] = "none" =>
       wkarma[e][c] = 0 /\ rkarma[e][c] = 0 /\ out_sz[e][c] = 0 /\ c \notin rdead[e]
  /\ sock[e][c] \in {"connecting", "stuck"} => rkarma[e][c] = 0
  /\ sock[e][c] \in {"closed", "freed"} => rkarma[e][c] \in {-1, 0}
  /\ sock[e][c] = "open" => rkarma[e][c] >= 0
  /\ c \in rdead[e] => sock[e][c] \in {"closed", "freed", "stuck"}
  /\ sock[e][c] = "freed" => c \in burned[e]
SocketInv == \A e \in End : \A c \in Client : SocketOK(e, c)

(* The karma queue is the client, when it has something to tell; then the  *)
(* control client is in the write queue.                                   *)
Queues(q, c) == \E i \in DOMAIN q : q[i] = c
KarmaQueueOK(e) ==
  /\ kq[e] = IF client[e] # None /\ Tellable(rkarma[e][client[e]]) THEN <<client[e]>> ELSE <<>>
  /\ kq[e] # <<>> => Queues(wq[e], Control)
KarmaQueueInv == \A e \in End : KarmaQueueOK(e)

(* Packets on the way name a client, and data are not empty. *)
PacketsInv ==
  \A e \in End :
    /\ \A i \in DOMAIN net[e] : net[e][i].of # 0 /\ (net[e][i].kind = "data" => net[e][i].n > 0)
    /\ wout[e].kind = "data" => wout[e].n > 0

(* Packet i says that c is gone. *)
GoneAt(s, c, i) == s[i].of = c /\ s[i].n = -1

(* The names on the way never fall, and rise behind a packet that says one *)
(* is gone.                                                                *)
NamesRise(s) ==
  \A i, j \in DOMAIN s : i < j => IF s[i].n = -1 THEN s[i].of < s[j].of ELSE s[i].of <= s[j].of

(* What is on the way is for a client that has not been given up there.    *)
FlightOK(e) ==
  /\ \A i \in DOMAIN Flight(e) : /\ Flight(e)[i].of \in 1..made[e]
                                 /\ Flight(e)[i].of \notin HeardGone(Peer(e))
                                 /\ Flight(e)[i].n = -1 => Flight(e)[i].of \in ToldGone(e)
  /\ NamesRise(Flight(e))
FlightInv == \A e \in End : FlightOK(e)

(* What an end has told the other has heard or is on its way to; a client  *)
(* is burned when its end has done both.                                   *)
GoneInv ==
  \A e \in End :
    /\ HeardGone(Peer(e)) \subseteq ToldGone(e)
    /\ \A c \in ToldGone(e) \ HeardGone(Peer(e)) : \E i \in DOMAIN Flight(e) : GoneAt(Flight(e), c, i)
    /\ burned[e] = ToldGone(e) \cap HeardGone(e)

(* All that the karma of e's client has become. *)
Flow(e, c) == wkarma[e][c] + Sent(e, c, "data") + Sent(Peer(e), c, "ack") + Held(Peer(e), c)

(* It is CLIENT_KARMA until the peer's client is closed, and never more. *)
FlowInv ==
  \A e \in End : \A c \in 1..made["mux"] :
    /\ Flow(e, c) <= K
    /\ sock[Peer(e)][c] \notin {"closed", "freed"} => Flow(e, c) = K

(* The inductive invariant. *)
ClientsInv == /\ ClientTypeOK /\ NamesInv /\ SocketInv /\ KarmaQueueInv
              /\ PacketsInv /\ FlightInv /\ GoneInv /\ FlowInv /\ IdReuse

--------------------------------------------------------------------------------
(* How many units a packet adds. *)
Worth(p, id, kind) == IF p.of = id /\ p.kind = kind THEN Positive(p.n) ELSE 0

(* The units of a kind in one packet, numbered from 1. *)
OwnUnits(p, id, kind) == {k \in 1..K : p.of = id /\ p.kind = kind /\ k <= p.n}

(* The bounds and the ends, as the steps below need them.                  *)
LEMMA ClientFacts ==
  /\ K \in Nat /\ AckThreshold \in Nat /\ 1 <= AckThreshold /\ AckThreshold <= K
  /\ VPacketSize \in Nat /\ Uses \in Nat
  /\ \A e \in End : Peer(e) \in End /\ Peer(e) # e /\ Peer(Peer(e)) = e
  /\ \A e \in End, f \in End : f = e \/ f = Peer(e)
  /\ \A c \in Client : c \in Nat /\ c >= 1 /\ c <= Uses
BY KarmaAssumption DEF End, Peer, Client

(* A packet has as many units as it is worth.                              *)
LEMMA OwnUnitsCount ==
  ASSUME NEW p \in Packet, NEW id, NEW kind
  PROVE  /\ IsFiniteSet(OwnUnits(p, id, kind))
         /\ Cardinality(OwnUnits(p, id, kind)) = Worth(p, id, kind)
<1>1. p.n \in -1..K /\ K \in Nat
  BY ClientFacts DEF Packet
<1>2. CASE p.of = id /\ p.kind = kind /\ p.n > 0
  <2>1. OwnUnits(p, id, kind) = 1..p.n /\ Worth(p, id, kind) = p.n
    BY <1>1, <1>2 DEF OwnUnits, Worth, Positive
  <2>2. 1 \in Int /\ p.n \in Int /\ ~(1 > p.n) /\ p.n - 1 + 1 = p.n
    BY <1>1, <1>2
  <2> QED
    BY <2>1, <2>2, FS_Interval
<1>3. CASE ~(p.of = id /\ p.kind = kind /\ p.n > 0)
  <2>1. OwnUnits(p, id, kind) = {} /\ Worth(p, id, kind) = 0
    BY <1>1, <1>3 DEF OwnUnits, Worth, Positive
  <2> QED
    BY <2>1, FS_EmptySet
<1> QED
  BY <1>2, <1>3

(* The units on the way are finitely many.                                 *)
LEMMA UnitsFinite ==
  ASSUME NEW s \in Seq(Packet), NEW id, NEW kind
  PROVE  IsFiniteSet(KarmaUnits(s, id, kind)) /\ Cardinality(KarmaUnits(s, id, kind)) \in Nat
<1>1. IsFiniteSet(1..Len(s)) /\ IsFiniteSet(1..K)
  BY FS_Interval, ClientFacts
<1>2. IsFiniteSet((1..Len(s)) \X (1..K))
  BY <1>1, FS_Product
<1>3. KarmaUnits(s, id, kind) \in SUBSET ((1..Len(s)) \X (1..K))
  BY DEF KarmaUnits
<1>4. IsFiniteSet(KarmaUnits(s, id, kind))
  BY <1>2, <1>3, FS_Subset
<1> QED
  BY <1>4, FS_CardinalityType

(* The worth of a packet is a natural number.                              *)
LEMMA WorthNat ==
  ASSUME NEW p \in Packet, NEW id, NEW kind PROVE Worth(p, id, kind) \in Nat
BY ClientFacts DEF Worth, Positive, Packet

(* The units of packet j, paired with j, are as many.                      *)
LEMMA PairedUnits ==
  ASSUME NEW p \in Packet, NEW id, NEW kind, NEW j
  PROVE  /\ IsFiniteSet({j} \X OwnUnits(p, id, kind))
         /\ Cardinality({j} \X OwnUnits(p, id, kind)) = Worth(p, id, kind)
<1>1. IsFiniteSet({j}) /\ Cardinality({j}) = 1
  BY FS_Singleton
<1>2. /\ IsFiniteSet(OwnUnits(p, id, kind))
      /\ Cardinality(OwnUnits(p, id, kind)) = Worth(p, id, kind)
  BY OwnUnitsCount
<1>3. Worth(p, id, kind) \in Nat
  BY WorthNat
<1>4. /\ IsFiniteSet({j} \X OwnUnits(p, id, kind))
      /\ Cardinality({j} \X OwnUnits(p, id, kind)) = 1 * Worth(p, id, kind)
  BY <1>1, <1>2, FS_Product
<1> QED
  BY <1>3, <1>4

(* A packet put behind the others adds what it is worth.                   *)
LEMMA UnitsAppend ==
  ASSUME NEW s \in Seq(Packet), NEW p \in Packet, NEW id, NEW kind
  PROVE  Cardinality(KarmaUnits(Append(s, p), id, kind))
           = Cardinality(KarmaUnits(s, id, kind)) + Worth(p, id, kind)
<1> DEFINE A == KarmaUnits(s, id, kind)
           Z == {Len(s) + 1} \X OwnUnits(p, id, kind)
<1>1. Len(s) \in Nat /\ DOMAIN s = 1..Len(s) /\ DOMAIN Append(s, p) = 1..(Len(s) + 1)
  OBVIOUS
<1>2. (\A i \in 1..Len(s) : Append(s, p)[i] = s[i]) /\ Append(s, p)[Len(s) + 1] = p
  OBVIOUS
<1>3. KarmaUnits(Append(s, p), id, kind) \subseteq A \cup Z
  <2> SUFFICES ASSUME NEW u \in KarmaUnits(Append(s, p), id, kind) PROVE u \in A \cup Z
    OBVIOUS
  <2>1. PICK i \in 1..(Len(s) + 1) : \E k \in 1..K : u = <<i, k>> /\ u[1] = i /\ u[2] = k
    BY <1>1 DEF KarmaUnits
  <2>2. PICK k \in 1..K : u = <<i, k>> /\ u[1] = i /\ u[2] = k
    BY <2>1
  <2>3. Append(s, p)[i].of = id /\ Append(s, p)[i].kind = kind /\ k <= Append(s, p)[i].n
    BY <2>2 DEF KarmaUnits
  <2>4. CASE i = Len(s) + 1
    BY <1>2, <2>2, <2>3, <2>4 DEF OwnUnits
  <2>5. CASE i # Len(s) + 1
    <3>1. i \in 1..Len(s)
      BY <1>1, <2>5
    <3> QED
      BY <1>1, <1>2, <2>2, <2>3, <3>1 DEF KarmaUnits
  <2> QED
    BY <2>4, <2>5
<1>4. A \subseteq KarmaUnits(Append(s, p), id, kind)
  BY <1>1, <1>2 DEF KarmaUnits
<1>5. Z \subseteq KarmaUnits(Append(s, p), id, kind)
  BY <1>1, <1>2 DEF KarmaUnits, OwnUnits
<1>6. A \cap Z = {}
  BY <1>1 DEF KarmaUnits
<1>7. IsFiniteSet(A) /\ Cardinality(A) \in Nat
  BY UnitsFinite
<1>8. IsFiniteSet(Z) /\ Cardinality(Z) = Worth(p, id, kind) /\ Worth(p, id, kind) \in Nat
  BY PairedUnits, WorthNat
<1>9. KarmaUnits(Append(s, p), id, kind) = A \cup Z
  BY <1>3, <1>4, <1>5
<1> HIDE DEF A, Z
<1>10. Cardinality(A \cup Z) = Cardinality(A) + Cardinality(Z) - 0
  <2>1. Cardinality(A \cap Z) = 0
    BY <1>6, FS_EmptySet
  <2> QED
    BY <1>7, <1>8, <2>1, FS_Union
<1> QED
  BY <1>7, <1>8, <1>9, <1>10 DEF A

(* The first packet taken away takes what it is worth.                     *)
LEMMA UnitsTail ==
  ASSUME NEW s \in Seq(Packet), s # <<>>, NEW id, NEW kind
  PROVE  Cardinality(KarmaUnits(s, id, kind))
           = Cardinality(KarmaUnits(Tail(s), id, kind)) + Worth(Head(s), id, kind)
<1> DEFINE A == KarmaUnits(Tail(s), id, kind)
           Z == {1} \X OwnUnits(Head(s), id, kind)
           R == {u \in KarmaUnits(s, id, kind) : u[1] # 1}
           f == [u \in A |-> <<u[1] + 1, u[2]>>]
<1>1. /\ Len(s) \in Nat /\ Len(s) > 0 /\ Len(Tail(s)) = Len(s) - 1 /\ Head(s) \in Packet
      /\ Tail(s) \in Seq(Packet) /\ Head(s) = s[1]
      /\ \A i \in 1..(Len(s) - 1) : Tail(s)[i] = s[i + 1]
  OBVIOUS
<1>2. DOMAIN s = 1..Len(s) /\ DOMAIN Tail(s) = 1..(Len(s) - 1)
  BY <1>1
<1>3. \A u \in A : \E i \in 1..(Len(s) - 1) : \E k \in 1..K :
        /\ u = <<i, k>> /\ u[1] = i /\ u[2] = k
        /\ s[i + 1].of = id /\ s[i + 1].kind = kind /\ k <= s[i + 1].n
  BY <1>1, <1>2 DEF KarmaUnits
<1>4. \A u \in KarmaUnits(s, id, kind) : \E i \in 1..Len(s) : \E k \in 1..K :
        /\ u = <<i, k>> /\ u[1] = i /\ u[2] = k
        /\ s[i].of = id /\ s[i].kind = kind /\ k <= s[i].n
  BY <1>1, <1>2 DEF KarmaUnits
<1>5. \A i \in 1..Len(s), k \in 1..K :
        s[i].of = id /\ s[i].kind = kind /\ k <= s[i].n => <<i, k>> \in KarmaUnits(s, id, kind)
  BY <1>2 DEF KarmaUnits
<1>6. \A i \in 1..(Len(s) - 1), k \in 1..K :
        s[i + 1].of = id /\ s[i + 1].kind = kind /\ k <= s[i + 1].n => <<i, k>> \in A
  BY <1>1, <1>2 DEF KarmaUnits
<1> HIDE DEF A
<1>7. f \in [A -> R]
  <2> SUFFICES ASSUME NEW u \in A PROVE <<u[1] + 1, u[2]>> \in R
    OBVIOUS
  <2>1. PICK i \in 1..(Len(s) - 1) : \E k \in 1..K :
          /\ u = <<i, k>> /\ u[1] = i /\ u[2] = k
          /\ s[i + 1].of = id /\ s[i + 1].kind = kind /\ k <= s[i + 1].n
    BY <1>3
  <2>2. PICK k \in 1..K : /\ u = <<i, k>> /\ u[1] = i /\ u[2] = k
                          /\ s[i + 1].of = id /\ s[i + 1].kind = kind /\ k <= s[i + 1].n
    BY <2>1
  <2>3. i + 1 \in 1..Len(s) /\ i + 1 # 1
    BY <1>1
  <2>4. <<i + 1, k>> \in KarmaUnits(s, id, kind)
    BY <1>5, <2>2, <2>3
  <2> QED
    BY <2>2, <2>3, <2>4
<1>8. f \in Injection(A, R)
  <2> SUFFICES ASSUME NEW u \in A, NEW v \in A, <<u[1] + 1, u[2]>> = <<v[1] + 1, v[2]>> PROVE u = v
    BY <1>7 DEF Injection, IsInjective
  <2>1. PICK i \in 1..(Len(s) - 1) : \E k \in 1..K : u = <<i, k>> /\ u[1] = i /\ u[2] = k
    BY <1>3
  <2>2. PICK k \in 1..K : u = <<i, k>> /\ u[1] = i /\ u[2] = k
    BY <2>1
  <2>3. PICK j \in 1..(Len(s) - 1) : \E l \in 1..K : v = <<j, l>> /\ v[1] = j /\ v[2] = l
    BY <1>3
  <2>4. PICK l \in 1..K : v = <<j, l>> /\ v[1] = j /\ v[2] = l
    BY <2>3
  <2>5. i + 1 = j + 1 /\ k = l
    BY <2>2, <2>4
  <2>6. i = j
    BY <1>1, <2>5
  <2> QED
    BY <2>2, <2>4, <2>5, <2>6
<1>9. f \in Surjection(A, R)
  <2> SUFFICES ASSUME NEW v \in R PROVE \E u \in A : f[u] = v
    BY <1>7 DEF Surjection
  <2>1. PICK i \in 1..Len(s) : \E k \in 1..K :
          /\ v = <<i, k>> /\ v[1] = i /\ v[2] = k
          /\ s[i].of = id /\ s[i].kind = kind /\ k <= s[i].n
    BY <1>4
  <2>2. PICK k \in 1..K : /\ v = <<i, k>> /\ v[1] = i /\ v[2] = k
                          /\ s[i].of = id /\ s[i].kind = kind /\ k <= s[i].n
    BY <2>1
  <2>3. i # 1
    BY <2>2
  <2>4. i - 1 \in 1..(Len(s) - 1) /\ (i - 1) + 1 = i
    BY <1>1, <2>3
  <2>5. <<i - 1, k>> \in A
    BY <1>6, <2>2, <2>4
  <2>6. f[<<i - 1, k>>] = <<i, k>>
    BY <2>4, <2>5
  <2> QED
    BY <2>2, <2>5, <2>6
<1>10. ExistsBijection(A, R)
  BY <1>8, <1>9 DEF ExistsBijection, Bijection
<1>11. IsFiniteSet(A) /\ Cardinality(A) \in Nat
  BY <1>1, UnitsFinite DEF A
<1>12. IsFiniteSet(R) /\ Cardinality(R) = Cardinality(A)
  BY <1>10, <1>11, FS_Bijection
<1>13. IsFiniteSet(Z) /\ Cardinality(Z) = Worth(Head(s), id, kind) /\ Worth(Head(s), id, kind) \in Nat
  BY <1>1, PairedUnits, WorthNat
<1>14. KarmaUnits(s, id, kind) = R \cup Z
  <2>1. \A u \in KarmaUnits(s, id, kind) : u \in R \cup Z
    BY <1>1, <1>4 DEF OwnUnits
  <2>2. \A u \in Z : u \in KarmaUnits(s, id, kind)
    BY <1>1, <1>5 DEF OwnUnits
  <2> QED
    BY <2>1, <2>2
<1>15. R \cap Z = {}
  OBVIOUS
<1> HIDE DEF Z, R
<1>16. Cardinality(R \cup Z) = Cardinality(R) + Cardinality(Z) - 0
  <2>1. Cardinality(R \cap Z) = 0
    BY <1>15, FS_EmptySet
  <2> QED
    BY <1>12, <1>13, <2>1, FS_Union
<1> QED
  BY <1>11, <1>12, <1>13, <1>14, <1>16 DEF A

--------------------------------------------------------------------------------
(* What is on the way is a sequence of packets, and its units a number.    *)
LEMMA FlightType ==
  ASSUME ClientTypeOK, NEW e \in End
  PROVE  /\ Flight(e) \in Seq(Packet) /\ Len(Flight(e)) \in Nat /\ DOMAIN Flight(e) = 1..Len(Flight(e))
         /\ \A i \in DOMAIN Flight(e) : Flight(e)[i] \in Packet
         /\ \A c, kind : Sent(e, c, kind) \in Nat
<1>1. net[e] \in Seq(Packet) /\ wout[e] \in Packet
  BY DEF ClientTypeOK
<1>2. Flight(e) \in Seq(Packet)
  BY <1>1 DEF Flight
<1>3. \A c, kind : Sent(e, c, kind) \in Nat
  BY <1>2, UnitsFinite DEF Sent
<1> HIDE DEF Flight
<1> QED
  BY <1>2, <1>3

(* A packet that mainw takes up goes behind those on the way.              *)
LEMMA FlightPut ==
  ASSUME ClientTypeOK, NEW e \in End, NEW p \in Packet,
         wout[e] = NoOut, net' = net, wout' = [wout EXCEPT ![e] = p]
  PROVE  /\ Flight(Peer(e))' = Flight(Peer(e))
         /\ Flight(e)' = IF p.of = 0 THEN Flight(e) ELSE Append(Flight(e), p)
<1>1. wout \in [End -> Packet] /\ wout'[e] = p /\ wout'[Peer(e)] = wout[Peer(e)] /\ wout[e].of = 0
  BY ClientFacts DEF ClientTypeOK, NoOut
<1>2. Flight(Peer(e))' = Flight(Peer(e))
  BY <1>1 DEF Flight
<1>3. Flight(e) = net[e]
  BY <1>1 DEF Flight
<1>4. Flight(e)' = IF p.of = 0 THEN net[e] ELSE Append(net[e], p)
  BY <1>1 DEF Flight
<1> QED
  BY <1>2, <1>3, <1>4

(* What is sent with it of a client's karma and data.                      *)
LEMMA SentPut ==
  ASSUME ClientTypeOK, NEW e \in End, NEW p \in Packet, NEW c \in Client, NEW kind,
         wout[e] = NoOut, net' = net, wout' = [wout EXCEPT ![e] = p]
  PROVE  /\ Sent(Peer(e), c, kind)' = Sent(Peer(e), c, kind)
         /\ Sent(e, c, kind)' = Sent(e, c, kind) + Worth(p, c, kind)
<1>1. /\ Flight(Peer(e))' = Flight(Peer(e))
      /\ Flight(e)' = IF p.of = 0 THEN Flight(e) ELSE Append(Flight(e), p)
  BY FlightPut
<1>2. Flight(e) \in Seq(Packet) /\ Sent(e, c, kind) \in Nat
  BY FlightType
<1>3. Sent(Peer(e), c, kind)' = Sent(Peer(e), c, kind)
  BY <1>1 DEF Sent, KarmaUnits
<1>4. CASE p.of = 0
  <2>1. Worth(p, c, kind) = 0
    BY <1>4, ClientFacts DEF Worth
  <2>2. Flight(e)' = Flight(e)
    BY <1>1, <1>4
  <2>3. Sent(e, c, kind)' = Sent(e, c, kind)
    BY <2>2 DEF Sent, KarmaUnits
  <2> QED
    BY <1>2, <1>3, <2>1, <2>3
<1>5. CASE p.of # 0
  <2>1. Flight(e)' = Append(Flight(e), p)
    BY <1>1, <1>5
  <2>2. Sent(e, c, kind)' = Cardinality(KarmaUnits(Append(Flight(e), p), c, kind))
    BY <2>1 DEF Sent, KarmaUnits
  <2>3. Sent(e, c, kind)' = Sent(e, c, kind) + Worth(p, c, kind)
    BY <1>2, <2>2, UnitsAppend DEF Sent
  <2> QED
    BY <1>3, <2>3
<1> QED
  BY <1>4, <1>5

(* A packet that mainr takes is the first of those on the way.             *)
LEMMA FlightTake ==
  ASSUME ClientTypeOK, NEW e \in End, net[Peer(e)] # <<>>,
         net' = [net EXCEPT ![Peer(e)] = Tail(@)], wout' = wout
  PROVE  /\ Flight(e)' = Flight(e)
         /\ Flight(Peer(e)) # <<>> /\ Head(Flight(Peer(e))) = Incoming(e)
         /\ Flight(Peer(e))' = Tail(Flight(Peer(e)))
         /\ Incoming(e) \in Packet
<1>1. /\ net[Peer(e)] \in Seq(Packet) /\ net'[e] = net[e]
      /\ net'[Peer(e)] = Tail(net[Peer(e)]) /\ wout[Peer(e)] \in Packet
  BY ClientFacts DEF ClientTypeOK
<1>2. Flight(e)' = Flight(e)
  BY <1>1 DEF Flight
<1> DEFINE s == net[Peer(e)]
           p == wout[Peer(e)]
<1>3. s \in Seq(Packet) /\ s # <<>> /\ p \in Packet
  BY <1>1
<1>4. Flight(Peer(e)) = (IF p.of = 0 THEN s ELSE Append(s, p)) /\ Incoming(e) = Head(s)
  BY DEF Flight, Incoming
<1>5. Flight(Peer(e))' = IF p.of = 0 THEN Tail(s) ELSE Append(Tail(s), p)
  BY <1>1 DEF Flight
<1> HIDE DEF s, p
<1>6. /\ Append(s, p) # <<>> /\ Head(Append(s, p)) = Head(s) /\ Tail(Append(s, p)) = Append(Tail(s), p)
      /\ Head(s) \in Packet
  BY <1>3
<1> QED
  BY <1>2, <1>3, <1>4, <1>5, <1>6

(* What is taken with it of a client's karma and data.                     *)
LEMMA SentTake ==
  ASSUME ClientTypeOK, NEW e \in End, NEW c \in Client, NEW kind, net[Peer(e)] # <<>>,
         net' = [net EXCEPT ![Peer(e)] = Tail(@)], wout' = wout
  PROVE  /\ Sent(e, c, kind)' = Sent(e, c, kind)
         /\ Sent(Peer(e), c, kind) = Sent(Peer(e), c, kind)' + Worth(Incoming(e), c, kind)
         /\ Sent(Peer(e), c, kind)' \in Nat
<1>1. /\ Flight(e)' = Flight(e)
      /\ Flight(Peer(e)) # <<>> /\ Head(Flight(Peer(e))) = Incoming(e)
      /\ Flight(Peer(e))' = Tail(Flight(Peer(e)))
  BY FlightTake
<1>2. Flight(Peer(e)) \in Seq(Packet)
  BY ClientFacts, FlightType
<1>3. Sent(e, c, kind)' = Sent(e, c, kind)
  BY <1>1 DEF Sent, KarmaUnits
<1>4. Sent(Peer(e), c, kind)' = Cardinality(KarmaUnits(Tail(Flight(Peer(e))), c, kind))
  BY <1>1 DEF Sent, KarmaUnits
<1>5. Tail(Flight(Peer(e))) \in Seq(Packet)
  BY <1>1, <1>2
<1>6. Cardinality(KarmaUnits(Tail(Flight(Peer(e))), c, kind)) \in Nat
  BY <1>5, UnitsFinite
<1> QED
  BY <1>1, <1>2, <1>3, <1>4, <1>6, UnitsTail DEF Sent

(* Nothing else changes what is on the way: neither a step that leaves the *)
(* packets alone nor one that writes a packet out.                         *)
LEMMA FlightKept ==
  ASSUME ClientTypeOK, (UNCHANGED <<net, wout>>) \/ (\E e \in End : WriteOut(e))
  PROVE  /\ \A e \in End : Flight(e)' = Flight(e)
         /\ \A e \in End : \A c, kind : Sent(e, c, kind)' = Sent(e, c, kind)
<1>1. \A e \in End : Flight(e)' = Flight(e)
  <2>1. CASE UNCHANGED <<net, wout>>
    BY <2>1 DEF Flight
  <2>2. CASE \E e \in End : WriteOut(e)
    <3>1. PICK e \in End : WriteOut(e)
      BY <2>2
    <3>2. /\ net \in [End -> Seq(Packet)] /\ wout \in [End -> Packet]
          /\ net' = [net EXCEPT ![e] = IF wout[e].of = 0 THEN @ ELSE Append(@, wout[e])]
          /\ wout' = [wout EXCEPT ![e] = NoOut]
      BY <3>1 DEF ClientTypeOK, WriteOut
    <3>3. \A f \in End : f # e => net'[f] = net[f] /\ wout'[f] = wout[f]
      BY <3>2
    <3>4. wout'[e].of = 0 /\ net'[e] = IF wout[e].of = 0 THEN net[e] ELSE Append(net[e], wout[e])
      BY <3>2 DEF NoOut
    <3> QED
      BY <3>3, <3>4 DEF Flight
  <2> QED
    BY <2>1, <2>2
<1>2. ASSUME NEW e \in End, NEW c, NEW kind PROVE Sent(e, c, kind)' = Sent(e, c, kind)
  <2>1. Flight(e)' = Flight(e)
    BY <1>1
  <2> QED
    BY <2>1 DEF Sent, KarmaUnits
<1> QED
  BY <1>1, <1>2

--------------------------------------------------------------------------------
(* What each end has told and heard, kept by the steps that say and hear   *)
(* nothing...                                                              *)
LEMMA LinkKept ==
  ASSUME ClientTypeOK, FlightInv, GoneInv,
         \A e \in End : /\ Flight(e)' = Flight(e) /\ ToldGone(e)' = ToldGone(e)
                        /\ HeardGone(e)' = HeardGone(e) /\ burned'[e] = burned[e]
                        /\ made'[e] \in Nat /\ made[e] <= made'[e]
  PROVE  FlightInv' /\ GoneInv'
<1>1. \A e \in End : Peer(e) \in End /\ made[e] \in Nat
  BY ClientFacts DEF ClientTypeOK
<1>2. \A e \in End : \A i \in DOMAIN Flight(e) : Flight(e)[i] \in Packet
  BY FlightType
<1>3. FlightInv'
  BY <1>1 DEF FlightInv, FlightOK
<1>4. GoneInv'
  BY <1>1 DEF GoneInv, GoneAt
<1> QED
  BY <1>3, <1>4

(* ...by those that take up a packet, which may say that a client is gone...*)
LEMMA LinkPut ==
  ASSUME ClientTypeOK, FlightInv, GoneInv, NEW e \in End, NEW p \in Packet,
         p.of # 0, p.of = made[e], made' = made, p.of \notin ToldGone(e), p.of \in Client,
         Flight(e)' = Append(Flight(e), p), Flight(Peer(e))' = Flight(Peer(e)),
         ToldGone(e)' = IF p.n = -1 THEN ToldGone(e) \cup {p.of} ELSE ToldGone(e),
         ToldGone(Peer(e))' = ToldGone(Peer(e)),
         \A f \in End : HeardGone(f)' = HeardGone(f),
         \A f \in End : burned'[f] = ToldGone(f)' \cap HeardGone(f)'
  PROVE  FlightInv' /\ GoneInv'
<1> DEFINE s == Flight(e)
           t == Append(s, p)
           m == made[e]
<1>1. /\ s \in Seq(Packet) /\ Len(s) \in Nat /\ DOMAIN s = 1..Len(s)
      /\ DOMAIN t = 1..(Len(s) + 1) /\ t[Len(s) + 1] = p /\ \A i \in 1..Len(s) : t[i] = s[i]
  BY FlightType
<1>2. m \in Nat /\ p.of \in 1..m /\ Peer(e) \in End /\ Peer(e) # e /\ Peer(Peer(e)) = e
      /\ \A f \in End : f = e \/ f = Peer(e)
  <2>1. m \in Nat
    BY ClientFacts DEF ClientTypeOK
  <2>2. p.of \in Nat /\ p.of >= 1 /\ p.of <= m
    BY ClientFacts, <2>1
  <2> QED
    BY <2>1, <2>2, ClientFacts
<1>3. /\ \A i \in DOMAIN s : /\ s[i].of \in 1..m /\ s[i].of \notin HeardGone(Peer(e))
                             /\ s[i].n = -1 => s[i].of \in ToldGone(e)
      /\ NamesRise(s)
  BY DEF FlightInv, FlightOK
<1>4. p.of \notin HeardGone(Peer(e))
  BY DEF GoneInv
<1>5. \A f \in End : made'[f] = made[f]
  OBVIOUS
<1> HIDE DEF s, t, m
<1>6. \A i \in DOMAIN t : /\ t[i].of \in 1..m /\ t[i].of \notin HeardGone(Peer(e))
                          /\ t[i].n = -1 => t[i].of \in ToldGone(e)'
  <2> SUFFICES ASSUME NEW i \in DOMAIN t
               PROVE /\ t[i].of \in 1..m /\ t[i].of \notin HeardGone(Peer(e))
                     /\ t[i].n = -1 => t[i].of \in ToldGone(e)'
    OBVIOUS
  <2>1. CASE i = Len(s) + 1
    BY <1>1, <1>2, <1>4, <2>1
  <2>2. CASE i # Len(s) + 1
    <3>1. i \in DOMAIN s /\ t[i] = s[i]
      BY <1>1, <2>2
    <3> QED
      BY <1>3, <3>1
  <2> QED
    BY <2>1, <2>2
<1>7. NamesRise(t)
  <2> SUFFICES ASSUME NEW i \in DOMAIN t, NEW j \in DOMAIN t, i < j
               PROVE IF t[i].n = -1 THEN t[i].of < t[j].of ELSE t[i].of <= t[j].of
    BY DEF NamesRise
  <2>1. i \in DOMAIN s /\ t[i] = s[i]
    BY <1>1
  <2>2. CASE j = Len(s) + 1
    <3>1. t[j] = p /\ p.of = m /\ s[i].of \in 1..m
      BY <1>1, <1>3, <2>1, <2>2 DEF m
    <3>2. s[i].n = -1 => s[i].of # m
      BY <1>3, <2>1, <3>1
    <3> QED
      BY <1>2, <2>1, <3>1, <3>2
  <2>3. CASE j # Len(s) + 1
    <3>1. j \in DOMAIN s /\ t[j] = s[j]
      BY <1>1, <2>3
    <3> QED
      BY <1>3, <2>1, <3>1 DEF NamesRise
  <2> QED
    BY <2>2, <2>3
<1>8. FlightInv'
  <2>1. Flight(e)' = t /\ made'[e] = m
    BY <1>5 DEF t, s, m
  <2>2. Flight(Peer(e))' = Flight(Peer(e)) /\ made'[Peer(e)] = made[Peer(e)]
    BY <1>2, <1>5
  <2>3. \A i \in DOMAIN Flight(Peer(e)) :
          /\ Flight(Peer(e))[i].of \in 1..made[Peer(e)]
          /\ Flight(Peer(e))[i].of \notin HeardGone(e)
          /\ Flight(Peer(e))[i].n = -1 => Flight(Peer(e))[i].of \in ToldGone(Peer(e))
    BY <1>2 DEF FlightInv, FlightOK
  <2>4. NamesRise(Flight(Peer(e)))
    BY <1>2 DEF FlightInv, FlightOK
  <2>5. HeardGone(e)' = HeardGone(e) /\ HeardGone(Peer(e))' = HeardGone(Peer(e))
    BY <1>2
  <2>6. FlightOK(e)'
    BY <1>2, <1>6, <1>7, <2>1, <2>5 DEF FlightOK
  <2>7. FlightOK(Peer(e))'
    BY <1>2, <2>2, <2>3, <2>4, <2>5 DEF FlightOK
  <2> QED
    BY <1>2, <2>6, <2>7 DEF FlightInv
<1>9. GoneInv'
  <2>1. \A f \in End : HeardGone(Peer(f))' \subseteq ToldGone(f)'
    BY <1>2 DEF GoneInv
  <2>2. ASSUME NEW c \in ToldGone(e)', c \notin HeardGone(Peer(e))'
        PROVE  \E i \in DOMAIN t : t[i].of = c /\ t[i].n = -1
    <3>1. CASE c \in ToldGone(e)
      <4>1. PICK i \in DOMAIN s : s[i].of = c /\ s[i].n = -1
        BY <1>2, <2>2, <3>1 DEF GoneInv, GoneAt, s
      <4> QED
        BY <1>1, <4>1
    <3>2. CASE c \notin ToldGone(e)
      <4>1. c = p.of /\ p.n = -1
        BY <2>2, <3>2
      <4> QED
        BY <1>1, <4>1
    <3> QED
      BY <3>1, <3>2
  <2>3. ASSUME NEW c \in ToldGone(Peer(e))', c \notin HeardGone(e)'
        PROVE  \E i \in DOMAIN Flight(Peer(e)) : Flight(Peer(e))[i].of = c /\ Flight(Peer(e))[i].n = -1
    BY <1>2, <2>3 DEF GoneInv, GoneAt
  <2>4. Flight(e)' = t /\ Flight(Peer(e))' = Flight(Peer(e))
    BY DEF t, s
  <2> QED
    BY <1>2, <2>1, <2>2, <2>3, <2>4 DEF GoneInv, GoneAt
<1> QED
  BY <1>8, <1>9

(* ...and by those that take one off the stream and may hear so.           *)
LEMMA LinkTake ==
  ASSUME ClientTypeOK, FlightInv, GoneInv, NEW e \in End,
         made' = made, Flight(e)' = Flight(e),
         Flight(Peer(e)) # <<>>, Flight(Peer(e))' = Tail(Flight(Peer(e))),
         \A f \in End : ToldGone(f)' = ToldGone(f),
         HeardGone(Peer(e))' = HeardGone(Peer(e)),
         HeardGone(e)' = IF Head(Flight(Peer(e))).n = -1
                         THEN HeardGone(e) \cup {Head(Flight(Peer(e))).of} ELSE HeardGone(e),
         \A f \in End : burned'[f] = ToldGone(f)' \cap HeardGone(f)'
  PROVE  FlightInv' /\ GoneInv'
<1> DEFINE s == Flight(Peer(e))
           t == Tail(s)
           m == made[Peer(e)]
<1>1. Peer(e) \in End /\ Peer(e) # e /\ Peer(Peer(e)) = e /\ \A f \in End : f = e \/ f = Peer(e)
  BY ClientFacts
<1>2. /\ s \in Seq(Packet) /\ Len(s) \in Nat /\ Len(s) > 0 /\ DOMAIN s = 1..Len(s) /\ Head(s) = s[1]
      /\ DOMAIN t = 1..(Len(s) - 1) /\ \A i \in 1..(Len(s) - 1) : t[i] = s[i + 1]
  BY <1>1, FlightType
<1>3. m \in Nat /\ \A i \in DOMAIN s : s[i].of \in Int
  BY <1>1 DEF ClientTypeOK, FlightInv, FlightOK
<1>4. /\ \A i \in DOMAIN s : /\ s[i].of \in 1..m /\ s[i].of \notin HeardGone(e)
                             /\ s[i].n = -1 => s[i].of \in ToldGone(Peer(e))
      /\ NamesRise(s)
  BY <1>1 DEF FlightInv, FlightOK
<1>5. HeardGone(e)' = IF s[1].n = -1 THEN HeardGone(e) \cup {s[1].of} ELSE HeardGone(e)
  BY <1>2
<1>6. Flight(Peer(e))' = t /\ made'[Peer(e)] = m /\ made'[e] = made[e]
  OBVIOUS
<1> HIDE DEF s, t, m
<1>7. \A i \in DOMAIN t : /\ t[i].of \in 1..m /\ t[i].of \notin HeardGone(e)'
                          /\ t[i].n = -1 => t[i].of \in ToldGone(Peer(e))
  <2> SUFFICES ASSUME NEW i \in DOMAIN t
               PROVE /\ t[i].of \in 1..m /\ t[i].of \notin HeardGone(e)'
                     /\ t[i].n = -1 => t[i].of \in ToldGone(Peer(e))
    OBVIOUS
  <2>1. i + 1 \in DOMAIN s /\ 1 \in DOMAIN s /\ 1 < i + 1 /\ t[i] = s[i + 1]
    BY <1>2
  <2>2. s[1].n = -1 => s[1].of # s[i + 1].of
    BY <1>3, <1>4, <2>1 DEF NamesRise
  <2> QED
    BY <1>4, <1>5, <2>1, <2>2
<1>8. NamesRise(t)
  <2> SUFFICES ASSUME NEW i \in DOMAIN t, NEW j \in DOMAIN t, i < j
               PROVE IF t[i].n = -1 THEN t[i].of < t[j].of ELSE t[i].of <= t[j].of
    BY DEF NamesRise
  <2>1. i + 1 \in DOMAIN s /\ j + 1 \in DOMAIN s /\ i + 1 < j + 1 /\ t[i] = s[i + 1] /\ t[j] = s[j + 1]
    BY <1>2
  <2> QED
    BY <1>4, <2>1 DEF NamesRise
<1>9. FlightInv'
  <2>1. \A i \in DOMAIN Flight(e) : /\ Flight(e)[i].of \in 1..made[e]
                                    /\ Flight(e)[i].of \notin HeardGone(Peer(e))
                                    /\ Flight(e)[i].n = -1 => Flight(e)[i].of \in ToldGone(e)
    BY DEF FlightInv, FlightOK
  <2>2. NamesRise(Flight(e))
    BY DEF FlightInv, FlightOK
  <2>3. FlightOK(e)'
    BY <1>1, <1>6, <2>1, <2>2 DEF FlightOK
  <2>4. FlightOK(Peer(e))'
    BY <1>1, <1>6, <1>7, <1>8 DEF FlightOK
  <2> QED
    BY <1>1, <2>3, <2>4 DEF FlightInv
<1>10. GoneInv'
  <2>1. \A f \in End : HeardGone(Peer(f))' \subseteq ToldGone(f)'
    <3>1. HeardGone(Peer(e))' \subseteq ToldGone(e)'
      BY DEF GoneInv
    <3>2. HeardGone(e)' \subseteq ToldGone(Peer(e))'
      <4>1. HeardGone(e) \subseteq ToldGone(Peer(e))
        BY <1>1 DEF GoneInv
      <4>2. s[1].n = -1 => s[1].of \in ToldGone(Peer(e))
        BY <1>2, <1>4
      <4> QED
        BY <1>1, <1>5, <4>1, <4>2
    <3> QED
      BY <1>1, <3>1, <3>2
  <2>2. ASSUME NEW c \in ToldGone(Peer(e)), c \notin HeardGone(e)'
        PROVE  \E i \in DOMAIN t : t[i].of = c /\ t[i].n = -1
    <3>1. c \notin HeardGone(e)
      BY <1>5, <2>2
    <3>2. PICK i \in DOMAIN s : s[i].of = c /\ s[i].n = -1
      BY <1>1, <2>2, <3>1 DEF GoneInv, GoneAt, s
    <3>3. i # 1
      BY <1>5, <2>2, <3>2
    <3>4. i - 1 \in DOMAIN t /\ t[i - 1] = s[(i - 1) + 1] /\ (i - 1) + 1 = i
      BY <1>2, <3>3
    <3> QED
      BY <3>2, <3>4
  <2>3. ASSUME NEW c \in ToldGone(e), c \notin HeardGone(Peer(e))
        PROVE  \E i \in DOMAIN Flight(e) : Flight(e)[i].of = c /\ Flight(e)[i].n = -1
    BY <2>3 DEF GoneInv, GoneAt
  <2> QED
    BY <1>1, <1>6, <2>1, <2>2, <2>3 DEF GoneInv, GoneAt
<1> QED
  BY <1>9, <1>10

--------------------------------------------------------------------------------
(* The client behind the id is the last one made, and is not burned.       *)
LEMMA CurrentClient ==
  ASSUME ClientTypeOK, NamesInv, SocketInv, NEW e \in End, client[e] # None
  PROVE  /\ client[e] \in Client /\ client[e] = made[e] /\ of[e][client[e]] = client[e]
         /\ client[e] \notin burned[e] /\ sock[e][client[e]] # "none"
<1>1. client[e] = made[e] /\ client[e] \in Client
  BY ClientFacts DEF ClientTypeOK, NamesInv, None, Client
<1>2. client[e] \in Nat /\ made[e] \in Nat /\ ~(client[e] > made[e])
  BY <1>1, ClientFacts
<1> QED
  BY <1>1, <1>2 DEF NamesInv, SocketInv, SocketOK

(* A client that is up is the one behind the id, and nothing has been said *)
(* of its end.                                                             *)
LEMMA LiveIsCurrent ==
  ASSUME ClientTypeOK, NamesInv, SocketInv, GoneInv, NEW e \in End, NEW c \in Client,
         sock[e][c] \in {"open", "connecting"}
  PROVE  /\ c = client[e] /\ c = made[e] /\ c # None /\ c # 0 /\ of[e][c] = c
         /\ c \notin ToldGone(e) /\ c \notin HeardGone(e) /\ c \notin burned[e]
         /\ rkarma[e][c] >= 0 /\ c \in 1..made["mux"]
<1>1. c \notin ToldGone(e)
  BY DEF ToldGone
<1>2. c \notin burned[e]
  BY <1>1 DEF GoneInv
<1>3. c \in Nat /\ made[e] \in Nat /\ c >= 1 /\ c # 0
  BY ClientFacts DEF ClientTypeOK
<1>4. ~(c > made[e])
  BY DEF SocketInv, SocketOK
<1>5. c <= made[e]
  BY <1>3, <1>4
<1>6. c = client[e]
  BY <1>2, <1>5 DEF NamesInv
<1>7. c = made[e] /\ c # None
  BY <1>3, <1>6 DEF NamesInv, None
<1>8. of[e][c] = c
  BY <1>5 DEF NamesInv
<1>9. c \notin HeardGone(e)
  BY <1>2 DEF HeardGone, SocketInv, SocketOK
<1>10. rkarma[e][c] >= 0
  <2>1. sock[e][c] = "open" => rkarma[e][c] >= 0
    BY DEF SocketInv, SocketOK
  <2>2. sock[e][c] = "connecting" => rkarma[e][c] = 0
    BY DEF SocketInv, SocketOK
  <2> QED
    BY <2>1, <2>2
<1>11. c \in 1..made["mux"]
  <2>1. made["mux"] \in Nat /\ made["demux"] \in Nat /\ made["demux"] <= made["mux"]
    BY DEF ClientTypeOK, NamesInv, End
  <2>2. made[e] <= made["mux"]
    BY <2>1 DEF End
  <2> QED
    BY <1>3, <1>5, <2>1, <2>2
<1> QED
  BY <1>1, <1>2, <1>3, <1>6, <1>7, <1>8, <1>9, <1>10, <1>11

(* The parts of the flow are natural numbers.                              *)
LEMMA FlowParts ==
  ASSUME ClientTypeOK, NEW e \in End, NEW c \in Client
  PROVE  /\ wkarma[e][c] \in Nat /\ out_sz[e][c] \in Nat
         /\ rkarma[e][c] \in Int /\ rkarma[e][c] >= -1 /\ Positive(rkarma[e][c]) \in Nat
         /\ Sent(e, c, "data") \in Nat /\ Sent(e, c, "ack") \in Nat
         /\ Held(e, c) \in Nat /\ Flow(e, c) \in Nat
<1>1. /\ \A f \in End : /\ wkarma[f][c] \in Nat /\ out_sz[f][c] \in Nat
                        /\ rkarma[f][c] \in Int /\ rkarma[f][c] >= -1
  BY ClientFacts DEF ClientTypeOK
<1>2. \A f \in End : Sent(f, c, "data") \in Nat /\ Sent(f, c, "ack") \in Nat
  BY FlightType
<1>3. \A f \in End : Positive(rkarma[f][c]) \in Nat
  BY <1>1 DEF Positive
<1>4. \A f \in End : Held(f, c) \in Nat
  BY <1>1, <1>3 DEF Held
<1>5. Peer(e) \in End
  BY ClientFacts
<1>6. Flow(e, c) \in Nat
  BY <1>1, <1>2, <1>4, <1>5 DEF Flow
<1> QED
  BY <1>1, <1>2, <1>3, <1>4, <1>6

(* There is room for what may come.                                        *)
LEMMA FlowRoom ==
  ASSUME ClientTypeOK, FlowInv, NEW e \in End, NEW c \in Client, c \in 1..made["mux"]
  PROVE  /\ wkarma[e][c] + Sent(Peer(e), c, "ack") <= K
         /\ Sent(Peer(e), c, "data") + out_sz[e][c] + Positive(rkarma[e][c]) <= K
<1>1. Peer(e) \in End /\ Peer(Peer(e)) = e /\ K \in Nat
  BY ClientFacts
<1>2. Flow(e, c) <= K /\ Flow(Peer(e), c) <= K
  BY <1>1 DEF FlowInv
<1>3. /\ wkarma[e][c] \in Nat /\ Sent(e, c, "data") \in Nat /\ Sent(e, c, "ack") \in Nat
      /\ out_sz[e][c] \in Nat /\ Positive(rkarma[e][c]) \in Nat /\ Held(e, c) \in Nat
  BY FlowParts
<1>4. /\ wkarma[Peer(e)][c] \in Nat /\ Sent(Peer(e), c, "data") \in Nat
      /\ Sent(Peer(e), c, "ack") \in Nat /\ Held(Peer(e), c) \in Nat
  BY <1>1, FlowParts
<1>5. wkarma[e][c] + Sent(e, c, "data") + Sent(Peer(e), c, "ack") + Held(Peer(e), c) <= K
  BY <1>2 DEF Flow
<1>6. wkarma[Peer(e)][c] + Sent(Peer(e), c, "data") + Sent(e, c, "ack") + Held(e, c) <= K
  BY <1>1, <1>2 DEF Flow
<1>7. wkarma[e][c] + Sent(Peer(e), c, "ack") <= K
  BY ONLY <1>1, <1>3, <1>4, <1>5
<1>8. Sent(Peer(e), c, "data") + Held(e, c) <= K
  BY ONLY <1>1, <1>3, <1>4, <1>6
<1> QED
  BY <1>3, <1>4, <1>7, <1>8 DEF Held

(* The flow is kept by a step that moves it about, or closes the client at *)
(* its end.                                                                *)
LEMMA FlowKept ==
  ASSUME ClientTypeOK, FlowInv, made'["mux"] = made["mux"],
         \A e \in End : \A c \in Client : c \in 1..made["mux"] =>
           \/ Flow(e, c)' = Flow(e, c) /\ (sock[Peer(e)][c] \in {"closed", "freed"}
                                             => sock'[Peer(e)][c] \in {"closed", "freed"})
           \/ Flow(e, c)' <= Flow(e, c) /\ Flow(e, c)' \in Int /\ sock'[Peer(e)][c] \in {"closed", "freed"}
  PROVE  FlowInv'
<1> SUFFICES ASSUME NEW e \in End, NEW c \in 1..made["mux"]
             PROVE  /\ Flow(e, c)' <= K
                    /\ sock'[Peer(e)][c] \notin {"closed", "freed"} => Flow(e, c)' = K
  BY DEF FlowInv
<1>1. c \in Client /\ K \in Nat
  BY ClientFacts DEF ClientTypeOK, Client, End
<1>2. Flow(e, c) \in Nat
  BY <1>1, FlowParts
<1>3. Flow(e, c) <= K /\ (sock[Peer(e)][c] \notin {"closed", "freed"} => Flow(e, c) = K)
  BY DEF FlowInv
<1> QED
  BY <1>1, <1>2, <1>3

(* The packet that has come is the first of those on the way.              *)
LEMMA FlightHead ==
  ASSUME ClientTypeOK, NEW e \in End, net[Peer(e)] # <<>>
  PROVE  /\ Incoming(e) \in Packet /\ Flight(Peer(e)) # <<>>
         /\ 1 \in DOMAIN Flight(Peer(e)) /\ Flight(Peer(e))[1] = Incoming(e)
<1> DEFINE s == net[Peer(e)]
           p == wout[Peer(e)]
<1>1. s \in Seq(Packet) /\ s # <<>> /\ p \in Packet
  BY ClientFacts DEF ClientTypeOK
<1>2. Flight(Peer(e)) = (IF p.of = 0 THEN s ELSE Append(s, p)) /\ Incoming(e) = Head(s)
  BY DEF Flight, Incoming
<1> HIDE DEF s, p
<1>3. /\ Head(s) \in Packet /\ 1 \in DOMAIN s /\ s[1] = Head(s)
      /\ Append(s, p) # <<>> /\ 1 \in DOMAIN Append(s, p) /\ Append(s, p)[1] = Head(s)
  BY <1>1
<1> QED
  BY <1>1, <1>2, <1>3

(* A packet that has come is for the client behind the id, or names one    *)
(* that is not made yet; the mux has nothing to read when it has none.     *)
LEMMA Incomer ==
  ASSUME ClientTypeOK, NamesInv, FlightInv, GoneInv, NEW e \in End, Arrived(e)
  PROVE  /\ Incoming(e) \in Packet /\ Incoming(e).of \in Client
         /\ Incoming(e).of \notin HeardGone(e)
         /\ Incoming(e).n = -1 => Incoming(e).of \in ToldGone(Peer(e))
         /\ client[e] # None => Incoming(e).of = client[e]
         /\ client[e] = None => /\ e = "demux" /\ Incoming(e).of = made[e] + 1
                                /\ made["mux"] = made[e] + 1 /\ made[e] + 1 \in Client
<1> DEFINE f == Peer(e)
           s == Flight(f)
           x == Incoming(e).of
<1>1. f \in End /\ f # e /\ Peer(f) = e
  BY ClientFacts
<1>2. Incoming(e) \in Packet /\ 1 \in DOMAIN s /\ s[1] = Incoming(e)
  BY FlightHead DEF Arrived
<1>3. /\ made["mux"] \in Nat /\ made["demux"] \in Nat /\ made["mux"] <= Uses /\ Uses \in Nat
      /\ made["demux"] <= made["mux"] /\ made["mux"] <= made["demux"] + 1
  BY ClientFacts DEF ClientTypeOK, NamesInv, End
<1>4. /\ x \in 1..made[f] /\ x \notin HeardGone(e)
      /\ Incoming(e).n = -1 => x \in ToldGone(f)
  BY <1>1, <1>2 DEF FlightInv, FlightOK
<1>5. (e = "demux" /\ f = "mux") \/ (e = "mux" /\ f = "demux")
  BY DEF Peer, End
<1>6. x \in Nat /\ x >= 1 /\ x <= made[f] /\ x <= made["mux"] /\ x \in Client
  BY <1>3, <1>4, <1>5 DEF Client
<1>7. x <= made[e] => x = client[e]
  BY <1>4, <1>6 DEF NamesInv, HeardGone
<1>8. x > made[e] => e = "demux" /\ x = made["demux"] + 1 /\ made["mux"] = made["demux"] + 1
  BY <1>3, <1>5, <1>6
<1>9. x > made[e] => client[e] = None
  <2> SUFFICES ASSUME x > made[e], client[e] # None PROVE FALSE
    OBVIOUS
  <2> DEFINE d == made["demux"]
  <2>1. e = "demux" /\ f = "mux" /\ x = d + 1 /\ made["mux"] = d + 1
    BY <1>5, <1>8
  <2>2. client["demux"] = d /\ d # 0
    BY <2>1 DEF NamesInv, None
  <2>3. d \in Client /\ d <= made["mux"] /\ d <= made["demux"]
    BY <1>3, <2>1, <2>2 DEF Client
  <2>4. d # client["mux"]
    BY <1>3, <2>1, <2>2 DEF NamesInv, None, End
  <2>5. d \in burned["mux"] /\ d \notin burned["demux"]
    BY <2>2, <2>3, <2>4 DEF NamesInv, End
  <2>6. d \in ToldGone("mux") /\ d \in HeardGone("mux")
    BY <2>5 DEF GoneInv, End
  <2>7. d \in ToldGone("demux")
    BY <2>6 DEF GoneInv, End, Peer
  <2>8. d \notin HeardGone("demux")
    BY <2>5, <2>7 DEF GoneInv, End
  <2>9. PICK i \in DOMAIN s : s[i].of = d
    BY <2>1, <2>6, <2>8 DEF GoneInv, End, Peer, GoneAt
  <2>10. DOMAIN s = 1..Len(s) /\ Len(s) \in Nat
    BY <1>1, FlightType
  <2>11. i = 1 \/ 1 < i
    BY <2>10
  <2>12. 1 < i => x <= s[i].of
    BY <1>1, <1>2, <1>3, <1>6, <2>9, <2>10 DEF FlightInv, FlightOK, NamesRise
  <2> HIDE DEF d, x, s
  <2>13. i # 1
    BY <1>2, <1>3, <2>1, <2>9 DEF x, d
  <2>14. d \in Nat
    BY <1>3 DEF d
  <2> QED
    BY <2>1, <2>9, <2>11, <2>12, <2>13, <2>14
<1>10. made[e] \in Nat
  BY <1>3, <1>5
<1>11. client[e] = None => x > made[e]
  BY <1>6, <1>7, <1>10 DEF None
<1>12. client[e] # None => x = client[e]
  BY <1>6, <1>7, <1>9, <1>10
<1>13. client[e] = None => /\ e = "demux" /\ x = made[e] + 1
                           /\ made["mux"] = made[e] + 1 /\ made[e] + 1 \in Client
  BY <1>6, <1>8, <1>11
<1> QED
  BY <1>2, <1>4, <1>6, <1>12, <1>13

--------------------------------------------------------------------------------
(* The write queue stays one, and the control client in it.                *)
LEMMA PushWriterKeeps ==
  ASSUME NEW q \in Seq(Client \cup {Control}), NEW c \in Client \cup {Control}
  PROVE  /\ PushWriter(q, c) \in Seq(Client \cup {Control})
         /\ Queues(q, Control) => Queues(PushWriter(q, c), Control)
         /\ Queues(PushWriter(q, c), c)
<1>1. CASE c \in Range(q)
  BY <1>1 DEF PushWriter, Range, Queues
<1>2. CASE c \notin Range(q)
  <2> DEFINE t == Append(q, c)
  <2>1. /\ PushWriter(q, c) = t /\ t \in Seq(Client \cup {Control})
        /\ DOMAIN t = 1..(Len(q) + 1) /\ DOMAIN q = 1..Len(q) /\ Len(q) \in Nat
        /\ t[Len(q) + 1] = c /\ \A i \in 1..Len(q) : t[i] = q[i]
    BY <1>2 DEF PushWriter
  <2> HIDE DEF t
  <2>2. Len(q) + 1 \in DOMAIN t /\ \A i \in 1..Len(q) : i \in DOMAIN t
    BY <2>1
  <2>3. Queues(t, c)
    BY <2>1, <2>2 DEF Queues
  <2>4. Queues(q, Control) => Queues(t, Control)
    BY <2>1, <2>2 DEF Queues
  <2> QED
    BY <2>1, <2>3, <2>4
<1> QED
  BY <1>1, <1>2

(* A client put behind the queue leaves the control client in it.          *)
LEMMA AppendKeeps ==
  ASSUME NEW q \in Seq(Client \cup {Control}), NEW c \in Client \cup {Control}
  PROVE  /\ Append(q, c) \in Seq(Client \cup {Control})
         /\ Queues(q, Control) => Queues(Append(q, c), Control)
<1>1. /\ DOMAIN Append(q, c) = 1..(Len(q) + 1) /\ DOMAIN q = 1..Len(q) /\ Len(q) \in Nat
      /\ \A i \in 1..Len(q) : Append(q, c)[i] = q[i]
  OBVIOUS
<1>2. \A i \in 1..Len(q) : i \in DOMAIN Append(q, c)
  BY <1>1
<1> QED
  BY <1>1, <1>2 DEF Queues

(* So does another one that leaves.                                        *)
LEMMA TailKeeps ==
  ASSUME NEW q \in Seq(Client \cup {Control}), q # <<>>
  PROVE  /\ Tail(q) \in Seq(Client \cup {Control}) /\ Head(q) \in Client \cup {Control}
         /\ Head(q) # Control /\ Queues(q, Control) => Queues(Tail(q), Control)
<1>1. /\ Tail(q) \in Seq(Client \cup {Control}) /\ Len(q) \in Nat /\ Head(q) = q[1]
      /\ Head(q) \in Client \cup {Control}
      /\ DOMAIN q = 1..Len(q) /\ DOMAIN Tail(q) = 1..(Len(q) - 1)
      /\ \A i \in 1..(Len(q) - 1) : Tail(q)[i] = q[i + 1]
  OBVIOUS
<1>2. ASSUME Head(q) # Control, Queues(q, Control) PROVE Queues(Tail(q), Control)
  <2>1. PICK i \in DOMAIN q : q[i] = Control
    BY <1>2 DEF Queues
  <2>2. i # 1
    BY <1>1, <1>2, <2>1
  <2>3. i - 1 \in DOMAIN Tail(q) /\ (i - 1) + 1 = i /\ i - 1 \in 1..(Len(q) - 1)
    BY <1>1, <2>2
  <2>4. Tail(q)[i - 1] = Control
    BY <1>1, <2>1, <2>3
  <2> QED
    BY <2>3, <2>4 DEF Queues
<1> QED
  BY <1>1, <1>2

(* set_rkarma of the client behind the id keeps it queued when it should   *)
(* be.                                                                     *)
LEMMA KarmaSet ==
  ASSUME ClientTypeOK, KarmaQueueInv, NEW e \in End, NEW c \in Client, NEW r \in -1..K,
         NEW q \in Seq(Client \cup {Control}), client' = client, c = client[e], c # None,
         SetRkarma(e, c, r, q), Tellable(rkarma[e][c]) => Tellable(r),
         Queues(wq[e], Control) => Queues(q, Control)
  PROVE  /\ KarmaQueueInv'
         /\ rkarma' \in [End -> [Client -> -1..K]]
         /\ rkarma'[e][c] = r
         /\ \A f \in End, d \in Client : (f # e \/ d # c) => rkarma'[f][d] = rkarma[f][d]
         /\ wq' \in [End -> Seq(Client \cup {Control})] /\ kq' \in [End -> Seq(Client)]
<1> DEFINE joins == ~Tellable(rkarma[e][c]) /\ Tellable(r)
<1>1. /\ rkarma \in [End -> [Client -> -1..K]]
      /\ wq \in [End -> Seq(Client \cup {Control})] /\ kq \in [End -> Seq(Client)]
  BY DEF ClientTypeOK
<1>2. /\ rkarma' = [rkarma EXCEPT ![e][c] = r]
      /\ kq' = IF joins THEN [kq EXCEPT ![e] = Append(@, c)] ELSE kq
      /\ wq' = [wq EXCEPT ![e] = IF joins /\ kq[e] = <<>> THEN PushWriter(q, Control) ELSE q]
  BY DEF SetRkarma
<1>3. kq[e] = IF Tellable(rkarma[e][c]) THEN <<c>> ELSE <<>>
  BY DEF KarmaQueueInv, KarmaQueueOK
<1>4. kq[e] # <<>> => Queues(wq[e], Control)
  BY DEF KarmaQueueInv, KarmaQueueOK
<1>5. /\ rkarma' \in [End -> [Client -> -1..K]] /\ rkarma'[e][c] = r
      /\ \A f \in End, d \in Client : (f # e \/ d # c) => rkarma'[f][d] = rkarma[f][d]
  BY <1>1, <1>2
<1>6. /\ PushWriter(q, Control) \in Seq(Client \cup {Control})
      /\ Queues(PushWriter(q, Control), Control)
  BY PushWriterKeeps
<1>7. /\ wq' \in [End -> Seq(Client \cup {Control})]
      /\ wq'[e] = (IF joins /\ kq[e] = <<>> THEN PushWriter(q, Control) ELSE q)
      /\ \A f \in End : f # e => wq'[f] = wq[f]
  BY <1>1, <1>2, <1>6
<1>8. kq' \in [End -> Seq(Client)] /\ \A f \in End : f # e => kq'[f] = kq[f]
  BY <1>1, <1>2
<1>9. kq'[e] = IF joins THEN Append(kq[e], c) ELSE kq[e]
  BY <1>1, <1>2
<1>10. Append(<<>>, c) = <<c>>
  OBVIOUS
<1>11. kq'[e] = IF Tellable(r) THEN <<c>> ELSE <<>>
  BY <1>3, <1>9, <1>10
<1>12. kq'[e] # <<>> => Queues(wq'[e], Control)
  <2>1. CASE joins
    BY <1>3, <1>6, <1>7, <2>1
  <2>2. CASE ~joins
    <3>1. wq'[e] = q /\ kq'[e] = kq[e]
      BY <1>7, <1>9, <2>2
    <3> QED
      BY <1>4, <3>1
  <2> QED
    BY <2>1, <2>2
<1>13. KarmaQueueOK(e)'
  BY <1>5, <1>11, <1>12 DEF KarmaQueueOK, Tellable
<1>14. ASSUME NEW f \in End, f # e PROVE KarmaQueueOK(f)'
  <2>1. kq'[f] = kq[f] /\ wq'[f] = wq[f] /\ rkarma'[f] = rkarma[f]
    BY <1>1, <1>2, <1>7, <1>8, <1>14
  <2>2. KarmaQueueOK(f)
    BY DEF KarmaQueueInv
  <2> QED
    BY <2>1, <2>2 DEF KarmaQueueOK, Tellable
<1> QED
  BY <1>5, <1>7, <1>8, <1>13, <1>14 DEF KarmaQueueInv

(* The karma queue is kept when only the write queue changes and keeps the *)
(* control client.                                                         *)
LEMMA QueueKept ==
  ASSUME KarmaQueueInv, UNCHANGED <<client, rkarma, kq>>,
         \A e \in End : Queues(wq[e], Control) => Queues(wq'[e], Control)
  PROVE  KarmaQueueInv'
<1> SUFFICES ASSUME NEW e \in End PROVE KarmaQueueOK(e)'
  BY DEF KarmaQueueInv
<1>1. KarmaQueueOK(e)
  BY DEF KarmaQueueInv
<1> QED
  BY <1>1 DEF KarmaQueueOK, Tellable

--------------------------------------------------------------------------------
(* What the sockets say is kept by a step that changes one client and      *)
(* keeps it for that one.                                                  *)
LEMMA SocketKept ==
  ASSUME SocketInv, NEW e \in End, NEW c \in Client, made' = made, SocketOK(e, c)',
         \A f \in End, d \in Client : (f # e \/ d # c) =>
           /\ sock'[f][d] = sock[f][d] /\ wkarma'[f][d] = wkarma[f][d]
           /\ rkarma'[f][d] = rkarma[f][d] /\ out_sz'[f][d] = out_sz[f][d]
           /\ d \in rdead'[f] <=> d \in rdead[f],
         \A f \in End : burned[f] \subseteq burned'[f]
  PROVE  SocketInv'
<1> SUFFICES ASSUME NEW f \in End, NEW d \in Client, f # e \/ d # c PROVE SocketOK(f, d)'
  BY DEF SocketInv
<1>1. SocketOK(f, d)
  BY DEF SocketInv
<1>2. /\ sock'[f][d] = sock[f][d] /\ wkarma'[f][d] = wkarma[f][d]
      /\ rkarma'[f][d] = rkarma[f][d] /\ out_sz'[f][d] = out_sz[f][d]
      /\ d \in rdead'[f] <=> d \in rdead[f]
  OBVIOUS
<1>3. d \in burned[f] => d \in burned'[f]
  OBVIOUS
<1>4. made'[f] = made[f]
  OBVIOUS
<1> QED
  BY ONLY <1>1, <1>2, <1>3, <1>4 DEF SocketOK

(* A step that changes nothing of the clients keeps what holds of them.    *)
LEMMA ClientQuiet ==
  ASSUME ClientsInv, ClientTypeOK', PacketsInv', IdReuse',
         UNCHANGED <<tables, sock, rdead, burned, wkarma, rkarma, out_sz, kq>>,
         (UNCHANGED <<net, wout>>) \/ (\E e \in End : WriteOut(e)),
         \A e \in End : Queues(wq[e], Control) => Queues(wq'[e], Control)
  PROVE  ClientsInv'
<1> USE DEF tables
<1>0. ClientTypeOK /\ NamesInv /\ SocketInv /\ KarmaQueueInv /\ FlightInv /\ GoneInv /\ FlowInv
  BY DEF ClientsInv
<1>1. /\ \A e \in End : Flight(e)' = Flight(e)
      /\ \A e \in End : \A c, kind : Sent(e, c, kind)' = Sent(e, c, kind)
  BY <1>0, FlightKept
<1>2. NamesInv'
  BY <1>0 DEF NamesInv
<1>3. SocketInv'
  BY <1>0 DEF SocketInv, SocketOK
<1>4. KarmaQueueInv'
  BY <1>0, QueueKept
<1>5. FlightInv' /\ GoneInv'
  <2>1. \A e \in End : /\ ToldGone(e)' = ToldGone(e) /\ HeardGone(e)' = HeardGone(e)
                       /\ burned'[e] = burned[e]
    BY DEF ToldGone, HeardGone
  <2>2. \A e \in End : made'[e] \in Nat /\ made[e] <= made'[e]
    BY <1>0 DEF ClientTypeOK
  <2> QED
    BY <1>0, <1>1, <2>1, <2>2, LinkKept
<1>6. FlowInv'
  <2>1. ASSUME NEW e \in End, NEW c PROVE Flow(e, c)' = Flow(e, c)
    <3>1. Peer(e) \in End
      BY ClientFacts
    <3> QED
      BY <1>1, <3>1 DEF Flow, Held, Positive
  <2> QED
    BY <1>0, <2>1 DEF FlowInv
<1> QED
  BY <1>2, <1>3, <1>4, <1>5, <1>6 DEF ClientsInv

(* Readable keeps the invariant.                                           *)
LEMMA ReadableStep == ASSUME ClientsInv, NEW e \in End, NEW c \in Client, Readable(e, c) PROVE ClientsInv'
<1>1. ClientTypeOK /\ PacketsInv /\ IdReuse
  BY DEF ClientsInv
<1>2. /\ wq' = [wq EXCEPT ![e] = PushWriter(@, c)]
      /\ UNCHANGED <<tables, state, wout, net, busy, error>>
  BY DEF Readable
<1>3. \A f \in End : wq[f] \in Seq(Client \cup {Control})
  BY <1>1 DEF ClientTypeOK
<1>4. /\ PushWriter(wq[e], c) \in Seq(Client \cup {Control})
      /\ Queues(wq[e], Control) => Queues(PushWriter(wq[e], c), Control)
  BY <1>3, PushWriterKeeps
<1>5. wq'[e] = PushWriter(wq[e], c) /\ \A f \in End : f # e => wq'[f] = wq[f]
  BY <1>1, <1>2 DEF ClientTypeOK
<1>6. wq' \in [End -> Seq(Client \cup {Control})]
  BY <1>1, <1>2, <1>4 DEF ClientTypeOK
<1>7. ClientTypeOK'
  BY <1>1, <1>2, <1>6 DEF ClientTypeOK, tables, state
<1>8. PacketsInv' /\ IdReuse'
  BY <1>1, <1>2 DEF PacketsInv, IdReuse
<1>9. \A f \in End : Queues(wq[f], Control) => Queues(wq'[f], Control)
  BY <1>4, <1>5
<1> QED
  BY <1>2, <1>7, <1>8, <1>9, ClientQuiet DEF state

(* PushControl keeps the invariant.                                        *)
LEMMA PushControlStep == ASSUME ClientsInv, NEW e \in End, PushControl(e) PROVE ClientsInv'
<1>1. ClientTypeOK /\ PacketsInv /\ IdReuse
  BY DEF ClientsInv
<1>2. /\ wq' = [wq EXCEPT ![e] = PushWriter(@, Control)]
      /\ UNCHANGED <<tables, state, wout, net, busy, error>>
  BY DEF PushControl
<1>3. \A f \in End : wq[f] \in Seq(Client \cup {Control})
  BY <1>1 DEF ClientTypeOK
<1>4. /\ PushWriter(wq[e], Control) \in Seq(Client \cup {Control})
      /\ Queues(wq[e], Control) => Queues(PushWriter(wq[e], Control), Control)
  BY <1>3, PushWriterKeeps
<1>5. wq'[e] = PushWriter(wq[e], Control) /\ \A f \in End : f # e => wq'[f] = wq[f]
  BY <1>1, <1>2 DEF ClientTypeOK
<1>6. wq' \in [End -> Seq(Client \cup {Control})]
  BY <1>1, <1>2, <1>4 DEF ClientTypeOK
<1>7. ClientTypeOK'
  BY <1>1, <1>2, <1>6 DEF ClientTypeOK, tables, state
<1>8. PacketsInv' /\ IdReuse'
  BY <1>1, <1>2 DEF PacketsInv, IdReuse
<1>9. \A f \in End : Queues(wq[f], Control) => Queues(wq'[f], Control)
  BY <1>4, <1>5
<1> QED
  BY <1>2, <1>7, <1>8, <1>9, ClientQuiet DEF state

(* A step of mainw's loop that passes over a client keeps it.              *)
LEMMA PassedOver ==
  ASSUME ClientsInv, NEW e \in End, wq[e] # <<>>, Head(wq[e]) # Control,
         wq' = [wq EXCEPT ![e] = Tail(@)], LoopOn(e),
         error' \in {error, "freed", "stuck"}, UNCHANGED <<tables, state, wout, net>>
  PROVE  ClientsInv'
<1>1. ClientTypeOK /\ PacketsInv /\ IdReuse
  BY DEF ClientsInv
<1>2. \A f \in End : wq[f] \in Seq(Client \cup {Control})
  BY <1>1 DEF ClientTypeOK
<1>3. /\ Tail(wq[e]) \in Seq(Client \cup {Control})
      /\ Queues(wq[e], Control) => Queues(Tail(wq[e]), Control)
  BY <1>2, TailKeeps
<1>4. wq'[e] = Tail(wq[e]) /\ \A f \in End : f # e => wq'[f] = wq[f]
  BY <1>1 DEF ClientTypeOK
<1>5. wq' \in [End -> Seq(Client \cup {Control})]
  BY <1>1, <1>3 DEF ClientTypeOK
<1>6. busy' \in [End -> {"no", "loop", "take"}]
  BY <1>1 DEF ClientTypeOK, LoopOn
<1>7. ClientTypeOK'
  BY <1>1, <1>5, <1>6 DEF ClientTypeOK, tables, state
<1>8. PacketsInv' /\ IdReuse'
  BY <1>1 DEF PacketsInv, IdReuse
<1>9. \A f \in End : Queues(wq[f], Control) => Queues(wq'[f], Control)
  BY <1>3, <1>4
<1> QED
  BY <1>7, <1>8, <1>9, ClientQuiet DEF state

(* GrabDead keeps the invariant.                                           *)
LEMMA GrabDeadStep == ASSUME ClientsInv, NEW e \in End, GrabDead(e) PROVE ClientsInv'
<1>1. /\ wq[e] # <<>> /\ Head(wq[e]) # Control /\ wq' = [wq EXCEPT ![e] = Tail(@)] /\ LoopOn(e)
      /\ error' \in {error, "freed", "stuck"} /\ UNCHANGED <<tables, state, wout, net>>
  BY DEF GrabDead, GrabTest
<1> QED
  BY <1>1, PassedOver

(* GrabStuck keeps the invariant.                                          *)
LEMMA GrabStuckStep == ASSUME ClientsInv, NEW e \in End, GrabStuck(e) PROVE ClientsInv'
<1>1. /\ wq[e] # <<>> /\ Head(wq[e]) # Control /\ wq' = [wq EXCEPT ![e] = Tail(@)] /\ LoopOn(e)
      /\ error' \in {error, "freed", "stuck"} /\ UNCHANGED <<tables, state, wout, net>>
  BY DEF GrabStuck, GrabTest
<1> QED
  BY <1>1, PassedOver

(* No packet is a packet too.                                              *)
LEMMA NoOutPacket == NoOut \in Packet /\ NoOut.of = 0 /\ NoOut.kind # "data"
BY ClientFacts DEF NoOut, Packet

(* WriteOut keeps the invariant.                                           *)
LEMMA WriteOutStep == ASSUME ClientsInv, NEW e \in End, WriteOut(e) PROVE ClientsInv'
<1>1. ClientTypeOK /\ PacketsInv /\ IdReuse
  BY DEF ClientsInv
<1>2. /\ net' = [net EXCEPT ![e] = IF wout[e].of = 0 THEN @ ELSE Append(@, wout[e])]
      /\ wout' = [wout EXCEPT ![e] = NoOut] /\ UNCHANGED wq /\ LoopOn(e)
      /\ UNCHANGED <<tables, state, error>>
  BY DEF WriteOut
<1>3. net[e] \in Seq(Packet) /\ wout[e] \in Packet /\ NoOut \in Packet
  BY <1>1, NoOutPacket DEF ClientTypeOK
<1>4. busy' \in [End -> {"no", "loop", "take"}]
  BY <1>1, <1>2 DEF ClientTypeOK, LoopOn
<1>5. Append(net[e], wout[e]) \in Seq(Packet)
  BY <1>3
<1>6. net' \in [End -> Seq(Packet)] /\ wout' \in [End -> Packet]
  BY <1>1, <1>2, <1>3, <1>5 DEF ClientTypeOK
<1>7. ClientTypeOK'
  BY <1>1, <1>2, <1>4, <1>6 DEF ClientTypeOK, tables, state
<1>8. PacketsInv'
  <2>1. net'[e] = (IF wout[e].of = 0 THEN net[e] ELSE Append(net[e], wout[e])) /\ wout'[e] = NoOut
    BY <1>1, <1>2 DEF ClientTypeOK
  <2>2. \A f \in End : f # e => net'[f] = net[f] /\ wout'[f] = wout[f]
    BY <1>1, <1>2 DEF ClientTypeOK
  <2>3. ASSUME NEW i \in DOMAIN net'[e], wout[e].of # 0
        PROVE  net'[e][i] = wout[e] \/ \E j \in DOMAIN net[e] : net'[e][i] = net[e][j]
    BY <1>3, <2>1, <2>3
  <2>4. /\ \A i \in DOMAIN net[e] : net[e][i].of # 0 /\ (net[e][i].kind = "data" => net[e][i].n > 0)
        /\ wout[e].kind = "data" => wout[e].n > 0
    BY <1>1 DEF PacketsInv
  <2>5. \A i \in DOMAIN net'[e] : net'[e][i].of # 0 /\ (net'[e][i].kind = "data" => net'[e][i].n > 0)
    BY <2>1, <2>3, <2>4
  <2>6. NoOut.kind # "data"
    BY DEF NoOut
  <2> QED
    BY <1>1, <2>1, <2>2, <2>5, <2>6 DEF PacketsInv
<1>9. IdReuse' /\ \A f \in End : Queues(wq[f], Control) => Queues(wq'[f], Control)
  BY <1>1, <1>2 DEF IdReuse
<1> QED
  BY <1>2, <1>7, <1>8, <1>9, ClientQuiet DEF state

--------------------------------------------------------------------------------
(* A step at one end that moves no packet and says nothing keeps the       *)
(* invariant when it keeps what the clients hold.                          *)
LEMMA ClientChange ==
  ASSUME ClientsInv, ClientTypeOK', SocketInv', KarmaQueueInv', IdReuse',
         UNCHANGED <<tables, rdead, burned, wkarma, wout, net>>,
         \A e \in End : ToldGone(e)' = ToldGone(e),
         \A e \in End, c \in Client :
           \/ Held(e, c)' = Held(e, c) /\ (sock[e][c] \in {"closed", "freed"}
                                             => sock'[e][c] \in {"closed", "freed"})
           \/ Held(e, c)' <= Held(e, c) /\ sock'[e][c] \in {"closed", "freed"}
  PROVE  ClientsInv'
<1> USE DEF tables
<1>0. ClientTypeOK /\ NamesInv /\ FlightInv /\ GoneInv /\ FlowInv /\ PacketsInv
  BY DEF ClientsInv
<1>1. /\ \A e \in End : Flight(e)' = Flight(e)
      /\ \A e \in End : \A c, kind : Sent(e, c, kind)' = Sent(e, c, kind)
  BY <1>0, FlightKept
<1>2. NamesInv'
  BY <1>0 DEF NamesInv
<1>3. PacketsInv'
  BY <1>0 DEF PacketsInv
<1>4. FlightInv' /\ GoneInv'
  <2>1. \A e \in End : HeardGone(e)' = HeardGone(e) /\ burned'[e] = burned[e]
    BY DEF HeardGone
  <2>2. \A e \in End : made'[e] \in Nat /\ made[e] <= made'[e]
    BY <1>0 DEF ClientTypeOK
  <2> QED
    BY <1>0, <1>1, <2>1, <2>2, LinkKept
<1>5. FlowInv'
  <2>1. ASSUME NEW e \in End, NEW c \in Client
        PROVE  \/ Flow(e, c)' = Flow(e, c) /\ (sock[Peer(e)][c] \in {"closed", "freed"}
                                                 => sock'[Peer(e)][c] \in {"closed", "freed"})
               \/ Flow(e, c)' <= Flow(e, c) /\ Flow(e, c)' \in Int
                    /\ sock'[Peer(e)][c] \in {"closed", "freed"}
    <3> DEFINE f == Peer(e)
               a == wkarma[e][c] + Sent(e, c, "data") + Sent(f, c, "ack")
    <3>1. f \in End
      BY ClientFacts
    <3>2. a \in Nat /\ Held(f, c) \in Nat
      <4>1. wkarma[e][c] \in Nat /\ Sent(e, c, "data") \in Nat
        BY <1>0, FlowParts
      <4>2. Sent(f, c, "ack") \in Nat /\ Held(f, c) \in Nat
        BY <1>0, <3>1, FlowParts
      <4> QED
        BY <4>1, <4>2
    <3>3. Held(f, c)' \in Nat
      <4>1. out_sz'[f][c] \in Nat /\ rkarma'[f][c] \in Int
        BY <3>1, ClientFacts DEF ClientTypeOK
      <4> QED
        BY <4>1 DEF Held, Positive
    <3>4. Flow(e, c) = a + Held(f, c) /\ Flow(e, c)' = a + Held(f, c)'
      BY <1>1, <3>1 DEF Flow
    <3>5. \/ Held(f, c)' = Held(f, c) /\ (sock[f][c] \in {"closed", "freed"}
                                             => sock'[f][c] \in {"closed", "freed"})
          \/ Held(f, c)' <= Held(f, c) /\ sock'[f][c] \in {"closed", "freed"}
      BY <3>1
    <3> HIDE DEF f, a
    <3>6. Held(f, c)' <= Held(f, c) => a + Held(f, c)' <= a + Held(f, c) /\ a + Held(f, c)' \in Int
      BY <3>2, <3>3
    <3> QED
      BY <3>4, <3>5, <3>6 DEF f
  <2>2. made'["mux"] = made["mux"]
    OBVIOUS
  <2> QED
    BY <1>0, <2>1, <2>2, FlowKept
<1> QED
  BY <1>2, <1>3, <1>4, <1>5 DEF ClientsInv

(* disconnect_client of a client that is up: it is closed, has that to     *)
(* tell, and has not told it.                                              *)
LEMMA Disconnects ==
  ASSUME ClientsInv, NEW e \in End, NEW c \in Client, sock[e][c] \in {"open", "connecting"},
         NEW q \in Seq(Client \cup {Control}), client' = client, Disconnect(e, c, q),
         Queues(wq[e], Control) => Queues(q, Control)
  PROVE  /\ KarmaQueueInv'
         /\ sock' \in [End -> [Client -> {"none", "connecting", "open", "stuck", "closed", "freed"}]]
         /\ rkarma' \in [End -> [Client -> -1..K]]
         /\ wq' \in [End -> Seq(Client \cup {Control})] /\ kq' \in [End -> Seq(Client)]
         /\ sock'[e][c] = "closed" /\ rkarma'[e][c] = -1
         /\ \A f \in End, d \in Client : (f # e \/ d # c) =>
              sock'[f][d] = sock[f][d] /\ rkarma'[f][d] = rkarma[f][d]
         /\ \A f \in End : ToldGone(f)' = ToldGone(f)
<1>0. ClientTypeOK /\ NamesInv /\ SocketInv /\ KarmaQueueInv /\ GoneInv
  BY DEF ClientsInv
<1>1. /\ sock' = [sock EXCEPT ![e][c] = "closed"] /\ SetRkarma(e, c, -1, q)
  BY DEF Disconnect
<1>2. c = client[e] /\ c # None /\ c \notin ToldGone(e)
  BY <1>0, LiveIsCurrent
<1>3. -1 \in -1..K /\ Tellable(-1)
  BY ClientFacts DEF Tellable
<1>4. /\ KarmaQueueInv'
      /\ rkarma' \in [End -> [Client -> -1..K]]
      /\ rkarma'[e][c] = -1
      /\ \A f \in End, d \in Client : (f # e \/ d # c) => rkarma'[f][d] = rkarma[f][d]
      /\ wq' \in [End -> Seq(Client \cup {Control})] /\ kq' \in [End -> Seq(Client)]
  BY <1>0, <1>1, <1>2, <1>3, KarmaSet
<1>5. /\ sock' \in [End -> [Client -> {"none", "connecting", "open", "stuck", "closed", "freed"}]]
      /\ sock'[e][c] = "closed"
      /\ \A f \in End, d \in Client : (f # e \/ d # c) => sock'[f][d] = sock[f][d]
  BY <1>0, <1>1 DEF ClientTypeOK
<1>6. ASSUME NEW f \in End, NEW d \in Client PROVE d \in ToldGone(f)' <=> d \in ToldGone(f)
  <2>1. CASE f = e /\ d = c
    BY <1>2, <1>4, <2>1 DEF ToldGone
  <2>2. CASE f # e \/ d # c
    BY <1>4, <1>5, <2>2 DEF ToldGone
  <2> QED
    BY <2>1, <2>2
<1>7. \A f \in End : ToldGone(f)' = ToldGone(f)
  <2>1. \A f \in End : ToldGone(f) \subseteq Client /\ ToldGone(f)' \subseteq Client
    BY DEF ToldGone
  <2> QED
    BY <1>6, <2>1
<1> QED
  BY <1>4, <1>5, <1>7

(* clientw of a client that is up, with n bytes kept for it: some of them  *)
(* become karma, or it is disconnected.                                    *)
LEMMA ClientWrites ==
  ASSUME ClientsInv, NEW e \in End, NEW c \in Client, sock[e][c] = "open", NEW n \in 0..K,
         n + Positive(rkarma[e][c]) <= K, client' = client, ClientW(e, c, n)
  PROVE  /\ KarmaQueueInv'
         /\ sock' \in [End -> [Client -> {"none", "connecting", "open", "stuck", "closed", "freed"}]]
         /\ rkarma' \in [End -> [Client -> -1..K]] /\ out_sz' \in [End -> [Client -> 0..K]]
         /\ wq' \in [End -> Seq(Client \cup {Control})] /\ kq' \in [End -> Seq(Client)]
         /\ \A f \in End, d \in Client : (f # e \/ d # c) =>
              /\ sock'[f][d] = sock[f][d] /\ rkarma'[f][d] = rkarma[f][d]
              /\ out_sz'[f][d] = out_sz[f][d]
         /\ \A f \in End : ToldGone(f)' = ToldGone(f)
         /\ \/ /\ sock'[e][c] = "open" /\ rkarma'[e][c] >= 0
               /\ Held(e, c)' = n + Positive(rkarma[e][c])
            \/ /\ sock'[e][c] = "closed" /\ rkarma'[e][c] = -1
               /\ Held(e, c)' = n
<1>0. ClientTypeOK /\ NamesInv /\ SocketInv /\ KarmaQueueInv /\ GoneInv
  BY DEF ClientsInv
<1>1. /\ c = client[e] /\ c # None /\ c \notin ToldGone(e) /\ rkarma[e][c] >= 0
  BY <1>0, LiveIsCurrent
<1>2. rkarma[e][c] \in Nat /\ n \in Nat /\ K \in Nat /\ n + rkarma[e][c] <= K
  BY <1>0, <1>1, ClientFacts DEF ClientTypeOK, Positive
<1>3. wq[e] \in Seq(Client \cup {Control})
  BY <1>0 DEF ClientTypeOK
<1>4. CASE (\E m \in 0..n : /\ out_sz' = [out_sz EXCEPT ![e][c] = n - m]
                            /\ SetRkarma(e, c, rkarma[e][c] + m, wq[e])) /\ UNCHANGED sock
  <2>1. PICK m \in 0..n : /\ out_sz' = [out_sz EXCEPT ![e][c] = n - m]
                          /\ SetRkarma(e, c, rkarma[e][c] + m, wq[e])
    BY <1>4
  <2> DEFINE r == rkarma[e][c] + m
  <2>2. m \in Nat /\ m <= n /\ n - m \in 0..K /\ r \in Nat /\ r <= K /\ rkarma[e][c] <= r
    BY <1>2
  <2>3. r \in -1..K /\ (Tellable(rkarma[e][c]) => Tellable(r))
    BY <1>2, <2>2, ClientFacts DEF Tellable
  <2>4. SetRkarma(e, c, r, wq[e])
    BY <2>1
  <2> HIDE DEF r
  <2>5. /\ KarmaQueueInv'
        /\ rkarma' \in [End -> [Client -> -1..K]] /\ rkarma'[e][c] = r
        /\ \A f \in End, d \in Client : (f # e \/ d # c) => rkarma'[f][d] = rkarma[f][d]
        /\ wq' \in [End -> Seq(Client \cup {Control})] /\ kq' \in [End -> Seq(Client)]
    BY <1>0, <1>1, <1>3, <2>3, <2>4, KarmaSet
  <2>6. /\ out_sz' \in [End -> [Client -> 0..K]] /\ out_sz'[e][c] = n - m
        /\ \A f \in End, d \in Client : (f # e \/ d # c) => out_sz'[f][d] = out_sz[f][d]
    BY <1>0, <2>1, <2>2 DEF ClientTypeOK
  <2>7. Held(e, c)' = n + Positive(rkarma[e][c])
    <3>1. Positive(rkarma[e][c]) = rkarma[e][c] /\ Positive(r) = r
      BY <1>2, <2>2 DEF Positive
    <3>2. Held(e, c)' = (n - m) + Positive(r)
      BY <2>5, <2>6 DEF Held, Positive
    <3>3. (n - m) + r = n + rkarma[e][c]
      BY <1>2, <2>2 DEF r
    <3> QED
      BY <3>1, <3>2, <3>3
  <2>8. sock' = sock
    BY <1>4
  <2>9. \A f \in End : ToldGone(f)' = ToldGone(f)
    <3>1. \A f \in End, d \in Client : d \in ToldGone(f)' <=> d \in ToldGone(f)
      BY <2>5, <2>8 DEF ToldGone
    <3>2. \A f \in End : ToldGone(f) \subseteq Client /\ ToldGone(f)' \subseteq Client
      BY DEF ToldGone
    <3> QED
      BY <3>1, <3>2
  <2>10. r >= 0
    BY <2>2
  <2> QED
    BY <1>0, <2>5, <2>6, <2>7, <2>8, <2>9, <2>10 DEF ClientTypeOK
<1>5. CASE n > 0 /\ out_sz' = [out_sz EXCEPT ![e][c] = n] /\ Disconnect(e, c, wq[e])
  <2>1. /\ KarmaQueueInv'
        /\ sock' \in [End -> [Client -> {"none", "connecting", "open", "stuck", "closed", "freed"}]]
        /\ rkarma' \in [End -> [Client -> -1..K]]
        /\ wq' \in [End -> Seq(Client \cup {Control})] /\ kq' \in [End -> Seq(Client)]
        /\ sock'[e][c] = "closed" /\ rkarma'[e][c] = -1
        /\ \A f \in End, d \in Client : (f # e \/ d # c) =>
              sock'[f][d] = sock[f][d] /\ rkarma'[f][d] = rkarma[f][d]
        /\ \A f \in End : ToldGone(f)' = ToldGone(f)
    BY <1>3, <1>5, Disconnects
  <2>2. /\ out_sz' \in [End -> [Client -> 0..K]] /\ out_sz'[e][c] = n
        /\ \A f \in End, d \in Client : (f # e \/ d # c) => out_sz'[f][d] = out_sz[f][d]
    BY <1>0, <1>5 DEF ClientTypeOK
  <2>3. Held(e, c)' = n
    BY <1>2, <2>1, <2>2 DEF Held, Positive
  <2> QED
    BY <2>1, <2>2, <2>3
<1> QED
  BY <1>4, <1>5 DEF ClientW

(* Writable keeps the invariant.                                           *)
LEMMA WritableStep == ASSUME ClientsInv, NEW e \in End, NEW c \in Client, Writable(e, c) PROVE ClientsInv'
<1>0. ClientTypeOK /\ NamesInv /\ SocketInv /\ KarmaQueueInv /\ GoneInv /\ FlowInv /\ IdReuse
  BY DEF ClientsInv
<1> DEFINE n == out_sz[e][c]
<1>1. /\ sock[e][c] = "open" /\ ClientW(e, c, n)
      /\ UNCHANGED <<tables, polled, rdead, burned, wkarma, wout, net, busy, error>>
  BY DEF Writable
<1>2. c \in 1..made["mux"] /\ c <= made[e] /\ made'[e] = made[e] /\ c \notin rdead[e] /\ ~(c > made[e])
  <2>1. c \in 1..made["mux"] /\ c = made[e] /\ c \notin HeardGone(e)
    BY <1>0, <1>1, LiveIsCurrent
  <2>2. made[e] \in Nat /\ c \in Nat
    BY <1>0, ClientFacts DEF ClientTypeOK
  <2>3. c <= made[e] /\ ~(c > made[e])
    BY <2>1, <2>2
  <2>4. made' = made /\ c \notin rdead[e]
    BY <1>1, <2>1 DEF HeardGone, tables
  <2> QED
    BY <2>1, <2>3, <2>4
<1>3. n \in 0..K /\ Positive(rkarma[e][c]) \in Nat /\ Sent(Peer(e), c, "data") \in Nat /\ K \in Nat
  <2>1. n \in 0..K /\ K \in Nat
    BY <1>0, ClientFacts DEF ClientTypeOK
  <2>2. Positive(rkarma[e][c]) \in Nat
    BY <1>0, FlowParts
  <2>3. Sent(Peer(e), c, "data") \in Nat
    <3>1. Peer(e) \in End
      BY ClientFacts
    <3> QED
      BY <1>0, <3>1, FlowParts
  <2> QED
    BY <2>1, <2>2, <2>3
<1>4. n + Positive(rkarma[e][c]) <= K
  <2>1. Sent(Peer(e), c, "data") + n + Positive(rkarma[e][c]) <= K
    BY <1>0, <1>2, FlowRoom
  <2> QED
    BY <1>3, <2>1
<1>5. Held(e, c) = n + Positive(rkarma[e][c])
  BY DEF Held
<1>6. client' = client
  BY <1>1 DEF tables
<1> HIDE DEF n
<1>7. /\ KarmaQueueInv'
      /\ sock' \in [End -> [Client -> {"none", "connecting", "open", "stuck", "closed", "freed"}]]
      /\ rkarma' \in [End -> [Client -> -1..K]] /\ out_sz' \in [End -> [Client -> 0..K]]
      /\ wq' \in [End -> Seq(Client \cup {Control})] /\ kq' \in [End -> Seq(Client)]
      /\ \A f \in End, d \in Client : (f # e \/ d # c) =>
           /\ sock'[f][d] = sock[f][d] /\ rkarma'[f][d] = rkarma[f][d]
           /\ out_sz'[f][d] = out_sz[f][d]
      /\ \A f \in End : ToldGone(f)' = ToldGone(f)
      /\ \/ /\ sock'[e][c] = "open" /\ rkarma'[e][c] >= 0
            /\ Held(e, c)' = n + Positive(rkarma[e][c])
         \/ /\ sock'[e][c] = "closed" /\ rkarma'[e][c] = -1
            /\ Held(e, c)' = n
  BY <1>1, <1>3, <1>4, <1>6, ClientWrites
<1>8. ClientTypeOK'
  BY <1>0, <1>1, <1>7 DEF ClientTypeOK, tables
<1>9. SocketInv'
  <2>1. SocketOK(e, c)'
    BY <1>1, <1>2, <1>7 DEF SocketOK
  <2>2. \A f \in End, d \in Client : (f # e \/ d # c) =>
           /\ sock'[f][d] = sock[f][d] /\ wkarma'[f][d] = wkarma[f][d]
           /\ rkarma'[f][d] = rkarma[f][d] /\ out_sz'[f][d] = out_sz[f][d]
           /\ d \in rdead'[f] <=> d \in rdead[f]
    BY <1>1, <1>7
  <2>3. made' = made /\ \A f \in End : burned[f] \subseteq burned'[f]
    BY <1>1 DEF tables
  <2> QED
    BY <1>0, <2>1, <2>2, <2>3, SocketKept
<1>10. ASSUME NEW f \in End, NEW d \in Client
       PROVE  \/ Held(f, d)' = Held(f, d) /\ (sock[f][d] \in {"closed", "freed"}
                                                => sock'[f][d] \in {"closed", "freed"})
              \/ Held(f, d)' <= Held(f, d) /\ sock'[f][d] \in {"closed", "freed"}
  <2>1. CASE f = e /\ d = c
    <3>1. n <= n + Positive(rkarma[e][c])
      BY <1>3
    <3> QED
      BY <1>1, <1>5, <1>7, <2>1, <3>1
  <2>2. CASE f # e \/ d # c
    <3>1. sock'[f][d] = sock[f][d] /\ rkarma'[f][d] = rkarma[f][d] /\ out_sz'[f][d] = out_sz[f][d]
      BY <1>7, <2>2
    <3> QED
      BY <3>1 DEF Held, Positive
  <2> QED
    BY <2>1, <2>2
<1>11. IdReuse'
  BY <1>0, <1>1 DEF IdReuse
<1> QED
  BY <1>1, <1>7, <1>8, <1>9, <1>10, <1>11, ClientChange

(* Poll keeps the invariant.                                               *)
LEMMA PollStep == ASSUME ClientsInv, NEW e \in End, Poll(e) PROVE ClientsInv'
<1>0. ClientTypeOK /\ NamesInv /\ SocketInv /\ KarmaQueueInv /\ GoneInv /\ IdReuse
  BY DEF ClientsInv
<1>1. /\ polled' \in [End -> SUBSET Client]
      /\ sock' = [sock EXCEPT ![e] = [c \in Client |-> IF c \in burned[e] THEN "freed" ELSE @[c]]]
      /\ UNCHANGED <<tables, rdead, burned, wkarma, rkarma, out_sz, kq, wq, wout, net, busy, error>>
  BY DEF Poll
<1>2. /\ sock' \in [End -> [Client -> {"none", "connecting", "open", "stuck", "closed", "freed"}]]
      /\ \A c \in Client : sock'[e][c] = IF c \in burned[e] THEN "freed" ELSE sock[e][c]
      /\ \A f \in End : f # e => sock'[f] = sock[f]
  BY <1>0, <1>1 DEF ClientTypeOK
<1>3. ClientTypeOK'
  BY <1>0, <1>1, <1>2 DEF ClientTypeOK, tables
<1>4. \A c \in Client : c \in burned[e] => sock[e][c] \in {"closed", "freed"} /\ rkarma[e][c] = 0
  BY <1>0 DEF GoneInv, ToldGone
<1>5. SocketInv'
  <2> SUFFICES ASSUME NEW f \in End, NEW c \in Client PROVE SocketOK(f, c)'
    BY DEF SocketInv
  <2>1. SocketOK(f, c)
    BY <1>0 DEF SocketInv
  <2>2. CASE f = e /\ c \in burned[e]
    BY <1>1, <1>2, <1>4, <2>1, <2>2 DEF SocketOK, tables
  <2>3. CASE f # e \/ c \notin burned[e]
    <3>1. sock'[f][c] = sock[f][c]
      BY <1>2, <2>3
    <3> QED
      BY <1>1, <2>1, <3>1 DEF SocketOK, tables
  <2> QED
    BY <2>2, <2>3
<1>6. \A f \in End : ToldGone(f)' = ToldGone(f)
  <2>1. \A f \in End, d \in Client : d \in ToldGone(f)' <=> d \in ToldGone(f)
    BY <1>1, <1>2, <1>4 DEF ToldGone
  <2>2. \A f \in End : ToldGone(f) \subseteq Client /\ ToldGone(f)' \subseteq Client
    BY DEF ToldGone
  <2> QED
    BY <2>1, <2>2
<1>7. KarmaQueueInv'
  BY <1>0, <1>1, QueueKept DEF tables
<1>8. IdReuse'
  BY <1>0, <1>1 DEF IdReuse
<1>9. \A f \in End, d \in Client :
        Held(f, d)' = Held(f, d) /\ (sock[f][d] \in {"closed", "freed"}
                                       => sock'[f][d] \in {"closed", "freed"})
  BY <1>1, <1>2 DEF Held, Positive
<1> QED
  BY <1>1, <1>3, <1>5, <1>6, <1>7, <1>8, <1>9, ClientChange

(* Connected keeps the invariant.                                          *)
LEMMA ConnectedStep == ASSUME ClientsInv, NEW e \in End, NEW c \in Client, Connected(e, c) PROVE ClientsInv'
<1>0. ClientTypeOK /\ NamesInv /\ SocketInv /\ KarmaQueueInv /\ GoneInv /\ PacketsInv /\ IdReuse
  BY DEF ClientsInv
<1>1. /\ polled' = [polled EXCEPT ![e] = @ \ {c}]
      /\ UNCHANGED <<tables, rdead, burned, wkarma, out_sz, wout, net, busy>>
  BY DEF Connected
<1>2. polled' \in [End -> SUBSET Client]
  BY <1>0, <1>1 DEF ClientTypeOK
<1>3. CASE sock[e][c] = "closed" /\ error' = "twice" /\ UNCHANGED <<sock, rkarma, kq, wq>>
  <2>1. ClientTypeOK'
    BY <1>0, <1>1, <1>2, <1>3 DEF ClientTypeOK, tables
  <2>2. PacketsInv' /\ IdReuse'
    BY <1>0, <1>1, <1>3 DEF PacketsInv, IdReuse
  <2> QED
    BY <1>1, <1>3, <2>1, <2>2, ClientQuiet
<1>4. CASE sock[e][c] = "connecting" /\ UNCHANGED error
           /\ sock' = [sock EXCEPT ![e][c] = "open"] /\ UNCHANGED <<rkarma, kq, wq>>
  <2>1. /\ sock' \in [End -> [Client -> {"none", "connecting", "open", "stuck", "closed", "freed"}]]
        /\ sock'[e][c] = "open"
        /\ \A f \in End, d \in Client : (f # e \/ d # c) => sock'[f][d] = sock[f][d]
    BY <1>0, <1>4 DEF ClientTypeOK
  <2>2. ClientTypeOK'
    BY <1>0, <1>1, <1>2, <1>4, <2>1 DEF ClientTypeOK, tables
  <2>3. SocketInv'
    <3>1. SocketOK(e, c)
      BY <1>0 DEF SocketInv
    <3>2. SocketOK(e, c)'
      BY <1>1, <1>4, <2>1, <3>1 DEF SocketOK, tables
    <3>3. made' = made /\ (\A f \in End : burned[f] \subseteq burned'[f]) /\ UNCHANGED <<wkarma, rkarma, out_sz, rdead>>
      BY <1>1, <1>4 DEF tables
    <3>4. \A f \in End, d \in Client : (f # e \/ d # c) =>
             /\ sock'[f][d] = sock[f][d] /\ wkarma'[f][d] = wkarma[f][d]
             /\ rkarma'[f][d] = rkarma[f][d] /\ out_sz'[f][d] = out_sz[f][d]
             /\ d \in rdead'[f] <=> d \in rdead[f]
      BY <2>1, <3>3
    <3> QED
      BY <1>0, <3>2, <3>3, <3>4, SocketKept
  <2>4. KarmaQueueInv'
    BY <1>0, <1>1, <1>4, QueueKept DEF tables
  <2>5. \A f \in End : ToldGone(f)' = ToldGone(f)
    <3>1. \A f \in End, d \in Client : d \in ToldGone(f)' <=> d \in ToldGone(f)
      BY <1>4, <2>1 DEF ToldGone
    <3>2. \A f \in End : ToldGone(f) \subseteq Client /\ ToldGone(f)' \subseteq Client
      BY DEF ToldGone
    <3> QED
      BY <3>1, <3>2
  <2>6. IdReuse'
    BY <1>0, <1>4 DEF IdReuse
  <2>7. \A f \in End, d \in Client :
          Held(f, d)' = Held(f, d) /\ (sock[f][d] \in {"closed", "freed"}
                                         => sock'[f][d] \in {"closed", "freed"})
    BY <1>1, <1>4, <2>1 DEF Held, Positive
  <2> QED
    BY <1>1, <2>2, <2>3, <2>4, <2>5, <2>6, <2>7, ClientChange
<1>5. CASE sock[e][c] = "connecting" /\ UNCHANGED error /\ Disconnect(e, c, wq[e])
  <2>0. wq[e] \in Seq(Client \cup {Control}) /\ client' = client
    BY <1>0, <1>1 DEF ClientTypeOK, tables
  <2>1. /\ KarmaQueueInv'
        /\ sock' \in [End -> [Client -> {"none", "connecting", "open", "stuck", "closed", "freed"}]]
        /\ rkarma' \in [End -> [Client -> -1..K]]
        /\ wq' \in [End -> Seq(Client \cup {Control})] /\ kq' \in [End -> Seq(Client)]
        /\ sock'[e][c] = "closed" /\ rkarma'[e][c] = -1
        /\ \A f \in End, d \in Client : (f # e \/ d # c) =>
              sock'[f][d] = sock[f][d] /\ rkarma'[f][d] = rkarma[f][d]
        /\ \A f \in End : ToldGone(f)' = ToldGone(f)
    BY <1>5, <2>0, Disconnects
  <2>2. ClientTypeOK'
    BY <1>0, <1>1, <1>2, <1>5, <2>1 DEF ClientTypeOK, tables
  <2>3. SocketInv'
    <3>1. SocketOK(e, c)
      BY <1>0 DEF SocketInv
    <3>2. SocketOK(e, c)'
      BY <1>1, <1>5, <2>1, <3>1 DEF SocketOK, tables
    <3>3. made' = made /\ (\A f \in End : burned[f] \subseteq burned'[f]) /\ UNCHANGED <<wkarma, out_sz, rdead>>
      BY <1>1 DEF tables
    <3>4. \A f \in End, d \in Client : (f # e \/ d # c) =>
             /\ sock'[f][d] = sock[f][d] /\ wkarma'[f][d] = wkarma[f][d]
             /\ rkarma'[f][d] = rkarma[f][d] /\ out_sz'[f][d] = out_sz[f][d]
             /\ d \in rdead'[f] <=> d \in rdead[f]
      BY <2>1, <3>3
    <3> QED
      BY <1>0, <3>2, <3>3, <3>4, SocketKept
  <2>4. IdReuse'
    BY <1>0, <1>5 DEF IdReuse
  <2>5. ASSUME NEW f \in End, NEW d \in Client
        PROVE  \/ Held(f, d)' = Held(f, d) /\ (sock[f][d] \in {"closed", "freed"}
                                                 => sock'[f][d] \in {"closed", "freed"})
               \/ Held(f, d)' <= Held(f, d) /\ sock'[f][d] \in {"closed", "freed"}
    <3>1. CASE f = e /\ d = c
      <4>1. out_sz[e][c] \in Nat /\ Positive(rkarma[e][c]) \in Nat
        BY <1>0, FlowParts
      <4>2. Held(e, c) = out_sz[e][c] + Positive(rkarma[e][c]) /\ Held(e, c)' = out_sz[e][c] + 0
        BY <1>1, <2>1 DEF Held, Positive
      <4> QED
        BY <2>1, <3>1, <4>1, <4>2
    <3>2. CASE f # e \/ d # c
      <4>1. sock'[f][d] = sock[f][d] /\ rkarma'[f][d] = rkarma[f][d] /\ out_sz'[f][d] = out_sz[f][d]
        BY <1>1, <2>1, <3>2
      <4> QED
        BY <4>1 DEF Held, Positive
    <3> QED
      BY <3>1, <3>2
  <2> QED
    BY <1>1, <2>1, <2>2, <2>3, <2>4, <2>5, ClientChange
<1> QED
  BY <1>3, <1>4, <1>5 DEF Connected

--------------------------------------------------------------------------------
(* Nothing is on the way for a client that is not made.                    *)
LEMMA SentNone ==
  ASSUME FlightInv, NEW e \in End, NEW c, NEW kind, c \notin 1..made[e]
  PROVE  Sent(e, c, kind) = 0
<1>1. KarmaUnits(Flight(e), c, kind) = {}
  BY DEF FlightInv, FlightOK, KarmaUnits
<1> QED
  BY <1>1, FS_EmptySet DEF Sent

(* Two sets of clients are the same when each client is in both or none.   *)
LEMMA SameGone ==
  ASSUME \A e \in End, c \in Client :
           c \in ToldGone(e)' <=> c \in ToldGone(e)
  PROVE  \A e \in End : ToldGone(e)' = ToldGone(e)
<1>1. \A e \in End : ToldGone(e) \subseteq Client /\ ToldGone(e)' \subseteq Client
  BY DEF ToldGone
<1> QED
  BY <1>1

(* Accept keeps the invariant: the id is used again when both ends have    *)
(* told and heard that its last client is gone.                            *)
LEMMA AcceptStep == ASSUME ClientsInv, Accept PROVE ClientsInv'
<1>0. /\ ClientTypeOK /\ NamesInv /\ SocketInv /\ KarmaQueueInv /\ PacketsInv
      /\ FlightInv /\ GoneInv /\ FlowInv /\ IdReuse
  BY DEF ClientsInv
<1>a. PICK c : c = made["mux"] + 1
  OBVIOUS
<1>b. PICK e : e = "mux"
  OBVIOUS
<1>1. /\ client[e] = None /\ c \in Client
      /\ client' = [client EXCEPT ![e] = c]
      /\ made' = [made EXCEPT ![e] = c]
      /\ of' = [of EXCEPT ![e][c] = c]
      /\ sock' = [sock EXCEPT ![e][c] = "open"]
      /\ wkarma' = [wkarma EXCEPT ![e][c] = K]
      /\ SetRkarma(e, c, K, wq[e])
      /\ UNCHANGED <<polled, rdead, burned, out_sz, wout, net, busy, error>>
  BY <1>a, <1>b DEF Accept
<1>2. /\ made["mux"] \in Nat /\ made["demux"] \in Nat /\ c \in Nat /\ c >= 1 /\ c <= Uses
      /\ K \in Nat /\ K >= 1 /\ AckThreshold <= K /\ 1 <= AckThreshold /\ AckThreshold \in Nat
      /\ e \in End /\ "demux" \in End /\ Peer(e) = "demux" /\ Peer("demux") = e
  <2>1. made["mux"] \in Nat /\ made["demux"] \in Nat
    BY <1>0, ClientFacts DEF ClientTypeOK, End
  <2>2. c \in Nat /\ c >= 1 /\ c <= Uses
    BY <1>1, ClientFacts
  <2>3. e \in End /\ "demux" \in End /\ Peer(e) = "demux" /\ Peer("demux") = e
    BY <1>b DEF End, Peer
  <2>4. K >= 1
    BY ClientFacts
  <2> QED
    BY <2>1, <2>2, <2>3, <2>4, ClientFacts
<1>3. made["demux"] = made["mux"]
  <2> DEFINE m == made["mux"]
  <2>1. CASE m = 0
    BY <1>0, <1>2, <2>1 DEF NamesInv
  <2>2. CASE m # 0
    <3>1. m \in Client /\ m <= made[e] /\ m # client[e]
      <4>1. m \in Nat /\ m <= Uses
        BY <1>0, ClientFacts DEF ClientTypeOK, End
      <4> QED
        BY <1>b, <1>1, <2>2, <4>1 DEF Client, None
    <3>2. m \in burned[e]
      BY <1>0, <1>2, <3>1 DEF NamesInv
    <3>3. m \in HeardGone(e)
      BY <3>2 DEF HeardGone
    <3>4. m \in ToldGone("demux")
      BY <1>0, <1>2, <3>3 DEF GoneInv
    <3>5. ~(m > made["demux"])
      BY <1>0, <1>2, <3>1, <3>4 DEF ToldGone, SocketInv, SocketOK
    <3>6. made["demux"] <= m
      BY <1>0 DEF NamesInv
    <3> QED
      BY <1>2, <3>5, <3>6
  <2> QED
    BY <2>1, <2>2
<1>4. c > made[e] /\ c > made["demux"] /\ c # None /\ c # 0 /\ c \notin 1..made[e] /\ c \notin 1..made["demux"]
  BY <1>a, <1>b, <1>2, <1>3 DEF None
<1>5. /\ sock[e][c] = "none" /\ rkarma[e][c] = 0 /\ out_sz[e][c] = 0 /\ c \notin rdead[e]
      /\ wkarma["demux"][c] = 0 /\ rkarma["demux"][c] = 0 /\ out_sz["demux"][c] = 0
  BY <1>0, <1>1, <1>2, <1>4 DEF SocketInv, SocketOK
<1>6. c \notin burned[e]
  <2>1. ~(c <= made[e])
    BY <1>2, <1>4
  <2> QED
    BY <1>0, <1>1, <1>2, <2>1 DEF NamesInv
<1>7. /\ ~Tellable(0) /\ Tellable(K)
  BY <1>2 DEF Tellable
<1>8. kq[e] = <<>> /\ wq[e] \in Seq(Client \cup {Control})
  BY <1>0, <1>1, <1>2 DEF KarmaQueueInv, KarmaQueueOK, ClientTypeOK
<1>9. /\ rkarma' = [rkarma EXCEPT ![e][c] = K]
      /\ kq' = [kq EXCEPT ![e] = Append(@, c)]
      /\ wq' = [wq EXCEPT ![e] = PushWriter(wq[e], Control)]
  BY <1>1, <1>5, <1>7, <1>8 DEF SetRkarma
<1>10. /\ PushWriter(wq[e], Control) \in Seq(Client \cup {Control})
       /\ Queues(PushWriter(wq[e], Control), Control)
  BY <1>8, PushWriterKeeps
<1>11. Append(kq[e], c) = <<c>> /\ Append(kq[e], c) \in Seq(Client)
  BY <1>1, <1>8
<1>12. /\ client'[e] = c /\ made'[e] = c /\ of'[e][c] = c /\ sock'[e][c] = "open"
       /\ wkarma'[e][c] = K /\ rkarma'[e][c] = K /\ kq'[e] = <<c>>
       /\ wq'[e] = PushWriter(wq[e], Control)
  BY <1>0, <1>1, <1>2, <1>9, <1>11 DEF ClientTypeOK
<1>13. \A f \in End : f # e => /\ client'[f] = client[f] /\ made'[f] = made[f] /\ of'[f] = of[f]
                               /\ sock'[f] = sock[f] /\ wkarma'[f] = wkarma[f]
                               /\ rkarma'[f] = rkarma[f] /\ kq'[f] = kq[f] /\ wq'[f] = wq[f]
  BY <1>0, <1>1, <1>9 DEF ClientTypeOK
<1>14. \A d \in Client : d # c => /\ of'[e][d] = of[e][d] /\ sock'[e][d] = sock[e][d]
                                  /\ wkarma'[e][d] = wkarma[e][d] /\ rkarma'[e][d] = rkarma[e][d]
  BY <1>0, <1>1, <1>2, <1>9 DEF ClientTypeOK
<1>15. ClientTypeOK'
  <2>1. client' \in [End -> 0..Uses] /\ made' \in [End -> 0..Uses] /\ of' \in [End -> [Client -> 0..Uses]]
    <3>1. c \in 0..Uses
      BY <1>2, ClientFacts
    <3> QED
      BY <1>0, <1>1, <1>2, <3>1 DEF ClientTypeOK
  <2>2. /\ sock' \in [End -> [Client -> {"none", "connecting", "open", "stuck", "closed", "freed"}]]
        /\ wkarma' \in [End -> [Client -> 0..K]] /\ rkarma' \in [End -> [Client -> -1..K]]
    <3>1. K \in 0..K /\ K \in -1..K
      BY <1>2
    <3> QED
      BY <1>0, <1>1, <1>9, <3>1 DEF ClientTypeOK
  <2>3. wq' \in [End -> Seq(Client \cup {Control})] /\ kq' \in [End -> Seq(Client)]
    BY <1>0, <1>9, <1>10, <1>11 DEF ClientTypeOK
  <2> QED
    BY <1>0, <1>1, <2>1, <2>2, <2>3 DEF ClientTypeOK
<1>16. \A f \in End : f = e \/ f = "demux"
  BY <1>a, <1>b, <1>2 DEF End
<1>17. e # "demux" /\ made[e] + 1 = c /\ made["demux"] + 1 = c /\ made[e] \in Nat
  BY <1>a, <1>b, <1>2, <1>3
<1>18. NamesInv'
  <2>1. \A f \in End : \A d \in Client : of'[f][d] = IF d <= made'[f] THEN d ELSE 0
    <3>1. \A d \in Client : d # c => (d <= c <=> d <= made[e])
      BY <1>17, ClientFacts
    <3>2. \A f \in End : \A d \in Client : of[f][d] = IF d <= made[f] THEN d ELSE 0
      BY <1>0 DEF NamesInv
    <3>3. c <= c
      BY <1>2
    <3> QED
      BY <1>12, <1>13, <1>14, <3>1, <3>2, <3>3
  <2>2. made'["demux"] <= made'["mux"] /\ made'["mux"] <= made'["demux"] + 1
    BY <1>a, <1>b, <1>2, <1>12, <1>13, <1>17
  <2>3. \A f \in End : client'[f] \in {None, made'[f]}
    BY <1>0, <1>12, <1>13 DEF NamesInv
  <2>4. \A f \in End : \A d \in Client : d \in burned'[f] <=> (d <= made'[f] /\ d # client'[f])
    <3>1. \A f \in End : \A d \in Client : d \in burned[f] <=> (d <= made[f] /\ d # client[f])
      BY <1>0 DEF NamesInv
    <3>2. \A d \in Client : d \in burned'[e] <=> (d <= made'[e] /\ d # client'[e])
      <4> SUFFICES ASSUME NEW d \in Client PROVE d \in burned[e] <=> (d <= c /\ d # c)
        BY <1>1, <1>12
      <4>1. d \in burned[e] <=> d <= made[e]
        BY <1>1, <1>2, <3>1, ClientFacts DEF None
      <4>2. (d <= c /\ d # c) <=> d <= made[e]
        BY <1>2, <1>17, ClientFacts
      <4> QED
        BY <4>1, <4>2
    <3> QED
      BY <1>1, <1>13, <3>1, <3>2
  <2> QED
    BY <2>1, <2>2, <2>3, <2>4 DEF NamesInv
<1>19. SocketInv'
  <2> SUFFICES ASSUME NEW f \in End, NEW d \in Client PROVE SocketOK(f, d)'
    BY DEF SocketInv
  <2>1. SocketOK(f, d)
    BY <1>0 DEF SocketInv
  <2>2. CASE f # e
    BY <1>1, <1>13, <2>1, <2>2 DEF SocketOK
  <2>3. CASE f = e /\ d # c
    <3>1. d > made[e] <=> d > c
      BY <1>2, <1>17, <2>3, ClientFacts
    <3> QED
      BY <1>1, <1>12, <1>14, <2>1, <2>3, <3>1 DEF SocketOK
  <2>4. CASE f = e /\ d = c
    <3>1. ~(c > c) /\ K >= 0
      BY <1>2
    <3> QED
      BY <1>1, <1>5, <1>12, <2>4, <3>1 DEF SocketOK
  <2> QED
    BY <2>2, <2>3, <2>4
<1>20. KarmaQueueInv'
  <2>1. KarmaQueueOK(e)'
    BY <1>4, <1>7, <1>10, <1>12 DEF KarmaQueueOK, Tellable
  <2>2. ASSUME NEW f \in End, f # e PROVE KarmaQueueOK(f)'
    <3>1. KarmaQueueOK(f)
      BY <1>0 DEF KarmaQueueInv
    <3> QED
      BY <1>13, <2>2, <3>1 DEF KarmaQueueOK, Tellable
  <2> QED
    BY <2>1, <2>2 DEF KarmaQueueInv
<1>21. PacketsInv' /\ IdReuse'
  BY <1>0, <1>1 DEF PacketsInv, IdReuse
<1>22. /\ \A f \in End : Flight(f)' = Flight(f)
       /\ \A f \in End : \A d, kind : Sent(f, d, kind)' = Sent(f, d, kind)
  BY <1>0, <1>1, FlightKept
<1>23. FlightInv' /\ GoneInv'
  <2>1. \A f \in End, d \in Client : d \in ToldGone(f)' <=> d \in ToldGone(f)
    BY <1>5, <1>12, <1>13, <1>14 DEF ToldGone
  <2>2. \A f \in End : ToldGone(f)' = ToldGone(f)
    BY <2>1, SameGone
  <2>3. \A f \in End : HeardGone(f)' = HeardGone(f) /\ burned'[f] = burned[f]
    BY <1>1 DEF HeardGone
  <2>4. \A f \in End : made'[f] \in Nat /\ made[f] <= made'[f]
    <3>1. \A f \in End : made[f] \in Nat
      BY <1>0 DEF ClientTypeOK
    <3>2. made[e] <= c
      BY <1>2, <1>17
    <3> QED
      BY <1>2, <1>12, <1>13, <3>1, <3>2
  <2> QED
    BY <1>0, <1>22, <2>2, <2>3, <2>4, LinkKept
<1>24. FlowInv'
  <2> SUFFICES ASSUME NEW f \in End, NEW d \in Client, d \in 1..c
               PROVE  /\ Flow(f, d)' <= K
                      /\ sock'[Peer(f)][d] \notin {"closed", "freed"} => Flow(f, d)' = K
    <3>1. made'["mux"] = c /\ \A d \in 1..c : d \in Client
      BY <1>b, <1>2, <1>12, ClientFacts DEF Client
    <3> QED
      BY <3>1 DEF FlowInv
  <2>0. Peer(f) \in End
    BY ClientFacts
  <2>1. CASE d # c
    <3>1. d \in 1..made["mux"]
      BY <1>a, <1>b, <1>2, <1>17, <2>1
    <3>2. Flow(f, d) <= K /\ (sock[Peer(f)][d] \notin {"closed", "freed"} => Flow(f, d) = K)
      BY <1>0, <3>1 DEF FlowInv
    <3>3. \A g \in End : wkarma'[g][d] = wkarma[g][d] /\ rkarma'[g][d] = rkarma[g][d]
                         /\ out_sz'[g][d] = out_sz[g][d] /\ sock'[g][d] = sock[g][d]
      BY <1>1, <1>13, <1>14, <2>1
    <3>4. Flow(f, d)' = Flow(f, d)
      BY <1>22, <2>0, <3>3 DEF Flow, Held, Positive
    <3> QED
      BY <2>0, <3>2, <3>3, <3>4
  <2>2. CASE d = c
    <3>1. \A kind : Sent(e, c, kind)' = 0 /\ Sent("demux", c, kind)' = 0
      BY <1>0, <1>2, <1>4, <1>22, SentNone
    <3>2. Held(e, c)' = K /\ Held("demux", c)' = 0
      <4>1. /\ Positive(0) = 0 /\ Positive(K) = K /\ 0 + 0 = 0 /\ 0 + K = K
        BY <1>2 DEF Positive
      <4>2. out_sz'[e][c] = 0 /\ rkarma'[e][c] = K /\ out_sz'["demux"][c] = 0 /\ rkarma'["demux"][c] = 0
        BY <1>1, <1>2, <1>5, <1>12, <1>13, <1>17
      <4>3. Held(e, c)' = 0 + Positive(K) /\ Held("demux", c)' = 0 + Positive(0)
        BY <4>2 DEF Held, Positive
      <4> QED
        BY <4>1, <4>3
    <3>3. wkarma'[e][c] = K /\ wkarma'["demux"][c] = 0
      BY <1>2, <1>5, <1>12, <1>13, <1>17
    <3>4. Flow(e, c)' = K + 0 + 0 + 0 /\ Flow("demux", c)' = 0 + 0 + 0 + K
      BY <1>2, <3>1, <3>2, <3>3 DEF Flow
    <3>5. K + 0 + 0 + 0 = K /\ 0 + 0 + 0 + K = K /\ K <= K
      BY <1>2
    <3> QED
      BY <1>16, <2>2, <3>4, <3>5
  <2> QED
    BY <2>1, <2>2
<1> QED
  BY <1>15, <1>18, <1>19, <1>20, <1>21, <1>23, <1>24 DEF ClientsInv

(* GetClient keeps the invariant: only the demux makes a client, for the   *)
(* name that is not made yet.                                              *)
LEMMA GetClientStep == ASSUME ClientsInv, NEW e \in End, GetClient(e) PROVE ClientsInv'
<1>0. /\ ClientTypeOK /\ NamesInv /\ SocketInv /\ KarmaQueueInv /\ PacketsInv
      /\ FlightInv /\ GoneInv /\ FlowInv /\ IdReuse
  BY DEF ClientsInv
<1>a. PICK c : c = made[e] + 1
  OBVIOUS
<1>1. Arrived(e) /\ client[e] = None
  BY DEF GetClient
<1>2. /\ e = "demux" /\ Incoming(e).of = c /\ made["mux"] = c /\ c \in Client
  BY <1>0, <1>1, <1>a, Incomer
<1>3. PICK s \in BeginConnect : sock' = [sock EXCEPT ![e][c] = s]
  BY <1>2, <1>a DEF GetClient
<1>4. /\ client' = [client EXCEPT ![e] = c]
      /\ made' = [made EXCEPT ![e] = c]
      /\ of' = [of EXCEPT ![e][c] = c]
      /\ wkarma' = [wkarma EXCEPT ![e][c] = TwinKarma]
      /\ busy' = [busy EXCEPT ![e] = "take"]
      /\ UNCHANGED <<net, error, polled, rdead, burned, rkarma, out_sz, kq, wq, wout>>
  BY <1>2, <1>a DEF GetClient
<1>5. s \in {"connecting", "open", "stuck"} /\ TwinKarma = 0
  BY DEF BeginConnect, TwinKarma
<1>6. /\ made[e] \in Nat /\ c \in Nat /\ c >= 1 /\ c <= Uses /\ c # None /\ c # 0
      /\ K \in Nat /\ Uses \in Nat /\ "mux" \in End /\ e # "mux" /\ Peer(e) = "mux" /\ Peer("mux") = e
      /\ c > made[e] /\ ~(c <= made[e]) /\ c \in 0..Uses /\ 0 \in 0..K
      /\ made["mux"] \in Nat
  <2>1. made[e] \in Nat /\ made["mux"] \in Nat
    BY <1>0, ClientFacts DEF ClientTypeOK, End
  <2>2. c \in Nat /\ c >= 1 /\ c <= Uses /\ Uses \in Nat /\ K \in Nat
    BY <1>2, ClientFacts
  <2>3. "mux" \in End /\ e # "mux" /\ Peer(e) = "mux" /\ Peer("mux") = e
    BY <1>2 DEF End, Peer
  <2> QED
    BY <1>a, <2>1, <2>2, <2>3 DEF None
<1>7. /\ sock[e][c] = "none" /\ rkarma[e][c] = 0 /\ out_sz[e][c] = 0 /\ c \notin rdead[e]
      /\ wkarma[e][c] = 0
  BY <1>0, <1>2, <1>6 DEF SocketInv, SocketOK
<1>8. /\ client'[e] = c /\ made'[e] = c /\ of'[e][c] = c /\ sock'[e][c] = s
      /\ wkarma' = wkarma
  <2>1. wkarma'[e][c] = wkarma[e][c] /\ wkarma' = wkarma
    BY <1>0, <1>2, <1>4, <1>5, <1>7 DEF ClientTypeOK
  <2> QED
    BY <1>0, <1>2, <1>3, <1>4, <2>1 DEF ClientTypeOK
<1>9. \A f \in End : f # e => /\ client'[f] = client[f] /\ made'[f] = made[f] /\ of'[f] = of[f]
                              /\ sock'[f] = sock[f]
  BY <1>0, <1>3, <1>4 DEF ClientTypeOK
<1>10. \A d \in Client : d # c => /\ of'[e][d] = of[e][d] /\ sock'[e][d] = sock[e][d]
  BY <1>0, <1>2, <1>3, <1>4 DEF ClientTypeOK
<1>11. ClientTypeOK'
  <2>1. client' \in [End -> 0..Uses] /\ made' \in [End -> 0..Uses] /\ of' \in [End -> [Client -> 0..Uses]]
    BY <1>0, <1>4, <1>6 DEF ClientTypeOK
  <2>2. sock' \in [End -> [Client -> {"none", "connecting", "open", "stuck", "closed", "freed"}]]
    BY <1>0, <1>3, <1>5 DEF ClientTypeOK
  <2>3. busy' \in [End -> {"no", "loop", "take"}]
    BY <1>0, <1>4 DEF ClientTypeOK
  <2> QED
    BY <1>0, <1>4, <1>8, <2>1, <2>2, <2>3 DEF ClientTypeOK
<1>12. NamesInv'
  <2>1. \A f \in End : \A d \in Client : of'[f][d] = IF d <= made'[f] THEN d ELSE 0
    <3>1. \A d \in Client : d # c => (d <= c <=> d <= made[e])
      BY <1>a, <1>6, ClientFacts
    <3>2. \A f \in End : \A d \in Client : of[f][d] = IF d <= made[f] THEN d ELSE 0
      BY <1>0 DEF NamesInv
    <3>3. c <= c
      BY <1>6
    <3> QED
      BY <1>8, <1>9, <1>10, <3>1, <3>2, <3>3
  <2>2. made'["demux"] <= made'["mux"] /\ made'["mux"] <= made'["demux"] + 1
    <3>1. made'["demux"] = c /\ made'["mux"] = c
      BY <1>2, <1>6, <1>8, <1>9
    <3> QED
      BY <1>6, <3>1
  <2>3. \A f \in End : client'[f] \in {None, made'[f]}
    BY <1>0, <1>8, <1>9 DEF NamesInv
  <2>4. \A f \in End : \A d \in Client : d \in burned'[f] <=> (d <= made'[f] /\ d # client'[f])
    <3>1. \A f \in End : \A d \in Client : d \in burned[f] <=> (d <= made[f] /\ d # client[f])
      BY <1>0 DEF NamesInv
    <3>2. \A d \in Client : d \in burned'[e] <=> (d <= made'[e] /\ d # client'[e])
      <4> SUFFICES ASSUME NEW d \in Client PROVE d \in burned[e] <=> (d <= c /\ d # c)
        BY <1>4, <1>8
      <4>1. d \in burned[e] <=> d <= made[e]
        BY <1>1, <3>1, ClientFacts DEF None
      <4>2. (d <= c /\ d # c) <=> d <= made[e]
        BY <1>a, <1>6, ClientFacts
      <4> QED
        BY <4>1, <4>2
    <3> QED
      BY <1>4, <1>9, <3>1, <3>2
  <2> QED
    BY <2>1, <2>2, <2>3, <2>4 DEF NamesInv
<1>13. SocketInv'
  <2> SUFFICES ASSUME NEW f \in End, NEW d \in Client PROVE SocketOK(f, d)'
    BY DEF SocketInv
  <2>1. SocketOK(f, d)
    BY <1>0 DEF SocketInv
  <2>2. CASE f # e
    BY <1>4, <1>8, <1>9, <2>1, <2>2 DEF SocketOK
  <2>3. CASE f = e /\ d # c
    <3>1. d > made[e] <=> d > c
      BY <1>a, <1>6, <2>3, ClientFacts
    <3> QED
      BY <1>4, <1>8, <1>10, <2>1, <2>3, <3>1 DEF SocketOK
  <2>4. CASE f = e /\ d = c
    <3>1. ~(c > c) /\ 0 >= 0
      BY <1>6
    <3> QED
      BY <1>4, <1>5, <1>7, <1>8, <2>4, <3>1 DEF SocketOK
  <2> QED
    BY <2>2, <2>3, <2>4
<1>14. KarmaQueueInv'
  <2>1. KarmaQueueOK(e)'
    <3>1. ~Tellable(0)
      BY ClientFacts DEF Tellable
    <3>2. kq[e] = <<>>
      BY <1>0, <1>1 DEF KarmaQueueInv, KarmaQueueOK
    <3> QED
      BY <1>4, <1>7, <1>8, <3>1, <3>2 DEF KarmaQueueOK, Tellable
  <2>2. ASSUME NEW f \in End, f # e PROVE KarmaQueueOK(f)'
    <3>1. KarmaQueueOK(f)
      BY <1>0 DEF KarmaQueueInv
    <3> QED
      BY <1>4, <1>9, <2>2, <3>1 DEF KarmaQueueOK, Tellable
  <2> QED
    BY <2>1, <2>2 DEF KarmaQueueInv
<1>15. PacketsInv' /\ IdReuse'
  BY <1>0, <1>4 DEF PacketsInv, IdReuse
<1>16. /\ \A f \in End : Flight(f)' = Flight(f)
       /\ \A f \in End : \A d, kind : Sent(f, d, kind)' = Sent(f, d, kind)
  BY <1>0, <1>4, FlightKept
<1>17. FlightInv' /\ GoneInv'
  <2>1. \A f \in End, d \in Client : d \in ToldGone(f)' <=> d \in ToldGone(f)
    BY <1>4, <1>5, <1>7, <1>8, <1>9, <1>10 DEF ToldGone
  <2>2. \A f \in End : ToldGone(f)' = ToldGone(f)
    BY <2>1, SameGone
  <2>3. \A f \in End : HeardGone(f)' = HeardGone(f) /\ burned'[f] = burned[f]
    BY <1>4 DEF HeardGone
  <2>4. \A f \in End : made'[f] \in Nat /\ made[f] <= made'[f]
    <3>1. \A f \in End : made[f] \in Nat
      BY <1>0, ClientFacts DEF ClientTypeOK
    <3>2. made[e] <= c
      BY <1>6
    <3> QED
      BY <1>6, <1>8, <1>9, <3>1, <3>2
  <2> QED
    BY <1>0, <1>16, <2>2, <2>3, <2>4, LinkKept
<1>18. FlowInv'
  <2>1. made'["mux"] = made["mux"]
    BY <1>6, <1>9
  <2>2. ASSUME NEW f \in End, NEW d \in Client
        PROVE  Flow(f, d)' = Flow(f, d) /\ (sock[Peer(f)][d] \in {"closed", "freed"}
                                              => sock'[Peer(f)][d] \in {"closed", "freed"})
    <3>1. Peer(f) \in End
      BY ClientFacts
    <3>2. Flow(f, d)' = Flow(f, d)
      BY <1>4, <1>8, <1>16, <3>1 DEF Flow, Held, Positive
    <3>3. sock[Peer(f)][d] \in {"closed", "freed"} => sock'[Peer(f)][d] = sock[Peer(f)][d]
      BY <1>7, <1>9, <1>10, <3>1
    <3> QED
      BY <3>2, <3>3
  <2> QED
    BY <1>0, <2>1, <2>2, FlowKept
<1> QED
  BY <1>11, <1>12, <1>13, <1>14, <1>15, <1>17, <1>18 DEF ClientsInv

--------------------------------------------------------------------------------
(* A step that changes no client and nothing on the way, but the queues.   *)
LEMMA FlightQuiet ==
  ASSUME ClientsInv, ClientTypeOK', PacketsInv', IdReuse', KarmaQueueInv',
         UNCHANGED <<tables, sock, rdead, burned, wkarma, rkarma, out_sz>>,
         \A e \in End : Flight(e)' = Flight(e)
  PROVE  ClientsInv'
<1> USE DEF tables
<1>0. ClientTypeOK /\ NamesInv /\ SocketInv /\ FlightInv /\ GoneInv /\ FlowInv
  BY DEF ClientsInv
<1>1. NamesInv'
  BY <1>0 DEF NamesInv
<1>2. SocketInv'
  BY <1>0 DEF SocketInv, SocketOK
<1>3. FlightInv' /\ GoneInv'
  <2>1. \A e \in End : /\ ToldGone(e)' = ToldGone(e) /\ HeardGone(e)' = HeardGone(e)
                       /\ burned'[e] = burned[e]
    BY DEF ToldGone, HeardGone
  <2>2. \A e \in End : made'[e] \in Nat /\ made[e] <= made'[e]
    BY <1>0 DEF ClientTypeOK
  <2> QED
    BY <1>0, <2>1, <2>2, LinkKept
<1>4. FlowInv'
  <2>1. ASSUME NEW e \in End, NEW c PROVE Flow(e, c)' = Flow(e, c)
    <3>1. Peer(e) \in End
      BY ClientFacts
    <3>2. \A f \in End : \A kind : Sent(f, c, kind)' = Sent(f, c, kind)
      BY DEF Sent, KarmaUnits
    <3> QED
      BY <3>1, <3>2 DEF Flow, Held, Positive
  <2> QED
    BY <1>0, <2>1 DEF FlowInv
<1> QED
  BY <1>1, <1>2, <1>3, <1>4 DEF ClientsInv

(* The client in the karma queue is the one behind the id; it is closed    *)
(* and has that to tell, or up and owed karma.                             *)
LEMMA ToTell ==
  ASSUME ClientsInv, NEW e \in End, kq[e] # <<>>, NEW c, c = Head(kq[e])
  PROVE  /\ c \in Client /\ c # None /\ c = client[e] /\ c = made[e] /\ of[e][c] = c
         /\ c \notin burned[e] /\ kq[e] = <<c>> /\ sock[e][c] # "none"
         /\ rkarma[e][c] \in -1..K /\ rkarma[e][c] # 0
         /\ rkarma[e][c] = -1 => sock[e][c] \in {"closed", "freed"}
         /\ rkarma[e][c] # -1 => sock[e][c] = "open"
         /\ c \in rdead[e] => rkarma[e][c] = -1
<1>0. ClientTypeOK /\ NamesInv /\ SocketInv /\ KarmaQueueInv
  BY DEF ClientsInv
<1>1. /\ client[e] # None /\ Tellable(rkarma[e][client[e]]) /\ kq[e] = <<client[e]>>
  BY <1>0 DEF KarmaQueueInv, KarmaQueueOK
<1>2. c = client[e]
  BY <1>1
<1>3. c \in Client /\ c = made[e] /\ of[e][c] = c /\ c \notin burned[e] /\ sock[e][c] # "none"
  BY <1>0, <1>1, <1>2, CurrentClient
<1>4. rkarma[e][c] \in -1..K
  BY <1>0, <1>3 DEF ClientTypeOK
<1>5. rkarma[e][c] # 0
  BY <1>1, <1>2, ClientFacts DEF Tellable
<1>6. sock[e][c] \in {"none", "connecting", "open", "stuck", "closed", "freed"}
  BY <1>0, <1>3 DEF ClientTypeOK
<1>7. SocketOK(e, c)
  BY <1>0, <1>3 DEF SocketInv
<1>8. /\ rkarma[e][c] = -1 => sock[e][c] \in {"closed", "freed"}
      /\ rkarma[e][c] # -1 => sock[e][c] = "open"
  BY <1>3, <1>4, <1>5, <1>6, <1>7 DEF SocketOK
<1>9. c \in rdead[e] => rkarma[e][c] = -1
  BY <1>3, <1>7, <1>8 DEF SocketOK
<1> QED
  BY <1>1, <1>2, <1>3, <1>4, <1>5, <1>8, <1>9

(* GrabAck keeps the invariant: what is told leaves the client for the     *)
(* packet, and a client that was heard of is burned when it tells.         *)
LEMMA GrabAckStep == ASSUME ClientsInv, NEW e \in End, GrabAck(e) PROVE ClientsInv'
<1>0. /\ ClientTypeOK /\ NamesInv /\ SocketInv /\ KarmaQueueInv
      /\ PacketsInv /\ FlightInv /\ GoneInv /\ FlowInv /\ IdReuse
  BY DEF ClientsInv
<1>1. /\ wq[e] # <<>> /\ wout[e] = NoOut /\ wq' = [wq EXCEPT ![e] = Tail(@)] /\ LoopOn(e)
      /\ UNCHANGED <<made, of, sock, polled, rdead, wkarma, out_sz, net, error>>
  BY DEF GrabAck, GrabTest
<1>2. wq' \in [End -> Seq(Client \cup {Control})] /\ \A f \in End : f # e => wq'[f] = wq[f]
  <2>1. wq[e] \in Seq(Client \cup {Control})
    BY <1>0 DEF ClientTypeOK
  <2>2. Tail(wq[e]) \in Seq(Client \cup {Control})
    BY <1>1, <2>1, TailKeeps
  <2> QED
    BY <1>0, <1>1, <2>2 DEF ClientTypeOK
<1>3. busy' \in [End -> {"no", "loop", "take"}]
  BY <1>0, <1>1 DEF ClientTypeOK, LoopOn
<1>4. IdReuse'
  BY <1>0, <1>1 DEF IdReuse
<1>5. ASSUME NEW p \in Packet, p.kind = "ack", wout' = [wout EXCEPT ![e] = p] PROVE PacketsInv'
  <2>1. wout'[e] = p /\ \A f \in End : f # e => wout'[f] = wout[f]
    BY <1>0, <1>5 DEF ClientTypeOK
  <2> QED
    BY <1>0, <1>1, <1>5, <2>1 DEF PacketsInv
<1>6. CASE kq[e] = <<>>
  <2>1. PICK p : p = [kind |-> "ack", of |-> 0, n |-> 0]
    OBVIOUS
  <2>2. wout' = [wout EXCEPT ![e] = p] /\ UNCHANGED <<client, burned, rkarma, kq>>
    BY <1>6, <2>1 DEF GrabAck
  <2>3. p \in Packet /\ p.of = 0 /\ p.kind = "ack"
    BY <2>1, ClientFacts DEF Packet
  <2>4. \A f \in End : Flight(f)' = Flight(f)
    <3>1. Flight(Peer(e))' = Flight(Peer(e)) /\ Flight(e)' = Flight(e)
      BY <1>0, <1>1, <2>2, <2>3, FlightPut
    <3> QED
      BY <3>1, ClientFacts
  <2>5. ClientTypeOK'
    BY <1>0, <1>1, <1>2, <1>3, <2>2, <2>3 DEF ClientTypeOK
  <2>6. KarmaQueueInv'
    <3> SUFFICES ASSUME NEW f \in End PROVE KarmaQueueOK(f)'
      BY DEF KarmaQueueInv
    <3>1. KarmaQueueOK(f)
      BY <1>0 DEF KarmaQueueInv
    <3>2. kq[f] # <<>> => wq'[f] = wq[f]
      BY <1>2, <1>6
    <3> QED
      BY <2>2, <3>1, <3>2 DEF KarmaQueueOK, Tellable
  <2> QED
    BY <1>1, <1>4, <1>5, <2>2, <2>3, <2>4, <2>5, <2>6, FlightQuiet DEF tables
<1>7. CASE kq[e] # <<>>
  <2>1. PICK c : c = Head(kq[e])
    OBVIOUS
  <2>2. PICK r : r = rkarma[e][c]
    OBVIOUS
  <2>3. /\ c \in Client /\ c # None /\ c = client[e] /\ c = made[e] /\ of[e][c] = c
        /\ c \notin burned[e] /\ kq[e] = <<c>> /\ sock[e][c] # "none"
        /\ r \in -1..K /\ r # 0
        /\ r = -1 => sock[e][c] \in {"closed", "freed"}
        /\ r # -1 => sock[e][c] = "open"
        /\ c \in rdead[e] => r = -1
    BY <1>7, <2>1, <2>2, ToTell
  <2>4. PICK p : p = [kind |-> "ack", of |-> c, n |-> r]
    OBVIOUS
  <2>5. /\ wout' = [wout EXCEPT ![e] = p]
        /\ rkarma' = [rkarma EXCEPT ![e][c] = 0]
        /\ kq' = [kq EXCEPT ![e] = Tail(@)]
        /\ \/ c \in rdead[e] /\ Burn(e, c)
           \/ c \notin rdead[e] /\ UNCHANGED <<client, burned>>
    BY <1>7, <2>1, <2>2, <2>3, <2>4 DEF GrabAck, Forgets
  <2>6. p \in Packet /\ p.of = c /\ p.kind = "ack" /\ p.n = r
    BY <2>3, <2>4, ClientFacts DEF Packet, Client
  <2>7. /\ rkarma' \in [End -> [Client -> -1..K]] /\ rkarma'[e][c] = 0
        /\ \A f \in End, d \in Client : (f # e \/ d # c) => rkarma'[f][d] = rkarma[f][d]
    BY <1>0, <2>3, <2>5, ClientFacts DEF ClientTypeOK
  <2>8. /\ kq' \in [End -> Seq(Client)] /\ kq'[e] = <<>>
        /\ \A f \in End : f # e => kq'[f] = kq[f]
    <3>1. Tail(<<c>>) = <<>> /\ <<>> \in Seq(Client)
      OBVIOUS
    <3>2. kq \in [End -> Seq(Client)] /\ kq' = [kq EXCEPT ![e] = <<>>]
      BY <1>0, <2>3, <2>5, <3>1 DEF ClientTypeOK
    <3> QED
      BY <3>1, <3>2
  <2>9. /\ client' \in [End -> 0..Uses] /\ burned' \in [End -> SUBSET Client]
        /\ \A f \in End : f # e => client'[f] = client[f] /\ burned'[f] = burned[f]
        /\ client'[e] = IF c \in rdead[e] THEN None ELSE c
        /\ burned'[e] = IF c \in rdead[e] THEN burned[e] \cup {c} ELSE burned[e]
    <3>1. client \in [End -> 0..Uses] /\ burned \in [End -> SUBSET Client] /\ None \in 0..Uses
      BY <1>0, ClientFacts DEF ClientTypeOK, None
    <3>2. CASE c \in rdead[e]
      <4>1. client' = [client EXCEPT ![e] = None] /\ burned' = [burned EXCEPT ![e] = @ \cup {c}]
        BY <2>5, <3>2 DEF Burn
      <4>2. client' \in [End -> 0..Uses] /\ burned' \in [End -> SUBSET Client]
        BY <2>3, <3>1, <4>1
      <4>3. /\ \A f \in End : f # e => client'[f] = client[f] /\ burned'[f] = burned[f]
            /\ client'[e] = None /\ burned'[e] = burned[e] \cup {c}
        BY <3>1, <4>1
      <4> QED
        BY <3>2, <4>2, <4>3
    <3>3. CASE c \notin rdead[e]
      BY <2>3, <2>5, <3>1, <3>3
    <3> QED
      BY <3>2, <3>3
  <2>10. ClientTypeOK'
    BY <1>0, <1>1, <1>2, <1>3, <2>5, <2>6, <2>7, <2>8, <2>9 DEF ClientTypeOK
  <2>11. PacketsInv'
    BY <1>5, <2>5, <2>6
  <2>12. NamesInv'
    <3>1. made' = made /\ of' = of /\ made[e] # 0
      BY <1>1, <2>3 DEF None
    <3>2. \A f \in End : client'[f] \in {None, made'[f]}
      BY <1>0, <2>3, <2>9, <3>1 DEF NamesInv
    <3>3. ASSUME NEW f \in End, NEW d \in Client
          PROVE  d \in burned'[f] <=> (d <= made'[f] /\ d # client'[f])
      <4>1. d \in burned[f] <=> (d <= made[f] /\ d # client[f])
        BY <1>0 DEF NamesInv
      <4>2. CASE f = e /\ c \in rdead[e]
        <5>1. d # None
          BY ClientFacts DEF None
        <5>2. c <= made[e]
          BY <2>3, ClientFacts
        <5> QED
          BY <2>3, <2>9, <3>1, <4>1, <4>2, <5>1, <5>2
      <4>3. CASE f # e \/ c \notin rdead[e]
        BY <2>3, <2>9, <3>1, <4>1, <4>3
      <4> QED
        BY <4>2, <4>3
    <3> QED
      BY <1>0, <3>1, <3>2, <3>3 DEF NamesInv
  <2>13. SocketInv'
    <3>1. SocketOK(e, c)
      BY <1>0, <2>3 DEF SocketInv
    <3>2. \A f \in End : burned[f] \subseteq burned'[f]
      BY <2>9
    <3>3. SocketOK(e, c)'
      BY <1>1, <2>3, <2>7, <3>1, <3>2 DEF SocketOK
    <3>4. \A f \in End, d \in Client : (f # e \/ d # c) =>
             /\ sock'[f][d] = sock[f][d] /\ wkarma'[f][d] = wkarma[f][d]
             /\ rkarma'[f][d] = rkarma[f][d] /\ out_sz'[f][d] = out_sz[f][d]
             /\ d \in rdead'[f] <=> d \in rdead[f]
      BY <1>1, <2>7
    <3>5. SocketInv /\ made' = made
      BY <1>0, <1>1
    <3> QED
      BY <2>3, <3>2, <3>3, <3>4, <3>5, SocketKept
  <2>14. KarmaQueueInv'
    <3> SUFFICES ASSUME NEW f \in End PROVE KarmaQueueOK(f)'
      BY DEF KarmaQueueInv
    <3>1. KarmaQueueOK(f)
      BY <1>0 DEF KarmaQueueInv
    <3>2. CASE f = e
      <4>1. ~Tellable(0)
        BY ClientFacts DEF Tellable
      <4>2. client'[e] # None => ~Tellable(rkarma'[e][client'[e]])
        BY <2>3, <2>7, <2>9, <4>1
      <4> QED
        BY <2>8, <3>2, <4>2 DEF KarmaQueueOK, Tellable
    <3>3. CASE f # e
      <4>1. kq'[f] = kq[f] /\ wq'[f] = wq[f] /\ client'[f] = client[f]
        BY <1>2, <2>8, <2>9, <3>3
      <4>2. rkarma'[f] = rkarma[f]
        BY <1>0, <2>5, <3>3 DEF ClientTypeOK
      <4> QED
        BY <3>1, <4>1, <4>2 DEF KarmaQueueOK, Tellable
    <3> QED
      BY <3>2, <3>3
  <2>15. FlightInv' /\ GoneInv'
    <3>1. Flight(Peer(e))' = Flight(Peer(e)) /\ Flight(e)' = Append(Flight(e), p)
      BY <1>0, <1>1, <2>3, <2>5, <2>6, FlightPut DEF None
    <3>2. c \notin ToldGone(e)
      BY <2>2, <2>3 DEF ToldGone
    <3>3. ASSUME NEW d \in Client
          PROVE  d \in ToldGone(e)' <=> (d \in ToldGone(e) \/ (r = -1 /\ d = c))
      <4>1. CASE d = c
        BY <1>1, <2>3, <2>7, <3>2, <4>1 DEF ToldGone
      <4>2. CASE d # c
        BY <1>1, <2>7, <4>2 DEF ToldGone
      <4> QED
        BY <4>1, <4>2
    <3>4. \A f \in End : ToldGone(f) \subseteq Client /\ ToldGone(f)' \subseteq Client
      BY DEF ToldGone
    <3>5. ToldGone(e)' = IF p.n = -1 THEN ToldGone(e) \cup {p.of} ELSE ToldGone(e)
      BY <2>3, <2>6, <3>3, <3>4
    <3>6. ToldGone(Peer(e))' = ToldGone(Peer(e))
      <4>1. Peer(e) \in End /\ Peer(e) # e
        BY ClientFacts
      <4>2. \A d \in Client : rkarma'[Peer(e)][d] = rkarma[Peer(e)][d]
        BY <2>7, <4>1
      <4> QED
        BY <1>1, <4>2 DEF ToldGone
    <3>7. \A f \in End : HeardGone(f)' = HeardGone(f)
      BY <1>1, <2>9 DEF HeardGone
    <3>8. \A f \in End : burned[f] = ToldGone(f) \cap HeardGone(f)
      BY <1>0 DEF GoneInv
    <3>9. burned'[e] = ToldGone(e)' \cap HeardGone(e)'
      <4>1. c \in HeardGone(e) <=> c \in rdead[e]
        BY <2>3 DEF HeardGone
      <4> QED
        BY <2>3, <2>6, <2>9, <3>5, <3>7, <3>8, <4>1
    <3>10. \A f \in End : burned'[f] = ToldGone(f)' \cap HeardGone(f)'
      BY <2>9, <3>6, <3>7, <3>8, <3>9, ClientFacts
    <3> QED
      BY <1>0, <1>1, <2>3, <2>6, <3>1, <3>2, <3>5, <3>6, <3>7, <3>10, LinkPut DEF None
  <2>16. FlowInv'
    <3>1. ASSUME NEW f \in End, NEW d \in Client PROVE Flow(f, d)' = Flow(f, d)
      <4>0. PICK g : g = Peer(f)
        OBVIOUS
      <4>1. g \in End /\ g # f
        BY <4>0, ClientFacts
      <4>2. Worth(p, d, "data") = 0 /\ Worth(p, d, "ack") = IF d = c THEN Positive(r) ELSE 0
        BY <2>6 DEF Worth
      <4>3. \A h \in End : Sent(h, d, "data")' = Sent(h, d, "data")
        <5>1. Sent(Peer(e), d, "data")' = Sent(Peer(e), d, "data")
          BY <1>0, <1>1, <2>5, <2>6, SentPut
        <5>2. Sent(e, d, "data")' = Sent(e, d, "data") + Worth(p, d, "data")
          BY <1>0, <1>1, <2>5, <2>6, SentPut
        <5>3. Sent(e, d, "data") \in Nat
          BY <1>0, FlowParts
        <5> QED
          BY <4>2, <5>1, <5>2, <5>3, ClientFacts
      <4>4. /\ Sent(Peer(e), d, "ack")' = Sent(Peer(e), d, "ack")
            /\ Sent(e, d, "ack")' = Sent(e, d, "ack") + (IF d = c THEN Positive(r) ELSE 0)
        <5>1. /\ Sent(Peer(e), d, "ack")' = Sent(Peer(e), d, "ack")
              /\ Sent(e, d, "ack")' = Sent(e, d, "ack") + Worth(p, d, "ack")
          BY <1>0, <1>1, <2>5, <2>6, SentPut
        <5> QED
          BY <4>2, <5>1
      <4>5. /\ wkarma[f][d] \in Nat /\ Sent(f, d, "data") \in Nat
            /\ Sent(g, d, "ack") \in Nat /\ out_sz[g][d] \in Nat
            /\ Positive(rkarma[g][d]) \in Nat
        BY <1>0, <4>1, FlowParts
      <4>6. Positive(0) = 0 /\ wkarma' = wkarma /\ out_sz' = out_sz
        BY <1>1 DEF Positive
      <4>7. CASE g = e /\ d = c
        <5>1. Held(e, c) = out_sz[e][c] + Positive(r) /\ Held(e, c)' = out_sz[e][c] + 0
          BY <2>2, <2>7, <4>6 DEF Held, Positive
        <5>2. Flow(f, d) = wkarma[f][d] + Sent(f, d, "data") + Sent(e, c, "ack") + (out_sz[e][c] + Positive(r))
          BY <4>0, <4>7, <5>1 DEF Flow
        <5>3. Flow(f, d)' = wkarma[f][d] + Sent(f, d, "data") + (Sent(e, c, "ack") + Positive(r)) + (out_sz[e][c] + 0)
          BY <4>0, <4>3, <4>4, <4>6, <4>7, <5>1 DEF Flow
        <5>4. ASSUME NEW a \in Nat, NEW b \in Nat, NEW s \in Nat, NEW t \in Nat, NEW u \in Nat
              PROVE  a + b + s + (t + u) = a + b + (s + u) + (t + 0)
          OBVIOUS
        <5> QED
          BY <2>2, <4>5, <4>7, <5>2, <5>3, <5>4
      <4>8. CASE g # e \/ d # c
        <5>1. Held(g, d)' = Held(g, d)
          BY <2>7, <4>1, <4>6, <4>8 DEF Held, Positive
        <5>2. Sent(g, d, "ack")' = Sent(g, d, "ack")
          <6>1. Sent(e, d, "ack") \in Nat
            BY <1>0, FlowParts
          <6> QED
            BY <4>0, <4>1, <4>4, <4>8, <6>1, ClientFacts
        <5>3. Sent(f, d, "data")' = Sent(f, d, "data")
          BY <4>3
        <5>4. wkarma'[f][d] = wkarma[f][d]
          BY <4>6
        <5> QED
          BY ONLY <4>0, <5>1, <5>2, <5>3, <5>4 DEF Flow
      <4> QED
        BY <4>7, <4>8
    <3> QED
      BY <1>0, <1>1, <3>1, FlowKept
  <2> QED
    BY <1>4, <2>10, <2>11, <2>12, <2>13, <2>14, <2>15, <2>16 DEF ClientsInv
<1> QED
  BY <1>6, <1>7

--------------------------------------------------------------------------------
(* GrabData keeps the invariant: the bytes read leave the client's karma   *)
(* for the packet, and a client that was closed is disconnected.           *)
LEMMA GrabDataStep == ASSUME ClientsInv, NEW e \in End, GrabData(e) PROVE ClientsInv'
<1>0. /\ ClientTypeOK /\ NamesInv /\ SocketInv /\ KarmaQueueInv
      /\ PacketsInv /\ FlightInv /\ GoneInv /\ FlowInv /\ IdReuse
  BY DEF ClientsInv
<1>1. PICK c : c = Head(wq[e])
  OBVIOUS
<1>2. PICK q : q = Tail(wq[e])
  OBVIOUS
<1>3. /\ wq[e] # <<>> /\ wout[e] = NoOut /\ c # Control /\ sock[e][c] \in {"open", "connecting"}
      /\ LoopOn(e) /\ UNCHANGED <<tables, polled, rdead, burned, out_sz, net, error>>
  BY <1>1 DEF GrabData, GrabTest
<1>4. wq[e] \in Seq(Client \cup {Control})
  BY <1>0 DEF ClientTypeOK
<1>5. /\ c \in Client /\ q \in Seq(Client \cup {Control})
      /\ Queues(wq[e], Control) => Queues(q, Control)
  BY <1>1, <1>2, <1>3, <1>4, TailKeeps
<1>6. /\ c = client[e] /\ c = made[e] /\ c # None /\ of[e][c] = c
      /\ c \notin ToldGone(e) /\ c \notin HeardGone(e) /\ c \notin burned[e]
      /\ rkarma[e][c] >= 0 /\ c \in 1..made["mux"]
  BY <1>0, <1>3, <1>5, LiveIsCurrent
<1>7. PICK n \in 0..Lesser(VPacketSize, wkarma[e][c]) :
        /\ wkarma' = [wkarma EXCEPT ![e][c] = @ - n]
        /\ wout' = [wout EXCEPT ![e] = IF n = 0 THEN NoOut
                                       ELSE [kind |-> "data", of |-> c, n |-> n]]
        /\ \/ /\ wq' = [wq EXCEPT ![e] = q] \/ wq' = [wq EXCEPT ![e] = Append(q, c)]
              /\ UNCHANGED <<sock, rkarma, kq>>
           \/ n = 0 /\ Disconnect(e, c, q)
  BY <1>1, <1>2, <1>6 DEF GrabData
<1>8. PICK w : w = wkarma[e][c]
  OBVIOUS
<1>9. w \in Nat /\ w <= K /\ n \in Nat /\ n <= w /\ K \in Nat /\ n \in -1..K
  <2>1. w \in 0..K /\ K \in Nat /\ VPacketSize \in Nat
    BY <1>0, <1>5, <1>8, ClientFacts DEF ClientTypeOK
  <2> QED
    BY <1>7, <1>8, <2>1 DEF Lesser
<1>10. /\ wkarma' \in [End -> [Client -> 0..K]] /\ wkarma'[e][c] = w - n
       /\ \A f \in End, d \in Client : (f # e \/ d # c) => wkarma'[f][d] = wkarma[f][d]
  <2>1. w - n \in 0..K
    BY <1>9
  <2> QED
    BY <1>0, <1>5, <1>7, <1>8, <2>1 DEF ClientTypeOK
<1>11. busy' \in [End -> {"no", "loop", "take"}]
  BY <1>0, <1>3 DEF ClientTypeOK, LoopOn
<1>12. IdReuse'
  BY <1>0, <1>3 DEF IdReuse
<1>13. made' = made /\ client' = client /\ of' = of
  BY <1>3 DEF tables
<1>14. CASE /\ wq' = [wq EXCEPT ![e] = q] \/ wq' = [wq EXCEPT ![e] = Append(q, c)]
            /\ UNCHANGED <<sock, rkarma, kq>>
  <2>1. /\ wq' \in [End -> Seq(Client \cup {Control})]
        /\ \A f \in End : Queues(wq[f], Control) => Queues(wq'[f], Control)
    <3>1. PICK s \in Seq(Client \cup {Control}) :
            wq' = [wq EXCEPT ![e] = s] /\ (Queues(q, Control) => Queues(s, Control))
      <4>1. /\ Append(q, c) \in Seq(Client \cup {Control})
            /\ Queues(q, Control) => Queues(Append(q, c), Control)
        BY <1>5, AppendKeeps
      <4> QED
        BY <1>5, <1>14, <4>1
    <3>2. wq'[e] = s /\ \A f \in End : f # e => wq'[f] = wq[f]
      BY <1>0, <3>1 DEF ClientTypeOK
    <3>3. wq' \in [End -> Seq(Client \cup {Control})]
      BY <1>0, <3>1 DEF ClientTypeOK
    <3> QED
      BY <1>5, <3>1, <3>2, <3>3
  <2>2. KarmaQueueInv'
    BY <1>0, <1>13, <1>14, <2>1, QueueKept
  <2>3. PICK p : p = IF n = 0 THEN NoOut ELSE [kind |-> "data", of |-> c, n |-> n]
    OBVIOUS
  <2>4. /\ p \in Packet /\ wout' = [wout EXCEPT ![e] = p] /\ (p.kind = "data" => p.n > 0)
        /\ n = 0 => p.of = 0
        /\ n # 0 => p.of = c /\ p.kind = "data" /\ p.n = n
    <3>1. wout' = [wout EXCEPT ![e] = p]
      BY <1>7, <2>3
    <3>2. CASE n = 0
      BY <2>3, <3>1, <3>2, NoOutPacket
    <3>3. CASE n # 0
      <4>1. p = [kind |-> "data", of |-> c, n |-> n]
        BY <2>3, <3>3
      <4>2. c \in 0..Uses
        BY <1>5, ClientFacts
      <4> QED
        BY <1>9, <3>1, <3>3, <4>1, <4>2 DEF Packet
    <3> QED
      BY <3>2, <3>3
  <2>5. ClientTypeOK'
    BY <1>0, <1>3, <1>10, <1>11, <1>13, <1>14, <2>1, <2>4 DEF ClientTypeOK
  <2>6. PacketsInv'
    <3>1. wout'[e] = p /\ \A f \in End : f # e => wout'[f] = wout[f]
      BY <1>0, <2>4 DEF ClientTypeOK
    <3> QED
      BY <1>0, <1>3, <2>4, <3>1 DEF PacketsInv
  <2>7. CASE n = 0
    <3>1. wkarma' = wkarma
      <4>1. wkarma'[e][c] = wkarma[e][c]
        BY <1>8, <1>9, <1>10, <2>7
      <4>2. \A f \in End : \A d \in Client : wkarma'[f][d] = wkarma[f][d]
        BY <1>10, <4>1
      <4>3. wkarma \in [End -> [Client -> 0..K]]
        BY <1>0 DEF ClientTypeOK
      <4>4. ASSUME NEW f \in End PROVE wkarma'[f] = wkarma[f]
        <5>1. wkarma'[f] \in [Client -> 0..K] /\ wkarma[f] \in [Client -> 0..K]
          BY <1>10, <4>3
        <5> QED
          BY <4>2, <5>1
      <4> QED
        BY <1>10, <4>3, <4>4
    <3>2. \A f \in End : Flight(f)' = Flight(f)
      <4>1. Flight(Peer(e))' = Flight(Peer(e)) /\ Flight(e)' = Flight(e)
        BY <1>0, <1>3, <2>4, <2>7, FlightPut
      <4> QED
        BY <4>1, ClientFacts
    <3> QED
      BY <1>3, <1>12, <1>14, <2>2, <2>5, <2>6, <3>1, <3>2, FlightQuiet
  <2>8. CASE n # 0
    <3>1. NamesInv'
      BY <1>0, <1>3, <1>13 DEF NamesInv
    <3>2. SocketInv'
      <4>1. SocketOK(e, c)
        BY <1>0, <1>5 DEF SocketInv
      <4>2. SocketOK(e, c)'
        BY <1>3, <1>13, <1>14, <4>1 DEF SocketOK
      <4> QED
        BY <1>0, <1>3, <1>5, <1>10, <1>13, <1>14, <4>2, SocketKept
    <3>3. FlightInv' /\ GoneInv'
      <4>1. Flight(Peer(e))' = Flight(Peer(e)) /\ Flight(e)' = Append(Flight(e), p)
        BY <1>0, <1>3, <1>6, <2>4, <2>8, FlightPut DEF None
      <4>2. \A f \in End : ToldGone(f)' = ToldGone(f) /\ HeardGone(f)' = HeardGone(f)
        BY <1>3, <1>14 DEF ToldGone, HeardGone
      <4>3. p.n # -1
        BY <1>9, <2>4, <2>8
      <4>4. \A f \in End : burned'[f] = ToldGone(f)' \cap HeardGone(f)'
        BY <1>0, <1>3, <4>2 DEF GoneInv
      <4>5. Peer(e) \in End
        BY ClientFacts
      <4> QED
        BY <1>0, <1>5, <1>6, <1>13, <2>4, <2>8, <4>1, <4>2, <4>3, <4>4, <4>5, LinkPut DEF None
    <3>4. FlowInv'
      <4>1. ASSUME NEW f \in End, NEW d \in Client PROVE Flow(f, d)' = Flow(f, d)
        <5>1. PICK g : g = Peer(f)
          OBVIOUS
        <5>2. g \in End /\ g # f
          BY <5>1, ClientFacts
        <5>3. Worth(p, d, "ack") = 0 /\ Worth(p, d, "data") = IF d = c THEN n ELSE 0
          BY <1>9, <2>4, <2>8 DEF Worth, Positive
        <5>4. Sent(Peer(e), d, "data")' = Sent(Peer(e), d, "data")
          BY <1>0, <1>3, <2>4, SentPut
        <5>5. Sent(e, d, "data")' = Sent(e, d, "data") + Worth(p, d, "data")
          BY <1>0, <1>3, <2>4, SentPut
        <5>6. \A h \in End : Sent(h, d, "ack")' = Sent(h, d, "ack")
          <6>1. Sent(Peer(e), d, "ack")' = Sent(Peer(e), d, "ack")
            BY <1>0, <1>3, <2>4, SentPut
          <6>2. Sent(e, d, "ack")' = Sent(e, d, "ack") + Worth(p, d, "ack")
            BY <1>0, <1>3, <2>4, SentPut
          <6>3. Sent(e, d, "ack") \in Nat
            BY <1>0, FlowParts
          <6> QED
            BY <5>3, <6>1, <6>2, <6>3, ClientFacts
        <5>7. Sent(f, d, "data") \in Nat
          BY <1>0, FlowParts
        <5>8. Held(g, d)' = Held(g, d)
          BY <1>3, <1>14 DEF Held, Positive
        <5>9. wkarma[f][d] + Sent(f, d, "data") = wkarma'[f][d] + Sent(f, d, "data")'
          <6>1. CASE f = e /\ d = c
            <7>1. wkarma[f][d] = w /\ wkarma'[f][d] = w - n /\ Sent(f, d, "data")' = Sent(f, d, "data") + n
              BY <1>8, <1>10, <5>3, <5>5, <6>1
            <7> QED
              BY <1>9, <5>7, <7>1
          <6>2. CASE f # e \/ d # c
            <7>1. wkarma'[f][d] = wkarma[f][d]
              BY <1>10, <6>2
            <7>2. Sent(f, d, "data")' = Sent(f, d, "data")
              <8>1. f = e \/ f = Peer(e)
                BY ClientFacts
              <8> QED
                BY <5>3, <5>4, <5>5, <5>7, <6>2, <8>1
            <7> QED
              BY <7>1, <7>2
          <6> QED
            BY <6>1, <6>2
        <5>10. Sent(g, d, "ack")' = Sent(g, d, "ack")
          BY <5>2, <5>6
        <5> QED
          BY ONLY <5>1, <5>8, <5>9, <5>10 DEF Flow
      <4> QED
        BY <1>0, <1>13, <1>14, <4>1, FlowKept
    <3> QED
      BY <1>12, <2>2, <2>5, <2>6, <3>1, <3>2, <3>3, <3>4 DEF ClientsInv
  <2> QED
    BY <2>7, <2>8
<1>15. CASE n = 0 /\ Disconnect(e, c, q)
  <2>1. wkarma' = wkarma
    <3>1. wkarma'[e][c] = wkarma[e][c]
      BY <1>8, <1>9, <1>10, <1>15
    <3>2. wkarma \in [End -> [Client -> 0..K]]
      BY <1>0 DEF ClientTypeOK
    <3>3. ASSUME NEW f \in End PROVE wkarma'[f] = wkarma[f]
      <4>1. wkarma'[f] \in [Client -> 0..K] /\ wkarma[f] \in [Client -> 0..K]
        BY <1>10, <3>2
      <4>2. \A d \in Client : wkarma'[f][d] = wkarma[f][d]
        BY <1>10, <3>1
      <4> QED
        BY <4>1, <4>2
    <3> QED
      BY <1>10, <3>2, <3>3
  <2>2. wout' = wout
    BY <1>0, <1>3, <1>7, <1>15 DEF ClientTypeOK
  <2>3. /\ KarmaQueueInv'
        /\ sock' \in [End -> [Client -> {"none", "connecting", "open", "stuck", "closed", "freed"}]]
        /\ rkarma' \in [End -> [Client -> -1..K]]
        /\ wq' \in [End -> Seq(Client \cup {Control})] /\ kq' \in [End -> Seq(Client)]
        /\ sock'[e][c] = "closed" /\ rkarma'[e][c] = -1
        /\ \A f \in End, d \in Client : (f # e \/ d # c) =>
              sock'[f][d] = sock[f][d] /\ rkarma'[f][d] = rkarma[f][d]
        /\ \A f \in End : ToldGone(f)' = ToldGone(f)
    BY <1>3, <1>5, <1>13, <1>15, Disconnects
  <2>4. ClientTypeOK'
    BY <1>0, <1>3, <1>11, <1>13, <2>1, <2>2, <2>3 DEF ClientTypeOK
  <2>5. SocketInv'
    <3>1. c <= made[e] /\ ~(c > made[e]) /\ c \notin rdead[e]
      BY <1>5, <1>6, ClientFacts DEF HeardGone
    <3>2. SocketOK(e, c)'
      BY <1>3, <1>13, <2>3, <3>1 DEF SocketOK
    <3>3. \A f \in End, d \in Client : (f # e \/ d # c) =>
             /\ sock'[f][d] = sock[f][d] /\ wkarma'[f][d] = wkarma[f][d]
             /\ rkarma'[f][d] = rkarma[f][d] /\ out_sz'[f][d] = out_sz[f][d]
             /\ d \in rdead'[f] <=> d \in rdead[f]
      BY <1>3, <2>1, <2>3
    <3>4. \A f \in End : burned[f] \subseteq burned'[f]
      BY <1>3
    <3> QED
      BY <1>0, <1>5, <1>13, <3>2, <3>3, <3>4, SocketKept
  <2>6. ASSUME NEW f \in End, NEW d \in Client
        PROVE  \/ Held(f, d)' = Held(f, d) /\ (sock[f][d] \in {"closed", "freed"}
                                                  => sock'[f][d] \in {"closed", "freed"})
               \/ Held(f, d)' <= Held(f, d) /\ sock'[f][d] \in {"closed", "freed"}
    <3>1. CASE f = e /\ d = c
      <4>1. out_sz[e][c] \in Nat /\ Positive(rkarma[e][c]) \in Nat
        BY <1>0, <1>5, FlowParts
      <4>2. Held(e, c) = out_sz[e][c] + Positive(rkarma[e][c]) /\ Held(e, c)' = out_sz[e][c] + 0
        BY <1>3, <2>3 DEF Held, Positive
      <4>3. Held(e, c)' <= Held(e, c)
        BY <4>1, <4>2
      <4> QED
        BY <2>3, <3>1, <4>3
    <3>2. CASE f # e \/ d # c
      <4>1. sock'[f][d] = sock[f][d] /\ rkarma'[f][d] = rkarma[f][d] /\ out_sz' = out_sz
        BY <1>3, <2>3, <3>2
      <4> QED
        BY <4>1 DEF Held, Positive
    <3> QED
      BY <3>1, <3>2
  <2> QED
    BY <1>3, <1>12, <1>13, <2>1, <2>2, <2>3, <2>4, <2>5, <2>6, ClientChange
<1> QED
  BY <1>7, <1>14, <1>15

--------------------------------------------------------------------------------
(* What mainr finds: a packet for the client behind the id, which has not  *)
(* heard that it is gone.                                                  *)
LEMMA Taken ==
  ASSUME ClientsInv, NEW e \in End, Arrived(e), Take(e), wout' = wout,
         NEW c, c = client[e], c # None
  PROVE  /\ net[Peer(e)] # <<>> /\ net' = [net EXCEPT ![Peer(e)] = Tail(@)]
         /\ net' \in [End -> Seq(Packet)] /\ busy' \in [End -> {"no", "loop", "take"}]
         /\ PacketsInv'
         /\ Incoming(e) \in Packet /\ Incoming(e).of = c
         /\ Incoming(e).kind = "data" => Incoming(e).n > 0
         /\ c \in Client /\ c = made[e] /\ c \in 1..made["mux"]
         /\ c \notin HeardGone(e) /\ c \notin burned[e] /\ sock[e][c] # "none"
         /\ Result(e, c) = error
<1>0. /\ ClientTypeOK /\ NamesInv /\ SocketInv /\ PacketsInv /\ FlightInv /\ GoneInv
  BY DEF ClientsInv
<1>1. /\ net[Peer(e)] # <<>> /\ net' = [net EXCEPT ![Peer(e)] = Tail(@)]
      /\ busy' = [busy EXCEPT ![e] = "no"]
  BY DEF Arrived, Take
<1>2. /\ Incoming(e) \in Packet /\ Incoming(e).of = c /\ c \notin HeardGone(e)
  BY <1>0, Incomer
<1>3. /\ c \in Client /\ c = made[e] /\ of[e][c] = c /\ c \notin burned[e] /\ sock[e][c] # "none"
  BY <1>0, CurrentClient
<1>4. Result(e, c) = error
  BY <1>2, <1>3 DEF Result, Meant
<1>5. c \in 1..made["mux"]
  <2>1. made["mux"] \in Nat /\ made["demux"] \in Nat /\ made["demux"] <= made["mux"]
    BY <1>0, ClientFacts DEF ClientTypeOK, NamesInv, End
  <2>2. c \in Nat /\ c >= 1 /\ (c = made["mux"] \/ c = made["demux"])
    BY <1>3, ClientFacts DEF End
  <2> QED
    BY <2>1, <2>2
<1>6. PICK g : g = Peer(e)
  OBVIOUS
<1>7. g \in End /\ g # e /\ net[g] \in Seq(Packet) /\ net[g] # <<>> /\ net' = [net EXCEPT ![g] = Tail(@)]
  BY <1>0, <1>1, <1>6, ClientFacts DEF ClientTypeOK
<1>8. /\ Tail(net[g]) \in Seq(Packet)
      /\ \A i \in DOMAIN Tail(net[g]) : i + 1 \in DOMAIN net[g] /\ Tail(net[g])[i] = net[g][i + 1]
      /\ 1 \in DOMAIN net[g] /\ Head(net[g]) = net[g][1]
  BY <1>7
<1>9. /\ net' \in [End -> Seq(Packet)] /\ net'[g] = Tail(net[g])
      /\ \A f \in End : f # g => net'[f] = net[f]
  BY <1>0, <1>7, <1>8 DEF ClientTypeOK
<1>10. PacketsInv'
  <2>1. \A i \in DOMAIN net[g] : net[g][i].of # 0 /\ (net[g][i].kind = "data" => net[g][i].n > 0)
    BY <1>0, <1>7 DEF PacketsInv
  <2>2. \A i \in DOMAIN net'[g] : net'[g][i].of # 0 /\ (net'[g][i].kind = "data" => net'[g][i].n > 0)
    BY <1>8, <1>9, <2>1
  <2> QED
    BY <1>0, <1>9, <2>2 DEF PacketsInv
<1>11. Incoming(e).kind = "data" => Incoming(e).n > 0
  <2>1. Incoming(e) = net[g][1]
    BY <1>6, <1>8 DEF Incoming
  <2> QED
    BY <1>0, <1>7, <1>8, <2>1 DEF PacketsInv
<1>12. busy' \in [End -> {"no", "loop", "take"}]
  BY <1>0, <1>1 DEF ClientTypeOK
<1> QED
  BY <1>1, <1>2, <1>3, <1>4, <1>5, <1>9, <1>10, <1>11, <1>12

(* The flow is kept when what a packet is worth moves from the way to the  *)
(* client it is for.                                                       *)
LEMMA FlowTake ==
  ASSUME ClientTypeOK, FlowInv, NEW e \in End, NEW c \in Client, made' = made,
         net[Peer(e)] # <<>>, net' = [net EXCEPT ![Peer(e)] = Tail(@)], wout' = wout,
         Incoming(e).of = c,
         \A f \in End, d \in Client : (f # e \/ d # c) =>
           /\ sock'[f][d] = sock[f][d] /\ wkarma'[f][d] = wkarma[f][d]
           /\ rkarma'[f][d] = rkarma[f][d] /\ out_sz'[f][d] = out_sz[f][d],
         wkarma'[e][c] = wkarma[e][c] + Worth(Incoming(e), c, "ack"),
         \/ /\ Held(e, c)' = Held(e, c) + Worth(Incoming(e), c, "data")
            /\ sock[e][c] \in {"closed", "freed"} => sock'[e][c] \in {"closed", "freed"}
         \/ /\ Held(e, c)' <= Held(e, c) + Worth(Incoming(e), c, "data")
            /\ Held(e, c)' \in Int /\ sock'[e][c] \in {"closed", "freed"}
  PROVE  FlowInv'
<1>1. PICK g : g = Peer(e)
  OBVIOUS
<1>2. g \in End /\ g # e /\ Peer(g) = e /\ \A f \in End : f = e \/ f = g
  BY <1>1, ClientFacts
<1>3. Incoming(e) \in Packet
  BY FlightTake
<1>4. PICK a : a = Worth(Incoming(e), c, "ack")
  OBVIOUS
<1>5. PICK b : b = Worth(Incoming(e), c, "data")
  OBVIOUS
<1>6. a \in Nat /\ b \in Nat
  BY <1>3, <1>4, <1>5, WorthNat
<1>7. ASSUME NEW d \in Client, NEW kind
      PROVE  /\ Sent(e, d, kind)' = Sent(e, d, kind)
             /\ Sent(g, d, kind) = Sent(g, d, kind)' + Worth(Incoming(e), d, kind)
             /\ Sent(g, d, kind)' \in Nat
  <2>1. /\ Sent(e, d, kind)' = Sent(e, d, kind)
        /\ Sent(Peer(e), d, kind) = Sent(Peer(e), d, kind)' + Worth(Incoming(e), d, kind)
        /\ Sent(Peer(e), d, kind)' \in Nat
    BY SentTake, Zenon
  <2> QED
    BY ONLY <1>1, <2>1
<1>8. ASSUME NEW d \in Client, d # c, NEW kind
      PROVE  \A f \in End : Sent(f, d, kind)' = Sent(f, d, kind)
  <2>1. Worth(Incoming(e), d, kind) = 0
    BY <1>8 DEF Worth
  <2>2. Sent(g, d, kind)' = Sent(g, d, kind)
    BY <1>7, <2>1
  <2>3. Sent(e, d, kind)' = Sent(e, d, kind)
    BY <1>7
  <2> QED
    BY <1>2, <2>2, <2>3
<1>9. ASSUME NEW f \in End, NEW d \in Client, f # e \/ d # c PROVE Held(f, d)' = Held(f, d)
  <2>1. rkarma'[f][d] = rkarma[f][d] /\ out_sz'[f][d] = out_sz[f][d]
    BY <1>9
  <2> QED
    BY <2>1 DEF Held, Positive
<1>10. ASSUME NEW f \in End, NEW d \in Client, d # c PROVE Flow(f, d)' = Flow(f, d)
  <2>1. PICK h : h = Peer(f)
    OBVIOUS
  <2>2. h \in End
    BY <2>1, ClientFacts
  <2>3. Held(h, d)' = Held(h, d)
    BY <1>9, <1>10, <2>2
  <2>4. Sent(f, d, "data")' = Sent(f, d, "data") /\ Sent(h, d, "ack")' = Sent(h, d, "ack")
    BY <1>8, <1>10, <2>2
  <2>5. wkarma'[f][d] = wkarma[f][d]
    BY <1>10
  <2> QED
    BY ONLY <2>1, <2>3, <2>4, <2>5 DEF Flow
<1>11. Flow(e, c)' = Flow(e, c)
  <2>1. Held(g, c)' = Held(g, c)
    BY <1>2, <1>9
  <2>2. Sent(e, c, "data")' = Sent(e, c, "data")
    BY <1>7
  <2>3. Sent(g, c, "ack") = Sent(g, c, "ack")' + a /\ Sent(g, c, "ack")' \in Nat
    BY <1>4, <1>7
  <2>4. wkarma'[e][c] = wkarma[e][c] + a
    BY <1>4
  <2>5. wkarma[e][c] \in Nat /\ Sent(e, c, "data") \in Nat /\ Held(g, c) \in Nat
    BY <1>2, FlowParts
  <2>6. /\ Flow(e, c) = wkarma[e][c] + Sent(e, c, "data") + (Sent(g, c, "ack")' + a) + Held(g, c)
        /\ Flow(e, c)' = (wkarma[e][c] + a) + Sent(e, c, "data") + Sent(g, c, "ack")' + Held(g, c)
    BY ONLY <1>1, <2>1, <2>2, <2>3, <2>4 DEF Flow
  <2> QED
    BY <1>6, <2>3, <2>5, <2>6
<1>12. \/ /\ Flow(g, c)' = Flow(g, c)
          /\ sock[e][c] \in {"closed", "freed"} => sock'[e][c] \in {"closed", "freed"}
       \/ Flow(g, c)' <= Flow(g, c) /\ Flow(g, c)' \in Int /\ sock'[e][c] \in {"closed", "freed"}
  <2>1. Sent(g, c, "data") = Sent(g, c, "data")' + b /\ Sent(g, c, "data")' \in Nat
    BY <1>5, <1>7
  <2>2. Sent(e, c, "ack")' = Sent(e, c, "ack") /\ Sent(e, c, "ack") \in Nat /\ Held(e, c) \in Nat
    BY <1>7, FlowParts
  <2>3. wkarma'[g][c] = wkarma[g][c] /\ wkarma[g][c] \in Nat
    BY <1>2, FlowParts
  <2>4. /\ Flow(g, c) = wkarma[g][c] + (Sent(g, c, "data")' + b) + Sent(e, c, "ack") + Held(e, c)
        /\ Flow(g, c)' = wkarma[g][c] + Sent(g, c, "data")' + Sent(e, c, "ack") + Held(e, c)'
    BY ONLY <1>2, <2>1, <2>2, <2>3 DEF Flow
  <2>5. ASSUME NEW w \in Nat, NEW s \in Nat, NEW t \in Nat, NEW h \in Nat, NEW x \in Int
        PROVE  /\ x = h + b => w + s + t + x = w + (s + b) + t + h
               /\ x <= h + b => w + s + t + x <= w + (s + b) + t + h
               /\ w + s + t + x \in Int
    BY <1>6
  <2>6. Held(e, c)' \in Int
    BY <1>5, <1>6, <2>2
  <2>7. /\ Held(e, c)' = Held(e, c) + b => Flow(g, c)' = Flow(g, c)
        /\ Held(e, c)' <= Held(e, c) + b => Flow(g, c)' <= Flow(g, c)
        /\ Flow(g, c)' \in Int
    <3>1. PICK w \in Nat : w = wkarma[g][c]
      BY <2>3
    <3>2. PICK s \in Nat : s = Sent(g, c, "data")'
      BY <2>1
    <3>3. PICK t \in Nat : t = Sent(e, c, "ack")
      BY <2>2
    <3>4. PICK h \in Nat : h = Held(e, c)
      BY <2>2
    <3>5. PICK x \in Int : x = Held(e, c)'
      BY <2>6
    <3>6. Flow(g, c) = w + (s + b) + t + h /\ Flow(g, c)' = w + s + t + x
      BY ONLY <2>4, <3>1, <3>2, <3>3, <3>4, <3>5
    <3>7. /\ x = h + b => w + s + t + x = w + (s + b) + t + h
          /\ x <= h + b => w + s + t + x <= w + (s + b) + t + h
          /\ w + s + t + x \in Int
      BY <2>5
    <3> QED
      BY ONLY <3>4, <3>5, <3>6, <3>7
  <2> QED
    BY <1>5, <2>7
<1>13. ASSUME NEW f \in End, NEW d \in Client
       PROVE  \/ Flow(f, d)' = Flow(f, d) /\ (sock[Peer(f)][d] \in {"closed", "freed"}
                                                => sock'[Peer(f)][d] \in {"closed", "freed"})
              \/ Flow(f, d)' <= Flow(f, d) /\ Flow(f, d)' \in Int
                   /\ sock'[Peer(f)][d] \in {"closed", "freed"}
  <2>1. CASE d # c
    <3>1. sock'[Peer(f)][d] = sock[Peer(f)][d]
      BY <2>1, ClientFacts
    <3> QED
      BY <1>10, <2>1, <3>1
  <2>2. CASE d = c /\ f = e
    <3>1. sock'[g][c] = sock[g][c]
      BY <1>2
    <3> QED
      BY <1>1, <1>11, <2>2, <3>1
  <2>3. CASE d = c /\ f = g
    BY <1>2, <1>12, <2>3
  <2> QED
    BY <1>2, <2>1, <2>2, <2>3
<1> QED
  BY <1>13, FlowKept

--------------------------------------------------------------------------------
(* ReadKarma keeps the invariant: the karma goes from the packet to the    *)
(* client.                                                                 *)
LEMMA ReadKarmaStep == ASSUME ClientsInv, NEW e \in End, ReadKarma(e) PROVE ClientsInv'
<1>0. /\ ClientTypeOK /\ NamesInv /\ SocketInv /\ KarmaQueueInv
      /\ PacketsInv /\ FlightInv /\ GoneInv /\ FlowInv /\ IdReuse
  BY DEF ClientsInv
<1>1. PICK c : c = client[e]
  OBVIOUS
<1>2. /\ Arrived(e) /\ c # None /\ Incoming(e).kind = "ack" /\ Incoming(e).n >= 0
      /\ wkarma' = [wkarma EXCEPT ![e][c] = @ + Incoming(e).n]
      /\ wq' = [wq EXCEPT ![e] = PushWriter(@, c)]
      /\ error' = Result(e, c) /\ Take(e)
      /\ UNCHANGED <<tables, sock, polled, rdead, burned, rkarma, out_sz, kq, wout>>
  BY <1>1 DEF ReadKarma
<1>3. /\ net[Peer(e)] # <<>> /\ net' = [net EXCEPT ![Peer(e)] = Tail(@)]
      /\ net' \in [End -> Seq(Packet)] /\ busy' \in [End -> {"no", "loop", "take"}]
      /\ PacketsInv' /\ Incoming(e) \in Packet /\ Incoming(e).of = c
      /\ c \in Client /\ c = made[e] /\ c \in 1..made["mux"]
      /\ c \notin burned[e] /\ sock[e][c] # "none" /\ error' = error
  BY <1>1, <1>2, Taken
<1>4. PICK n : n = Incoming(e).n
  OBVIOUS
<1>5. n \in Nat /\ Worth(Incoming(e), c, "ack") = n /\ Worth(Incoming(e), c, "data") = 0
  <2>1. n \in -1..K /\ K \in Nat /\ n >= 0
    BY <1>2, <1>3, <1>4, ClientFacts DEF Packet
  <2> QED
    BY <1>2, <1>3, <1>4, <2>1 DEF Worth, Positive
<1>6. wkarma[e][c] \in Nat /\ wkarma[e][c] + n \in 0..K /\ K \in Nat
  <2>1. wkarma[e][c] + Sent(Peer(e), c, "ack") <= K /\ wkarma[e][c] \in Nat
    BY <1>0, <1>3, FlowRoom, FlowParts
  <2>2. Sent(Peer(e), c, "ack") = Sent(Peer(e), c, "ack")' + n /\ Sent(Peer(e), c, "ack")' \in Nat
    BY <1>0, <1>2, <1>3, <1>5, SentTake
  <2> QED
    BY <1>5, <2>1, <2>2, ClientFacts
<1>7. /\ wkarma' \in [End -> [Client -> 0..K]] /\ wkarma'[e][c] = wkarma[e][c] + n
      /\ \A f \in End, d \in Client : (f # e \/ d # c) => wkarma'[f][d] = wkarma[f][d]
  <2>1. wkarma' = [wkarma EXCEPT ![e][c] = @ + n] /\ wkarma \in [End -> [Client -> 0..K]]
    BY <1>0, <1>2, <1>4 DEF ClientTypeOK
  <2> QED
    BY <1>3, <1>6, <2>1
<1>8. /\ wq' \in [End -> Seq(Client \cup {Control})]
      /\ \A f \in End : Queues(wq[f], Control) => Queues(wq'[f], Control)
  <2>1. wq \in [End -> Seq(Client \cup {Control})]
    BY <1>0 DEF ClientTypeOK
  <2>2. /\ PushWriter(wq[e], c) \in Seq(Client \cup {Control})
        /\ Queues(wq[e], Control) => Queues(PushWriter(wq[e], c), Control)
    BY <1>3, <2>1, PushWriterKeeps
  <2>3. wq'[e] = PushWriter(wq[e], c) /\ \A f \in End : f # e => wq'[f] = wq[f]
    BY <1>2, <2>1
  <2>4. wq' \in [End -> Seq(Client \cup {Control})]
    BY <1>2, <2>1, <2>2
  <2> QED
    BY <2>2, <2>3, <2>4
<1>9. made' = made /\ client' = client /\ of' = of
  BY <1>2 DEF tables
<1>10. ClientTypeOK'
  BY <1>0, <1>2, <1>3, <1>7, <1>8, <1>9 DEF ClientTypeOK
<1>11. NamesInv'
  BY <1>0, <1>2, <1>9 DEF NamesInv
<1>12. SocketInv'
  <2>1. SocketOK(e, c)
    BY <1>0, <1>3 DEF SocketInv
  <2>2. SocketOK(e, c)'
    BY <1>2, <1>3, <1>9, <2>1 DEF SocketOK
  <2> QED
    BY <1>0, <1>2, <1>3, <1>7, <1>9, <2>2, SocketKept
<1>13. KarmaQueueInv'
  BY <1>0, <1>2, <1>8, <1>9, QueueKept
<1>14. FlightInv' /\ GoneInv'
  <2>1. /\ Flight(e)' = Flight(e) /\ Flight(Peer(e)) # <<>> /\ Head(Flight(Peer(e))) = Incoming(e)
        /\ Flight(Peer(e))' = Tail(Flight(Peer(e)))
    BY <1>0, <1>2, <1>3, FlightTake
  <2>2. \A f \in End : ToldGone(f)' = ToldGone(f) /\ HeardGone(f)' = HeardGone(f)
    BY <1>2 DEF ToldGone, HeardGone
  <2>3. \A f \in End : burned'[f] = ToldGone(f)' \cap HeardGone(f)'
    BY <1>0, <1>2, <2>2 DEF GoneInv
  <2>4. Head(Flight(Peer(e))).n # -1
    BY <1>4, <1>5, <2>1
  <2>5. Peer(e) \in End
    BY ClientFacts
  <2> QED
    BY <1>0, <1>9, <2>1, <2>2, <2>3, <2>4, <2>5, LinkTake
<1>15. FlowInv'
  <2>1. Held(e, c)' = Held(e, c) /\ Held(e, c) \in Nat
    BY <1>0, <1>2, <1>3, FlowParts DEF Held, Positive
  <2>2. Held(e, c)' = Held(e, c) + Worth(Incoming(e), c, "data")
    BY <1>5, <2>1
  <2>3. \A f \in End, d \in Client : (f # e \/ d # c) =>
           /\ sock'[f][d] = sock[f][d] /\ wkarma'[f][d] = wkarma[f][d]
           /\ rkarma'[f][d] = rkarma[f][d] /\ out_sz'[f][d] = out_sz[f][d]
    BY <1>2, <1>7
  <2>4. wkarma'[e][c] = wkarma[e][c] + Worth(Incoming(e), c, "ack")
    BY <1>5, <1>7
  <2>5. sock'[e][c] = sock[e][c] /\ wout' = wout
    BY <1>2
  <2> QED
    BY <1>0, <1>3, <1>9, <2>2, <2>3, <2>4, <2>5, FlowTake
<1>16. IdReuse'
  BY <1>0, <1>3 DEF IdReuse
<1> QED
  BY <1>3, <1>10, <1>11, <1>12, <1>13, <1>14, <1>15, <1>16 DEF ClientsInv

(* ReadData keeps the invariant: there is room for the data, which go from *)
(* the packet to the client.                                               *)
LEMMA ReadDataStep == ASSUME ClientsInv, NEW e \in End, ReadData(e) PROVE ClientsInv'
<1>0. /\ ClientTypeOK /\ NamesInv /\ SocketInv /\ KarmaQueueInv
      /\ PacketsInv /\ FlightInv /\ GoneInv /\ FlowInv /\ IdReuse
  BY DEF ClientsInv
<1>1. PICK c : c = client[e]
  OBVIOUS
<1>2. PICK m : m = Incoming(e).n
  OBVIOUS
<1>3. PICK n : n = out_sz[e][c] + m
  OBVIOUS
<1>4. /\ Arrived(e) /\ c # None /\ Incoming(e).kind = "data" /\ Take(e)
      /\ UNCHANGED <<tables, polled, rdead, burned, wkarma, wout>>
  BY <1>1 DEF ReadData
<1>5. /\ net[Peer(e)] # <<>> /\ net' = [net EXCEPT ![Peer(e)] = Tail(@)]
      /\ net' \in [End -> Seq(Packet)] /\ busy' \in [End -> {"no", "loop", "take"}]
      /\ PacketsInv' /\ Incoming(e) \in Packet /\ Incoming(e).of = c /\ Incoming(e).n > 0
      /\ c \in Client /\ c = made[e] /\ c \in 1..made["mux"]
      /\ c \notin HeardGone(e) /\ sock[e][c] # "none" /\ Result(e, c) = error
  BY <1>1, <1>4, Taken
<1>6. m \in Nat /\ m > 0 /\ Worth(Incoming(e), c, "ack") = 0 /\ Worth(Incoming(e), c, "data") = m
  <2>1. m \in -1..K /\ K \in Nat /\ m > 0
    BY <1>2, <1>5, ClientFacts DEF Packet
  <2> QED
    BY <1>2, <1>4, <1>5, <2>1 DEF Worth, Positive
<1>7. PICK k : k = Positive(rkarma[e][c])
  OBVIOUS
<1>8. out_sz[e][c] \in Nat /\ k \in Nat /\ n \in 0..K /\ n + k <= K /\ K \in Nat
  <2>1. /\ Sent(Peer(e), c, "data") + out_sz[e][c] + k <= K
        /\ out_sz[e][c] \in Nat /\ k \in Nat
    BY <1>0, <1>5, <1>7, FlowRoom, FlowParts
  <2>2. Sent(Peer(e), c, "data") = Sent(Peer(e), c, "data")' + m /\ Sent(Peer(e), c, "data")' \in Nat
    BY <1>0, <1>4, <1>5, <1>6, SentTake
  <2> QED
    BY <1>3, <1>6, <2>1, <2>2, ClientFacts
<1>9. \/ sock[e][c] = "open" /\ ClientW(e, c, n)
      \/ /\ sock[e][c] # "open" /\ out_sz' = [out_sz EXCEPT ![e][c] = n]
         /\ UNCHANGED <<sock, rkarma, kq, wq>>
  <2>1. n <= K /\ ~(n > K)
    BY <1>8
  <2>2. (CASE n > K -> error' = "full" /\ UNCHANGED <<out_sz, sock, rkarma, kq, wq>>
          [] n <= K /\ sock[e][c] = "open" -> ClientW(e, c, n) /\ error' = Result(e, c)
          [] OTHER -> /\ out_sz' = [out_sz EXCEPT ![e][c] = n] /\ error' = Result(e, c)
                      /\ UNCHANGED <<sock, rkarma, kq, wq>>)
    BY <1>1, <1>2, <1>3 DEF ReadData
  <2> QED
    BY ONLY <2>1, <2>2
<1>10. error' = error
  <2>1. ~(n > K)
    BY <1>8
  <2> QED
    BY <1>1, <1>2, <1>3, <1>5, <2>1 DEF ReadData
<1>11. made' = made /\ client' = client /\ of' = of
  BY <1>4 DEF tables
<1>12. Held(e, c) = out_sz[e][c] + k
  BY <1>7 DEF Held
<1>13. /\ KarmaQueueInv'
       /\ sock' \in [End -> [Client -> {"none", "connecting", "open", "stuck", "closed", "freed"}]]
       /\ rkarma' \in [End -> [Client -> -1..K]] /\ out_sz' \in [End -> [Client -> 0..K]]
       /\ wq' \in [End -> Seq(Client \cup {Control})] /\ kq' \in [End -> Seq(Client)]
       /\ \A f \in End, d \in Client : (f # e \/ d # c) =>
            /\ sock'[f][d] = sock[f][d] /\ rkarma'[f][d] = rkarma[f][d]
            /\ out_sz'[f][d] = out_sz[f][d]
       /\ \A f \in End : ToldGone(f)' = ToldGone(f)
       /\ \/ /\ sock[e][c] = "open" /\ sock'[e][c] = "open" /\ rkarma'[e][c] >= 0
             /\ Held(e, c)' = n + k
          \/ /\ sock[e][c] = "open" /\ sock'[e][c] = "closed" /\ rkarma'[e][c] = -1
             /\ Held(e, c)' = n
          \/ /\ sock[e][c] # "open" /\ sock'[e][c] = sock[e][c] /\ rkarma'[e][c] = rkarma[e][c]
             /\ Held(e, c)' = n + k
  <2>1. CASE sock[e][c] = "open" /\ ClientW(e, c, n)
    <3>1. n + Positive(rkarma[e][c]) <= K /\ n \in 0..K
      BY <1>7, <1>8
    <3>2. /\ KarmaQueueInv'
          /\ sock' \in [End -> [Client -> {"none", "connecting", "open", "stuck", "closed", "freed"}]]
          /\ rkarma' \in [End -> [Client -> -1..K]] /\ out_sz' \in [End -> [Client -> 0..K]]
          /\ wq' \in [End -> Seq(Client \cup {Control})] /\ kq' \in [End -> Seq(Client)]
          /\ \A f \in End, d \in Client : (f # e \/ d # c) =>
               /\ sock'[f][d] = sock[f][d] /\ rkarma'[f][d] = rkarma[f][d]
               /\ out_sz'[f][d] = out_sz[f][d]
          /\ \A f \in End : ToldGone(f)' = ToldGone(f)
          /\ \/ /\ sock'[e][c] = "open" /\ rkarma'[e][c] >= 0
                /\ Held(e, c)' = n + Positive(rkarma[e][c])
             \/ /\ sock'[e][c] = "closed" /\ rkarma'[e][c] = -1
                /\ Held(e, c)' = n
      BY <1>5, <1>11, <2>1, <3>1, ClientWrites, ZenonT(60)
    <3> QED
      BY <1>7, <2>1, <3>2
  <2>2. CASE /\ sock[e][c] # "open" /\ out_sz' = [out_sz EXCEPT ![e][c] = n]
             /\ UNCHANGED <<sock, rkarma, kq, wq>>
    <3>1. /\ out_sz' \in [End -> [Client -> 0..K]] /\ out_sz'[e][c] = n
          /\ \A f \in End, d \in Client : (f # e \/ d # c) => out_sz'[f][d] = out_sz[f][d]
      BY <1>0, <1>5, <1>8, <2>2 DEF ClientTypeOK
    <3>2. KarmaQueueInv'
      BY <1>0, <1>11, <2>2, QueueKept
    <3>3. \A f \in End : ToldGone(f)' = ToldGone(f)
      BY <2>2 DEF ToldGone
    <3>4. Held(e, c)' = n + k
      BY <1>7, <2>2, <3>1 DEF Held, Positive
    <3> QED
      BY <1>0, <2>2, <3>1, <3>2, <3>3, <3>4 DEF ClientTypeOK
  <2> QED
    BY <1>9, <2>1, <2>2
<1>14. ClientTypeOK'
  BY <1>0, <1>4, <1>5, <1>10, <1>11, <1>13 DEF ClientTypeOK
<1>15. NamesInv'
  BY <1>0, <1>4, <1>11 DEF NamesInv
<1>16. SocketInv'
  <2>1. SocketOK(e, c)
    BY <1>0, <1>5 DEF SocketInv
  <2>2. c \notin rdead[e] /\ c <= made[e] /\ ~(c > made[e])
    BY <1>5, ClientFacts DEF HeardGone
  <2>3. SocketOK(e, c)'
    BY <1>4, <1>5, <1>11, <1>13, <2>1, <2>2 DEF SocketOK
  <2> QED
    BY <1>0, <1>4, <1>5, <1>11, <1>13, <2>3, SocketKept
<1>17. FlightInv' /\ GoneInv'
  <2>1. /\ Flight(e)' = Flight(e) /\ Flight(Peer(e)) # <<>> /\ Head(Flight(Peer(e))) = Incoming(e)
        /\ Flight(Peer(e))' = Tail(Flight(Peer(e)))
    BY <1>0, <1>4, <1>5, FlightTake
  <2>2. \A f \in End : HeardGone(f)' = HeardGone(f)
    BY <1>4 DEF HeardGone
  <2>3. \A f \in End : burned'[f] = ToldGone(f)' \cap HeardGone(f)'
    BY <1>0, <1>4, <1>13, <2>2 DEF GoneInv
  <2>4. Head(Flight(Peer(e))).n # -1
    BY <1>2, <1>6, <2>1
  <2>5. Peer(e) \in End
    BY ClientFacts
  <2> QED
    BY <1>0, <1>11, <1>13, <2>1, <2>2, <2>3, <2>4, <2>5, LinkTake
<1>18. FlowInv'
  <2>1. n + k = Held(e, c) + m /\ n <= Held(e, c) + m /\ n \in Int
    BY <1>3, <1>6, <1>8, <1>12
  <2>2. wkarma'[e][c] = wkarma[e][c] + Worth(Incoming(e), c, "ack")
    <3>1. wkarma[e][c] \in Nat
      BY <1>0, <1>5, FlowParts
    <3> QED
      BY <1>4, <1>6, <3>1
  <2>3. \/ /\ Held(e, c)' = Held(e, c) + Worth(Incoming(e), c, "data")
           /\ sock[e][c] \in {"closed", "freed"} => sock'[e][c] \in {"closed", "freed"}
        \/ /\ Held(e, c)' <= Held(e, c) + Worth(Incoming(e), c, "data")
           /\ Held(e, c)' \in Int /\ sock'[e][c] \in {"closed", "freed"}
    BY <1>6, <1>13, <2>1
  <2>4. \A f \in End, d \in Client : (f # e \/ d # c) =>
           /\ sock'[f][d] = sock[f][d] /\ wkarma'[f][d] = wkarma[f][d]
           /\ rkarma'[f][d] = rkarma[f][d] /\ out_sz'[f][d] = out_sz[f][d]
    BY <1>4, <1>13
  <2>5. wout' = wout
    BY <1>4
  <2> QED
    BY <1>0, <1>5, <1>11, <2>2, <2>3, <2>4, <2>5, FlowTake
<1>19. IdReuse'
  BY <1>0, <1>10 DEF IdReuse
<1> QED
  BY <1>5, <1>13, <1>14, <1>15, <1>16, <1>17, <1>18, <1>19 DEF ClientsInv

--------------------------------------------------------------------------------
(* ReadGone keeps the invariant: a client that is heard to be gone is      *)
(* marked, and burned when its own end has been told.                      *)
LEMMA ReadGoneStep == ASSUME ClientsInv, NEW e \in End, ReadGone(e) PROVE ClientsInv'
<1>0. /\ ClientTypeOK /\ NamesInv /\ SocketInv /\ KarmaQueueInv
      /\ PacketsInv /\ FlightInv /\ GoneInv /\ FlowInv /\ IdReuse
  BY DEF ClientsInv
<1>1. PICK c : c = client[e]
  OBVIOUS
<1>2. /\ Arrived(e) /\ c # None /\ Incoming(e).kind = "ack" /\ Incoming(e).n = -1
      /\ error' = Result(e, c) /\ Take(e) /\ UNCHANGED <<made, of, polled, wkarma, out_sz, wout>>
  BY <1>1 DEF ReadGone
<1>3. /\ net[Peer(e)] # <<>> /\ net' = [net EXCEPT ![Peer(e)] = Tail(@)]
      /\ net' \in [End -> Seq(Packet)] /\ busy' \in [End -> {"no", "loop", "take"}]
      /\ PacketsInv' /\ Incoming(e) \in Packet /\ Incoming(e).of = c
      /\ c \in Client /\ c = made[e] /\ c \in 1..made["mux"]
      /\ c \notin HeardGone(e) /\ c \notin burned[e] /\ sock[e][c] # "none" /\ error' = error
  BY <1>1, <1>2, Taken
<1>4. Worth(Incoming(e), c, "ack") = 0 /\ Worth(Incoming(e), c, "data") = 0
  BY <1>2 DEF Worth, Positive
<1>5. SocketOK(e, c) /\ sock[e][c] \in {"none", "connecting", "open", "stuck", "closed", "freed"}
  BY <1>0, <1>3 DEF SocketInv, ClientTypeOK
<1>6. IdReuse'
  BY <1>0, <1>3 DEF IdReuse
<1>7. \/ /\ sock[e][c] \in {"open", "connecting"} /\ Disconnect(e, c, wq[e])
         /\ rdead' = [rdead EXCEPT ![e] = @ \cup {c}] /\ UNCHANGED <<client, burned>>
      \/ /\ sock[e][c] = "closed" /\ rkarma[e][c] = 0
         /\ Burn(e, c) /\ UNCHANGED <<rdead, sock, rkarma, kq, wq>>
      \/ /\ sock[e][c] \notin {"open", "connecting"} /\ ~(sock[e][c] = "closed" /\ rkarma[e][c] = 0)
         /\ rdead' = [rdead EXCEPT ![e] = @ \cup {c}]
         /\ UNCHANGED <<client, burned, sock, rkarma, kq, wq>>
  <2>1. (CASE sock[e][c] \in {"open", "connecting"} ->
                /\ rdead' = [rdead EXCEPT ![e] = @ \cup {c}]
                /\ Disconnect(e, c, wq[e])
                /\ UNCHANGED <<client, burned>>
           [] sock[e][c] = "closed" /\ rkarma[e][c] = 0 ->
                Burn(e, c) /\ UNCHANGED <<rdead, sock, rkarma, kq, wq>>
           [] OTHER ->
                /\ rdead' = [rdead EXCEPT ![e] = @ \cup {c}]
                /\ UNCHANGED <<client, burned, sock, rkarma, kq, wq>>)
    BY <1>1 DEF ReadGone
  <2> QED
    BY ONLY <2>1
(* What is left to show when the packet is taken. *)
<1>8. ASSUME KarmaQueueInv', NamesInv', SocketOK(e, c)',
             client' \in [End -> 0..Uses], burned' \in [End -> SUBSET Client],
             rdead' \in [End -> SUBSET Client],
             sock' \in [End -> [Client -> {"none", "connecting", "open", "stuck", "closed", "freed"}]],
             rkarma' \in [End -> [Client -> -1..K]],
             wq' \in [End -> Seq(Client \cup {Control})], kq' \in [End -> Seq(Client)],
             \A f \in End, d \in Client : (f # e \/ d # c) =>
               sock'[f][d] = sock[f][d] /\ rkarma'[f][d] = rkarma[f][d],
             \A f \in End : f # e => rdead'[f] = rdead[f] /\ burned'[f] = burned[f],
             \/ rdead'[e] = rdead[e] /\ burned'[e] = burned[e] \cup {c} /\ c \in ToldGone(e)
             \/ rdead'[e] = rdead[e] \cup {c} /\ burned'[e] = burned[e] /\ c \notin ToldGone(e),
             \A f \in End : ToldGone(f)' = ToldGone(f),
             \/ sock'[e][c] = sock[e][c] /\ rkarma'[e][c] = rkarma[e][c]
             \/ sock'[e][c] = "closed" /\ rkarma'[e][c] = -1
      PROVE  ClientsInv'
  <2>1. ClientTypeOK'
    BY <1>0, <1>2, <1>3, <1>8 DEF ClientTypeOK
  <2>2. \A f \in End, d \in Client : (f # e \/ d # c) =>
           /\ sock'[f][d] = sock[f][d] /\ wkarma'[f][d] = wkarma[f][d]
           /\ rkarma'[f][d] = rkarma[f][d] /\ out_sz'[f][d] = out_sz[f][d]
    BY <1>2, <1>8
  <2>3. SocketInv'
    <3>1. \A f \in End, d \in Client : (f # e \/ d # c) => (d \in rdead'[f] <=> d \in rdead[f])
      BY <1>8
    <3>2. \A f \in End : burned[f] \subseteq burned'[f]
      BY <1>8
    <3>3. \A f \in End, d \in Client : (f # e \/ d # c) =>
            /\ sock'[f][d] = sock[f][d] /\ wkarma'[f][d] = wkarma[f][d]
            /\ rkarma'[f][d] = rkarma[f][d] /\ out_sz'[f][d] = out_sz[f][d]
            /\ d \in rdead'[f] <=> d \in rdead[f]
      BY <2>2, <3>1
    <3>4. made' = made
      BY <1>2
    <3> QED
      <4>1. SocketInv /\ c \in Client
        BY <1>0, <1>3
      <4>2. SocketOK(e, c)'
        BY <1>8
      <4> QED
        BY <3>2, <3>3, <3>4, <4>1, <4>2, SocketKept
  <2>4. FlightInv' /\ GoneInv'
    <3>1. /\ Flight(e)' = Flight(e) /\ Flight(Peer(e)) # <<>> /\ Head(Flight(Peer(e))) = Incoming(e)
          /\ Flight(Peer(e))' = Tail(Flight(Peer(e)))
      BY <1>0, <1>2, <1>3, FlightTake
    <3>2. HeardGone(e)' = HeardGone(e) \cup {c}
      BY <1>8 DEF HeardGone
    <3>3. \A f \in End : f # e => HeardGone(f)' = HeardGone(f)
      BY <1>8 DEF HeardGone
    <3>4. \A f \in End : burned[f] = ToldGone(f) \cap HeardGone(f)
      BY <1>0 DEF GoneInv
    <3>5. burned'[e] = ToldGone(e)' \cap HeardGone(e)'
      <4>1. burned[e] = ToldGone(e) \cap HeardGone(e) /\ ToldGone(e)' = ToldGone(e)
        BY <1>8, <3>4
      <4>2. CASE burned'[e] = burned[e] \cup {c} /\ c \in ToldGone(e)
        BY ONLY <3>2, <4>1, <4>2
      <4>3. CASE burned'[e] = burned[e] /\ c \notin ToldGone(e)
        BY ONLY <3>2, <4>1, <4>3
      <4> QED
        BY <1>8, <4>2, <4>3
    <3>6. \A f \in End : burned'[f] = ToldGone(f)' \cap HeardGone(f)'
      BY <1>8, <3>3, <3>4, <3>5
    <3>7. HeardGone(e)' = IF Head(Flight(Peer(e))).n = -1
                          THEN HeardGone(e) \cup {Head(Flight(Peer(e))).of} ELSE HeardGone(e)
      BY <1>2, <1>3, <3>1, <3>2
    <3>8. HeardGone(Peer(e))' = HeardGone(Peer(e))
      BY <3>3, ClientFacts
    <3>9. made' = made
      BY <1>2
    <3> QED
      BY <1>0, <1>8, <3>1, <3>6, <3>7, <3>8, <3>9, LinkTake
  <2>5. FlowInv'
    <3>1. wkarma[e][c] \in Nat /\ Held(e, c) \in Nat /\ out_sz[e][c] \in Nat /\ Positive(rkarma[e][c]) \in Nat
      BY <1>0, <1>3, FlowParts
    <3>2. wkarma'[e][c] = wkarma[e][c] + Worth(Incoming(e), c, "ack")
      BY <1>2, <1>4, <3>1
    <3>3. out_sz'[e][c] = out_sz[e][c]
      BY <1>2
    <3>4. \/ /\ Held(e, c)' = Held(e, c) + Worth(Incoming(e), c, "data")
             /\ sock[e][c] \in {"closed", "freed"} => sock'[e][c] \in {"closed", "freed"}
          \/ /\ Held(e, c)' <= Held(e, c) + Worth(Incoming(e), c, "data")
             /\ Held(e, c)' \in Int /\ sock'[e][c] \in {"closed", "freed"}
      <4>1. CASE sock'[e][c] = sock[e][c] /\ rkarma'[e][c] = rkarma[e][c]
        <5>1. Held(e, c)' = Held(e, c)
          BY <3>3, <4>1 DEF Held, Positive
        <5> QED
          BY <1>4, <3>1, <4>1, <5>1
      <4>2. CASE sock'[e][c] = "closed" /\ rkarma'[e][c] = -1
        <5>1. Held(e, c)' = out_sz[e][c] + 0 /\ Held(e, c) = out_sz[e][c] + Positive(rkarma[e][c])
          BY <3>3, <4>2 DEF Held, Positive
        <5> QED
          BY <1>4, <3>1, <4>2, <5>1
      <4> QED
        BY <1>8, <4>1, <4>2
    <3>5. made' = made /\ wout' = wout
      BY <1>2
    <3> QED
      BY <1>0, <1>3, <2>2, <3>2, <3>4, <3>5, FlowTake
  <2> QED
    BY <1>3, <1>6, <1>8, <2>1, <2>3, <2>4, <2>5 DEF ClientsInv
<1>9. CASE /\ sock[e][c] \in {"open", "connecting"} /\ Disconnect(e, c, wq[e])
           /\ rdead' = [rdead EXCEPT ![e] = @ \cup {c}] /\ UNCHANGED <<client, burned>>
  <2>1. wq[e] \in Seq(Client \cup {Control})
    BY <1>0 DEF ClientTypeOK
  <2>2. /\ KarmaQueueInv'
        /\ sock' \in [End -> [Client -> {"none", "connecting", "open", "stuck", "closed", "freed"}]]
        /\ rkarma' \in [End -> [Client -> -1..K]]
        /\ wq' \in [End -> Seq(Client \cup {Control})] /\ kq' \in [End -> Seq(Client)]
        /\ sock'[e][c] = "closed" /\ rkarma'[e][c] = -1
        /\ \A f \in End, d \in Client : (f # e \/ d # c) =>
              sock'[f][d] = sock[f][d] /\ rkarma'[f][d] = rkarma[f][d]
        /\ \A f \in End : ToldGone(f)' = ToldGone(f)
    BY <1>3, <1>9, <2>1, Disconnects
  <2>3. c \notin ToldGone(e)
    BY <1>0, <1>3, <1>9, LiveIsCurrent
  <2>4. /\ rdead' \in [End -> SUBSET Client] /\ rdead'[e] = rdead[e] \cup {c}
        /\ \A f \in End : f # e => rdead'[f] = rdead[f]
    <3>1. rdead \in [End -> SUBSET Client] /\ rdead' = [rdead EXCEPT ![e] = @ \cup {c}]
      BY <1>0, <1>9 DEF ClientTypeOK
    <3> QED
      BY <1>3, <3>1
  <2>5. client' \in [End -> 0..Uses] /\ burned' \in [End -> SUBSET Client] /\ burned' = burned
    BY <1>0, <1>9 DEF ClientTypeOK
  <2>6. NamesInv'
    BY <1>0, <1>2, <1>9 DEF NamesInv
  <2>7. SocketOK(e, c)'
    <3>1. c <= made[e] /\ ~(c > made[e]) /\ made' = made
      BY <1>2, <1>3, ClientFacts
    <3> QED
      BY <2>2, <3>1 DEF SocketOK
  <2> QED
    BY <1>8, <2>2, <2>3, <2>4, <2>5, <2>6, <2>7
<1>10. CASE /\ sock[e][c] = "closed" /\ rkarma[e][c] = 0
            /\ Burn(e, c) /\ UNCHANGED <<rdead, sock, rkarma, kq, wq>>
  <2>1. /\ client' \in [End -> 0..Uses] /\ client'[e] = None
        /\ \A f \in End : f # e => client'[f] = client[f]
    <3>1. client \in [End -> 0..Uses] /\ None \in 0..Uses
      BY <1>0, ClientFacts DEF ClientTypeOK, None
    <3>2. client' = [client EXCEPT ![e] = None]
      BY <1>10 DEF Burn
    <3> QED
      BY <3>1, <3>2
  <2>2. /\ burned' \in [End -> SUBSET Client] /\ burned'[e] = burned[e] \cup {c}
        /\ \A f \in End : f # e => burned'[f] = burned[f]
    <3>1. burned \in [End -> SUBSET Client] /\ burned' = [burned EXCEPT ![e] = @ \cup {c}]
      BY <1>0, <1>10 DEF ClientTypeOK, Burn
    <3> QED
      BY <1>3, <3>1
  <2>3. c \in ToldGone(e) /\ \A f \in End : ToldGone(f)' = ToldGone(f)
    BY <1>3, <1>10 DEF ToldGone
  <2>4. NamesInv'
    <3>1. made' = made /\ of' = of
      BY <1>2
    <3>2. \A f \in End : client'[f] \in {None, made'[f]}
      BY <1>0, <2>1, <3>1 DEF NamesInv
    <3>3. ASSUME NEW f \in End, NEW d \in Client
          PROVE  d \in burned'[f] <=> (d <= made'[f] /\ d # client'[f])
      <4>1. d \in burned[f] <=> (d <= made[f] /\ d # client[f])
        BY <1>0 DEF NamesInv
      <4>2. CASE f = e
        <5>1. d # None /\ c <= made[e]
          BY <1>3, ClientFacts DEF None
        <5> QED
          BY <1>1, <2>1, <2>2, <3>1, <4>1, <4>2, <5>1
      <4>3. CASE f # e
        BY <2>1, <2>2, <3>1, <4>1, <4>3
      <4> QED
        BY <4>2, <4>3
    <3> QED
      BY <1>0, <3>1, <3>2, <3>3 DEF NamesInv
  <2>5. SocketOK(e, c)'
    <3>1. made' = made /\ wkarma' = wkarma /\ out_sz' = out_sz /\ c \in burned'[e]
      BY <1>2, <2>2
    <3> QED
      BY <1>5, <1>10, <3>1 DEF SocketOK
  <2>6. KarmaQueueInv'
    <3> SUFFICES ASSUME NEW f \in End PROVE KarmaQueueOK(f)'
      BY DEF KarmaQueueInv
    <3>1. KarmaQueueOK(f)
      BY <1>0 DEF KarmaQueueInv
    <3>2. CASE f = e
      <4>1. ~Tellable(0)
        BY ClientFacts DEF Tellable
      <4>2. kq[e] = <<>>
        BY <1>1, <1>10, <3>1, <3>2, <4>1 DEF KarmaQueueOK
      <4> QED
        BY <1>10, <2>1, <3>2, <4>2 DEF KarmaQueueOK
    <3>3. CASE f # e
      BY <1>10, <2>1, <3>1, <3>3 DEF KarmaQueueOK, Tellable
    <3> QED
      BY <3>2, <3>3
  <2>7. /\ rdead' \in [End -> SUBSET Client] /\ rdead' = rdead
        /\ sock' \in [End -> [Client -> {"none", "connecting", "open", "stuck", "closed", "freed"}]]
        /\ rkarma' \in [End -> [Client -> -1..K]]
        /\ wq' \in [End -> Seq(Client \cup {Control})] /\ kq' \in [End -> Seq(Client)]
        /\ sock' = sock /\ rkarma' = rkarma
    BY <1>0, <1>10 DEF ClientTypeOK
  <2> QED
    BY <1>8, <2>1, <2>2, <2>3, <2>4, <2>5, <2>6, <2>7
<1>11. CASE /\ sock[e][c] \notin {"open", "connecting"} /\ ~(sock[e][c] = "closed" /\ rkarma[e][c] = 0)
            /\ rdead' = [rdead EXCEPT ![e] = @ \cup {c}]
            /\ UNCHANGED <<client, burned, sock, rkarma, kq, wq>>
  <2>1. sock[e][c] # "freed"
    BY <1>3, <1>5 DEF SocketOK
  <2>2. c \notin ToldGone(e)
    BY <1>11, <2>1 DEF ToldGone
  <2>3. \A f \in End : ToldGone(f)' = ToldGone(f)
    BY <1>11 DEF ToldGone
  <2>4. /\ rdead' \in [End -> SUBSET Client] /\ rdead'[e] = rdead[e] \cup {c}
        /\ \A f \in End : f # e => rdead'[f] = rdead[f]
    <3>1. rdead \in [End -> SUBSET Client] /\ rdead' = [rdead EXCEPT ![e] = @ \cup {c}]
      BY <1>0, <1>11 DEF ClientTypeOK
    <3> QED
      BY <1>3, <3>1
  <2>5. NamesInv' /\ KarmaQueueInv'
    BY <1>0, <1>2, <1>11, QueueKept DEF NamesInv
  <2>6. SocketOK(e, c)'
    <3>1. made' = made /\ wkarma' = wkarma /\ out_sz' = out_sz
      BY <1>2
    <3>2. sock[e][c] \in {"stuck", "closed"}
      BY <1>3, <1>5, <1>11, <2>1
    <3> QED
      BY <1>5, <1>11, <3>1, <3>2 DEF SocketOK
  <2>7. /\ client' \in [End -> 0..Uses] /\ burned' \in [End -> SUBSET Client] /\ burned' = burned
        /\ sock' \in [End -> [Client -> {"none", "connecting", "open", "stuck", "closed", "freed"}]]
        /\ rkarma' \in [End -> [Client -> -1..K]]
        /\ wq' \in [End -> Seq(Client \cup {Control})] /\ kq' \in [End -> Seq(Client)]
        /\ sock' = sock /\ rkarma' = rkarma
    BY <1>0, <1>11 DEF ClientTypeOK
  <2> QED
    BY <1>8, <2>2, <2>3, <2>4, <2>5, <2>6, <2>7
<1> QED
  BY <1>7, <1>9, <1>10, <1>11

--------------------------------------------------------------------------------
(* The invariant holds at the start: nothing is made, on the way or owed.  *)
LEMMA ClientsStart == ASSUME ClientInit PROVE ClientsInv
<1>1. K \in Nat /\ Uses \in Nat /\ None \in 0..Uses /\ 0 \in 0..K /\ 0 \in -1..K
  BY ClientFacts DEF None
<1>2. NoOut \in Packet /\ NoOut.of = 0 /\ NoOut.kind # "data"
  BY NoOutPacket
<1>3. <<>> \in Seq(Client \cup {Control}) /\ <<>> \in Seq(Client) /\ <<>> \in Seq(Packet)
  OBVIOUS
<1>4. /\ client = [e \in End |-> None] /\ made = [e \in End |-> 0]
      /\ of = [e \in End |-> [c \in Client |-> 0]]
      /\ sock = [e \in End |-> [c \in Client |-> "none"]]
      /\ polled = [e \in End |-> {}] /\ rdead = [e \in End |-> {}] /\ burned = [e \in End |-> {}]
  BY DEF ClientInit
<1>5. /\ wkarma = [e \in End |-> [c \in Client |-> 0]]
      /\ rkarma = [e \in End |-> [c \in Client |-> 0]]
      /\ out_sz = [e \in End |-> [c \in Client |-> 0]]
      /\ wq = [e \in End |-> <<>>] /\ kq = [e \in End |-> <<>>]
      /\ wout = [e \in End |-> NoOut] /\ net = [e \in End |-> <<>>]
      /\ busy = [e \in End |-> "no"] /\ error = "none"
  BY DEF ClientInit
<1>6. ClientTypeOK
  <2>1. /\ client \in [End -> 0..Uses] /\ made \in [End -> 0..Uses]
        /\ of \in [End -> [Client -> 0..Uses]]
        /\ sock \in [End -> [Client -> {"none", "connecting", "open", "stuck", "closed", "freed"}]]
        /\ polled \in [End -> SUBSET Client]
        /\ rdead \in [End -> SUBSET Client] /\ burned \in [End -> SUBSET Client]
    BY <1>1, <1>4 DEF None
  <2>2. /\ wkarma \in [End -> [Client -> 0..K]] /\ rkarma \in [End -> [Client -> -1..K]]
        /\ out_sz \in [End -> [Client -> 0..K]]
    BY <1>1, <1>5
  <2>3. /\ wq \in [End -> Seq(Client \cup {Control})] /\ kq \in [End -> Seq(Client)]
        /\ wout \in [End -> Packet] /\ net \in [End -> Seq(Packet)]
        /\ busy \in [End -> {"no", "loop", "take"}] /\ error = "none"
    BY <1>2, <1>3, <1>5
  <2> QED
    BY <2>1, <2>2, <2>3 DEF ClientTypeOK
<1>7. NamesInv
  <2>1. \A c \in Client : ~(c <= 0)
    BY ClientFacts
  <2>2. "mux" \in End /\ "demux" \in End
    BY DEF End
  <2>3. \A e \in End : /\ client[e] = None /\ made[e] = 0 /\ burned[e] = {}
                       /\ \A c \in Client : of[e][c] = 0
    BY <1>4
  <2> QED
    BY <2>1, <2>2, <2>3 DEF NamesInv
<1>8. SocketInv
  <2>1. \A c \in Client : c > 0
    BY ClientFacts
  <2> QED
    BY <1>4, <1>5, <2>1 DEF SocketInv, SocketOK
<1>9. KarmaQueueInv
  BY <1>4, <1>5 DEF KarmaQueueInv, KarmaQueueOK
<1>10. PacketsInv
  <2>1. \A e \in End : net[e] = <<>> /\ wout[e] = NoOut
    BY <1>5
  <2>2. DOMAIN <<>> = {}
    OBVIOUS
  <2> QED
    BY <1>2, <2>1, <2>2 DEF PacketsInv
<1>11. \A e \in End : Flight(e) = <<>>
  BY <1>2, <1>5 DEF Flight
<1>12. FlightInv
  <2>1. ASSUME NEW s, s = <<>> PROVE NamesRise(s) /\ DOMAIN s = {}
    BY <2>1 DEF NamesRise
  <2>2. \A e \in End : NamesRise(Flight(e)) /\ DOMAIN Flight(e) = {}
    BY <1>11, <2>1
  <2> QED
    BY <2>2 DEF FlightInv, FlightOK
<1>13. GoneInv
  <2>1. \A e \in End : ToldGone(e) = {} /\ HeardGone(e) = {} /\ burned[e] = {}
    BY <1>4 DEF ToldGone, HeardGone
  <2> QED
    BY <2>1, ClientFacts DEF GoneInv
<1>14. FlowInv
  <2>1. made["mux"] = 0
    BY <1>4 DEF End
  <2>2. 1..0 = {}
    OBVIOUS
  <2> QED
    BY <2>1, <2>2 DEF FlowInv
<1>15. IdReuse
  BY <1>5 DEF IdReuse
<1> QED
  BY <1>6, <1>7, <1>8, <1>9, <1>10, <1>12, <1>13, <1>14, <1>15 DEF ClientsInv

(* A step that changes nothing keeps it.                                   *)
LEMMA ClientsStutter == ASSUME ClientsInv, UNCHANGED clientVars PROVE ClientsInv'
<1>0. /\ ClientTypeOK /\ NamesInv /\ SocketInv /\ KarmaQueueInv /\ PacketsInv /\ IdReuse
  BY DEF ClientsInv
<1>1. /\ UNCHANGED <<tables, sock, rdead, burned, wkarma, rkarma, out_sz, kq>>
      /\ UNCHANGED <<polled, wq, wout, net, busy, error>>
  BY DEF clientVars, tables, state
<1>2. ClientTypeOK'
  BY <1>0, <1>1 DEF ClientTypeOK, tables
<1>3. PacketsInv' /\ IdReuse'
  BY <1>0, <1>1 DEF PacketsInv, IdReuse
<1>4. \A e \in End : Queues(wq[e], Control) => Queues(wq'[e], Control)
  BY <1>1
<1> QED
  BY <1>1, <1>2, <1>3, <1>4, ClientQuiet

(* Every step keeps the invariant, action by action.                       *)
LEMMA ClientsKept == ASSUME ClientsInv, [ClientNext]_clientVars PROVE ClientsInv'
<1>1. CASE Accept
  BY <1>1, AcceptStep
<1>2. ASSUME NEW e \in End, Grab(e) PROVE ClientsInv'
  BY <1>2, GrabAckStep, GrabDeadStep, GrabStuckStep, GrabDataStep DEF Grab
<1>3. ASSUME NEW e \in End, Mainr(e) PROVE ClientsInv'
  BY <1>3, GetClientStep, ReadDataStep, ReadKarmaStep, ReadGoneStep DEF Mainr
<1>4. ASSUME NEW e \in End, PushControl(e) \/ Poll(e) \/ WriteOut(e) PROVE ClientsInv'
  BY <1>4, PushControlStep, PollStep, WriteOutStep
<1>5. ASSUME NEW e \in End, NEW c \in Client, Connected(e, c) \/ Readable(e, c) \/ Writable(e, c)
      PROVE  ClientsInv'
  BY <1>5, ConnectedStep, ReadableStep, WritableStep
<1>6. CASE UNCHANGED clientVars
  BY <1>6, ClientsStutter
<1> QED
  BY <1>1, <1>2, <1>3, <1>4, <1>5, <1>6 DEF ClientNext

(* The inductive invariant of the clients.                                 *)
THEOREM ClientsInvariant == ClientSpec => []ClientsInv
<1>1. ClientInit => ClientsInv
  BY ClientsStart
<1>2. ClientsInv /\ [ClientNext]_clientVars => ClientsInv'
  BY ClientsKept
<1> QED
  BY <1>1, <1>2, PTL DEF ClientSpec

(* The variables have their types: the karma of a client and what is kept  *)
(* for it are within CLIENT_KARMA at both ends, whatever is on the way.    *)
THEOREM ClientTypeCorrect == ClientSpec => []ClientTypeOK
<1>1. ClientsInv => ClientTypeOK
  BY DEF ClientsInv
<1> QED
  BY <1>1, ClientsInvariant, PTL

(* An id is free at both ends before it is used again (get_client and      *)
(* do_burn_client).                                                        *)
THEOREM IdsReused == ClientSpec => []IdReuse
<1>1. ClientsInv => IdReuse
  BY DEF ClientsInv
<1> QED
  BY <1>1, ClientsInvariant, PTL

--------------------------------------------------------------------------------
(* A client that is not the one behind the id has nothing to tell.         *)
LEMMA OthersSilent ==
  ASSUME ClientsInv, NEW e \in End, NEW c \in Client, c # client[e]
  PROVE  rkarma[e][c] = 0 /\ ~Tellable(rkarma[e][c])
<1>0. /\ ClientTypeOK /\ NamesInv /\ SocketInv /\ GoneInv
  BY DEF ClientsInv
<1>1. c \in burned[e] <=> c <= made[e]
  BY <1>0 DEF NamesInv
<1>2. ~Tellable(0)
  BY ClientFacts DEF Tellable
<1>3. CASE c <= made[e]
  <2>1. c \in ToldGone(e)
    BY <1>0, <1>1, <1>3 DEF GoneInv
  <2>2. rkarma[e][c] = 0
    BY <2>1 DEF ToldGone
  <2> QED
    BY <1>2, <2>2
<1>4. CASE ~(c <= made[e])
  <2>1. c > made[e]
    BY <1>0, <1>4, ClientFacts DEF ClientTypeOK
  <2> QED
    BY <1>0, <1>2, <2>1 DEF SocketInv, SocketOK
<1> QED
  BY <1>3, <1>4

(* The karma queue is what write_ack and set_rkarma take it for.           *)
LEMMA QueuedRight == ASSUME ClientsInv PROVE KarmaQueued
<1>0. ClientTypeOK /\ NamesInv /\ SocketInv /\ KarmaQueueInv
  BY DEF ClientsInv
<1> SUFFICES ASSUME NEW e \in End
    PROVE  /\ \A c \in Client : Tellable(rkarma[e][c]) <=> Cardinality({i \in DOMAIN kq[e] : kq[e][i] = c}) = 1
           /\ Len(kq[e]) = Cardinality(Range(kq[e]))
           /\ \A c \in Range(kq[e]) : /\ c \notin burned[e]
                                      /\ c \in rdead[e] => rkarma[e][c] = -1
           /\ kq[e] # <<>> => Control \in Range(wq[e])
  BY DEF KarmaQueued
<1>1. KarmaQueueOK(e)
  BY <1>0 DEF KarmaQueueInv
<1>2. kq[e] # <<>> => Control \in Range(wq[e])
  BY <1>1 DEF KarmaQueueOK, Queues, Range
<1>3. CASE kq[e] = <<>>
  <2>1. ASSUME NEW c \in Client PROVE ~Tellable(rkarma[e][c])
    <3>1. CASE c = client[e]
      <4>1. client[e] # None
        BY <3>1, ClientFacts DEF None
      <4>2. kq[e] = IF client[e] # None /\ Tellable(rkarma[e][client[e]]) THEN <<client[e]>> ELSE <<>>
        BY <1>1 DEF KarmaQueueOK
      <4>3. <<client[e]>> # <<>>
        OBVIOUS
      <4> QED
        BY <1>3, <3>1, <4>1, <4>2, <4>3
    <3> QED
      BY <3>1, OthersSilent
  <2>2. DOMAIN kq[e] = {} /\ Range(kq[e]) = {} /\ Len(kq[e]) = 0
    BY <1>3 DEF Range
  <2>3. Cardinality({}) = 0
    BY FS_EmptySet
  <2>4. \A c \in Client : {i \in DOMAIN kq[e] : kq[e][i] = c} = {}
    BY <2>2
  <2> QED
    BY <1>2, <2>1, <2>2, <2>3, <2>4
<1>4. CASE kq[e] # <<>>
  <2>1. PICK b : b = Head(kq[e])
    OBVIOUS
  <2>2. /\ b = client[e] /\ b \notin burned[e] /\ kq[e] = <<b>>
        /\ b \in rdead[e] => rkarma[e][b] = -1
    BY <1>4, <2>1, ToTell
  <2>3. Tellable(rkarma[e][b])
    BY <1>1, <1>4, <2>2 DEF KarmaQueueOK
  <2>4. DOMAIN kq[e] = {1} /\ Range(kq[e]) = {b} /\ Len(kq[e]) = 1
    BY <2>2 DEF Range
  <2>5. Cardinality({}) = 0 /\ Cardinality({1}) = 1 /\ Cardinality({b}) = 1
    BY FS_EmptySet, FS_Singleton
  <2>6. ASSUME NEW c \in Client
        PROVE  Tellable(rkarma[e][c]) <=> Cardinality({i \in DOMAIN kq[e] : kq[e][i] = c}) = 1
    <3>1. CASE c = b
      <4>1. {i \in DOMAIN kq[e] : kq[e][i] = c} = {1}
        BY <2>2, <2>4, <3>1
      <4> QED
        BY <2>3, <2>5, <3>1, <4>1
    <3>2. CASE c # b
      <4>1. {i \in DOMAIN kq[e] : kq[e][i] = c} = {}
        BY <2>2, <2>4, <3>2
      <4>2. ~Tellable(rkarma[e][c])
        BY <2>2, <3>2, OthersSilent
      <4> QED
        BY <2>5, <4>1, <4>2
    <3> QED
      BY <3>1, <3>2
  <2> QED
    BY <1>2, <2>2, <2>4, <2>5, <2>6
<1> QED
  BY <1>3, <1>4

(* The karma of a client is what the invariant says its flow is: its twin  *)
(* bears the same name, and holds nothing before it is made.               *)
LEMMA ConservedRight == ASSUME ClientsInv PROVE KarmaConserved
<1>0. ClientTypeOK /\ NamesInv /\ SocketInv /\ FlowInv
  BY DEF ClientsInv
<1> SUFFICES ASSUME NEW e \in End, NEW c \in Client, c = client[e]
    PROVE  /\ Twins(e, c) = {} => Credit(e, c) = K
           /\ \A d \in Twins(e, c) :
                /\ Twins(e, c) = {d}
                /\ Credit(e, c) + Held(Peer(e), d) <= K
                /\ sock[Peer(e)][d] \notin {"closed", "freed"} => Credit(e, c) + Held(Peer(e), d) = K
  BY DEF KarmaConserved
<1>1. PICK g : g = Peer(e)
  OBVIOUS
<1>2. g \in End
  BY <1>1, ClientFacts
<1>3. c # None /\ c \in Nat /\ c >= 1 /\ c # 0
  BY ClientFacts DEF None
<1>4. c = made[e] /\ of[e][c] = c
  BY <1>0, <1>3, CurrentClient
<1>5. c \in 1..made["mux"]
  <2>1. made["mux"] \in Nat /\ made["demux"] \in Nat /\ made["demux"] <= made["mux"]
    BY <1>0 DEF ClientTypeOK, NamesInv, End
  <2>2. c = made["mux"] \/ c = made["demux"]
    BY <1>4 DEF End
  <2> QED
    BY <1>3, <2>1, <2>2
<1>6. Flow(e, c) <= K /\ (sock[g][c] \notin {"closed", "freed"} => Flow(e, c) = K)
  BY <1>0, <1>1, <1>5 DEF FlowInv
<1>7. Flow(e, c) = Credit(e, c) + Held(g, c)
  BY <1>1, <1>4 DEF Flow, Credit
<1>8. \A d \in Client : of[g][d] = IF d <= made[g] THEN d ELSE 0
  BY <1>0, <1>2 DEF NamesInv
<1>9. Twins(e, c) = IF c <= made[g] THEN {c} ELSE {}
  <2>1. Twins(e, c) = {d \in Client : of[g][d] = c}
    BY <1>1, <1>4 DEF Twins
  <2> QED
    BY <1>3, <1>8, <2>1
<1>10. CASE c <= made[g]
  <2>1. Twins(e, c) = {c}
    BY <1>9, <1>10
  <2> QED
    BY <1>1, <1>6, <1>7, <2>1
<1>11. CASE ~(c <= made[g])
  <2>1. c > made[g]
    BY <1>0, <1>2, <1>3, <1>11 DEF ClientTypeOK
  <2>2. sock[g][c] = "none" /\ out_sz[g][c] = 0 /\ rkarma[g][c] = 0
    BY <1>0, <1>2, <2>1 DEF SocketInv, SocketOK
  <2>3. Held(g, c) = 0
    BY <2>2 DEF Held, Positive
  <2>4. Credit(e, c) \in Nat
    <3>1. wkarma[e][c] \in Nat /\ Sent(e, c, "data") \in Nat /\ Sent(g, c, "ack") \in Nat
      BY <1>0, <1>2, FlowParts
    <3>2. Credit(e, c) = wkarma[e][c] + Sent(e, c, "data") + Sent(g, c, "ack")
      BY <1>1, <1>4 DEF Credit
    <3> QED
      BY <3>1, <3>2
  <2>5. Credit(e, c) = K
    BY <1>6, <1>7, <2>2, <2>3, <2>4
  <2>6. Twins(e, c) = {}
    BY <1>9, <1>11
  <2> QED
    BY <2>5, <2>6
<1> QED
  BY <1>10, <1>11

(* What write_ack and set_rkarma assert of the karma queue: a client is in *)
(* it exactly once when it has something to tell, never when it is burned. *)
THEOREM KarmaAlwaysQueued == ClientSpec => []KarmaQueued
<1>1. ClientsInv => KarmaQueued
  BY QueuedRight
<1> QED
  BY <1>1, ClientsInvariant, PTL

(* No client is ever allowed to send more than CLIENT_KARMA, and none of   *)
(* the allowance is lost while its twin lives: read_ack, write_ack,        *)
(* grab_client_packet and clientw only move it about.                      *)
THEOREM KarmaAlwaysConserved == ClientSpec => []KarmaConserved
<1>1. ClientsInv => KarmaConserved
  BY ConservedRight
<1> QED
  BY <1>1, ClientsInvariant, PTL
================================================================================
