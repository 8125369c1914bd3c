----------------------------- MODULE TrackTrim -----------------------------
(***************************************************************************)
(* Trimming the set of tracked objects: offGcMarkOffloadRefs and           *)
(* offGcDoTrackTrim of offload/Comm.cpp, with the OFF_ACTION_TRIMGC that   *)
(* starts it at the other endpoint (offload/Threading.cpp) and the         *)
(* identifiers it gives back (addTrackedObjectIdLocked).                   *)
(*                                                                         *)
(* An object both endpoints know has one identifier and a copy on each     *)
(* side, so neither may collect its copy while the other can still reach   *)
(* the object.  A collection that runs before an out-of-memory error       *)
(* therefore marks both heaps together: with both VMs suspended the two    *)
(* endpoints exchange the marked identifiers, round after round, until no  *)
(* round marks anything new, and then each forgets what is not marked.     *)
(*                                                                         *)
(* A heap is its roots and the references between tracked objects, an      *)
(* untracked object being part of the path between two tracked ones.       *)
(* An object is told from a later one with the same identifier by its      *)
(* serial number.  Ordinary collections keep every tracked object          *)
(* (doPreserve) and change nothing here.                                   *)
(***************************************************************************)

EXTENDS Naturals, Sequences, FiniteSets

CONSTANTS
  PhoneIds, ServerIds,    \* identifiers by the endpoint that gives them out
  PhoneRefs, ServerRefs,  \* the references in the two heaps at the start
  JunkIds,                \* identifiers at even places of their table
  MaxStarts,              \* bound: trims an endpoint starts by itself
  MaxSerial               \* bound: objects one identifier stands for at a time

ASSUME TrimAssumption ==
  /\ PhoneIds \cap ServerIds = {}
  /\ PhoneRefs \subseteq (PhoneIds \cup ServerIds) \X (PhoneIds \cup ServerIds)
  /\ ServerRefs \subseteq (PhoneIds \cup ServerIds) \X (PhoneIds \cup ServerIds)
  /\ JunkIds \subseteq PhoneIds \cup ServerIds
  /\ MaxStarts \in Nat /\ MaxSerial \in Nat \ {0}

VARIABLES
  table,      \* objTables: the object with the identifier, 0 for none
  roots,      \* tracked objects the running threads reach directly
  refs,       \* references between tracked objects
  queue,      \* offWriteQueue: objects of which the peer lacks something
  push,       \* the push on its way to the endpoint, if there is one
  phase,      \* run, or what a trim waits for: vec or work
  mark,       \* the mark bits of the tracked objects
  work,       \* this endpoint marked something in this round
  stream,     \* what gcThreadContext has yet to read at the endpoint
  trimgc,     \* OFF_ACTION_TRIMGC under way to the endpoint, how many
  starts,     \* trims the endpoint has started by itself
  connected,  \* offConnected
  live,       \* what is reachable when both heaps have come to rest (history)
  crossed,    \* a trim has ended with a push under way (history)
  mixup       \* a push was taken for another object, or an empty one (history)

vars == <<table, roots, refs, queue, push, phase, mark, work, stream, trimgc,
          starts, connected, live, crossed, mixup>>

Ids == PhoneIds \cup ServerIds
End == {"phone", "server"}

\* The other endpoint.
Peer(e) == IF e = "phone" THEN "server" ELSE "phone"

\* The identifiers the endpoint gives out, ADD_ID_MASK(nextId).
OwnIds(e) == IF e = "phone" THEN PhoneIds ELSE ServerIds

\* info->obj is set.
Tracked(e) == {i \in Ids : table[e][i] # 0}

NoPush == [sent |-> {}]

\* The objects, by serial number, the identifier stands for somewhere.
Serials(i) ==
  {table[e][i] : e \in End} \cup {push[e].obj[i] : e \in {x \in End : i \in push[x].sent}}

\* Every identifier in use, known to both endpoints.
Init ==
  /\ table = [e \in End |-> [i \in Ids |-> 1]]
  /\ roots \in [End -> SUBSET Ids]
  /\ refs = [e \in End |-> IF e = "phone" THEN PhoneRefs ELSE ServerRefs]
  /\ queue = [e \in End |-> {}]
  /\ push = [e \in End |-> NoPush]
  /\ phase = [e \in End |-> "run"]
  /\ mark = [e \in End |-> {}]
  /\ work = [e \in End |-> FALSE]
  /\ stream = [e \in End |-> <<>>]
  /\ trimgc = [e \in End |-> 0]
  /\ starts = [e \in End |-> 0]
  /\ connected = TRUE
  /\ live = [e \in End |-> {}]
  /\ crossed = FALSE
  /\ mixup = FALSE

-----------------------------------------------------------------------------
(* Reachability. *)

\* dvmProcessMarkStack: the least set with these objects and all they refer to.
Close(e, from) ==
  {i \in Ids : \A c \in SUBSET Ids :
     from \subseteq c /\ (\A r \in refs[e] : r[1] \in c => r[2] \in c) => i \in c}

\* The copies, at both endpoints, that one of the two can come to use: reached
\* from roots, by references, or because the other copy is.
Reached ==
  LET copies == {n \in End \X Ids : table[n[1]][n[2]] # 0}
      closed(c) ==
        /\ \A e \in End : \A i \in roots[e] : <<e, i>> \in c
        /\ \A e \in End : \A r \in refs[e] : <<e, r[1]>> \in c => <<e, r[2]>> \in c
        /\ \A n \in c : <<Peer(n[1]), n[2]>> \in copies => <<Peer(n[1]), n[2]>> \in c
  IN {n \in copies : \A c \in SUBSET copies : closed(c) => n \in c}

-----------------------------------------------------------------------------
(* The program: threads drop references, track new objects and push. *)

\* A thread drops its reference to an object.
Drop(e) ==
  /\ phase[e] = "run"
  /\ \E i \in roots[e] : roots' = [roots EXCEPT ![e] = @ \ {i}]
  /\ UNCHANGED <<table, refs, queue, push, phase, mark, work, stream, trimgc,
                 starts, connected, live, crossed, mixup>>

\* Mutant: the new object does not go to the write queue.
TrackUnqueued(e) ==
  /\ phase[e] = "run"
  /\ \E i \in OwnIds(e) :
       /\ table[e][i] = 0
       /\ \E n \in 1 .. MaxSerial :
            /\ n \notin Serials(i) /\ \A m \in 1 .. (n - 1) : m \in Serials(i)
            /\ table' = [table EXCEPT ![e][i] = n]
       /\ roots' = [roots EXCEPT ![e] = @ \cup {i}]
  /\ UNCHANGED <<refs, queue, push, phase, mark, work, stream, trimgc, starts,
                 connected, live, crossed, mixup>>

\* offAddTrackedObject: nextId runs over the identifiers until one is free; the
\* object goes to the write queue with all its fields dirty.
Track(e) ==
  /\ phase[e] = "run"
  /\ \E i \in OwnIds(e) :
       /\ table[e][i] = 0
       /\ \E n \in 1 .. MaxSerial :
            /\ n \notin Serials(i) /\ \A m \in 1 .. (n - 1) : m \in Serials(i)
            /\ table' = [table EXCEPT ![e][i] = n]
       /\ roots' = [roots EXCEPT ![e] = @ \cup {i}]
       /\ queue' = [queue EXCEPT ![e] = @ \cup {i}]
  /\ UNCHANGED <<refs, push, phase, mark, work, stream, trimgc, starts,
                 connected, live, crossed, mixup>>

\* offSyncPush: the objects on the write queue, which is emptied, and the
\* identifier of an object a thread reaches.
Push(e) ==
  /\ phase[e] = "run" /\ connected /\ push[Peer(e)] = NoPush
  /\ \E i \in Close(e, roots[e]) :
       push' = [push EXCEPT ![Peer(e)] =
                  [sent |-> queue[e] \cup {i}, full |-> queue[e], obj |-> table[e]]]
  /\ queue' = [queue EXCEPT ![e] = {}]
  /\ UNCHANGED <<table, roots, refs, phase, mark, work, stream, trimgc, starts,
                 connected, live, crossed, mixup>>

\* offSyncPull, readValue: an identifier that is not in the table gets a new
\* object with zeroed fields, which is right only for an object sent whole.
Pull(e) ==
  LET p == push[e]
  IN /\ phase[e] = "run" /\ connected /\ p # NoPush
     /\ push' = [push EXCEPT ![e] = NoPush]
     /\ roots' = [roots EXCEPT ![e] = @ \cup p.sent]
     /\ table' = [table EXCEPT ![e] = [i \in Ids |->
                    IF i \in p.sent /\ @[i] = 0 THEN p.obj[i] ELSE @[i]]]
     /\ mixup' = (mixup \/ \E i \in p.sent :
                    table[e][i] \notin (IF i \in p.full THEN {0, p.obj[i]} ELSE {p.obj[i]}))
     /\ UNCHANGED <<refs, queue, phase, mark, work, stream, trimgc, starts,
                    connected, live, crossed>>

\* The connection goes: what has not been read is not read any more, and what
\* is written from now on reaches nobody.
Lose ==
  /\ connected
  /\ connected' = FALSE
  /\ push' = [e \in End |-> NoPush]
  /\ stream' = [e \in End |-> <<>>]
  /\ trimgc' = [e \in End |-> 0]
  /\ UNCHANGED <<table, roots, refs, queue, phase, mark, work, starts, live,
                 crossed, mixup>>

-----------------------------------------------------------------------------
(* The trim. *)

\* The marked tracked objects, or the work flag, to the other endpoint.
Send(e, m, s) ==
  IF connected THEN [s EXCEPT ![Peer(e)] = Append(@, m)] ELSE s

\* dvmCollectGarbageInternal up to the first bit vector: the VM is suspended and
\* what the roots reach is marked.  Where the peer's first bit vector is already
\* there both heaps have come to rest, which settles what must survive.
BeginMarking(e) ==
  /\ phase[e] = "run"
  /\ phase' = [phase EXCEPT ![e] = "vec"]
  /\ mark' = [mark EXCEPT ![e] = Close(e, roots[e]) \cap Tracked(e)]
  /\ stream' = Send(e, [vec |-> mark'[e]], stream)
  /\ live' = IF stream[e] = <<>> THEN live
             ELSE [x \in End |-> {i \in Ids : <<x, i>> \in Reached}]
  /\ UNCHANGED <<table, roots, refs, queue, push, work, connected, crossed, mixup>>

\* A thread out of memory: OFF_ACTION_TRIMGC to the other endpoint and on.
StartTrim(e) ==
  /\ starts[e] < MaxStarts
  /\ starts' = [starts EXCEPT ![e] = @ + 1]
  /\ trimgc' = [trimgc EXCEPT ![Peer(e)] = IF connected THEN @ + 1 ELSE @]
  /\ BeginMarking(e)

\* thread_daemon on OFF_ACTION_TRIMGC: once the heap lock is free and no
\* collection is running, the same collection with offTrimSignaled set.
AnswerTrim(e) ==
  /\ trimgc[e] > 0 /\ connected
  /\ trimgc' = [trimgc EXCEPT ![e] = @ - 1]
  /\ BeginMarking(e)
  /\ UNCHANGED starts

\* The peer's bit vector marks what is tracked here and was not marked.
ReadVector(e) ==
  LET news == (Head(stream[e]).vec \cap Tracked(e)) \ mark[e]
  IN /\ phase[e] = "vec" /\ connected /\ stream[e] # <<>>
     /\ mark' = [mark EXCEPT ![e] = @ \cup news]
     /\ work' = [work EXCEPT ![e] = news # {}]
     /\ stream' = Send(e, [work |-> work'[e]], [stream EXCEPT ![e] = Tail(@)])
     /\ phase' = [phase EXCEPT ![e] = "work"]
     /\ UNCHANGED <<table, roots, refs, queue, push, trimgc, starts, connected,
                    live, crossed, mixup>>

\* Mutant: what the new marks refer to is left out.
RoundUnscanned(e) ==
  /\ phase' = [phase EXCEPT ![e] = "vec"]
  /\ UNCHANGED <<table, roots, refs, queue, push, work, trimgc, starts, mark,
                 connected, live, crossed, mixup>>

\* One of the two has marked something: mark on from there, next round.
NextRound(e) ==
  /\ mark' = [mark EXCEPT ![e] = Close(e, @) \cap Tracked(e)]
  /\ phase' = [phase EXCEPT ![e] = "vec"]
  /\ UNCHANGED <<table, roots, refs, queue, push, work, trimgc, starts,
                 connected, live, crossed, mixup>>

\* Mutant: only this endpoint's own work counts.
ReadOwnWork(e) ==
  /\ phase[e] = "work" /\ connected /\ stream[e] # <<>>
  /\ work[e]
  /\ NextRound(e)
  /\ stream' = Send(e, [vec |-> mark'[e]], [stream EXCEPT ![e] = Tail(@)])

\* Mutant: with work of its own the endpoint leaves the peer's flag unread.
ReadWorkLazily(e) ==
  /\ phase[e] = "work" /\ connected /\ stream[e] # <<>>
  /\ work[e] \/ Head(stream[e]).work
  /\ NextRound(e)
  /\ stream' = Send(e, [vec |-> mark'[e]],
                    IF work[e] THEN stream ELSE [stream EXCEPT ![e] = Tail(@)])

\* The peer's flag says work, or this endpoint's does.
ReadWork(e) ==
  /\ phase[e] = "work" /\ connected /\ stream[e] # <<>>
  /\ work[e] \/ Head(stream[e]).work
  /\ NextRound(e)
  /\ stream' = Send(e, [vec |-> mark'[e]], [stream EXCEPT ![e] = Tail(@)])

\* Mutant: the write queue keeps the trimmed objects.
TrimUnpurged(e) ==
  /\ phase[e] = "work" /\ connected /\ stream[e] # <<>>
  /\ ~work[e] /\ ~Head(stream[e]).work
  /\ stream' = [stream EXCEPT ![e] = Tail(@)]
  /\ table' = [table EXCEPT ![e] = [i \in Ids |-> IF i \in mark[e] THEN @[i] ELSE 0]]
  /\ refs' = [refs EXCEPT ![e] = {r \in @ : r[1] \in mark[e] /\ r[2] \in mark[e]}]
  /\ crossed' = (crossed \/ \E x \in End : push[x] # NoPush)
  /\ phase' = [phase EXCEPT ![e] = "run"]
  /\ mark' = [mark EXCEPT ![e] = {}]
  /\ live' = [live EXCEPT ![e] = {}]
  /\ UNCHANGED <<roots, queue, push, work, trimgc, starts, connected, mixup>>

\* Nobody marked anything: the objects not marked lose their identifiers, the
\* write queue those of its objects, and the sweep frees them.
Trim(e) ==
  /\ phase[e] = "work" /\ connected /\ stream[e] # <<>>
  /\ ~work[e] /\ ~Head(stream[e]).work
  /\ stream' = [stream EXCEPT ![e] = Tail(@)]
  /\ table' = [table EXCEPT ![e] = [i \in Ids |-> IF i \in mark[e] THEN @[i] ELSE 0]]
  /\ refs' = [refs EXCEPT ![e] = {r \in @ : r[1] \in mark[e] /\ r[2] \in mark[e]}]
  /\ queue' = [queue EXCEPT ![e] = @ \cap mark[e]]
  /\ crossed' = (crossed \/ \E x \in End : push[x] # NoPush)
  /\ phase' = [phase EXCEPT ![e] = "run"]
  /\ mark' = [mark EXCEPT ![e] = {}]
  /\ live' = [live EXCEPT ![e] = {}]
  /\ UNCHANGED <<roots, push, work, trimgc, starts, connected, mixup>>

\* Without a connection offReadBuffer hands out bytes of 0x55: a bit vector with
\* every second bit set, and a work flag that reads as true.
ReadLost(e) ==
  /\ ~connected
  /\ \/ /\ phase[e] = "vec"
        /\ mark' = [mark EXCEPT ![e] = @ \cup (JunkIds \cap Tracked(e))]
        /\ phase' = [phase EXCEPT ![e] = "work"]
        /\ UNCHANGED <<table, roots, refs, queue, push, work, trimgc, starts,
                       connected, live, crossed, mixup>>
     \/ phase[e] = "work" /\ NextRound(e)
  /\ UNCHANGED stream

-----------------------------------------------------------------------------
Mutate(e) == Drop(e) \/ Track(e) \/ Push(e) \/ Pull(e)

Collect(e) ==
  \/ AnswerTrim(e) \/ ReadVector(e) \/ ReadWork(e) \/ Trim(e) \/ ReadLost(e)

Next ==
  \/ Lose
  \/ \E e \in End : Mutate(e) \/ StartTrim(e) \/ Collect(e)

Spec == Init /\ [][Next]_vars

\* A daemon serves the request that has arrived, and a collection goes on as soon
\* as what it reads is there.
FairSpec == Spec /\ \A e \in End : WF_vars(Collect(e))
-----------------------------------------------------------------------------
(* The properties. *)

\* Types: messages are bit vectors and flags.
TypeOK ==
  /\ table \in [End -> [Ids -> 0 .. MaxSerial]]
  /\ roots \in [End -> SUBSET Ids]
  /\ refs \in [End -> SUBSET (Ids \X Ids)]
  /\ queue \in [End -> SUBSET Ids]
  /\ push \in [End -> {NoPush} \cup [sent : SUBSET Ids, full : SUBSET Ids,
                              obj : [Ids -> 0 .. MaxSerial]]]
  /\ phase \in [End -> {"run", "vec", "work"}]
  /\ mark \in [End -> SUBSET Ids]
  /\ work \in [End -> BOOLEAN]
  /\ stream \in [End -> Seq([vec : SUBSET Ids] \cup [work : BOOLEAN])]
  /\ trimgc \in [End -> 0 .. MaxStarts]
  /\ starts \in [End -> 0 .. MaxStarts]
  /\ connected \in BOOLEAN
  /\ live \in [End -> SUBSET Ids]
  /\ crossed \in BOOLEAN
  /\ mixup \in BOOLEAN

\* gcThreadContext carries two trims that both endpoints started at once, and
\* trims one after the other, without the reader ever being out of step: a bit
\* vector is there where one is read, a flag where a flag is (offGcDoTrackTrim).
InStep ==
  \A e \in End : connected /\ stream[e] # <<>> =>
    /\ phase[e] \in {"run", "vec"} => "vec" \in DOMAIN Head(stream[e])
    /\ phase[e] = "work" => "work" \in DOMAIN Head(stream[e])

\* A trim keeps exactly the copies that were reachable at either endpoint when
\* both heaps had come to rest: none that the other endpoint still needs is lost,
\* and a cycle through both heaps is collected.
ExactTrim ==
  [][\A e \in End : phase[e] = "work" /\ phase'[e] = "run" =>
       {i \in Ids : table'[e][i] # 0} = live[e]]_vars

\* The object the write queue names is still tracked, so that the push finds its
\* info (offSyncPushDoIf asserts it) and never follows a freed object.
QueueTracked == \A e \in End : queue[e] \subseteq Tracked(e)

\* As long as no trim has ended with a push under way, an identifier means the same
\* object at both endpoints, and one that is known at one endpoint only will be
\* sent whole.
SameObjects ==
  connected /\ ~crossed =>
    /\ ~mixup
    /\ (\A e \in End : phase[e] = "run" /\ stream[e] = <<>>) =>
         \A e \in End : \A i \in Tracked(e) :
           LET p == Peer(e)
           IN \/ table[p][i] = table[e][i]
              \/ table[p][i] = 0 /\ (i \in queue[e] \/ i \in push[p].sent)

\* A trim comes to an end as long as the connection holds, whoever started it and
\* whether or not both did (offGcDoTrackTrim, OFF_ACTION_TRIMGC).
TrimEnds == \A e \in End : phase[e] # "run" ~> (phase[e] = "run" \/ ~connected)

-----------------------------------------------------------------------------
(* What the comments of the code say, and the code does not do. *)

\* offload/Control.cpp, message_loop: when the connection is lost, whoever waits
\* for the other endpoint to do something is woken and goes on.
LossEndsTrim == \A e \in End : phase[e] # "run" ~> phase[e] = "run"

\* offload/Comm.h: offIdToObject gives the object associated with the identifier.
NoMixup == ~mixup
=============================================================================
