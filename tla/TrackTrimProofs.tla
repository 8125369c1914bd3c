-------------------------- MODULE TrackTrimProofs --------------------------
(***************************************************************************)
(* Proofs about TrackTrim, for any identifiers and any two heaps: type     *)
(* correctness, that the write queue names tracked objects (QueueTracked), *)
(* that the two endpoints stay in step (InStep), that a trim keeps exactly *)
(* what one of the two heaps reaches (ExactTrim), that an identifier means *)
(* one object at both endpoints (SameObjects), and that nobody is stuck in *)
(* a trim (TrimMoves).                                                     *)
(*                                                                         *)
(* Close and Reached are least sets, given as what belongs to every set    *)
(* that is closed, so that a proof instantiates them and needs no          *)
(* induction over paths.                                                   *)
(***************************************************************************)
EXTENDS TrackTrim, SequenceTheorems, TLAPS

-----------------------------------------------------------------------------
(* Sets of identifiers of one heap. *)

\* No reference of the heap leads out of the set.
Closed(e, c) == \A r \in refs[e] : r[1] \in c => r[2] \in c

\* The set a at e is known as b at the other endpoint, as far as it is tracked there.
Crosses(e, a, b) == a \cap Tracked(Peer(e)) \subseteq b

\* What of a heap is reached from one of the two.
ReachedAt(e) == {i \in Ids : <<e, i>> \in Reached}

\* Sets that hold the roots, and all that is reached from them, at both endpoints.
Covers(c) ==
  \A e \in End : /\ c[e] \subseteq Tracked(e) /\ roots[e] \subseteq c[e]
                 /\ Closed(e, c[e]) /\ Crosses(e, c[e], c[Peer(e)])

-----------------------------------------------------------------------------
(* The invariant. *)

\* Requests under way are of trims the other endpoint has started.
AskInv == \A e \in End : trimgc[Peer(e)] <= starts[e]

\* A heap consists of tracked objects; a push under way names objects its sender
\* tracked; and who is in a trim has marked the roots.
HeapInv ==
  \A e \in End :
    /\ roots[e] \subseteq Tracked(e)
    /\ refs[e] \subseteq Tracked(e) \X Tracked(e)
    /\ queue[e] \subseteq Tracked(e)
    /\ push[e] # NoPush => \A i \in push[e].sent : i \in Ids /\ push[e].obj[i] # 0
    /\ phase[e] # "run" => mark[e] \subseteq Tracked(e) /\ roots[e] \subseteq mark[e]

\* Both endpoints are in the same trim: live is what both heaps reach together,
\* and nothing else has been marked.
Joint ==
  /\ Covers(live)
  /\ \A c \in [End -> SUBSET Ids] : Covers(c) => \A e \in End : live[e] \subseteq c[e]
  /\ \A e \in End : mark[e] \subseteq live[e]

\* Where the two endpoints are: no trim...
Apart == \A e \in End : phase[e] = "run" /\ stream[e] = <<>>

\* ...e has started one and the other has not come to it...
Alone(e) ==
  /\ phase[e] = "vec" /\ phase[Peer(e)] = "run"
  /\ stream[e] = <<>> /\ stream[Peer(e)] = <<[vec |-> mark[e]]>>
  /\ mark[e] = Close(e, roots[e]) \cap Tracked(e)

\* ...both have a bit vector to read...
Vectors ==
  /\ \A e \in End : /\ phase[e] = "vec" /\ stream[e] = <<[vec |-> mark[Peer(e)]]>>
                    /\ Closed(e, mark[e])
  /\ Joint

\* ...e has read the other's, and the other not yet what e marked before...
Answered(e) ==
  /\ phase[e] = "work" /\ phase[Peer(e)] = "vec"
  /\ stream[e] = <<>>
  /\ \E v \in SUBSET Ids :
       /\ stream[Peer(e)] = <<[vec |-> v], [work |-> work[e]]>>
       /\ v \subseteq mark[e]
       /\ ~work[e] => v = mark[e] /\ Closed(e, mark[e])
  /\ Closed(Peer(e), mark[Peer(e)])
  /\ Crosses(Peer(e), mark[Peer(e)], mark[e])
  /\ Joint

\* ...both have a flag to read...
Flags ==
  /\ \A e \in End :
       /\ phase[e] = "work" /\ stream[e] = <<[work |-> work[Peer(e)]]>>
       /\ ~work[e] => Closed(e, mark[e]) /\ Crosses(e, mark[e], mark[Peer(e)])
  /\ Joint

\* ...the other has read it and begun the next round, or, if the flags end the
\* trim, the next trim...
Onward(e) ==
  /\ phase[e] = "work" /\ phase[Peer(e)] = "vec"
  /\ stream[Peer(e)] = <<>>
  /\ \E b \in BOOLEAN :
       /\ stream[e] = <<[work |-> b], [vec |-> mark[Peer(e)]]>>
       /\ b \/ work[e] => Joint /\ Closed(Peer(e), mark[Peer(e)])
       /\ ~(b \/ work[e]) =>
            /\ mark[e] = live[e]
            /\ mark[Peer(e)] = Close(Peer(e), roots[Peer(e)]) \cap Tracked(Peer(e))

\* ...or has left the trim.
Behind(e) ==
  /\ phase[e] = "work" /\ phase[Peer(e)] = "run"
  /\ stream[Peer(e)] = <<>> /\ stream[e] = <<[work |-> FALSE]>>
  /\ ~work[e] /\ mark[e] = live[e]

Together ==
  \/ Apart \/ Vectors \/ Flags
  \/ \E e \in End : Alone(e) \/ Answered(e) \/ Onward(e) \/ Behind(e)

TrimInv == connected => Together

IInv == TypeOK /\ AskInv /\ HeapInv /\ TrimInv
-----------------------------------------------------------------------------
(* The two endpoints, and the two least sets. *)

LEMMA EndFacts ==
  ASSUME NEW e \in End
  PROVE  /\ Peer(e) \in End /\ Peer(e) # e /\ Peer(Peer(e)) = e
         /\ End = {e, Peer(e)}
BY DEF End, Peer

LEMMA CloseFacts ==
  ASSUME NEW e \in End, NEW from \in SUBSET Ids, refs[e] \subseteq Ids \X Ids
  PROVE  /\ from \subseteq Close(e, from)
         /\ Close(e, from) \subseteq Ids
         /\ Closed(e, Close(e, from))
         /\ \A c \in SUBSET Ids : from \subseteq c /\ Closed(e, c) => Close(e, from) \subseteq c
<1>1. from \subseteq Close(e, from) /\ Close(e, from) \subseteq Ids
  BY DEF Close
<1>2. Closed(e, Close(e, from))
  <2> SUFFICES ASSUME NEW r \in refs[e], r[1] \in Close(e, from)
               PROVE  r[2] \in Close(e, from)
    BY DEF Closed
  <2>1. r[1] \in Ids /\ r[2] \in Ids
    OBVIOUS
  <2>2. QED
    BY <2>1 DEF Close
<1>3. ASSUME NEW c \in SUBSET Ids, from \subseteq c, Closed(e, c)
      PROVE  Close(e, from) \subseteq c
  BY <1>3 DEF Close, Closed
<1>4. QED
  BY <1>1, <1>2, <1>3

\* With tracked objects only, the mark phase stays inside the table.
LEMMA MarkFacts ==
  ASSUME TypeOK, HeapInv, NEW e \in End, NEW from \in SUBSET Ids, from \subseteq Tracked(e)
  PROVE  /\ Close(e, from) \cap Tracked(e) = Close(e, from)
         /\ from \subseteq Close(e, from)
         /\ Close(e, from) \in SUBSET Ids
         /\ Closed(e, Close(e, from))
         /\ \A c \in SUBSET Ids : from \subseteq c /\ Closed(e, c) => Close(e, from) \subseteq c
<1>1. Tracked(e) \in SUBSET Ids /\ Closed(e, Tracked(e))
  BY DEF HeapInv, Closed, Tracked
<1>2. refs[e] \subseteq Ids \X Ids
  BY DEF TypeOK
<1>3. QED
  BY <1>1, <1>2, CloseFacts

LEMMA ReachedFacts ==
  ASSUME TypeOK, HeapInv
  PROVE  /\ Covers([e \in End |-> ReachedAt(e)])
         /\ \A c \in [End -> SUBSET Ids] :
              Covers(c) => \A e \in End : ReachedAt(e) \subseteq c[e]
<1> DEFINE copies == {n \in End \X Ids : table[n[1]][n[2]] # 0}
           closed(c) ==
             /\ \A e \in End : \A i \in roots[e] : <<e, i>> \in c
             /\ \A e \in End : \A r \in refs[e] : <<e, r[1]>> \in c => <<e, r[2]>> \in c
             /\ \A n \in c : <<Peer(n[1]), n[2]>> \in copies => <<Peer(n[1]), n[2]>> \in c
<1>0. Reached = {n \in copies : \A c \in SUBSET copies : closed(c) => n \in c}
  BY DEF Reached
<1> HIDE DEF closed
<1>1. ASSUME NEW e \in End, NEW i \in Ids PROVE <<e, i>> \in copies <=> i \in Tracked(e)
  BY DEF Tracked
<1>2. \A e \in End : ReachedAt(e) \subseteq Tracked(e) /\ ReachedAt(e) \subseteq Ids
  BY <1>0, <1>1 DEF ReachedAt
<1> HIDE DEF copies
<1>3. \A e \in End : roots[e] \subseteq ReachedAt(e)
  <2> SUFFICES ASSUME NEW e \in End, NEW i \in roots[e] PROVE <<e, i>> \in Reached /\ i \in Ids
    BY DEF ReachedAt
  <2>1. i \in Ids /\ i \in Tracked(e)
    BY DEF TypeOK, HeapInv
  <2>2. QED
    BY <2>1, <1>0, <1>1 DEF closed
<1>4. \A e \in End : Closed(e, ReachedAt(e))
  <2> SUFFICES ASSUME NEW e \in End, NEW r \in refs[e], r[1] \in ReachedAt(e)
               PROVE  r[2] \in ReachedAt(e)
    BY DEF Closed
  <2>1. r[2] \in Ids /\ r[2] \in Tracked(e) /\ <<e, r[1]>> \in Reached
    <3>1. r \in Tracked(e) \X Tracked(e)
      BY DEF HeapInv
    <3>2. QED
      BY <3>1 DEF Tracked, ReachedAt
  <2>2. <<e, r[2]>> \in copies
    BY <2>1, <1>1
  <2>3. ASSUME NEW c \in SUBSET copies, closed(c) PROVE <<e, r[2]>> \in c
    BY <2>1, <2>3, <1>0 DEF closed
  <2>4. QED
    BY <2>1, <2>2, <2>3, <1>0 DEF ReachedAt
<1>5. \A e \in End : Crosses(e, ReachedAt(e), ReachedAt(Peer(e)))
  <2> SUFFICES ASSUME NEW e \in End, NEW i \in ReachedAt(e), i \in Tracked(Peer(e))
               PROVE  i \in ReachedAt(Peer(e))
    BY DEF Crosses
  <2>1. i \in Ids /\ <<e, i>> \in Reached /\ Peer(e) \in End
    BY EndFacts DEF ReachedAt
  <2>2. <<Peer(e), i>> \in copies
    BY <2>1, <1>1
  <2>3. ASSUME NEW c \in SUBSET copies, closed(c) PROVE <<Peer(e), i>> \in c
    <3>1. <<e, i>> \in c
      BY <2>1, <2>3, <1>0
    <3>2. QED
      BY <3>1, <2>2, <2>3 DEF closed
  <2>4. QED
    BY <2>1, <2>2, <2>3, <1>0 DEF ReachedAt
<1>6. ASSUME NEW c \in [End -> SUBSET Ids], Covers(c), NEW e \in End, NEW i \in ReachedAt(e)
      PROVE  i \in c[e]
  <2> DEFINE d == {n \in copies : n[2] \in c[n[1]]}
  <2>1. ASSUME NEW x \in End, NEW j \in Ids PROVE <<x, j>> \in d <=> j \in c[x]
    BY <1>1, <1>6 DEF Covers, copies
  <2>2. closed(d)
    <3>1. \A x \in End : \A j \in roots[x] : <<x, j>> \in d
      BY <2>1, <1>6 DEF Covers, TypeOK
    <3>2. \A x \in End : \A r \in refs[x] : <<x, r[1]>> \in d => <<x, r[2]>> \in d
      <4> SUFFICES ASSUME NEW x \in End, NEW r \in refs[x], <<x, r[1]>> \in d
                   PROVE  <<x, r[2]>> \in d
        OBVIOUS
      <4>1. r[1] \in Ids /\ r[2] \in Ids
        BY DEF TypeOK
      <4> HIDE DEF d
      <4>2. r[1] \in c[x]
        BY <4>1, <2>1
      <4>3. r[2] \in c[x]
        BY <4>2, <1>6 DEF Covers, Closed
      <4>4. QED
        BY <4>1, <4>3, <2>1
    <3>3. \A n \in d : <<Peer(n[1]), n[2]>> \in copies => <<Peer(n[1]), n[2]>> \in d
      <4> SUFFICES ASSUME NEW n \in d, <<Peer(n[1]), n[2]>> \in copies
                   PROVE  <<Peer(n[1]), n[2]>> \in d
        OBVIOUS
      <4>1. n[1] \in End /\ n[2] \in Ids /\ n[2] \in c[n[1]]
        BY DEF copies
      <4>2. Peer(n[1]) \in End /\ n[2] \in Tracked(Peer(n[1]))
        BY <4>1, <1>1, EndFacts
      <4>3. n[2] \in c[Peer(n[1])]
        BY <4>1, <4>2, <1>6 DEF Covers, Crosses
      <4> HIDE DEF d
      <4>4. QED
        BY <4>1, <4>2, <4>3, <2>1
    <3> HIDE DEF d
    <3>4. QED
      BY <3>1, <3>2, <3>3 DEF closed
  <2>3. d \in SUBSET copies
    OBVIOUS
  <2> HIDE DEF d
  <2>4. <<e, i>> \in d /\ i \in Ids
    BY <2>2, <2>3, <1>0 DEF ReachedAt
  <2>5. QED
    BY <2>1, <2>4
<1>7. Covers([e \in End |-> ReachedAt(e)])
  BY <1>2, <1>3, <1>4, <1>5, EndFacts DEF Covers
<1>8. QED
  BY <1>6, <1>7
-----------------------------------------------------------------------------
(* Types. *)

LEMMA InitType == Init => TypeOK /\ AskInv
<1> SUFFICES ASSUME Init PROVE TypeOK /\ AskInv
  OBVIOUS
<1>1. 1 \in 0 .. MaxSerial /\ 0 \in 0 .. MaxStarts
  BY TrimAssumption
<1>2. refs \in [End -> SUBSET (Ids \X Ids)]
  BY TrimAssumption DEF Init, Ids
<1>3. stream \in [End -> Seq([vec : SUBSET Ids] \cup [work : BOOLEAN])]
  BY DEF Init
<1>4. QED
  <2>1. AskInv
    BY EndFacts DEF Init, AskInv
  <2>2. table \in [End -> [Ids -> 0 .. MaxSerial]] /\ trimgc \in [End -> 0 .. MaxStarts]
        /\ starts \in [End -> 0 .. MaxStarts]
    BY <1>1 DEF Init
  <2>3. QED
    BY <2>1, <2>2, <1>2, <1>3 DEF Init, TypeOK

\* What a step writes and reads stays a message.
LEMMA SendType ==
  ASSUME NEW M, NEW s \in [End -> Seq(M)], NEW m \in M, NEW e \in End
  PROVE  /\ Send(e, m, s) \in [End -> Seq(M)]
         /\ s[e] # <<>> => [s EXCEPT ![e] = Tail(@)] \in [End -> Seq(M)] /\ Head(s[e]) \in M
BY EndFacts DEF Send

LEMMA TypeStep ==
  ASSUME TypeOK, AskInv, HeapInv, [Next]_vars
  PROVE  TypeOK'
<1> DEFINE M == [vec : SUBSET Ids] \cup [work : BOOLEAN]
<1>0. stream \in [End -> Seq(M)]
  BY DEF TypeOK
<1> HIDE DEF M
<1>v. \A v \in SUBSET Ids : [vec |-> v] \in M
  BY DEF M
<1>w. \A b \in BOOLEAN : [work |-> b] \in M
  BY DEF M
<1>s. stream' \in [End -> Seq(M)] =>
        stream' \in [End -> Seq([vec : SUBSET Ids] \cup [work : BOOLEAN])]
  BY DEF M
<1>c. \A e \in End, w \in SUBSET Ids : Close(e, w) \in SUBSET Ids
  BY DEF Close
<1>1. CASE Lose
  <2>1. stream' \in [End -> Seq(M)]
    BY <1>1 DEF Lose
  <2>2. QED
    <3>1. trimgc' \in [End -> 0 .. MaxStarts]
      BY <1>1, TrimAssumption DEF Lose
    <3>2. push' \in [End -> {NoPush} \cup [sent : SUBSET Ids, full : SUBSET Ids,
                                          obj : [Ids -> 0 .. MaxSerial]]]
      BY <1>1 DEF Lose
    <3>3. QED
      BY <3>1, <3>2, <2>1, <1>s, <1>1 DEF Lose, TypeOK
<1>2. ASSUME NEW e \in End, Drop(e) PROVE TypeOK'
  BY <1>2 DEF Drop, TypeOK
<1>3. ASSUME NEW e \in End, Track(e) PROVE TypeOK'
  <2> PICK i \in OwnIds(e), n \in 1 .. MaxSerial :
        /\ table' = [table EXCEPT ![e][i] = n]
        /\ roots' = [roots EXCEPT ![e] = @ \cup {i}]
        /\ queue' = [queue EXCEPT ![e] = @ \cup {i}]
    BY <1>3 DEF Track
  <2>1. i \in Ids /\ n \in 0 .. MaxSerial
    BY DEF OwnIds, Ids
  <2>2. QED
    BY <2>1, <1>3 DEF Track, TypeOK
<1>4. ASSUME NEW e \in End, Push(e) PROVE TypeOK'
  <2> PICK i \in Close(e, roots[e]) :
        push' = [push EXCEPT ![Peer(e)] =
                   [sent |-> queue[e] \cup {i}, full |-> queue[e], obj |-> table[e]]]
    BY <1>4 DEF Push
  <2>1. i \in Ids
    BY <1>c DEF Close
  <2>2. [sent |-> queue[e] \cup {i}, full |-> queue[e], obj |-> table[e]] \in
          [sent : SUBSET Ids, full : SUBSET Ids, obj : [Ids -> 0 .. MaxSerial]]
    BY <2>1 DEF TypeOK
  <2>3. push' \in [End -> {NoPush} \cup [sent : SUBSET Ids, full : SUBSET Ids,
                                         obj : [Ids -> 0 .. MaxSerial]]]
    BY <2>2 DEF TypeOK
  <2>4. QED
    BY <2>3, <1>4 DEF Push, TypeOK
<1>5. ASSUME NEW e \in End, Pull(e) PROVE TypeOK'
  <2>1. push[e] \in [sent : SUBSET Ids, full : SUBSET Ids, obj : [Ids -> 0 .. MaxSerial]]
    BY <1>5 DEF Pull, TypeOK
  <2>2. table' \in [End -> [Ids -> 0 .. MaxSerial]]
    BY <2>1, <1>5 DEF Pull, TypeOK
  <2>3. roots' \in [End -> SUBSET Ids] /\ mixup' \in BOOLEAN
    BY <2>1, <1>5 DEF Pull, TypeOK
  <2>4. push' \in [End -> {NoPush} \cup [sent : SUBSET Ids, full : SUBSET Ids,
                                         obj : [Ids -> 0 .. MaxSerial]]]
    BY <1>5 DEF Pull, TypeOK
  <2>5. QED
    BY <2>2, <2>3, <2>4, <1>5 DEF Pull, TypeOK
<1>6. ASSUME NEW e \in End, BeginMarking(e), starts' \in [End -> 0 .. MaxStarts],
             trimgc' \in [End -> 0 .. MaxStarts]
      PROVE  TypeOK'
  <2>1. mark' \in [End -> SUBSET Ids] /\ mark'[e] \in SUBSET Ids
    BY <1>c, <1>6 DEF BeginMarking, TypeOK
  <2>2. stream' \in [End -> Seq(M)]
    BY <2>1, <1>0, <1>v, <1>6, SendType DEF BeginMarking
  <2>3. live' \in [End -> SUBSET Ids]
    BY <1>6 DEF BeginMarking, TypeOK
  <2>4. phase' \in [End -> {"run", "vec", "work"}]
    BY <1>6 DEF BeginMarking, TypeOK
  <2>5. QED
    BY <2>1, <2>2, <2>3, <2>4, <1>s, <1>6 DEF BeginMarking, TypeOK
<1>7. ASSUME NEW e \in End, StartTrim(e) PROVE TypeOK'
  <2>1. starts' \in [End -> 0 .. MaxStarts]
    BY <1>7, TrimAssumption DEF StartTrim, TypeOK
  <2>2. trimgc[Peer(e)] + 1 \in 0 .. MaxStarts
    BY <1>7, TrimAssumption, EndFacts DEF StartTrim, TypeOK, AskInv
  <2>3. trimgc' \in [End -> 0 .. MaxStarts]
    BY <2>2, <1>7 DEF StartTrim, TypeOK
  <2>4. QED
    BY <1>7, <1>6, <2>1, <2>3 DEF StartTrim
<1>8. ASSUME NEW e \in End, AnswerTrim(e) PROVE TypeOK'
  <2>1. starts' \in [End -> 0 .. MaxStarts]
    BY <1>8 DEF AnswerTrim, TypeOK
  <2>2. trimgc' \in [End -> 0 .. MaxStarts]
    BY <1>8, TrimAssumption DEF AnswerTrim, TypeOK
  <2>3. QED
    BY <1>8, <1>6, <2>1, <2>2 DEF AnswerTrim
<1>9. ASSUME NEW e \in End, ReadVector(e) PROVE TypeOK'
  <2>1. mark' \in [End -> SUBSET Ids]
    BY <1>9 DEF ReadVector, TypeOK, Tracked
  <2>2. work' \in [End -> BOOLEAN] /\ work'[e] \in BOOLEAN
    BY <1>9 DEF ReadVector, TypeOK
  <2>3. stream' \in [End -> Seq(M)]
    BY <2>2, <1>0, <1>w, <1>9, SendType DEF ReadVector
  <2>4. phase' \in [End -> {"run", "vec", "work"}]
    BY <1>9 DEF ReadVector, TypeOK
  <2>5. QED
    BY <2>1, <2>2, <2>3, <2>4, <1>s, <1>9 DEF ReadVector, TypeOK
<1>10. ASSUME NEW e \in End, NextRound(e)
       PROVE  /\ mark' \in [End -> SUBSET Ids] /\ mark'[e] \in SUBSET Ids
              /\ phase' \in [End -> {"run", "vec", "work"}]
  BY <1>10, <1>c DEF NextRound, TypeOK
<1>11. ASSUME NEW e \in End, ReadWork(e) PROVE TypeOK'
  <2>1. NextRound(e)
    BY <1>11 DEF ReadWork
  <2>2. stream' \in [End -> Seq(M)]
    BY <2>1, <1>10, <1>0, <1>v, <1>11, SendType DEF ReadWork
  <2>3. QED
    BY <2>1, <2>2, <1>10, <1>s DEF NextRound, TypeOK
<1>12. ASSUME NEW e \in End, Trim(e) PROVE TypeOK'
  <2>1. stream' \in [End -> Seq(M)]
    BY <1>0, <1>12, SendType DEF Trim
  <2>2. table' \in [End -> [Ids -> 0 .. MaxSerial]]
    BY <1>12, TrimAssumption DEF Trim, TypeOK
  <2>3. refs' \in [End -> SUBSET (Ids \X Ids)] /\ queue' \in [End -> SUBSET Ids]
    BY <1>12 DEF Trim, TypeOK
  <2>4. phase' \in [End -> {"run", "vec", "work"}] /\ crossed' \in BOOLEAN
    BY <1>12 DEF Trim, TypeOK
  <2>5. mark' \in [End -> SUBSET Ids] /\ live' \in [End -> SUBSET Ids]
    BY <1>12 DEF Trim, TypeOK
  <2>6. QED
    BY <2>1, <2>2, <2>3, <2>4, <2>5, <1>s, <1>12 DEF Trim, TypeOK
<1>13. ASSUME NEW e \in End, ReadLost(e) PROVE TypeOK'
  <2>1. CASE phase[e] = "work" /\ NextRound(e)
    BY <2>1, <1>10, <1>13 DEF ReadLost, NextRound, TypeOK
  <2>2. CASE ~(phase[e] = "work" /\ NextRound(e))
    <3>0. /\ mark' = [mark EXCEPT ![e] = @ \cup (JunkIds \cap Tracked(e))]
          /\ JunkIds \cap Tracked(e) \subseteq Ids
      BY <2>2, <1>13 DEF ReadLost, Tracked
    <3>1. mark' \in [End -> SUBSET Ids]
      BY <3>0 DEF TypeOK
    <3>2. phase' \in [End -> {"run", "vec", "work"}]
      BY <2>2, <1>13 DEF ReadLost, TypeOK
    <3>3. QED
      BY <3>1, <3>2, <2>2, <1>13 DEF ReadLost, TypeOK
  <2>3. QED
    BY <2>1, <2>2
<1>14. CASE UNCHANGED vars
  BY <1>14 DEF vars, TypeOK
<1>15. QED
  BY <1>1, <1>2, <1>3, <1>4, <1>5, <1>7, <1>8, <1>9, <1>11, <1>12, <1>13, <1>14
     DEF Next, Mutate, Collect
-----------------------------------------------------------------------------
(* Requests, and the heaps. *)

LEMMA AskStep ==
  ASSUME TypeOK, AskInv, [Next]_vars
  PROVE  AskInv'
<1> SUFFICES ASSUME NEW x \in End PROVE trimgc'[Peer(x)] <= starts'[x]
  BY DEF AskInv
<1>0. /\ trimgc[Peer(x)] \in Nat /\ starts[x] \in Nat /\ trimgc[Peer(x)] <= starts[x]
      /\ Peer(x) \in End
  BY TrimAssumption, EndFacts DEF TypeOK, AskInv
<1>1. CASE Lose
  BY <1>0, <1>1, EndFacts DEF Lose
<1>2. ASSUME NEW e \in End, StartTrim(e) PROVE trimgc'[Peer(x)] <= starts'[x]
  <2>1. CASE x = e
    BY <2>1, <1>0, <1>2, EndFacts DEF StartTrim, TypeOK
  <2>2. CASE x # e
    BY <2>2, <1>0, <1>2, EndFacts DEF StartTrim, TypeOK
  <2>3. QED
    BY <2>1, <2>2
<1>3. ASSUME NEW e \in End, AnswerTrim(e) PROVE trimgc'[Peer(x)] <= starts'[x]
  BY <1>0, <1>3, EndFacts DEF AnswerTrim, TypeOK
<1>4. CASE UNCHANGED <<trimgc, starts>>
  BY <1>0, <1>4
<1>5. QED
  BY <1>1, <1>2, <1>3, <1>4
     DEF Next, Mutate, Collect, Drop, Track, Push, Pull, ReadVector, ReadWork, NextRound,
         Trim, ReadLost, vars

LEMMA InitHeap == Init => HeapInv
BY TrimAssumption DEF Init, HeapInv, Tracked, Ids

LEMMA HeapStep ==
  ASSUME TypeOK, HeapInv, [Next]_vars
  PROVE  HeapInv'
<1>1. CASE Lose
  BY <1>1 DEF Lose, HeapInv, Tracked
<1>2. ASSUME NEW e \in End, Drop(e) PROVE HeapInv'
  BY <1>2 DEF Drop, HeapInv, Tracked, TypeOK
<1>3. ASSUME NEW e \in End, Track(e) PROVE HeapInv'
  <2> PICK i \in OwnIds(e), n \in 1 .. MaxSerial :
        /\ table' = [table EXCEPT ![e][i] = n]
        /\ roots' = [roots EXCEPT ![e] = @ \cup {i}]
        /\ queue' = [queue EXCEPT ![e] = @ \cup {i}]
    BY <1>3 DEF Track
  <2>1. i \in Ids /\ n # 0
    BY DEF OwnIds, Ids
  <2>2. \A x \in End : Tracked(x)' = IF x = e THEN Tracked(x) \cup {i} ELSE Tracked(x)
    BY <2>1 DEF Tracked, TypeOK
  <2> HIDE DEF Tracked
  <2>3. /\ UNCHANGED <<refs, push, phase, mark>>
        /\ phase[e] = "run"
    BY <1>3 DEF Track
  <2>4. QED
    BY <2>2, <2>3 DEF HeapInv, TypeOK
<1>4. ASSUME NEW e \in End, Push(e) PROVE HeapInv'
  <2> PICK i \in Close(e, roots[e]) :
        push' = [push EXCEPT ![Peer(e)] =
                   [sent |-> queue[e] \cup {i}, full |-> queue[e], obj |-> table[e]]]
    BY <1>4 DEF Push
  <2>1. i \in Tracked(e)
    <3>1. roots[e] \in SUBSET Ids /\ roots[e] \subseteq Tracked(e)
      BY DEF HeapInv, TypeOK
    <3>2. QED
      BY <3>1, MarkFacts
  <2>2. UNCHANGED <<table, roots, refs, phase, mark>> /\ queue' = [queue EXCEPT ![e] = {}]
    BY <1>4 DEF Push
  <2>3. \A x \in End : Tracked(x)' = Tracked(x)
    BY <2>2 DEF Tracked
  <2>4. \A j \in queue[e] \cup {i} : j \in Ids /\ table[e][j] # 0
    BY <2>1 DEF HeapInv, Tracked
  <2>5. \A x \in End : push'[x] # NoPush =>
          \A j \in push'[x].sent : j \in Ids /\ push'[x].obj[j] # 0
    <3> SUFFICES ASSUME NEW x \in End, push'[x] # NoPush, NEW j \in push'[x].sent
                 PROVE  j \in Ids /\ push'[x].obj[j] # 0
      OBVIOUS
    <3>1. CASE x = Peer(e)
      <4>1. push'[x] = [sent |-> queue[e] \cup {i}, full |-> queue[e], obj |-> table[e]]
        BY <3>1 DEF TypeOK
      <4>2. QED
        BY <4>1, <2>4
    <3>2. CASE x # Peer(e)
      BY <3>2 DEF TypeOK, HeapInv
    <3>3. QED
      BY <3>1, <3>2
  <2>6. QED
    BY <2>2, <2>3, <2>5 DEF HeapInv, TypeOK
<1>5. ASSUME NEW e \in End, Pull(e) PROVE HeapInv'
  <2>1. /\ \A i \in push[e].sent : i \in Ids /\ push[e].obj[i] # 0
        /\ roots' = [roots EXCEPT ![e] = @ \cup push[e].sent]
        /\ table' = [table EXCEPT ![e] = [i \in Ids |->
                       IF i \in push[e].sent /\ @[i] = 0 THEN push[e].obj[i] ELSE @[i]]]
        /\ push' = [push EXCEPT ![e] = NoPush]
        /\ UNCHANGED <<refs, queue, phase, mark>> /\ phase[e] = "run"
    BY <1>5 DEF Pull, HeapInv
  <2>2. \A x \in End : Tracked(x)' = IF x = e THEN Tracked(x) \cup push[e].sent ELSE Tracked(x)
    BY <2>1 DEF Tracked, TypeOK
  <2>3. \A x \in End : push'[x] = IF x = e THEN NoPush ELSE push[x]
    BY <2>1 DEF TypeOK
  <2>4. QED
    BY <2>1, <2>2, <2>3 DEF HeapInv, TypeOK
<1>6. ASSUME NEW e \in End, BeginMarking(e) PROVE HeapInv'
  <2>1. UNCHANGED <<table, roots, refs, queue, push>>
        /\ phase' = [phase EXCEPT ![e] = "vec"]
        /\ mark' = [mark EXCEPT ![e] = Close(e, roots[e]) \cap Tracked(e)]
    BY <1>6 DEF BeginMarking
  <2>2. roots[e] \subseteq Close(e, roots[e]) \cap Tracked(e)
    BY MarkFacts DEF HeapInv, TypeOK
  <2>3. \A x \in End : Tracked(x)' = Tracked(x)
    BY <2>1 DEF Tracked
  <2>4. QED
    BY <2>1, <2>2, <2>3 DEF HeapInv, TypeOK
<1>7. ASSUME NEW e \in End, phase[e] # "run", UNCHANGED <<table, roots, refs, queue, push>>,
             NEW new \in SUBSET Tracked(e), mark[e] \subseteq new,
             mark' = [mark EXCEPT ![e] = new],
             \A x \in End : x # e => phase'[x] = phase[x]
      PROVE  HeapInv'
  <2>1. \A x \in End : Tracked(x)' = Tracked(x)
    BY <1>7 DEF Tracked
  <2>2. QED
    BY <2>1, <1>7 DEF HeapInv, TypeOK
<1>8. ASSUME NEW e \in End, ReadVector(e) PROVE HeapInv'
  <2> DEFINE news == (Head(stream[e]).vec \cap Tracked(e)) \ mark[e]
  <2>1. phase[e] # "run" /\ UNCHANGED <<table, roots, refs, queue, push>>
        /\ phase' = [phase EXCEPT ![e] = "work"]
        /\ mark' = [mark EXCEPT ![e] = @ \cup news]
    BY <1>8 DEF ReadVector
  <2>2. mark[e] \cup news \subseteq Tracked(e)
    BY <2>1 DEF HeapInv
  <2>3. mark' = [mark EXCEPT ![e] = mark[e] \cup news]
    BY <2>1
  <2> HIDE DEF news
  <2>4. QED
    BY <2>1, <2>2, <2>3, <1>7 DEF TypeOK
<1>9. ASSUME NEW e \in End, phase[e] # "run", NextRound(e) PROVE HeapInv'
  <2>1. UNCHANGED <<table, roots, refs, queue, push>>
        /\ phase' = [phase EXCEPT ![e] = "vec"]
        /\ mark' = [mark EXCEPT ![e] = Close(e, mark[e]) \cap Tracked(e)]
    BY <1>9 DEF NextRound
  <2>2. mark[e] \subseteq Close(e, mark[e]) \cap Tracked(e)
    BY <1>9, MarkFacts DEF HeapInv, TypeOK
  <2>3. QED
    BY <2>1, <2>2, <1>7, <1>9 DEF TypeOK
<1>10. ASSUME NEW e \in End, Trim(e) PROVE HeapInv'
  <2>1. /\ table' = [table EXCEPT ![e] = [i \in Ids |-> IF i \in mark[e] THEN table[e][i] ELSE 0]]
        /\ refs' = [refs EXCEPT ![e] = {r \in @ : r[1] \in mark[e] /\ r[2] \in mark[e]}]
        /\ queue' = [queue EXCEPT ![e] = @ \cap mark[e]]
        /\ UNCHANGED <<roots, push>>
        /\ phase[e] = "work"
        /\ phase' = [phase EXCEPT ![e] = "run"]
        /\ mark' = [mark EXCEPT ![e] = {}]
    BY <1>10 DEF Trim
  <2>2. mark[e] \subseteq Tracked(e) /\ roots[e] \subseteq mark[e]
    BY <2>1 DEF HeapInv
  <2>3. \A x \in End : Tracked(x)' = IF x = e THEN mark[e] ELSE Tracked(x)
    BY <2>1, <2>2 DEF Tracked, TypeOK
  <2>4. refs'[e] \subseteq mark[e] \X mark[e]
    <3>1. refs'[e] = {r \in refs[e] : r[1] \in mark[e] /\ r[2] \in mark[e]}
      BY <2>1 DEF TypeOK
    <3>2. \A r \in refs[e] : r = <<r[1], r[2]>>
      BY DEF TypeOK
    <3>3. QED
      BY <3>1, <3>2
  <2>5. QED
    BY <2>1, <2>2, <2>3, <2>4 DEF HeapInv, TypeOK
<1>11. ASSUME NEW e \in End, ReadLost(e) PROVE HeapInv'
  <2>1. CASE phase[e] = "work" /\ NextRound(e)
    BY <2>1, <1>9
  <2>2. CASE ~(phase[e] = "work" /\ NextRound(e))
    <3>1. phase[e] = "vec" /\ UNCHANGED <<table, roots, refs, queue, push>>
          /\ phase' = [phase EXCEPT ![e] = "work"]
          /\ mark' = [mark EXCEPT ![e] = mark[e] \cup (JunkIds \cap Tracked(e))]
      BY <2>2, <1>11 DEF ReadLost
    <3> DEFINE new == mark[e] \cup (JunkIds \cap Tracked(e))
    <3>2. new \in SUBSET Tracked(e) /\ mark[e] \subseteq new
      BY <3>1 DEF HeapInv
    <3>3. phase[e] # "run" /\ mark' = [mark EXCEPT ![e] = new]
      BY <3>1
    <3>4. \A x \in End : x # e => phase'[x] = phase[x]
      BY <3>1 DEF TypeOK
    <3> HIDE DEF new
    <3>5. QED
      BY <3>1, <3>2, <3>3, <3>4, <1>7
  <2>3. QED
    BY <2>1, <2>2
<1>12. CASE UNCHANGED vars
  BY <1>12 DEF vars, HeapInv, Tracked
<1>13. ASSUME NEW e \in End, ReadWork(e) PROVE HeapInv'
  BY <1>9, <1>13 DEF ReadWork
<1>14. ASSUME NEW e \in End, StartTrim(e) \/ AnswerTrim(e) PROVE HeapInv'
  BY <1>6, <1>14 DEF StartTrim, AnswerTrim
<1>15. CASE \E e \in End : Mutate(e) \/ StartTrim(e) \/ Collect(e)
  <2> PICK e \in End : Mutate(e) \/ StartTrim(e) \/ Collect(e)
    BY <1>15
  <2>1. CASE Mutate(e)
    BY <2>1, <1>2, <1>3, <1>4, <1>5 DEF Mutate
  <2>2. CASE StartTrim(e)
    BY <2>2, <1>14
  <2>3. CASE Collect(e)
    BY <2>3, <1>8, <1>10, <1>11, <1>13, <1>14 DEF Collect
  <2>4. QED
    BY <2>1, <2>2, <2>3
<1>16. QED
  BY <1>1, <1>12, <1>15 DEF Next
-----------------------------------------------------------------------------
(* The exchange. *)

LEMMA ShortSeqs ==
  ASSUME NEW a, NEW b
  PROVE  /\ Head(<<a>>) = a /\ Tail(<<a>>) = <<>> /\ <<a>> # <<>>
         /\ Head(<<a, b>>) = a /\ Tail(<<a, b>>) = <<b>> /\ <<a, b>> # <<>>
         /\ Append(<<>>, a) = <<a>> /\ Append(<<a>>, b) = <<a, b>>
<1>1. Head(<<a>>) = a /\ Head(<<a, b>>) = a
  OBVIOUS
<1>2. Tail(<<a>>) = <<>>
  OBVIOUS
<1>3. Tail(<<a, b>>) = <<b>>
  OBVIOUS
<1>4. <<a>> # <<>> /\ <<a, b>> # <<>>
  OBVIOUS
<1>5. Append(<<>>, a) = <<a>>
  OBVIOUS
<1>6. Append(<<a>>, b) = <<a, b>>
  <2>1. <<a>> \in Seq({a, b}) /\ <<a, b>> \in Seq({a, b})
    OBVIOUS
  <2>2. /\ Append(<<a>>, b) \in Seq({a, b}) /\ Len(Append(<<a>>, b)) = 2
        /\ Append(<<a>>, b)[1] = a /\ Append(<<a>>, b)[2] = b
    BY <2>1
  <2>3. Len(<<a, b>>) = 2 /\ <<a, b>>[1] = a /\ <<a, b>>[2] = b
    OBVIOUS
  <2>4. \A i \in 1 .. Len(Append(<<a>>, b)) : Append(<<a>>, b)[i] = <<a, b>>[i]
    <3>1. \A i \in 1 .. 2 : i = 1 \/ i = 2
      OBVIOUS
    <3>2. QED
      BY <3>1, <2>2, <2>3
  <2>5. Len(Append(<<a>>, b)) = Len(<<a, b>>)
    BY <2>2, <2>3
  <2>6. QED
    BY <2>1, <2>2, <2>4, <2>5, SeqEqual
<1>7. QED
  BY <1>1, <1>2, <1>3, <1>4, <1>5, <1>6

\* A step that writes m and has read n or nothing.
LEMMA SendIs ==
  ASSUME connected, NEW e \in End, NEW m, TypeOK
  PROVE  /\ stream' = Send(e, m, stream) =>
              stream'[e] = stream[e] /\ stream'[Peer(e)] = Append(stream[Peer(e)], m)
         /\ stream' = Send(e, m, [stream EXCEPT ![e] = Tail(@)]) =>
              stream'[e] = Tail(stream[e]) /\ stream'[Peer(e)] = Append(stream[Peer(e)], m)
BY EndFacts DEF Send, TypeOK

\* What an endpoint's phase says about the exchange.
LEMMA Places ==
  ASSUME Together, NEW e \in End
  PROVE  /\ phase[e] = "run" => Apart \/ Alone(Peer(e)) \/ Behind(Peer(e))
         /\ phase[e] = "vec" /\ stream[e] # <<>> => Vectors \/ Answered(Peer(e))
         /\ phase[e] = "work" /\ stream[e] # <<>> => Flags \/ Onward(e) \/ Behind(e)
<1>1. CASE Apart \/ Vectors \/ Flags
  BY <1>1 DEF Apart, Vectors, Flags
<1>2. CASE Alone(e) \/ Answered(e) \/ Onward(e) \/ Behind(e)
  BY <1>2 DEF Alone, Answered, Onward, Behind
<1>3. CASE Alone(Peer(e)) \/ Answered(Peer(e)) \/ Onward(Peer(e)) \/ Behind(Peer(e))
  BY <1>3, EndFacts DEF Alone, Answered, Onward, Behind
<1>4. QED
  BY <1>1, <1>2, <1>3, EndFacts DEF Together

LEMMA JointSame ==
  ASSUME Joint, UNCHANGED <<table, roots, refs, live>>, \A e \in End : mark'[e] \subseteq live[e]
  PROVE  Joint'
BY DEF Joint, Covers, Tracked, Closed, Crosses

LEMMA ClosedSame ==
  ASSUME refs' = refs, NEW e \in End, NEW c, Closed(e, c)
  PROVE  \A r \in refs'[e] : r[1] \in c => r[2] \in c
BY DEF Closed

\* A trim that ends keeps exactly what was live.
LEMMA FlagsExact ==
  ASSUME TypeOK, HeapInv, Flags, \A e \in End : ~work[e]
  PROVE  \A e \in End : mark[e] = live[e]
<1>1. Covers(mark)
  BY EndFacts DEF Flags, HeapInv, Covers
<1>2. mark \in [End -> SUBSET Ids]
  BY DEF TypeOK
<1>3. QED
  BY <1>1, <1>2 DEF Flags, Joint

\* What the threads of an endpoint do outside a trim.
LEMMA MutateStep ==
  ASSUME TypeOK, Together, NEW e \in End, Mutate(e)
  PROVE  Together'
<1> DEFINE p == Peer(e)
<1>0. p \in End /\ p # e /\ Peer(p) = e /\ End = {e, p}
  BY EndFacts
<1> HIDE DEF p
<1>1. /\ phase[e] = "run" /\ UNCHANGED <<phase, mark, work, stream, live>>
      /\ table'[p] = table[p] /\ roots'[p] = roots[p] /\ refs'[p] = refs[p]
  BY <1>0 DEF Mutate, Drop, Track, Push, Pull, TypeOK
<1>2. CASE Apart
  BY <1>1, <1>2 DEF Apart, Together
<1>3. CASE Alone(p)
  <2>1. Alone(p)'
    BY <1>1, <1>3 DEF Alone, Close, Tracked
  <2>2. QED
    BY <2>1, <1>0 DEF Together
<1>4. CASE Behind(p)
  <2>1. Behind(p)'
    BY <1>1, <1>4 DEF Behind
  <2>2. QED
    BY <2>1, <1>0 DEF Together
<1>5. QED
  BY <1>1, <1>2, <1>3, <1>4, Places DEF p

\* An endpoint comes to a trim, its own or the other's.
LEMMA BeginStep ==
  ASSUME TypeOK, HeapInv, Together, connected, NEW e \in End, BeginMarking(e)
  PROVE  Together'
<1> DEFINE p == Peer(e)
           first == Close(e, roots[e]) \cap Tracked(e)
<1>0. p \in End /\ p # e /\ Peer(p) = e /\ End = {e, p}
  BY EndFacts
<1> HIDE DEF p
<1>1. /\ phase[e] = "run" /\ phase'[e] = "vec" /\ phase'[p] = phase[p]
      /\ mark'[e] = first /\ mark'[p] = mark[p]
      /\ UNCHANGED <<table, roots, refs, work>>
  BY <1>0 DEF BeginMarking, TypeOK
<1>2. stream'[e] = stream[e] /\ stream'[p] = Append(stream[p], [vec |-> first])
  BY <1>1, SendIs DEF BeginMarking, p
<1>3. \A x \in End, c \in SUBSET Ids : Closed(x, c)' <=> Closed(x, c)
  BY <1>1 DEF Closed
<1>4. \A x \in End : Tracked(x)' = Tracked(x)
  BY <1>1 DEF Tracked
<1>5. \A x \in End : (Close(x, roots[x]) \cap Tracked(x))' = Close(x, roots[x]) \cap Tracked(x)
  BY <1>1, <1>4 DEF Close
<1>6. \A x \in End : roots[x] \in SUBSET Ids /\ roots[x] \subseteq Tracked(x)
  BY DEF TypeOK, HeapInv
<1>7. CASE Apart
  <2>1. Alone(e)'
    <3>1. stream'[e] = <<>> /\ stream'[p] = <<[vec |-> first]>> /\ phase[p] = "run"
      BY <1>0, <1>2, <1>7, ShortSeqs DEF Apart
    <3>2. mark'[e] = (Close(e, roots[e]) \cap Tracked(e))'
      BY <1>1, <1>5
    <3> HIDE DEF first
    <3>3. QED
      BY <1>1, <3>1, <3>2 DEF Alone, p
  <2>2. QED
    BY <2>1 DEF Together
<1>8. CASE Alone(p)
  <2>1. /\ stream[e] = <<[vec |-> mark[p]]>> /\ stream[p] = <<>> /\ phase[p] = "vec"
        /\ mark[p] = Close(p, roots[p]) \cap Tracked(p)
    BY <1>0, <1>8 DEF Alone
  <2>2. live' = [x \in End |-> ReachedAt(x)]
    BY <2>1, ShortSeqs DEF BeginMarking, ReachedAt
  <2>3. stream'[e] = <<[vec |-> mark'[p]]>> /\ stream'[p] = <<[vec |-> mark'[e]]>>
    BY <1>1, <1>2, <2>1, ShortSeqs
  <2>4. \A x \in End : mark'[x] = Close(x, roots[x])
    BY <1>0, <1>1, <1>6, <2>1, MarkFacts
  <2>5. \A x \in End : Closed(x, mark[x])'
    <3> SUFFICES ASSUME NEW x \in End PROVE Closed(x, mark[x])'
      OBVIOUS
    <3>1. Closed(x, Close(x, roots[x])) /\ refs' = refs
      BY <1>1, <1>6, MarkFacts
    <3>2. mark'[x] = Close(x, roots[x])
      BY <2>4
    <3>3. QED
      BY <3>1, <3>2 DEF Closed
  <2>6. /\ Covers([x \in End |-> ReachedAt(x)])
        /\ \A c \in [End -> SUBSET Ids] : Covers(c) => \A x \in End : ReachedAt(x) \subseteq c[x]
    BY ReachedFacts
  <2>7. \A x \in End : mark'[x] \subseteq live'[x]
    <3> SUFFICES ASSUME NEW x \in End PROVE mark'[x] \subseteq live'[x]
      OBVIOUS
    <3>1. /\ ReachedAt(x) \in SUBSET Ids
          /\ roots[x] \subseteq ReachedAt(x) /\ Closed(x, ReachedAt(x))
      BY <2>6 DEF Covers, ReachedAt
    <3>2. Close(x, roots[x]) \subseteq ReachedAt(x)
      BY <3>1, <1>6, MarkFacts
    <3>3. QED
      BY <3>2, <2>2, <2>4
  <2>8. Joint'
    <3>1. Covers(live)'
      <4>1. Covers(live')
        BY <2>2, <2>6
      <4>2. QED
        BY <4>1, <1>1, <1>4, EndFacts DEF Covers, Closed, Crosses
    <3>2. \A c \in [End -> SUBSET Ids] : Covers(c)' => Covers(c)
      BY <1>1, <1>4, EndFacts DEF Covers, Closed, Crosses
    <3>3. \A c \in [End -> SUBSET Ids] : Covers(c)' => \A x \in End : live'[x] \subseteq c[x]
      BY <3>2, <2>2, <2>6
    <3>4. QED
      BY <3>1, <3>3, <2>7 DEF Joint
  <2>9. Vectors'
    <3>1. \A x \in End : phase'[x] = "vec" /\ stream'[x] = <<[vec |-> mark'[Peer(x)]]>>
      BY <1>0, <1>1, <2>1, <2>3 DEF p
    <3>2. QED
      BY <3>1, <2>5, <2>8 DEF Vectors
  <2>10. QED
    BY <2>9 DEF Together
<1>9. CASE Behind(p)
  <2>1. /\ phase[p] = "work" /\ stream[e] = <<>> /\ stream[p] = <<[work |-> FALSE]>>
        /\ ~work[p] /\ mark[p] = live[p]
    BY <1>0, <1>9 DEF Behind
  <2>2. live' = live
    BY <2>1 DEF BeginMarking
  <2>3. stream'[e] = <<>> /\ stream'[p] = <<[work |-> FALSE], [vec |-> mark'[e]]>>
    BY <1>1, <1>2, <2>1, ShortSeqs
  <2>4. mark'[e] = (Close(e, roots[e]) \cap Tracked(e))'
    BY <1>1, <1>5
  <2>5. Onward(p)'
    <3>1. mark'[p] = live'[p] /\ ~work'[p] /\ phase'[p] = "work" /\ phase'[e] = "vec"
      BY <1>1, <2>1, <2>2
    <3>2. QED
      BY <3>1, <2>3, <2>4, <1>0 DEF Onward
  <2>6. QED
    BY <2>5, <1>0 DEF Together
<1>10. QED
  BY <1>1, <1>7, <1>8, <1>9, Places DEF p

\* An endpoint reads the other's bit vector.
LEMMA VectorStep ==
  ASSUME TypeOK, HeapInv, Together, connected, NEW e \in End, ReadVector(e)
  PROVE  Together'
<1> DEFINE p == Peer(e)
           v == Head(stream[e]).vec
<1>0. p \in End /\ p # e /\ Peer(p) = e /\ End = {e, p}
  BY EndFacts
<1> HIDE DEF p
<1>1. /\ phase[e] = "vec" /\ stream[e] # <<>>
      /\ phase'[e] = "work" /\ phase'[p] = phase[p]
      /\ mark'[e] = mark[e] \cup (v \cap Tracked(e)) /\ mark'[p] = mark[p]
      /\ work'[p] = work[p] /\ (~work'[e] => mark'[e] = mark[e])
      /\ UNCHANGED <<table, roots, refs, live>>
  BY <1>0 DEF ReadVector, TypeOK
<1>2. stream'[e] = Tail(stream[e]) /\ stream'[p] = Append(stream[p], [work |-> work'[e]])
  BY SendIs DEF ReadVector, p
<1>3. \A x \in End : Tracked(x)' = Tracked(x)
  BY <1>1 DEF Tracked
<1> HIDE DEF v
<1>4. ASSUME Joint, v \subseteq mark[p] PROVE Joint'
  <2>1. /\ v \cap Tracked(e) \subseteq live[e]
        /\ mark[e] \subseteq live[e] /\ mark[p] \subseteq live[p]
    BY <1>0, <1>4 DEF Joint, Covers, Crosses
  <2>2. \A x \in End : mark'[x] \subseteq live[x]
    BY <2>1, <1>0, <1>1
  <2>3. QED
    BY <2>2, <1>1, <1>4, JointSame
<1>5. CASE Vectors
  <2>1. /\ stream[e] = <<[vec |-> mark[p]]>> /\ stream[p] = <<[vec |-> mark[e]]>>
        /\ phase[p] = "vec" /\ Closed(e, mark[e]) /\ Closed(p, mark[p]) /\ Joint
    BY <1>0, <1>5 DEF Vectors, p
  <2>2. v = mark[p]
    BY <2>1, ShortSeqs DEF v
  <2>3. stream'[e] = <<>>
        /\ stream'[p] = <<[vec |-> mark[e]], [work |-> work'[e]]>>
    <3>1. Append(<<[vec |-> mark[e]]>>, [work |-> work'[e]])
            = <<[vec |-> mark[e]], [work |-> work'[e]]>>
      BY ShortSeqs
    <3>2. Tail(<<[vec |-> mark[p]]>>) = <<>>
      BY ShortSeqs
    <3>3. QED
      BY <3>1, <3>2, <1>2, <2>1
  <2>4. Joint'
    BY <1>4, <2>1, <2>2
  <2>5. Closed(p, mark[p])' /\ (~work'[e] => Closed(e, mark[e])')
    BY <1>1, <2>1 DEF Closed
  <2>6. Crosses(p, mark[p], mark[e])'
    BY <1>0, <1>1, <1>3, <2>2 DEF Crosses
  <2>7. mark[e] \in SUBSET Ids /\ mark[e] \subseteq mark'[e]
    BY <1>1 DEF TypeOK
  <2>8. Answered(e)'
    BY <1>1, <2>1, <2>3, <2>4, <2>5, <2>6, <2>7 DEF Answered, p
  <2>9. QED
    BY <2>8 DEF Together
<1>6. CASE Answered(p)
  <2>1. PICK w \in SUBSET Ids :
          /\ stream[e] = <<[vec |-> w], [work |-> work[p]]>>
          /\ w \subseteq mark[p]
          /\ ~work[p] => w = mark[p] /\ Closed(p, mark[p])
    BY <1>0, <1>6 DEF Answered
  <2>2. /\ phase[p] = "work" /\ stream[p] = <<>> /\ Joint
        /\ Closed(e, mark[e]) /\ Crosses(e, mark[e], mark[p])
    BY <1>0, <1>6 DEF Answered
  <2>3. v = w
    BY <2>1, ShortSeqs DEF v
  <2>4. stream'[e] = <<[work |-> work'[p]]>> /\ stream'[p] = <<[work |-> work'[e]]>>
    BY <1>1, <1>2, <2>1, <2>2, ShortSeqs
  <2>5. Joint'
    BY <1>4, <2>1, <2>2, <2>3
  <2>6. ~work'[e] => Closed(e, mark[e])' /\ Crosses(e, mark[e], mark[p])'
    BY <1>0, <1>1, <1>3, <2>2 DEF Closed, Crosses, p
  <2>7. ~work'[p] => Closed(p, mark[p])' /\ Crosses(p, mark[p], mark[e])'
    BY <1>0, <1>1, <1>3, <2>1, <2>3 DEF Closed, Crosses
  <2>8. \A x \in End :
          /\ phase'[x] = "work" /\ stream'[x] = <<[work |-> work'[Peer(x)]]>>
          /\ ~work'[x] => Closed(x, mark[x])' /\ Crosses(x, mark[x], mark[Peer(x)])'
    BY <1>0, <1>1, <2>2, <2>4, <2>6, <2>7 DEF p
  <2>9. Flags'
    BY <2>5, <2>8 DEF Flags
  <2>10. QED
    BY <2>9 DEF Together
<1>7. QED
  BY <1>1, <1>5, <1>6, Places DEF p

\* An endpoint reads a flag and goes on to the next round.
LEMMA WorkStep ==
  ASSUME TypeOK, HeapInv, Together, connected, NEW e \in End, ReadWork(e)
  PROVE  Together'
<1> DEFINE p == Peer(e)
           more == Close(e, mark[e])
<1>0. p \in End /\ p # e /\ Peer(p) = e /\ End = {e, p}
  BY EndFacts
<1> HIDE DEF p
<1>1. phase[e] = "work" /\ mark[e] \in SUBSET Ids /\ mark[e] \subseteq Tracked(e)
  BY DEF ReadWork, HeapInv, TypeOK
<1>2. /\ more \cap Tracked(e) = more /\ Closed(e, more) /\ more \in SUBSET Ids
      /\ \A c \in SUBSET Ids : mark[e] \subseteq c /\ Closed(e, c) => more \subseteq c
  BY <1>1, MarkFacts
<1>3. /\ work[e] \/ Head(stream[e]).work
      /\ stream[e] # <<>> /\ phase'[e] = "vec" /\ phase'[p] = phase[p]
      /\ mark'[e] = more /\ mark'[p] = mark[p]
      /\ UNCHANGED <<table, roots, refs, work, live>>
  BY <1>0, <1>2 DEF ReadWork, NextRound, TypeOK
<1>4. stream'[e] = Tail(stream[e]) /\ stream'[p] = Append(stream[p], [vec |-> mark'[e]])
  BY SendIs DEF ReadWork, p
<1> HIDE DEF more
<1>5. ASSUME Joint PROVE Joint' /\ Closed(e, mark[e])'
  <2>1. live[e] \in SUBSET Ids /\ mark[e] \subseteq live[e] /\ Closed(e, live[e])
    BY <1>5 DEF TypeOK, Joint, Covers
  <2>2. \A x \in End : mark'[x] \subseteq live[x]
    BY <1>0, <1>2, <1>3, <1>5, <2>1 DEF Joint
  <2>3. Joint'
    BY <2>2, <1>3, <1>5, JointSame
  <2>4. Closed(e, mark[e])'
    BY <1>2, <1>3 DEF Closed
  <2>5. QED
    BY <2>3, <2>4
<1>6. CASE Flags
  <2>1. /\ stream[e] = <<[work |-> work[p]]>> /\ stream[p] = <<[work |-> work[e]]>>
        /\ phase[p] = "work" /\ Joint
    BY <1>0, <1>6 DEF Flags, p
  <2>2. work[e] \/ work[p]
    BY <1>3, <2>1, ShortSeqs
  <2>3. stream'[e] = <<>> /\ stream'[p] = <<[work |-> work[e]], [vec |-> mark'[e]]>>
    <3>1. Append(<<[work |-> work[e]]>>, [vec |-> mark'[e]])
            = <<[work |-> work[e]], [vec |-> mark'[e]]>>
      BY ShortSeqs
    <3>2. Tail(<<[work |-> work[p]]>>) = <<>>
      BY ShortSeqs
    <3>3. QED
      BY <3>1, <3>2, <1>4, <2>1
  <2>4. Joint' /\ Closed(e, mark[e])' /\ work[e] \in BOOLEAN
    BY <1>5, <2>1 DEF TypeOK
  <2>5. Onward(p)'
    <3>1. phase'[p] = "work" /\ phase'[e] = "vec" /\ (work[e] \/ work'[p])
      BY <1>3, <2>1, <2>2
    <3>2. QED
      BY <3>1, <2>3, <2>4, <1>0 DEF Onward
  <2>6. QED
    BY <2>5, <1>0 DEF Together
<1>7. CASE Onward(e)
  <2>1. PICK b \in BOOLEAN :
          /\ stream[e] = <<[work |-> b], [vec |-> mark[p]]>>
          /\ b \/ work[e] => Joint /\ Closed(p, mark[p])
    BY <1>7 DEF Onward, p
  <2>2. phase[p] = "vec" /\ stream[p] = <<>>
    BY <1>7 DEF Onward, p
  <2>3. b \/ work[e]
    BY <1>3, <2>1, ShortSeqs
  <2>4. stream'[e] = <<[vec |-> mark'[p]]>> /\ stream'[p] = <<[vec |-> mark'[e]]>>
    BY <1>3, <1>4, <2>1, <2>2, ShortSeqs
  <2>5. Joint' /\ Closed(e, mark[e])' /\ Closed(p, mark[p])'
    BY <1>3, <1>5, <2>1, <2>3 DEF Closed
  <2>6. \A x \in End : /\ phase'[x] = "vec" /\ stream'[x] = <<[vec |-> mark'[Peer(x)]]>>
                       /\ Closed(x, mark[x])'
    BY <1>0, <1>3, <2>2, <2>4, <2>5 DEF p
  <2>7. Vectors'
    BY <2>5, <2>6 DEF Vectors
  <2>8. QED
    BY <2>7 DEF Together
<1>8. CASE Behind(e)
  BY <1>3, <1>8, ShortSeqs DEF Behind
<1>9. QED
  BY <1>1, <1>3, <1>6, <1>7, <1>8, Places DEF p

\* An endpoint reads a flag and leaves the trim, with what was live.
LEMMA EndStep ==
  ASSUME TypeOK, HeapInv, Together, connected, NEW e \in End, Trim(e)
  PROVE  Together' /\ mark[e] = live[e]
<1> DEFINE p == Peer(e)
<1>0. p \in End /\ p # e /\ Peer(p) = e /\ End = {e, p}
  BY EndFacts
<1> HIDE DEF p
<1>1. /\ phase[e] = "work" /\ ~work[e] /\ ~Head(stream[e]).work /\ stream[e] # <<>>
      /\ phase'[e] = "run" /\ phase'[p] = phase[p]
      /\ mark'[p] = mark[p] /\ work' = work /\ live'[p] = live[p]
      /\ stream'[e] = Tail(stream[e]) /\ stream'[p] = stream[p]
      /\ table'[p] = table[p] /\ refs'[p] = refs[p] /\ roots' = roots
  BY <1>0 DEF Trim, TypeOK
<1>2. CASE Flags
  <2>1. /\ stream[e] = <<[work |-> work[p]]>> /\ stream[p] = <<[work |-> work[e]]>>
        /\ phase[p] = "work"
    BY <1>0, <1>2 DEF Flags, p
  <2>2. ~work[p] /\ work[e] = FALSE
    BY <1>1, <2>1, ShortSeqs DEF TypeOK
  <2>3. \A x \in End : mark[x] = live[x]
    BY <1>0, <1>1, <1>2, <2>2, FlagsExact
  <2>4. stream'[e] = <<>> /\ stream'[p] = <<[work |-> FALSE]>>
    BY <1>1, <2>1, <2>2, ShortSeqs
  <2>5. Behind(p)'
    BY <1>0, <1>1, <2>1, <2>2, <2>3, <2>4 DEF Behind
  <2>6. QED
    BY <2>3, <2>5, <1>0 DEF Together
<1>3. CASE Onward(e)
  <2>1. PICK b \in BOOLEAN :
          /\ stream[e] = <<[work |-> b], [vec |-> mark[p]]>>
          /\ ~(b \/ work[e]) => /\ mark[e] = live[e]
                                /\ mark[p] = Close(p, roots[p]) \cap Tracked(p)
    BY <1>3 DEF Onward, p
  <2>2. phase[p] = "vec" /\ stream[p] = <<>>
    BY <1>3 DEF Onward, p
  <2>3. ~b
    BY <1>1, <2>1, ShortSeqs
  <2>4. stream'[p] = <<>> /\ stream'[e] = <<[vec |-> mark'[p]]>>
    BY <1>1, <2>1, <2>2, ShortSeqs
  <2>5. mark'[p] = (Close(p, roots[p]) \cap Tracked(p))'
    BY <1>1, <2>1, <2>3 DEF Close, Tracked
  <2>6. Alone(p)'
    BY <1>0, <1>1, <2>2, <2>4, <2>5 DEF Alone
  <2>7. QED
    BY <2>1, <2>3, <2>6, <1>0, <1>1 DEF Together
<1>4. CASE Behind(e)
  <2>1. stream'[e] = <<>> /\ stream'[p] = <<>> /\ phase[p] = "run" /\ mark[e] = live[e]
    BY <1>1, <1>4, ShortSeqs DEF Behind, p
  <2>2. Apart'
    BY <1>0, <1>1, <2>1 DEF Apart
  <2>3. QED
    BY <2>1, <2>2 DEF Together
<1>5. QED
  BY <1>1, <1>2, <1>3, <1>4, Places

LEMMA TrimStep ==
  ASSUME TypeOK, HeapInv, TrimInv, [Next]_vars
  PROVE  TrimInv'
<1> SUFFICES ASSUME connected' PROVE Together'
  BY DEF TrimInv
<1>1. connected /\ Together
  BY DEF TrimInv, Next, vars, Lose, Mutate, Drop, Track, Push, Pull, StartTrim, Collect,
         AnswerTrim, BeginMarking, ReadVector, ReadWork, NextRound, Trim, ReadLost
<1>2. CASE \E e \in End : Mutate(e) \/ StartTrim(e) \/ Collect(e)
  <2> PICK e \in End : Mutate(e) \/ StartTrim(e) \/ Collect(e)
    BY <1>2
  <2>1. CASE Mutate(e)
    BY <1>1, <2>1, MutateStep
  <2>2. CASE StartTrim(e) \/ AnswerTrim(e)
    BY <1>1, <2>2, BeginStep DEF StartTrim, AnswerTrim
  <2>3. CASE ReadVector(e)
    BY <1>1, <2>3, VectorStep
  <2>4. CASE ReadWork(e)
    BY <1>1, <2>4, WorkStep
  <2>5. CASE Trim(e)
    BY <1>1, <2>5, EndStep
  <2>6. CASE ReadLost(e)
    BY <1>1, <2>6 DEF ReadLost
  <2>7. QED
    BY <2>1, <2>2, <2>3, <2>4, <2>5, <2>6 DEF Collect
<1>3. CASE Lose
  BY <1>3 DEF Lose
<1>4. CASE UNCHANGED vars
  <2>1. UNCHANGED <<table, roots, refs, phase, mark, work, stream, live>>
    BY <1>4 DEF vars
  <2>2. Joint' <=> Joint
    BY <2>1 DEF Joint, Covers, Tracked, Closed, Crosses
  <2>3. (Apart' <=> Apart) /\ (Vectors' <=> Vectors) /\ (Flags' <=> Flags)
    BY <2>1, <2>2 DEF Apart, Vectors, Flags, Closed, Crosses, Tracked
  <2>4. ASSUME NEW x \in End
        PROVE  /\ Alone(x)' <=> Alone(x)
               /\ Behind(x)' <=> Behind(x)
    BY <2>1 DEF Alone, Behind, Close, Tracked
  <2>5. ASSUME NEW x \in End PROVE Answered(x)' <=> Answered(x)
    BY <2>1, <2>2 DEF Answered, Closed, Crosses, Tracked
  <2>6. ASSUME NEW x \in End PROVE Onward(x)' <=> Onward(x)
    BY <2>1, <2>2 DEF Onward, Closed, Close, Tracked
  <2>7. QED
    BY <1>1, <2>3, <2>4, <2>5, <2>6 DEF Together
<1>5. QED
  BY <1>2, <1>3, <1>4 DEF Next

-----------------------------------------------------------------------------
(* The theorems. *)

LEMMA InitTrim == Init => TrimInv
BY DEF Init, TrimInv, Together, Apart

LEMMA Inductive == Spec => []IInv
<1>1. Init => IInv
  BY InitType, InitHeap, InitTrim DEF IInv
<1>2. IInv /\ [Next]_vars => IInv'
  BY TypeStep, AskStep, HeapStep, TrimStep DEF IInv
<1>3. QED
  BY <1>1, <1>2, PTL DEF Spec

\* Every variable keeps its shape, and no more trims are asked for than started.
THEOREM TypeCorrect == Spec => []TypeOK
<1>1. IInv => TypeOK
  BY DEF IInv
<1>2. QED
  BY <1>1, Inductive, PTL

\* The objects the write queue names are tracked (offGcDoTrackTrim purges it).
THEOREM QueueIsTracked == Spec => []QueueTracked
<1>1. IInv => QueueTracked
  BY DEF IInv, HeapInv, QueueTracked
<1>2. QED
  BY <1>1, Inductive, PTL

\* offGcDoTrackTrim's reader finds a bit vector where it reads one and a flag where
\* it reads a flag, also when both endpoints start a trim at once.
THEOREM ReaderInStep == Spec => []InStep
<1>1. IInv => InStep
  <2> SUFFICES ASSUME IInv, NEW e \in End, connected, stream[e] # <<>>
               PROVE  /\ phase[e] \in {"run", "vec"} => "vec" \in DOMAIN Head(stream[e])
                      /\ phase[e] = "work" => "work" \in DOMAIN Head(stream[e])
    BY DEF InStep
  <2>1. Together /\ Peer(e) \in End /\ Peer(Peer(e)) = e
    BY EndFacts DEF IInv, TrimInv
  <2>v. \A c : "vec" \in DOMAIN [vec |-> c]
    OBVIOUS
  <2>w. \A c : "work" \in DOMAIN [work |-> c]
    OBVIOUS
  <2>2. ASSUME phase[e] = "run" PROVE \E c : Head(stream[e]) = [vec |-> c]
    <3>1. Alone(Peer(e)) \/ Behind(Peer(e)) \/ Apart
      BY <2>1, <2>2, Places
    <3>2. CASE Alone(Peer(e))
      BY <2>1, <3>2, ShortSeqs DEF Alone
    <3>3. QED
      BY <2>1, <3>1, <3>2 DEF Apart, Behind
  <2>3. ASSUME phase[e] = "vec" PROVE \E c : Head(stream[e]) = [vec |-> c]
    <3>1. CASE Vectors
      <4>1. stream[e] = <<[vec |-> mark[Peer(e)]]>>
        BY <3>1 DEF Vectors
      <4>2. Head(<<[vec |-> mark[Peer(e)]]>>) = [vec |-> mark[Peer(e)]]
        BY ShortSeqs
      <4>3. QED
        BY <4>1, <4>2
    <3>2. CASE Answered(Peer(e))
      <4>1. PICK v \in SUBSET Ids : stream[e] = <<[vec |-> v], [work |-> work[Peer(e)]]>>
        BY <2>1, <3>2 DEF Answered
      <4>2. Head(<<[vec |-> v], [work |-> work[Peer(e)]]>>) = [vec |-> v]
        BY ShortSeqs
      <4>3. QED
        BY <4>1, <4>2
    <3>3. QED
      BY <2>1, <2>3, <3>1, <3>2, Places
  <2>4. ASSUME phase[e] = "work" PROVE \E c : Head(stream[e]) = [work |-> c]
    <3>1. CASE Flags
      <4>1. stream[e] = <<[work |-> work[Peer(e)]]>>
        BY <3>1 DEF Flags
      <4>2. Head(<<[work |-> work[Peer(e)]]>>) = [work |-> work[Peer(e)]]
        BY ShortSeqs
      <4>3. QED
        BY <4>1, <4>2
    <3>2. CASE Onward(e)
      <4>1. PICK b \in BOOLEAN :
              stream[e] = <<[work |-> b], [vec |-> mark[Peer(e)]]>>
        BY <3>2 DEF Onward
      <4>2. Head(<<[work |-> b], [vec |-> mark[Peer(e)]]>>) = [work |-> b]
        BY ShortSeqs
      <4>3. QED
        BY <4>1, <4>2
    <3>3. CASE Behind(e)
      <4>1. stream[e] = <<[work |-> FALSE]>>
        BY <3>3 DEF Behind
      <4>2. Head(<<[work |-> FALSE]>>) = [work |-> FALSE]
        BY ShortSeqs
      <4>3. QED
        BY <4>1, <4>2
    <3>4. QED
      BY <2>1, <2>4, <3>1, <3>2, <3>3, Places
  <2>5. QED
    BY <2>v, <2>w, <2>2, <2>3, <2>4
<1>2. QED
  BY <1>1, Inductive, PTL

\* A trim keeps the copies either heap reached when both had come to rest, and no
\* others (offGcMarkOffloadRefs, offGcDoTrackTrim).
THEOREM TrimIsExact == Spec => ExactTrim
<1> DEFINE Exact == \A e \in End : phase[e] = "work" /\ phase'[e] = "run" =>
                      {i \in Ids : table'[e][i] # 0} = live[e]
<1>1. IInv /\ [Next]_vars => [Exact]_vars
  <2> SUFFICES ASSUME IInv, Next, NEW e \in End, phase[e] = "work", phase'[e] = "run"
               PROVE  {i \in Ids : table'[e][i] # 0} = live[e]
    OBVIOUS
  <2>1. Trim(e)
    <3>1. ~Lose
      BY DEF Lose
    <3>2. PICK x \in End : Mutate(x) \/ StartTrim(x) \/ Collect(x)
      BY <3>1 DEF Next
    <3>3. phase \in [End -> {"run", "vec", "work"}]
      BY DEF IInv, TypeOK
    <3>4. ~Mutate(x)
      BY DEF Mutate, Drop, Track, Push, Pull
    <3>5. ~(\E q \in {"vec", "work"} : phase' = [phase EXCEPT ![x] = q])
      BY <3>3
    <3>6. ~BeginMarking(x) /\ ~NextRound(x) /\ ~ReadVector(x) /\ ~ReadLost(x)
      BY <3>5 DEF BeginMarking, NextRound, ReadVector, ReadLost
    <3>7. Trim(x)
      BY <3>2, <3>4, <3>6 DEF StartTrim, Collect, AnswerTrim, ReadWork
    <3>8. x = e
      BY <3>3, <3>7 DEF Trim
    <3>9. QED
      BY <3>7, <3>8
  <2>2. mark[e] = live[e]
    BY <2>1, EndStep DEF IInv, TrimInv, Trim
  <2>3. table'[e] = [i \in Ids |-> IF i \in mark[e] THEN table[e][i] ELSE 0]
    BY <2>1 DEF Trim, IInv, TypeOK
  <2>4. mark[e] \subseteq Tracked(e)
    BY DEF IInv, HeapInv
  <2>5. QED
    BY <2>2, <2>3, <2>4 DEF Tracked
<1>2. QED
  BY <1>1, Inductive, PTL DEF Spec, ExactTrim
-----------------------------------------------------------------------------
(* The objects behind the identifiers. *)

\* Only objects that e itself tracked, by its own identifiers, are sent whole.
OwnInv ==
  \A e \in End :
    /\ queue[e] \subseteq OwnIds(e)
    /\ push[Peer(e)] # NoPush =>
         /\ push[Peer(e)].full \subseteq OwnIds(e)
         /\ push[Peer(e)].full \subseteq push[Peer(e)].sent

\* The other endpoint has left the trim and e is about to.
Last(e) ==
  /\ phase[e] = "work" /\ phase[Peer(e)] # "work"
  /\ stream[e] # <<>> /\ ~Head(stream[e]).work /\ ~work[e]

\* The table as it is once e has left a trim the other endpoint has left.
Settled(e, i) == IF Last(e) /\ i \notin mark[e] THEN 0 ELSE table[e][i]

\* An identifier of e is settled at the other endpoint as the same object, or
\* will be sent there whole.
Agree(e) ==
  LET p == Peer(e)
  IN \A i \in Ids : Settled(e, i) # 0 =>
       \/ Settled(p, i) = Settled(e, i)
       \/ /\ Settled(p, i) = 0
          /\ i \in queue[e] \/ (push[p] # NoPush /\ i \in push[p].full)

\* A push of e names the objects e has, and those not sent whole the other has too.
PushAgrees(e) ==
  LET p == Peer(e)
  IN push[p] # NoPush =>
       \A i \in push[p].sent :
         /\ push[p].obj[i] = table[e][i]
         /\ i \in push[p].full \/ table[p][i] = table[e][i]

\* Nothing has been pushed to an endpoint that has yet to leave its trim; if
\* something has, the end of that trim crosses it.
Uncrossed == \A e \in End : Last(e) => push[e] = NoPush

SameInv ==
  connected /\ ~crossed =>
    /\ ~mixup
    /\ \A e \in End : Last(e) => push[Peer(e)] = NoPush
    /\ Uncrossed => \A e \in End : Agree(e) /\ PushAgrees(e)

-----------------------------------------------------------------------------
(* The objects behind the identifiers: the invariant is kept. *)

LEMMA InitSame == Init => OwnInv /\ SameInv
<1> SUFFICES ASSUME Init PROVE OwnInv /\ SameInv
  OBVIOUS
<1>1. OwnInv
  BY EndFacts DEF Init, OwnInv
<1>2. \A x \in End : ~Last(x) /\ push[x] = NoPush
  BY DEF Init, Last
<1>3. \A x \in End, i \in Ids : Settled(x, i) = 1
  BY <1>2 DEF Init, Settled
<1>4. SameInv
  BY <1>2, <1>3, EndFacts DEF Init, SameInv, Agree, PushAgrees
<1>5. QED
  BY <1>1, <1>4

LEMMA OwnStep ==
  ASSUME TypeOK, OwnInv, [Next]_vars
  PROVE  OwnInv'
<1> SUFFICES ASSUME NEW x \in End
             PROVE  /\ queue'[x] \subseteq OwnIds(x)
                    /\ push'[Peer(x)] # NoPush =>
                         /\ push'[Peer(x)].full \subseteq OwnIds(x)
                         /\ push'[Peer(x)].full \subseteq push'[Peer(x)].sent
  BY DEF OwnInv, OwnIds
<1>x. /\ queue[x] \subseteq OwnIds(x)
      /\ push[Peer(x)] # NoPush =>
           /\ push[Peer(x)].full \subseteq OwnIds(x)
           /\ push[Peer(x)].full \subseteq push[Peer(x)].sent
  BY DEF OwnInv
<1>1. CASE Lose
  BY <1>1, <1>x, EndFacts DEF Lose
<1>2. CASE UNCHANGED <<queue, push>>
  BY <1>2, <1>x
<1>3. ASSUME NEW e \in End, Track(e)
      PROVE  queue'[x] \subseteq OwnIds(x) /\ push' = push
  <2> PICK i \in OwnIds(e) : queue' = [queue EXCEPT ![e] = @ \cup {i}]
    BY <1>3 DEF Track
  <2>1. queue'[x] = IF x = e THEN queue[x] \cup {i} ELSE queue[x]
    BY DEF TypeOK
  <2>2. QED
    BY <2>1, <1>3, <1>x DEF Track
<1>4. ASSUME NEW e \in End, Push(e)
      PROVE  /\ queue'[x] \subseteq OwnIds(x)
             /\ push'[Peer(x)] # NoPush =>
                  /\ push'[Peer(x)].full \subseteq OwnIds(x)
                  /\ push'[Peer(x)].full \subseteq push'[Peer(x)].sent
  <2>1. PICK i : push' = [push EXCEPT ![Peer(e)] =
                   [sent |-> queue[e] \cup {i}, full |-> queue[e], obj |-> table[e]]]
    BY <1>4 DEF Push
  <2>2. queue'[x] \subseteq OwnIds(x)
    BY <1>4, <1>x DEF Push, TypeOK
  <2>3. CASE x = e
    <3>1. push'[Peer(x)] = [sent |-> queue[e] \cup {i}, full |-> queue[e], obj |-> table[e]]
      BY <2>1, <2>3, EndFacts DEF TypeOK
    <3>2. QED
      BY <3>1, <2>2, <2>3, <1>x
  <2>4. CASE x # e
    <3>1. push'[Peer(x)] = push[Peer(x)]
      BY <2>1, <2>4, EndFacts DEF TypeOK
    <3>2. QED
      BY <3>1, <2>2, <1>x
  <2>5. QED
    BY <2>3, <2>4
<1>5. ASSUME NEW e \in End, Pull(e)
      PROVE  queue' = queue /\ (push'[Peer(x)] = push[Peer(x)] \/ push'[Peer(x)] = NoPush)
  BY <1>5, EndFacts DEF Pull, TypeOK
<1>6. ASSUME NEW e \in End, Trim(e)
      PROVE  queue'[x] \subseteq queue[x] /\ push' = push
  BY <1>6 DEF Trim, TypeOK
<1>7. ASSUME NEW e \in End, Drop(e) \/ StartTrim(e) \/ AnswerTrim(e) \/ ReadVector(e)
                            \/ ReadWork(e) \/ ReadLost(e)
      PROVE  UNCHANGED <<queue, push>>
  BY <1>7 DEF Drop, StartTrim, AnswerTrim, BeginMarking, ReadVector, ReadWork, ReadLost,
              NextRound
<1>8. CASE \E e \in End : Mutate(e) \/ StartTrim(e) \/ Collect(e)
  <2> PICK e \in End : Mutate(e) \/ StartTrim(e) \/ Collect(e)
    BY <1>8
  <2>1. CASE Track(e)
    BY <2>1, <1>3, <1>x
  <2>2. CASE Push(e)
    BY <2>2, <1>4
  <2>3. CASE Pull(e)
    BY <2>3, <1>5, <1>x
  <2>4. CASE Trim(e)
    BY <2>4, <1>6, <1>x
  <2>5. CASE Drop(e) \/ StartTrim(e) \/ AnswerTrim(e) \/ ReadVector(e) \/ ReadWork(e)
             \/ ReadLost(e)
    BY <2>5, <1>7, <1>2
  <2>6. QED
    BY <2>1, <2>2, <2>3, <2>4, <2>5 DEF Mutate, Collect
<1>9. CASE UNCHANGED vars
  BY <1>9, <1>2 DEF vars
<1>10. QED
  BY <1>1, <1>8, <1>9 DEF Next

\* What an endpoint not about to leave has settled is its table.
LEMMA SettledFacts ==
  ASSUME NEW x \in End, NEW i
  PROVE  /\ ~Last(x) => Settled(x, i) = table[x][i]
         /\ Settled(x, i) # 0 => Settled(x, i) = table[x][i]
         /\ Last(x) => ~Last(Peer(x))
BY EndFacts DEF Settled, Last

\* A step that leaves the objects alone and who is about to leave a trim.
LEMMA SameKept ==
  ASSUME SameInv, UNCHANGED <<table, queue, push, connected, crossed, mixup>>,
         \A x \in End : Last(x)' <=> Last(x),
         \A x \in End : Last(x) => mark'[x] = mark[x]
  PROVE  SameInv'
<1>1. \A x \in End : \A i \in Ids : Settled(x, i)' = Settled(x, i)
  BY DEF Settled
<1>2. \A x \in End : Agree(x)' <=> Agree(x)
  BY <1>1, EndFacts DEF Agree
<1>3. \A x \in End : PushAgrees(x)' <=> PushAgrees(x)
  BY DEF PushAgrees
<1>4. Uncrossed' <=> Uncrossed
  BY DEF Uncrossed
<1>5. SUFFICES ASSUME connected, ~crossed
               PROVE  /\ ~mixup
                      /\ \A x \in End : Last(x)' => push[Peer(x)] = NoPush
                      /\ Uncrossed' => \A x \in End : Agree(x)' /\ PushAgrees(x)'
  BY DEF SameInv
<1>6. /\ ~mixup
      /\ \A x \in End : Last(x) => push[Peer(x)] = NoPush
      /\ Uncrossed => \A x \in End : Agree(x) /\ PushAgrees(x)
  BY <1>5 DEF SameInv
<1>7. QED
  BY <1>2, <1>3, <1>4, <1>6

\* Nobody is about to leave, before the step or after it.
LEMMA SameMid ==
  ASSUME SameInv, UNCHANGED <<table, queue, push, connected, crossed, mixup>>,
         \A x \in End : ~Last(x) /\ ~Last(x)'
  PROVE  SameInv'
BY SameKept

\* An endpoint comes to a trim.
LEMMA BeginSame ==
  ASSUME TypeOK, Together, connected, SameInv, NEW e \in End, BeginMarking(e)
  PROVE  SameInv'
<1>0. Peer(e) \in End /\ Peer(e) # e /\ Peer(Peer(e)) = e /\ End = {e, Peer(e)}
  BY EndFacts
<1> PICK p : p = Peer(e)
  OBVIOUS
<1>1. /\ phase[e] = "run" /\ phase'[e] = "vec" /\ phase'[p] = phase[p]
      /\ mark'[p] = mark[p] /\ work' = work
      /\ UNCHANGED <<table, queue, push, connected, crossed, mixup>>
  BY <1>0 DEF BeginMarking, TypeOK
<1>2. PICK m : stream'[p] = Append(stream[p], m)
  BY SendIs DEF BeginMarking
<1>3. phase[p] = "work" => stream[p] # <<>> /\ stream[p] = <<[work |-> FALSE]>>
  BY <1>1, Places, ShortSeqs, <1>0 DEF Apart, Alone, Behind
<1>4. phase[p] = "work" => stream'[p] # <<>> /\ ~Head(stream'[p]).work /\ ~Head(stream[p]).work
  <2> SUFFICES ASSUME phase[p] = "work"
               PROVE  stream'[p] # <<>> /\ ~Head(stream'[p]).work /\ ~Head(stream[p]).work
    OBVIOUS
  <2>1. stream'[p] = <<[work |-> FALSE], m>> /\ stream[p] = <<[work |-> FALSE]>>
    BY <1>2, <1>3, ShortSeqs
  <2>2. QED
    BY <2>1, ShortSeqs
<1>5. ~Last(e) /\ ~Last(e)'
  BY <1>1 DEF Last
<1>6. Peer(p) = e /\ Last(p)' <=> Last(p)
  <2>1. Peer(p) = e
    BY <1>0
  <2>2. CASE phase[p] # "work"
    BY <2>2, <1>1 DEF Last
  <2>3. CASE phase[p] = "work"
    BY <2>1, <2>3, <1>1, <1>3, <1>4 DEF Last
  <2>4. QED
    BY <2>1, <2>2, <2>3
<1>7. \A x \in End : Last(x)' <=> Last(x)
  BY <1>0, <1>5, <1>6 DEF Last
<1>8. \A x \in End : Last(x) => mark'[x] = mark[x]
  BY <1>0, <1>1, <1>5
<1>9. QED
  BY <1>1, <1>7, <1>8, SameKept

\* Nobody is about to leave while one of the two has a bit vector to read, or
\* while a flag says that there is another round.
LEMMA VectorSame ==
  ASSUME TypeOK, Together, Together', connected, SameInv, NEW e \in End, ReadVector(e)
  PROVE  SameInv'
<1>0. Peer(e) \in End /\ Peer(e) # e /\ Peer(Peer(e)) = e /\ End = {e, Peer(e)}
  BY EndFacts
<1> PICK p : p = Peer(e)
  OBVIOUS
<1>1. /\ phase[e] = "vec" /\ stream[e] # <<>> /\ phase'[e] = "work" /\ phase'[p] = phase[p]
      /\ UNCHANGED <<table, queue, push, connected, crossed, mixup>>
      /\ stream'[e] = Tail(stream[e])
  BY <1>0, SendIs DEF ReadVector, TypeOK
<1>2. Vectors \/ Answered(p)
  BY <1>1, Places
<1>3. \/ phase[p] = "vec" /\ stream[e] = <<[vec |-> mark[p]]>>
      \/ phase[p] = "work" /\ stream[p] = <<>>
  BY <1>0, <1>2 DEF Vectors, Answered
<1>4. ~Last(e) /\ ~Last(p)
  BY <1>0, <1>1, <1>3 DEF Last
<1>5. ~Last(e)' /\ ~Last(p)'
  <2>1. CASE phase[p] = "vec" /\ stream[e] = <<[vec |-> mark[p]]>>
    <3>1. stream'[e] = <<>>
      BY <2>1, <1>1, ShortSeqs
    <3>2. phase'[p] = "vec"
      BY <2>1, <1>1
    <3>3. QED
      BY <3>1, <3>2 DEF Last
  <2>2. CASE phase[p] = "work"
    BY <2>2, <1>0, <1>1 DEF Last
  <2>3. QED
    BY <2>1, <2>2, <1>3
<1>6. QED
  BY <1>0, <1>1, <1>4, <1>5, SameMid

LEMMA WorkSame ==
  ASSUME TypeOK, Together, connected, SameInv, NEW e \in End, ReadWork(e)
  PROVE  SameInv'
<1>0. Peer(e) \in End /\ Peer(e) # e /\ Peer(Peer(e)) = e /\ End = {e, Peer(e)}
  BY EndFacts
<1> PICK p : p = Peer(e)
  OBVIOUS
<1>1. /\ phase[e] = "work" /\ stream[e] # <<>> /\ phase'[e] = "vec" /\ phase'[p] = phase[p]
      /\ UNCHANGED <<table, queue, push, connected, crossed, mixup>>
      /\ work' = work /\ (work[e] \/ Head(stream[e]).work)
  BY <1>0 DEF ReadWork, NextRound, TypeOK
<1>2. PICK m : stream'[p] = Append(stream[p], m)
  BY SendIs DEF ReadWork
<1>3. ~Last(e)
  BY <1>1 DEF Last
<1>4. phase[p] # "work" \/ (stream[p] = <<[work |-> work[e]]>> /\ stream[e] = <<[work |-> work[p]]>>)
  BY <1>0, <1>1, Places DEF Flags, Onward, Behind
<1>5. ~Last(p)
  BY <1>0, <1>1 DEF Last
<1>6. ~Last(p)'
  <2>1. CASE phase[p] # "work"
    BY <2>1, <1>1 DEF Last
  <2>2. CASE stream[p] = <<[work |-> work[e]]>> /\ stream[e] = <<[work |-> work[p]]>>
    <3>1. stream'[p] = <<[work |-> work[e]], m>>
      BY <2>2, <1>2, ShortSeqs
    <3>2. Head(stream'[p]).work = work[e]
      BY <3>1, ShortSeqs
    <3>3. Head(stream[e]).work = work[p]
      BY <2>2, ShortSeqs
    <3>4. QED
      BY <3>2, <3>3, <1>1 DEF Last
  <2>3. QED
    BY <2>1, <2>2, <1>4
<1>7. ~Last(e)'
  BY <1>1 DEF Last
<1>8. QED
  BY <1>0, <1>1, <1>3, <1>5, <1>6, <1>7, SameMid

\* What the threads of an endpoint do outside a trim leaves the trim alone.
LEMMA MutateLast ==
  ASSUME TypeOK, NEW e \in End, Mutate(e)
  PROVE  /\ ~Last(e) /\ ~Last(e)'
         /\ \A x \in End : Last(x)' <=> Last(x)
         /\ mark' = mark /\ connected' = connected /\ crossed' = crossed
         /\ table'[Peer(e)] = table[Peer(e)]
         /\ \A i \in Ids : /\ Settled(e, i) = table[e][i]
                           /\ Settled(e, i)' = table'[e][i]
                           /\ Settled(Peer(e), i)' = Settled(Peer(e), i)
<1>1. /\ phase[e] = "run" /\ UNCHANGED <<phase, mark, work, stream, connected, crossed>>
      /\ table'[Peer(e)] = table[Peer(e)]
  BY EndFacts DEF Mutate, Drop, Track, Push, Pull, TypeOK
<1>2. /\ ~Last(e) /\ ~Last(e)'
      /\ \A x \in End : Last(x)' <=> Last(x)
  BY <1>1 DEF Last
<1>3. QED
  BY <1>1, <1>2, EndFacts DEF Settled

\* An endpoint tracks a new object: the other knows none with its identifier.
LEMMA TrackSame ==
  ASSUME TypeOK, HeapInv, OwnInv, SameInv, NEW e \in End, Track(e)
  PROVE  SameInv'
<1>0. Peer(e) \in End /\ Peer(e) # e /\ Peer(Peer(e)) = e /\ End = {e, Peer(e)}
  BY EndFacts
<1> PICK p : p = Peer(e)
  OBVIOUS
<1>l. /\ ~Last(e) /\ ~Last(e)'
      /\ \A x \in End : Last(x)' <=> Last(x)
      /\ connected' = connected /\ crossed' = crossed
      /\ table'[p] = table[p]
      /\ \A i \in Ids : /\ Settled(e, i) = table[e][i]
                        /\ Settled(e, i)' = table'[e][i]
                        /\ Settled(p, i)' = Settled(p, i)
  BY MutateLast DEF Mutate
<1>1. PICK k \in OwnIds(e), n \in 1 .. MaxSerial :
        /\ table[e][k] = 0
        /\ table' = [table EXCEPT ![e][k] = n]
        /\ queue' = [queue EXCEPT ![e] = @ \cup {k}]
  BY DEF Track
<1>2. push' = push /\ mixup' = mixup
  BY DEF Track
<1>3. k \in Ids /\ n # 0
  BY DEF OwnIds, Ids
<1>4. /\ queue'[e] = queue[e] \cup {k} /\ queue'[p] = queue[p]
      /\ table'[e][k] = n
      /\ \A j \in Ids \ {k} : table'[e][j] = table[e][j]
  BY <1>0, <1>1, <1>3 DEF TypeOK
<1> SUFFICES ASSUME connected, ~crossed
             PROVE  /\ ~mixup
                    /\ \A x \in End : Last(x) => push[Peer(x)] = NoPush
                    /\ Uncrossed => \A x \in End : Agree(x)' /\ PushAgrees(x)'
  BY <1>l, <1>2 DEF SameInv, Uncrossed
<1>5. /\ ~mixup
      /\ \A x \in End : Last(x) => push[Peer(x)] = NoPush
      /\ Uncrossed => \A x \in End : Agree(x) /\ PushAgrees(x)
  BY DEF SameInv
<1> SUFFICES ASSUME Uncrossed
             PROVE  Agree(e)' /\ Agree(p)' /\ PushAgrees(e)' /\ PushAgrees(p)'
  BY <1>0, <1>5
<1>6. Agree(e) /\ Agree(p) /\ PushAgrees(e) /\ PushAgrees(p)
  BY <1>0, <1>5
<1>7. Settled(p, k) = 0
  <2>1. k \notin OwnIds(p)
    BY <1>0, TrimAssumption DEF OwnIds, End
  <2>2. k \notin queue[p] /\ (push[e] # NoPush => k \notin push[e].full)
    BY <2>1, <1>0 DEF OwnInv
  <2>3. Settled(e, k) = 0
    BY <1>1, <1>3, <1>l
  <2>4. QED
    BY <2>2, <2>3, <1>0, <1>3, <1>6 DEF Agree
<1>8. Agree(e)'
  <2> SUFFICES ASSUME NEW j \in Ids, Settled(e, j)' # 0
               PROVE  \/ Settled(p, j)' = Settled(e, j)'
                      \/ /\ Settled(p, j)' = 0
                         /\ j \in queue'[e] \/ (push'[p] # NoPush /\ j \in push'[p].full)
    BY DEF Agree
  <2>1. CASE j = k
    BY <2>1, <1>4, <1>7, <1>l
  <2>2. CASE j # k
    <3>1. Settled(e, j)' = Settled(e, j) /\ Settled(p, j)' = Settled(p, j)
      BY <2>2, <1>4, <1>l
    <3>2. QED
      BY <3>1, <1>2, <1>4, <1>6 DEF Agree
  <2>3. QED
    BY <2>1, <2>2
<1>9. Agree(p)'
  <2> SUFFICES ASSUME NEW j \in Ids, Settled(p, j)' # 0
               PROVE  \/ Settled(e, j)' = Settled(p, j)'
                      \/ /\ Settled(e, j)' = 0
                         /\ j \in queue'[p] \/ (push'[e] # NoPush /\ j \in push'[e].full)
    BY <1>0 DEF Agree
  <2>1. j # k
    BY <1>7, <1>l
  <2>2. Settled(e, j)' = Settled(e, j) /\ Settled(p, j)' = Settled(p, j)
    BY <2>1, <1>4, <1>l
  <2>3. QED
    BY <2>2, <1>0, <1>2, <1>4, <1>6 DEF Agree
<1>10. PushAgrees(e)'
  <2> SUFFICES ASSUME push[p] # NoPush, NEW j \in push[p].sent
               PROVE  /\ push[p].obj[j] = table'[e][j]
                      /\ j \in push[p].full \/ table'[p][j] = table'[e][j]
    BY <1>2 DEF PushAgrees
  <2>1. j \in Ids /\ push[p].obj[j] # 0
    BY <1>0 DEF HeapInv
  <2>2. /\ push[p].obj[j] = table[e][j]
        /\ j \in push[p].full \/ table[p][j] = table[e][j]
    BY <1>6 DEF PushAgrees
  <2>3. QED
    BY <2>1, <2>2, <1>1, <1>4, <1>l
<1>11. PushAgrees(p)'
  <2> SUFFICES ASSUME push[e] # NoPush, NEW j \in push[e].sent
               PROVE  /\ push[e].obj[j] = table'[p][j]
                      /\ j \in push[e].full \/ table'[e][j] = table'[p][j]
    BY <1>0, <1>2 DEF PushAgrees
  <2>1. j \in Ids /\ push[e].obj[j] # 0
    BY <1>0 DEF HeapInv
  <2>2. /\ push[e].obj[j] = table[p][j]
        /\ j \in push[e].full \/ table[e][j] = table[p][j]
    BY <1>0, <1>6 DEF PushAgrees
  <2>3. QED
    BY <2>1, <2>2, <1>1, <1>4, <1>l
<1>12. QED
  BY <1>8, <1>9, <1>10, <1>11

\* An endpoint pushes: what it does not send whole the other endpoint has.
LEMMA PushSame ==
  ASSUME TypeOK, HeapInv, SameInv, NEW e \in End, Push(e)
  PROVE  SameInv'
<1>0. Peer(e) \in End /\ Peer(e) # e /\ Peer(Peer(e)) = e /\ End = {e, Peer(e)}
  BY EndFacts
<1> PICK p : p = Peer(e)
  OBVIOUS
<1>l. /\ ~Last(e) /\ ~Last(e)'
      /\ \A x \in End : Last(x)' <=> Last(x)
      /\ connected' = connected /\ crossed' = crossed
      /\ \A i \in Ids : /\ Settled(e, i) = table[e][i]
                        /\ Settled(e, i)' = table'[e][i]
                        /\ Settled(p, i)' = Settled(p, i)
  BY MutateLast DEF Mutate
<1>1. PICK k \in Close(e, roots[e]) :
        push' = [push EXCEPT ![Peer(e)] =
                   [sent |-> queue[e] \cup {k}, full |-> queue[e], obj |-> table[e]]]
  BY DEF Push
<1>2. /\ push[p] = NoPush /\ queue' = [queue EXCEPT ![e] = {}]
      /\ UNCHANGED <<table, mixup>>
  BY DEF Push
<1>3. /\ push'[p] = [sent |-> queue[e] \cup {k}, full |-> queue[e], obj |-> table[e]]
      /\ push'[e] = push[e]
      /\ queue'[e] = {} /\ queue'[p] = queue[p]
  BY <1>0, <1>1, <1>2 DEF TypeOK
<1>4. push'[p] # NoPush
  <2>1. k \in push'[p].sent
    BY <1>3
  <2>2. QED
    BY <2>1 DEF NoPush
<1>5. k \in Ids /\ table[e][k] # 0
  <2>1. roots[e] \in SUBSET Ids /\ roots[e] \subseteq Tracked(e)
    BY DEF TypeOK, HeapInv
  <2>2. k \in Tracked(e)
    BY <2>1, MarkFacts
  <2>3. QED
    BY <2>2 DEF Tracked
<1> SUFFICES ASSUME connected, ~crossed
             PROVE  /\ ~mixup
                    /\ \A x \in End : Last(x) => push'[Peer(x)] = NoPush
                    /\ Uncrossed' => \A x \in End : Agree(x)' /\ PushAgrees(x)'
  BY <1>l, <1>2 DEF SameInv
<1>6. /\ ~mixup
      /\ \A x \in End : Last(x) => push[Peer(x)] = NoPush
      /\ Uncrossed => \A x \in End : Agree(x) /\ PushAgrees(x)
  BY DEF SameInv
<1>7. \A x \in End : Last(x) => push'[Peer(x)] = NoPush
  BY <1>0, <1>l, <1>3, <1>6
<1> SUFFICES ASSUME Uncrossed'
             PROVE  Agree(e)' /\ Agree(p)' /\ PushAgrees(e)' /\ PushAgrees(p)'
  BY <1>0, <1>6, <1>7
<1>8. ~Last(p)
  BY <1>0, <1>4, <1>l DEF Uncrossed
<1>9. Uncrossed
  BY <1>0, <1>8, <1>l DEF Uncrossed
<1>10. Agree(e) /\ Agree(p) /\ PushAgrees(p)
  BY <1>0, <1>6, <1>9
<1>11. \A i \in Ids : Settled(p, i) = table[p][i]
  BY <1>0, <1>8, SettledFacts
<1>12. Agree(e)'
  <2> SUFFICES ASSUME NEW j \in Ids, Settled(e, j) # 0
               PROVE  \/ Settled(p, j) = Settled(e, j)
                      \/ Settled(p, j) = 0 /\ j \in push'[p].full
    BY <1>2, <1>4, <1>l DEF Agree
  <2>1. QED
    BY <1>2, <1>3, <1>10 DEF Agree
<1>13. Agree(p)'
  <2> SUFFICES ASSUME NEW j \in Ids, Settled(p, j) # 0
               PROVE  \/ Settled(e, j) = Settled(p, j)
                      \/ /\ Settled(e, j) = 0
                         /\ j \in queue[p] \/ (push[e] # NoPush /\ j \in push[e].full)
    BY <1>0, <1>2, <1>3, <1>l DEF Agree
  <2>1. QED
    BY <1>0, <1>10 DEF Agree
<1>14. PushAgrees(e)'
  <2> SUFFICES ASSUME NEW j \in queue[e] \cup {k}
               PROVE  j \in queue[e] \/ table[p][j] = table[e][j]
    BY <1>2, <1>3 DEF PushAgrees
  <2>1. QED
    BY <1>2, <1>5, <1>10, <1>11, <1>l DEF Agree
<1>15. PushAgrees(p)'
  BY <1>0, <1>2, <1>3, <1>10 DEF PushAgrees
<1>16. QED
  BY <1>12, <1>13, <1>14, <1>15

\* An endpoint pulls: what it lacks came whole, and it had no other object.
LEMMA PullSame ==
  ASSUME TypeOK, HeapInv, OwnInv, SameInv, NEW e \in End, Pull(e)
  PROVE  SameInv'
<1>0. Peer(e) \in End /\ Peer(e) # e /\ Peer(Peer(e)) = e /\ End = {e, Peer(e)}
  BY EndFacts
<1> PICK p : p = Peer(e)
  OBVIOUS
<1>l. /\ ~Last(e) /\ ~Last(e)'
      /\ \A x \in End : Last(x)' <=> Last(x)
      /\ connected' = connected /\ crossed' = crossed
      /\ table'[p] = table[p]
      /\ \A i \in Ids : /\ Settled(e, i) = table[e][i]
                        /\ Settled(e, i)' = table'[e][i]
                        /\ Settled(p, i)' = Settled(p, i)
  BY MutateLast DEF Mutate
<1>1. /\ push[e] # NoPush /\ push' = [push EXCEPT ![e] = NoPush] /\ queue' = queue
      /\ table' = [table EXCEPT ![e] = [i \in Ids |->
                     IF i \in push[e].sent /\ @[i] = 0 THEN push[e].obj[i] ELSE @[i]]]
      /\ mixup' = (mixup \/ \E i \in push[e].sent :
                     table[e][i] \notin (IF i \in push[e].full THEN {0, push[e].obj[i]}
                                         ELSE {push[e].obj[i]}))
  BY DEF Pull
<1>2. push'[e] = NoPush /\ push'[p] = push[p]
  BY <1>0, <1>1 DEF TypeOK
<1>3. \A j \in Ids : table'[e][j] = IF j \in push[e].sent /\ table[e][j] = 0
                                    THEN push[e].obj[j] ELSE table[e][j]
  BY <1>1 DEF TypeOK
<1> SUFFICES ASSUME connected, ~crossed
             PROVE  /\ ~mixup'
                    /\ \A x \in End : Last(x) => push'[Peer(x)] = NoPush
                    /\ Uncrossed' => \A x \in End : Agree(x)' /\ PushAgrees(x)'
  BY <1>l DEF SameInv
<1>4. /\ ~mixup
      /\ \A x \in End : Last(x) => push[Peer(x)] = NoPush
      /\ Uncrossed => \A x \in End : Agree(x) /\ PushAgrees(x)
  BY DEF SameInv
<1>5. ~Last(p)
  BY <1>0, <1>1, <1>4
<1>6. Agree(e) /\ Agree(p) /\ PushAgrees(e) /\ PushAgrees(p)
  <2>1. Uncrossed
    BY <1>0, <1>5, <1>l DEF Uncrossed
  <2>2. QED
    BY <2>1, <1>0, <1>4
<1>7. \A i \in Ids : Settled(p, i) = table[p][i]
  BY <1>0, <1>5, SettledFacts
<1>8. ASSUME NEW j \in push[e].sent
      PROVE  /\ j \in Ids /\ table[p][j] # 0 /\ push[e].obj[j] = table[p][j]
             /\ table[e][j] = table[p][j] \/ (table[e][j] = 0 /\ j \in push[e].full)
  <2>1. j \in Ids /\ push[e].obj[j] # 0
    BY <1>1 DEF HeapInv
  <2>2. /\ push[e].obj[j] = table[p][j]
        /\ j \in push[e].full \/ table[e][j] = table[p][j]
    BY <1>0, <1>1, <1>6 DEF PushAgrees
  <2>3. table[e][j] = table[p][j] \/ table[e][j] = 0
    BY <2>1, <2>2, <1>0, <1>6, <1>7, <1>l DEF Agree
  <2>4. QED
    BY <2>1, <2>2, <2>3
<1>9. ~mixup'
  BY <1>1, <1>4, <1>8
<1>10. \A j \in Ids : /\ j \in push[e].sent => table'[e][j] = table[p][j]
                      /\ j \notin push[e].sent => table'[e][j] = table[e][j]
                      /\ table[e][j] # 0 => table'[e][j] = table[e][j]
  BY <1>3, <1>8
<1>11. Agree(e)'
  <2> SUFFICES ASSUME NEW j \in Ids, table'[e][j] # 0
               PROVE  \/ table[p][j] = table'[e][j]
                      \/ /\ table[p][j] = 0
                         /\ j \in queue[e] \/ (push[p] # NoPush /\ j \in push[p].full)
    BY <1>1, <1>2, <1>7, <1>l DEF Agree
  <2>1. CASE j \in push[e].sent
    BY <2>1, <1>10
  <2>2. CASE j \notin push[e].sent
    <3>1. table[e][j] # 0 /\ table'[e][j] = table[e][j]
      BY <2>2, <1>10
    <3>2. QED
      BY <3>1, <1>6, <1>7, <1>l DEF Agree
  <2>3. QED
    BY <2>1, <2>2
<1>12. Agree(p)'
  <2> SUFFICES ASSUME NEW j \in Ids, table[p][j] # 0
               PROVE  \/ table'[e][j] = table[p][j]
                      \/ table'[e][j] = 0 /\ j \in queue[p]
    BY <1>0, <1>1, <1>2, <1>7, <1>l DEF Agree
  <2>1. CASE j \in push[e].sent
    BY <2>1, <1>10
  <2>2. CASE j \notin push[e].sent
    <3>1. table'[e][j] = table[e][j] /\ j \notin push[e].full
      BY <2>2, <1>0, <1>1, <1>10 DEF OwnInv
    <3>2. QED
      BY <3>1, <1>0, <1>6, <1>7, <1>l DEF Agree
  <2>3. QED
    BY <2>1, <2>2
<1>13. PushAgrees(e)'
  <2> SUFFICES ASSUME push[p] # NoPush, NEW j \in push[p].sent
               PROVE  /\ push[p].obj[j] = table'[e][j]
                      /\ j \in push[p].full \/ table[p][j] = table'[e][j]
    BY <1>2, <1>l DEF PushAgrees
  <2>1. j \in Ids /\ push[p].obj[j] # 0
    BY <1>0 DEF HeapInv
  <2>2. /\ push[p].obj[j] = table[e][j]
        /\ j \in push[p].full \/ table[p][j] = table[e][j]
    BY <1>6 DEF PushAgrees
  <2>3. QED
    BY <2>1, <2>2, <1>10
<1>14. PushAgrees(p)'
  BY <1>0, <1>2 DEF PushAgrees
<1>15. \A x \in End : Last(x) => push'[Peer(x)] = NoPush
  BY <1>0, <1>5, <1>l
<1>16. QED
  BY <1>0, <1>9, <1>11, <1>12, <1>13, <1>14, <1>15

\* An endpoint leaves a trim.  The first to do so leaves the other about to, and
\* both have marked the same; the second leaves as what it was about to be.
LEMMA TrimSame ==
  ASSUME TypeOK, HeapInv, Together, connected, SameInv, NEW e \in End, Trim(e)
  PROVE  SameInv'
<1>0. Peer(e) \in End /\ Peer(e) # e /\ Peer(Peer(e)) = e /\ End = {e, Peer(e)}
  BY EndFacts
<1> PICK p : p = Peer(e)
  OBVIOUS
<1>1. /\ phase[e] = "work" /\ ~work[e] /\ ~Head(stream[e]).work /\ stream[e] # <<>>
      /\ phase'[e] = "run" /\ phase'[p] = phase[p]
      /\ mark'[p] = mark[p] /\ work' = work
      /\ stream'[p] = stream[p]
      /\ table'[p] = table[p]
      /\ \A i \in Ids : table'[e][i] = IF i \in mark[e] THEN table[e][i] ELSE 0
      /\ queue'[e] = queue[e] \cap mark[e] /\ queue'[p] = queue[p]
      /\ push' = push /\ connected' = connected /\ mixup' = mixup
      /\ crossed' = (crossed \/ \E x \in End : push[x] # NoPush)
  BY <1>0 DEF Trim, TypeOK
<1> SUFFICES ASSUME ~crossed'
             PROVE  /\ ~mixup
                    /\ \A x \in End : Last(x)' => push[Peer(x)] = NoPush
                    /\ Uncrossed' => \A x \in End : Agree(x)' /\ PushAgrees(x)'
  BY <1>1 DEF SameInv
<1>2. ~crossed /\ \A x \in End : push[x] = NoPush
  BY <1>1
<1>3. ~mixup /\ Agree(e) /\ Agree(p)
  <2>1. Uncrossed
    BY <1>2 DEF Uncrossed
  <2>2. QED
    BY <2>1, <1>0, <1>2 DEF SameInv
<1>4. \A x \in End : PushAgrees(x)' /\ push[Peer(x)] = NoPush
  BY <1>1, <1>2, EndFacts DEF PushAgrees
<1>5. ~Last(e)' /\ \A i \in Ids : Settled(e, i)' = table'[e][i]
  BY <1>1 DEF Last, Settled
<1>6. Agree(e)' /\ Agree(p)'
  <2>1. CASE phase[p] = "work"
    <3>1. Flags
      BY <2>1, <1>0, <1>1, Places DEF Onward, Behind
    <3>2. /\ stream[e] = <<[work |-> work[p]]>> /\ stream[p] = <<[work |-> work[e]]>>
      BY <1>0, <3>1 DEF Flags
    <3>3. ~work[p] /\ Head(stream[p]).work = work[e] /\ stream[p] # <<>>
      BY <3>2, <1>1, ShortSeqs
    <3>4. Crosses(e, mark[e], mark[p]) /\ Crosses(p, mark[p], mark[e])
      BY <3>1, <3>3, <1>0, <1>1 DEF Flags
    <3>5. ~Last(e) /\ ~Last(p) /\ Last(p)'
      BY <2>1, <3>3, <1>0, <1>1 DEF Last
    <3>6. \A i \in Ids : /\ Settled(e, i) = table[e][i] /\ Settled(p, i) = table[p][i]
                         /\ Settled(p, i)' = IF i \in mark[p] THEN table[p][i] ELSE 0
      BY <3>5, <1>1 DEF Settled
    <3>7. ASSUME NEW i \in Ids
          PROVE  /\ i \in mark[e] /\ table[p][i] # 0 => i \in mark[p]
                 /\ i \in mark[p] /\ table[e][i] # 0 => i \in mark[e]
      BY <3>4, <1>0 DEF Crosses, Tracked
    <3>8. Agree(e)'
      <4> SUFFICES ASSUME NEW i \in Ids, i \in mark[e], table[e][i] # 0
                   PROVE  \/ Settled(p, i)' = table[e][i]
                          \/ Settled(p, i)' = 0 /\ i \in queue'[e]
        BY <1>1, <1>5 DEF Agree
      <4>1. table[p][i] = table[e][i] \/ (table[p][i] = 0 /\ i \in queue[e])
        BY <3>6, <1>0, <1>2, <1>3 DEF Agree
      <4>2. QED
        BY <4>1, <3>6, <3>7, <1>1
    <3>9. Agree(p)'
      <4> SUFFICES ASSUME NEW i \in Ids, i \in mark[p], table[p][i] # 0
                   PROVE  \/ table'[e][i] = table[p][i]
                          \/ table'[e][i] = 0 /\ i \in queue'[p]
        BY <3>6, <1>0, <1>1, <1>5 DEF Agree
      <4>1. table[e][i] = table[p][i] \/ (table[e][i] = 0 /\ i \in queue[p])
        BY <3>6, <1>0, <1>2, <1>3 DEF Agree
      <4>2. QED
        BY <4>1, <3>7, <1>1
    <3>10. QED
      BY <3>8, <3>9
  <2>2. CASE phase[p] # "work"
    <3>1. Last(e) /\ ~Last(p) /\ ~Last(p)'
      BY <2>2, <1>0, <1>1 DEF Last
    <3>2. \A i \in Ids : /\ Settled(e, i) = table'[e][i]
                         /\ Settled(p, i) = table[p][i] /\ Settled(p, i)' = table[p][i]
      BY <3>1, <1>1 DEF Settled
    <3>3. Agree(e)'
      <4> SUFFICES ASSUME NEW i \in Ids, table'[e][i] # 0
                   PROVE  \/ table[p][i] = table'[e][i]
                          \/ table[p][i] = 0 /\ i \in queue'[e]
        BY <3>2, <1>5 DEF Agree
      <4>1. i \in mark[e]
        BY <1>1
      <4>2. QED
        BY <4>1, <3>2, <1>0, <1>1, <1>2, <1>3 DEF Agree
    <3>4. Agree(p)'
      <4> SUFFICES ASSUME NEW i \in Ids, table[p][i] # 0
                   PROVE  \/ table'[e][i] = table[p][i]
                          \/ table'[e][i] = 0 /\ i \in queue'[p]
        BY <3>2, <1>0, <1>5 DEF Agree
      <4>1. QED
        BY <3>2, <1>0, <1>1, <1>2, <1>3 DEF Agree
    <3>5. QED
      BY <3>3, <3>4
  <2>3. QED
    BY <2>1, <2>2
<1>7. QED
  BY <1>0, <1>3, <1>4, <1>6

LEMMA SameStep ==
  ASSUME TypeOK, HeapInv, TrimInv, TrimInv', OwnInv, SameInv, [Next]_vars
  PROVE  SameInv'
<1> SUFFICES ASSUME connected' PROVE SameInv'
  BY DEF SameInv
<1>1. connected /\ Together /\ Together'
  BY DEF TrimInv, Next, vars, Lose, Mutate, Drop, Track, Push, Pull, StartTrim, Collect,
         AnswerTrim, BeginMarking, ReadVector, ReadWork, NextRound, Trim, ReadLost
<1>2. CASE \E e \in End : Mutate(e) \/ StartTrim(e) \/ Collect(e)
  <2> PICK e \in End : Mutate(e) \/ StartTrim(e) \/ Collect(e)
    BY <1>2
  <2>1. CASE Drop(e)
    <3>1. /\ \A x \in End : Last(x)' <=> Last(x)
          /\ mark' = mark
      BY <2>1, MutateLast DEF Mutate
    <3>2. UNCHANGED <<table, queue, push, connected, crossed, mixup>>
      BY <2>1 DEF Drop
    <3>3. QED
      BY <3>1, <3>2, SameKept
  <2>2. CASE Track(e)
    BY <2>2, TrackSame
  <2>3. CASE Push(e)
    BY <2>3, PushSame
  <2>4. CASE Pull(e)
    BY <2>4, PullSame
  <2>5. CASE StartTrim(e) \/ AnswerTrim(e)
    BY <1>1, <2>5, BeginSame DEF StartTrim, AnswerTrim
  <2>6. CASE ReadVector(e)
    BY <1>1, <2>6, VectorSame
  <2>7. CASE ReadWork(e)
    BY <1>1, <2>7, WorkSame
  <2>8. CASE Trim(e)
    BY <1>1, <2>8, TrimSame
  <2>9. CASE ReadLost(e)
    BY <1>1, <2>9 DEF ReadLost
  <2>10. QED
    BY <2>1, <2>2, <2>3, <2>4, <2>5, <2>6, <2>7, <2>8, <2>9 DEF Mutate, Collect
<1>3. CASE Lose
  BY <1>3 DEF Lose
<1>4. CASE UNCHANGED vars
  <2>1. /\ UNCHANGED <<table, queue, push, connected, crossed, mixup>>
        /\ UNCHANGED <<phase, mark, work, stream>>
    BY <1>4 DEF vars
  <2>2. \A x \in End : Last(x)' <=> Last(x)
    BY <2>1 DEF Last
  <2>3. QED
    BY <2>1, <2>2, SameKept
<1>5. QED
  BY <1>2, <1>3, <1>4 DEF Next

LEMMA SameInductive == Spec => [](OwnInv /\ SameInv)
<1>1. IInv => TypeOK /\ HeapInv /\ TrimInv
  BY DEF IInv
<1>2. IInv /\ IInv' /\ OwnInv /\ SameInv /\ [Next]_vars => (OwnInv /\ SameInv)'
  BY OwnStep, SameStep DEF IInv
<1>3. QED
  BY <1>2, InitSame, Inductive, PTL DEF Spec

\* As long as no trim ends with a push under way, an identifier names one object at
\* both endpoints, no push is taken for another object (readValue), and what one
\* endpoint lacks the other has in its write queue or has pushed whole.
THEOREM ObjectsAreSame == Spec => []SameObjects
<1>1. IInv /\ OwnInv /\ SameInv => SameObjects
  <2> SUFFICES ASSUME OwnInv, SameInv, connected, ~crossed
               PROVE  /\ ~mixup
                      /\ (\A e \in End : phase[e] = "run" /\ stream[e] = <<>>) =>
                           \A e \in End : \A i \in Tracked(e) :
                             \/ table[Peer(e)][i] = table[e][i]
                             \/ /\ table[Peer(e)][i] = 0
                                /\ i \in queue[e] \/ i \in push[Peer(e)].sent
    BY DEF SameObjects
  <2>1. ~mixup /\ (Uncrossed => \A e \in End : Agree(e))
    BY DEF SameInv
  <2> SUFFICES ASSUME \A e \in End : phase[e] = "run" /\ stream[e] = <<>>,
                      NEW e \in End, NEW i \in Tracked(e)
               PROVE  \/ table[Peer(e)][i] = table[e][i]
                      \/ /\ table[Peer(e)][i] = 0
                         /\ i \in queue[e] \/ i \in push[Peer(e)].sent
    BY <2>1
  <2>2. \A x \in End : ~Last(x)
    BY DEF Last
  <2>3. Agree(e)
    BY <2>1, <2>2 DEF Uncrossed
  <2>4. i \in Ids /\ table[e][i] # 0
    BY DEF Tracked
  <2>5. Settled(e, i) = table[e][i] /\ Settled(Peer(e), i) = table[Peer(e)][i]
    BY <2>2, EndFacts DEF Settled
  <2>6. \/ table[Peer(e)][i] = table[e][i]
        \/ /\ table[Peer(e)][i] = 0
           /\ i \in queue[e] \/ (push[Peer(e)] # NoPush /\ i \in push[Peer(e)].full)
    BY <2>3, <2>4, <2>5 DEF Agree
  <2>7. QED
    BY <2>6 DEF OwnInv
<1>2. QED
  BY <1>1, Inductive, SameInductive, PTL
-----------------------------------------------------------------------------
(* Each trim has its request. *)

\* The endpoint is in a trim that the other has not come to.
Ahead(e) == phase[e] = "vec" /\ (phase[Peer(e)] = "run" \/ Last(Peer(e)))

Lead(e) == IF Ahead(e) THEN 1 ELSE 0

\* Each endpoint has as many requests to serve as the other, and one less for the
\* trim the other has not come to.
EvenInv ==
  connected => \A e \in End :
                 trimgc[Peer(e)] + Lead(Peer(e)) = trimgc[e] + Lead(e)

\* Nobody waits in a trim for an endpoint that will never come to it or waits as
\* well: the other has something to read, or a request for a trim to serve.  So
\* each trim has its request, also after both started one at once and two requests
\* are left for later (offGcMarkOffloadRefs, OFF_ACTION_TRIMGC).
TrimMoves ==
  \A e \in End : connected /\ phase[e] # "run" /\ stream[e] = <<>> =>
    \/ phase[Peer(e)] # "run" /\ stream[Peer(e)] # <<>>
    \/ phase[Peer(e)] = "run" /\ trimgc[Peer(e)] > 0

\* A step of both or of none of the two leaves nobody further ahead.
LEMMA EvenSame ==
  ASSUME EvenInv, connected' => connected, trimgc' = trimgc,
         connected' => \A x \in End : Ahead(x)' <=> Ahead(x)
  PROVE  EvenInv'
<1> SUFFICES ASSUME connected', NEW e \in End
             PROVE  trimgc[Peer(e)] + Lead(Peer(e))' = trimgc[e] + Lead(e)'
  BY DEF EvenInv
<1>1. Lead(e)' = Lead(e) /\ Lead(Peer(e))' = Lead(Peer(e))
  BY EndFacts DEF Lead
<1>2. QED
  BY <1>1 DEF EvenInv

\* Who comes to a trim gets ahead of the other, or comes after it.
LEMMA BeginEven ==
  ASSUME TypeOK, Together, connected, NEW e \in End, BeginMarking(e)
  PROVE  /\ ~Ahead(e) /\ ~Ahead(Peer(e))'
         /\ Ahead(e)' <=> ~Ahead(Peer(e))
<1>0. Peer(e) \in End /\ Peer(e) # e /\ Peer(Peer(e)) = e
  BY EndFacts
<1> PICK p : p = Peer(e)
  OBVIOUS
<1>1. /\ phase[e] = "run" /\ phase'[e] = "vec" /\ phase'[p] = phase[p] /\ work' = work
  BY <1>0 DEF BeginMarking, TypeOK
<1>2. PICK m : stream'[p] = Append(stream[p], m)
  BY SendIs DEF BeginMarking
<1>3. ~Ahead(e) /\ ~Last(e)'
  BY <1>1 DEF Ahead, Last
<1>4. ~Ahead(p)'
  BY <1>0, <1>1, <1>3 DEF Ahead
<1>5. CASE Apart
  <2>1. phase[p] = "run"
    BY <1>0, <1>5 DEF Apart
  <2>2. QED
    BY <2>1, <1>1, <1>3, <1>4 DEF Ahead
<1>6. CASE Alone(p)
  <2>1. phase[p] = "vec"
    BY <1>6 DEF Alone
  <2>2. QED
    BY <2>1, <1>0, <1>1, <1>3, <1>4 DEF Ahead, Last
<1>7. CASE Behind(p)
  <2>1. phase[p] = "work" /\ stream[p] = <<[work |-> FALSE]>> /\ ~work[p]
    BY <1>7 DEF Behind
  <2>2. stream'[p] = <<[work |-> FALSE], m>>
    BY <2>1, <1>2, ShortSeqs
  <2>3. stream'[p] # <<>> /\ ~Head(stream'[p]).work
    BY <2>2, ShortSeqs
  <2>4. Last(p)'
    BY <2>1, <2>3, <1>0, <1>1 DEF Last
  <2>5. QED
    BY <2>1, <2>4, <1>1, <1>3, <1>4 DEF Ahead
<1>8. QED
  BY <1>1, <1>5, <1>6, <1>7, Places

LEMMA EvenStep ==
  ASSUME TypeOK, HeapInv, TrimInv, EvenInv, [Next]_vars
  PROVE  EvenInv'
<1>c. connected' => connected /\ Together
  BY DEF TrimInv, Next, vars, Lose, Mutate, Drop, Track, Push, Pull, StartTrim, Collect,
         AnswerTrim, BeginMarking, ReadVector, ReadWork, NextRound, Trim, ReadLost
<1>1. CASE Lose \/ \E e \in End : ReadLost(e)
  BY <1>1 DEF Lose, ReadLost, NextRound, EvenInv
<1>2. CASE UNCHANGED <<phase, work, stream, trimgc, connected>>
  <2>1. \A x \in End : Last(x)' <=> Last(x)
    BY <1>2 DEF Last
  <2>2. \A x \in End : Ahead(x)' <=> Ahead(x)
    BY <2>1, <1>2, EndFacts DEF Ahead
  <2>3. QED
    BY <2>2, <1>2, EvenSame
<1>3. ASSUME NEW e \in End, StartTrim(e) \/ AnswerTrim(e), connected
      PROVE  EvenInv'
  <2>0. Peer(e) \in End /\ Peer(e) # e /\ Peer(Peer(e)) = e /\ End = {e, Peer(e)}
    BY EndFacts
  <2> PICK p : p = Peer(e)
    OBVIOUS
  <2>1. BeginMarking(e) /\ connected' = connected
    BY <1>3 DEF StartTrim, AnswerTrim, BeginMarking
  <2>2. Together
    BY <1>3 DEF TrimInv
  <2>3. /\ ~Ahead(e) /\ ~Ahead(p)'
        /\ Ahead(e)' <=> ~Ahead(p)
    BY <2>1, <2>2, <1>3, BeginEven
  <2>4. Lead(e) = 0 /\ Lead(p)' = 0 /\ Lead(e)' = 1 - Lead(p) /\ Lead(p) \in {0, 1}
    BY <2>3 DEF Lead
  <2>5. trimgc[p] + Lead(p) = trimgc[e] + Lead(e) /\ trimgc[p] \in Nat /\ trimgc[e] \in Nat
    BY <2>0, <1>3, TrimAssumption DEF EvenInv, TypeOK
  <2>6. \/ trimgc'[p] = trimgc[p] + 1 /\ trimgc'[e] = trimgc[e]
        \/ trimgc'[e] = trimgc[e] - 1 /\ trimgc'[p] = trimgc[p]
    BY <2>0, <1>3 DEF StartTrim, AnswerTrim, TypeOK
  <2>7. trimgc'[p] + Lead(p)' = trimgc'[e] + Lead(e)'
    BY <2>4, <2>5, <2>6
  <2>8. QED
    BY <2>0, <2>7 DEF EvenInv
<1>4. ASSUME NEW e \in End, ReadVector(e), connected
      PROVE  \A x \in End : ~Ahead(x) /\ ~Ahead(x)'
  <2>0. Peer(e) \in End /\ Peer(e) # e /\ Peer(Peer(e)) = e /\ End = {e, Peer(e)}
    BY EndFacts
  <2> PICK p : p = Peer(e)
    OBVIOUS
  <2>1. /\ phase[e] = "vec" /\ stream[e] # <<>> /\ phase'[e] = "work" /\ phase'[p] = phase[p]
        /\ stream'[e] = Tail(stream[e])
    BY <2>0, <1>4, SendIs DEF ReadVector, TypeOK
  <2>2. \/ phase[p] = "vec" /\ stream[e] = <<[vec |-> mark[p]]>>
        \/ phase[p] = "work" /\ stream[p] = <<>>
    BY <2>0, <2>1, <1>4, Places DEF TrimInv, Vectors, Answered
  <2>3. ~Ahead(e) /\ ~Ahead(p)
    BY <2>0, <2>1, <2>2 DEF Ahead, Last
  <2>4. ~Ahead(e)'
    BY <2>1 DEF Ahead
  <2>5. ~Ahead(p)'
    <3>1. CASE phase[p] = "vec" /\ stream[e] = <<[vec |-> mark[p]]>>
      <4>1. stream'[e] = <<>>
        BY <3>1, <2>1, ShortSeqs
      <4>2. ~Last(e)' /\ phase'[e] # "run"
        BY <4>1, <2>1 DEF Last
      <4>3. QED
        BY <4>2, <2>0 DEF Ahead
    <3>2. CASE phase[p] = "work"
      BY <3>2, <2>1 DEF Ahead
    <3>3. QED
      BY <3>1, <3>2, <2>2
  <2>6. QED
    BY <2>0, <2>3, <2>4, <2>5
<1>5. ASSUME NEW e \in End, ReadWork(e), connected
      PROVE  \A x \in End : ~Ahead(x) /\ ~Ahead(x)'
  <2>0. Peer(e) \in End /\ Peer(e) # e /\ Peer(Peer(e)) = e /\ End = {e, Peer(e)}
    BY EndFacts
  <2> PICK p : p = Peer(e)
    OBVIOUS
  <2>1. /\ phase[e] = "work" /\ stream[e] # <<>> /\ phase'[e] = "vec" /\ phase'[p] = phase[p]
        /\ work' = work /\ (work[e] \/ Head(stream[e]).work)
    BY <2>0, <1>5 DEF ReadWork, NextRound, TypeOK
  <2>2. PICK m : stream'[p] = Append(stream[p], m)
    BY <1>5, SendIs DEF ReadWork
  <2>3. Flags \/ Onward(e) \/ Behind(e)
    BY <2>1, <1>5, Places DEF TrimInv
  <2>4. ~Behind(e)
    <3> SUFFICES ASSUME Behind(e) PROVE FALSE
      OBVIOUS
    <3>1. stream[e] = <<[work |-> FALSE]>> /\ ~work[e]
      BY DEF Behind
    <3>2. ~Head(stream[e]).work
      BY <3>1, ShortSeqs
    <3>3. QED
      BY <3>1, <3>2, <2>1
  <2>5. \/ phase[p] = "vec"
        \/ /\ phase[p] = "work" /\ stream[p] = <<[work |-> work[e]]>>
           /\ stream[e] = <<[work |-> work[p]]>>
    BY <2>0, <2>3, <2>4 DEF Flags, Onward
  <2>6. ~Last(e) /\ ~Ahead(e) /\ ~Ahead(p)
    <3>1. ~Last(e) /\ ~Ahead(e)
      BY <2>1 DEF Last, Ahead
    <3>2. QED
      BY <3>1, <2>0, <2>1 DEF Ahead
  <2>7. ~Ahead(p)'
    BY <2>0, <2>1 DEF Ahead, Last
  <2>8. ~Last(p)'
    <3>1. CASE phase[p] = "vec"
      BY <3>1, <2>1 DEF Last
    <3>2. CASE stream[p] = <<[work |-> work[e]]>> /\ stream[e] = <<[work |-> work[p]]>>
      <4>1. stream'[p] = <<[work |-> work[e]], m>>
        BY <3>2, <2>2, ShortSeqs
      <4>2. Head(stream'[p]).work = work[e]
        BY <4>1, ShortSeqs
      <4>3. Head(stream[e]).work = work[p]
        BY <3>2, ShortSeqs
      <4>4. QED
        BY <4>2, <4>3, <2>1 DEF Last
    <3>3. QED
      BY <3>1, <3>2, <2>5
  <2>9. ~Ahead(e)'
    <3>1. phase'[p] # "run"
      BY <2>1, <2>5
    <3>2. QED
      BY <3>1, <2>8 DEF Ahead
  <2>10. QED
    BY <2>0, <2>6, <2>7, <2>9
<1>6. ASSUME NEW e \in End, Trim(e), connected
      PROVE  \A x \in End : Ahead(x)' <=> Ahead(x)
  <2>0. Peer(e) \in End /\ Peer(e) # e /\ Peer(Peer(e)) = e /\ End = {e, Peer(e)}
    BY EndFacts
  <2> PICK p : p = Peer(e)
    OBVIOUS
  <2>1. /\ phase[e] = "work" /\ ~work[e] /\ ~Head(stream[e]).work /\ stream[e] # <<>>
        /\ phase'[e] = "run" /\ phase'[p] = phase[p]
    BY <2>0, <1>6 DEF Trim, TypeOK
  <2>2. ~Ahead(e) /\ ~Ahead(e)'
    BY <2>1 DEF Ahead
  <2>3. Ahead(p)' <=> phase[p] = "vec"
    BY <2>0, <2>1 DEF Ahead
  <2>4. Ahead(p) <=> phase[p] = "vec"
    BY <2>0, <2>1 DEF Ahead, Last
  <2>5. QED
    BY <2>0, <2>2, <2>3, <2>4
<1>7. CASE \E e \in End : Mutate(e) \/ StartTrim(e) \/ Collect(e)
  <2> PICK e \in End : Mutate(e) \/ StartTrim(e) \/ Collect(e)
    BY <1>7
  <2>1. CASE Mutate(e)
    BY <2>1, <1>2 DEF Mutate, Drop, Track, Push, Pull
  <2>2. CASE StartTrim(e) \/ AnswerTrim(e)
    <3>1. CASE connected
      BY <3>1, <2>2, <1>3
    <3>2. CASE ~connected
      BY <3>2, <1>c DEF EvenInv
    <3>3. QED
      BY <3>1, <3>2
  <2>3. CASE ReadVector(e)
    <3>1. trimgc' = trimgc /\ connected
      BY <2>3 DEF ReadVector
    <3>2. QED
      BY <3>1, <2>3, <1>4, EvenSame
  <2>4. CASE ReadWork(e)
    <3>1. trimgc' = trimgc /\ connected
      BY <2>4 DEF ReadWork, NextRound
    <3>2. QED
      BY <3>1, <2>4, <1>5, EvenSame
  <2>5. CASE Trim(e)
    <3>1. trimgc' = trimgc /\ connected
      BY <2>5 DEF Trim
    <3>2. QED
      BY <3>1, <2>5, <1>6, EvenSame
  <2>6. CASE ReadLost(e)
    BY <2>6, <1>1
  <2>7. QED
    BY <2>1, <2>2, <2>3, <2>4, <2>5, <2>6 DEF Collect
<1>8. CASE UNCHANGED vars
  BY <1>8, <1>2 DEF vars
<1>9. QED
  BY <1>1, <1>7, <1>8 DEF Next

LEMMA EvenInductive == Spec => []EvenInv
<1>1. Init => EvenInv
  <2> SUFFICES ASSUME Init, NEW e \in End
               PROVE  trimgc[Peer(e)] + Lead(Peer(e)) = trimgc[e] + Lead(e)
    BY DEF EvenInv
  <2>1. trimgc[e] = 0 /\ trimgc[Peer(e)] = 0 /\ ~Ahead(e) /\ ~Ahead(Peer(e))
    BY EndFacts DEF Init, Ahead
  <2>2. QED
    BY <2>1 DEF Lead
<1>2. IInv /\ EvenInv /\ [Next]_vars => EvenInv'
  BY EvenStep DEF IInv
<1>3. QED
  BY <1>1, <1>2, Inductive, PTL DEF Spec

\* Whoever waits in a trim waits for an endpoint that has something to read or a
\* request to serve, however many trims the two have started against each other.
THEOREM NobodyStuck == Spec => []TrimMoves
<1>1. IInv /\ EvenInv => TrimMoves
  <2> SUFFICES ASSUME IInv, EvenInv, NEW e \in End, connected, phase[e] # "run",
                      stream[e] = <<>>
               PROVE  \/ phase[Peer(e)] # "run" /\ stream[Peer(e)] # <<>>
                      \/ phase[Peer(e)] = "run" /\ trimgc[Peer(e)] > 0
    BY DEF TrimMoves
  <2>0. Peer(e) \in End /\ Peer(e) # e /\ Peer(Peer(e)) = e /\ End = {e, Peer(e)}
    BY EndFacts
  <2> PICK p : p = Peer(e)
    OBVIOUS
  <2>1. Together
    BY DEF IInv, TrimInv
  <2>2. CASE phase[p] = "run"
    <3>1. Alone(e)
      BY <2>0, <2>1, <2>2, Places, ShortSeqs DEF Apart, Behind
    <3>2. Lead(e) = 1 /\ Lead(p) = 0
      BY <3>1, <2>0, <2>2 DEF Alone, Lead, Ahead
    <3>3. trimgc[p] + Lead(p) = trimgc[e] + Lead(e) /\ trimgc[p] \in Nat /\ trimgc[e] \in Nat
      BY <2>0, TrimAssumption DEF EvenInv, IInv, TypeOK
    <3>4. QED
      BY <3>2, <3>3, <2>2
  <2>3. CASE phase[p] # "run"
    <3>1. CASE Vectors \/ Flags
      BY <3>1, ShortSeqs DEF Vectors, Flags
    <3>2. CASE Answered(e) \/ Onward(p)
      BY <3>2, <2>0, ShortSeqs DEF Answered, Onward
    <3>3. CASE Apart \/ Alone(e) \/ Alone(p) \/ Behind(e) \/ Behind(p)
      BY <3>3, <2>0, <2>3, ShortSeqs DEF Apart, Alone, Behind
    <3>4. CASE Answered(p) \/ Onward(e)
      BY <3>4, <2>0, ShortSeqs DEF Answered, Onward
    <3>5. QED
      BY <3>1, <3>2, <3>3, <3>4, <2>0, <2>1 DEF Together
  <2>4. QED
    BY <2>2, <2>3
<1>2. QED
  BY <1>1, Inductive, EvenInductive, PTL
=============================================================================
