-------------------------------- MODULE Fifo --------------------------------
(***************************************************************************)
(* What auxiliary/Queue.h promises: values come out in the order they went *)
(* in.                                                                     *)
(***************************************************************************)
EXTENDS Sequences

CONSTANTS Values, Nothing

VARIABLES
  queue,   \* what is in it, oldest first
  out      \* the value the last auxQueuePop returned

Init == queue = <<>> /\ out = Nothing

Push(v) == queue' = Append(queue, v) /\ UNCHANGED out

Pop == /\ queue # <<>>
       /\ out' = Head(queue)
       /\ queue' = Tail(queue)

Next == (\E v \in Values : Push(v)) \/ Pop

Spec == Init /\ [][Next]_<<queue, out>>
=============================================================================
