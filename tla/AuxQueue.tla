------------------------------ MODULE AuxQueue ------------------------------
(***************************************************************************)
(* auxiliary/Queue.cpp: the growing and shrinking ring under the write     *)
(* queues, the FifoBuffers of every thread and the stack transfer.  It has *)
(* no lock of its own; its callers hold one.                               *)
(*                                                                         *)
(* The indices are masked with cap - 1, which is the remainder by cap      *)
(* because the capacities are powers of two.                               *)
(***************************************************************************)
EXTENDS Naturals, Sequences

CONSTANTS
  Values,   \* what is queued
  Nothing,  \* an array cell nobody has written since malloc or realloc
  Caps      \* the capacities the allocator can serve

\* The capacities are 4, 8, 16, ... up to a limit.
ASSUME CapsAssumption ==
  /\ Caps \subseteq Nat /\ 4 \in Caps
  /\ \A c \in Caps : c = 4 \/ (c >= 8 /\ c % 2 = 0 /\ c \div 2 \in Caps)
ASSUME NothingAssumption == Nothing \notin Values

VARIABLES
  array, pos, size, cap,   \* the fields of struct Queue
  out,                     \* the value the last auxQueuePop took
  shrinking                \* auxQueuePop is in its loop

queueVars == <<array, pos, size, cap, out, shrinking>>

\* The index x & (c - 1).
Mask(x, c) == x % c

\* An empty ring.
auxQueueCreate ==
  /\ pos = 0 /\ size = 0 /\ cap = 4
  /\ array = [i \in 0 .. 3 |-> Nothing]
  /\ out = Nothing
  /\ shrinking = FALSE

\* Mutant: nothing is copied.
RoomOnly(newCap) == [i \in 0 .. newCap - 1 |-> IF i < cap THEN array[i] ELSE Nothing]

\* The array before the value is stored: as it is, or with its capacity
\* doubled and the cells before the head copied behind the old end.
Room(newCap) == [i \in 0 .. newCap - 1 |->
  IF i < cap THEN array[i]
  ELSE IF i - cap < pos THEN array[i - cap]
  ELSE Nothing]

\* auxQueuePush.
Push(v) ==
  LET newCap == IF size = cap THEN 2 * cap ELSE cap
  IN /\ ~shrinking
     /\ newCap \in Caps
     /\ cap' = newCap
     /\ array' = [Room(newCap) EXCEPT ![Mask(pos + size, newCap)] = v]
     /\ size' = size + 1
     /\ UNCHANGED <<pos, out, shrinking>>

\* auxQueuePop up to its loop; the callers do not pop an empty queue.
Pop ==
  /\ ~shrinking /\ size > 0
  /\ out' = array[pos]
  /\ pos' = Mask(pos + 1, cap)
  /\ size' = size - 1
  /\ shrinking' = TRUE
  /\ UNCHANGED <<array, cap>>

\* The loop's test: at most a quarter full, and all of it in the first half.
CanShrink == 4 < cap /\ 4 * size <= cap /\ pos + size <= cap \div 2

\* One turn of the loop.
Shrink ==
  /\ shrinking /\ CanShrink
  /\ cap' = cap \div 2
  /\ array' = [i \in 0 .. cap \div 2 - 1 |-> array[i]]
  /\ UNCHANGED <<pos, size, out, shrinking>>

\* The end of auxQueuePop.
Return ==
  /\ shrinking /\ ~CanShrink
  /\ shrinking' = FALSE
  /\ UNCHANGED <<array, pos, size, cap, out>>

QueueNext == (\E v \in Values : Push(v)) \/ Pop \/ Shrink \/ Return

QueueSpec == auxQueueCreate /\ [][QueueNext]_queueVars

-----------------------------------------------------------------------------
\* The queued values, oldest first.
Contents == [i \in 1 .. size |-> array[Mask(pos + i - 1, cap)]]

\* Types; the head is inside the array and the array holds all there is.
QueueTypeOK ==
  /\ cap \in Caps
  /\ array \in [0 .. cap - 1 -> Values \cup {Nothing}]
  /\ pos \in 0 .. cap - 1
  /\ size \in 0 .. cap
  /\ out \in Values \cup {Nothing}
  /\ shrinking \in BOOLEAN

\* Between calls the array is never one the loop would still shrink.  It is why
\* the head cannot be left at the end of an array cut in half when the queue
\* runs empty: the loop tests pos + size <= cap / 2, which would let it.
Settled == ~shrinking => ~CanShrink

\* The ring is a queue: every value pushed comes out once, in order.
F == INSTANCE Fifo WITH queue <- Contents
IsFifo == F!Spec
=============================================================================
