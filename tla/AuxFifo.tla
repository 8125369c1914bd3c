------------------------------- MODULE AuxFifo -------------------------------
(***************************************************************************)
(* auxiliary/FifoBuffer.cpp: a byte stream in a queue of fixed buffers,    *)
(* emptied buffers being kept for reuse.  Every thread's read and write    *)
(* buffer and every sync is one.  The queue of buffers is a sequence, what *)
(* AuxQueue is shown to implement.                                         *)
(*                                                                         *)
(* pos_tail = 0 means that the last buffer is full, or that there is none; *)
(* pos_head and pos_tail may be equal with one buffer or with several.     *)
(* The bytes pushed are consecutive numbers, modulo more than are ever     *)
(* stored at a time: they differ, and their order shows.  What a new or a  *)
(* reused buffer holds before it is written is Junk.                       *)
(***************************************************************************)
EXTENDS Integers, Sequences

CONSTANTS
  B,         \* BUFFERSIZE
  MaxPush,   \* bound: bytes of one auxFifoPushData
  MaxSize,   \* bound: bytes stored
  Junk       \* a byte not written

ASSUME BoundsAssumption == B \in Nat /\ B > 1 /\ MaxPush \in Nat /\ MaxSize \in Nat

VARIABLES
  buffers, pos_head, pos_tail,  \* the fields of struct FifoBuffer,
  freeBufs,                     \* of which only the number of kept buffers
  bytes,   \* what auxFifoPushData has still to copy, its local variable
  data     \* the stream: what was pushed and not popped, and the next byte

fifoVars == <<buffers, freeBufs, pos_head, pos_tail, bytes, data>>

Byte(n) == n % (MaxSize + 1)

auxFifoCreate ==
  /\ buffers = <<>> /\ freeBufs = 0
  /\ pos_head = 0 /\ pos_tail = 0
  /\ bytes = 0
  /\ data = [stored |-> <<>>, next |-> 0]

auxFifoEmpty == buffers = <<>>

\* Mutant: a full last buffer counts as an empty one.
SizeNoFull == IF auxFifoEmpty THEN 0 ELSE B * (Len(buffers) - 1) + pos_tail - pos_head

auxFifoSize ==
  IF auxFifoEmpty THEN 0
  ELSE B * (Len(buffers) - 1) + (IF pos_tail # 0 THEN pos_tail ELSE B) - pos_head

\* The bytes that can be taken from the first buffer.
auxFifoGetBufferSize ==
  IF Len(buffers) = 0 THEN 0
  ELSE IF Len(buffers) = 1 /\ pos_tail # 0 THEN pos_tail - pos_head
  ELSE B - pos_head

\* A call of auxFifoPushData.
PushData(n) ==
  /\ bytes = 0
  /\ Len(data.stored) + n <= MaxSize
  /\ bytes' = n
  /\ UNCHANGED <<buffers, freeBufs, pos_head, pos_tail, data>>

\* The buffers once there is one to copy to, kept or new.
WithRoom ==
  IF pos_tail # 0 THEN buffers ELSE Append(buffers, [i \in 0 .. B - 1 |-> Junk])

\* The index x & (BUFFERSIZE - 1).
Offset(x) == x % B

\* One turn of its loop.
PushTurn ==
  LET amt == IF pos_tail + bytes < B THEN bytes ELSE B - pos_tail
      last == Len(WithRoom)
      copied(i) == pos_tail <= i /\ i < pos_tail + amt
  IN /\ bytes > 0
     /\ buffers' = [WithRoom EXCEPT ![last] =
          [i \in 0 .. B - 1 |-> IF copied(i) THEN Byte(data.next + i - pos_tail) ELSE @[i]]]
     /\ freeBufs' = IF pos_tail = 0 /\ freeBufs > 0 THEN freeBufs - 1 ELSE freeBufs
     /\ pos_tail' = Offset(pos_tail + amt)
     /\ bytes' = bytes - amt
     /\ data' = [stored |-> data.stored \o [i \in 1 .. amt |-> Byte(data.next + i - 1)],
                 next |-> Byte(data.next + amt)]
     /\ UNCHANGED pos_head

\* auxFifoPopBytes; the callers take no more than auxFifoGetBufferSize.
PopBytes(n) ==
  /\ bytes = 0 /\ n <= auxFifoGetBufferSize
  /\ \/ /\ pos_head + n = B
        /\ pos_head' = 0
        /\ buffers' = Tail(buffers) /\ freeBufs' = freeBufs + 1
        /\ UNCHANGED pos_tail
     \/ /\ pos_head + n # B
        /\ pos_head + n = pos_tail /\ Len(buffers) = 1
        /\ pos_head' = 0 /\ pos_tail' = 0
        /\ buffers' = Tail(buffers) /\ freeBufs' = freeBufs + 1
     \/ /\ pos_head + n # B
        /\ ~(pos_head + n = pos_tail /\ Len(buffers) = 1)
        /\ pos_head' = pos_head + n
        /\ UNCHANGED <<buffers, freeBufs, pos_tail>>
  /\ data' = [data EXCEPT !.stored = SubSeq(@, n + 1, Len(@))]
  /\ UNCHANGED bytes

FifoNext == (\E n \in 1 .. MaxPush : PushData(n)) \/ PushTurn \/ (\E n \in 1 .. B : PopBytes(n))

FifoSpec == auxFifoCreate /\ [][FifoNext]_fifoVars

-----------------------------------------------------------------------------
\* Types and the range of the positions.
FifoTypeOK ==
  /\ buffers \in Seq([0 .. B - 1 -> (0 .. MaxSize) \cup {Junk}])
  /\ freeBufs \in Nat
  /\ pos_head \in 0 .. B - 1 /\ pos_tail \in 0 .. B - 1
  /\ bytes \in 0 .. MaxPush

\* The bytes in the buffers, from pos_head on.
Stream == [i \in 1 .. auxFifoSize |->
  buffers[(pos_head + i - 1) \div B + 1][(pos_head + i - 1) % B]]

\* The buffers hold exactly the stream, at every boundary between buffers, and
\* auxFifoSize and auxFifoEmpty tell its length: syncs send auxFifoSize as the
\* number of bytes that follow.
HoldsStream == Stream = data.stored /\ (auxFifoEmpty <=> data.stored = <<>>)
=============================================================================
