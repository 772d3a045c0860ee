------------------------------ MODULE FifoSpec ------------------------------
(***************************************************************************)
(* What either synchronous FIFO of 2.rtl/ip.infra promises to the logic    *)
(* around it: a queue of at most Depth words, written at one end and read  *)
(* at the other, whose registered output dout holds the word read last.    *)
(* sync_fifo_ram (SyncFifo) and sync_fifo_srl (SyncFifoSrl) implement it.   *)
(***************************************************************************)
EXTENDS Naturals, Sequences

CONSTANTS
  Depth,  \* words the FIFO holds
  Data    \* values of a word

VARIABLES
  q,      \* the words held, the oldest one first
  dout    \* output register

vars == <<q, dout>>

Init ==
  /\ q = << >>
  /\ dout \in Data

\* One clock with an accepted write and no accepted read.
Push(d) ==
  /\ Len(q) < Depth
  /\ q' = Append(q, d)
  /\ dout' = dout

\* One clock with an accepted read and no accepted write.
Pop ==
  /\ q # << >>
  /\ q' = Tail(q)
  /\ dout' = Head(q)

\* One clock with both.
PushPop(d) ==
  /\ q # << >>
  /\ Len(q) < Depth
  /\ q' = Append(Tail(q), d)
  /\ dout' = Head(q)

\* Reset empties the queue.  The output register is not reset; a read that is
\* requested at the very moment reset strikes may still reach it.
Clear ==
  /\ q' = << >>
  /\ \/ dout' = dout
     \/ q # << >> /\ dout' = Head(q)

Next ==
  \/ \E d \in Data : Push(d) \/ PushPop(d)
  \/ Pop
  \/ Clear

Spec == Init /\ [][Next]_vars
=============================================================================
