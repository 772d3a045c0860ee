------------------------------ MODULE SyncFifo ------------------------------
(***************************************************************************)
(* 2.rtl/ip.infra/sync_fifo_ram.sv: the FIFO behind both directions of the *)
(* UART.  Write and read pointers into a dual-ported RAM, an occupancy     *)
(* counter one bit wider than a pointer, and a registered 'empty' that is  *)
(* computed from the counter's previous value.                             *)
(*                                                                         *)
(* One Clock action is one rising edge outside reset.  Reset is            *)
(* asynchronous: it strikes between any two edges, and the storage, which  *)
(* has no reset, still takes a write on an edge inside it.                 *)
(***************************************************************************)
EXTENDS Integers, Sequences

CONSTANTS
  Depth,  \* 2**AWIDTH
  Data    \* the values of a DWIDTH-bit word that are told apart

ASSUME DepthAssumption == Depth \in Nat /\ Depth >= 2
ASSUME DataAssumption == Data # {}

VARIABLES
  arst_n,    \* active-low asynchronous reset, as a Boolean
  mem,
  wr_addr,
  rd_addr,
  dcount,
  empty,     \* a register, not a function of dcount
  dout

vars == <<arst_n, mem, wr_addr, rd_addr, dcount, empty, dout>>

Addr == 0 .. Depth - 1

TypeOK ==
  /\ arst_n \in BOOLEAN
  /\ mem \in [Addr -> Data]
  /\ wr_addr \in Addr
  /\ rd_addr \in Addr
  /\ dcount \in 0 .. 2 * Depth - 1
  /\ empty \in BOOLEAN
  /\ dout \in Data

\* Faulty variant: the FIFO takes one word more than it has room for.
FullTooLate == dcount > Depth

full == dcount >= Depth    \* bit AWIDTH of the counter

\* Faulty variant: a pointer that does not wrap.
SuccNoWrap(a) == a + 1

\* Pointers wrap at 2**AWIDTH.
Succ(a) == IF a = Depth - 1 THEN 0 ELSE a + 1

\* Faulty variant: a simultaneous read and write counts as a write.
NextCountBoth(we_p, re_p) ==
  IF we_p THEN (dcount + 1) % (2 * Depth)
  ELSE IF re_p THEN (dcount - 1) % (2 * Depth) ELSE dcount

NextCount(we_p, re_p) ==
  IF re_p /\ ~we_p THEN (dcount - 1) % (2 * Depth)
  ELSE IF we_p /\ ~re_p THEN (dcount + 1) % (2 * Depth) ELSE dcount

\* Faulty variant: 'empty' computed as if the counter were already updated.
NextEmptyLate(we_p, re_p) ==
  \/ re_p /\ ~we_p /\ dcount = 0
  \/ (we_p <=> re_p) /\ empty

\* A lone read empties the FIFO when at most one word is held (no bit of
\* dcount[AWIDTH:1] is set); a lone write clears the flag.
NextEmpty(we_p, re_p) ==
  \/ re_p /\ ~we_p /\ dcount <= 1
  \/ (we_p <=> re_p) /\ empty

Store(we_p, din) ==
  mem' = IF we_p THEN [mem EXCEPT ![wr_addr] = din] ELSE mem

dout_comb == mem[rd_addr]

\* One rising edge outside reset with the inputs we, re and din.
Clock(we, re, din) ==
  LET we_p == we /\ ~full
      re_p == re /\ ~empty
  IN  /\ arst_n
      /\ wr_addr' = IF we_p THEN Succ(wr_addr) ELSE wr_addr
      /\ rd_addr' = IF re_p THEN Succ(rd_addr) ELSE rd_addr
      /\ dcount' = NextCount(we_p, re_p)
      /\ empty' = NextEmpty(we_p, re_p)
      /\ dout' = IF re_p THEN dout_comb ELSE dout
      /\ Store(we_p, din)
      /\ UNCHANGED arst_n

\* The falling edge of arst_n, at any moment.
AssertReset ==
  /\ arst_n
  /\ arst_n' = FALSE
  /\ dcount' = 0
  /\ wr_addr' = 0
  /\ rd_addr' = 0
  /\ empty' = TRUE
  /\ UNCHANGED <<mem, dout>>

\* A rising clock edge inside reset: the storage process is not reset.
ClockInReset(we, din) ==
  /\ ~arst_n
  /\ Store(we /\ ~full, din)
  /\ UNCHANGED <<arst_n, wr_addr, rd_addr, dcount, empty, dout>>

ReleaseReset ==
  /\ ~arst_n
  /\ arst_n' = TRUE
  /\ UNCHANGED <<mem, wr_addr, rd_addr, dcount, empty, dout>>

\* Power-up is in reset; storage and output register hold anything.
Init ==
  /\ arst_n = FALSE
  /\ mem \in [Addr -> Data]
  /\ dout \in Data
  /\ wr_addr = 0
  /\ rd_addr = 0
  /\ dcount = 0
  /\ empty = TRUE

Next ==
  \/ \E we, re \in BOOLEAN, din \in Data : Clock(we, re, din)
  \/ AssertReset
  \/ \E we \in BOOLEAN, din \in Data : ClockInReset(we, din)
  \/ ReleaseReset

Spec == Init /\ [][Next]_vars
-----------------------------------------------------------------------------
\* The address i places after address r.
Slot(r, i) == IF r + i < Depth THEN r + i ELSE r + i - Depth

\* The n words stored from address r on, as a sequence.
Held(m, r, n) == [i \in 1 .. n |-> m[Slot(r, i - 1)]]

(* The occupancy counter never leaves 0..Depth although it has room for    *)
(* twice that, and the registered 'empty', which is computed one clock     *)
(* ahead from the old count, says exactly whether the count is zero: the   *)
(* guards on both ports rest on it.                                        *)
FlagsExact ==
  /\ dcount <= Depth
  /\ empty <=> (dcount = 0)

(* The two pointers, which advance independently, are always dcount apart: *)
(* the counter and the pointers never disagree about what is stored.       *)
PointersAgree == wr_addr = Slot(rd_addr, dcount)

\* Refinement mapping: the words between the read and the write pointer.
queue == Held(mem, rd_addr, dcount)

Fifo == INSTANCE FifoSpec WITH q <- queue

(* Every step of the RAM FIFO is a step of the abstract queue: no word is  *)
(* lost, duplicated, reordered or overwritten, whatever the mix of reads,  *)
(* writes and resets, also when it is full or empty.                       *)
Implements == Fifo!Spec
=============================================================================
