---------------------------- MODULE SyncFifoSrl ----------------------------
(***************************************************************************)
(* 2.rtl/ip.infra/sync_fifo_srl.sv: the FIFO made of a shift register.     *)
(* New words enter at place 0 and push the others along, so there is no    *)
(* write pointer; the read pointer, with 'empty' as one more bit on top    *)
(* of it, doubles as the occupancy counter, one behind the count: all ones *)
(* stands for an empty FIFO.                                               *)
(*                                                                         *)
(* The shift register itself (fpga_srl) is a technology cell that is not   *)
(* in the repository; it is modelled from the way it is instantiated.      *)
(***************************************************************************)
EXTENDS Integers, Sequences

CONSTANTS
  Depth,  \* 2**AWIDTH
  Data    \* the values of a DWIDTH-bit word that are told apart

ASSUME DepthAssumption == Depth \in Nat /\ Depth >= 2
ASSUME DataAssumption == Data # {}

VARIABLES
  arst_n,         \* active-low asynchronous reset, as a Boolean
  empty_rd_addr,  \* the concatenation {empty, rd_addr}, read as a number
  srl,            \* contents of the shift register
  dout

vars == <<arst_n, empty_rd_addr, srl, dout>>

Addr == 0 .. Depth - 1
AllOnes == 2 * Depth - 1

empty == empty_rd_addr >= Depth
rd_addr == empty_rd_addr % Depth
dcount == (empty_rd_addr + 1) % (2 * Depth)

\* Faulty variant: 'full' taken from the pointer, one word late.
FullAtPointer == empty_rd_addr = Depth

full == dcount >= Depth    \* bit AWIDTH of the count
dout_comb == srl[rd_addr]

TypeOK ==
  /\ arst_n \in BOOLEAN
  /\ empty_rd_addr \in 0 .. AllOnes
  /\ srl \in [Addr -> Data]
  /\ dout \in Data

\* Faulty variant: a read is counted even when a write comes with it.
CountReadFirst(we_p, re_p) ==
  empty_rd_addr' = IF re_p THEN (empty_rd_addr - 1) % (2 * Depth)
                   ELSE IF we_p THEN (empty_rd_addr + 1) % (2 * Depth)
                   ELSE empty_rd_addr

\* Faulty variant: the count is one bit too narrow to tell empty from full.
CountNoWrap(we_p, re_p) ==
  empty_rd_addr' = IF re_p /\ ~we_p THEN empty_rd_addr - 1
                   ELSE IF we_p /\ ~re_p THEN empty_rd_addr + 1
                   ELSE empty_rd_addr

\* Counting in AWIDTH+1 bits: the first write carries out of all ones to zero.
Count(we_p, re_p) ==
  empty_rd_addr' = IF re_p /\ ~we_p THEN (empty_rd_addr - 1) % (2 * Depth)
                   ELSE IF we_p /\ ~re_p THEN (empty_rd_addr + 1) % (2 * Depth)
                   ELSE empty_rd_addr

\* fpga_srl: a write shifts every word one place up.
Shift(we_p, din) ==
  srl' = IF we_p THEN [i \in Addr |-> IF i = 0 THEN din ELSE srl[i - 1]] ELSE srl

\* One rising edge outside reset.
Clock(we, re, din) ==
  LET we_p == we /\ ~full
      re_p == re /\ ~empty
  IN  /\ arst_n
      /\ Count(we_p, re_p)
      /\ Shift(we_p, din)
      /\ dout' = IF re_p THEN dout_comb ELSE dout
      /\ UNCHANGED arst_n

\* The falling edge of arst_n, at any moment.  The assignment to dout stands
\* outside the reset branch of the block, so this edge, too, performs a read
\* that is requested as it comes.
AssertReset(re) ==
  /\ arst_n
  /\ arst_n' = FALSE
  /\ empty_rd_addr' = AllOnes
  /\ dout' = IF re /\ ~empty THEN dout_comb ELSE dout
  /\ UNCHANGED srl

\* A rising clock edge inside reset: only the shift register, which has no
\* reset, can move.
ClockInReset(we, din) ==
  /\ ~arst_n
  /\ Shift(we /\ ~full, din)
  /\ UNCHANGED <<arst_n, empty_rd_addr, dout>>

ReleaseReset ==
  /\ ~arst_n
  /\ arst_n' = TRUE
  /\ UNCHANGED <<empty_rd_addr, srl, dout>>

\* Power-up is in reset; storage and output register hold anything.
Init ==
  /\ arst_n = FALSE
  /\ empty_rd_addr = AllOnes
  /\ srl \in [Addr -> Data]
  /\ dout \in Data

Next ==
  \/ \E we, re \in BOOLEAN, din \in Data : Clock(we, re, din)
  \/ \E re \in BOOLEAN : AssertReset(re)
  \/ \E we \in BOOLEAN, din \in Data : ClockInReset(we, din)
  \/ ReleaseReset

Spec == Init /\ [][Next]_vars
-----------------------------------------------------------------------------
(* The combined register only ever holds all ones or a pointer into the    *)
(* storage, so both the carry out of all ones on the first write and the   *)
(* borrow into it on the last read land on a legal value, and no count     *)
(* passes Depth.                                                           *)
CountLegal == empty_rd_addr \in Addr \cup {AllOnes}

\* The n youngest words, the oldest of them first.
Held(s, n) == [i \in 1 .. n |-> s[n - i]]

\* Refinement mapping: the read pointer is at the oldest word.
queue == Held(srl, dcount)

Fifo == INSTANCE FifoSpec WITH q <- queue

(* The shift-register FIFO, which has no write pointer, is the same queue  *)
(* as the RAM FIFO: a word shifted past the read pointer is never lost.    *)
Implements == Fifo!Spec
=============================================================================
