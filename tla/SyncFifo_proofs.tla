-------------------------- MODULE SyncFifo_proofs --------------------------
(***************************************************************************)
(* For every depth and every set of words: the flags, the counter and the  *)
(* pointers of sync_fifo_ram agree in every reachable state, and each of   *)
(* its steps is a step of the abstract queue.                              *)
(***************************************************************************)
EXTENDS SyncFifo, TLAPS

\* The counter and the pointers are proved together: a read may decrement the
\* counter only because 'empty' is exact, a write may increment it only because
\* the counter has not passed Depth.  Inside reset the storage still takes writes,
\* which is harmless because nothing is held.
InResetEmpty == ~arst_n => dcount = 0

IInv == TypeOK /\ FlagsExact /\ PointersAgree /\ InResetEmpty

LEMMA CounterArithmetic ==
  ASSUME NEW c \in 0 .. Depth
  PROVE  /\ c < Depth => (c + 1) % (2 * Depth) = c + 1
         /\ c > 0 => (c - 1) % (2 * Depth) = c - 1
  BY DepthAssumption

LEMMA InitInductive == Init => IInv
<1> SUFFICES ASSUME Init
             PROVE  IInv
  OBVIOUS
<1>1. arst_n \in BOOLEAN /\ empty \in BOOLEAN /\ mem \in [Addr -> Data] /\ dout \in Data
  BY DEF Init
<1>2. dcount \in 0 .. 2 * Depth - 1 /\ wr_addr \in Addr /\ rd_addr \in Addr
  BY DepthAssumption DEF Init, Addr
<1>3. FlagsExact /\ PointersAgree
  BY DepthAssumption DEF Init, FlagsExact, PointersAgree, Slot
<1>4. InResetEmpty
  BY DEF Init, InResetEmpty
<1>5. QED
  BY <1>1, <1>2, <1>3, <1>4 DEF IInv, TypeOK

\* A clock edge outside reset, by which of the two ports is used.
LEMMA ClockInductive ==
  ASSUME IInv, NEW we \in BOOLEAN, NEW re \in BOOLEAN, NEW din \in Data,
         Clock(we, re, din)
  PROVE  IInv'
<1> DEFINE we_p == we /\ ~full
           re_p == re /\ ~empty
<1> USE DepthAssumption DEF Addr
<1>1. /\ we_p => dcount < Depth
      /\ re_p => dcount > 0
      /\ dcount \in 0 .. Depth
  BY DEF IInv, TypeOK, FlagsExact, full
<1>2. dcount' = IF re_p /\ ~we_p THEN dcount - 1
                ELSE IF we_p /\ ~re_p THEN dcount + 1 ELSE dcount
  BY <1>1, CounterArithmetic DEF Clock, NextCount
<1>3. /\ wr_addr' = IF we_p THEN Succ(wr_addr) ELSE wr_addr
      /\ rd_addr' = IF re_p THEN Succ(rd_addr) ELSE rd_addr
      /\ empty' = NextEmpty(we_p, re_p)
      /\ dout' = IF re_p THEN dout_comb ELSE dout
      /\ mem' = IF we_p THEN [mem EXCEPT ![wr_addr] = din] ELSE mem
      /\ arst_n' = arst_n
  BY DEF Clock, Store
<1> HIDE DEF we_p, re_p
<1>4. TypeOK'
  <2>1. arst_n' \in BOOLEAN /\ empty' \in BOOLEAN
    BY <1>3 DEF IInv, TypeOK, NextEmpty
  <2>2. mem' \in [Addr -> Data] /\ dout' \in Data
    BY <1>3 DEF IInv, TypeOK, dout_comb
  <2>3. wr_addr' \in Addr /\ rd_addr' \in Addr
    BY <1>3 DEF IInv, TypeOK, Succ
  <2>4. dcount' \in 0 .. 2 * Depth - 1
    BY <1>1, <1>2
  <2>5. QED
    BY <2>1, <2>2, <2>3, <2>4 DEF TypeOK
<1>5. FlagsExact'
  <2>1. dcount' <= Depth
    BY <1>1, <1>2
  <2>2. CASE we_p /\ ~re_p
    BY <2>1, <2>2, <1>1, <1>2, <1>3 DEF FlagsExact, NextEmpty
  <2>3. CASE re_p /\ ~we_p
    BY <2>1, <2>3, <1>1, <1>2, <1>3 DEF FlagsExact, NextEmpty
  <2>4. CASE we_p <=> re_p
    <3>1. dcount' = dcount /\ (empty' <=> empty)
      BY <2>4, <1>2, <1>3 DEF NextEmpty
    <3>2. QED
      BY <3>1, <2>1 DEF FlagsExact, IInv
  <2>5. QED
    BY <2>2, <2>3, <2>4
<1>6. PointersAgree'
  BY <1>1, <1>2, <1>3 DEF IInv, TypeOK, FlagsExact, PointersAgree, Slot, Succ
<1>7. InResetEmpty'
  BY DEF Clock, InResetEmpty
<1>8. QED
  BY <1>4, <1>5, <1>6, <1>7 DEF IInv

LEMMA StepInductive == IInv /\ [Next]_vars => IInv'
<1> SUFFICES ASSUME IInv, [Next]_vars
             PROVE  IInv'
  OBVIOUS
<1>1. ASSUME NEW we \in BOOLEAN, NEW re \in BOOLEAN, NEW din \in Data,
             Clock(we, re, din)
      PROVE  IInv'
  BY <1>1, ClockInductive
<1>2. CASE AssertReset
  <2>1. arst_n' \in BOOLEAN /\ empty' \in BOOLEAN
    BY <1>2 DEF AssertReset
  <2>2. dcount' \in 0 .. 2 * Depth - 1 /\ wr_addr' \in Addr /\ rd_addr' \in Addr
    BY <1>2, DepthAssumption DEF AssertReset, Addr
  <2>3. FlagsExact' /\ PointersAgree'
    BY <1>2, DepthAssumption DEF AssertReset, FlagsExact, PointersAgree, Slot
  <2>4. mem' \in [Addr -> Data] /\ dout' \in Data
    BY <1>2 DEF AssertReset, IInv, TypeOK
  <2>5. QED
    BY <1>2, <2>1, <2>2, <2>3, <2>4 DEF AssertReset, IInv, TypeOK, InResetEmpty
<1>3. ASSUME NEW we \in BOOLEAN, NEW din \in Data, ClockInReset(we, din)
      PROVE  IInv'
  BY <1>3 DEF ClockInReset, Store, IInv, TypeOK, FlagsExact, PointersAgree, Slot, Addr, InResetEmpty
<1>4. CASE ReleaseReset
  BY <1>4 DEF ReleaseReset, IInv, TypeOK, FlagsExact, PointersAgree, Slot, InResetEmpty
<1>5. CASE UNCHANGED vars
  BY <1>5 DEF vars, IInv, TypeOK, FlagsExact, PointersAgree, Slot, InResetEmpty
<1>6. QED
  BY <1>1, <1>2, <1>3, <1>4, <1>5 DEF Next

LEMMA SpecInductive == Spec => []IInv
  BY InitInductive, StepInductive, PTL DEF Spec

(* sync_fifo_ram's registers stay in their ranges: in particular no        *)
(* pointer leaves the storage.                                             *)
THEOREM TypeCorrect == Spec => []TypeOK
<1>1. IInv => TypeOK
  BY DEF IInv
<1>2. QED
  BY <1>1, SpecInductive, PTL

(* The occupancy counter stays within 0..Depth and the registered 'empty'  *)
(* says exactly whether it is zero, for every depth.                       *)
THEOREM FlagsAreExact == Spec => []FlagsExact
<1>1. IInv => FlagsExact
  BY DEF IInv
<1>2. QED
  BY <1>1, SpecInductive, PTL

(* The write pointer is always dcount places ahead of the read pointer.    *)
THEOREM PointersDoAgree == Spec => []PointersAgree
<1>1. IInv => PointersAgree
  BY DEF IInv
<1>2. QED
  BY <1>1, SpecInductive, PTL
-----------------------------------------------------------------------------
\* What is stored between two pointers is a sequence of words.
LEMMA HeldType ==
  ASSUME NEW m \in [Addr -> Data], NEW r \in Addr, NEW n \in 0 .. Depth
  PROVE  /\ Held(m, r, n) \in Seq(Data)
         /\ Len(Held(m, r, n)) = n
         /\ \A i \in 1 .. n : Held(m, r, n)[i] = m[Slot(r, i - 1)]
<1>1. \A i \in 1 .. n : Slot(r, i - 1) \in Addr
  BY DepthAssumption DEF Slot, Addr
<1>2. Held(m, r, n) \in [1 .. n -> Data]
  BY <1>1 DEF Held
<1>3. n \in Nat
  BY DepthAssumption
<1>4. QED
  BY <1>2, <1>3 DEF Held

LEMMA NothingHeld ==
  ASSUME NEW m \in [Addr -> Data], NEW r \in Addr
  PROVE  Held(m, r, 0) = << >>
<1>1. Held(m, r, 0) \in Seq(Data) /\ Len(Held(m, r, 0)) = 0
  BY HeldType, DepthAssumption
<1>2. QED
  BY <1>1

\* A lone write appends: the slot it fills is none of the slots held.
LEMMA HeldAppend ==
  ASSUME NEW m \in [Addr -> Data], NEW r \in Addr, NEW n \in 0 .. Depth - 1,
         NEW d \in Data
  PROVE  Held([m EXCEPT ![Slot(r, n)] = d], r, n + 1) = Append(Held(m, r, n), d)
<1> DEFINE m2 == [m EXCEPT ![Slot(r, n)] = d]
<1> USE DepthAssumption
<1>1. Slot(r, n) \in Addr /\ m2 \in [Addr -> Data] /\ m2[Slot(r, n)] = d
  BY DEF Slot, Addr
<1>2. \A i \in 1 .. n : /\ Slot(r, i - 1) \in Addr
                       /\ Slot(r, i - 1) # Slot(r, n)
  BY DEF Slot, Addr
<1>3. \A i \in 1 .. n : m2[Slot(r, i - 1)] = m[Slot(r, i - 1)]
  BY <1>2
<1> HIDE DEF m2
<1>4. /\ Held(m, r, n) \in Seq(Data) /\ Len(Held(m, r, n)) = n
      /\ \A i \in 1 .. n : Held(m, r, n)[i] = m[Slot(r, i - 1)]
  BY HeldType
<1>5. n + 1 \in 0 .. Depth
  OBVIOUS
<1>6. /\ Held(m2, r, n + 1) \in Seq(Data) /\ Len(Held(m2, r, n + 1)) = n + 1
      /\ \A i \in 1 .. n + 1 : Held(m2, r, n + 1)[i] = m2[Slot(r, i - 1)]
  BY <1>1, <1>5, HeldType
<1>7. Append(Held(m, r, n), d) \in Seq(Data) /\ Len(Append(Held(m, r, n), d)) = n + 1
  BY <1>4
<1>8. ASSUME NEW i \in 1 .. n + 1
      PROVE  Held(m2, r, n + 1)[i] = Append(Held(m, r, n), d)[i]
  <2>1. CASE i = n + 1
    BY <2>1, <1>1, <1>4, <1>6
  <2>2. CASE i \in 1 .. n
    BY <2>2, <1>3, <1>4, <1>6
  <2>3. i = n + 1 \/ i \in 1 .. n
    OBVIOUS
  <2>4. QED
    BY <2>1, <2>2, <2>3, Zenon
<1>9. Held(m2, r, n + 1) = Append(Held(m, r, n), d)
  BY <1>6, <1>7, <1>8
<1>10. QED
  BY <1>9 DEF m2

\* A lone read takes the oldest word away.
LEMMA HeldTail ==
  ASSUME NEW m \in [Addr -> Data], NEW r \in Addr, NEW n \in 1 .. Depth
  PROVE  /\ Held(m, r, n) # << >>
         /\ Head(Held(m, r, n)) = m[r]
         /\ Held(m, Succ(r), n - 1) = Tail(Held(m, r, n))
<1> USE DepthAssumption
<1>1. Succ(r) \in Addr /\ n - 1 \in 0 .. Depth /\ n \in 0 .. Depth
  BY DEF Succ, Addr
<1>2. /\ Held(m, r, n) \in Seq(Data) /\ Len(Held(m, r, n)) = n
      /\ \A i \in 1 .. n : Held(m, r, n)[i] = m[Slot(r, i - 1)]
  BY <1>1, HeldType
<1>3. /\ Held(m, Succ(r), n - 1) \in Seq(Data)
      /\ Len(Held(m, Succ(r), n - 1)) = n - 1
      /\ \A i \in 1 .. n - 1 : Held(m, Succ(r), n - 1)[i] = m[Slot(Succ(r), i - 1)]
  BY <1>1, HeldType
<1>4. \A i \in 1 .. n - 1 : Slot(Succ(r), i - 1) = Slot(r, i)
  BY DEF Slot, Succ, Addr
<1>5. ASSUME NEW i \in 1 .. n - 1
      PROVE  Held(m, Succ(r), n - 1)[i] = Held(m, r, n)[i + 1]
  <2>1. i + 1 \in 1 .. n /\ (i + 1) - 1 = i
    OBVIOUS
  <2>2. Held(m, r, n)[i + 1] = m[Slot(r, i)]
    BY <2>1, <1>2
  <2>3. QED
    BY <2>2, <1>3, <1>4
<1>6. Held(m, Succ(r), n - 1) = Tail(Held(m, r, n))
  BY <1>2, <1>3, <1>5
<1>7. Slot(r, 0) = r
  BY DEF Slot, Addr
<1>8. Head(Held(m, r, n)) = m[r] /\ Held(m, r, n) # << >>
  BY <1>2, <1>7
<1>9. QED
  BY <1>6, <1>8

\* Each clock edge outside reset is a step of the abstract queue, or changes nothing.
LEMMA ClockRefines ==
  ASSUME IInv, NEW we \in BOOLEAN, NEW re \in BOOLEAN, NEW din \in Data,
         Clock(we, re, din)
  PROVE  [Fifo!Next]_(Fifo!vars)
<1> DEFINE we_p == we /\ ~full
           re_p == re /\ ~empty
<1> USE DepthAssumption
<1>1. /\ we_p => dcount \in 0 .. Depth - 1
      /\ re_p => dcount \in 1 .. Depth
      /\ dcount \in 0 .. Depth
      /\ mem \in [Addr -> Data] /\ rd_addr \in Addr
      /\ wr_addr = Slot(rd_addr, dcount)
  BY DEF IInv, TypeOK, FlagsExact, PointersAgree, full
<1>2. dcount' = IF re_p /\ ~we_p THEN dcount - 1
                ELSE IF we_p /\ ~re_p THEN dcount + 1 ELSE dcount
  BY <1>1, CounterArithmetic DEF Clock, NextCount
<1>3. /\ rd_addr' = IF re_p THEN Succ(rd_addr) ELSE rd_addr
      /\ dout' = IF re_p THEN mem[rd_addr] ELSE dout
      /\ mem' = IF we_p THEN [mem EXCEPT ![wr_addr] = din] ELSE mem
  BY DEF Clock, Store, dout_comb
<1>4. queue' = Held(mem', rd_addr', dcount') /\ queue = Held(mem, rd_addr, dcount)
  BY DEF queue
<1>5. Len(queue) = dcount
  BY <1>1, <1>4, HeldType
<1> HIDE DEF we_p, re_p
<1>6. CASE we_p /\ ~re_p
  <2>1. queue' = Append(queue, din) /\ dout' = dout
    BY <1>6, <1>1, <1>2, <1>3, <1>4, HeldAppend
  <2>2. QED
    BY <2>1, <1>1, <1>5, <1>6 DEF Fifo!Next, Fifo!Push
<1>7. CASE re_p /\ ~we_p
  <2>1. queue # << >> /\ queue' = Tail(queue) /\ dout' = Head(queue)
    BY <1>7, <1>1, <1>2, <1>3, <1>4, HeldTail
  <2>2. QED
    BY <2>1 DEF Fifo!Next, Fifo!Pop
<1>8. CASE we_p /\ re_p
  <2>1. queue # << >> /\ dout' = Head(queue)
        /\ Held(mem, Succ(rd_addr), dcount - 1) = Tail(queue)
    BY <1>8, <1>1, <1>3, <1>4, HeldTail
  <2>2. wr_addr = Slot(Succ(rd_addr), dcount - 1) /\ Succ(rd_addr) \in Addr
        /\ dcount - 1 \in 0 .. Depth - 1
    BY <1>8, <1>1 DEF Slot, Succ, Addr
  <2>3. Held(mem', Succ(rd_addr), dcount - 1 + 1)
        = Append(Held(mem, Succ(rd_addr), dcount - 1), din)
    BY <1>8, <1>1, <1>3, <2>2, HeldAppend
  <2>4. dcount - 1 + 1 = dcount /\ dcount' = dcount /\ rd_addr' = Succ(rd_addr)
    BY <1>8, <1>1, <1>2, <1>3
  <2>5. queue' = Append(Tail(queue), din)
    BY <1>4, <2>1, <2>3, <2>4
  <2>6. QED
    BY <1>1, <1>5, <1>8, <2>1, <2>5 DEF Fifo!Next, Fifo!PushPop
<1>9. CASE ~we_p /\ ~re_p
  BY <1>9, <1>2, <1>3, <1>4 DEF Fifo!vars
<1>10. QED
  BY <1>6, <1>7, <1>8, <1>9

(* sync_fifo_ram implements the abstract queue for every depth and every   *)
(* set of words: first in, first out, with nothing lost or overwritten.    *)
THEOREM RamFifoRefinesFifo == Spec => Implements
<1>1. Init => Fifo!Init
  <2> SUFFICES ASSUME Init
               PROVE  queue = << >> /\ dout \in Data
    BY DEF Fifo!Init
  <2>1. mem \in [Addr -> Data] /\ rd_addr \in Addr /\ dcount = 0 /\ dout \in Data
    BY DepthAssumption DEF Init, Addr
  <2>2. queue = << >>
    BY <2>1, NothingHeld DEF queue
  <2>3. QED
    BY <2>1, <2>2
<1>2. IInv /\ IInv' /\ [Next]_vars => [Fifo!Next]_(Fifo!vars)
  <2> SUFFICES ASSUME IInv, IInv', [Next]_vars
               PROVE  [Fifo!Next]_(Fifo!vars)
    OBVIOUS
  <2>1. ASSUME NEW we \in BOOLEAN, NEW re \in BOOLEAN, NEW din \in Data,
               Clock(we, re, din)
        PROVE  [Fifo!Next]_(Fifo!vars)
    BY <2>1, ClockRefines
  <2>2. CASE AssertReset
    <3>1. mem' \in [Addr -> Data] /\ rd_addr' \in Addr /\ dcount' = 0 /\ dout' = dout
      BY <2>2, DepthAssumption DEF AssertReset, IInv, TypeOK, Addr
    <3>2. queue' = Held(mem', rd_addr', 0)
      BY <3>1 DEF queue
    <3>3. queue' = << >>
      BY <3>1, <3>2, NothingHeld
    <3>4. QED
      BY <3>1, <3>3 DEF Fifo!Next, Fifo!Clear
  <2>3. ASSUME NEW we \in BOOLEAN, NEW din \in Data, ClockInReset(we, din)
        PROVE  [Fifo!Next]_(Fifo!vars)
    <3>1. /\ dcount = 0 /\ dcount' = 0 /\ rd_addr' = rd_addr /\ dout' = dout
          /\ rd_addr \in Addr /\ mem \in [Addr -> Data] /\ mem' \in [Addr -> Data]
      BY <2>3 DEF ClockInReset, IInv, TypeOK, InResetEmpty
    <3>2. queue = Held(mem, rd_addr, 0) /\ queue' = Held(mem', rd_addr, 0)
      BY <3>1 DEF queue
    <3>3. \A m \in [Addr -> Data] : Held(m, rd_addr, 0) = << >>
      BY <3>1, NothingHeld
    <3>4. QED
      BY <3>1, <3>2, <3>3 DEF Fifo!vars
  <2>4. CASE ReleaseReset
    BY <2>4 DEF ReleaseReset, queue, Held, Slot, Fifo!vars
  <2>5. CASE UNCHANGED vars
    BY <2>5 DEF vars, queue, Held, Slot, Fifo!vars
  <2>6. QED
    BY <2>1, <2>2, <2>3, <2>4, <2>5 DEF Next
<1>3. QED
  BY <1>1, <1>2, SpecInductive, PTL DEF Implements, Spec, Fifo!Spec
=============================================================================
