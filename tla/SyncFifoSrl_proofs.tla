------------------------- MODULE SyncFifoSrl_proofs -------------------------
(***************************************************************************)
(* For every depth and every set of words: the combined pointer-counter of *)
(* sync_fifo_srl stays legal, and each of its steps is a step of the same  *)
(* abstract queue the RAM FIFO implements.                                 *)
(***************************************************************************)
EXTENDS SyncFifoSrl, TLAPS

InResetEmpty == ~arst_n => empty_rd_addr = AllOnes

IInv == TypeOK /\ CountLegal /\ InResetEmpty

\* What the combined register says, by its value.
LEMMA CounterDecoded ==
  ASSUME CountLegal
  PROVE  /\ empty_rd_addr = AllOnes => empty /\ dcount = 0
         /\ empty_rd_addr \in Addr
              => ~empty /\ rd_addr = empty_rd_addr /\ dcount = empty_rd_addr + 1
  BY DepthAssumption DEF CountLegal, Addr, AllOnes, empty, rd_addr, dcount

\* The carry out of all ones, the borrow into it, and the steps in between.
LEMMA CounterSteps ==
  ASSUME CountLegal
  PROVE  /\ ~full => /\ (empty_rd_addr + 1) % (2 * Depth) \in Addr
                     /\ (empty_rd_addr + 1) % (2 * Depth) = dcount
                     /\ dcount < Depth
         /\ ~empty => /\ empty_rd_addr \in Addr
                      /\ (empty_rd_addr - 1) % (2 * Depth)
                         = IF empty_rd_addr = 0 THEN AllOnes ELSE empty_rd_addr - 1
<1> USE DepthAssumption DEF CountLegal, Addr, AllOnes
<1>1. ASSUME ~full
      PROVE  (empty_rd_addr + 1) % (2 * Depth) \in Addr /\ dcount < Depth
  BY <1>1 DEF full, dcount
<1>2. ASSUME ~empty
      PROVE  empty_rd_addr \in Addr
  BY <1>2 DEF empty
<1>3. ASSUME empty_rd_addr = 0
      PROVE  (empty_rd_addr - 1) % (2 * Depth) = AllOnes
  BY <1>3
<1>4. ASSUME empty_rd_addr \in Addr, empty_rd_addr # 0
      PROVE  (empty_rd_addr - 1) % (2 * Depth) = empty_rd_addr - 1
  BY <1>4
<1>5. QED
  BY <1>1, <1>2, <1>3, <1>4 DEF dcount

LEMMA InitInductive == Init => IInv
<1> SUFFICES ASSUME Init
             PROVE  IInv
  OBVIOUS
<1>1. arst_n \in BOOLEAN /\ srl \in [Addr -> Data] /\ dout \in Data
  BY DEF Init
<1>2. empty_rd_addr \in 0 .. AllOnes /\ CountLegal /\ InResetEmpty
  BY DepthAssumption DEF Init, CountLegal, InResetEmpty, AllOnes
<1>3. QED
  BY <1>1, <1>2 DEF IInv, TypeOK

LEMMA ClockInductive ==
  ASSUME IInv, NEW we \in BOOLEAN, NEW re \in BOOLEAN, NEW din \in Data,
         Clock(we, re, din)
  PROVE  IInv'
<1> DEFINE we_p == we /\ ~full
           re_p == re /\ ~empty
<1> USE DepthAssumption
<1>1. /\ arst_n' = arst_n /\ arst_n
      /\ Count(we_p, re_p)
      /\ Shift(we_p, din)
      /\ dout' = IF re_p THEN dout_comb ELSE dout
  BY DEF Clock
<1>2. CountLegal
  BY DEF IInv
<1>3. (we_p => ~full) /\ (re_p => ~empty)
  OBVIOUS
<1> HIDE DEF we_p, re_p
<1>4. CountLegal'
  BY <1>1, <1>2, <1>3, CounterSteps DEF Count, CountLegal, Addr
<1>5. srl' \in [Addr -> Data]
  BY <1>1 DEF Shift, IInv, TypeOK, Addr
<1>6. dout' \in Data
  BY <1>1, <1>2, <1>3, CounterDecoded, CounterSteps DEF dout_comb, IInv, TypeOK
<1>7. empty_rd_addr' \in 0 .. AllOnes
  BY <1>4 DEF CountLegal, Addr, AllOnes
<1>8. QED
  BY <1>1, <1>4, <1>5, <1>6, <1>7 DEF IInv, TypeOK, InResetEmpty

LEMMA StepInductive == IInv /\ [Next]_vars => IInv'
<1> SUFFICES ASSUME IInv, [Next]_vars
             PROVE  IInv'
  OBVIOUS
<1>1. ASSUME NEW we \in BOOLEAN, NEW re \in BOOLEAN, NEW din \in Data,
             Clock(we, re, din)
      PROVE  IInv'
  BY <1>1, ClockInductive
<1>2. ASSUME NEW re \in BOOLEAN, AssertReset(re)
      PROVE  IInv'
  <2>1. dout' \in Data
    BY <1>2, CounterDecoded, CounterSteps DEF AssertReset, dout_comb, IInv, TypeOK
  <2>2. arst_n' \in BOOLEAN /\ srl' \in [Addr -> Data]
    BY <1>2 DEF AssertReset, IInv, TypeOK
  <2>3. empty_rd_addr' \in 0 .. AllOnes /\ CountLegal' /\ InResetEmpty'
    BY <1>2, DepthAssumption DEF AssertReset, CountLegal, InResetEmpty, AllOnes
  <2>4. QED
    BY <2>1, <2>2, <2>3 DEF IInv, TypeOK
<1>3. ASSUME NEW we \in BOOLEAN, NEW din \in Data, ClockInReset(we, din)
      PROVE  IInv'
  BY <1>3, DepthAssumption
  DEF ClockInReset, Shift, IInv, TypeOK, CountLegal, InResetEmpty, Addr
<1>4. CASE ReleaseReset
  BY <1>4 DEF ReleaseReset, IInv, TypeOK, CountLegal, InResetEmpty
<1>5. CASE UNCHANGED vars
  BY <1>5 DEF vars, IInv, TypeOK, CountLegal, InResetEmpty
<1>6. QED
  BY <1>1, <1>2, <1>3, <1>4, <1>5 DEF Next

LEMMA SpecInductive == Spec => []IInv
  BY InitInductive, StepInductive, PTL DEF Spec

(* Counter, shift register and output register keep their types: no        *)
(* address past the storage is read, with or without a reset in between.   *)
THEOREM TypeCorrect == Spec => []TypeOK
<1>1. IInv => TypeOK
  BY DEF IInv
<1>2. QED
  BY <1>1, SpecInductive, PTL

(* The combined register {empty, rd_addr} never takes a value that is      *)
(* neither 'empty' nor a pointer into the storage.                         *)
THEOREM CountStaysLegal == Spec => []CountLegal
<1>1. IInv => CountLegal
  BY DEF IInv
<1>2. QED
  BY <1>1, SpecInductive, PTL
-----------------------------------------------------------------------------
\* Two sequences of one length that agree at every index are one sequence.
LEMMA SeqEqual ==
  ASSUME NEW a \in Seq(Data), NEW b \in Seq(Data), Len(a) = Len(b),
         \A i \in 1 .. Len(a) : a[i] = b[i]
  PROVE  a = b
  OBVIOUS

\* The n youngest words form a sequence.
LEMMA HeldType ==
  ASSUME NEW s \in [Addr -> Data], NEW n \in 0 .. Depth
  PROVE  /\ Held(s, n) \in Seq(Data)
         /\ Len(Held(s, n)) = n
         /\ \A i \in 1 .. n : Held(s, n)[i] = s[n - i]
<1>1. \A i \in 1 .. n : n - i \in Addr
  BY DepthAssumption DEF Addr
<1>2. Held(s, n) \in [1 .. n -> Data]
  BY <1>1 DEF Held
<1>3. n \in Nat
  BY DepthAssumption
<1>4. QED
  BY <1>2, <1>3 DEF Held

LEMMA NothingHeld ==
  ASSUME NEW s \in [Addr -> Data]
  PROVE  Held(s, 0) = << >>
<1>1. Held(s, 0) \in Seq(Data) /\ Len(Held(s, 0)) = 0
  BY HeldType, DepthAssumption
<1>2. QED
  BY <1>1

\* Shifting a word in appends it; the word that falls off was not held.
LEMMA HeldAppend ==
  ASSUME NEW s \in [Addr -> Data], NEW n \in 0 .. Depth - 1, NEW d \in Data
  PROVE  Held([i \in Addr |-> IF i = 0 THEN d ELSE s[i - 1]], n + 1)
         = Append(Held(s, n), d)
<1> DEFINE s2 == [i \in Addr |-> IF i = 0 THEN d ELSE s[i - 1]]
<1> USE DepthAssumption
<1>1. s2 \in [Addr -> Data] /\ s2[0] = d
  BY DEF Addr
<1>2. ASSUME NEW i \in 1 .. n
      PROVE  s2[(n + 1) - i] = s[n - i]
  <2>1. (n + 1) - i \in Addr /\ (n + 1) - i # 0 /\ ((n + 1) - i) - 1 = n - i
    BY DEF Addr
  <2>2. s2[(n + 1) - i] = s[((n + 1) - i) - 1]
    BY <2>1
  <2>3. QED
    BY <2>1, <2>2
<1> HIDE DEF s2
<1>3. n + 1 \in 0 .. Depth /\ n \in 0 .. Depth
  OBVIOUS
<1>4. /\ Held(s, n) \in Seq(Data) /\ Len(Held(s, n)) = n
      /\ \A i \in 1 .. n : Held(s, n)[i] = s[n - i]
  BY <1>3, HeldType
<1>5. /\ Held(s2, n + 1) \in Seq(Data) /\ Len(Held(s2, n + 1)) = n + 1
      /\ \A i \in 1 .. n + 1 : Held(s2, n + 1)[i] = s2[(n + 1) - i]
  BY <1>1, <1>3, HeldType
<1>6. Append(Held(s, n), d) \in Seq(Data) /\ Len(Append(Held(s, n), d)) = n + 1
  BY <1>4
<1>7. ASSUME NEW i \in 1 .. n + 1
      PROVE  Held(s2, n + 1)[i] = Append(Held(s, n), d)[i]
  <2>1. CASE i = n + 1
    <3>1. (n + 1) - i = 0 /\ n + 1 \in 1 .. n + 1
      BY <2>1
    <3>2. Held(s2, n + 1)[i] = d
      BY <3>1, <2>1, <1>1, <1>5
    <3>3. Append(Held(s, n), d)[i] = d
      BY <2>1, <1>4
    <3>4. QED
      BY <3>2, <3>3
  <2>2. CASE i \in 1 .. n
    <3>1. Held(s2, n + 1)[i] = s[n - i]
      BY <2>2, <1>2, <1>5
    <3>2. Append(Held(s, n), d)[i] = Held(s, n)[i]
      BY <2>2, <1>4
    <3>3. QED
      BY <2>2, <3>1, <3>2, <1>4
  <2>3. i = n + 1 \/ i \in 1 .. n
    OBVIOUS
  <2>4. QED
    BY <2>1, <2>2, <2>3, Zenon
<1>8. Held(s2, n + 1) = Append(Held(s, n), d)
  <2>1. \A i \in 1 .. Len(Held(s2, n + 1)) : Held(s2, n + 1)[i] = Append(Held(s, n), d)[i]
    BY <1>5, <1>7
  <2>2. QED
    BY <1>5, <1>6, <2>1, SeqEqual
<1>9. QED
  BY <1>8 DEF s2

\* Moving the read pointer down by one drops the oldest word.
LEMMA HeldTail ==
  ASSUME NEW s \in [Addr -> Data], NEW n \in 1 .. Depth
  PROVE  /\ Held(s, n) # << >>
         /\ Head(Held(s, n)) = s[n - 1]
         /\ Held(s, n - 1) = Tail(Held(s, n))
<1> USE DepthAssumption
<1>1. n - 1 \in 0 .. Depth /\ n \in 0 .. Depth
  OBVIOUS
<1>2. /\ Held(s, n) \in Seq(Data) /\ Len(Held(s, n)) = n
      /\ \A i \in 1 .. n : Held(s, n)[i] = s[n - i]
  BY <1>1, HeldType
<1>3. /\ Held(s, n - 1) \in Seq(Data) /\ Len(Held(s, n - 1)) = n - 1
      /\ \A i \in 1 .. n - 1 : Held(s, n - 1)[i] = s[(n - 1) - i]
  BY <1>1, HeldType
<1>4. ASSUME NEW i \in 1 .. n - 1
      PROVE  Held(s, n - 1)[i] = Held(s, n)[i + 1]
  <2>1. i + 1 \in 1 .. n /\ n - (i + 1) = (n - 1) - i
    OBVIOUS
  <2>2. QED
    BY <2>1, <1>2, <1>3
<1>5. Held(s, n - 1) = Tail(Held(s, n))
  BY <1>2, <1>3, <1>4
<1>6. QED
  BY <1>2, <1>5

\* Each clock edge outside reset is a step of the abstract queue, or changes
\* nothing in it.
LEMMA ClockRefines ==
  ASSUME IInv, NEW we \in BOOLEAN, NEW re \in BOOLEAN, NEW din \in Data,
         Clock(we, re, din)
  PROVE  [Fifo!Next]_(Fifo!vars)
<1> DEFINE we_p == we /\ ~full
           re_p == re /\ ~empty
           n == dcount
           shifted == [i \in Addr |-> IF i = 0 THEN din ELSE srl[i - 1]]
<1> USE DepthAssumption
<1>1. srl \in [Addr -> Data] /\ CountLegal
  BY DEF IInv, TypeOK
<1>2. /\ we_p => n \in 0 .. Depth - 1
      /\ re_p => n \in 1 .. Depth /\ dout_comb = srl[n - 1]
      /\ n \in 0 .. Depth
  BY <1>1 DEF CountLegal, Addr, AllOnes, empty, rd_addr, dcount, full, dout_comb
<1>3. dcount' = IF re_p /\ ~we_p THEN n - 1
                ELSE IF we_p /\ ~re_p THEN n + 1 ELSE n
  <2>1. Count(we_p, re_p)
    BY DEF Clock
  <2>2. (we_p => ~full) /\ (re_p => ~empty)
    OBVIOUS
  <2> HIDE DEF we_p, re_p
  <2>3. CASE re_p /\ ~we_p
    <3>1. empty_rd_addr \in Addr /\ empty_rd_addr' = IF empty_rd_addr = 0 THEN AllOnes
                                                     ELSE empty_rd_addr - 1
      BY <2>1, <2>2, <2>3, <1>1, CounterSteps DEF Count
    <3>2. QED
      BY <3>1, <2>3 DEF dcount, AllOnes, Addr
  <2>4. CASE we_p /\ ~re_p
    <3>1. empty_rd_addr' = n /\ n \in 0 .. Depth - 1
      BY <2>1, <2>2, <2>4, <1>1, <1>2, CounterSteps DEF Count
    <3>2. (n + 1) % (2 * Depth) = n + 1
      BY <3>1
    <3>3. QED
      BY <3>1, <3>2, <2>4 DEF dcount
  <2>5. CASE we_p <=> re_p
    BY <2>1, <2>5 DEF Count, dcount
  <2>6. QED
    BY <2>3, <2>4, <2>5
<1>4. /\ dout' = IF re_p THEN dout_comb ELSE dout
      /\ srl' = IF we_p THEN shifted ELSE srl
  BY DEF Clock, Shift
<1>5. queue' = Held(srl', dcount') /\ queue = Held(srl, n)
  BY DEF queue
<1>6. Len(queue) = n
  BY <1>1, <1>2, <1>5, HeldType
<1> HIDE DEF we_p, re_p, n
<1>7. CASE we_p /\ ~re_p
  <2>1. Held(shifted, n + 1) = Append(Held(srl, n), din)
    BY <1>7, <1>1, <1>2, HeldAppend
  <2>2. queue' = Append(queue, din) /\ dout' = dout
    BY <1>7, <1>3, <1>4, <1>5, <2>1
  <2>3. QED
    BY <2>2, <1>2, <1>6, <1>7 DEF Fifo!Next, Fifo!Push
<1>8. CASE re_p /\ ~we_p
  <2>1. queue # << >> /\ queue' = Tail(queue) /\ dout' = Head(queue)
    BY <1>8, <1>1, <1>2, <1>3, <1>4, <1>5, HeldTail
  <2>2. QED
    BY <2>1 DEF Fifo!Next, Fifo!Pop
<1>9. CASE we_p /\ re_p
  <2>1. queue # << >> /\ dout' = Head(queue) /\ Held(srl, n - 1) = Tail(queue)
    BY <1>9, <1>1, <1>2, <1>4, <1>5, HeldTail
  <2>2. n - 1 \in 0 .. Depth - 1 /\ (n - 1) + 1 = n
    BY <1>9, <1>2
  <2>3. Held(shifted, (n - 1) + 1) = Append(Held(srl, n - 1), din)
    BY <1>1, <2>2, HeldAppend
  <2>4. queue' = Append(Tail(queue), din)
    BY <1>9, <1>3, <1>4, <1>5, <2>1, <2>2, <2>3
  <2>5. QED
    BY <1>2, <1>6, <1>9, <2>1, <2>4 DEF Fifo!Next, Fifo!PushPop
<1>10. CASE ~we_p /\ ~re_p
  BY <1>10, <1>3, <1>4, <1>5 DEF Fifo!vars
<1>11. QED
  BY <1>7, <1>8, <1>9, <1>10

(* sync_fifo_srl implements the abstract queue for every depth and every   *)
(* set of words, the read that a falling reset edge performs included.     *)
THEOREM SrlFifoRefinesFifo == Spec => Implements
<1>1. Init => Fifo!Init
  <2> SUFFICES ASSUME Init
               PROVE  queue = << >> /\ dout \in Data
    BY DEF Fifo!Init
  <2>1. srl \in [Addr -> Data] /\ dcount = 0 /\ dout \in Data
    BY DepthAssumption DEF Init, AllOnes, dcount
  <2>2. QED
    BY <2>1, NothingHeld DEF queue
<1>2. IInv /\ IInv' /\ [Next]_vars => [Fifo!Next]_(Fifo!vars)
  <2> SUFFICES ASSUME IInv, IInv', [Next]_vars
               PROVE  [Fifo!Next]_(Fifo!vars)
    OBVIOUS
  <2>1. ASSUME NEW we \in BOOLEAN, NEW re \in BOOLEAN, NEW din \in Data,
               Clock(we, re, din)
        PROVE  [Fifo!Next]_(Fifo!vars)
    BY <2>1, ClockRefines
  <2>2. ASSUME NEW re \in BOOLEAN, AssertReset(re)
        PROVE  [Fifo!Next]_(Fifo!vars)
    <3>1. srl' \in [Addr -> Data] /\ dcount' = 0
      BY <2>2, DepthAssumption DEF AssertReset, IInv, TypeOK, dcount, AllOnes
    <3>2. queue' = << >>
      BY <3>1, NothingHeld DEF queue
    <3>3. CASE re /\ ~empty
      <4>1. dcount \in 1 .. Depth /\ dout_comb = srl[dcount - 1] /\ srl \in [Addr -> Data]
        BY <3>3, DepthAssumption
        DEF IInv, TypeOK, CountLegal, Addr, AllOnes, empty, rd_addr, dcount, dout_comb
      <4>2. queue # << >> /\ dout_comb = Head(queue)
        BY <4>1, HeldTail DEF queue
      <4>3. dout' = Head(queue)
        BY <3>3, <2>2, <4>2 DEF AssertReset
      <4>4. QED
        BY <3>2, <4>2, <4>3 DEF Fifo!Next, Fifo!Clear
    <3>4. CASE ~(re /\ ~empty)
      BY <3>2, <3>4, <2>2 DEF AssertReset, Fifo!Next, Fifo!Clear
    <3>5. QED
      BY <3>3, <3>4
  <2>3. ASSUME NEW we \in BOOLEAN, NEW din \in Data, ClockInReset(we, din)
        PROVE  [Fifo!Next]_(Fifo!vars)
    <3>1. /\ dcount = 0 /\ dcount' = 0 /\ dout' = dout
          /\ srl \in [Addr -> Data] /\ srl' \in [Addr -> Data]
      BY <2>3, DepthAssumption
      DEF ClockInReset, IInv, IInv, TypeOK, InResetEmpty, dcount, AllOnes
    <3>2. queue = << >> /\ queue' = << >>
      BY <3>1, NothingHeld DEF queue
    <3>3. QED
      BY <3>1, <3>2 DEF Fifo!vars
  <2>4. CASE ReleaseReset
    BY <2>4 DEF ReleaseReset, queue, Held, dcount, Fifo!vars
  <2>5. CASE UNCHANGED vars
    BY <2>5 DEF vars, queue, Held, dcount, Fifo!vars
  <2>6. QED
    BY <2>1, <2>2, <2>3, <2>4, <2>5 DEF Next
<1>3. QED
  BY <1>1, <1>2, SpecInductive, PTL DEF Implements, Spec, Fifo!Spec
=============================================================================
