-------------------------- MODULE UartHost_proofs --------------------------
(***************************************************************************)
(* For every byte radix, word and address size and time limit: the         *)
(* registers of the host-command machine keep their types, no strobe is up *)
(* while it waits, the CPU's reset and the bus request last exactly as     *)
(* long as a programming command and a session, every command writes what  *)
(* the host has sent, and every command is answered as the host expects.   *)
(***************************************************************************)
EXTENDS UartHost, SequenceTheorems, TLAPS

Answers == [rdy : BOOLEAN, rdat : Word]

Fields ==
  [state : States, n : Nat, cpu_rstn : BOOLEAN,
   data_length : [0 .. 1 -> Byte], data_cnt : 0 .. Counts - 1,
   ram_wen : BOOLEAN, ram_addr : Nat, ram_data : Word,
   bus_vld : BOOLEAN, bus_we : SUBSET Lane, bus_addr : Address,
   bus_rdat : Word, bus_wdat : Word,
   timeout : 0 .. TimeoutTicks, uart_tx : Reply]

\* The write strobes are up only in the one state that takes them down again:
\* what QuietWhileWaiting needs to be inductive.
StrobesBrief ==
  /\ u.ram_wen => u.state \in {"IMPR_CHECKSUM", "IMWR_CHECKSUM"}
  /\ u.bus_we # {} => u.state = "BUSW_CHECKSUM"

IInv ==
  TypeOK /\ StrobesBrief /\ QuietWhileWaiting /\ CpuHeldWhileProgramming /\ SessionHoldsBus

LEMMA ByteFacts ==
  /\ 0 \in Byte /\ 1 \in Byte
  /\ Counts \in Nat /\ Counts >= 1
  /\ 0 \in 0 .. TimeoutTicks
  /\ None \in Reply /\ Ack \in Reply /\ Tout \in Reply /\ Checksum \in Reply
  /\ \A b \in Byte : Data(b) \in Reply
  /\ \A b \in Byte : Data(b) # None
<1>1. 0 \in Byte /\ 1 \in Byte
  BY ByteRadixAssumption DEF Byte
<1>2. Counts \in Nat /\ Counts >= 1
  BY ByteRadixAssumption DEF Counts
<1>3. 0 \in 0 .. TimeoutTicks
  BY TimeoutAssumption
<1>4. QED
  BY <1>1, <1>2, <1>3 DEF Reply, None, Data

LEMMA LanesType == ASSUME NEW b PROVE Lanes(b) \in SUBSET Lane
  BY DEF Lanes

\* The instruction address stays a number when one of its bytes is replaced.
LEMMA WithByteType ==
  ASSUME NEW a \in Nat, NEW i \in 0 .. 1, NEW b \in Byte
  PROVE  WithByte(a, i, b) \in Nat
<1> USE ByteRadixAssumption
<1>1. b \in Nat
  BY DEF Byte
<1>2. \A x \in Nat : x * ByteRadix \in Nat /\ x * Counts \in Nat
  BY DEF Counts
<1>3. a \div ByteRadix \in Nat /\ a % ByteRadix \in Nat
  OBVIOUS
<1>4. a \div Counts \in Nat
  <2>1. Counts \in Nat /\ Counts > 0
    BY DEF Counts
  <2>2. QED
    BY <2>1
<1>5. QED
  BY <1>1, <1>2, <1>3, <1>4 DEF WithByte

LEMMA InputTypes == Arriving \subseteq Rx /\ BusAnswer \subseteq Answers
<1>1. Arriving \subseteq Rx
  <2>1. NoRx \in Rx
    BY ByteFacts DEF NoRx, Rx
  <2>2. \A c \in Command \cup {"DATA"} : [valid |-> TRUE, cmd |-> c, data |-> 0] \in Rx
    BY ByteFacts DEF Rx
  <2>3. \A b \in Byte : [valid |-> TRUE, cmd |-> "DATA", data |-> b] \in Rx
    BY DEF Rx
  <2>4. QED
    BY <2>1, <2>2, <2>3 DEF Arriving
<1>2. [i \in Lane |-> 0] \in Word
  BY ByteFacts DEF Word
<1>3. NotReady \in Answers /\ \A w \in Word : [rdy |-> TRUE, rdat |-> w] \in Answers
  BY <1>2 DEF NotReady, Answers
<1>4. QED
  BY <1>1, <1>3 DEF BusAnswer

LEMMA InitInductive == Init => IInv
<1> SUFFICES ASSUME u = Reset
             PROVE  IInv
  BY DEF Init
<1>1. /\ [i \in 0 .. 1 |-> 0] \in [0 .. 1 -> Byte]
      /\ [i \in Lane |-> 0] \in Word
      /\ ResetAddress \in Address
  BY ByteFacts DEF Word, Address, ResetAddress
<1>2. u \in Fields
  BY <1>1, ByteFacts, TimeoutAssumption DEF Reset, Fields, States, Waiting
<1>3. u.n < FieldBytes(u.state)
  BY DEF Reset, FieldBytes
<1>4. TypeOK
  BY <1>2, <1>3 DEF TypeOK, Fields
<1>5. StrobesBrief /\ QuietWhileWaiting
  BY DEF Reset, StrobesBrief, QuietWhileWaiting
<1>6. CpuHeldWhileProgramming /\ SessionHoldsBus
  BY DEF Reset, CpuHeldWhileProgramming, SessionHoldsBus, Programming
<1>7. QED
  BY <1>4, <1>5, <1>6 DEF IInv

\* The record keeps its type when some of its registers take values of theirs.
LEMMA Registers ==
  ASSUME u \in Fields, u.n < FieldBytes(u.state)
  PROVE  /\ u.state \in States /\ u.n \in Nat /\ u.cpu_rstn \in BOOLEAN
         /\ u.data_length \in [0 .. 1 -> Byte] /\ u.data_cnt \in 0 .. Counts - 1
         /\ u.ram_wen \in BOOLEAN /\ u.ram_addr \in Nat /\ u.ram_data \in Word
         /\ u.bus_vld \in BOOLEAN /\ u.bus_we \in SUBSET Lane /\ u.bus_addr \in Address
         /\ u.bus_rdat \in Word /\ u.bus_wdat \in Word
         /\ u.timeout \in 0 .. TimeoutTicks /\ u.uart_tx \in Reply
  BY DEF Fields

LEMMA Unchanged ==
  ASSUME IInv, u' = u
  PROVE  IInv'
  BY DEF IInv, TypeOK, StrobesBrief, QuietWhileWaiting, CpuHeldWhileProgramming,
         SessionHoldsBus

\* Where sessions and commands begin, and sessions end.
LEMMA OpenClose ==
  ASSUME IInv, NEW rx \in Rx, WaitSop(rx) \/ WaitCmd(rx)
  PROVE  IInv'
<1> USE ByteFacts, TimeoutAssumption, WordBytesAssumption, AddrBytesAssumption
<1>1. u \in Fields /\ u.n < FieldBytes(u.state) /\ u.n \in Nat
  BY DEF IInv, TypeOK, Fields
<1>2. CASE u' = u
  BY <1>2, Unchanged
<1>3. CASE /\ u.state = "WAIT_SOP"
          /\ u' = [u EXCEPT !.bus_vld = TRUE, !.state = "WAIT_CMD"]
  <2>1. "WAIT_CMD" \in States
    BY DEF States, Waiting, Timed, Programming
  <2>2. u' \in Fields
    BY <1>1, <1>3, <2>1 DEF Fields
  <2>3. u'.n < FieldBytes(u'.state)
    BY <1>1, <1>3 DEF Fields, FieldBytes
  <2>4. StrobesBrief' /\ QuietWhileWaiting' /\ CpuHeldWhileProgramming' /\ SessionHoldsBus'
    BY <1>1, <1>3 DEF Fields, IInv, StrobesBrief, QuietWhileWaiting, Waiting, Timed,
              CpuHeldWhileProgramming, SessionHoldsBus, Programming
  <2>5. QED
    BY <2>2, <2>3, <2>4 DEF IInv, TypeOK, Fields
<1>4. CASE /\ u.state = "WAIT_CMD"
          /\ u' = [u EXCEPT !.cpu_rstn = FALSE, !.data_cnt = 0, !.timeout = 0,
                            !.state = "IMPR_WAIT_LEN"]
  <2>1. 0 \in 0 .. Counts - 1 /\ 0 \in 0 .. TimeoutTicks
    OBVIOUS
  <2>2. "IMPR_WAIT_LEN" \in States
    BY DEF States, Waiting, Timed, Programming
  <2>3. u' \in Fields
    BY <1>1, <1>4, <2>1, <2>2 DEF Fields
  <2>4. u'.n < FieldBytes(u'.state)
    BY <1>1, <1>4, <2>1 DEF Fields, FieldBytes
  <2>5. StrobesBrief' /\ QuietWhileWaiting' /\ CpuHeldWhileProgramming' /\ SessionHoldsBus'
    BY <1>1, <1>4, <2>1 DEF Fields, IInv, StrobesBrief, QuietWhileWaiting, Waiting, Timed,
              CpuHeldWhileProgramming, SessionHoldsBus, Programming
  <2>6. QED
    BY <2>3, <2>4, <2>5 DEF IInv, TypeOK, Fields
<1>5. ASSUME NEW s \in {"BUSW_WAIT_ADDR", "BUSR_WAIT_ADDR", "IMWR_WAIT_ADDR"},
             u.state = "WAIT_CMD", u' = [u EXCEPT !.timeout = 0, !.state = s]
      PROVE  IInv'
  <2>1. s \in States
    BY <1>5 DEF States, Waiting, Timed, Programming
  <2>2. u' \in Fields
    BY <1>1, <1>5, <2>1 DEF Fields
  <2>3. u'.n < FieldBytes(u'.state)
    BY <1>1, <1>5 DEF Fields, FieldBytes
  <2>4. StrobesBrief' /\ QuietWhileWaiting' /\ CpuHeldWhileProgramming' /\ SessionHoldsBus'
    BY <1>1, <1>5 DEF Fields, IInv, StrobesBrief, QuietWhileWaiting, Waiting, Timed,
              CpuHeldWhileProgramming, SessionHoldsBus, Programming
  <2>5. QED
    BY <2>2, <2>3, <2>4 DEF IInv, TypeOK, Fields
<1>6. CASE /\ u.state = "WAIT_CMD"
          /\ u' = [u EXCEPT !.bus_vld = FALSE, !.state = "WAIT_SOP"]
  <2>1. "WAIT_SOP" \in States
    BY DEF States, Waiting, Timed, Programming
  <2>2. u' \in Fields
    BY <1>1, <1>6, <2>1 DEF Fields
  <2>3. u'.n < FieldBytes(u'.state)
    BY <1>1, <1>6 DEF Fields, FieldBytes
  <2>4. StrobesBrief' /\ QuietWhileWaiting' /\ CpuHeldWhileProgramming' /\ SessionHoldsBus'
    BY <1>1, <1>6 DEF Fields, IInv, StrobesBrief, QuietWhileWaiting, Waiting, Timed,
              CpuHeldWhileProgramming, SessionHoldsBus, Programming
  <2>5. QED
    BY <2>2, <2>3, <2>4 DEF IInv, TypeOK, Fields
<1>7. QED
  BY <1>2, <1>3, <1>4, <1>5, <1>6 DEF WaitSop, WaitCmd, Begin

\* A clock in which nothing comes.
LEMMA GivesUp ==
  ASSUME IInv, NEW tick \in BOOLEAN, GiveUp(tick),
         u.state \in Timed \cup {"BUSR_WAIT_DATA"}
  PROVE  IInv'
<1> USE ByteFacts, TimeoutAssumption, WordBytesAssumption, AddrBytesAssumption
<1>1. u \in Fields /\ u.n < FieldBytes(u.state) /\ u.n \in Nat
  BY DEF IInv, TypeOK, Fields
<1>2. CASE u.timeout < TimeoutTicks /\ u' = [u EXCEPT !.timeout = u.timeout + 1]
  <2>1. u' \in Fields
    BY <1>1, <1>2 DEF Fields
  <2>2. u'.n < FieldBytes(u'.state)
    BY <1>1, <1>2 DEF Fields, FieldBytes
  <2>3. StrobesBrief' /\ QuietWhileWaiting' /\ CpuHeldWhileProgramming' /\ SessionHoldsBus'
    BY <1>1, <1>2 DEF Fields, IInv, StrobesBrief, QuietWhileWaiting, Waiting, Timed,
              CpuHeldWhileProgramming, SessionHoldsBus, Programming
  <2>4. QED
    BY <2>1, <2>2, <2>3 DEF IInv, TypeOK, Fields
<1>3. CASE u' = [u EXCEPT !.uart_tx = Tout, !.n = 0, !.state = "TIMEOUT"]
  <2>1. "TIMEOUT" \in States
    BY DEF States, Waiting, Timed, Programming
  <2>2. u' \in Fields
    BY <1>1, <1>3, <2>1 DEF Fields
  <2>3. u'.n < FieldBytes(u'.state)
    BY <1>1, <1>3 DEF Fields, FieldBytes
  <2>4. StrobesBrief' /\ QuietWhileWaiting' /\ CpuHeldWhileProgramming' /\ SessionHoldsBus'
    BY <1>1, <1>3 DEF Fields, IInv, StrobesBrief, QuietWhileWaiting, Waiting, Timed,
              CpuHeldWhileProgramming, SessionHoldsBus, Programming
  <2>5. QED
    BY <2>2, <2>3, <2>4 DEF IInv, TypeOK, Fields
<1>4. CASE u' = [u EXCEPT !.timeout = u.timeout]
  <2>1. u' = u
    BY <1>1, <1>4 DEF Fields
  <2>2. QED
    BY <2>1, Unchanged
<1>5. QED
  BY <1>1, <1>2, <1>3, <1>4 DEF GiveUp, Fields

\* A byte of the program's length.
LEMMA ImprLengthInductive ==
  ASSUME IInv, NEW rx \in Rx, ImprLength(rx)
  PROVE  IInv'
<1> USE ByteFacts, TimeoutAssumption, WordBytesAssumption, AddrBytesAssumption
<1>1. u \in Fields /\ u.n < FieldBytes(u.state) /\ u.n \in Nat
  BY DEF IInv, TypeOK, Fields
<1> DEFINE new == [u.data_length EXCEPT ![u.n] = rx.data]
           n2 == NextByte(2)
           s2 == After(2, "IMPR_WAIT_DATA")
<1>2. /\ u.state = "IMPR_WAIT_LEN" /\ rx.data \in Byte
      /\ u' = [u EXCEPT !.data_length = new, !.timeout = 0, !.n = n2, !.state = s2]
  BY DEF ImprLength, Rx
<1>3. new \in [0 .. 1 -> Byte]
  <2>1. u.data_length \in [0 .. 1 -> Byte]
    BY <1>1 DEF Fields
  <2>2. QED
    BY <1>2, <2>1
<1>4. \/ n2 = 0 /\ s2 = "IMPR_WAIT_DATA"
      \/ n2 = u.n + 1 /\ u.n + 1 < 2 /\ s2 = "IMPR_WAIT_LEN"
  BY <1>1, <1>2 DEF NextByte, After, FieldBytes
<1>5. n2 \in Nat /\ s2 \in States
  BY <1>1, <1>4 DEF States, Waiting, Timed
<1> HIDE DEF new, n2, s2
<1>6. u' \in Fields
  BY <1>1, <1>2, <1>3, <1>5 DEF Fields
<1>7. u'.n < FieldBytes(u'.state)
  BY <1>1, <1>2, <1>4 DEF Fields, FieldBytes
<1>8. StrobesBrief' /\ QuietWhileWaiting' /\ CpuHeldWhileProgramming' /\ SessionHoldsBus'
  BY <1>1, <1>2, <1>4 DEF Fields, IInv, StrobesBrief, QuietWhileWaiting, Waiting, Timed,
            CpuHeldWhileProgramming, SessionHoldsBus, Programming
<1>9. QED
  BY <1>6, <1>7, <1>8 DEF IInv, TypeOK, Fields

\* A byte of the address to write.
LEMMA BuswAddrInductive ==
  ASSUME IInv, NEW rx \in Rx, BuswAddr(rx)
  PROVE  IInv'
<1> USE ByteFacts, TimeoutAssumption, WordBytesAssumption, AddrBytesAssumption
<1>1. u \in Fields /\ u.n < FieldBytes(u.state) /\ u.n \in Nat
  BY DEF IInv, TypeOK, Fields
<1> DEFINE new == [u.bus_addr EXCEPT ![u.n] = rx.data]
           n2 == NextByte(AddrBytes)
           s2 == After(AddrBytes, "BUSW_WAIT_DATA")
<1>2. /\ u.state = "BUSW_WAIT_ADDR" /\ rx.data \in Byte
      /\ u' = [u EXCEPT !.bus_addr = new, !.timeout = 0, !.n = n2, !.state = s2]
  BY DEF BuswAddr, Rx
<1>3. new \in Address
  <2>1. u.bus_addr \in Address
    BY <1>1 DEF Fields
  <2>2. QED
    BY <1>2, <2>1 DEF Address
<1>4. \/ n2 = 0 /\ s2 = "BUSW_WAIT_DATA"
      \/ n2 = u.n + 1 /\ u.n + 1 < AddrBytes /\ s2 = "BUSW_WAIT_ADDR"
  BY <1>1, <1>2 DEF NextByte, After, FieldBytes
<1>5. n2 \in Nat /\ s2 \in States
  BY <1>1, <1>4 DEF States, Waiting, Timed
<1> HIDE DEF new, n2, s2
<1>6. u' \in Fields
  BY <1>1, <1>2, <1>3, <1>5 DEF Fields
<1>7. u'.n < FieldBytes(u'.state)
  BY <1>1, <1>2, <1>4 DEF Fields, FieldBytes
<1>8. StrobesBrief' /\ QuietWhileWaiting' /\ CpuHeldWhileProgramming' /\ SessionHoldsBus'
  BY <1>1, <1>2, <1>4 DEF Fields, IInv, StrobesBrief, QuietWhileWaiting, Waiting, Timed,
            CpuHeldWhileProgramming, SessionHoldsBus, Programming
<1>9. QED
  BY <1>6, <1>7, <1>8 DEF IInv, TypeOK, Fields

\* A byte of the word to write.
LEMMA BuswDataInductive ==
  ASSUME IInv, NEW rx \in Rx, BuswData(rx)
  PROVE  IInv'
<1> USE ByteFacts, TimeoutAssumption, WordBytesAssumption, AddrBytesAssumption
<1>1. u \in Fields /\ u.n < FieldBytes(u.state) /\ u.n \in Nat
  BY DEF IInv, TypeOK, Fields
<1> DEFINE new == [u.bus_wdat EXCEPT ![u.n] = rx.data]
           n2 == NextByte(WordBytes)
           s2 == After(WordBytes, "BUSW_WAIT_WE")
<1>2. /\ u.state = "BUSW_WAIT_DATA" /\ rx.data \in Byte
      /\ u' = [u EXCEPT !.bus_wdat = new, !.timeout = 0, !.n = n2, !.state = s2]
  BY DEF BuswData, Rx
<1>3. new \in Word
  <2>1. u.bus_wdat \in Word
    BY <1>1 DEF Fields
  <2>2. QED
    BY <1>2, <2>1 DEF Word
<1>4. \/ n2 = 0 /\ s2 = "BUSW_WAIT_WE"
      \/ n2 = u.n + 1 /\ u.n + 1 < WordBytes /\ s2 = "BUSW_WAIT_DATA"
  BY <1>1, <1>2 DEF NextByte, After, FieldBytes
<1>5. n2 \in Nat /\ s2 \in States
  BY <1>1, <1>4 DEF States, Waiting, Timed
<1> HIDE DEF new, n2, s2
<1>6. u' \in Fields
  BY <1>1, <1>2, <1>3, <1>5 DEF Fields
<1>7. u'.n < FieldBytes(u'.state)
  BY <1>1, <1>2, <1>4 DEF Fields, FieldBytes
<1>8. StrobesBrief' /\ QuietWhileWaiting' /\ CpuHeldWhileProgramming' /\ SessionHoldsBus'
  BY <1>1, <1>2, <1>4 DEF Fields, IInv, StrobesBrief, QuietWhileWaiting, Waiting, Timed,
            CpuHeldWhileProgramming, SessionHoldsBus, Programming
<1>9. QED
  BY <1>6, <1>7, <1>8 DEF IInv, TypeOK, Fields

\* The lanes to write: the write strobe goes up.
LEMMA BuswWeInductive ==
  ASSUME IInv, NEW rx \in Rx, BuswWe(rx)
  PROVE  IInv'
<1> USE ByteFacts, TimeoutAssumption, WordBytesAssumption, AddrBytesAssumption
<1>1. u \in Fields /\ u.n < FieldBytes(u.state) /\ u.n \in Nat
  BY DEF IInv, TypeOK, Fields
<1> DEFINE lanes == Lanes(rx.data)
<1>2. /\ u.state = "BUSW_WAIT_WE"
      /\ u' = [u EXCEPT !.bus_we = lanes, !.timeout = 0, !.state = "BUSW_CHECKSUM"]
  BY DEF BuswWe
<1>3. lanes \in SUBSET Lane
  BY LanesType
<1> HIDE DEF lanes
<1>4. "BUSW_CHECKSUM" \in States
  BY DEF States, Waiting, Timed, Programming
<1>5. u' \in Fields
  BY <1>1, <1>2, <1>3, <1>4 DEF Fields
<1>6. u'.n < FieldBytes(u'.state)
  BY <1>1, <1>2, <1>3 DEF Fields, FieldBytes
<1>7. StrobesBrief' /\ QuietWhileWaiting' /\ CpuHeldWhileProgramming' /\ SessionHoldsBus'
  BY <1>1, <1>2, <1>3 DEF Fields, IInv, StrobesBrief, QuietWhileWaiting, Waiting, Timed,
            CpuHeldWhileProgramming, SessionHoldsBus, Programming
<1>8. QED
  BY <1>5, <1>6, <1>7 DEF IInv, TypeOK, Fields

\* A byte of the address to read.
LEMMA BusrAddrInductive ==
  ASSUME IInv, NEW rx \in Rx, BusrAddr(rx)
  PROVE  IInv'
<1> USE ByteFacts, TimeoutAssumption, WordBytesAssumption, AddrBytesAssumption
<1>1. u \in Fields /\ u.n < FieldBytes(u.state) /\ u.n \in Nat
  BY DEF IInv, TypeOK, Fields
<1> DEFINE new == [u.bus_addr EXCEPT ![u.n] = rx.data]
           n2 == NextByte(AddrBytes)
           s2 == After(AddrBytes, "BUSR_WAIT_DATA")
<1>2. /\ u.state = "BUSR_WAIT_ADDR" /\ rx.data \in Byte
      /\ u' = [u EXCEPT !.bus_addr = new, !.timeout = 0, !.n = n2, !.state = s2]
  BY DEF BusrAddr, Rx
<1>3. new \in Address
  <2>1. u.bus_addr \in Address
    BY <1>1 DEF Fields
  <2>2. QED
    BY <1>2, <2>1 DEF Address
<1>4. \/ n2 = 0 /\ s2 = "BUSR_WAIT_DATA"
      \/ n2 = u.n + 1 /\ u.n + 1 < AddrBytes /\ s2 = "BUSR_WAIT_ADDR"
  BY <1>1, <1>2 DEF NextByte, After, FieldBytes
<1>5. n2 \in Nat /\ s2 \in States
  BY <1>1, <1>4 DEF States, Waiting, Timed
<1> HIDE DEF new, n2, s2
<1>6. u' \in Fields
  BY <1>1, <1>2, <1>3, <1>5 DEF Fields
<1>7. u'.n < FieldBytes(u'.state)
  BY <1>1, <1>2, <1>4 DEF Fields, FieldBytes
<1>8. StrobesBrief' /\ QuietWhileWaiting' /\ CpuHeldWhileProgramming' /\ SessionHoldsBus'
  BY <1>1, <1>2, <1>4 DEF Fields, IInv, StrobesBrief, QuietWhileWaiting, Waiting, Timed,
            CpuHeldWhileProgramming, SessionHoldsBus, Programming
<1>9. QED
  BY <1>6, <1>7, <1>8 DEF IInv, TypeOK, Fields

\* A byte of the instruction's address.
LEMMA ImwrAddrInductive ==
  ASSUME IInv, NEW rx \in Rx, ImwrAddr(rx)
  PROVE  IInv'
<1> USE ByteFacts, TimeoutAssumption, WordBytesAssumption, AddrBytesAssumption
<1>1. u \in Fields /\ u.n < FieldBytes(u.state) /\ u.n \in Nat
  BY DEF IInv, TypeOK, Fields
<1> DEFINE new == WithByte(u.ram_addr, u.n, rx.data)
           n2 == NextByte(2)
           s2 == After(2, "IMWR_WAIT_DATA")
<1>2. /\ u.state = "IMWR_WAIT_ADDR" /\ rx.data \in Byte
      /\ u' = [u EXCEPT !.ram_addr = new, !.timeout = 0, !.n = n2, !.state = s2]
  BY DEF ImwrAddr, Rx
<1>3. new \in Nat
  <2>1. u.n \in 0 .. 1
    BY <1>1, <1>2 DEF FieldBytes
  <2>2. u.ram_addr \in Nat
    BY <1>1 DEF Fields
  <2>3. QED
    BY <1>2, <2>1, <2>2, WithByteType
<1>4. \/ n2 = 0 /\ s2 = "IMWR_WAIT_DATA"
      \/ n2 = u.n + 1 /\ u.n + 1 < 2 /\ s2 = "IMWR_WAIT_ADDR"
  BY <1>1, <1>2 DEF NextByte, After, FieldBytes
<1>5. n2 \in Nat /\ s2 \in States
  BY <1>1, <1>4 DEF States, Waiting, Timed
<1> HIDE DEF new, n2, s2
<1>6. u' \in Fields
  BY <1>1, <1>2, <1>3, <1>5 DEF Fields
<1>7. u'.n < FieldBytes(u'.state)
  BY <1>1, <1>2, <1>4 DEF Fields, FieldBytes
<1>8. StrobesBrief' /\ QuietWhileWaiting' /\ CpuHeldWhileProgramming' /\ SessionHoldsBus'
  BY <1>1, <1>2, <1>4 DEF Fields, IInv, StrobesBrief, QuietWhileWaiting, Waiting, Timed,
            CpuHeldWhileProgramming, SessionHoldsBus, Programming
<1>9. QED
  BY <1>6, <1>7, <1>8 DEF IInv, TypeOK, Fields

\* A byte of the instruction; the last one raises the write strobe.
LEMMA ImwrDataInductive ==
  ASSUME IInv, NEW rx \in Rx, ImwrData(rx)
  PROVE  IInv'
<1> USE ByteFacts, TimeoutAssumption, WordBytesAssumption, AddrBytesAssumption
<1>1. u \in Fields /\ u.n < FieldBytes(u.state) /\ u.n \in Nat
  BY DEF IInv, TypeOK, Fields
<1> DEFINE new == [u.ram_data EXCEPT ![u.n] = rx.data]
           n2 == NextByte(WordBytes)
           s2 == After(WordBytes, "IMWR_CHECKSUM")
           wen == u.n = WordBytes - 1
<1>2. u.state = "IMWR_WAIT_DATA" /\ rx.data \in Byte
  BY DEF ImwrData, Rx
<1>3. u' = [u EXCEPT !.ram_data = new, !.timeout = 0, !.n = n2, !.ram_wen = wen,
                     !.state = s2]
  BY DEF ImwrData
<1>4. new \in Word
  <2>1. u.ram_data \in Word
    BY <1>1 DEF Fields
  <2>2. QED
    BY <1>2, <2>1 DEF Word
<1>5. \/ n2 = 0 /\ s2 = "IMWR_CHECKSUM"
      \/ n2 = u.n + 1 /\ u.n + 1 < WordBytes /\ s2 = "IMWR_WAIT_DATA" /\ ~wen
  BY <1>1, <1>2 DEF NextByte, After, FieldBytes
<1>6. n2 \in Nat /\ s2 \in States /\ wen \in BOOLEAN
  BY <1>1, <1>5 DEF States, Waiting, Timed
<1> HIDE DEF new, n2, s2, wen
<1>7. u' \in Fields
  BY <1>1, <1>3, <1>4, <1>6 DEF Fields
<1>8. u'.n < FieldBytes(u'.state)
  <2>1. u'.n = n2 /\ u'.state = s2
    BY <1>1, <1>3 DEF Fields
  <2>2. QED
    BY <1>1, <1>5, <2>1 DEF FieldBytes
<1>9. StrobesBrief' /\ QuietWhileWaiting' /\ CpuHeldWhileProgramming' /\ SessionHoldsBus'
  BY <1>1, <1>2, <1>3, <1>5, <1>6 DEF Fields, IInv, StrobesBrief, QuietWhileWaiting,
            Waiting, Timed, CpuHeldWhileProgramming, SessionHoldsBus, Programming
<1>10. QED
  BY <1>7, <1>8, <1>9 DEF IInv, TypeOK, Fields

\* A byte of the program; the last one of a word raises the write strobe.
LEMMA ImprDataInductive ==
  ASSUME IInv, NEW rx \in Rx, ImprData(rx)
  PROVE  IInv'
<1> USE ByteFacts, TimeoutAssumption, WordBytesAssumption, AddrBytesAssumption
<1>1. u \in Fields /\ u.n < FieldBytes(u.state) /\ u.n \in Nat
  BY DEF IInv, TypeOK, Fields
<1> DEFINE new == [u.ram_data EXCEPT ![u.n] = rx.data]
<1>2. u.state = "IMPR_WAIT_DATA" /\ rx.data \in Byte
  BY DEF ImprData, Rx
<1>3. new \in Word
  <2>1. u.ram_data \in Word
    BY <1>1 DEF Fields
  <2>2. QED
    BY <1>2, <2>1 DEF Word
<1>4. CASE u.n = WordBytes - 1
  <2>1. u' = [u EXCEPT !.ram_data = new, !.n = 0,
                       !.data_cnt = (u.data_cnt + 1) % Counts,
                       !.ram_addr = u.data_cnt * WordBytes, !.ram_wen = TRUE,
                       !.uart_tx = Ack, !.state = "IMPR_CHECKSUM"]
    BY <1>1, <1>4 DEF ImprData, NextByte, Fields
  <2>2. (u.data_cnt + 1) % Counts \in 0 .. Counts - 1
    BY <1>1 DEF Fields
  <2>3. u.data_cnt * WordBytes \in Nat
    BY <1>1 DEF Fields
  <2> HIDE DEF new
  <2>4. "IMPR_CHECKSUM" \in States
    BY DEF States, Waiting, Timed, Programming
  <2>5. u' \in Fields
    BY <1>1, <1>2, <2>1, <1>3, <2>2, <2>3, <2>4 DEF Fields
  <2>6. u'.n < FieldBytes(u'.state)
    BY <1>1, <1>2, <2>1, <1>3, <2>2, <2>3 DEF Fields, FieldBytes
  <2>7. StrobesBrief' /\ QuietWhileWaiting' /\ CpuHeldWhileProgramming' /\ SessionHoldsBus'
    BY <1>1, <1>2, <2>1, <1>3, <2>2, <2>3 DEF Fields, IInv, StrobesBrief, QuietWhileWaiting, Waiting, Timed,
              CpuHeldWhileProgramming, SessionHoldsBus, Programming
  <2>8. QED
    BY <2>5, <2>6, <2>7 DEF IInv, TypeOK, Fields
<1>5. CASE u.n < WordBytes - 1
  <2>1. NextByte(WordBytes) = u.n + 1 /\ u.n + 1 \in Nat
    BY <1>1, <1>5 DEF NextByte
  <2>2. u' = [[u EXCEPT !.ram_data = new, !.n = NextByte(WordBytes)] EXCEPT !.timeout = 0]
    BY <1>5 DEF ImprData
  <2> HIDE DEF new
  <2>3. u' = [u EXCEPT !.ram_data = new, !.n = u.n + 1, !.timeout = 0]
    BY <1>1, <2>1, <2>2 DEF Fields
  <2>4. u' \in Fields
    BY <1>1, <1>3, <2>1, <2>3 DEF Fields
  <2>5. u'.n < FieldBytes(u'.state)
    BY <1>1, <1>2, <1>5, <2>3 DEF Fields, FieldBytes
  <2>6. StrobesBrief' /\ QuietWhileWaiting' /\ CpuHeldWhileProgramming' /\ SessionHoldsBus'
    BY <1>1, <1>2, <1>5, <2>3 DEF Fields, IInv, StrobesBrief, QuietWhileWaiting, Waiting, Timed,
              CpuHeldWhileProgramming, SessionHoldsBus, Programming
  <2>7. QED
    BY <2>4, <2>5, <2>6 DEF IInv, TypeOK, Fields
<1>6. QED
  BY <1>1, <1>2, <1>4, <1>5 DEF FieldBytes

\* The bus answers, or not yet.
LEMMA BusrWaitInductive ==
  ASSUME IInv, NEW bus \in Answers, NEW tick \in BOOLEAN, BusrWait(bus, tick)
  PROVE  IInv'
<1> USE ByteFacts, TimeoutAssumption, WordBytesAssumption, AddrBytesAssumption
<1>1. u \in Fields /\ u.n < FieldBytes(u.state) /\ u.n \in Nat
  BY DEF IInv, TypeOK, Fields
<1>2. CASE bus.rdy
  <2>1. /\ u.state = "BUSR_WAIT_DATA" /\ bus.rdat \in Word /\ 0 \in 0 .. TimeoutTicks
        /\ u' = [u EXCEPT !.bus_rdat = bus.rdat, !.timeout = 0, !.state = "BUSR_DATA"]
    BY <1>2 DEF BusrWait, Answers
  <2>2. "BUSR_DATA" \in States
    BY DEF States, Waiting, Timed, Programming
  <2>3. u' \in Fields
    BY <1>1, <2>1, <2>2 DEF Fields
  <2>4. u'.n < FieldBytes(u'.state)
    BY <1>1, <2>1 DEF Fields, FieldBytes
  <2>5. StrobesBrief' /\ QuietWhileWaiting' /\ CpuHeldWhileProgramming' /\ SessionHoldsBus'
    BY <1>1, <2>1 DEF Fields, IInv, StrobesBrief, QuietWhileWaiting, Waiting, Timed,
              CpuHeldWhileProgramming, SessionHoldsBus, Programming
  <2>6. QED
    BY <2>3, <2>4, <2>5 DEF IInv, TypeOK, Fields
<1>3. CASE ~bus.rdy
  BY <1>3, GivesUp DEF BusrWait
<1>4. QED
  BY <1>2, <1>3

\* A byte of the word read goes out.
LEMMA BusrDataInductive ==
  ASSUME IInv, BusrData
  PROVE  IInv'
<1> USE ByteFacts, TimeoutAssumption, WordBytesAssumption, AddrBytesAssumption
<1>1. u \in Fields /\ u.n < FieldBytes(u.state) /\ u.n \in Nat
  BY DEF IInv, TypeOK, Fields
<1>2. /\ u.state = "BUSR_DATA"
      /\ u' = [u EXCEPT !.uart_tx = Data(u.bus_rdat[u.n]), !.n = NextByte(WordBytes),
                        !.state = After(WordBytes, "BUSR_CHECKSUM")]
  BY DEF BusrData
<1>3. u.bus_rdat[u.n] \in Byte
  BY <1>1, <1>2 DEF Fields, FieldBytes, Word, Lane
<1> DEFINE reply == Data(u.bus_rdat[u.n])
           n2 == NextByte(WordBytes)
           s2 == After(WordBytes, "BUSR_CHECKSUM")
<1>4. reply \in Reply
  BY <1>3
<1>5. \/ n2 = 0 /\ s2 = "BUSR_CHECKSUM"
      \/ n2 = u.n + 1 /\ u.n + 1 < WordBytes /\ s2 = "BUSR_DATA"
  BY <1>1, <1>2 DEF NextByte, After, FieldBytes
<1>6. n2 \in Nat /\ s2 \in States
  BY <1>1, <1>5 DEF States, Waiting, Timed
<1>7. u' = [u EXCEPT !.uart_tx = reply, !.n = n2, !.state = s2]
  BY <1>2
<1> HIDE DEF reply, n2, s2
<1>8. u' \in Fields
  BY <1>1, <1>2, <1>7, <1>4, <1>5, <1>6 DEF Fields
<1>9. u'.n < FieldBytes(u'.state)
  <2>1. u'.n = n2 /\ u'.state = s2
    BY <1>1, <1>7 DEF Fields
  <2>2. QED
    BY <1>1, <1>5, <2>1 DEF FieldBytes
<1>10. StrobesBrief' /\ QuietWhileWaiting' /\ CpuHeldWhileProgramming' /\ SessionHoldsBus'
  BY <1>1, <1>2, <1>7, <1>4, <1>5, <1>6 DEF Fields, IInv, StrobesBrief, QuietWhileWaiting, Waiting, Timed,
            CpuHeldWhileProgramming, SessionHoldsBus, Programming
<1>11. QED
  BY <1>8, <1>9, <1>10 DEF IInv, TypeOK, Fields

\* The write strobes come down and the last reply goes out.
LEMMA ChecksumInductive ==
  ASSUME IInv, ImprChecksum \/ BuswChecksum \/ BusrChecksum \/ ImwrChecksum
  PROVE  IInv'
<1> USE ByteFacts, TimeoutAssumption, WordBytesAssumption, AddrBytesAssumption
<1>1. u \in Fields /\ u.n < FieldBytes(u.state) /\ u.n \in Nat
  BY DEF IInv, TypeOK, Fields
<1>2. CASE /\ u.state = "IMPR_CHECKSUM"
          /\ u' = [u EXCEPT !.ram_wen = FALSE, !.uart_tx = Checksum, !.state = "IMPR_DONE"]
  <2>1. "IMPR_DONE" \in States
    BY DEF States, Waiting, Timed, Programming
  <2>2. u' \in Fields
    BY <1>1, <1>2, <2>1 DEF Fields
  <2>3. u'.n < FieldBytes(u'.state)
    BY <1>1, <1>2 DEF Fields, FieldBytes
  <2>4. StrobesBrief' /\ QuietWhileWaiting' /\ CpuHeldWhileProgramming' /\ SessionHoldsBus'
    BY <1>1, <1>2 DEF Fields, IInv, StrobesBrief, QuietWhileWaiting, Waiting, Timed,
              CpuHeldWhileProgramming, SessionHoldsBus, Programming
  <2>5. QED
    BY <2>2, <2>3, <2>4 DEF IInv, TypeOK, Fields
<1>3. CASE /\ u.state = "IMPR_CHECKSUM"
          /\ u' = [u EXCEPT !.ram_wen = FALSE, !.uart_tx = None, !.timeout = 0,
                            !.state = "IMPR_WAIT_DATA"]
  <2>1. "IMPR_WAIT_DATA" \in States
    BY DEF States, Waiting, Timed, Programming
  <2>2. u' \in Fields
    BY <1>1, <1>3, <2>1 DEF Fields
  <2>3. u'.n < FieldBytes(u'.state)
    BY <1>1, <1>3 DEF Fields, FieldBytes
  <2>4. StrobesBrief' /\ QuietWhileWaiting' /\ CpuHeldWhileProgramming' /\ SessionHoldsBus'
    BY <1>1, <1>3 DEF Fields, IInv, StrobesBrief, QuietWhileWaiting, Waiting, Timed,
              CpuHeldWhileProgramming, SessionHoldsBus, Programming
  <2>5. QED
    BY <2>2, <2>3, <2>4 DEF IInv, TypeOK, Fields
<1>4. CASE /\ u.state = "BUSW_CHECKSUM"
          /\ u' = [u EXCEPT !.bus_we = {}, !.uart_tx = Checksum, !.state = "BUSW_DONE"]
  <2>1. "BUSW_DONE" \in States
    BY DEF States, Waiting, Timed, Programming
  <2>2. u' \in Fields
    BY <1>1, <1>4, <2>1 DEF Fields
  <2>3. u'.n < FieldBytes(u'.state)
    BY <1>1, <1>4 DEF Fields, FieldBytes
  <2>4. StrobesBrief' /\ QuietWhileWaiting' /\ CpuHeldWhileProgramming' /\ SessionHoldsBus'
    BY <1>1, <1>4 DEF Fields, IInv, StrobesBrief, QuietWhileWaiting, Waiting, Timed,
              CpuHeldWhileProgramming, SessionHoldsBus, Programming
  <2>5. QED
    BY <2>2, <2>3, <2>4 DEF IInv, TypeOK, Fields
<1>5. CASE /\ u.state = "BUSR_CHECKSUM"
          /\ u' = [u EXCEPT !.uart_tx = Checksum, !.state = "BUSR_DONE"]
  <2>1. "BUSR_DONE" \in States
    BY DEF States, Waiting, Timed, Programming
  <2>2. u' \in Fields
    BY <1>1, <1>5, <2>1 DEF Fields
  <2>3. u'.n < FieldBytes(u'.state)
    BY <1>1, <1>5 DEF Fields, FieldBytes
  <2>4. StrobesBrief' /\ QuietWhileWaiting' /\ CpuHeldWhileProgramming' /\ SessionHoldsBus'
    BY <1>1, <1>5 DEF Fields, IInv, StrobesBrief, QuietWhileWaiting, Waiting, Timed,
              CpuHeldWhileProgramming, SessionHoldsBus, Programming
  <2>5. QED
    BY <2>2, <2>3, <2>4 DEF IInv, TypeOK, Fields
<1>6. CASE /\ u.state = "IMWR_CHECKSUM"
          /\ u' = [u EXCEPT !.ram_wen = FALSE, !.uart_tx = Checksum, !.state = "IMWR_DONE"]
  <2>1. "IMWR_DONE" \in States
    BY DEF States, Waiting, Timed, Programming
  <2>2. u' \in Fields
    BY <1>1, <1>6, <2>1 DEF Fields
  <2>3. u'.n < FieldBytes(u'.state)
    BY <1>1, <1>6 DEF Fields, FieldBytes
  <2>4. StrobesBrief' /\ QuietWhileWaiting' /\ CpuHeldWhileProgramming' /\ SessionHoldsBus'
    BY <1>1, <1>6 DEF Fields, IInv, StrobesBrief, QuietWhileWaiting, Waiting, Timed,
              CpuHeldWhileProgramming, SessionHoldsBus, Programming
  <2>5. QED
    BY <2>2, <2>3, <2>4 DEF IInv, TypeOK, Fields
<1>7. QED
  BY <1>2, <1>3, <1>4, <1>5, <1>6
  DEF ImprChecksum, BuswChecksum, BusrChecksum, ImwrChecksum

\* The command is over.
LEMMA EndInductive ==
  ASSUME IInv, Done \/ Abandon
  PROVE  IInv'
<1> USE ByteFacts, TimeoutAssumption, WordBytesAssumption, AddrBytesAssumption
<1>1. u \in Fields /\ u.n < FieldBytes(u.state) /\ u.n \in Nat
  BY DEF IInv, TypeOK, Fields
<1>2. CASE /\ u.state = "IMPR_DONE"
          /\ u' = [u EXCEPT !.cpu_rstn = TRUE, !.uart_tx = None, !.state = "WAIT_CMD"]
  <2>1. "WAIT_CMD" \in States
    BY DEF States, Waiting, Timed, Programming
  <2>2. u' \in Fields
    BY <1>1, <1>2, <2>1 DEF Fields
  <2>3. u'.n < FieldBytes(u'.state)
    BY <1>1, <1>2 DEF Fields, FieldBytes
  <2>4. StrobesBrief' /\ QuietWhileWaiting' /\ CpuHeldWhileProgramming' /\ SessionHoldsBus'
    BY <1>1, <1>2 DEF Fields, IInv, StrobesBrief, QuietWhileWaiting, Waiting, Timed,
              CpuHeldWhileProgramming, SessionHoldsBus, Programming
  <2>5. QED
    BY <2>2, <2>3, <2>4 DEF IInv, TypeOK, Fields
<1>3. CASE /\ u.state \in {"BUSW_DONE", "BUSR_DONE", "IMWR_DONE"}
          /\ u' = [u EXCEPT !.uart_tx = None, !.state = "WAIT_CMD"]
  <2>1. "WAIT_CMD" \in States
    BY DEF States, Waiting, Timed, Programming
  <2>2. u' \in Fields
    BY <1>1, <1>3, <2>1 DEF Fields
  <2>3. u'.n < FieldBytes(u'.state)
    BY <1>1, <1>3 DEF Fields, FieldBytes
  <2>4. StrobesBrief' /\ QuietWhileWaiting' /\ CpuHeldWhileProgramming' /\ SessionHoldsBus'
    BY <1>1, <1>3 DEF Fields, IInv, StrobesBrief, QuietWhileWaiting, Waiting, Timed,
              CpuHeldWhileProgramming, SessionHoldsBus, Programming
  <2>5. QED
    BY <2>2, <2>3, <2>4 DEF IInv, TypeOK, Fields
<1>4. CASE /\ u.state = "TIMEOUT"
          /\ u' = [u EXCEPT !.uart_tx = None, !.ram_wen = FALSE, !.cpu_rstn = TRUE,
                            !.bus_vld = FALSE, !.state = "WAIT_SOP"]
  <2>1. "WAIT_SOP" \in States
    BY DEF States, Waiting, Timed, Programming
  <2>2. u' \in Fields
    BY <1>1, <1>4, <2>1 DEF Fields
  <2>3. u'.n < FieldBytes(u'.state)
    BY <1>1, <1>4 DEF Fields, FieldBytes
  <2>4. StrobesBrief' /\ QuietWhileWaiting' /\ CpuHeldWhileProgramming' /\ SessionHoldsBus'
    BY <1>1, <1>4 DEF Fields, IInv, StrobesBrief, QuietWhileWaiting, Waiting, Timed,
              CpuHeldWhileProgramming, SessionHoldsBus, Programming
  <2>5. QED
    BY <2>2, <2>3, <2>4 DEF IInv, TypeOK, Fields
<1>5. QED
  BY <1>2, <1>3, <1>4 DEF Done, Abandon

LEMMA ClockInductive ==
  ASSUME IInv, NEW rx \in Rx, NEW bus \in Answers, NEW tick \in BOOLEAN,
         HostClock(rx, tick, bus)
  PROVE  IInv'
<1>1. CASE WaitSop(rx) \/ WaitCmd(rx)
  BY <1>1, OpenClose
<1>2. CASE NoByte(rx, tick)
  BY <1>2, GivesUp DEF NoByte
<1>3. CASE ImprLength(rx) \/ ImprData(rx)
  BY <1>3, ImprLengthInductive, ImprDataInductive
<1>4. CASE BuswAddr(rx) \/ BuswData(rx) \/ BuswWe(rx)
  BY <1>4, BuswAddrInductive, BuswDataInductive, BuswWeInductive
<1>5. CASE BusrAddr(rx) \/ BusrWait(bus, tick) \/ BusrData
  BY <1>5, BusrAddrInductive, BusrWaitInductive, BusrDataInductive
<1>6. CASE ImwrAddr(rx) \/ ImwrData(rx)
  BY <1>6, ImwrAddrInductive, ImwrDataInductive
<1>7. CASE ImprChecksum \/ BuswChecksum \/ BusrChecksum \/ ImwrChecksum
  BY <1>7, ChecksumInductive
<1>8. CASE Done \/ Abandon
  BY <1>8, EndInductive
<1>9. QED
  BY <1>1, <1>2, <1>3, <1>4, <1>5, <1>6, <1>7, <1>8 DEF HostClock

LEMMA StepInductive == IInv /\ [Next]_vars => IInv'
<1> SUFFICES ASSUME IInv, [Next]_vars
             PROVE  IInv'
  OBVIOUS
<1>1. CASE Next
  BY <1>1, ClockInductive, InputTypes DEF Next, Clock
<1>2. CASE UNCHANGED vars
  BY <1>2, Unchanged DEF vars
<1>3. QED
  BY <1>1, <1>2

LEMMA SpecInductive == Spec => []IInv
  BY InitInductive, StepInductive, PTL DEF Spec

\* The read of a bus word begins with the last byte of its address.
LEMMA ReadBegins ==
  ASSUME IInv, NEW rx, NEW tick, NEW bus, HostClock(rx, tick, bus), u'.state = "BUSR_WAIT_DATA"
  PROVE  \/ u'.bus_addr = u.bus_addr
         \/ \E b : u'.bus_addr = [u.bus_addr EXCEPT ![TopByte] = b]
<1> USE DEF Fields
<1>1. u \in Fields
  BY DEF IInv, TypeOK
<1>2. CASE u.state = "BUSR_WAIT_DATA"
  BY <1>1, <1>2 DEF HostClock, WaitSop, WaitCmd, NoByte, ImprLength, ImprData, ImprChecksum,
       BuswAddr, BuswData, BuswWe, BuswChecksum, BusrAddr, BusrWait, BusrData, BusrChecksum,
       ImwrAddr, ImwrData, ImwrChecksum, Done, Abandon, GiveUp, Timed
<1>3. CASE u.state = "BUSR_WAIT_ADDR"
  <2>1. NoByte(rx, tick) \/ BusrAddr(rx)
    BY <1>1, <1>3 DEF HostClock, WaitSop, WaitCmd, NoByte, ImprLength, ImprData, ImprChecksum,
         BuswAddr, BuswData, BuswWe, BuswChecksum, BusrAddr, BusrWait, BusrData, BusrChecksum,
         ImwrAddr, ImwrData, ImwrChecksum, Done, Abandon, Timed
  <2>2. CASE NoByte(rx, tick)
    BY <1>1, <1>3, <2>2 DEF NoByte, GiveUp
  <2>3. CASE BusrAddr(rx)
    <3>1. u' = [u EXCEPT !.bus_addr[u.n] = rx.data, !.timeout = 0,
                    !.n = NextByte(AddrBytes), !.state = After(AddrBytes, "BUSR_WAIT_DATA")]
      BY <2>3 DEF BusrAddr
    <3>2. u.n = AddrBytes - 1
      BY <1>1, <1>3, <3>1 DEF After
    <3>3. u'.bus_addr = [u.bus_addr EXCEPT ![TopByte] = rx.data]
      BY <1>1, <3>1, <3>2 DEF TopByte
    <3>4. QED
      BY <3>3
  <2>4. QED
    BY <2>1, <2>2, <2>3
<1>4. CASE u.state \notin {"BUSR_WAIT_DATA", "BUSR_WAIT_ADDR"}
  <2>1. CASE WaitSop(rx) \/ WaitCmd(rx)
    BY <1>1, <1>4, <2>1 DEF WaitSop, WaitCmd, Begin
  <2>2. CASE NoByte(rx, tick)
    BY <1>1, <1>4, <2>2 DEF NoByte, GiveUp, Timed
  <2>3. CASE ImprLength(rx) \/ ImprData(rx) \/ ImprChecksum
    BY <1>1, <1>4, <2>3 DEF ImprLength, ImprData, ImprChecksum, After
  <2>4. CASE BuswAddr(rx) \/ BuswData(rx) \/ BuswWe(rx) \/ BuswChecksum
    BY <1>1, <1>4, <2>4 DEF BuswAddr, BuswData, BuswWe, BuswChecksum, After
  <2>5. CASE BusrAddr(rx) \/ BusrWait(bus, tick) \/ BusrData \/ BusrChecksum
    BY <1>1, <1>4, <2>5 DEF BusrAddr, BusrWait, BusrData, BusrChecksum, After
  <2>6. CASE ImwrAddr(rx) \/ ImwrData(rx) \/ ImwrChecksum
    BY <1>1, <1>4, <2>6 DEF ImwrAddr, ImwrData, ImwrChecksum, After
  <2>7. CASE Done \/ Abandon
    BY <1>1, <1>4, <2>7 DEF Done, Abandon
  <2>8. QED
    BY <2>1, <2>2, <2>3, <2>4, <2>5, <2>6, <2>7 DEF HostClock
<1>5. QED
  BY <1>2, <1>3, <1>4

(* No register of the host-command machine leaves its type; in particular  *)
(* no byte is stored outside its word, and the timer stops at its limit.   *)
THEOREM TypeCorrect == Spec => []TypeOK
<1>1. IInv => TypeOK
  BY DEF IInv
<1>2. QED
  BY <1>1, SpecInductive, PTL

(* No write strobe and no reply is up while the machine waits.             *)
THEOREM QuietIsKept == Spec => []QuietWhileWaiting
<1>1. IInv => QuietWhileWaiting
  BY DEF IInv
<1>2. QED
  BY <1>1, SpecInductive, PTL

(* The CPU is held in reset for the whole of a programming command and is  *)
(* never left there.                                                       *)
THEOREM CpuResetIsBalanced == Spec => []CpuHeldWhileProgramming
<1>1. IInv => CpuHeldWhileProgramming
  BY DEF IInv
<1>2. QED
  BY <1>1, SpecInductive, PTL

(* The bus is requested during a session and at no other time.             *)
THEOREM SessionIsBusRequest == Spec => []SessionHoldsBus
<1>1. IInv => SessionHoldsBus
  BY DEF IInv
<1>2. QED
  BY <1>1, SpecInductive, PTL
-----------------------------------------------------------------------------
(* What the histories hold in each state.  The bytes sent so far fill the  *)
(* fields of the command one after the other; the writes and the replies   *)
(* of the strobes that are up have still to be recorded.                   *)

Strobe ==
  ({"IMEM"} \X Nat \X Word \X SUBSET Lane) \cup ({"BUS"} \X Address \X Word \X SUBSET Lane)

HistoryTypes == sent \in Seq(Byte) /\ writes \in Seq(Strobe) /\ replies \in Seq(Reply)

Bare == writes = << >> /\ replies = << >>

\* The first count bytes of a field are those that begin after 'before' bytes of s.
Held(s, field, before, count) == \A i \in 0 .. count - 1 : field[i] = s[before + 1 + i]

AtCommand == sent = << >> /\ Bare

LengthHeld == Len(sent) >= 2 /\ Held(sent, u.data_length, 0, 2)

\* k words of the program, each written to its place and acknowledged.
Loaded(k) ==
  /\ Len(writes) = k /\ Len(replies) = k
  /\ \A j \in 1 .. k :
       writes[j] = <<"IMEM", j - 1, WordAt(3 + (j - 1) * WordBytes), Lane>>
  /\ \A j \in 1 .. k : replies[j] = Ack

AtImprLen ==
  Bare /\ Len(sent) = u.n /\ Held(sent, u.data_length, 0, u.n) /\ u.data_cnt = 0

AtImprData ==
  LET k == Len(writes)
  IN  /\ LengthHeld /\ Loaded(k) /\ k < ProgramLength /\ u.data_cnt = k
      /\ Len(sent) = 2 + k * WordBytes + u.n
      /\ Held(sent, u.ram_data, 2 + k * WordBytes, u.n)

AtImprChecksum ==
  LET k == Len(writes)
  IN  /\ LengthHeld /\ Loaded(k) /\ k < ProgramLength /\ u.data_cnt = (k + 1) % Counts
      /\ Len(sent) = 2 + (k + 1) * WordBytes
      /\ u.ram_wen /\ u.ram_addr = k * WordBytes
      /\ Held(sent, u.ram_data, 2 + k * WordBytes, WordBytes)
      /\ u.uart_tx = Ack

AtImprDone == Loaded(ProgramLength) /\ u.uart_tx = Checksum

AtBuswAddr == Bare /\ Len(sent) = u.n /\ Held(sent, u.bus_addr, 0, u.n)

AtBuswData ==
  /\ Bare /\ Len(sent) = AddrBytes + u.n
  /\ Held(sent, u.bus_addr, 0, AddrBytes) /\ Held(sent, u.bus_wdat, AddrBytes, u.n)

BusWordHeld == Held(sent, u.bus_addr, 0, AddrBytes) /\ Held(sent, u.bus_wdat, AddrBytes, WordBytes)

AtBuswWe == Bare /\ Len(sent) = AddrBytes + WordBytes /\ BusWordHeld

AtBuswChecksum ==
  /\ Bare /\ Len(sent) = AddrBytes + WordBytes + 1 /\ BusWordHeld
  /\ u.bus_we = Lanes(sent[AddrBytes + WordBytes + 1])
  /\ u.uart_tx = None

AtBuswDone ==
  LET lanes == Lanes(sent[AddrBytes + WordBytes + 1])
  IN  /\ BusWordHeld
      /\ writes = IF lanes = {} THEN << >> ELSE <<<<"BUS", u.bus_addr, u.bus_wdat, lanes>>>>
      /\ replies = << >> /\ u.uart_tx = Checksum

\* k bytes of the word read have been put into the FIFO.
ReadSent(k) ==
  /\ writes = << >> /\ Len(replies) = k
  /\ \A j \in 1 .. k : replies[j] = Data(u.bus_rdat[j - 1])

\* The last of k bytes is on its way into the FIFO.
ReadSending(k) ==
  IF k = 0 THEN ReadSent(0) /\ u.uart_tx = None
           ELSE ReadSent(k - 1) /\ u.uart_tx = Data(u.bus_rdat[k - 1])

AtBusrDone == ReadSent(WordBytes) /\ u.uart_tx = Checksum

AtImwrAddr ==
  /\ Bare /\ Len(sent) = u.n
  /\ u.n = 1 => u.ram_addr % ByteRadix = sent[1]

InstructionAddress == Len(sent) >= 2 /\ u.ram_addr % Counts = SentNumber

AtImwrData ==
  /\ Bare /\ Len(sent) = 2 + u.n
  /\ InstructionAddress /\ Held(sent, u.ram_data, 2, u.n)

AtImwrChecksum ==
  /\ Bare /\ Len(sent) = 2 + WordBytes
  /\ InstructionAddress /\ Held(sent, u.ram_data, 2, WordBytes)
  /\ u.ram_wen /\ u.uart_tx = None

AtImwrDone ==
  /\ InstructionAddress /\ Held(sent, u.ram_data, 2, WordBytes)
  /\ writes = <<<<"IMEM", u.ram_addr \div WordBytes, u.ram_data, Lane>>>>
  /\ replies = << >> /\ u.uart_tx = Checksum

AtTimeout ==
  /\ Len(replies) = Len(writes) /\ \A j \in 1 .. Len(writes) : replies[j] = Ack
  /\ u.uart_tx = Tout

ImprInv ==
  /\ u.state = "IMPR_WAIT_LEN" => AtImprLen
  /\ u.state = "IMPR_WAIT_DATA" => AtImprData
  /\ u.state = "IMPR_CHECKSUM" => AtImprChecksum
  /\ u.state = "IMPR_DONE" => AtImprDone

BuswInv ==
  /\ u.state = "BUSW_WAIT_ADDR" => AtBuswAddr
  /\ u.state = "BUSW_WAIT_DATA" => AtBuswData
  /\ u.state = "BUSW_WAIT_WE" => AtBuswWe
  /\ u.state = "BUSW_CHECKSUM" => AtBuswChecksum
  /\ u.state = "BUSW_DONE" => AtBuswDone

BusrInv ==
  /\ u.state \in {"BUSR_WAIT_ADDR", "BUSR_WAIT_DATA"} => Bare
  /\ u.state = "BUSR_DATA" => ReadSending(u.n)
  /\ u.state = "BUSR_CHECKSUM" => ReadSending(WordBytes)
  /\ u.state = "BUSR_DONE" => AtBusrDone

ImwrInv ==
  /\ u.state = "IMWR_WAIT_ADDR" => AtImwrAddr
  /\ u.state = "IMWR_WAIT_DATA" => AtImwrData
  /\ u.state = "IMWR_CHECKSUM" => AtImwrChecksum
  /\ u.state = "IMWR_DONE" => AtImwrDone

HInv ==
  /\ HistoryTypes
  /\ u.state \in {"WAIT_SOP", "WAIT_CMD"} => AtCommand
  /\ ImprInv /\ BuswInv /\ BusrInv /\ ImwrInv
  /\ u.state = "TIMEOUT" => AtTimeout
-----------------------------------------------------------------------------
LEMMA HistoryRecorded ==
  ASSUME IInv, HInv, NEW rx \in Rx, Histories(rx), u'.state \notin {"WAIT_SOP", "WAIT_CMD"}
  PROVE  /\ sent' = IF rx.valid /\ u.state \in Timed THEN Append(sent, rx.data) ELSE sent
         /\ replies' = IF u.uart_tx = None THEN replies ELSE Append(replies, u.uart_tx)
         /\ ~u.ram_wen /\ u.bus_we = {} => writes' = writes
         /\ u.ram_wen =>
              writes' = Append(writes, <<"IMEM", u.ram_addr \div WordBytes, u.ram_data, Lane>>)
         /\ ~u.ram_wen /\ u.bus_we # {} =>
              writes' = Append(writes, <<"BUS", u.bus_addr, u.bus_wdat, u.bus_we>>)
<1>1. /\ sent' = IF rx.valid /\ u.state \in Timed THEN Append(sent, rx.data) ELSE sent
      /\ writes' = writes \o Strobes(u)
      /\ replies' = IF u.uart_tx = None THEN replies ELSE Append(replies, u.uart_tx)
  BY DEF Histories
<1>2. writes \in Seq(Strobe)
  BY DEF HInv, HistoryTypes
<1>3. writes \o << >> = writes
  BY <1>2, ConcatEmptySeq
<1>4. \A e : writes \o <<e>> = Append(writes, e)
  BY <1>2
<1>5. QED
  BY <1>1, <1>3, <1>4 DEF Strobes

LEMMA StrobeType ==
  ASSUME IInv
  PROVE  /\ <<"IMEM", u.ram_addr \div WordBytes, u.ram_data, Lane>> \in Strobe
         /\ <<"BUS", u.bus_addr, u.bus_wdat, u.bus_we>> \in Strobe
         /\ u.uart_tx \in Reply
<1>1. u \in Fields
  BY DEF IInv, TypeOK, Fields
<1>2. u.ram_addr \div WordBytes \in Nat
  BY <1>1, WordBytesAssumption DEF Fields
<1>3. u.ram_data \in Word /\ u.bus_addr \in Address /\ u.bus_wdat \in Word /\ u.bus_we \in SUBSET Lane
      /\ u.uart_tx \in Reply
  BY <1>1 DEF Fields
<1>4. QED
  BY <1>2, <1>3 DEF Strobe

LEMMA TypesKept ==
  ASSUME IInv, HInv, NEW rx \in Rx, Histories(rx)
  PROVE  HistoryTypes'
<1>1. sent \in Seq(Byte) /\ writes \in Seq(Strobe) /\ replies \in Seq(Reply)
  BY DEF HInv, HistoryTypes
<1>2. CASE u'.state \in {"WAIT_SOP", "WAIT_CMD"}
  BY <1>2 DEF Histories, HistoryTypes
<1>3. CASE u'.state \notin {"WAIT_SOP", "WAIT_CMD"}
  <2>1. rx.data \in Byte
    BY DEF Rx
  <2>2. sent' \in Seq(Byte)
    <3>1. sent' = sent \/ \E b \in Byte : sent' = Append(sent, b)
      BY <1>3, <2>1, HistoryRecorded, Zenon
    <3>2. ASSUME NEW b \in Byte, sent' = Append(sent, b)
          PROVE  sent' \in Seq(Byte)
      BY <1>1, <3>2, AppendProperties, Zenon
    <3>3. QED
      BY <1>1, <3>1, <3>2, Zenon
  <2>3. replies' \in Seq(Reply)
    <3>1. replies' = replies \/ \E e \in Reply : replies' = Append(replies, e)
      BY <1>3, HistoryRecorded, StrobeType, Zenon
    <3>2. ASSUME NEW e \in Reply, replies' = Append(replies, e)
          PROVE  replies' \in Seq(Reply)
      BY <1>1, <3>2, AppendProperties, Zenon
    <3>3. QED
      BY <1>1, <3>1, <3>2, Zenon
  <2>4. writes' \in Seq(Strobe)
    <3>1. writes' = writes \/ \E e \in Strobe : writes' = Append(writes, e)
      BY <1>3, HistoryRecorded, StrobeType, Zenon
    <3>2. ASSUME NEW e \in Strobe, writes' = Append(writes, e)
          PROVE  writes' \in Seq(Strobe)
      BY <1>1, <3>2, AppendProperties, Zenon
    <3>3. QED
      BY <1>1, <3>1, <3>2, Zenon
  <2>5. QED
    BY <2>2, <2>3, <2>4 DEF HistoryTypes
<1>4. QED
  BY <1>2, <1>3

\* Bytes that have been taken stay where they are.
LEMMA BytesStay ==
  ASSUME HInv, NEW b \in Byte, sent' = Append(sent, b)
  PROVE  /\ Len(sent) \in Nat /\ Len(sent') = Len(sent) + 1
         /\ \A i \in 1 .. Len(sent) : sent'[i] = sent[i]
         /\ sent'[Len(sent) + 1] = b
BY DEF HInv, HistoryTypes

LEMMA FieldFilled ==
  ASSUME NEW s \in Seq(Byte), NEW b \in Byte, NEW t, t = Append(s, b),
         NEW len \in Nat, NEW n \in 0 .. len - 1, NEW f \in [0 .. len - 1 -> Byte],
         NEW g, g = [f EXCEPT ![n] = b],
         NEW before \in Nat, Len(s) = before + n, Held(s, f, before, n)
  PROVE  Held(t, g, before, n + 1)
<1>1. ASSUME NEW i \in 0 .. n
      PROVE  g[i] = t[before + 1 + i]
  <2>1. CASE i = n
    BY <2>1
  <2>2. CASE i < n
    <3>1. i \in 0 .. n - 1 /\ before + 1 + i \in 1 .. Len(s)
      BY <2>2
    <3>2. f[i] = s[before + 1 + i]
      BY <3>1 DEF Held
    <3>3. t[before + 1 + i] = s[before + 1 + i] /\ g[i] = f[i]
      BY <2>2, <3>1
    <3>4. QED
      BY <3>2, <3>3
  <2>3. QED
    BY <2>1, <2>2
<1>2. n + 1 - 1 = n
  OBVIOUS
<1>3. QED
  BY <1>1, <1>2 DEF Held

LEMMA FieldStays ==
  ASSUME NEW s \in Seq(Byte), NEW b \in Byte, NEW t, t = Append(s, b),
         NEW f, NEW before \in Nat, NEW n \in Nat, Len(s) >= before + n,
         Held(s, f, before, n)
  PROVE  Held(t, f, before, n)
<1> SUFFICES ASSUME NEW i \in 0 .. n - 1
             PROVE  f[i] = t[before + 1 + i]
  BY DEF Held
<1>1. before + 1 + i \in 1 .. Len(s)
  OBVIOUS
<1>2. f[i] = s[before + 1 + i]
  BY DEF Held
<1>3. QED
  BY <1>1, <1>2
-----------------------------------------------------------------------------
LEMMA HistoryInit == Init => HInv
<1> SUFFICES ASSUME Init
             PROVE  HInv
  OBVIOUS
<1>1. u.state = "WAIT_SOP" /\ sent = << >> /\ writes = << >> /\ replies = << >>
  BY DEF Init, Reset
<1>2. HistoryTypes /\ AtCommand
  BY <1>1 DEF HistoryTypes, AtCommand, Bare
<1>3. QED
  BY <1>1, <1>2 DEF HInv, ImprInv, BuswInv, BusrInv, ImwrInv

\* The histories are empty between commands.
LEMMA BetweenCommands ==
  ASSUME IInv, HInv, NEW rx \in Rx, Histories(rx), u'.state \in {"WAIT_SOP", "WAIT_CMD"}
  PROVE  HInv'
<1>1. HistoryTypes'
  BY TypesKept
<1>2. AtCommand'
  BY DEF Histories, AtCommand, Bare
<1>3. QED
  BY <1>1, <1>2 DEF HInv, ImprInv, BuswInv, BusrInv, ImwrInv

\* What HInv says does not depend on the timer.
LEMMA TimerApart ==
  ASSUME IInv, HInv, NEW t, u' = [u EXCEPT !.timeout = t],
         UNCHANGED <<sent, writes, replies>>
  PROVE  HInv'
<1>1. /\ u'.state = u.state /\ u'.n = u.n /\ u'.data_length = u.data_length
      /\ u'.data_cnt = u.data_cnt /\ u'.ram_wen = u.ram_wen /\ u'.ram_addr = u.ram_addr
      /\ u'.ram_data = u.ram_data /\ u'.bus_we = u.bus_we /\ u'.bus_addr = u.bus_addr
      /\ u'.bus_rdat = u.bus_rdat /\ u'.bus_wdat = u.bus_wdat /\ u'.uart_tx = u.uart_tx
  BY DEF IInv, TypeOK
<1>2. HistoryTypes' /\ (u'.state \in {"WAIT_SOP", "WAIT_CMD"} => AtCommand')
  BY <1>1 DEF HInv, HistoryTypes, AtCommand, Bare
<1>3. ImprInv'
  BY <1>1 DEF HInv, ImprInv, AtImprLen, AtImprData, AtImprChecksum, AtImprDone, Bare,
              LengthHeld, Held, Loaded, ProgramLength, SentNumber, WordAt
<1>4. BuswInv'
  BY <1>1 DEF HInv, BuswInv, AtBuswAddr, AtBuswData, AtBuswWe, AtBuswChecksum, AtBuswDone,
              Bare, BusWordHeld, Held
<1>5. BusrInv'
  BY <1>1 DEF HInv, BusrInv, AtBusrDone, Bare, ReadSending, ReadSent
<1>6. ImwrInv'
  BY <1>1 DEF HInv, ImwrInv, AtImwrAddr, AtImwrData, AtImwrChecksum, AtImwrDone, Bare,
              InstructionAddress, Held, SentNumber
<1>7. u'.state = "TIMEOUT" => AtTimeout'
  BY <1>1 DEF HInv, AtTimeout
<1>8. QED
  BY <1>2, <1>3, <1>4, <1>5, <1>6, <1>7 DEF HInv

LEMMA HistoryUnchanged ==
  ASSUME IInv, HInv, UNCHANGED vars
  PROVE  HInv'
<1>1. u' = [u EXCEPT !.timeout = u.timeout]
  BY DEF vars, IInv, TypeOK
<1>2. QED
  BY <1>1, TimerApart DEF vars

\* While it waits, a clock without a byte records nothing.
LEMMA NothingRecorded ==
  ASSUME IInv, HInv, NEW rx \in Rx, Histories(rx), ~rx.valid \/ u.state \notin Timed,
         u.state \in Waiting, u'.state \notin {"WAIT_SOP", "WAIT_CMD"}
  PROVE  UNCHANGED <<sent, writes, replies>>
<1>1. ~u.ram_wen /\ u.bus_we = {} /\ u.uart_tx = None
  BY DEF IInv, QuietWhileWaiting
<1>2. QED
  BY <1>1, HistoryRecorded

LEMMA GiveUpHistory ==
  ASSUME IInv, HInv, NEW rx \in Rx, Histories(rx), ~rx.valid \/ u.state \notin Timed,
         NEW tick \in BOOLEAN, GiveUp(tick), u.state \in Timed \cup {"BUSR_WAIT_DATA"}
  PROVE  HInv'
<1> USE DEF Timed
<1>1. u \in Fields
  BY DEF IInv, TypeOK, Fields
<1>2. CASE \E t : u' = [u EXCEPT !.timeout = t]
  <2>1. PICK t : u' = [u EXCEPT !.timeout = t]
    BY <1>2
  <2>2. u'.state = u.state
    BY <1>1, <2>1 DEF Fields
  <2>3. UNCHANGED <<sent, writes, replies>>
    BY <2>2, NothingRecorded DEF Waiting
  <2>4. QED
    BY <2>1, <2>3, TimerApart
<1>3. CASE u' = [u EXCEPT !.uart_tx = Tout, !.n = 0, !.state = "TIMEOUT"]
  <2>1. u'.state = "TIMEOUT" /\ u'.uart_tx = Tout
    BY <1>1, <1>3 DEF Fields
  <2>2. UNCHANGED <<sent, writes, replies>>
    BY <2>1, NothingRecorded DEF Waiting
  <2>3. Bare => Len(replies) = Len(writes) /\ \A j \in 1 .. Len(writes) : replies[j] = Ack
    BY DEF Bare
  <2>4. Len(replies) = Len(writes) /\ \A j \in 1 .. Len(writes) : replies[j] = Ack
    <3>1. CASE u.state = "IMPR_WAIT_DATA"
      BY <3>1 DEF HInv, ImprInv, AtImprData, Loaded
    <3>2. CASE u.state # "IMPR_WAIT_DATA"
      BY <2>3, <3>2 DEF HInv, ImprInv, AtImprLen, BuswInv, AtBuswAddr, AtBuswData, AtBuswWe,
                        BusrInv, ImwrInv, AtImwrAddr, AtImwrData
    <3>3. QED
      BY <3>1, <3>2
  <2>5. AtTimeout'
    BY <2>1, <2>2, <2>4 DEF AtTimeout
  <2>6. HistoryTypes'
    BY TypesKept
  <2>7. QED
    BY <2>1, <2>5, <2>6 DEF HInv, ImprInv, BuswInv, BusrInv, ImwrInv
<1>4. QED
  BY <1>1, <1>2, <1>3 DEF GiveUp, Fields
-----------------------------------------------------------------------------
\* The machine leaves the state it waits in with the next byte.
LEMMA ByteTaken ==
  ASSUME IInv, HInv, NEW rx \in Rx, Histories(rx), rx.valid, u.state \in Timed,
         u'.state \notin {"WAIT_SOP", "WAIT_CMD"}
  PROVE  /\ rx.data \in Byte /\ sent' = Append(sent, rx.data)
         /\ UNCHANGED <<writes, replies>>
<1>1. ~u.ram_wen /\ u.bus_we = {} /\ u.uart_tx = None
  BY DEF IInv, QuietWhileWaiting, Waiting
<1>2. QED
  BY <1>1, HistoryRecorded DEF Rx

LEMMA BeginHistory ==
  ASSUME IInv, HInv, NEW rx \in Rx, Histories(rx), WaitSop(rx) \/ WaitCmd(rx)
  PROVE  HInv'
<1>1. u \in Fields /\ u.n < FieldBytes(u.state)
  BY DEF IInv, TypeOK, Fields
<1>2. u.state \in {"WAIT_SOP", "WAIT_CMD"} /\ u.n = 0
  BY <1>1 DEF WaitSop, WaitCmd, FieldBytes, Fields
<1>3. CASE u'.state \in {"WAIT_SOP", "WAIT_CMD"}
  BY <1>3, BetweenCommands
<1>4. CASE u'.state \notin {"WAIT_SOP", "WAIT_CMD"}
  <2>1. sent' = << >> /\ Bare'
    <3>1. UNCHANGED <<sent, writes, replies>>
      BY <1>2, <1>4, NothingRecorded DEF Waiting, Timed
    <3>2. QED
      BY <1>2, <3>1 DEF HInv, AtCommand, Bare
  <2>2. /\ u'.state \in {"IMPR_WAIT_LEN", "BUSW_WAIT_ADDR", "BUSR_WAIT_ADDR", "IMWR_WAIT_ADDR"}
        /\ u'.n = 0
        /\ u'.state = "IMPR_WAIT_LEN" => u'.data_cnt = 0
    <3>1. PICK cmd : u' = Begin(cmd)
      BY <1>1, <1>2, <1>4 DEF WaitSop, WaitCmd, Fields
    <3>2. cmd \in {"IMPR", "BUSW", "BUSR", "IMWR"}
      BY <1>1, <1>2, <1>4, <3>1 DEF Begin, Fields
    <3>3. QED
      BY <1>1, <1>2, <3>1, <3>2 DEF Begin, Fields
  <2>3. \A f : Held(sent', f, 0, 0)
    BY DEF Held
  <2>4. Len(sent') = 0
    BY <2>1
  <2>5. /\ u'.state = "IMPR_WAIT_LEN" => AtImprLen'
        /\ u'.state = "BUSW_WAIT_ADDR" => AtBuswAddr'
        /\ u'.state = "IMWR_WAIT_ADDR" => AtImwrAddr'
    BY <2>1, <2>2, <2>4 DEF AtImprLen, AtBuswAddr, AtImwrAddr, Held
  <2>6. HistoryTypes'
    BY TypesKept
  <2>7. QED
    BY <2>1, <2>2, <2>5, <2>6 DEF HInv, ImprInv, BuswInv, BusrInv, ImwrInv
<1>5. QED
  BY <1>3, <1>4
-----------------------------------------------------------------------------
(* Programming.                                                            *)

LEMMA TwoBytes ==
  ASSUME NEW x \in Byte, NEW y \in Byte
  PROVE  x + y * ByteRadix \in 0 .. Counts - 1
<1> USE ByteRadixAssumption DEF Byte
<1>1. PICK d \in Nat : d = ByteRadix - 1 - y
  OBVIOUS
<1>2. y = ByteRadix - 1 - d
  BY <1>1
<1>3. d * ByteRadix \in Nat /\ y * ByteRadix \in Nat
  OBVIOUS
<1>4. y * ByteRadix = ByteRadix * ByteRadix - ByteRadix - d * ByteRadix
  BY <1>1, <1>2
<1>5. QED
  BY <1>3, <1>4 DEF Counts

LEMMA NumberType ==
  ASSUME NEW s \in Seq(Byte), Len(s) >= 2
  PROVE  s[1] + s[2] * ByteRadix \in 0 .. Counts - 1
<1>1. 1 \in 1 .. Len(s) /\ 2 \in 1 .. Len(s)
  BY LenProperties
<1>2. s[1] \in Byte /\ s[2] \in Byte
  BY <1>1, ElementOfSeq
<1>3. QED
  BY <1>2, TwoBytes

LEMMA LengthType ==
  /\ HistoryTypes /\ Len(sent) >= 2 =>
       SentNumber \in 0 .. Counts - 1 /\ ProgramLength \in 1 .. Counts
  /\ HistoryTypes' /\ Len(sent') >= 2 =>
       SentNumber' \in 0 .. Counts - 1 /\ ProgramLength' \in 1 .. Counts
BY NumberType, ByteFacts DEF HistoryTypes, SentNumber, ProgramLength

\* Words do not overlap.
LEMMA Multiples ==
  ASSUME NEW j \in Nat, NEW k \in Nat
  PROVE  /\ j * WordBytes \in Nat /\ (k + 1) * WordBytes = k * WordBytes + WordBytes
         /\ j < k => j * WordBytes + WordBytes <= k * WordBytes
         /\ (k * WordBytes) \div WordBytes = k
<1> USE WordBytesAssumption
<1>1. j * WordBytes \in Nat /\ (k + 1) * WordBytes = k * WordBytes + WordBytes
  OBVIOUS
<1>2. ASSUME j < k
      PROVE  j * WordBytes + WordBytes <= k * WordBytes
  <2>1. PICK d \in Nat : k = j + 1 + d
    <3>1. k - j - 1 \in Nat /\ k = j + 1 + (k - j - 1)
      BY <1>2
    <3>2. QED
      BY <3>1
  <2>2. k * WordBytes = j * WordBytes + WordBytes + d * WordBytes
    BY <2>1
  <2>3. d * WordBytes \in Nat /\ j * WordBytes \in Nat
    OBVIOUS
  <2>4. QED
    BY <2>2, <2>3
<1>3. (k * WordBytes) \div WordBytes = k
  OBVIOUS
<1>4. QED
  BY <1>1, <1>2, <1>3

\* A new byte changes neither the length of the program nor its words so far.
LEMMA LengthStays ==
  ASSUME HInv, NEW b \in Byte, sent' = Append(sent, b) \/ sent' = sent, Len(sent) >= 2
  PROVE  SentNumber' = SentNumber /\ ProgramLength' = ProgramLength /\ Len(sent') >= 2
<1>1. Len(sent) \in Nat
  BY DEF HInv, HistoryTypes
<1>2. sent'[1] = sent[1] /\ sent'[2] = sent[2] /\ Len(sent') >= 2
  BY <1>1, BytesStay
<1>3. SentNumber' = SentNumber
  BY <1>2 DEF SentNumber
<1>4. QED
  BY <1>2, <1>3 DEF ProgramLength

LEMMA WordStays ==
  ASSUME HInv, NEW b \in Byte, sent' = Append(sent, b) \/ sent' = sent,
         NEW at \in Nat, at >= 1, at + WordBytes - 1 <= Len(sent)
  PROVE  WordAt(at)' = WordAt(at)
<1>1. Len(sent) \in Nat
  BY DEF HInv, HistoryTypes
<1>2. \A i \in Lane : at + i \in 1 .. Len(sent)
  BY <1>1, WordBytesAssumption DEF Lane
<1>3. \A i \in Lane : sent'[at + i] = sent[at + i]
  BY <1>2, BytesStay
<1>4. QED
  BY <1>3 DEF WordAt

LEMMA LoadedStays ==
  ASSUME HInv, NEW b \in Byte, sent' = Append(sent, b) \/ sent' = sent,
         UNCHANGED <<writes, replies>>,
         NEW k \in Nat, Len(sent) >= 2 + k * WordBytes, Loaded(k)
  PROVE  Loaded(k)'
<1>1. Len(sent) \in Nat
  BY DEF HInv, HistoryTypes
<1>2. ASSUME NEW j \in 1 .. k
      PROVE  WordAt(3 + (j - 1) * WordBytes)' = WordAt(3 + (j - 1) * WordBytes)
  <2>1. j - 1 \in Nat /\ j - 1 < k
    OBVIOUS
  <2>2. (j - 1) * WordBytes \in Nat /\ (j - 1) * WordBytes + WordBytes <= k * WordBytes
    BY <2>1, Multiples
  <2>3. k * WordBytes \in Nat
    BY Multiples
  <2> DEFINE at == 3 + (j - 1) * WordBytes
  <2>4. at \in Nat /\ at >= 1 /\ at + WordBytes - 1 <= Len(sent)
    BY <1>1, <2>2, <2>3, WordBytesAssumption
  <2> HIDE DEF at
  <2>5. WordAt(at)' = WordAt(at)
    BY <2>4, WordStays
  <2>6. QED
    BY <2>5 DEF at
<1>3. QED
  BY <1>2 DEF Loaded

LEMMA ImprLengthHistory ==
  ASSUME IInv, IInv', HInv, NEW rx \in Rx, Histories(rx), ImprLength(rx)
  PROVE  HInv'
<1>1. /\ u \in Fields /\ u.state = "IMPR_WAIT_LEN" /\ u.n \in 0 .. 1 /\ rx.valid
  BY DEF ImprLength, IInv, TypeOK, Fields, FieldBytes
<1>2. /\ u' = [u EXCEPT !.data_length[u.n] = rx.data, !.timeout = 0,
                        !.n = NextByte(2), !.state = After(2, "IMPR_WAIT_DATA")]
  BY DEF ImprLength
<1>3. /\ u'.state = IF u.n = 1 THEN "IMPR_WAIT_DATA" ELSE "IMPR_WAIT_LEN"
      /\ u'.n = IF u.n = 1 THEN 0 ELSE u.n + 1
      /\ u'.data_length = [u.data_length EXCEPT ![u.n] = rx.data]
      /\ u'.data_cnt = u.data_cnt /\ u'.ram_data = u.ram_data
  BY <1>1, <1>2 DEF NextByte, After, Fields
<1>4. rx.data \in Byte /\ sent' = Append(sent, rx.data) /\ UNCHANGED <<writes, replies>>
  BY <1>1, <1>3, ByteTaken DEF Timed
<1>5. Bare /\ Len(sent) = u.n /\ Held(sent, u.data_length, 0, u.n) /\ u.data_cnt = 0
  BY <1>1 DEF HInv, ImprInv, AtImprLen
<1>6. HistoryTypes'
  BY TypesKept
<1>7. Len(sent') = u.n + 1
  BY <1>4, <1>5, BytesStay
<1>8. Held(sent', u'.data_length, 0, u.n + 1)
  <2>1. u.data_length \in [0 .. 2 - 1 -> Byte] /\ u.n \in 0 .. 2 - 1
    BY <1>1 DEF Fields
  <2>2. PICK before \in Nat : before = 0
    OBVIOUS
  <2>3. Len(sent) = before + u.n /\ Held(sent, u.data_length, before, u.n)
    BY <1>5, <2>1, <2>2
  <2>4. Held(sent', u'.data_length, before, u.n + 1)
    BY <1>3, <1>4, <2>1, <2>3, FieldFilled DEF HInv, HistoryTypes
  <2>5. QED
    BY <2>2, <2>4
<1>9. Bare'
  BY <1>4, <1>5 DEF Bare
<1>10. CASE u.n = 0
  <2>1. AtImprLen'
    BY <1>3, <1>5, <1>7, <1>8, <1>9, <1>10 DEF AtImprLen, Held
  <2>2. QED
    BY <1>3, <1>6, <1>10, <2>1 DEF HInv, ImprInv, BuswInv, BusrInv, ImwrInv
<1>11. CASE u.n = 1
  <2>1. Len(sent') = 2 /\ LengthHeld'
    BY <1>7, <1>8, <1>11 DEF LengthHeld, Held
  <2>2. Len(writes') = 0 /\ Len(replies') = 0
    BY <1>9 DEF Bare
  <2>3. Loaded(0)'
    BY <2>2 DEF Loaded
  <2>4. 0 < ProgramLength'
    BY <1>6, <2>1, LengthType
  <2>5. 0 * WordBytes = 0
    BY WordBytesAssumption
  <2>6. Held(sent, u.ram_data, 2 + 0 * WordBytes, u.n)'
    BY <1>3, <1>11 DEF Held
  <2>7. AtImprData'
    BY <1>3, <1>5, <1>11, <2>1, <2>2, <2>3, <2>4, <2>5, <2>6 DEF AtImprData
  <2>8. QED
    BY <1>3, <1>6, <1>11, <2>7 DEF HInv, ImprInv, BuswInv, BusrInv, ImwrInv
<1>12. QED
  BY <1>1, <1>10, <1>11

LEMMA ImprDataHistory ==
  ASSUME IInv, HInv, NEW rx \in Rx, Histories(rx), ImprData(rx)
  PROVE  HInv'
<1> USE WordBytesAssumption
<1>1. /\ u \in Fields /\ u.state = "IMPR_WAIT_DATA" /\ u.n \in 0 .. WordBytes - 1 /\ rx.valid
  BY DEF ImprData, IInv, TypeOK, Fields, FieldBytes
<1>2. /\ u'.state = IF u.n < WordBytes - 1 THEN "IMPR_WAIT_DATA" ELSE "IMPR_CHECKSUM"
      /\ u'.n = IF u.n < WordBytes - 1 THEN u.n + 1 ELSE 0
      /\ u'.data_length = u.data_length
      /\ u'.ram_data = [u.ram_data EXCEPT ![u.n] = rx.data]
      /\ u.n < WordBytes - 1 => u'.data_cnt = u.data_cnt
      /\ ~(u.n < WordBytes - 1) =>
           /\ u'.data_cnt = (u.data_cnt + 1) % Counts /\ u'.ram_addr = u.data_cnt * WordBytes
           /\ u'.ram_wen = TRUE /\ u'.uart_tx = Ack
  BY <1>1 DEF ImprData, NextByte, Fields
<1>3. rx.data \in Byte /\ sent' = Append(sent, rx.data) /\ UNCHANGED <<writes, replies>>
  BY <1>1, <1>2, ByteTaken DEF Timed
<1>4. PICK k \in Nat : k = Len(writes)
  BY DEF HInv, HistoryTypes
<1>5. /\ LengthHeld /\ Loaded(k) /\ k < ProgramLength /\ u.data_cnt = k
      /\ Len(sent) = 2 + k * WordBytes + u.n
      /\ Held(sent, u.ram_data, 2 + k * WordBytes, u.n)
  BY <1>1, <1>4 DEF HInv, ImprInv, AtImprData
<1>6. HistoryTypes'
  BY TypesKept
<1>7. k * WordBytes \in Nat /\ (k + 1) * WordBytes = k * WordBytes + WordBytes
  BY Multiples
<1>8. Len(sent') = 2 + k * WordBytes + u.n + 1
  BY <1>3, <1>5, BytesStay
<1>9. Held(sent', u'.ram_data, 2 + k * WordBytes, u.n + 1)
  <2>1. 2 + k * WordBytes \in Nat
    BY <1>7
  <2>2. u.ram_data \in [0 .. WordBytes - 1 -> Byte]
    BY <1>1 DEF Fields, Word, Lane
  <2>3. QED
    BY <1>1, <1>2, <1>3, <1>5, <2>1, <2>2, FieldFilled DEF HInv, HistoryTypes
<1>10. Len(sent) >= 2 + k * WordBytes /\ Len(sent) >= 2
  BY <1>1, <1>5, <1>7
<1>11. Loaded(k)' /\ k < ProgramLength' /\ k = Len(writes')
  BY <1>3, <1>4, <1>5, <1>10, LoadedStays, LengthStays
<1>12. LengthHeld'
  <2>1. Held(sent, u.data_length, 0, 2) /\ Len(sent) >= 0 + 2
    BY <1>5, <1>10 DEF LengthHeld
  <2>2. Held(sent', u.data_length, 0, 2)
    BY <1>3, <2>1, FieldStays DEF HInv, HistoryTypes
  <2>3. QED
    BY <1>2, <1>3, <1>10, <2>2, LengthStays DEF LengthHeld
<1>13. CASE u.n < WordBytes - 1
  <2>1. Held(sent, u.ram_data, 2 + k * WordBytes, u.n)'
    BY <1>1, <1>2, <1>9, <1>13 DEF Held
  <2>2. Len(sent') = 2 + k * WordBytes + u'.n /\ u'.data_cnt = k
    BY <1>1, <1>2, <1>5, <1>7, <1>8, <1>13
  <2>3. AtImprData'
    BY <1>11, <1>12, <2>1, <2>2 DEF AtImprData
  <2>4. QED
    BY <1>2, <1>6, <1>13, <2>3 DEF HInv, ImprInv, BuswInv, BusrInv, ImwrInv
<1>14. CASE u.n = WordBytes - 1
  <2>1. Held(sent, u.ram_data, 2 + k * WordBytes, WordBytes)'
    BY <1>1, <1>9, <1>14 DEF Held
  <2>2. Len(sent') = 2 + (k + 1) * WordBytes
    BY <1>7, <1>8, <1>14
  <2>3. /\ u'.data_cnt = (k + 1) % Counts /\ u'.ram_addr = k * WordBytes
        /\ u'.ram_wen = TRUE /\ u'.uart_tx = Ack /\ u'.state = "IMPR_CHECKSUM"
    BY <1>1, <1>2, <1>5, <1>14
  <2>4. AtImprChecksum'
    BY <1>11, <1>12, <2>1, <2>2, <2>3 DEF AtImprChecksum
  <2>5. QED
    BY <1>6, <2>3, <2>4 DEF HInv, ImprInv, BuswInv, BusrInv, ImwrInv
<1>15. QED
  BY <1>1, <1>13, <1>14
LEMMA WordHeld ==
  ASSUME NEW w \in Word, NEW before \in Nat, Held(sent, w, before, WordBytes)
  PROVE  w = WordAt(before + 1)
BY DEF Word, WordAt, Held, Lane

\* The sixteen-bit counter has come to the length exactly when all words are written.
LEMMA CountReached ==
  ASSUME NEW c \in Nat, NEW s \in 0 .. c - 1, NEW k \in Nat, k < IF s = 0 THEN c ELSE s
  PROVE  /\ (k + 1) % c = s <=> k + 1 = IF s = 0 THEN c ELSE s
         /\ (k + 1) % c # s => k + 1 < (IF s = 0 THEN c ELSE s) /\ (k + 1) % c = k + 1
<1>1. CASE k + 1 < c
  <2>1. (k + 1) % c = k + 1
    BY <1>1
  <2>2. QED
    BY <1>1, <2>1
<1>2. CASE k + 1 = c
  <2>1. (k + 1) % c = 0
    BY <1>2
  <2>2. QED
    BY <1>2, <2>1
<1>3. QED
  BY <1>1, <1>2

LEMMA ImprChecksumHistory ==
  ASSUME IInv, HInv, NEW rx \in Rx, Histories(rx), ImprChecksum
  PROVE  HInv'
<1> USE WordBytesAssumption
<1>1. u \in Fields /\ u.state = "IMPR_CHECKSUM" /\ u.n = 0
  BY DEF ImprChecksum, IInv, TypeOK, Fields, FieldBytes
<1>2. PICK done \in BOOLEAN : done <=> u.data_cnt = Number(u.data_length)
  OBVIOUS
<1>3. /\ done => u'.state = "IMPR_DONE" /\ u'.uart_tx = Checksum
      /\ ~done => u'.state = "IMPR_WAIT_DATA" /\ u'.n = 0
      /\ u'.data_cnt = u.data_cnt /\ u'.data_length = u.data_length
  BY <1>1, <1>2 DEF ImprChecksum, Fields
<1>4. PICK k \in Nat : k = Len(writes)
  BY DEF HInv, HistoryTypes
<1>5. /\ LengthHeld /\ Loaded(k) /\ k < ProgramLength /\ u.data_cnt = (k + 1) % Counts
      /\ Len(sent) = 2 + (k + 1) * WordBytes
      /\ u.ram_wen /\ u.ram_addr = k * WordBytes
      /\ Held(sent, u.ram_data, 2 + k * WordBytes, WordBytes)
      /\ u.uart_tx = Ack
  BY <1>1, <1>4 DEF HInv, ImprInv, AtImprChecksum
<1>6. sent \in Seq(Byte) /\ writes \in Seq(Strobe) /\ replies \in Seq(Reply) /\ HistoryTypes'
  BY TypesKept DEF HInv, HistoryTypes
<1>7. k * WordBytes \in Nat /\ (k * WordBytes) \div WordBytes = k
  BY Multiples
<1>8. /\ sent' = sent /\ replies' = Append(replies, Ack)
      /\ writes' = Append(writes, <<"IMEM", k, u.ram_data, Lane>>)
  <2>1. u.state \notin Timed /\ Ack # None
    BY <1>1 DEF Timed, Ack, None
  <2>2. u'.state \notin {"WAIT_SOP", "WAIT_CMD"}
    BY <1>3
  <2>3. QED
    BY <1>5, <1>7, <2>1, <2>2, HistoryRecorded
<1>9. u.ram_data = WordAt(3 + k * WordBytes)
  <2> DEFINE before == 2 + k * WordBytes
  <2>1. u.ram_data \in Word /\ before \in Nat /\ before + 1 = 3 + k * WordBytes
    BY <1>1, <1>7 DEF Fields
  <2>2. Held(sent, u.ram_data, before, WordBytes)
    BY <1>5
  <2> HIDE DEF before
  <2>3. u.ram_data = WordAt(before + 1)
    BY <2>1, <2>2, WordHeld
  <2>4. QED
    BY <2>1, <2>3
<1>10. Loaded(k + 1)'
  <2>1. Len(writes') = k + 1 /\ Len(replies') = k + 1
    BY <1>4, <1>5, <1>6, <1>8 DEF Loaded
  <2>2. ASSUME NEW j \in 1 .. k + 1
        PROVE  /\ writes'[j] = <<"IMEM", j - 1, WordAt(3 + (j - 1) * WordBytes)', Lane>>
               /\ replies'[j] = Ack
    <3>1. WordAt(3 + (j - 1) * WordBytes)' = WordAt(3 + (j - 1) * WordBytes)
      BY <1>8 DEF WordAt
    <3>2. CASE j = k + 1
      <4>1. j - 1 = k
        BY <3>2
      <4>2. writes'[j] = <<"IMEM", k, u.ram_data, Lane>> /\ replies'[j] = Ack
        <5>1. Len(writes) = k /\ Len(replies) = k
          BY <1>4, <1>5 DEF Loaded
        <5>2. QED
          BY <1>6, <1>8, <3>2, <5>1
      <4>3. QED
        BY <1>9, <3>1, <4>1, <4>2
    <3>3. CASE j # k + 1
      <4>1. j \in 1 .. k
        BY <3>3
      <4>2. writes'[j] = writes[j] /\ replies'[j] = replies[j]
        BY <1>4, <1>5, <1>6, <1>8, <4>1 DEF Loaded
      <4>3. writes[j] = <<"IMEM", j - 1, WordAt(3 + (j - 1) * WordBytes), Lane>> /\ replies[j] = Ack
        BY <1>5, <4>1 DEF Loaded
      <4>4. QED
        BY <3>1, <4>2, <4>3
    <3>4. QED
      BY <3>2, <3>3
  <2>3. QED
    BY <2>1, <2>2 DEF Loaded
<1>11. LengthHeld' /\ ProgramLength' = ProgramLength
  BY <1>3, <1>5, <1>8 DEF LengthHeld, Held, ProgramLength, SentNumber
<1>12. Number(u.data_length) = SentNumber
  <2>1. u.data_length[0] = sent[1] /\ u.data_length[1] = sent[2]
    BY <1>5 DEF LengthHeld, Held
  <2>2. QED
    BY <2>1 DEF Number, SentNumber
<1>13. /\ done <=> k + 1 = ProgramLength
       /\ ~done => k + 1 < ProgramLength /\ u.data_cnt = k + 1
  <2>1. SentNumber \in 0 .. Counts - 1 /\ Counts \in Nat
    BY <1>5, LengthType, ByteFacts DEF HInv, LengthHeld
  <2>2. ProgramLength = IF SentNumber = 0 THEN Counts ELSE SentNumber
    BY DEF ProgramLength
  <2>8. PICK c \in Nat : c = Counts
    BY <2>1
  <2>3. PICK s \in 0 .. c - 1 : s = SentNumber
    BY <2>1, <2>8
  <2>5. k < IF s = 0 THEN c ELSE s
    BY <1>5, <2>2, <2>3, <2>8
  <2>6. /\ (k + 1) % c = s <=> k + 1 = IF s = 0 THEN c ELSE s
        /\ (k + 1) % c # s => k + 1 < (IF s = 0 THEN c ELSE s) /\ (k + 1) % c = k + 1
    BY <2>5, CountReached
  <2>7. QED
    BY <1>2, <1>5, <1>12, <2>2, <2>3, <2>6, <2>8
<1>14. CASE done
  <2>1. k + 1 = ProgramLength'
    BY <1>11, <1>13, <1>14
  <2>2. Loaded(ProgramLength)'
    BY <1>10, <2>1 DEF Loaded
  <2>3. AtImprDone'
    BY <1>3, <1>14, <2>2 DEF AtImprDone
  <2>4. QED
    BY <1>3, <1>6, <1>14, <2>3 DEF HInv, ImprInv, BuswInv, BusrInv, ImwrInv
<1>15. CASE ~done
  <2>1. Len(writes') = k + 1
    BY <1>4, <1>6, <1>8
  <2>2. k + 1 < ProgramLength' /\ u'.data_cnt = k + 1
    BY <1>3, <1>11, <1>13, <1>15
  <2>3. Len(sent') = 2 + (k + 1) * WordBytes + u'.n
    <3>1. (k + 1) * WordBytes \in Nat
      BY Multiples
    <3>2. QED
      <4>1. PICK w \in Nat : w = (k + 1) * WordBytes
        BY <3>1
      <4>2. Len(sent') = 2 + w /\ u'.n = 0
        BY <1>3, <1>5, <1>8, <1>15, <4>1
      <4>3. QED
        BY <4>1, <4>2
  <2>4. Held(sent, u.ram_data, 2 + (k + 1) * WordBytes, u.n)'
    BY <1>3, <1>15 DEF Held
  <2>5. AtImprData'
    BY <1>10, <1>11, <2>1, <2>2, <2>3, <2>4 DEF AtImprData
  <2>6. QED
    BY <1>3, <1>6, <1>15, <2>5 DEF HInv, ImprInv, BuswInv, BusrInv, ImwrInv
<1>16. QED
  BY <1>2, <1>14, <1>15
-----------------------------------------------------------------------------
(* A bus write.                                                            *)

LEMMA BuswAddrHistory ==
  ASSUME IInv, HInv, NEW rx \in Rx, Histories(rx), BuswAddr(rx)
  PROVE  HInv'
<1> USE AddrBytesAssumption
<1>1. u \in Fields /\ u.state = "BUSW_WAIT_ADDR" /\ u.n \in 0 .. AddrBytes - 1 /\ rx.valid
  BY DEF BuswAddr, IInv, TypeOK, Fields, FieldBytes
<1>2. /\ u'.state = IF u.n = AddrBytes - 1 THEN "BUSW_WAIT_DATA" ELSE "BUSW_WAIT_ADDR"
      /\ u'.n = IF u.n = AddrBytes - 1 THEN 0 ELSE u.n + 1
      /\ u'.bus_addr = [u.bus_addr EXCEPT ![u.n] = rx.data]
  BY <1>1 DEF BuswAddr, NextByte, After, Fields
<1>3. rx.data \in Byte /\ sent' = Append(sent, rx.data) /\ UNCHANGED <<writes, replies>>
  BY <1>1, <1>2, ByteTaken DEF Timed
<1>4. Bare /\ Len(sent) = u.n /\ Held(sent, u.bus_addr, 0, u.n)
  BY <1>1 DEF HInv, BuswInv, AtBuswAddr
<1>5. HistoryTypes' /\ Bare'
  BY <1>3, <1>4, TypesKept DEF Bare
<1>6. Len(sent') = u.n + 1
  BY <1>3, <1>4, BytesStay
<1>7. Held(sent', u'.bus_addr, 0, u.n + 1)
  <2>1. u.bus_addr \in [0 .. AddrBytes - 1 -> Byte]
    BY <1>1 DEF Fields, Address
  <2>2. PICK before \in Nat : before = 0
    OBVIOUS
  <2>3. Len(sent) = before + u.n /\ Held(sent, u.bus_addr, before, u.n)
    BY <1>1, <1>4, <2>2
  <2>4. Held(sent', u'.bus_addr, before, u.n + 1)
    BY <1>1, <1>2, <1>3, <2>1, <2>3, FieldFilled DEF HInv, HistoryTypes
  <2>5. QED
    BY <2>2, <2>4
<1>8. CASE u.n # AddrBytes - 1
  <2>1. u'.n = u.n + 1 /\ u'.n - 1 = u.n
    BY <1>1, <1>2, <1>8
  <2>3. Held(sent, u.bus_addr, 0, u.n)'
    BY <1>7, <2>1 DEF Held
  <2>4. AtBuswAddr'
    BY <1>5, <1>6, <2>1, <2>3 DEF AtBuswAddr
  <2>2. QED
    BY <1>1, <1>2, <1>5, <1>8, <2>4 DEF HInv, ImprInv, BuswInv, BusrInv, ImwrInv
<1>9. CASE u.n = AddrBytes - 1
  <2>1. AtBuswData'
    BY <1>1, <1>2, <1>5, <1>6, <1>7, <1>9 DEF AtBuswData, Held
  <2>2. QED
    BY <1>1, <1>2, <1>5, <1>9, <2>1 DEF HInv, ImprInv, BuswInv, BusrInv, ImwrInv
<1>10. QED
  BY <1>8, <1>9

LEMMA BuswDataHistory ==
  ASSUME IInv, HInv, NEW rx \in Rx, Histories(rx), BuswData(rx)
  PROVE  HInv'
<1> USE AddrBytesAssumption, WordBytesAssumption
<1>1. u \in Fields /\ u.state = "BUSW_WAIT_DATA" /\ u.n \in 0 .. WordBytes - 1 /\ rx.valid
  BY DEF BuswData, IInv, TypeOK, Fields, FieldBytes
<1>2. /\ u'.state = IF u.n = WordBytes - 1 THEN "BUSW_WAIT_WE" ELSE "BUSW_WAIT_DATA"
      /\ u'.n = IF u.n = WordBytes - 1 THEN 0 ELSE u.n + 1
      /\ u'.bus_wdat = [u.bus_wdat EXCEPT ![u.n] = rx.data]
      /\ u'.bus_addr = u.bus_addr
  BY <1>1 DEF BuswData, NextByte, After, Fields
<1>3. rx.data \in Byte /\ sent' = Append(sent, rx.data) /\ UNCHANGED <<writes, replies>>
  BY <1>1, <1>2, ByteTaken DEF Timed
<1>4. /\ Bare /\ Len(sent) = AddrBytes + u.n
      /\ Held(sent, u.bus_addr, 0, AddrBytes) /\ Held(sent, u.bus_wdat, AddrBytes, u.n)
  BY <1>1 DEF HInv, BuswInv, AtBuswData
<1>5. HistoryTypes' /\ Bare'
  BY <1>3, <1>4, TypesKept DEF Bare
<1>6. Len(sent') = AddrBytes + u.n + 1
  BY <1>3, <1>4, BytesStay
<1>7. Held(sent', u'.bus_wdat, AddrBytes, u.n + 1)
  <2>1. u.bus_wdat \in [0 .. WordBytes - 1 -> Byte]
    BY <1>1 DEF Fields, Word, Lane
  <2>2. QED
    BY <1>1, <1>2, <1>3, <1>4, <2>1, FieldFilled DEF HInv, HistoryTypes
<1>8. Held(sent', u'.bus_addr, 0, AddrBytes)
  <2>1. Len(sent) >= 0 + AddrBytes
    BY <1>1, <1>4
  <2>2. QED
    BY <1>2, <1>3, <1>4, <2>1, FieldStays DEF HInv, HistoryTypes
<1>9. CASE u.n # WordBytes - 1
  <2>1. u'.n = u.n + 1 /\ u'.n - 1 = u.n /\ Len(sent') = AddrBytes + u'.n
    <3>1. u'.n = u.n + 1 /\ u.n \in Int
      BY <1>1, <1>2, <1>9
    <3>2. QED
      BY <1>6, <3>1
  <2>3. Held(sent, u.bus_wdat, AddrBytes, u.n)'
    BY <1>7, <2>1 DEF Held
  <2>4. AtBuswData'
    BY <1>5, <1>8, <2>1, <2>3 DEF AtBuswData
  <2>2. QED
    BY <1>1, <1>2, <1>5, <1>9, <2>4 DEF HInv, ImprInv, BuswInv, BusrInv, ImwrInv
<1>10. CASE u.n = WordBytes - 1
  <2>3. Held(sent', u'.bus_wdat, AddrBytes, WordBytes) /\ Len(sent') = AddrBytes + WordBytes
    BY <1>1, <1>6, <1>7, <1>10
  <2>1. AtBuswWe'
    BY <1>5, <1>8, <2>3 DEF AtBuswWe, BusWordHeld
  <2>2. QED
    BY <1>1, <1>2, <1>5, <1>10, <2>1 DEF HInv, ImprInv, BuswInv, BusrInv, ImwrInv
<1>11. QED
  BY <1>9, <1>10

LEMMA BuswWeHistory ==
  ASSUME IInv, HInv, NEW rx \in Rx, Histories(rx), BuswWe(rx)
  PROVE  HInv'
<1> USE AddrBytesAssumption, WordBytesAssumption
<1>1. /\ u \in Fields /\ u.state = "BUSW_WAIT_WE" /\ rx.valid
      /\ u.uart_tx = None
  BY DEF BuswWe, IInv, TypeOK, Fields, QuietWhileWaiting, Waiting, Timed
<1>2. /\ u'.state = "BUSW_CHECKSUM" /\ u'.bus_we = Lanes(rx.data)
      /\ u'.bus_wdat = u.bus_wdat /\ u'.bus_addr = u.bus_addr /\ u'.uart_tx = u.uart_tx
  BY <1>1 DEF BuswWe, Fields
<1>3. rx.data \in Byte /\ sent' = Append(sent, rx.data) /\ UNCHANGED <<writes, replies>>
  BY <1>1, <1>2, ByteTaken DEF Timed
<1>4. /\ Bare /\ Len(sent) = AddrBytes + WordBytes
      /\ Held(sent, u.bus_addr, 0, AddrBytes) /\ Held(sent, u.bus_wdat, AddrBytes, WordBytes)
  BY <1>1 DEF HInv, BuswInv, AtBuswWe, BusWordHeld
<1>5. HistoryTypes' /\ Bare'
  BY <1>3, <1>4, TypesKept DEF Bare
<1>6. Len(sent') = AddrBytes + WordBytes + 1 /\ sent'[AddrBytes + WordBytes + 1] = rx.data
  BY <1>3, <1>4, BytesStay
<1>7. BusWordHeld'
  <2>1. Len(sent) >= 0 + AddrBytes /\ Len(sent) >= AddrBytes + WordBytes
    BY <1>4
  <2>2. Held(sent', u.bus_addr, 0, AddrBytes)
    BY <1>3, <1>4, <2>1, FieldStays DEF HInv, HistoryTypes
  <2>3. Held(sent', u.bus_wdat, AddrBytes, WordBytes)
    BY <1>3, <1>4, <2>1, FieldStays DEF HInv, HistoryTypes
  <2>4. QED
    BY <1>2, <2>2, <2>3 DEF BusWordHeld
<1>8. AtBuswChecksum'
  BY <1>1, <1>2, <1>5, <1>6, <1>7 DEF AtBuswChecksum
<1>9. QED
  BY <1>2, <1>5, <1>8 DEF HInv, ImprInv, BuswInv, BusrInv, ImwrInv

LEMMA BuswChecksumHistory ==
  ASSUME IInv, HInv, NEW rx \in Rx, Histories(rx), BuswChecksum
  PROVE  HInv'
<1>1. u \in Fields /\ u.state = "BUSW_CHECKSUM" /\ ~u.ram_wen
  BY DEF BuswChecksum, IInv, TypeOK, Fields, StrobesBrief
<1>2. /\ u'.state = "BUSW_DONE" /\ u'.uart_tx = Checksum
      /\ u'.bus_wdat = u.bus_wdat /\ u'.bus_addr = u.bus_addr
  BY <1>1 DEF BuswChecksum, Fields
<1>3. /\ Bare /\ BusWordHeld /\ u.uart_tx = None
      /\ u.bus_we = Lanes(sent[AddrBytes + WordBytes + 1])
  BY <1>1 DEF HInv, BuswInv, AtBuswChecksum
<1>4. /\ sent' = sent /\ replies' = replies
      /\ u.bus_we = {} => writes' = writes
      /\ u.bus_we # {} => writes' = Append(writes, <<"BUS", u.bus_addr, u.bus_wdat, u.bus_we>>)
  BY <1>1, <1>2, <1>3, HistoryRecorded DEF Timed
<1>5. HistoryTypes'
  BY TypesKept
<1>6. BusWordHeld'
  BY <1>2, <1>3, <1>4 DEF BusWordHeld, Held
<1>7. AtBuswDone'
  BY <1>2, <1>3, <1>4, <1>6 DEF AtBuswDone, Bare
<1>8. QED
  BY <1>2, <1>5, <1>7 DEF HInv, ImprInv, BuswInv, BusrInv, ImwrInv
-----------------------------------------------------------------------------
(* A bus read.                                                             *)

\* Nothing is up in the states of a bus read.
LEMMA NoStrobeInRead ==
  ASSUME IInv, u.state \in {"BUSR_DATA", "BUSR_CHECKSUM"}
  PROVE  ~u.ram_wen /\ u.bus_we = {}
BY DEF IInv, StrobesBrief

LEMMA BusrAddrHistory ==
  ASSUME IInv, HInv, NEW rx \in Rx, Histories(rx), BusrAddr(rx)
  PROVE  HInv'
<1>1. u \in Fields /\ u.state = "BUSR_WAIT_ADDR" /\ rx.valid
  BY DEF BusrAddr, IInv, TypeOK, Fields
<1>2. u'.state \in {"BUSR_WAIT_ADDR", "BUSR_WAIT_DATA"}
  BY <1>1 DEF BusrAddr, After, Fields
<1>3. rx.data \in Byte /\ sent' = Append(sent, rx.data) /\ UNCHANGED <<writes, replies>>
  BY <1>1, <1>2, ByteTaken DEF Timed
<1>4. Bare
  BY <1>1 DEF HInv, BusrInv
<1>5. HistoryTypes' /\ Bare'
  BY <1>3, <1>4, TypesKept DEF Bare
<1>6. QED
  BY <1>2, <1>5 DEF HInv, ImprInv, BuswInv, BusrInv, ImwrInv

LEMMA BusrAnswerHistory ==
  ASSUME IInv, HInv, NEW rx \in Rx, Histories(rx), NEW bus \in Answers,
         u.state = "BUSR_WAIT_DATA",
         u' = [u EXCEPT !.bus_rdat = bus.rdat, !.timeout = 0, !.state = "BUSR_DATA"]
  PROVE  HInv'
<1>1. u \in Fields /\ u.n = 0
  BY DEF IInv, TypeOK, Fields, FieldBytes
<1>2. u'.state = "BUSR_DATA" /\ u'.n = 0 /\ u'.uart_tx = u.uart_tx
  BY <1>1 DEF Fields
<1>3. UNCHANGED <<sent, writes, replies>>
  BY <1>2, NothingRecorded DEF Waiting, Timed
<1>4. Bare /\ u.uart_tx = None
  BY DEF HInv, BusrInv, IInv, QuietWhileWaiting, Waiting
<1>5. HistoryTypes'
  BY TypesKept
<1>6. ReadSending(u.n)'
  BY <1>2, <1>3, <1>4 DEF ReadSending, ReadSent, Bare
<1>7. QED
  BY <1>2, <1>5, <1>6 DEF HInv, ImprInv, BuswInv, BusrInv, ImwrInv

\* The byte on its way has been put into the FIFO.
LEMMA ReadSentMore ==
  ASSUME IInv, HInv, NEW rx \in Rx, Histories(rx), u.state \in {"BUSR_DATA", "BUSR_CHECKSUM"},
         u'.state \notin {"WAIT_SOP", "WAIT_CMD"}, u'.bus_rdat = u.bus_rdat,
         NEW k \in 0 .. WordBytes, ReadSending(k)
  PROVE  ReadSent(k)'
<1>1. writes' = writes /\ (u.uart_tx = None => replies' = replies)
      /\ (u.uart_tx # None => replies' = Append(replies, u.uart_tx))
  <2>1. u.state \notin Timed
    BY DEF Timed
  <2>2. QED
    BY <2>1, NoStrobeInRead, HistoryRecorded
<1>2. u \in Fields
  BY DEF IInv, TypeOK, Fields
<1>3. CASE k = 0
  BY <1>1, <1>3 DEF ReadSending, ReadSent
<1>4. CASE k # 0
  <2>1. ReadSent(k - 1) /\ u.uart_tx = Data(u.bus_rdat[k - 1])
    BY <1>4 DEF ReadSending
  <2>2. k - 1 \in Lane /\ u.bus_rdat[k - 1] \in Byte
    BY <1>2, <1>4, WordBytesAssumption DEF Fields, Word, Lane
  <2>3. u.uart_tx # None
    BY <2>1, <2>2, ByteFacts
  <2>4. replies' = Append(replies, u.uart_tx) /\ replies \in Seq(Reply) /\ Len(replies) = k - 1
    BY <1>1, <2>1, <2>3 DEF HInv, HistoryTypes, ReadSent
  <2>5. Len(replies') = k
    BY <2>2, <2>4 DEF Lane
  <2>6. ASSUME NEW j \in 1 .. k
        PROVE  replies'[j] = Data(u.bus_rdat[j - 1])
    <3>1. CASE j = k
      BY <2>1, <2>2, <2>4, <3>1 DEF Lane
    <3>2. CASE j # k
      <4>1. j \in 1 .. k - 1
        BY <3>2
      <4>2. replies'[j] = replies[j]
        BY <2>4, <4>1
      <4>3. QED
        BY <2>1, <4>1, <4>2 DEF ReadSent
    <3>3. QED
      BY <3>1, <3>2
  <2>7. QED
    BY <1>1, <2>1, <2>5, <2>6 DEF ReadSent
<1>5. QED
  BY <1>3, <1>4

LEMMA BusrDataHistory ==
  ASSUME IInv, HInv, NEW rx \in Rx, Histories(rx), BusrData
  PROVE  HInv'
<1> USE WordBytesAssumption
<1>1. u \in Fields /\ u.state = "BUSR_DATA" /\ u.n \in 0 .. WordBytes - 1
  BY DEF BusrData, IInv, TypeOK, Fields, FieldBytes
<1>2. /\ u'.state = IF u.n = WordBytes - 1 THEN "BUSR_CHECKSUM" ELSE "BUSR_DATA"
      /\ u'.n = IF u.n = WordBytes - 1 THEN 0 ELSE u.n + 1
      /\ u'.bus_rdat = u.bus_rdat /\ u'.uart_tx = Data(u.bus_rdat[u.n])
  BY <1>1 DEF BusrData, NextByte, After, Fields
<1>3. PICK k \in 0 .. WordBytes - 1 : k = u.n
  BY <1>1
<1>4. ReadSending(k)
  BY <1>1, <1>3 DEF HInv, BusrInv
<1>5. ReadSent(k)'
  <2>1. k \in 0 .. WordBytes
    OBVIOUS
  <2>2. QED
    BY <1>1, <1>2, <1>4, <2>1, ReadSentMore
<1>6. ReadSending(k + 1)'
  BY <1>2, <1>3, <1>5 DEF ReadSending
<1>7. HistoryTypes'
  BY TypesKept
<1>8. CASE k # WordBytes - 1
  <2>1. u'.n = k + 1 /\ u'.state = "BUSR_DATA"
    BY <1>2, <1>3, <1>8
  <2>2. ReadSending(u.n)'
    BY <1>6, <2>1 DEF ReadSending, ReadSent
  <2>3. QED
    BY <1>7, <2>1, <2>2 DEF HInv, ImprInv, BuswInv, BusrInv, ImwrInv
<1>9. CASE k = WordBytes - 1
  <2>1. k + 1 = WordBytes /\ u'.state = "BUSR_CHECKSUM"
    BY <1>2, <1>3, <1>9
  <2>2. ReadSending(WordBytes)'
    BY <1>6, <2>1 DEF ReadSending, ReadSent
  <2>3. QED
    BY <1>7, <2>1, <2>2 DEF HInv, ImprInv, BuswInv, BusrInv, ImwrInv
<1>10. QED
  BY <1>8, <1>9

LEMMA BusrChecksumHistory ==
  ASSUME IInv, HInv, NEW rx \in Rx, Histories(rx), BusrChecksum
  PROVE  HInv'
<1>1. u \in Fields /\ u.state = "BUSR_CHECKSUM"
  BY DEF BusrChecksum, IInv, TypeOK, Fields
<1>2. u'.state = "BUSR_DONE" /\ u'.uart_tx = Checksum /\ u'.bus_rdat = u.bus_rdat
  BY <1>1 DEF BusrChecksum, Fields
<1>3. ReadSent(WordBytes)'
  <2>1. WordBytes \in 0 .. WordBytes
    BY WordBytesAssumption
  <2>2. ReadSending(WordBytes)
    BY <1>1 DEF HInv, BusrInv
  <2>3. QED
    BY <1>1, <1>2, <2>1, <2>2, ReadSentMore
<1>4. AtBusrDone'
  BY <1>2, <1>3 DEF AtBusrDone
<1>5. HistoryTypes'
  BY TypesKept
<1>6. QED
  BY <1>2, <1>4, <1>5 DEF HInv, ImprInv, BuswInv, BusrInv, ImwrInv
-----------------------------------------------------------------------------
(* An instruction write.                                                   *)

LEMMA Remainder ==
  ASSUME NEW q \in Nat, NEW c \in Nat, c >= 1, NEW r \in 0 .. c - 1
  PROVE  (q * c + r) % c = r /\ (q * c + r) \div c = q
<1>1. q * c \in Nat
  OBVIOUS
<1>2. QED
  BY <1>1

LEMMA BytesReplaced ==
  ASSUME NEW a \in Nat, NEW b \in Byte, NEW low \in Byte
  PROVE  /\ WithByte(a, 0, b) % ByteRadix = b
         /\ a % ByteRadix = low => WithByte(a, 1, b) % Counts = low + b * ByteRadix
<1> USE ByteRadixAssumption DEF Byte
<1>1. WithByte(a, 0, b) % ByteRadix = b
  <2>1. PICK q \in Nat : q = a \div ByteRadix
    OBVIOUS
  <2>2. (q * ByteRadix + b) % ByteRadix = b
    BY Remainder
  <2>3. QED
    BY <2>1, <2>2 DEF WithByte
<1>2. ASSUME a % ByteRadix = low
      PROVE  WithByte(a, 1, b) % Counts = low + b * ByteRadix
  <2>1. Counts \in Nat /\ Counts >= 1
    BY ByteFacts
  <2>2. PICK c \in Nat : c = Counts
    BY <2>1
  <2>3. PICK q \in Nat : q = a \div c
    BY <2>1, <2>2
  <2>4. PICK r \in Nat : r = low + b * ByteRadix
    OBVIOUS
  <2>5. r \in 0 .. c - 1
    <3>1. low + b * ByteRadix \in 0 .. Counts - 1
      BY TwoBytes
    <3>2. QED
      BY <2>2, <2>4, <3>1
  <2>6. (q * c + r) % c = r
    BY <2>1, <2>2, <2>5, Remainder
  <2>7. q * c + b * ByteRadix + (a % ByteRadix) = q * c + r
    <3>1. PICK p \in Nat : p = q * c
      OBVIOUS
    <3>2. PICK m \in Nat : m = b * ByteRadix
      OBVIOUS
    <3>3. p + m + low = p + (low + m) /\ r = low + m
      BY <2>4, <3>2
    <3>4. QED
      BY <1>2, <3>1, <3>2, <3>3
  <2>8. WithByte(a, 1, b) = q * c + b * ByteRadix + (a % ByteRadix)
    BY <2>2, <2>3 DEF WithByte
  <2>9. QED
    BY <2>2, <2>4, <2>6, <2>7, <2>8
<1>3. QED
  BY <1>1, <1>2

LEMMA ImwrAddrHistory ==
  ASSUME IInv, HInv, NEW rx \in Rx, Histories(rx), ImwrAddr(rx)
  PROVE  HInv'
<1>1. u \in Fields /\ u.state = "IMWR_WAIT_ADDR" /\ u.n \in 0 .. 1 /\ rx.valid
  BY DEF ImwrAddr, IInv, TypeOK, Fields, FieldBytes
<1>2. /\ u'.state = IF u.n = 1 THEN "IMWR_WAIT_DATA" ELSE "IMWR_WAIT_ADDR"
      /\ u'.n = IF u.n = 1 THEN 0 ELSE u.n + 1
      /\ u'.ram_addr = WithByte(u.ram_addr, u.n, rx.data)
  BY <1>1 DEF ImwrAddr, NextByte, After, Fields
<1>3. rx.data \in Byte /\ sent' = Append(sent, rx.data) /\ UNCHANGED <<writes, replies>>
  BY <1>1, <1>2, ByteTaken DEF Timed
<1>4. Bare /\ Len(sent) = u.n /\ (u.n = 1 => u.ram_addr % ByteRadix = sent[1])
  BY <1>1 DEF HInv, ImwrInv, AtImwrAddr
<1>5. HistoryTypes' /\ Bare'
  BY <1>3, <1>4, TypesKept DEF Bare
<1>6. /\ Len(sent') = u.n + 1 /\ sent'[u.n + 1] = rx.data
      /\ u.n = 1 => sent'[1] = sent[1]
  BY <1>1, <1>3, <1>4, BytesStay
<1>7. u.ram_addr \in Nat
  BY <1>1 DEF Fields
<1>8. CASE u.n = 0
  <2>1. u'.ram_addr % ByteRadix = sent'[1]
    BY <1>2, <1>3, <1>6, <1>7, <1>8, BytesReplaced
  <2>2. AtImwrAddr'
    BY <1>2, <1>5, <1>6, <1>8, <2>1 DEF AtImwrAddr
  <2>3. QED
    BY <1>2, <1>5, <1>8, <2>2 DEF HInv, ImprInv, BuswInv, BusrInv, ImwrInv
<1>9. CASE u.n = 1
  <2>1. sent[1] \in Byte
    <3>1. sent \in Seq(Byte) /\ 1 \in 1 .. Len(sent)
      BY <1>4, <1>9 DEF HInv, HistoryTypes
    <3>2. QED
      BY <3>1, ElementOfSeq
  <2>2. u'.ram_addr % Counts = sent[1] + rx.data * ByteRadix
    BY <1>2, <1>3, <1>4, <1>7, <1>9, <2>1, BytesReplaced
  <2>3. u'.ram_addr % Counts = SentNumber'
    BY <1>6, <1>9, <2>2 DEF SentNumber
  <2>4. Held(sent, u.ram_data, 2, u.n)'
    BY <1>2, <1>9 DEF Held
  <2>5. AtImwrData'
    BY <1>2, <1>5, <1>6, <1>9, <2>3, <2>4 DEF AtImwrData, InstructionAddress
  <2>6. QED
    BY <1>2, <1>5, <1>9, <2>5 DEF HInv, ImprInv, BuswInv, BusrInv, ImwrInv
<1>10. QED
  BY <1>1, <1>8, <1>9

LEMMA ImwrDataHistory ==
  ASSUME IInv, HInv, NEW rx \in Rx, Histories(rx), ImwrData(rx)
  PROVE  HInv'
<1> USE WordBytesAssumption
<1>1. /\ u \in Fields /\ u.state = "IMWR_WAIT_DATA" /\ u.n \in 0 .. WordBytes - 1 /\ rx.valid
      /\ u.uart_tx = None
  BY DEF ImwrData, IInv, TypeOK, Fields, FieldBytes, QuietWhileWaiting, Waiting, Timed
<1>2. /\ u'.state = IF u.n = WordBytes - 1 THEN "IMWR_CHECKSUM" ELSE "IMWR_WAIT_DATA"
      /\ u'.n = IF u.n = WordBytes - 1 THEN 0 ELSE u.n + 1
      /\ u'.ram_data = [u.ram_data EXCEPT ![u.n] = rx.data]
      /\ u'.ram_addr = u.ram_addr /\ u'.ram_wen = (u.n = WordBytes - 1)
      /\ u'.uart_tx = u.uart_tx
  BY <1>1 DEF ImwrData, NextByte, After, Fields
<1>3. rx.data \in Byte /\ sent' = Append(sent, rx.data) /\ UNCHANGED <<writes, replies>>
  BY <1>1, <1>2, ByteTaken DEF Timed
<1>4. Bare /\ Len(sent) = 2 + u.n /\ InstructionAddress /\ Held(sent, u.ram_data, 2, u.n)
  BY <1>1 DEF HInv, ImwrInv, AtImwrData
<1>5. HistoryTypes' /\ Bare'
  BY <1>3, <1>4, TypesKept DEF Bare
<1>6. Len(sent') = 2 + u.n + 1
  BY <1>3, <1>4, BytesStay
<1>7. Held(sent', u'.ram_data, 2, u.n + 1)
  <2>1. u.ram_data \in [0 .. WordBytes - 1 -> Byte]
    BY <1>1 DEF Fields, Word, Lane
  <2>2. QED
    BY <1>1, <1>2, <1>3, <1>4, <2>1, FieldFilled DEF HInv, HistoryTypes
<1>8. InstructionAddress'
  <2>1. Len(sent) >= 2
    BY <1>1, <1>4
  <2>2. QED
    BY <1>2, <1>3, <1>4, <2>1, LengthStays DEF InstructionAddress
<1>9. CASE u.n # WordBytes - 1
  <2>1. u'.n = u.n + 1 /\ u'.n - 1 = u.n /\ Len(sent') = 2 + u'.n
    <3>1. u'.n = u.n + 1 /\ u.n \in Int
      BY <1>1, <1>2, <1>9
    <3>2. QED
      BY <1>6, <3>1
  <2>2. Held(sent, u.ram_data, 2, u.n)'
    BY <1>7, <2>1 DEF Held
  <2>3. AtImwrData'
    BY <1>5, <1>8, <2>1, <2>2 DEF AtImwrData
  <2>4. QED
    BY <1>1, <1>2, <1>5, <1>9, <2>3 DEF HInv, ImprInv, BuswInv, BusrInv, ImwrInv
<1>10. CASE u.n = WordBytes - 1
  <2>1. Len(sent') = 2 + WordBytes
    BY <1>6, <1>10
  <2>2. Held(sent, u.ram_data, 2, WordBytes)'
    BY <1>7, <1>10 DEF Held
  <2>3. u'.ram_wen /\ u'.uart_tx = None
    BY <1>1, <1>2, <1>10
  <2>4. AtImwrChecksum'
    BY <1>5, <1>8, <2>1, <2>2, <2>3 DEF AtImwrChecksum
  <2>5. QED
    BY <1>1, <1>2, <1>5, <1>10, <2>4 DEF HInv, ImprInv, BuswInv, BusrInv, ImwrInv
<1>11. QED
  BY <1>9, <1>10

LEMMA ImwrChecksumHistory ==
  ASSUME IInv, HInv, NEW rx \in Rx, Histories(rx), ImwrChecksum
  PROVE  HInv'
<1>1. u \in Fields /\ u.state = "IMWR_CHECKSUM"
  BY DEF ImwrChecksum, IInv, TypeOK, Fields
<1>2. /\ u'.state = "IMWR_DONE" /\ u'.uart_tx = Checksum
      /\ u'.ram_addr = u.ram_addr /\ u'.ram_data = u.ram_data
  BY <1>1 DEF ImwrChecksum, Fields
<1>3. /\ Bare /\ InstructionAddress /\ Held(sent, u.ram_data, 2, WordBytes)
      /\ u.ram_wen /\ u.uart_tx = None
  BY <1>1 DEF HInv, ImwrInv, AtImwrChecksum
<1>4. /\ sent' = sent /\ replies' = replies
      /\ writes' = Append(writes, <<"IMEM", u.ram_addr \div WordBytes, u.ram_data, Lane>>)
  BY <1>1, <1>2, <1>3, HistoryRecorded DEF Timed
<1>5. HistoryTypes'
  BY TypesKept
<1>6. AtImwrDone'
  BY <1>2, <1>3, <1>4 DEF AtImwrDone, Bare, InstructionAddress, Held, SentNumber
<1>7. QED
  BY <1>2, <1>5, <1>6 DEF HInv, ImprInv, BuswInv, BusrInv, ImwrInv
-----------------------------------------------------------------------------
LEMMA DoneHistory ==
  ASSUME IInv, HInv, NEW rx \in Rx, Histories(rx), Done \/ Abandon
  PROVE  HInv'
<1>1. u'.state \in {"WAIT_SOP", "WAIT_CMD"}
  BY DEF Done, Abandon, IInv, TypeOK
<1>2. QED
  BY <1>1, BetweenCommands

LEMMA ClockHistory ==
  ASSUME IInv, IInv', HInv, NEW rx \in Rx, NEW bus \in Answers, NEW tick \in BOOLEAN,
         HostClock(rx, tick, bus), Histories(rx)
  PROVE  HInv'
<1>1. CASE WaitSop(rx) \/ WaitCmd(rx)
  BY <1>1, BeginHistory
<1>2. CASE NoByte(rx, tick)
  BY <1>2, GiveUpHistory DEF NoByte
<1>3. CASE ImprLength(rx) \/ ImprData(rx) \/ ImprChecksum
  BY <1>3, ImprLengthHistory, ImprDataHistory, ImprChecksumHistory
<1>4. CASE BuswAddr(rx) \/ BuswData(rx) \/ BuswWe(rx) \/ BuswChecksum
  BY <1>4, BuswAddrHistory, BuswDataHistory, BuswWeHistory, BuswChecksumHistory
<1>5. CASE BusrAddr(rx) \/ BusrData \/ BusrChecksum
  BY <1>5, BusrAddrHistory, BusrDataHistory, BusrChecksumHistory
<1>6. CASE BusrWait(bus, tick)
  <2>1. CASE bus.rdy
    BY <1>6, <2>1, BusrAnswerHistory DEF BusrWait
  <2>2. CASE ~bus.rdy
    <3>1. u.state \notin Timed
      BY <1>6 DEF BusrWait, Timed
    <3>2. QED
      BY <1>6, <2>2, <3>1, GiveUpHistory DEF BusrWait
  <2>3. QED
    BY <2>1, <2>2
<1>7. CASE ImwrAddr(rx) \/ ImwrData(rx) \/ ImwrChecksum
  BY <1>7, ImwrAddrHistory, ImwrDataHistory, ImwrChecksumHistory
<1>8. CASE Done \/ Abandon
  BY <1>8, DoneHistory
<1>9. QED
  BY <1>1, <1>2, <1>3, <1>4, <1>5, <1>6, <1>7, <1>8 DEF HostClock

LEMMA StepHistory == IInv /\ HInv /\ [Next]_vars => HInv'
<1> SUFFICES ASSUME IInv, HInv, [Next]_vars
             PROVE  HInv'
  OBVIOUS
<1>1. CASE Next
  <2>1. PICK tick \in BOOLEAN, rx \in Arriving, bus \in BusAnswer :
          HostClock(rx, tick, bus) /\ Histories(rx)
    BY <1>1 DEF Next, Clock
  <2>2. rx \in Rx /\ bus \in Answers
    BY InputTypes
  <2>3. IInv'
    BY <2>1, <2>2, ClockInductive
  <2>4. QED
    BY <2>1, <2>2, <2>3, ClockHistory
<1>2. CASE UNCHANGED vars
  BY <1>2, HistoryUnchanged
<1>3. QED
  BY <1>1, <1>2

LEMMA SpecHistory == Spec => []HInv
  BY HistoryInit, StepHistory, SpecInductive, PTL DEF Spec

\* Within the instruction memory the word's number is that of the address sent.
LEMMA WordNumber ==
  ASSUME NEW a \in Nat, NEW s \in 0 .. Counts - 1, a % Counts = s
  PROVE  (a \div WordBytes) % (Counts \div WordBytes) = s \div WordBytes
<1> USE WordBytesAssumption
<1>1. Counts \in Nat /\ Counts >= 1
  BY ByteFacts
<1>2. PICK m \in Nat : Counts = m * WordBytes /\ Counts \div WordBytes = m
  <2>1. PICK c \in Nat : c = Counts
    BY <1>1
  <2>2. c \div WordBytes \in Nat /\ c = (c \div WordBytes) * WordBytes
    BY <2>1, CountsAssumption
  <2>3. QED
    BY <2>1, <2>2
<1>3. PICK q \in Nat : a = q * Counts + s
  <2>1. PICK c \in Nat : c = Counts
    BY <1>1
  <2>2. a \div c \in Nat /\ a = (a \div c) * c + (a % c)
    BY <1>1, <2>1
  <2>3. QED
    BY <2>1, <2>2
<1>4. PICK d \in Nat, r \in 0 .. WordBytes - 1 : s = d * WordBytes + r
  <2>1. s \div WordBytes \in Nat /\ s % WordBytes \in 0 .. WordBytes - 1
    OBVIOUS
  <2>2. s = (s \div WordBytes) * WordBytes + (s % WordBytes)
    OBVIOUS
  <2>3. QED
    BY <2>1, <2>2
<1>5. s \div WordBytes = d
  BY <1>4, Remainder
<1>6. d < m
  <2>1. CASE d >= m
    <3>1. PICK e \in Nat : d = m + e
      <4>1. d - m \in Nat /\ d = m + (d - m)
        BY <2>1
      <4>2. QED
        BY <4>1
    <3>2. d * WordBytes = m * WordBytes + e * WordBytes /\ e * WordBytes \in Nat
      BY <3>1
    <3>3. s >= Counts
      BY <1>1, <1>2, <1>4, <3>2
    <3>4. QED
      BY <1>1, <3>3
  <2>2. QED
    BY <2>1
<1>7. a = (q * m + d) * WordBytes + r
  BY <1>2, <1>3, <1>4
<1>8. q * m + d \in Nat
  OBVIOUS
<1>9. a \div WordBytes = q * m + d
  BY <1>7, <1>8, Remainder
<1>10. (q * m + d) % m = d
  BY <1>6, Remainder
<1>11. QED
  BY <1>2, <1>5, <1>9, <1>10

LEMMA WritesFromHistory == IInv /\ HInv => WritesAsSent
<1> SUFFICES ASSUME IInv, HInv
             PROVE  WritesAsSent
  OBVIOUS
<1>1. u \in Fields /\ writes \in Seq(Strobe)
  BY DEF IInv, TypeOK, Fields, HInv, HistoryTypes
<1>2. ASSUME u.state = "IMPR_DONE"
      PROVE  writes = [k \in 1 .. ProgramLength |->
                         <<"IMEM", k - 1, WordAt(3 + (k - 1) * WordBytes), Lane>>]
  <2>1. Loaded(ProgramLength)
    BY <1>2 DEF HInv, ImprInv, AtImprDone
  <2>2. writes = [k \in 1 .. ProgramLength |-> writes[k]]
    BY <1>1, <2>1, LenProperties DEF Loaded
  <2>3. QED
    BY <2>1, <2>2 DEF Loaded
<1>3. ASSUME u.state = "IMWR_DONE"
      PROVE  /\ Len(writes) = 1
             /\ writes[1][2] % (Counts \div WordBytes) = SentNumber \div WordBytes
             /\ writes[1] = <<"IMEM", writes[1][2], WordAt(3), Lane>>
  <2>1. /\ InstructionAddress /\ Held(sent, u.ram_data, 2, WordBytes)
        /\ writes = <<<<"IMEM", u.ram_addr \div WordBytes, u.ram_data, Lane>>>>
    BY <1>3 DEF HInv, ImwrInv, AtImwrDone
  <2>2. u.ram_data = WordAt(3)
    <3>1. u.ram_data = WordAt(2 + 1)
      BY <1>1, <2>1, WordHeld DEF Fields
    <3>2. QED
      BY <3>1
  <2>3. SentNumber \in 0 .. Counts - 1
    BY <2>1, LengthType DEF InstructionAddress, HInv
  <2>4. (u.ram_addr \div WordBytes) % (Counts \div WordBytes) = SentNumber \div WordBytes
    BY <1>1, <2>1, <2>3, WordNumber DEF InstructionAddress, Fields
  <2>5. Len(writes) = 1 /\ writes[1] = <<"IMEM", u.ram_addr \div WordBytes, u.ram_data, Lane>>
    BY <2>1
  <2>6. writes[1][2] = u.ram_addr \div WordBytes
    BY <2>5
  <2>7. QED
    BY <2>2, <2>4, <2>5, <2>6
<1>4. ASSUME u.state = "BUSW_DONE"
      PROVE  LET lanes == Lanes(sent[AddrBytes + WordBytes + 1])
             IN  writes = IF lanes = {} THEN << >>
                          ELSE <<<<"BUS", [i \in 0 .. AddrBytes - 1 |-> sent[1 + i]],
                                   WordAt(AddrBytes + 1), lanes>>>>
  <2>1. AtBuswDone
    BY <1>4 DEF HInv, BuswInv
  <2>2. u.bus_wdat = WordAt(AddrBytes + 1)
    BY <1>1, <2>1, WordHeld, AddrBytesAssumption DEF AtBuswDone, BusWordHeld, Fields
  <2>3. u.bus_addr = [i \in 0 .. AddrBytes - 1 |-> sent[1 + i]]
    BY <1>1, <2>1, AddrBytesAssumption DEF AtBuswDone, BusWordHeld, Fields, Address, Held
  <2>4. QED
    BY <2>1, <2>2, <2>3 DEF AtBuswDone
<1>5. u.state = "BUSR_DONE" => writes = << >>
  BY DEF HInv, BusrInv, AtBusrDone, ReadSent
<1>6. QED
  BY <1>2, <1>3, <1>4, <1>5 DEF WritesAsSent

LEMMA RepliesFromHistory == HInv => RepliesMatch
<1> SUFFICES ASSUME HInv
             PROVE  RepliesMatch
  OBVIOUS
<1>1. writes \in Seq(Strobe) /\ replies \in Seq(Reply)
  BY DEF HInv, HistoryTypes
<1>2. ASSUME Len(replies) = Len(writes), \A j \in 1 .. Len(writes) : replies[j] = Ack
      PROVE  replies = Acks
  <2>1. replies = [j \in 1 .. Len(replies) |-> replies[j]]
    BY <1>1, LenProperties
  <2>2. QED
    BY <1>2, <2>1 DEF Acks
<1>3. u.state = "IMPR_DONE" => replies = Acks /\ u.uart_tx = Checksum
  BY <1>2 DEF HInv, ImprInv, AtImprDone, Loaded
<1>4. u.state \in {"BUSW_DONE", "IMWR_DONE"} => replies = << >> /\ u.uart_tx = Checksum
  BY DEF HInv, BuswInv, AtBuswDone, ImwrInv, AtImwrDone
<1>5. ASSUME u.state = "BUSR_DONE"
      PROVE  /\ replies = [k \in 1 .. WordBytes |-> Data(u.bus_rdat[k - 1])]
             /\ u.uart_tx = Checksum
  <2>1. ReadSent(WordBytes) /\ u.uart_tx = Checksum
    BY <1>5 DEF HInv, BusrInv, AtBusrDone
  <2>2. replies = [j \in 1 .. Len(replies) |-> replies[j]]
    BY <1>1, LenProperties
  <2>3. QED
    BY <2>1, <2>2 DEF ReadSent
<1>6. u.state = "TIMEOUT" => replies = Acks /\ u.uart_tx = Tout
  BY <1>2 DEF HInv, AtTimeout
<1>7. Append(<< >>, Checksum) = <<Checksum>>
  OBVIOUS
<1>8. QED
  BY <1>3, <1>4, <1>5, <1>6, <1>7, Zenon DEF RepliesMatch

(* Every completed command has written what the host sent, each word once  *)
(* and in order: a program of any length, an instruction, a bus word.      *)
THEOREM WritesAreAsSent == Spec => []WritesAsSent
  BY WritesFromHistory, SpecInductive, SpecHistory, PTL

(* Every command is answered by exactly the bytes the host waits for, and  *)
(* an abandoned one by the acknowledgements of the words it has written.   *)
THEOREM RepliesDoMatch == Spec => []RepliesMatch
  BY RepliesFromHistory, SpecHistory, PTL
=============================================================================
