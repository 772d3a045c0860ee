---------------------------- MODULE SocBus_proofs ----------------------------
(***************************************************************************)
(* What the bus of soc_fabric.sv guarantees for every size of memory and   *)
(* word, every host and every CPU: a CPU access is not preempted, a DMEM   *)
(* read of either master returns the word it asked for, and DMEM and the   *)
(* register change only by a write of the master that has the bus.         *)
(***************************************************************************)
EXTENDS SocBus, TLAPS

\* A request is either one of CpuRequests, or not there.
CpuOK == cpu \in CpuRequests

\* A read and a write are never requested at once.
LEMMA RequestShape ==
  ASSUME NEW c \in CpuRequests
  PROVE  /\ c.rd => c.we = {}
         /\ c.word \in RamWord
         /\ c.region \in CpuRegions \cup {"NONE"}
<1>1. CASE c = Idle
  BY <1>1, NumWordsAssumption DEF Idle, RamWord
<1>2. ASSUME NEW a \in CpuPlaces
      PROVE  a[1] \in CpuRegions /\ a[2] \in RamWord
  BY DEF CpuPlaces
<1>3. CASE c # Idle
  BY <1>2, <1>3 DEF CpuRequests
<1> QED BY <1>1, <1>3

\* A request on the bus is not an idle CPU.
LEMMA WantsIsBusy == cpu_vld => cpu # Idle
BY DEF cpu_vld, Idle

\* What the arbiter does with an access that it has let through.
LEMMA GrantedStays ==
  ASSUME Next, cpu_ack, ~vp_rack, ~vp_wack
  PROVE  cpu' = cpu /\ ~uart_busy'
<1>1. PICK rx \in Arriving : Clock(rx)
  BY DEF Next
<1>2. cpu_vld /\ ~uart_busy
  BY DEF cpu_ack
<1>3. cpu' = cpu
  BY <1>1, <1>2, WantsIsBusy DEF Clock, Cpu
<1>4. ~uart_busy'
  BY <1>1, <1>2 DEF Clock, Fabric, NextBusy
<1> QED BY <1>3, <1>4

(* Once the CPU has the bus (soc_fabric.sv:118) it keeps it until its      *)
(* access is acknowledged, whatever arrives over the UART meanwhile.       *)
THEOREM CpuIsNotPreempted == Spec => NoPreemption
<1>1. [Next]_vars => (cpu_ack /\ ~vp_rack /\ ~vp_wack => cpu_ack')
  <2>1. ASSUME Next, cpu_ack, ~vp_rack, ~vp_wack
        PROVE  cpu_ack'
    <3>1. cpu' = cpu /\ ~uart_busy'
      BY <2>1, GrantedStays
    <3>2. cpu_vld
      BY <2>1 DEF cpu_ack
    <3> QED BY <3>1, <3>2 DEF cpu_ack, cpu_vld
  <2>2. ASSUME UNCHANGED vars, cpu_ack
        PROVE  cpu_ack'
    BY <2>2 DEF vars, cpu_ack, cpu_vld
  <2> QED BY <2>1, <2>2
<1>2. (cpu_ack /\ ~vp_rack /\ ~vp_wack => cpu_ack')
      => [cpu_ack /\ ~vp_rack /\ ~vp_wack => cpu_ack']_vars
  OBVIOUS
<1> QED BY <1>1, <1>2, PTL DEF Spec, NoPreemption
-----------------------------------------------------------------------------
(* The reason why a DMEM read of the CPU is right.  The read-ready flag    *)
(* that is up while the UART is off the bus belongs to the CPU's own read: *)
(* a session that leaves the bus does so in a clock that clears the flag,  *)
(* or in one that does not read DMEM at all.                               *)
ReadIsOwn ==
  rdy_rd /\ ~uart_busy => cpu_vld /\ cpu.rd /\ cpu.region = "DMEM" /\ dmem_rdat = mem[cpu.word]

ImemQuiet == ~imem_readdatavalid

\* Contents of the RAM, whatever the bytes are.
MemShape ==
  /\ mem = [w \in RamWord |-> mem[w]]
  /\ \A w \in RamWord : mem[w] = [i \in Lane |-> mem[w][i]]

ReadInv == CpuOK /\ ImemQuiet /\ MemShape /\ ReadIsOwn

LEMMA CpuOKStep ==
  ASSUME CpuOK, [Next]_vars
  PROVE  CpuOK'
BY DEF CpuOK, Next, Clock, Cpu, vars

LEMMA ImemQuietStep ==
  ASSUME CpuOK, ImemQuiet, [Next]_vars, "IMEM" \notin CpuRegions
  PROVE  ImemQuiet'
<1>1. cpu.region # "IMEM"
  BY RequestShape DEF CpuOK
<1> QED BY <1>1 DEF ImemQuiet, Next, Clock, Imem, vars

\* A write replaces lanes of one word, and leaves the shape of the RAM alone.
LEMMA WrittenShape ==
  ASSUME MemShape, NEW w, NEW lanes, NEW new
  PROVE  /\ Written(mem, w, lanes, new) = [x \in RamWord |-> Written(mem, w, lanes, new)[x]]
         /\ \A x \in RamWord :
              Written(mem, w, lanes, new)[x]
                = [i \in Lane |-> Written(mem, w, lanes, new)[x][i]]
         /\ lanes = {} => \A x \in RamWord : Written(mem, w, lanes, new)[x] = mem[x]
<1> DEFINE m == Written(mem, w, lanes, new)
<1>1. m = [x \in RamWord |-> IF x = w THEN Merge(mem[w], lanes, new) ELSE mem[x]]
  BY DEF Written, MemShape
<1>2. m = [x \in RamWord |-> m[x]]
  BY <1>1
<1>3. ASSUME NEW x \in RamWord
      PROVE  m[x] = [i \in Lane |-> m[x][i]]
  <2>1. CASE x = w
    BY <1>1, <2>1 DEF Merge
  <2>2. CASE x # w
    BY <1>1, <2>2 DEF MemShape
  <2> QED BY <2>1, <2>2
<1>4. ASSUME lanes = {}, NEW x \in RamWord
      PROVE  m[x] = mem[x]
  <2>1. CASE x = w
    <3>1. m[x] = [i \in Lane |-> mem[x][i]]
      BY <1>1, <1>4, <2>1 DEF Merge
    <3> QED BY <3>1 DEF MemShape
  <2>2. CASE x # w
    BY <1>1, <2>2
  <2> QED BY <2>1, <2>2
<1> HIDE DEF m
<1>5. /\ m = [x \in RamWord |-> m[x]]
      /\ \A x \in RamWord : m[x] = [i \in Lane |-> m[x][i]]
      /\ lanes = {} => \A x \in RamWord : m[x] = mem[x]
  BY <1>2, <1>3, <1>4
<1> QED BY <1>5 DEF m

LEMMA MemShapeStep ==
  ASSUME MemShape, [Next]_vars
  PROVE  MemShape'
<1>1. CASE mem' = mem
  BY <1>1 DEF MemShape
<1>2. CASE mem' = Written(mem, word, we, wdat)
  BY <1>2, WrittenShape DEF MemShape
<1> QED BY <1>1, <1>2 DEF Next, Clock, Ram, vars

LEMMA ReadIsOwnStep ==
  ASSUME ReadInv, Next
  PROVE  ReadIsOwn'
<1>1. PICK rx \in Arriving : Clock(rx)
  BY DEF Next
<1>2. SUFFICES ASSUME rdy_rd', ~uart_busy'
               PROVE  (cpu_vld /\ cpu.rd /\ cpu.region = "DMEM" /\ dmem_rdat = mem[cpu.word])'
  BY DEF ReadIsOwn
<1>3. dmem_vld /\ ~write /\ ~dmem_rdy
  BY <1>1, <1>2 DEF Clock, Ram
<1>4. ~uart_busy
  <2>1. SUFFICES ASSUME uart_busy PROVE FALSE
    OBVIOUS
  <2>2. uart_done
    BY <1>1, <1>2, <2>1 DEF Clock, Fabric, NextBusy
  <2>3. dmem_sel
    BY <1>3 DEF dmem_vld
  <2>4. ~csr_sel
    BY <2>3 DEF dmem_sel, csr_sel
  <2> QED BY <1>3, <2>2, <2>4 DEF uart_done
<1>5. cpu_ack
  <2>1. cpu_vld
    <3>1. ~(~cpu_vld /\ u.bus_vld)
      BY <1>1, <1>2, <1>4 DEF Clock, Fabric, NextBusy
    <3> QED BY <1>3, <3>1 DEF dmem_vld
  <2> QED BY <1>4, <2>1 DEF cpu_ack
<1>6. cpu_vld /\ cpu.region = "DMEM" /\ cpu.we = {}
  BY <1>3, <1>5 DEF cpu_ack, dmem_vld, dmem_sel, region, write, we
<1>7. cpu.rd
  BY <1>6 DEF cpu_vld
<1>8. ~cpu_rdy
  BY <1>3, <1>6 DEF cpu_rdy, dmem_vld
<1>9. ~vp_rack /\ ~vp_wack
  BY <1>6, <1>8 DEF vp_rack, vp_wack, ReadInv, ImemQuiet
<1>10. cpu' = cpu
  BY <1>1, <1>6, <1>9, WantsIsBusy DEF Clock, Cpu
<1>11. word = cpu.word /\ we = {}
  BY <1>5, <1>6 DEF word, we
<1>12. mem' = Written(mem, cpu.word, {}, wdat) /\ dmem_rdat' = mem[cpu.word]
  BY <1>1, <1>3, <1>11 DEF Clock, Ram
<1>13. cpu.word \in RamWord
  BY RequestShape DEF ReadInv, CpuOK
<1>14. mem'[cpu.word] = mem[cpu.word]
  BY <1>12, <1>13, WrittenShape DEF ReadInv
<1> QED BY <1>6, <1>7, <1>10, <1>12, <1>14 DEF cpu_vld

LEMMA ReadInvInit == Init => ReadInv
<1> SUFFICES ASSUME Init PROVE ReadInv
  OBVIOUS
<1>1. CpuOK /\ ImemQuiet /\ ReadIsOwn
  BY DEF Init, CpuOK, CpuRequests, ImemQuiet, ReadIsOwn
<1>2. mem \in [RamWord -> CpuWords] /\ CpuWords \subseteq [Lane -> 0 .. ByteRadix - 1]
  BY CpuAssumption DEF Init, Lane
<1>3. MemShape
  BY <1>2 DEF MemShape
<1> QED BY <1>1, <1>3 DEF ReadInv

LEMMA ReadInvStep ==
  ASSUME ReadInv, [Next]_vars, "IMEM" \notin CpuRegions
  PROVE  ReadInv'
<1>1. CpuOK' /\ ImemQuiet' /\ MemShape'
  BY CpuOKStep, ImemQuietStep, MemShapeStep DEF ReadInv
<1>2. CASE Next
  BY <1>1, <1>2, ReadIsOwnStep DEF ReadInv
<1>3. CASE UNCHANGED vars
  <2>1. ReadIsOwn'
    BY <1>3 DEF ReadInv, ReadIsOwn, vars, cpu_vld
  <2> QED BY <1>1, <2>1 DEF ReadInv
<1> QED BY <1>2, <1>3

LEMMA ReadInvSuffices == ReadInv => CpuReadsItsWord
<1> SUFFICES ASSUME ReadInv, vp_rack, cpu.region = "DMEM"
             PROVE  vp_rdat = mem[cpu.word]
  BY DEF CpuReadsItsWord
<1>1. cpu_rdy /\ cpu.rd /\ cpu.we = {}
  BY RequestShape DEF vp_rack, ReadInv, ImemQuiet, CpuOK
<1>2. ~uart_busy
  BY <1>1 DEF cpu_rdy
<1>3. cpu_ack
  BY <1>1, <1>2 DEF cpu_ack, cpu_vld
<1>4. dmem_sel /\ ~write
  BY <1>1, <1>3 DEF dmem_sel, region, write, we
<1>5. rdy_rd
  BY <1>1, <1>4 DEF cpu_rdy, dmem_rdy
<1> QED BY <1>2, <1>4, <1>5 DEF vp_rdat, rdat, ReadInv, ReadIsOwn

(* While the software reads no IMEM over the CPU's data port, every DMEM   *)
(* read of the CPU returns the word at its own address (soc_fabric.sv      *)
(* 77-83, soc_ram.sv 53-77), for every host and every pattern of accesses. *)
THEOREM CpuReadIsRight ==
  ASSUME "IMEM" \notin CpuRegions
  PROVE  Spec => []CpuReadsItsWord
<1>1. Init => ReadInv
  BY ReadInvInit
<1>2. ReadInv /\ [Next]_vars => ReadInv'
  BY ReadInvStep
<1>3. ReadInv => CpuReadsItsWord
  BY ReadInvSuffices
<1> QED BY <1>1, <1>2, <1>3, PTL DEF Spec
-----------------------------------------------------------------------------
(* The host-command machine on the bus is the one UartHost_proofs reasons  *)
(* about: the invariant proved there is kept here by every clock, because  *)
(* it asks nothing of the bus's answers but their type.                    *)

HostProof == INSTANCE UartHost_proofs WITH sent <- << >>, writes <- << >>, replies <- << >>

LEMMA SameClock ==
  ASSUME NEW rx, NEW tick, NEW bus, Host!HostClock(rx, tick, bus)
  PROVE  HostProof!HostClock(rx, tick, bus)
BY DEF
  Host!HostClock, Host!WaitSop, Host!WaitCmd, Host!Begin, Host!NoByte, Host!GiveUp,
  Host!ImprLength, Host!ImprData, Host!ImprChecksum, Host!BuswAddr, Host!BuswData, Host!BuswWe,
  Host!BuswChecksum, Host!BusrAddr, Host!BusrWait, Host!BusrData, Host!BusrChecksum,
  Host!ImwrAddr, Host!ImwrData, Host!ImwrChecksum, Host!Done, Host!Abandon, Host!NextByte,
  Host!After, Host!WithByte, Host!Number, Host!Lanes, Host!Lane, Host!Counts, Host!Timed,
  Host!None, Host!Ack, Host!Tout, Host!Checksum, Host!Data,
  HostProof!HostClock, HostProof!WaitSop, HostProof!WaitCmd, HostProof!Begin, HostProof!NoByte,
  HostProof!GiveUp, HostProof!ImprLength, HostProof!ImprData, HostProof!ImprChecksum,
  HostProof!BuswAddr, HostProof!BuswData, HostProof!BuswWe, HostProof!BuswChecksum,
  HostProof!BusrAddr, HostProof!BusrWait, HostProof!BusrData, HostProof!BusrChecksum,
  HostProof!ImwrAddr, HostProof!ImwrData, HostProof!ImwrChecksum, HostProof!Done,
  HostProof!Abandon, HostProof!NextByte, HostProof!After, HostProof!WithByte, HostProof!Number,
  HostProof!Lanes, HostProof!Lane, HostProof!Counts, HostProof!Timed, HostProof!None,
  HostProof!Ack, HostProof!Tout, HostProof!Checksum, HostProof!Data

\* The machine starts alike, and its type is the same.
LEMMA SameMachine ==
  /\ Init => HostProof!IInv
  /\ HostProof!IInv => Host!TypeOK
  /\ HostProof!Counts = Host!Counts
<1>1. HostProof!Counts = Host!Counts
  BY DEF HostProof!Counts, Host!Counts
<1>2. Init => HostProof!Init
  BY DEF Init, Host!Reset, Host!ResetAddress, Host!TopByte, Host!None, Host!Lane,
         HostProof!Init, HostProof!Reset, HostProof!ResetAddress, HostProof!TopByte,
         HostProof!None, HostProof!Lane
<1>3. HostProof!Init => HostProof!IInv
  BY <1>1, HostProof!InitInductive, SizesAssumption
<1>4. HostProof!IInv => Host!TypeOK
  BY DEF
    HostProof!IInv, HostProof!TypeOK, HostProof!States, HostProof!Waiting, HostProof!Timed,
    HostProof!Programming, HostProof!Byte, HostProof!Lane, HostProof!Word, HostProof!Address,
    HostProof!Counts, HostProof!Reply, HostProof!None, HostProof!Ack, HostProof!Tout,
    HostProof!Checksum, HostProof!Data, HostProof!FieldBytes,
    Host!TypeOK, Host!States, Host!Waiting, Host!Timed, Host!Programming, Host!Byte, Host!Lane,
    Host!Word, Host!Address, Host!Counts, Host!Reply, Host!None, Host!Ack, Host!Tout,
    Host!Checksum, Host!Data, Host!FieldBytes
<1>5. QED
  BY <1>1, <1>2, <1>3, <1>4

\* What the bus needs to know of the machine.
LEMMA HostFacts ==
  ASSUME HostProof!IInv
  PROVE  /\ u.bus_addr \in [0 .. AddrBytes - 1 -> 0 .. ByteRadix - 1]
         /\ u.bus_wdat \in Word /\ u.bus_we \in SUBSET Lane /\ u.bus_vld \in BOOLEAN
         /\ u.state = "BUSR_WAIT_DATA" => u.bus_we = {}
         /\ u.bus_we # {} => u.bus_vld
<1>1. /\ u.bus_addr \in [0 .. AddrBytes - 1 -> 0 .. ByteRadix - 1]
      /\ u.bus_wdat \in Word /\ u.bus_we \in SUBSET Lane /\ u.bus_vld \in BOOLEAN
  BY DEF HostProof!IInv, HostProof!TypeOK, HostProof!Address, HostProof!Byte, HostProof!Word,
         HostProof!Lane, Word, Lane
<1>2. u.state = "BUSR_WAIT_DATA" => u.bus_we = {}
  BY DEF HostProof!IInv, HostProof!QuietWhileWaiting, HostProof!Waiting
<1>3. u.bus_we # {} => u.bus_vld
  BY DEF HostProof!IInv, HostProof!StrobesBrief, HostProof!SessionHoldsBus
<1>4. QED
  BY <1>1, <1>2, <1>3

Types ==
  /\ uart_busy \in BOOLEAN
  /\ mem \in [RamWord -> Word]
  /\ dmem_rdat \in Word
  /\ rdy_rd \in BOOLEAN
  /\ csr \in Word
  /\ cpu \in CpuRequests
  /\ imem_readdatavalid \in BOOLEAN

(* A word that is ready for the host while it waits is the one it has      *)
(* asked for: it was read in the clock before, in which the UART had the   *)
(* address lines and the address was complete or a byte short, and then    *)
(* only of the byte that selects the peripheral.                           *)
HostReadIsOwn ==
  u.state = "BUSR_WAIT_DATA" /\ rdy_rd /\ uart_busy /\ uart_region = "DMEM" =>
    dmem_rdat = mem[uart_word]

BusInv == HostProof!IInv /\ Types /\ HostReadIsOwn

LEMMA RequestType ==
  ASSUME NEW c \in CpuRequests
  PROVE  c.rd \in BOOLEAN /\ c.we \in SUBSET Lane /\ c.word \in RamWord /\ c.wdat \in Word
<1>1. Zero \in Word
  BY SizesAssumption DEF Zero, Word
<1>2. CpuWords \subseteq Word
  BY CpuAssumption DEF Word, Lane
<1>3. CASE c = Idle
  BY <1>1, <1>3, NumWordsAssumption DEF Idle, RamWord
<1>4. ASSUME NEW a \in CpuPlaces
      PROVE  a[2] \in RamWord
  BY DEF CpuPlaces
<1>5. ASSUME NEW a \in CpuPlaces,
             c = [rd |-> TRUE, we |-> {}, region |-> a[1], word |-> a[2], wdat |-> Zero]
      PROVE  c.rd \in BOOLEAN /\ c.we \in SUBSET Lane /\ c.word \in RamWord /\ c.wdat \in Word
  BY <1>1, <1>4, <1>5
<1>6. ASSUME NEW be \in SUBSET Lane, NEW a \in CpuPlaces, NEW d \in CpuWords,
             c = [rd |-> FALSE, we |-> be, region |-> a[1], word |-> a[2], wdat |-> d]
      PROVE  c.rd \in BOOLEAN /\ c.we \in SUBSET Lane /\ c.word \in RamWord /\ c.wdat \in Word
  BY <1>2, <1>4, <1>6
<1>7. QED
  BY <1>3, <1>5, <1>6 DEF CpuRequests

LEMMA WireTypes ==
  ASSUME BusInv
  PROVE  /\ uart_rdy \in BOOLEAN /\ rdat \in Word /\ word \in RamWord /\ uart_word \in RamWord
         /\ wdat \in Word /\ we \in SUBSET Lane
<1>1. uart_word \in RamWord
  <2>1. u.bus_addr[0] \in Nat
    BY HostFacts, SizesAssumption DEF BusInv
  <2>2. QED
    BY <2>1, NumWordsAssumption DEF uart_word, RamWord
<1>2. cpu.word \in RamWord /\ cpu.we \in SUBSET Lane /\ cpu.wdat \in Word
  BY RequestType DEF BusInv, Types
<1>3. word \in RamWord /\ we \in SUBSET Lane /\ wdat \in Word
  BY <1>1, <1>2, HostFacts DEF word, we, wdat, BusInv
<1>4. Zero \in Word
  BY SizesAssumption DEF Zero, Word
<1>5. rdat \in Word
  BY <1>4 DEF rdat, BusInv, Types
<1>6. uart_rdy \in BOOLEAN
  BY DEF uart_rdy, dmem_rdy, csr_rdy, BusInv, Types, dmem_sel, csr_sel, write
<1>7. QED
  BY <1>1, <1>3, <1>5, <1>6

\* A byte that comes and the bus's answer are what the machine expects.
LEMMA HostStep ==
  ASSUME BusInv, NEW rx \in Arriving, Clock(rx)
  PROVE  /\ HostProof!IInv'
         /\ \E tick \in BOOLEAN :
              HostProof!HostClock(rx, tick, [rdy |-> uart_rdy, rdat |-> rdat])
<1>1. PICK tick \in BOOLEAN : Host!HostClock(rx, tick, [rdy |-> uart_rdy, rdat |-> rdat])
  BY DEF Clock
<1>2. PICK bus : bus = [rdy |-> uart_rdy, rdat |-> rdat]
  OBVIOUS
<1>3. HostProof!HostClock(rx, tick, bus)
  BY <1>1, <1>2, SameClock
<1>4. bus \in HostProof!Answers
  BY <1>2, WireTypes DEF HostProof!Answers, HostProof!Word, HostProof!Lane, HostProof!Byte, Word, Lane
<1>5. rx \in HostProof!Rx
  <2>1. 0 \in 0 .. ByteRadix - 1 /\ HostRegions \subseteq 0 .. ByteRadix - 1
        /\ HostBytes \subseteq 0 .. ByteRadix - 1
    BY SizesAssumption, HostAssumption
  <2>2. HostCommands \subseteq HostProof!Command \cup {"DATA"}
    BY HostAssumption DEF HostProof!Command
  <2>3. \A c \in HostProof!Command \cup {"DATA"}, v \in BOOLEAN, d \in 0 .. ByteRadix - 1 :
          [valid |-> v, cmd |-> c, data |-> d] \in HostProof!Rx
    BY DEF HostProof!Rx, HostProof!Byte
  <2>4. PICK v \in BOOLEAN, c \in HostProof!Command \cup {"DATA"}, d \in 0 .. ByteRadix - 1 :
          rx = [valid |-> v, cmd |-> c, data |-> d]
    <3>1. CASE rx = Host!NoRx
      BY <2>1, <3>1 DEF Host!NoRx
    <3>2. CASE \E c \in HostCommands : rx = [valid |-> TRUE, cmd |-> c, data |-> 0]
      BY <2>1, <2>2, <3>2
    <3>3. CASE \E d \in HostRegions \cup HostBytes : rx = [valid |-> TRUE, cmd |-> "DATA", data |-> d]
      BY <2>1, <3>3
    <3>4. QED
      BY <3>1, <3>2, <3>3 DEF Arriving
  <2>5. QED
    BY <2>3, <2>4
<1>6. HostProof!IInv'
  BY <1>3, <1>4, <1>5, HostProof!ClockInductive, SizesAssumption, SameMachine DEF BusInv
<1>7. QED
  BY <1>2, <1>3, <1>6

LEMMA WrittenType ==
  ASSUME NEW m \in [RamWord -> Word], NEW w \in RamWord, NEW lanes, NEW new \in Word
  PROVE  Written(m, w, lanes, new) \in [RamWord -> Word]
<1>1. Merge(m[w], lanes, new) \in Word
  BY DEF Merge, Word
<1>2. QED
  BY <1>1 DEF Written

LEMMA MergeType ==
  ASSUME NEW old \in Word, NEW lanes, NEW new \in Word
  PROVE  Merge(old, lanes, new) \in Word
BY DEF Merge, Word

\* A write in no lane changes nothing.
LEMMA NothingWritten ==
  /\ \A m \in [RamWord -> Word], w \in RamWord : \A new : Written(m, w, {}, new) = m
  /\ \A old \in Word : \A new : Merge(old, {}, new) = old
<1>1. \A old \in Word : \A new : Merge(old, {}, new) = old
  BY DEF Merge, Word
<1>2. ASSUME NEW m \in [RamWord -> Word], NEW w \in RamWord, NEW new
      PROVE  Written(m, w, {}, new) = m
  <2>1. Merge(m[w], {}, new) = m[w]
    BY <1>1
  <2>2. QED
    BY <2>1 DEF Written
<1>3. QED
  BY <1>1, <1>2

LEMMA TypesStep ==
  ASSUME BusInv, NEW rx \in Arriving, Clock(rx)
  PROVE  Types'
<1>1. Types /\ Fabric /\ Ram /\ Csr /\ Cpu /\ Imem
  BY DEF BusInv, Clock
<1>2. uart_busy' \in BOOLEAN
  BY <1>1, HostFacts DEF Fabric, NextBusy, BusInv, Types, uart_done, dmem_sel, csr_sel, dmem_rdy,
                         csr_rdy, write, cpu_vld
<1>3. mem' \in [RamWord -> Word]
  BY <1>1, WireTypes, WrittenType DEF Ram, Types
<1>4. dmem_rdat' \in Word /\ rdy_rd' \in BOOLEAN
  BY <1>1, WireTypes DEF Ram, Types
<1>5. csr' \in Word
  BY <1>1, WireTypes, MergeType DEF Csr, Types
<1>6. cpu' \in CpuRequests /\ imem_readdatavalid' \in BOOLEAN
  BY <1>1, RequestType DEF Cpu, Imem, Types
<1>7. QED
  BY <1>2, <1>3, <1>4, <1>5, <1>6 DEF Types

LEMMA HostReadIsOwnStep ==
  ASSUME BusInv, NEW rx \in Arriving, Clock(rx)
  PROVE  HostReadIsOwn'
<1>1. SUFFICES ASSUME u'.state = "BUSR_WAIT_DATA", rdy_rd', uart_busy', uart_region' = "DMEM"
               PROVE  dmem_rdat' = mem'[uart_word']
  BY DEF HostReadIsOwn
<1>2. dmem_vld /\ ~write /\ dmem_rdat' = mem[word]
      /\ mem' = Written(mem, word, we, wdat)
  BY <1>1 DEF Clock, Ram
<1>3. ~cpu_ack
  BY <1>1 DEF Clock, Fabric, NextBusy, cpu_ack
<1>4. word = uart_word /\ uart_region = "DMEM" /\ we = {}
  BY <1>2, <1>3 DEF word, dmem_vld, dmem_sel, region, write
<1>5. mem' = mem
  BY <1>2, <1>4, WireTypes, NothingWritten DEF BusInv, Types
<1>6. uart_word' = uart_word
  <2>1. \/ u'.bus_addr = u.bus_addr
        \/ \E b : u'.bus_addr = [u.bus_addr EXCEPT ![AddrBytes - 1] = b]
    <3>1. PICK tick \in BOOLEAN :
            HostProof!HostClock(rx, tick, [rdy |-> uart_rdy, rdat |-> rdat])
      BY HostStep
    <3>2. PICK bus : bus = [rdy |-> uart_rdy, rdat |-> rdat]
      OBVIOUS
    <3>3. \/ u'.bus_addr = u.bus_addr
          \/ \E b : u'.bus_addr = [u.bus_addr EXCEPT ![HostProof!TopByte] = b]
      BY <1>1, <3>1, <3>2, HostProof!ReadBegins, SizesAssumption, SameMachine DEF BusInv
    <3>4. QED
      BY <3>3 DEF HostProof!TopByte
  <2>2. CASE u'.bus_addr = u.bus_addr
    BY <2>2 DEF uart_word
  <2>3. CASE \E b : u'.bus_addr = [u.bus_addr EXCEPT ![AddrBytes - 1] = b]
    <3>1. PICK b : u'.bus_addr = [u.bus_addr EXCEPT ![AddrBytes - 1] = b]
      BY <2>3
    <3>2. u.bus_addr \in [0 .. AddrBytes - 1 -> 0 .. ByteRadix - 1]
      BY HostFacts DEF BusInv
    <3>3. CASE AddrBytes = 1
      <4>1. u.bus_addr[0] = 1 /\ u'.bus_addr[0] = 1
        BY <1>1, <1>4, <3>3 DEF uart_region, Region
      <4>2. QED
        BY <4>1 DEF uart_word
    <3>4. CASE AddrBytes # 1
      <4>1. u'.bus_addr[0] = u.bus_addr[0]
        BY <3>1, <3>2, <3>4, SizesAssumption
      <4>2. QED
        BY <4>1 DEF uart_word
    <3>5. QED
      BY <3>3, <3>4
  <2>4. QED
    BY <2>1, <2>2, <2>3
<1>7. QED
  BY <1>2, <1>4, <1>5, <1>6

LEMMA BusInvInit == Init => BusInv
<1> SUFFICES ASSUME Init
             PROVE  BusInv
  OBVIOUS
<1>1. HostProof!IInv
  BY SameMachine
<1>2. CpuWords \subseteq Word /\ Zero \in Word
  BY CpuAssumption, SizesAssumption DEF Word, Lane, Zero
<1>3. Types
  <2>1. mem \in [RamWord -> Word] /\ dmem_rdat \in Word /\ csr \in Word
    BY <1>2 DEF Init
  <2>2. cpu \in CpuRequests
    BY DEF Init, CpuRequests
  <2>3. QED
    BY <2>1, <2>2 DEF Init, Types
<1>4. HostReadIsOwn
  BY DEF Init, HostReadIsOwn
<1>5. QED
  BY <1>1, <1>3, <1>4 DEF BusInv

LEMMA BusInvStep ==
  ASSUME BusInv, [Next]_vars
  PROVE  BusInv'
<1>1. CASE Next
  BY <1>1, HostStep, TypesStep, HostReadIsOwnStep DEF Next, BusInv
<1>2. CASE UNCHANGED vars
  <2>1. HostProof!IInv'
    BY <1>2, HostProof!Unchanged, SizesAssumption, SameMachine DEF BusInv, vars
  <2>2. Types'
    BY <1>2 DEF BusInv, Types, vars
  <2>3. HostReadIsOwn'
    BY <1>2 DEF BusInv, HostReadIsOwn, uart_region, uart_word, vars
  <2>4. QED
    BY <2>1, <2>2, <2>3 DEF BusInv
<1>3. QED
  BY <1>1, <1>2

LEMMA BusInductive == Spec => []BusInv
<1>1. BusInv /\ [Next]_vars => BusInv'
  BY BusInvStep
<1>2. QED
  BY BusInvInit, <1>1, PTL DEF Spec

(* No register of the bus, of its peripherals or of the host-command       *)
(* machine on it leaves its type, whatever the host and the CPU do.        *)
THEOREM TypeCorrect == Spec => []TypeOK
<1>1. BusInv => TypeOK
  BY SameMachine DEF BusInv, Types, TypeOK
<1>2. QED
  BY <1>1, BusInductive, PTL

(* A word that the host is sent from DMEM is the one at the address it has *)
(* given (soc_fabric.sv 68-83, soc_ram.sv 35-77), for every size of memory *)
(* and word, every host and every CPU.                                     *)
THEOREM HostReadIsRight == Spec => []HostReadsItsWord
<1>1. BusInv => HostReadsItsWord
  <2> SUFFICES ASSUME BusInv, u.state = "BUSR_WAIT_DATA", uart_rdy, uart_region = "DMEM"
               PROVE  rdat = mem[uart_word]
    BY DEF HostReadsItsWord
  <2>1. uart_busy
    BY DEF uart_rdy
  <2>2. ~cpu_ack
    BY <2>1 DEF cpu_ack
  <2>3. dmem_sel /\ we = {}
    BY <2>2, HostFacts DEF dmem_sel, region, we, BusInv
  <2>4. rdy_rd
    BY <2>3 DEF uart_rdy, dmem_rdy, write
  <2>5. QED
    BY <2>1, <2>3, <2>4 DEF rdat, BusInv, HostReadIsOwn
<1>2. QED
  BY <1>1, BusInductive, PTL

\* The owner of the bus, and what a write of either master looks like on it.
LEMMA OwnerWrites ==
  ASSUME BusInv, NEW r \in {"DMEM", "CSR"}
  PROVE  /\ CpuWrites(r) => cpu_ack
         /\ cpu_ack /\ region = r /\ we # {} => CpuWrites(r)
         /\ HostWrites(r) => ~cpu_ack
         /\ ~cpu_ack /\ region = r /\ we # {} => HostWrites(r)
<1>1. ASSUME CpuWrites(r)
      PROVE  cpu_ack
  BY <1>1 DEF CpuWrites, vp_wack, cpu_rdy, cpu_ack, cpu_vld
<1>2. ASSUME cpu_ack, region = r, we # {}
      PROVE  CpuWrites(r)
  BY <1>2 DEF CpuWrites, vp_wack, cpu_rdy, cpu_ack, cpu_vld, region, we, dmem_sel, csr_sel,
              dmem_rdy, csr_rdy, write
<1>3. HostWrites(r) => ~cpu_ack
  BY DEF HostWrites, cpu_ack
<1>4. ASSUME ~cpu_ack, region = r, we # {}
      PROVE  HostWrites(r)
  BY <1>4, HostFacts DEF HostWrites, cpu_ack, region, we, BusInv
<1>5. QED
  BY <1>1, <1>2, <1>3, <1>4

(* DMEM and the register change only by a write that the CPU is told is    *)
(* done or by the host's strobe while the CPU is off the bus, in the word  *)
(* and the lanes the owner asked for (soc_fabric.sv 45-70 and 118,         *)
(* soc_ram.sv 35-77), for every host and every CPU.                        *)
THEOREM OwnersWrite == Spec => WritesByOwner
<1> DEFINE Owned ==
      /\ mem' = IF CpuWrites("DMEM") THEN Written(mem, cpu.word, cpu.we, cpu.wdat)
                ELSE IF HostWrites("DMEM")
                     THEN Written(mem, uart_word, u.bus_we, u.bus_wdat) ELSE mem
      /\ csr' = IF CpuWrites("CSR") THEN Merge(csr, cpu.we, cpu.wdat)
                ELSE IF HostWrites("CSR") THEN Merge(csr, u.bus_we, u.bus_wdat) ELSE csr
<1>1. ASSUME BusInv, Next
      PROVE  Owned
  <2>1. PICK rx \in Arriving : Clock(rx)
    BY <1>1 DEF Next
  <2>2. /\ mem' = IF dmem_vld THEN Written(mem, word, we, wdat) ELSE mem
        /\ csr' = IF csr_vld THEN Merge(csr, we, wdat) ELSE csr
    BY <2>1 DEF Clock, Ram, Csr
  <2>3. /\ we = {} => Written(mem, word, we, wdat) = mem
        /\ we = {} => Merge(csr, we, wdat) = csr
    BY <1>1, WireTypes, NothingWritten DEF BusInv, Types
  <2>4. ASSUME NEW r \in {"DMEM", "CSR"}, CpuWrites(r)
        PROVE  /\ word = cpu.word /\ we = cpu.we /\ wdat = cpu.wdat
               /\ region = r /\ cpu_vld
    <3>1. cpu_ack
      BY <1>1, <2>4, OwnerWrites
    <3>2. QED
      BY <2>4, <3>1 DEF CpuWrites, cpu_ack, word, we, wdat, region
  <2>5. ASSUME NEW r \in {"DMEM", "CSR"}, HostWrites(r)
        PROVE  /\ word = uart_word /\ we = u.bus_we /\ wdat = u.bus_wdat
               /\ region = r /\ u.bus_vld
    <3>1. ~cpu_ack
      BY <1>1, <2>5, OwnerWrites
    <3>2. QED
      BY <2>5, <3>1 DEF HostWrites, word, we, wdat, region
  <2>6. ASSUME NEW r \in {"DMEM", "CSR"}, ~CpuWrites(r), ~HostWrites(r), region = r
        PROVE  we = {}
    BY <1>1, <2>6, OwnerWrites
  <2>7. /\ CpuWrites("DMEM") \/ HostWrites("DMEM") => dmem_vld
        /\ CpuWrites("CSR") \/ HostWrites("CSR") => csr_vld
    BY <2>4, <2>5 DEF dmem_vld, csr_vld, dmem_sel, csr_sel
  <2>8. mem' = IF CpuWrites("DMEM") THEN Written(mem, cpu.word, cpu.we, cpu.wdat)
               ELSE IF HostWrites("DMEM")
                    THEN Written(mem, uart_word, u.bus_we, u.bus_wdat) ELSE mem
    <3>1. CASE CpuWrites("DMEM")
      BY <2>2, <2>4, <2>7, <3>1
    <3>2. CASE ~CpuWrites("DMEM") /\ HostWrites("DMEM")
      BY <2>2, <2>5, <2>7, <3>2
    <3>3. CASE ~CpuWrites("DMEM") /\ ~HostWrites("DMEM")
      <4>1. dmem_vld => we = {}
        BY <2>6, <3>3 DEF dmem_vld, dmem_sel
      <4>2. QED
        BY <2>2, <2>3, <3>3, <4>1
    <3>4. QED
      BY <3>1, <3>2, <3>3
  <2>9. csr' = IF CpuWrites("CSR") THEN Merge(csr, cpu.we, cpu.wdat)
               ELSE IF HostWrites("CSR") THEN Merge(csr, u.bus_we, u.bus_wdat) ELSE csr
    <3>1. CASE CpuWrites("CSR")
      BY <2>2, <2>4, <2>7, <3>1
    <3>2. CASE ~CpuWrites("CSR") /\ HostWrites("CSR")
      BY <2>2, <2>5, <2>7, <3>2
    <3>3. CASE ~CpuWrites("CSR") /\ ~HostWrites("CSR")
      <4>1. csr_vld => we = {}
        BY <2>6, <3>3 DEF csr_vld, csr_sel
      <4>2. QED
        BY <2>2, <2>3, <3>3, <4>1
    <3>4. QED
      BY <3>1, <3>2, <3>3
  <2>10. QED
    BY <2>8, <2>9
<1>2. BusInv /\ [Next]_vars => [Owned]_vars
  BY <1>1
<1>3. Spec => [][Owned]_vars
  BY <1>2, BusInductive, PTL DEF Spec
<1>4. QED
  BY <1>3 DEF WritesByOwner
=============================================================================
