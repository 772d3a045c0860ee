------------------------------- MODULE SocBus -------------------------------
(***************************************************************************)
(* The SOC bus, clock by clock: soc_fabric.sv arbitrates between the CPU   *)
(* and the host-command machine of the UART and decodes addresses for      *)
(* soc_ram.sv (DMEM) and soc_csr.sv.  The CPU is the simulation model      *)
(* soc_cpu.VPROC.sv: it holds a request until it is acknowledged and may   *)
(* go straight on with the next one.                                       *)
(*                                                                         *)
(* Every wire between registers is an operator named as in the source;     *)
(* Clock is one rising edge of the common clock.                           *)
(***************************************************************************)
EXTENDS Integers, FiniteSets

CONSTANTS
  ByteRadix, WordBytes, AddrBytes, TimeoutTicks,   \* as in UartHost
  NumWords,       \* depth of the RAM
  HostCommands,   \* commands the host sends (bound of a model)
  HostRegions,    \* top bytes of the addresses the host sends
  HostBytes,      \* other bytes the host sends
  CpuRegions,     \* regions the CPU accesses
  CpuWords        \* words the CPU writes

ASSUME NumWordsAssumption == NumWords \in Nat /\ NumWords >= 1
ASSUME HostAssumption ==
  /\ HostCommands \subseteq {"SOP", "EOP", "IMPR", "BUSW", "BUSR", "IMWR", "DATA"}
  /\ HostRegions \cup HostBytes \subseteq 0 .. ByteRadix - 1
ASSUME CpuAssumption ==
  /\ CpuRegions \subseteq {"IMEM", "DMEM", "CSR", "NONE"}
  /\ CpuWords \subseteq [0 .. WordBytes - 1 -> 0 .. ByteRadix - 1]

VARIABLES
  u,                    \* registers of the host-command machine
  uart_busy,            \* fabric: the UART has the bus
  mem, dmem_rdat, rdy_rd,   \* RAM: contents, output register, read-ready
  csr,                  \* one control/status register
  cpu,                  \* the CPU's request
  imem_readdatavalid    \* IMEM answers the CPU's read

vars == <<u, uart_busy, mem, dmem_rdat, rdy_rd, csr, cpu, imem_readdatavalid>>

Host == INSTANCE UartHost WITH sent <- << >>, writes <- << >>, replies <- << >>

\* What UartHost assumes of the sizes.
ASSUME SizesAssumption ==
  /\ ByteRadix \in Nat /\ ByteRadix >= 2
  /\ WordBytes \in Nat /\ WordBytes >= 1
  /\ AddrBytes \in Nat /\ AddrBytes >= 1
  /\ TimeoutTicks \in Nat /\ TimeoutTicks >= 1
  /\ Host!Counts % WordBytes = 0

Lane == 0 .. WordBytes - 1
Word == [Lane -> 0 .. ByteRadix - 1]
Zero == [i \in Lane |-> 0]
RamWord == 0 .. NumWords - 1

\* Address decoding: the top byte of a UART address stands for its high nibble.
Region(top) ==
  IF top = 1 THEN "DMEM" ELSE IF top \in {2, 3} THEN "CSR" ELSE "NONE"

uart_region == Region(u.bus_addr[AddrBytes - 1])

\* The RAM looks at the low address bits only: addresses alias.
uart_word == u.bus_addr[0] % NumWords

\* The CPU's requests: a read, or a write in some lanes; or none.  Addresses
\* within a region are told apart in DMEM only.
Idle == [rd |-> FALSE, we |-> {}, region |-> "NONE", word |-> 0, wdat |-> Zero]

CpuPlaces ==
  {a \in CpuRegions \X RamWord : a[1] = "DMEM" \/ a[2] = 0}

CpuRequests ==
  {Idle}
  \cup {[rd |-> TRUE, we |-> {}, region |-> a[1], word |-> a[2], wdat |-> Zero] :
          a \in CpuPlaces}
  \cup {[rd |-> FALSE, we |-> be, region |-> a[1], word |-> a[2], wdat |-> d] :
          be \in (SUBSET Lane) \ {{}}, a \in CpuPlaces, d \in CpuWords}
-----------------------------------------------------------------------------
\* soc_cpu.VPROC: an access below 0x1000_0000 goes to IMEM and not to the bus.
cpu_vld == (cpu.rd \/ cpu.we # {}) /\ cpu.region # "IMEM"

\* Faulty variant: the CPU takes the bus whenever it wants it.
CpuAckAlways == cpu_vld

cpu_ack == cpu_vld /\ ~uart_busy

\* Faulty variant: the CPU's address is passed on for its writes only.
WordOfWrites == IF cpu_ack /\ cpu.we # {} THEN cpu.word ELSE uart_word

\* What the fabric passes on to both peripherals.
region == IF cpu_ack THEN cpu.region ELSE uart_region
word == IF cpu_ack THEN cpu.word ELSE uart_word
we == IF cpu_ack THEN cpu.we ELSE u.bus_we
wdat == IF cpu_ack THEN cpu.wdat ELSE u.bus_wdat

dmem_sel == region = "DMEM"
csr_sel  == region = "CSR"
dmem_vld == (u.bus_vld \/ cpu_vld) /\ dmem_sel
csr_vld  == (u.bus_vld \/ cpu_vld) /\ csr_sel

\* soc_ram: a write is ready at once, a read one clock later.
write    == we # {}
dmem_rdy == write \/ rdy_rd
csr_rdy  == TRUE

uart_done == (dmem_sel /\ dmem_rdy) \/ (csr_sel /\ csr_rdy)

\* Faulty variant: an answer meant for the CPU reaches the UART.
UartRdyUngated == IF dmem_sel THEN dmem_rdy ELSE csr_sel /\ csr_rdy

\* Nobody answers an address that is neither DMEM nor CSR.
uart_rdy ==
  IF dmem_sel THEN dmem_rdy /\ uart_busy ELSE csr_sel /\ csr_rdy /\ uart_busy

cpu_rdy ==
  IF dmem_sel THEN dmem_rdy /\ ~uart_busy ELSE csr_sel /\ csr_rdy /\ ~uart_busy

rdat == IF dmem_sel THEN dmem_rdat ELSE IF csr_sel THEN csr ELSE Zero

\* Acknowledgements to the virtual processor.  Neither asks whether the request
\* went to the bus.  Data is shown for accesses to the bus; IMEM's is left out.
vp_wack == cpu.we # {} /\ (cpu_rdy \/ cpu.region = "IMEM")
vp_rack == cpu.rd /\ (cpu_rdy \/ imem_readdatavalid)
vp_rdat == rdat

\* Faulty variant: the UART takes the bus in the middle of a CPU access.
NextBusyPreempts == IF uart_busy THEN ~uart_done \/ u.bus_vld ELSE u.bus_vld

\* Faulty variant, commented out in the source: done when all are ready.
NextBusyAllReady ==
  IF uart_busy THEN ~(dmem_rdy /\ csr_rdy) \/ u.bus_vld ELSE ~cpu_vld /\ u.bus_vld

\* Faulty variant: a session starts only at an address that is ready.
NextBusyWhenReady ==
  IF uart_busy THEN ~uart_done \/ u.bus_vld ELSE ~cpu_vld /\ u.bus_vld /\ uart_done

\* Arbitration.  Once started, the UART keeps the bus until its session is over
\* and what it addresses is ready; it starts in a clock the CPU does not want.
NextBusy == IF uart_busy THEN ~uart_done \/ u.bus_vld ELSE ~cpu_vld /\ u.bus_vld

Fabric == uart_busy' = NextBusy

\* A word with some of its lanes replaced.
Merge(old, lanes, new) == [i \in Lane |-> IF i \in lanes THEN new[i] ELSE old[i]]

Written(m, w, lanes, new) == [m EXCEPT ![w] = Merge(@, lanes, new)]

\* Faulty variant: the RAM writes whenever a write enable is up.
RamIgnoresVld ==
  /\ dmem_rdat' = mem[word]
  /\ mem' = Written(mem, word, we, wdat)
  /\ rdy_rd' = (dmem_vld /\ ~write /\ ~dmem_rdy)

\* The output register follows the address in every clock, accessed or not, and
\* takes the word as it was before a write.
Ram ==
  /\ dmem_rdat' = mem[word]
  /\ mem' = IF dmem_vld THEN Written(mem, word, we, wdat) ELSE mem
  /\ rdy_rd' = (dmem_vld /\ ~write /\ ~dmem_rdy)

\* The generated register block: every clock with a request is an access.
Csr == csr' = IF csr_vld THEN Merge(csr, we, wdat) ELSE csr

\* The virtual processor asks for its next access in the clock that ends this one.
Cpu ==
  IF cpu = Idle \/ vp_wack \/ vp_rack THEN cpu' \in CpuRequests ELSE cpu' = cpu

\* mem_model: a read is answered in the next clock, and not twice in a row.
Imem == imem_readdatavalid' = (cpu.rd /\ cpu.region = "IMEM" /\ ~imem_readdatavalid)

\* The bytes of the host, as far apart as in UartHost.
Arriving ==
  {Host!NoRx} \cup
  IF u.state \in {"WAIT_SOP", "WAIT_CMD"}
  THEN {[valid |-> TRUE, cmd |-> c, data |-> 0] : c \in HostCommands}
  ELSE IF u.state \in Host!Timed
  THEN {[valid |-> TRUE, cmd |-> "DATA", data |-> b] :
          b \in IF u.state \in {"BUSW_WAIT_ADDR", "BUSR_WAIT_ADDR"} /\ u.n = AddrBytes - 1
                THEN HostRegions ELSE HostBytes}
  ELSE {}

Clock(rx) ==
  /\ \E tick \in BOOLEAN :
       Host!HostClock(rx, tick, [rdy |-> uart_rdy, rdat |-> rdat])
  /\ Fabric
  /\ Ram
  /\ Csr
  /\ Cpu
  /\ Imem

\* Memories hold anything at power-up.
Init ==
  /\ u = Host!Reset
  /\ uart_busy = FALSE
  /\ mem \in [RamWord -> CpuWords]
  /\ dmem_rdat \in CpuWords
  /\ rdy_rd = FALSE
  /\ csr = Zero
  /\ cpu = Idle
  /\ imem_readdatavalid = FALSE

Next == \E rx \in Arriving : Clock(rx)

\* A clock in which no byte comes and an idle CPU stays idle.
Quiet == Clock(Host!NoRx) /\ (cpu = Idle => cpu' = Idle)

\* The clock keeps running and bytes are far apart; neither the host has to send
\* another byte nor an idle CPU to start another access.
Spec == Init /\ [][Next]_vars /\ WF_vars(Quiet)
-----------------------------------------------------------------------------
TypeOK ==
  /\ Host!TypeOK
  /\ uart_busy \in BOOLEAN
  /\ mem \in [RamWord -> Word]
  /\ dmem_rdat \in Word
  /\ rdy_rd \in BOOLEAN
  /\ csr \in Word
  /\ cpu \in CpuRequests
  /\ imem_readdatavalid \in BOOLEAN

(* A DMEM read of the CPU ends with the word that the RAM holds at the     *)
(* CPU's own address, although the RAM's one output register follows       *)
(* whichever master has the address lines, and a session may have left a   *)
(* read of its own under way.                                              *)
CpuReadsItsWord ==
  vp_rack /\ cpu.region = "DMEM" => vp_rdat = mem[cpu.word]

(* A word that the host is sent from DMEM is the one at the address it has *)
(* given, although the session reads DMEM in every other clock while the   *)
(* bytes of the new address come in.                                       *)
HostReadsItsWord ==
  u.state = "BUSR_WAIT_DATA" /\ uart_rdy /\ uart_region = "DMEM" =>
    rdat = mem[uart_word]

(* DMEM and the register change in no other way than by a write that the   *)
(* CPU is told is done, in the clock in which it is told, or by the host's *)
(* one-clock strobe while the CPU is off the bus: no write is done twice,  *)
(* to the other peripheral, or with the other master's address or data.    *)
CpuWrites(r) == vp_wack /\ cpu.region = r
HostWrites(r) == u.bus_we # {} /\ u.bus_vld /\ ~(cpu_vld /\ ~uart_busy) /\ uart_region = r

WritesByOwner ==
  [][/\ mem' = IF CpuWrites("DMEM") THEN Written(mem, cpu.word, cpu.we, cpu.wdat)
               ELSE IF HostWrites("DMEM")
                    THEN Written(mem, uart_word, u.bus_we, u.bus_wdat) ELSE mem
     /\ csr' = IF CpuWrites("CSR") THEN Merge(csr, cpu.we, cpu.wdat)
               ELSE IF HostWrites("CSR") THEN Merge(csr, u.bus_we, u.bus_wdat) ELSE csr]_vars

(* A CPU access that has got the bus keeps it until it is acknowledged,    *)
(* whatever the host does in the meantime.                                 *)
NoPreemption ==
  [][cpu_ack /\ ~vp_rack /\ ~vp_wack => cpu_ack']_vars

CpuWaits == cpu_vld /\ cpu.region \in {"DMEM", "CSR"}

(* Once the host keeps quiet, with no session open, every access of the    *)
(* CPU to DMEM or CSR is served: no session leaves the bus locked.         *)
CpuEventuallyServed ==
  <>[]~u.bus_vld => [](CpuWaits => <>(vp_rack \/ vp_wack))

(* A session gets the bus, or ends, if the CPU leaves it free again and    *)
(* again.                                                                  *)
HostGetsBus ==
  []<>~cpu_vld => [](u.bus_vld => <>(uart_busy \/ ~u.bus_vld))

(* What soc_fabric.sv says of the UART, that it has to wait if the CPU is  *)
(* using the bus: the host's write takes effect when its strobe is up.     *)
HostWriteTakesEffect ==
  [][u.bus_we # {} /\ uart_region = "DMEM" =>
       mem' = Written(mem, uart_word, u.bus_we, u.bus_wdat)]_vars

(* What soc_if.sv says of a transaction, that it is performed when both    *)
(* vld and rdy are 1: a read that the CPU is told is done was either       *)
(* requested on the bus and ready, or answered by IMEM.                    *)
CpuAckIsHandshake ==
  vp_rack => \/ cpu_vld /\ cpu_rdy
             \/ cpu.region = "IMEM" /\ imem_readdatavalid
=============================================================================
