# Verification of the openCologne-PCIE infrastructure

This directory holds TLA+ models of the SOC infrastructure of the repository,
the TLC runs that check them on small instances, and proofs of the properties
that matter most for every value of their constants. `PROJECT.json` lists the
runs, ties every definition to the source lines it stands for, and records the
hazards, findings and theorems.

    tlc -config SyncFifo.cfg SyncFifo        # a run
    tlapm SyncFifo_proofs.tla                # the proofs of a component

Paths below are relative to `src/`; `ip.infra` is `2.rtl/ip.infra`, `models`
is `5.sim/models`.

## 1. The system

The repository is the RTL infrastructure of a PCIe endpoint SOC and a
co-simulation environment for it. A small CPU runs out of IMEM and reaches DMEM
and a block of control/status registers (CSR) over a one-level bus. A UART is
at once a peripheral of the CPU and a second bus master: a host on the serial
line can open a *session*, load a program, and read and write DMEM and CSR. In
simulation the CPU is replaced by a virtual processor (VProc), under which C++
programs run, one of them an RV32 instruction-set simulator; a second virtual
processor drives a PCIe host model whose link training is C code.

    host ==serial==> uart.sv --(bus master)--+
                       |  ^                  v
                       |  +---CSR---+   soc_fabric.sv --> soc_ram.sv  (DMEM)
                       |            |     ^         \--> soc_csr.sv   (CSR)
                       +--IMEM write|     |
                       v            |     |
              IMEM <--> soc_cpu (VProc) --+

### Inventory

| Part | State it keeps | Operations | Hard about it | Makes it correct |
|---|---|---|---|---|
| RAM FIFO, `ip.infra/sync_fifo_ram.sv` | storage, two pointers, counter, registered empty, output | clock edge with read and/or write; asynchronous reset | flag computed one clock ahead; counter against pointers; storage has no reset | it is a queue; flags exact |
| Shift-register FIFO, `ip.infra/sync_fifo_srl.sv` | shift register, pointer/count in one register, output | the same | wrap-around at both ends; read on the reset edge | it is the same queue |
| UART host-command machine, `ip.infra/uart.sv:568-1185` | 41 states, addresses, data, counters, timeout, strobes | a byte arrives, a tick passes, the bus answers | silence at any byte; cleaning up after a timeout; one-clock strobes | what the host sent is written once; replies match; it always ends |
| UART serial part, `ip.infra/uart.sv:135-555` | tick divider, Rx and Tx shift machines, two FIFOs, overflow flag | bit edges, ticks, pushes, pops, software access | bit timing; FIFOs shared by sessions and software | bytes arrive as sent; overflow reported when it happens |
| Bus fabric, `ip.infra/soc_fabric.sv` | one bit: the UART has the bus | arbitration, decode, ready gating, all combinational | masters change in mid-access; starvation; stuck bus | each master gets its own data, once; no preemption; no lock-up |
| DMEM, `ip.infra/soc_ram.sv` | words, one output register, read-ready | read, write by lanes | one output and flag for two masters | a read returns the word asked for |
| CSR, `ip.infra/soc_csr.sv` | generated register block | ready at once | a request held over several clocks is several accesses | writes only by a master that has the bus |
| CPU wrapper, `models/soc_cpu.VPROC.sv` | none | maps VProc accesses to the bus or IMEM | acknowledgements from two places | acknowledged only by its own target |
| VProc scheduler, `models/cosim/f_VProc.v` | access under way, tick and burst counters | next access, burst beat, interrupt | back-to-back accesses; interrupt and access in one clock | one access at a time, in program order |
| Memory model, `models/cosim/f_mem_model.v` | memory (C side), read valid, burst state | slave port, write port, bursts | several ports in one clock | last write is read |
| LTSSM, `models/pcievhost/ltssm/ltssm.c` | program state, link parameters, event counters | Detect, Polling, Configuration, Disabled, Loopback; configuration calls | two ends train each other without timeouts; reads past an array and of an uninitialised counter | both reach L0 with the same link number |
| PCIe host, `models/pcievhost/verilog`, library | lane registers; packets, completions, configuration space | register port to the C model | - | - |
| Programs on the link, `5.sim/usercode/VUserMain1.cpp`, `VUserMain2.cpp` | configuration space; answer buffer and count | set up, train, size and assign BARs, walk the capabilities | answers come by callback while requests are sent; tags are not compared; no time limits | each answer belongs to its question; what is found is what was set up; it ends |
| VProc user API, `models/cosim/include` | interrupt vectors; the C stack of nested service routines | accesses, each of which polls first; interrupt methods; byte bursts | a poll acts on a snapshot while routines run inside it | routines nest by priority; a line that stays up is served; a burst writes its bytes only |
| ISS glue, `models/rv32/usercode/VUserMain0.cpp`, `vuserutils.cpp`, `getopt.c`, `mem_vproc_api.cpp` | options, memory, clock skew | read options, load, run, memory callback | every spelling of an option; lanes; two clocks kept together | options mean what they say; a load finds what was stored; the simulation goes on |
| Cache timing model, `rv32_cache.cpp` | valid tags, next victim per set | look up, fill | victims move on misses only | holds the lines missed last |
| Software UART, `uart.cpp` | registers, start of a transmission | register access, tick | a character takes simulated time | free at the tick its time is up, not before and not later |
| Testbench | - | stimulus | - | - |
| Wiring without behaviour: `cpu_fifo.sv`, `dpe_if*.sv`, `dprf_32x32bit.sv`, `clk_rst_gen.sv`, `debounce.sv` | little | - | - | - |

How they interact: the UART's machine takes bytes directly from its receiver
(`uart.sv:565-566`), not from the receive FIFO, and pushes replies into the
transmit FIFO while a session is open (541-543). It reaches DMEM and CSR through
the fabric as a second master, and IMEM through a port of its own. CPU and
UART share the fabric; ready and data come back gated by `uart_busy`. The CPU
learns of session bytes only through the bus being taken.

In simulation the programs run one per node, each blocked in the scheduler
whenever it makes an access or waits a clock (`f_VProc.v:158-301`). Nodes 1 and 2
are the two ends of the PCIe link: they meet only through training sequences and
packets. On node 0 the instruction-set simulator calls back into the glue for
every memory access, and the glue hands the simulator's time to the scheduler.

## 2. Modules

| Module | What it is |
|---|---|
| `FifoSpec` | The abstract queue that both FIFOs promise. |
| `SyncFifo` | `sync_fifo_ram.sv`; implements `FifoSpec` under the mapping `queue`. |
| `SyncFifoSrl` | `sync_fifo_srl.sv`; implements `FifoSpec`. |
| `UartHost` | The host-command machine of `uart.sv`. |
| `SocBus` | Fabric, DMEM, a CSR, the CPU wrapper and VProc's single accesses, composed with the machine of `UartHost` (`Host == INSTANCE UartHost`). |
| `MCSocBus` | Values of word-valued constants for the runs of `SocBus`. |
| `Ltssm` | The two ends of the link running `ltssm.c` against each other. |
| `MCLtssm` | Ends, settings and alignments for the runs of `Ltssm`. |
| `PcieEnum` | `VUserMain1.cpp` and `VUserMain2.cpp`: set-up and enumeration over the trained link. |
| `VProcIrq` | `VProcIrqClass.h`: polls and nested service routines. |
| `VProcClass` | `VProcClass.h`: byte lanes and burst arithmetic, with the beats of `f_VProc.v`; no state. |
| `MCVProcIrq` | The run of `VProcIrq`, which also evaluates the claims of `VProcClass` on small numbers. |
| `Rv32Options` | `parseArgs` and `getopt`, and the spellings of a command line that are its input. |
| `Rv32` | The glue around the instruction-set simulator, with cache and UART model. |
| `MCRv32` | Programs and command lines for the run of `Rv32`. |
| `SyncFifo_proofs`, `SyncFifoSrl_proofs`, `UartHost_proofs`, `SocBus_proofs`, `Ltssm_proofs`, `PcieEnum_proofs`, `VProcIrq_proofs` (with `VProcClass`), `Rv32_proofs` | The theorems. |

**FIFOs.** Variables are the registers of the source. `Clock(we, re, din)` is a
rising edge outside reset; `AssertReset` is the asynchronous reset edge, which
may come between any two clock edges; `ClockInReset` is a rising edge inside
reset, where the storage, which has no reset, may still take a word. Power-up
contents of storage and output register are arbitrary. The shift register cell
`fpga_srl` is not in the repository; `Shift` is external.

**UartHost.** All registers are the record `u`; `HostClock(rx, tick, bus)` is
one rising edge with the byte that the receiver delivers (or none), the 1us tick
and the bus's answer. The numbered states of the source (`..._WAIT_DATA0` to
`..._WAIT_DATA3`) are one state with a byte number `u.n`, and one action per
field stands for the states of the field. A byte is a pair of what it means as a command and as a
number. `uart_tx` joins `uart_tx_valid` and `uart_tx_data`. The checksum's value
is left out: a reply says that it is one, so nothing is shown about the sum
itself. `sent`, `writes` and `replies` are history variables over the command
under way; they guide no step.

The surroundings in `UartHost` deliver any byte or none in every state in
which the machine waits for one, in consecutive clocks if need be, and no byte in the
few clocks in which it does not wait: bytes are ten bit times, some seven
thousand clocks, apart. In `BUSR_WAIT_DATA`, which may last as long as the time limit, bytes
that arrive are ignored by the code, and none is modelled.

**SocBus.** Every wire is an operator with its name in the source, and
`Clock(rx)` is one rising edge of the whole: machine, fabric, RAM, CSR, CPU and
IMEM step together. The region of an address is decided by its top byte
(0 undecoded, 1 DMEM, 2 CSR) as the source does by the top nibble; the RAM uses
low address bits only. That no word bit comes from the top byte corresponds to
a RAM below 16 MB; for a larger one `HostReadsItsWord` could fail, because the
last address byte and the first clock of waiting are adjacent (`uart.sv:977-993`).
The CPU holds a request until it is acknowledged and may issue the next one in
that very clock (`f_VProc.v:181-222`). The generated register block behind
`soc_csr.sv` is external: one read-write register without side effects. The
Verilator variant of the wrapper samples on the falling edge
(`soc_cpu.VPROC.sv:135-147`) values that change only at rising ones, and behaves
the same at this level. Reset of the composition is the initial state only; a
reset in mid-operation resets all parts but the RAM contents, and the RAM's
initial contents are arbitrary.

**Ltssm.** A node is a sequential program that sends one thing at a time and then
looks at its counters; `st[n]` holds where it is, its statics and the event
counters that the receiving model keeps for it. Time is counted in idles: `due`
is what is left of a transmission, `wire` what is under way, `Pass` one unit of
time, `Step` the body of the loop a node is in, `Arrive` the receiver. The
counters count whether or not the program looks, and it may look late: that is
what training without timeouts has to live with. `ts2_count` before its first
write (`ltssm.c:328`) and the word behind `ltssm_ts_ctl` are chosen at random.
`InitLink` asks for L0, so the states that lead away from it are not entered. Links are
one lane wide; that Compliance writes `LINK_STATE` (`ltssm.c:169`) is modelled for that lane
only. Electrical idle is that of the lanes of `pcieVHost.v` (130-136), as they reach the
program in the Verilator variant of the x1 wrapper. In its other variant
`pcieVHostPipex1.v:74` puts a constant 0 before the lane's nine bits, so the lane
is never seen idle and Detect.Quiet exits at once. The properties of the run `ltssm` hold
as well when that exit is always taken at once.

**PcieEnum.** Stages of the root program stand for its requests; each stage sends
its list one by one (`Send`) while the link completes what is under way
(`Complete`) and the callback stores answers (`VUserInput_2`), in any order the
link allows. Register contents are sets of bits, so that sizing and masks are
modelled as they are. Completions and the read-only mask belong to the library
and are external. `ReleaseReset` is the rising edge that `pcieVHost.v:96` and 156-165
detect for one clock. That both programs wait for it by then is an
assumption on timing: `tb.sv:48-52` holds reset for `RST_CYLES`, and the programs get
there in a clock or two.

**VProcIrq.** There is no preemption: `processIrq` runs before each access and
calls routines from inside its loop, and routines make accesses that poll again.
The state is therefore a stack of frames, each in its own code, at an index of its
poll, in a routine it has called, or blocked. `kept` in a frame is history: its
line has been active since the routine began. Methods of the class may be called
at any moment in which a program's own code runs, and the lines change
whenever it is blocked. `MaxNest` bounds the nesting for TLC.

**VProcClass.** Lane sets and word counts as functions of address and length. A
burst of a single word is driven with its first enables only (`f_VProc.v:219`,
261-265); what becomes of its last enables is decided in the C library, so
nothing is claimed about it beyond the two sets that it is handed.

**Rv32Options** and **Rv32.** `Spelling` writes a list of settings in all the ways a
user may (joined, apart, value attached or not, end of line or not); `getopt` and
`Apply` read it back, and `Meaning` is the reference: each letter of the usage text is a
setting of its own. `Field`, which sends `-J` where `-j` goes, belongs to `Apply`
alone. `Rv32` then goes through
`VUserMain0` stage by stage. A program is any sequence of the fetches, loads,
stores and register accesses it is given; time is the skew between simulator and
bus clock. `want` holds what each byte ought to be, in a binary image the file's bytes to the
last one, whatever `read_binary` writes. `want`, `rd`, `recent` and `sent` are history. Numbers are scaled down
(an address space of 64 KB, four ticks a UART bit); the cache keeps the
geometry of its options. Program files have at least four bytes.

## 3. Runs

| Run | Checks | Bounds |
|---|---|---|
| `fifo_ram` | `TypeOK`, `FlagsExact`, `PointersAgree`, `Implements` | 4 places, 2 values: full, empty, and pointers wrapped against each other in all positions |
| `fifo_srl` | `TypeOK`, `CountLegal`, `Implements` | the same |
| `host` | all commands: writes, replies, strobes, CPU reset, and that a command ends | bytes have 2 values, words 2 bytes, addresses 1 byte, time limit 1 tick: lengths 0 to 3 with 0 meaning 4, so the counter wraps; a timeout at every byte |
| `bus` | `CpuReadsItsWord`, `HostReadsItsWord`, `WritesByOwner`, `NoPreemption`, and that CPU and host are served (`CpuEventuallyServed`, `HostGetsBus`) | 2 words of 1 byte, 2-byte addresses, all regions for the CPU, DMEM and CSR for the host, time limit 1 tick |
| `bus_stuck` | `CpuEventuallyServed` is violated | the host also uses an undecoded address |
| `bus_lost_write` | `HostWriteTakesEffect` is violated | as `bus` |
| `bus_imem_ack` | `CpuAckIsHandshake` is violated | the CPU also reads IMEM |
| `ltssm` | `LinkAgreed`, `FtsLearned`, `InStep`, and that matched ends reach L0 (`Trains`) | four starts a unit apart within a training sequence of four, two delays of the wire in each direction: every alignment; eight pairs of settings, each forced test, tests taken at random, settings that do not agree, a bad call |
| `enum` | `AnswersItsQuestion`, `EnumerationRight`, `ReadOnlyKept`, `Ends` | the one endpoint and the one program of the repository; three TLPs on the link, fewer than the five the program sends at a time, so that it also waits for room |
| `vproc_irq` | `NestedByPriority`, `Answered` | two lines, three routines at a time: a line interrupts another, itself after it was cleared, and is polled inside itself |
| `rv32` | `ParsedRight`, `ReadsWhatWasWritten`, `CacheIsFifo`, `TransmitterBusyForABit`, `SimulationGoesOn` | seven programs, seventeen command lines in every spelling, one of which names a file that there is not; 16 bytes of memory; each penalty, both ways of access, every size and lane; binary images of whole words, and one of six bytes at a load address that keeps its last two |
| `rv32_cache_top` | `OptionsAsDocumented` is violated | as `rv32` |

A word of one byte is enough for the bus because no property there depends on
lanes of one word being treated differently: `Merge` works lane by lane, and
lane sets are told apart in `host`. Two words tell a right address from a wrong
one. `IMPR` and `IMWR` are left to `host`, since they do not use the bus, only
the session, which the other commands open as well.

### Fairness

- `UartHost`: weak fairness of `Silence`, a clock with a tick in which no byte and
  no answer of the bus comes. The tick divider (`uart.sv:146-164`) runs from the
  same clock and depends on nothing else, and several ticks fit between two bytes,
  so such clocks always come; the host and the bus owe nothing.
- `SocBus`: weak fairness of `Quiet`, a clock without a byte in which an idle CPU
  stays idle. The clock does not stop and bytes are far apart, so such clocks
  always come; the host need not send another byte, nor software start another
  access. This matters: a bus that only a further session could free counts as
  stuck.
- `CpuEventuallyServed` supposes that sessions end for good, because an open
  session has no time limit in `WAIT_CMD` and legitimately keeps the CPU off the
  bus. `HostGetsBus` supposes that the CPU leaves the bus free again and again: the
  CPU has priority by design.
- `Ltssm`, `PcieEnum`, `Rv32`: weak fairness of the whole next-state relation: the
  simulator does not stop while nobody ends it, and in none of the three can one
  part run for ever without time passing, which the others need.
- `VProcIrq`: the program keeps making accesses that poll and its routines return
  (strong fairness, since either may call interrupt methods in between), polls end
  and accesses end (weak). The lines owe nothing.

`Trains` speaks of ends with the same link number and forced tests of which none
is Loopback; two ends that both force Loopback can wait for each other for good
(`ltssm.c:582` clears the count of idles that the partner may have sent already), and
an end that alone goes to Disabled or Loopback stops both. The runs `ltssm` and
`enum` therefore allow the system to stop, and `rv32` because a cache
that cannot be made ends the simulation.

### Findings

1. **The bus locks up** (`bus_stuck`). `uart_busy` falls only when the peripheral
   selected by the UART's last address is ready (`soc_fabric.sv:107,115`). After
   a session whose last address is not decoded, nothing is selected, and the CPU
   waits for ever although the UART has gone. The comment at 94-95 has the CPU
   wait only until the UART is done.
2. **A host write is lost** (`bus_lost_write`). `BUSW` raises its write enables
   for one clock and never looks at ready (`uart.sv:907,920-925`); if the CPU has
   the bus in that clock nothing is written and the host gets its checksum all the
   same. The comment at `soc_fabric.sv:95-96` says that the UART has to wait.
3. **An IMEM read is acknowledged by the bus** (`bus_imem_ack`).
   `soc_cpu.VPROC.sv:127` takes `bus.rdy` for a read that did not go to the bus;
   `soc_if.sv:35-36` defines a transaction by both `vld` and `rdy`. The late IMEM
   answer can then acknowledge the CPU's next DMEM read with a word that is not
   its own: `CpuReadsItsWord` fails as well if the CPU reads IMEM, which is why the
   theorem about it assumes that it does not.

4. **The top of the cached region cannot be set** (`rv32_cache_top`). `-J` is assigned
   to the base (`vuserutils.cpp:197-199`), over what `-j` has set; the usage text
   (`vuserutils.cpp:255-256`) and `5.sim/README.md:183-184` say that it is the top.
   `ParsedRight`, in the run `rv32`, claims nothing about the bounds of the cached region for a
   list of settings with `-J`, and everything the usage text says about all other
   settings.

Met while modelling, and modelled as the code does it, without runs of their own:

- *The last bytes of a binary image are lost.* `read_binary` flushes a partial word
  (`VUserMain0.cpp:326-329`) masked by the low bits of the load address where
  the number of bytes left over was meant: at an aligned address the last one to three bytes of
  the file become zero. `ReadsWhatWasWritten` asks for the file's bytes and fails for such
  an image; the run and the theorem keep to images of whole words, or loaded where
  the mask keeps what is left over (`TailKept`).
- *A character takes one bit time.* The comment at `uart.cpp:249-250` has the transmitter busy
  for a start, a stop, a parity and eight data bits; the code frees it after
  `UART_TICKS_PER_BIT`, "clock cycles for each bit" (`uart.h:46-47`). With the one tick of
  that header it is free at the second tick after the write. `TransmitterBusyForABit` is
  about what the code does.
- *The training control field is not sent.* Every `SendTs` of Polling and Configuration
  passes `ltssm_ts_ctl[VP_MAX_NODES]` (`ltssm.c:184, 205, 268, 288, 306, 325`), one past
  the array; the pcievhost README, lines 162 and 169, says that the configured value
  takes effect. In the model the word sent is arbitrary.
- Reading the software interrupt register writes it (`VUserMain0.cpp:213-218`);
  `CONFIG_LTSSM_N_FTS` defaults to 4, not to 255 as the pcievhost README says; a missing
  `vusermain.cfg` is read from all the same (`vuserutils.cpp:65-74`), which is outside the
  model.

## 4. Proofs

Every theorem holds for all constants that satisfy the named assumptions of the
modules: depths of at least 2, at least one byte per word and address, at least two
values of a byte, a time limit of at least one tick, at least one interrupt line, a
PCIe link that holds at least one TLP in each direction, two ends of a link being
trained, training sequences, timeouts and delays that take time, a bit of the software
UART that takes time. Each module states its assumptions where it declares the constants,
and the runs evaluate them.

- **FIFOs.** The inductive invariant is the conjunction of the type invariant,
  `FlagsExact` and `PointersAgree` (for the shift-register FIFO `CountLegal`):
  neither flag nor pointer equation is inductive alone, because a protected read is guarded by
  the flag and moves pointer and counter. Refinement is shown action by action:
  a protected write appends, a protected read takes the head, reset empties.
  Sequences are compared place by place with one lemma on equality of
  sequences; pointer arithmetic rests on `Slot`, which is wrap-around without a
  modulus.
- **UartHost.** The invariant adds `StrobesBrief`, which says in which states
  each strobe may be up: `QuietWhileWaiting` speaks of waiting states only and
  says nothing of the states that lead back to them. One lemma per action, under it one
  step per conjunct. `WritesAreAsSent` and `RepliesDoMatch` speak of whole commands
  and need the history invariant `HInv`: for each state of the machine, which
  bytes of the command have come, what the registers hold of them, which writes
  have been made and which bytes have been answered. `CountsAssumption` says
  that an instruction's length, given in bytes, is whole words.
- **SocBus.** `CpuIsNotPreempted` needs no invariant. `CpuReadIsRight` rests on
  `ReadIsOwn`: a read-ready flag that is up while the UART is off the bus belongs
  to the CPU's own read, and the output register holds the word at its address.
  A session that leaves the bus does so in a clock that clears the flag or reads
  no DMEM. Assumption: software reads no IMEM over the data port (finding 3).
  `HostReadIsRight` is the same question for the host (`HostReadIsOwn`): the word it is
  sent was read in the clock before, when its address was complete or lacked only the
  byte that selects the peripheral. It uses what is proved of the machine, so
  `SocBus_proofs` takes in `UartHost_proofs` by `INSTANCE` and shows that a step of the
  system is a step of the machine. `OwnersWrite` follows from `BusInv` step by step.
- **Ltssm.** `LinkAgrees` and `FtsLearnt` relate an end's state to what the
  other end sent a while ago, so the invariant describes the wire: what is on it was sent by
  its sender in order (`SentInv`), a link number on it means that the sender is in
  Configuration, or a test, or has sent an electrical idle behind it (`LinkInv`), and
  electrical idles are counted where they are sent, on the way and seen (`EiosInv`). Steps
  are first sorted by what they do to an end (`Moves`); each conjunct is then kept case
  by case. Least elements (`Minimum`, from the library's well-founded order on naturals)
  find the first of several sequences on the wire.
- **VProcIrq.** `NestedByPriority` compares two routines that were called at
  different times, so the invariant has to carry what each poll still holds:
  `KeptActive` (a routine that counts has its line active, so that a poll does
  not find it and `higher_active` sees it) and `FoundFresh` (no poll that is
  going on, or that has called a routine, holds a request for a line that counts below
  it). Most actions only move the top frame (`TopMoves`, `PollMoves`, both from
  `SameFrames`); `Calls` and `ReturnInductive` push and pop.
- **VProcClass.** `WordCount` and `BurstBytes`, in `VProcIrq_proofs`, are facts about all
  addresses and lengths; they follow from the uniqueness of quotient and
  remainder (`Split`).
- **PcieEnum.** `RightAnswer` says that what is in the receive buffer belongs to the last
  request. Inductive is only that at most one read is anywhere: still to be sent
  (`ReadsLast`: it is the last of its stage), on its way to the endpoint (`OneRead`), on
  its way back (`OneAnswer`), or in the buffer, and with the tag given out last.
  Nothing is said of addresses and data in that part (`IInv`), so that sequences are
  those "of whatever elements" (`IsSequence`). `ReadOnlyBitsKept` needs only that the
  configuration space keeps its domain. `EnumeratesRight` and `TypeCorrect` need the
  data (`EInv`, beside `IInv`): the requests that the endpoint has not handled are the
  last ones of the stage's list, in its order (`PendingInv`); each register holds what
  the requests handled so far have made of it (`ConfigInv`, `BarState`); an answer under
  way holds what the endpoint still holds at that address, since no write can be behind
  its read (`AnswerInv`); the locals of the program follow from its stage (`Known`) and
  the walk is in one of three capabilities (`CapAt`). One lemma (`StageKeeps`)
  carries all of it from a stage to the next. Words are sets of bits; which bits a
  number has is worked out once, from the powers of two (`BitsAre`).
- **Rv32.** The invariant has five parts, each kept by every step. `ConfInv`: the
  scan of the options stays within the words, and only letters and cores that there are
  get set. `TimeInv`: only between fetch and execution may the program be
  behind by more than `max_sync_diff` and an instruction. `CacheInv`: in each set the lines lie in
  the ways in the order in which they were missed, and `next` says which of two is older; a
  cache that is used has a geometry that the constructor accepts (`SetFilled` is
  the one replacement, case by case). `UartInv`: a busy transmitter counts
  exactly what has gone by since the write, from the tick that follows it; hence it is
  free at the first tick at which a bit's time is up (`TransmitterIsBusyForABit`).
  `LoadsFindStores` adds that each known byte is in
  the memory that its address goes to (`KnownHeld`). It supposes of the options
  (`MemoryRight`) that the region on the bus is whole words and does not hold the
  program file, because the loader writes to memory directly and a word is
  sent to the bus by its own address, not by those of its bytes; and that a binary image
  is whole words or loaded where its last bytes are kept (`TailKept`). All command
  lines of the run meet it. Of the programs it supposes that accesses are aligned
  (`ProgramsAssumption`).
  `ParsesRight` says that the options come to what the usage text says of them, for settings
  however many, but for the bounds of the cached region when `-J` is among them. A spelling is known by places, the word and the place in it where
  `getopt` stands before each setting (`Scans`). Settings that follow leave the
  places before them where they are, so a first setting whose place is wrong cannot be
  (`ToldGrown`, `SpellingTold`, with `Minimum` in place of induction); the end of
  the line is taken off again (`ArgsTold`), and `getopt` goes from each place to
  the next (`getoptReads`). The invariant (`ParseRight`) is that the scan is at the n-th
  place and what is set is what the first n settings come to by the fields of the
  code (`SetAsMeant`); at the end that is set beside `Meaning`, which knows no fields (`MeaningOf`).
  Its hypothesis `FilesSpell` is that each file is a spelling of what it is said
  to mean; TLC evaluates it for the command lines of the run
  (`FilesAssumption`). The other theorems hold for all files.

Checked by TLC only: all liveness (`CommandEnds`, `CpuEventuallyServed`,
`HostGetsBus`, `Trains`, `Ends`, `Answered`, `SimulationGoesOn`), which is beyond the
prover. Every invariant of the passing runs is also a theorem.

## 5. Plan

What is left, in order of importance:

1. Proofs: an abstract bus in which each access is atomic, implemented by `SocBus`.
2. `UartSerial`: tick divider, receiver, transmitter and both FIFOs (as
   `SyncFifo`), with the bit clock of the partner drifting within its tolerance;
   properties: bytes arrive as sent, overflow exactly when a software byte is
   lost, replies of a session are not dropped. Abstract specification: a lossy
   byte channel.
3. `VProcSched` with the memory model: delta cycles, interrupts in the clock of an
   access, both memory ports.
4. Recovery, L0s, L1 and L2 of the LTSSM, once a program uses them.
5. `Debounce`, and the earlier UARTs as instances of `UartHost`.

## 6. Not modelled

Besides what the plan lists: the RV32 simulator core and the PCIe protocol model are
prebuilt libraries (headers only); the generated CSR block, the AXI-stream FIFOs
behind `cpu_fifo.sv` and `dpe_if*.sv`, the shift-register cell and the PLL are
not in the repository; the test bench is stimulus; scripts, board files and
drawings have no behaviour. Of the parts that are modelled, left out are the LTSSM
states that no program reaches, register and CSR dumps and the gdb connection of
the simulator, and the keyboard side of the software UART, to which nothing is
connected. Electrical effects, metastability (`uart.sv:170-177`)
and timing closure are outside what a clock-level model can say.
