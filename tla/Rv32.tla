-------------------------------- MODULE Rv32 --------------------------------
(***************************************************************************)
(* 5.sim/models/rv32/usercode: the program that puts the instruction-set   *)
(* simulator on the processor's node of the simulation.  It reads its      *)
(* options, sets the simulator up, loads a program and runs it; each       *)
(* memory access of the program comes back to ext_mem_access, which gives  *)
(* the simulation the cycles it is behind, and goes to the bus, to memory  *)
(* directly, to a software UART or to the software interrupt.              *)
(*                                                                         *)
(* The simulator itself, the memory and the scheduler are libraries and    *)
(* modelled from their use.  The program is any sequence of instructions   *)
(* from a set; numbers are scaled down and given as constants; a word is   *)
(* four bytes, least significant first.                                    *)
(***************************************************************************)
EXTENDS Rv32Options

CONSTANTS
  Commands,         \* what vusermain.cfg may be: [file, meant]
  Numerals,         \* the number that a value stands for
  Programs,         \* by file name: [image, at, fetches, loads, stores, data, regs, swirq]
  DataBytes,        \* addresses of bytes of memory
  AddrSpace,        \* 2^32
  uart0_base_addr,
  sw_irq_addr,
  max_sync_diff,
  ILimit,           \* RV32_CACHE_DEFAULT_ILIMIT
  UART_TICKS_PER_BIT

VARIABLES
  pc,
  opt,          \* the options while they are read
  cfg,          \* flags and values that have been set
  load,         \* read_binary: index and buffer
  skew,         \* clk_cycles() - last_cycles
  timing,       \* cycles of a plain instruction, and extra ones
  ram, bus,     \* memory behind the direct calls, and behind the bus
  icache,
  uart,
  swirq, extirq,
  clk,          \* changes whenever the simulation is given time
  want,         \* history: what each byte was last to be set to, or Unknown
  rd,           \* history: the load just made
  recent,       \* history: the lines of the cache, oldest first, by set
  sent          \* history: cycles since a character was written to an idle UART

vars == <<pc, opt, cfg, load, skew, timing, ram, bus, icache, uart, swirq, extirq, clk,
          want, rd, recent, sent>>

NONE == -1
Unknown == -1
NoRead == [addr |-> 0, data |-> <<>>]

Has(f) == f \in DOMAIN cfg.values
Text(f, default) == IF Has(f) THEN cfg.values[f] ELSE default
strtol(v) == IF v \in DOMAIN Numerals THEN Numerals[v] ELSE 0
Number(f, default) == IF Has(f) THEN strtol(cfg.values[f]) ELSE default

exec_fname == Text("t", "test.exe")
NoProgram ==
  [image |-> <<>>, at |-> 0, fetches |-> {}, loads |-> {}, stores |-> {}, data |-> {},
   regs |-> {}, swirq |-> {}]
Exists == exec_fname \in DOMAIN Programs
Program == IF Exists THEN Programs[exec_fname] ELSE NoProgram

\* The simulation is given time; meanwhile vproc_irq_callback may be called.
Advance == clk' = 1 - clk /\ extirq' \in {0, 1}
NoAdvance == UNCHANGED <<clk, extirq>>

\* VTick of no clock gives no time.
VTick(n) == IF n > 0 THEN Advance ELSE NoAdvance
-----------------------------------------------------------------------------
(* VUserMain0 up to the run.                                               *)

Boot ==
  /\ pc = "boot"
  /\ VTick(20)
  /\ pc' = "file"
  /\ UNCHANGED <<opt, cfg, load, skew, timing, ram, bus, icache, uart, swirq, want, rd, recent, sent>>

OpenFile ==
  /\ pc = "file"
  /\ opt' = [opt EXCEPT !.p = Parse(ArgsOf(opt.file, "vusermain0"))]
  /\ pc' = "parse"
  /\ UNCHANGED <<cfg, load, skew, timing, ram, bus, icache, uart, swirq, extirq, clk, want, rd, recent, sent>>

parseArgs ==
  /\ pc = "parse" /\ ~opt.p.done
  /\ opt' = [opt EXCEPT !.p = ParseOption(@)]
  /\ UNCHANGED <<pc, cfg, load, skew, timing, ram, bus, icache, uart, swirq, extirq, clk, want, rd, recent, sent>>

\* What was needed for the parse is forgotten.
Parsed ==
  /\ pc = "parse" /\ opt.p.done
  /\ cfg' = [flags |-> opt.p.flags, values |-> opt.p.values]
  /\ pc' = IF opt.p.errors = 0 THEN "setup" ELSE "sleep"
  /\ opt' = [file |-> <<>>, meant |-> <<>>, p |-> Parse(<<>>)]
  /\ UNCHANGED <<load, skew, timing, ram, bus, icache, uart, swirq, extirq, clk, want, rd, recent, sent>>

\* Cycles of a core: linear, jump, load, store, trap, multiply and divide, float.
Cycles(core) ==
  CASE core = "DEFAULT"     -> <<1, 4, 3, 3, 4, 34, 4>>
    [] core = "PICORV32"    -> <<4, 4, 5, 5, 4, 4, 4>>
    [] core = "EDUBOS5STG2" -> <<2, 2, 3, 3, 2, 2, 2>>
    [] core = "EDUBOS5STG3" -> <<3, 3, 4, 4, 3, 3, 3>>
    [] core = "IBEXMULSGL"  -> <<1, 2, 2, 2, 1, 1, 1>>
    [] core = "IBEXMULFAST" -> <<1, 2, 2, 2, 1, 3, 1>>
    [] core = "IBEXMULSLOW" -> <<1, 2, 2, 2, 1, 33, 1>>

\* update_timing for each index in turn; what is extra is kept relative.
update_timing(core) ==
  LET c == Cycles(core) IN [linear |-> c[1], extra |-> [i \in 2 .. 7 |-> c[i] - c[1]]]

(* rv32_cache: the cached region is whole ways of whole sets, and a limit  *)
(* past the end of the address space is lost.  Lines hold addresses only.  *)
CacheOK(line, ways, sets) ==
  line \in {4, 8, 16} /\ ways \in {1, 2} /\ sets \in {128, 256, 512, 1024}

NoCache == [line |-> 0, ways |-> 0, sets |-> 0, base |-> 0, limit |-> 0, m |-> {}, next |-> {}]

NewCache(line, ways, sets, base, top) ==
  LET aligned(a) == a - (a % (sets * line))
  IN  [line |-> line, ways |-> ways, sets |-> sets,
       base |-> aligned(base), limit |-> aligned((top + 1) % AddrSpace), m |-> {}, next |-> {}]

pre_run_setup ==
  LET line == Number("l", 8)
      ways == Number("w", 2)
      sets == Number("s", 256)
  IN  /\ pc = "setup"
      /\ timing' = update_timing(Text("V", "DEFAULT"))
      /\ IF "I" \notin cfg.flags THEN icache' = NoCache /\ pc' = "open"
         ELSE IF CacheOK(line, ways, sets)
         THEN icache' = NewCache(line, ways, sets, Number("j", 0), ILimit) /\ pc' = "open"
         ELSE icache' = NoCache /\ pc' = "exited"
      /\ UNCHANGED <<opt, cfg, load, skew, ram, bus, uart, swirq, extirq, clk, want, rd, recent, sent>>
-----------------------------------------------------------------------------
(* mem_vproc_api: accesses of one, two or four bytes.  On the bus a write  *)
(* puts its bytes in the lanes of the address and enables those lanes, and *)
(* a read takes the whole word and picks its bytes out of it.              *)

access_sim(a) == Number("x", AddrSpace - 1) <= a /\ a < Number("X", AddrSpace - 1)

Size == [byte |-> 1, hword |-> 2, word |-> 4]
Base(a) == a - (a % 4)

\* Faulty variant: a half word in the upper half is written to the lower.
LaneLow(a, size) == IF size = "byte" THEN a % 4 ELSE 0

Lane(a, size) == IF size = "byte" THEN a % 4 ELSE IF size = "hword" THEN 2 * ((a \div 2) % 2) ELSE 0

\* Bytes from..from + n - 1 of a memory replaced by those of a value.
Put(m, from, n, data) ==
  [b \in DOMAIN m |-> IF from <= b /\ b < from + n THEN data[b - from] ELSE m[b]]

Take(m, from, n) == [i \in 0 .. n - 1 |-> m[from + i]]

ReadBytes(a, size) ==
  IF access_sim(a) THEN Take(bus, Base(a) + Lane(a, size), Size[size])
  ELSE IF size = "word" THEN Take(ram, a, 4) ELSE Take(ram, Base(a) + Lane(a, size), Size[size])

Write(a, size, data) ==
  IF access_sim(a)
  THEN bus' = Put(bus, Base(a) + Lane(a, size), Size[size], data) /\ UNCHANGED ram
  ELSE ram' = Put(ram, a, Size[size], data) /\ UNCHANGED bus
-----------------------------------------------------------------------------
(* Loading, always directly to memory.  An ELF file is the library's;      *)
(* read_binary writes a word for every fourth byte; of the bytes that are  *)
(* left over it writes as many as the low bits of the load address say and *)
(* zeros for the others.  Either fails when there is no such file.         *)

NeedsFile == "g" \notin cfg.flags \/ Has("t")
run_or_not == IF "g" \in cfg.flags THEN "gdb" ELSE "int"

Set(m, from, data) ==
  [b \in DOMAIN m |-> IF b - from \in DOMAIN data THEN data[b - from] ELSE m[b]]

FileMissing ==
  /\ pc = "open" /\ NeedsFile
  /\ pc' = "post"
  /\ UNCHANGED <<opt, cfg, load, skew, timing, ram, bus, icache, uart, swirq, extirq, clk, want, rd, recent, sent>>

NoFile ==
  /\ pc = "open" /\ ~NeedsFile
  /\ pc' = run_or_not
  /\ UNCHANGED <<opt, cfg, load, skew, timing, ram, bus, icache, uart, swirq, extirq, clk, want, rd, recent, sent>>

read_elf ==
  /\ pc = "open" /\ NeedsFile /\ Exists /\ "B" \notin cfg.flags
  /\ LET image == [i \in 0 .. Len(Program.image) - 1 |-> Program.image[i + 1]]
     IN  ram' = Set(ram, Program.at, image) /\ want' = Set(want, Program.at, image)
  /\ pc' = run_or_not
  /\ UNCHANGED <<opt, cfg, load, skew, timing, bus, icache, uart, swirq, extirq, clk, rd, recent, sent>>

read_binary ==
  /\ pc = "open" /\ NeedsFile /\ Exists /\ "B" \in cfg.flags
  /\ load' = [idx |-> 0, buf |-> [i \in 0 .. 3 |-> 0]]
  /\ pc' = "load"
  /\ UNCHANGED <<opt, cfg, skew, timing, ram, bus, icache, uart, swirq, extirq, clk, want, rd, recent, sent>>

bin_load_addr == Number("L", 0)

WordAt(idx) == bin_load_addr + Base(idx)

ReadByte ==
  LET buf == [load.buf EXCEPT ![load.idx % 4] = Program.image[load.idx + 1]]
  IN  /\ pc = "load" /\ load.idx < Len(Program.image)
      /\ load' = [idx |-> load.idx + 1, buf |-> buf]
      /\ IF load.idx % 4 = 3
         THEN /\ ram' = Set(ram, WordAt(load.idx), buf)
              /\ want' = Set(want, bin_load_addr + Base(load.idx), buf)
         ELSE UNCHANGED <<ram, want>>
      /\ UNCHANGED <<pc, opt, cfg, skew, timing, bus, icache, uart, swirq, extirq, clk, rd, recent, sent>>

FlushPartialWord ==
  LET kept == [i \in 0 .. 3 |-> IF i < bin_load_addr % 4 THEN load.buf[i] ELSE 0]
      tail == [i \in 0 .. 3 |-> IF i < load.idx % 4 THEN load.buf[i] ELSE Unknown]
  IN  /\ pc = "load" /\ load.idx = Len(Program.image)
      /\ IF load.idx % 4 # 0
         THEN /\ ram' = Set(ram, WordAt(load.idx), kept)
              /\ want' = Set(want, WordAt(load.idx), tail)
         ELSE UNCHANGED <<ram, want>>
      /\ load' = [idx |-> 0, buf |-> [i \in 0 .. 3 |-> 0]]
      /\ pc' = run_or_not
      /\ UNCHANGED <<opt, cfg, skew, timing, bus, icache, uart, swirq, extirq, clk, rd, recent, sent>>

\* The debugger takes over the run, or cannot open its port.
StartGdb ==
  /\ pc = "gdb"
  /\ pc' \in {"int", "post"}
  /\ UNCHANGED <<opt, cfg, load, skew, timing, ram, bus, icache, uart, swirq, extirq, clk, want, rd, recent, sent>>
-----------------------------------------------------------------------------
(* uart.cpp.  The two transmit bits of the line status go together.  No    *)
(* keyboard is ever connected, so nothing is received and the only cause   *)
(* of an interrupt is a free transmitter; the line, modem and divider      *)
(* registers are written and never read.  start is the time since          *)
(* start_time, NONE when that is zero.                                     *)
NewUart == [ready |-> TRUE, thri |-> FALSE, iir |-> "NONE", start |-> NONE]

\* Faulty variant: the start time is not cleared at the end.
TransmittedKeepsStart(u) == [u EXCEPT !.ready = TRUE]

Transmitted(u) == [u EXCEPT !.ready = TRUE, !.start = NONE]

uart_tick(u) ==
  LET begun == IF ~u.ready /\ u.start = NONE THEN [u EXCEPT !.start = 0] ELSE u
      done  == IF begun.start = NONE \/ begun.start >= UART_TICKS_PER_BIT
               THEN Transmitted(begun) ELSE begun
  IN  [done EXCEPT !.iir = IF done.ready /\ done.thri THEN "EMP" ELSE "NONE"]

uart_write(u, reg, data) ==
  CASE reg = "RBR" -> [u EXCEPT !.ready = FALSE]
    [] reg = "IER" -> [u EXCEPT !.thri = (data = 1)]
    [] OTHER -> u

\* Cycles go by: for the skew, for the UART's start time, and for the history.
Later(t, n) ==
  IF t = NONE THEN NONE ELSE IF t + n > UART_TICKS_PER_BIT THEN UART_TICKS_PER_BIT + 1 ELSE t + n

\* iss_int_callback, at every instruction.
iss_int_callback ==
  /\ pc = "int"
  /\ uart' = uart_tick(uart)
  /\ sent' = IF uart'.ready THEN NONE ELSE sent
  /\ rd' = NoRead
  /\ pc' = "fetch"
  /\ UNCHANGED <<opt, cfg, load, skew, timing, ram, bus, icache, swirq, extirq, clk, want, recent>>
-----------------------------------------------------------------------------
(* rv32_cache_access.                                                      *)
Cached(a) == icache.base <= a /\ a < icache.limit
LineOf(a) == a \div icache.line
SetOf(a) == LineOf(a) % icache.sets
Hit(a) == \E e \in icache.m : e.set = SetOf(a) /\ e.addr = LineOf(a)

\* Faulty variant: the way to replace next changes with every access.
Turns(miss) == icache.ways = 2

Toggles(miss) == icache.ways = 2 /\ miss

Fill(a) ==
  LET way == IF SetOf(a) \in icache.next THEN 1 ELSE 0
  IN  {e \in icache.m : e.set # SetOf(a) \/ e.way # way}
        \cup {[way |-> way, set |-> SetOf(a), addr |-> LineOf(a)]}

rv32_cache_access(a) ==
  icache' = [icache EXCEPT
               !.m = IF Hit(a) THEN @ ELSE Fill(a),
               !.next = IF ~Toggles(~Hit(a)) THEN @
                        ELSE IF SetOf(a) \in @ THEN @ \ {SetOf(a)} ELSE @ \cup {SetOf(a)}]

\* What a first-in first-out cache would hold.
Members(q) == {q[i] : i \in DOMAIN q}
Lines(s) == IF s \in DOMAIN recent THEN recent[s] ELSE <<>>

Refilled(a) ==
  LET old == Lines(SetOf(a))
      new == Append(old, LineOf(a))
      kept == IF Len(new) > icache.ways THEN Tail(new) ELSE new
  IN  [s \in DOMAIN recent \cup {SetOf(a)} |-> IF s = SetOf(a) /\ LineOf(a) \notin Members(old)
                                               THEN kept ELSE Lines(s)]
-----------------------------------------------------------------------------
(* ext_mem_access.  First the simulation is given the cycles it is behind: *)
(* before every access to the bus, and before an instruction is read       *)
(* elsewhere once they are many.                                           *)

\* Faulty variant: only accesses to the bus give the simulation time.
SyncsBus(a, instr) == access_sim(a)

Syncs(a, instr) == access_sim(a) \/ (instr /\ skew >= max_sync_diff)

\* Faulty variant: the cycles are taken as made up before they are counted.
TimeAfter(a, instr, onbus) == IF onbus THEN Advance ELSE NoAdvance

\* The clocks go by, and those of the access itself when it is on the bus.
Time(a, instr, onbus) == IF onbus THEN Advance ELSE VTick(IF Syncs(a, instr) THEN skew ELSE 0)

Behind(a, instr, n) == IF Syncs(a, instr) THEN n ELSE skew + n

penalty_slow_mem == Number("P", 4)

IsUart(a) == uart0_base_addr <= a /\ a < uart0_base_addr + 32

\* An instruction is read; the data is the library's business.
Fetch(a) ==
  LET cached == "I" \in cfg.flags /\ Cached(a)
      miss == "I" \in cfg.flags /\ (~Cached(a) \/ ~Hit(a))
      wait == 1 + (IF miss THEN (penalty_slow_mem * icache.line) \div 4 ELSE 0)
  IN  /\ pc = "fetch"
      /\ Time(a, TRUE, access_sim(a))
      /\ skew' = Behind(a, TRUE, wait)
      /\ uart' = [uart EXCEPT !.start = Later(@, wait)]
      /\ sent' = Later(sent, wait)
      /\ IF cached THEN rv32_cache_access(a) /\ recent' = Refilled(a) ELSE UNCHANGED <<icache, recent>>
      /\ pc' = "exec"
      /\ UNCHANGED <<opt, cfg, load, timing, ram, bus, swirq, want, rd>>

\* An instruction ends that has made no access.
Execute(class) ==
  LET n == timing.linear + (IF class = 1 THEN 0 ELSE timing.extra[class])
  IN  /\ pc = "exec"
      /\ skew' = skew + n
      /\ uart' = [uart EXCEPT !.start = Later(@, n)]
      /\ sent' = Later(sent, n)
      /\ pc' = "int"
      /\ UNCHANGED <<opt, cfg, load, timing, ram, bus, icache, swirq, extirq, clk, want, rd, recent>>

Load(a, size) ==
  LET n == 1 + timing.linear + timing.extra[3]
  IN  /\ pc = "exec" /\ ~IsUart(a) /\ a # sw_irq_addr
      /\ Time(a, FALSE, access_sim(a))
      /\ skew' = Behind(a, FALSE, n)
      /\ uart' = [uart EXCEPT !.start = Later(@, n)]
      /\ sent' = Later(sent, n)
      /\ rd' = [addr |-> a, data |-> ReadBytes(a, size)]
      /\ pc' = "int"
      /\ UNCHANGED <<opt, cfg, load, timing, ram, bus, icache, swirq, want, recent>>

Store(a, size, data) ==
  LET n == timing.linear + timing.extra[4]
  IN  /\ pc = "exec" /\ ~IsUart(a) /\ a # sw_irq_addr
      /\ Time(a, FALSE, access_sim(a))
      /\ skew' = Behind(a, FALSE, n)
      /\ uart' = [uart EXCEPT !.start = Later(@, n)]
      /\ sent' = Later(sent, n)
      /\ Write(a, size, data)
      /\ want' = [b \in DOMAIN want |->
                    IF a <= b /\ b < a + Size[size] THEN data[b - a] ELSE want[b]]
      /\ pc' = "int"
      /\ UNCHANGED <<opt, cfg, load, timing, icache, swirq, rd, recent>>

\* A register of the UART is written, or read: nothing here changes by a read.
UartAccess(reg, data, write) ==
  LET a == uart0_base_addr
      n == timing.linear + (IF write THEN timing.extra[4] ELSE timing.extra[3])
  IN  /\ pc = "exec"
      /\ Time(a, FALSE, FALSE)
      /\ skew' = Behind(a, FALSE, n)
      /\ LET now == [uart EXCEPT !.start = Later(@, n)]
         IN  uart' = IF write THEN uart_write(now, reg, data) ELSE now
      /\ sent' = IF write /\ reg = "RBR" /\ uart.ready THEN 0 ELSE Later(sent, n)
      /\ pc' = "int"
      /\ UNCHANGED <<opt, cfg, load, timing, ram, bus, icache, swirq, want, rd, recent>>

\* The software interrupt is set by a write, and by a read to what is found.
SwIrqAccess(data, write) ==
  LET a == sw_irq_addr
      n == timing.linear + (IF write THEN timing.extra[4] ELSE timing.extra[3])
  IN  /\ pc = "exec"
      /\ Time(a, FALSE, FALSE)
      /\ skew' = Behind(a, FALSE, n)
      /\ swirq' = data
      /\ uart' = [uart EXCEPT !.start = Later(@, n)]
      /\ sent' = Later(sent, n)
      /\ pc' = "int"
      /\ UNCHANGED <<opt, cfg, load, timing, ram, bus, icache, want, rd, recent>>

\* The run ends: a halt, or enough instructions.
Halt ==
  /\ pc = "exec"
  /\ pc' = "post"
  /\ UNCHANGED <<opt, cfg, load, skew, timing, ram, bus, icache, uart, swirq, extirq, clk, want, rd, recent, sent>>

post_run_actions ==
  /\ pc = "post"
  /\ pc' = "sleep"
  /\ UNCHANGED <<opt, cfg, load, skew, timing, ram, bus, icache, uart, swirq, extirq, clk, want, rd, recent, sent>>

SleepForever ==
  /\ pc = "sleep"
  /\ Advance
  /\ UNCHANGED <<pc, opt, cfg, load, skew, timing, ram, bus, icache, uart, swirq, want, rd, recent, sent>>
-----------------------------------------------------------------------------
(* What is assumed of the constants.                                       *)

\* A file is lines of words, and has a first line.
ASSUME CommandsAssumption ==
  \A c \in Commands :
    /\ c.file \in Seq([name : STRING, words : Seq([dash : BOOLEAN, chars : Seq(STRING)])])
    /\ c.file # <<>>

\* The fields that values are converted to are unsigned.
ASSUME NumeralsAssumption == \A v \in DOMAIN Numerals : Numerals[v] \in Nat

\* A bit takes time, and addresses are not negative.
ASSUME SizesAssumption ==
  /\ DataBytes \subseteq Nat /\ AddrSpace \in Nat \ {0} /\ uart0_base_addr \in Nat
  /\ max_sync_diff \in Nat /\ ILimit \in Nat
  /\ UART_TICKS_PER_BIT \in Nat \ {0}

\* The simulator makes no access that is not aligned.
Aligned(op) ==
  /\ op \in Nat \X {"byte", "hword", "word"}
  /\ op[1] % Size[op[2]] = 0
  /\ op[1] .. op[1] + Size[op[2]] - 1 \subseteq DataBytes

ASSUME ProgramsAssumption ==
  \A f \in DOMAIN Programs :
    LET P == Programs[f]
    IN  /\ P.image \in Seq(Nat) /\ P.at \in Nat
        /\ P.fetches \subseteq Nat
        /\ \A op \in P.loads \cup P.stores : Aligned(op)
        /\ P.data \subseteq [0 .. 3 -> Nat]
        /\ P.swirq \subseteq {0, 1}
-----------------------------------------------------------------------------
Init ==
  /\ pc = "boot"
  /\ \E c \in Commands : opt = [file |-> c.file, meant |-> c.meant, p |-> Parse(<<>>)]
  /\ cfg = [flags |-> {}, values |-> <<>>]
  /\ load = [idx |-> 0, buf |-> [i \in 0 .. 3 |-> 0]]
  /\ skew = 0
  /\ timing = update_timing("DEFAULT")
  /\ ram = [b \in DataBytes |-> 0]
  /\ bus = [b \in DataBytes |-> 0]
  /\ icache = NoCache
  /\ uart = NewUart
  /\ swirq = 0 /\ extirq = 0
  /\ clk = 0
  /\ want = [b \in DataBytes |-> Unknown]
  /\ rd = NoRead
  /\ recent = <<>>
  /\ sent = NONE

Next ==
  \/ Boot
  \/ OpenFile
  \/ parseArgs
  \/ Parsed
  \/ pre_run_setup
  \/ FileMissing
  \/ NoFile
  \/ read_elf
  \/ read_binary
  \/ ReadByte
  \/ FlushPartialWord
  \/ StartGdb
  \/ iss_int_callback
  \/ \E a \in Program.fetches : Fetch(a)
  \/ \E class \in {1, 2} : Execute(class)
  \/ \E op \in Program.loads : Load(op[1], op[2])
  \/ \E op \in Program.stores, data \in Program.data : Store(op[1], op[2], data)
  \/ \E reg \in Program.regs, data \in {0, 1}, write \in BOOLEAN : UartAccess(reg, data, write)
  \/ \E data \in Program.swirq, write \in BOOLEAN : SwIrqAccess(data, write)
  \/ Halt
  \/ post_run_actions
  \/ SleepForever

\* The scheduler runs the program whenever the simulation has done what it asked.
Spec == Init /\ [][Next]_vars /\ WF_vars(Next)
-----------------------------------------------------------------------------
(* Properties.                                                             *)

MaxOf(S) == CHOOSE x \in S : \A y \in S : y <= x
MaxWait == 1 + penalty_slow_mem * 4
MaxInstr == 1 + timing.linear + MaxOf({timing.extra[i] : i \in 2 .. 7})

\* Each variable has its type, and the program is never further ahead of the
\* simulation than max_sync_diff and one instruction.
TypeOK ==
  /\ pc \in {"boot", "file", "parse", "setup", "open", "load", "gdb", "int", "fetch", "exec",
             "post", "sleep", "exited"}
  /\ opt.p.optind \in 0 .. Len(opt.p.argv) + 2
  /\ cfg.flags \subseteq Flags /\ DOMAIN cfg.values \subseteq Valued
  /\ load.idx \in Nat
  /\ skew \in 0 .. max_sync_diff + MaxWait + MaxInstr
  /\ timing.linear \in 1 .. 4
  /\ ram \in [DataBytes -> Nat] /\ bus \in [DataBytes -> Nat]
  /\ icache.next \subseteq 0 .. 1023
  /\ icache.m \subseteq [way : {0, 1}, set : 0 .. 1023, addr : Nat]
  /\ uart.ready \in BOOLEAN /\ uart.thri \in BOOLEAN /\ uart.iir \in {"NONE", "EMP"}
  /\ uart.start \in NONE .. UART_TICKS_PER_BIT + 1
  /\ swirq \in {0, 1} /\ extirq \in {0, 1} /\ clk \in {0, 1}
  /\ sent \in NONE .. UART_TICKS_PER_BIT + 1

\* However the options are written - a value in the word of its letter or in
\* the next one, flags together or apart, the line ended or not - what has been
\* set is what the usage text says of the settings that were meant, and an error
\* is seen for exactly the bad ones.  Of a list with -J nothing is said about
\* the bounds of the cached region: they are not what the usage text says
\* (OptionsAsDocumented).
Bad(s) == s.c = "h" \/ (s.c = "V" /\ s.v \notin Cores) \/ (s.c = "D" /\ s.v \in Unwritable)

Confused(values) == IF "J" \in DOMAIN values THEN {"j", "J"} ELSE {}
Without(values, letters) == [c \in DOMAIN values \ letters |-> values[c]]

ParsedRight ==
  LET m == Meaning(opt.meant)
      confused == Confused(m.values)
  IN  pc = "parse" /\ opt.p.done =>
        /\ opt.p.errors = Cardinality({k \in DOMAIN opt.meant : Bad(opt.meant[k])})
        /\ opt.p.errors = 0 =>
             /\ opt.p.flags = m.flags
             /\ Without(opt.p.values, confused) = Without(m.values, confused)

\* The values that are set are those that the usage text speaks of, among them
\* "-j Specify cached IMEM base address" and "-J Specify cached IMEM top address"
\* (vuserutils.cpp:255-256 and 5.sim/README.md:183-184).
OptionsAsDocumented ==
  pc = "parse" /\ opt.p.done /\ opt.p.errors = 0 => opt.p.values = Meaning(opt.meant).values

\* Every file says what is meant by it.
FilesSpell == \A c \in Commands : SpellsOut(c.file, "vusermain0", c.meant)

\* A load finds in every byte what was last put there, by the program file, to
\* its last byte, or by a store of any size, directly or over the bus.  It does
\* not hold of a binary image whose last word is not whole and not kept by the
\* load address (FlushPartialWord).
ReadsWhatWasWritten ==
  \A i \in DOMAIN rd.data :
    want[rd.addr + i] # Unknown => rd.data[i] = want[rd.addr + i]

\* The cache holds the lines that were missed last, as many as there are ways,
\* each once.
CacheIsFifo ==
  \A s \in {e.set : e \in icache.m} \cup DOMAIN recent :
    LET held == {e \in icache.m : e.set = s}
    IN  /\ {e.addr : e \in held} = Members(Lines(s))
        /\ Cardinality(held) = Len(Lines(s))

\* The transmitter is busy from the write of a character until the first tick
\* of the UART at which the time of one bit has gone by since that write, and is
\* free from there, whatever is written and read meanwhile.  One bit is what the
\* code waits; the comment at uart.cpp:249-250 speaks of all the bits of a
\* character.
TransmitterBusyForABit ==
  [][~uart.ready => (uart'.ready <=> pc = "int" /\ sent >= UART_TICKS_PER_BIT)]_vars

\* Whatever the program does, and when it has ended or has not started, the
\* simulation is given time again and again, unless the cache could not be made.
SimulationGoesOn == <>(pc = "exited") \/ ([]<>(clk = 0) /\ []<>(clk = 1))
=============================================================================
