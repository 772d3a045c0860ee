------------------------------ MODULE UartHost ------------------------------
(***************************************************************************)
(* The host-command state machine of 2.rtl/ip.infra/uart.sv: bytes that    *)
(* arrive over the serial line open a session (SOP), and inside it load a  *)
(* program into the CPU's IMEM (IMPR), write one instruction (IMWR), or    *)
(* write and read DMEM and CSR as a second bus master (BUSW, BUSR).        *)
(*                                                                         *)
(* All registers of the machine are one record u; HostClock is one rising  *)
(* clock edge.  The numbered states of the source (..._WAIT_DATA0 to       *)
(* ..._WAIT_DATA3) are one state with the byte's number n.  uart_tx joins  *)
(* uart_tx_valid and uart_tx_data, whose value is never used without the   *)
(* other.  The value of a checksum is left out: a reply says that it is    *)
(* one.                                                                    *)
(***************************************************************************)
EXTENDS Integers, Sequences

CONSTANTS
  ByteRadix,     \* values of a byte (256)
  WordBytes,     \* bytes in a word of IMEM, DMEM or CSR (4)
  AddrBytes,     \* bytes in a bus address (4)
  TimeoutTicks   \* microseconds without a byte that end a session (2**21)

ASSUME ByteRadixAssumption == ByteRadix \in Nat /\ ByteRadix >= 2
ASSUME WordBytesAssumption == WordBytes \in Nat /\ WordBytes >= 1
ASSUME AddrBytesAssumption == AddrBytes \in Nat /\ AddrBytes >= 1
ASSUME TimeoutAssumption == TimeoutTicks \in Nat /\ TimeoutTicks >= 1

Byte == 0 .. ByteRadix - 1
Lane == 0 .. WordBytes - 1
Word == [Lane -> Byte]
Address == [0 .. AddrBytes - 1 -> Byte]
TopByte == AddrBytes - 1
Counts == ByteRadix * ByteRadix    \* values of a two-byte counter

\* The two bytes of an instruction's address number a whole count of words.
ASSUME CountsAssumption == Counts % WordBytes = 0

\* The codes the machine acts on; every other byte is "DATA" to it.
Command == {"SOP", "EOP", "IMPR", "BUSW", "BUSR", "IMWR"}

\* A byte from the receiver, or none: what it means as a command and as a number.
Rx == [valid : BOOLEAN, cmd : Command \cup {"DATA"}, data : Byte]

\* What goes into the transmit FIFO.
None == <<"none">>
Ack == <<"ack">>
Tout == <<"tout">>
Checksum == <<"checksum">>
Data(b) == <<"data", b>>
Reply == {None, Ack, Tout, Checksum} \cup {Data(b) : b \in Byte}

Programming == {"IMPR_WAIT_LEN", "IMPR_WAIT_DATA", "IMPR_CHECKSUM", "IMPR_DONE"}

\* States that wait for a byte, and give up after TimeoutTicks.
Timed == {"IMPR_WAIT_LEN", "IMPR_WAIT_DATA", "BUSW_WAIT_ADDR", "BUSW_WAIT_DATA",
          "BUSW_WAIT_WE", "BUSR_WAIT_ADDR", "IMWR_WAIT_ADDR", "IMWR_WAIT_DATA"}

Waiting == Timed \cup {"WAIT_SOP", "WAIT_CMD", "BUSR_WAIT_DATA"}

States == Waiting \cup Programming \cup
  {"BUSW_CHECKSUM", "BUSW_DONE", "BUSR_DATA", "BUSR_CHECKSUM", "BUSR_DONE",
   "IMWR_CHECKSUM", "IMWR_DONE", "TIMEOUT"}

VARIABLES
  u,        \* the registers
  sent,     \* history: bytes taken since the command
  writes,   \* history: IMEM and bus write strobes since the command
  replies   \* history: bytes put into the transmit FIFO since the command

vars == <<u, sent, writes, replies>>

ResetAddress == [i \in 0 .. AddrBytes - 1 |-> IF i = TopByte THEN 1 ELSE 0]

Reset ==
  [state |-> "WAIT_SOP", n |-> 0, cpu_rstn |-> TRUE,
   data_length |-> [i \in 0 .. 1 |-> 0], data_cnt |-> 0,
   ram_wen |-> FALSE, ram_addr |-> 0, ram_data |-> [i \in Lane |-> 0],
   bus_vld |-> FALSE, bus_we |-> {}, bus_addr |-> ResetAddress,
   bus_rdat |-> [i \in Lane |-> 0], bus_wdat |-> [i \in Lane |-> 0],
   timeout |-> 0, uart_tx |-> None]
-----------------------------------------------------------------------------
\* Two bytes, low byte first, as a number.
Number(two) == two[0] + two[1] * ByteRadix

\* An address with one of its two low bytes replaced.
WithByte(a, i, b) ==
  IF i = 0 THEN (a \div ByteRadix) * ByteRadix + b
           ELSE (a \div Counts) * Counts + b * ByteRadix + (a % ByteRadix)

\* The byte lanes that the low bits of a byte select.
Lanes(b) == {i \in Lane : (b \div 2^i) % 2 = 1}

\* Where the machine goes after byte number u.n of a field of len bytes.
NextByte(len) == IF u.n = len - 1 THEN 0 ELSE u.n + 1
After(len, next) == IF u.n = len - 1 THEN next ELSE u.state

WaitSop(rx) ==
  /\ u.state = "WAIT_SOP"
  /\ u' = IF rx.valid /\ rx.cmd = "SOP"
          THEN [u EXCEPT !.bus_vld = TRUE, !.state = "WAIT_CMD"]
          ELSE u

\* Faulty variant: the word counter is not cleared when programming starts.
BeginKeepsCount(cmd) ==
  CASE cmd = "IMPR" ->
         [u EXCEPT !.cpu_rstn = FALSE, !.timeout = 0, !.state = "IMPR_WAIT_LEN"]
    [] cmd = "BUSW" -> [u EXCEPT !.timeout = 0, !.state = "BUSW_WAIT_ADDR"]
    [] cmd = "BUSR" -> [u EXCEPT !.timeout = 0, !.state = "BUSR_WAIT_ADDR"]
    [] cmd = "IMWR" -> [u EXCEPT !.timeout = 0, !.state = "IMWR_WAIT_ADDR"]
    [] cmd = "EOP"  -> [u EXCEPT !.bus_vld = FALSE, !.state = "WAIT_SOP"]
    [] OTHER -> u

\* Faulty variant: the end of a session leaves the bus requested.
BeginKeepsBus(cmd) ==
  CASE cmd = "IMPR" ->
         [u EXCEPT !.cpu_rstn = FALSE, !.data_cnt = 0, !.timeout = 0,
                   !.state = "IMPR_WAIT_LEN"]
    [] cmd = "BUSW" -> [u EXCEPT !.timeout = 0, !.state = "BUSW_WAIT_ADDR"]
    [] cmd = "BUSR" -> [u EXCEPT !.timeout = 0, !.state = "BUSR_WAIT_ADDR"]
    [] cmd = "IMWR" -> [u EXCEPT !.timeout = 0, !.state = "IMWR_WAIT_ADDR"]
    [] cmd = "EOP"  -> [u EXCEPT !.state = "WAIT_SOP"]
    [] OTHER -> u

\* What each command starts; any other byte is dropped.
Begin(cmd) ==
  CASE cmd = "IMPR" ->
         [u EXCEPT !.cpu_rstn = FALSE, !.data_cnt = 0, !.timeout = 0,
                   !.state = "IMPR_WAIT_LEN"]
    [] cmd = "BUSW" -> [u EXCEPT !.timeout = 0, !.state = "BUSW_WAIT_ADDR"]
    [] cmd = "BUSR" -> [u EXCEPT !.timeout = 0, !.state = "BUSR_WAIT_ADDR"]
    [] cmd = "IMWR" -> [u EXCEPT !.timeout = 0, !.state = "IMWR_WAIT_ADDR"]
    [] cmd = "EOP"  -> [u EXCEPT !.bus_vld = FALSE, !.state = "WAIT_SOP"]
    [] OTHER -> u

\* An open session waits for a command without a time limit.
WaitCmd(rx) ==
  /\ u.state = "WAIT_CMD"
  /\ u' = IF rx.valid THEN Begin(rx.cmd) ELSE u

\* Faulty variant: the time limit is never reached.
GiveUpNever(tick) ==
  u' = [u EXCEPT !.timeout = IF tick /\ @ < TimeoutTicks THEN @ + 1 ELSE @]

\* Faulty variant: the limit is compared one tick too late.
GiveUpLate(tick) ==
  u' = IF u.timeout > TimeoutTicks
       THEN [u EXCEPT !.uart_tx = Tout, !.n = 0, !.state = "TIMEOUT"]
       ELSE [u EXCEPT !.timeout = IF tick THEN @ + 1 ELSE @]

\* Nothing came this clock: one more tick, or the end of the session.
GiveUp(tick) ==
  u' = IF u.timeout = TimeoutTicks
       THEN [u EXCEPT !.uart_tx = Tout, !.n = 0, !.state = "TIMEOUT"]
       ELSE [u EXCEPT !.timeout = IF tick THEN @ + 1 ELSE @]

\* A byte that comes in the very clock in which the time is up still counts.
NoByte(rx, tick) ==
  /\ u.state \in Timed /\ ~rx.valid
  /\ GiveUp(tick)

ImprLength(rx) ==
  /\ u.state = "IMPR_WAIT_LEN" /\ rx.valid
  /\ u' = [u EXCEPT !.data_length[u.n] = rx.data, !.timeout = 0,
                    !.n = NextByte(2), !.state = After(2, "IMPR_WAIT_DATA")]

\* Faulty variant: the word goes to the address of the one after it.
ImprDataOffByOne(rx) ==
  LET byte == [u EXCEPT !.ram_data[u.n] = rx.data, !.n = NextByte(WordBytes)]
  IN  /\ u.state = "IMPR_WAIT_DATA" /\ rx.valid
      /\ u' = IF u.n < WordBytes - 1
              THEN [byte EXCEPT !.timeout = 0]
              ELSE [byte EXCEPT !.data_cnt = (@ + 1) % Counts,
                                !.ram_addr = (u.data_cnt + 1) * WordBytes, !.ram_wen = TRUE,
                                !.uart_tx = Ack, !.state = "IMPR_CHECKSUM"]

\* The last byte of a word writes the word and acknowledges it; it leaves the
\* timer as it is.
ImprData(rx) ==
  LET byte == [u EXCEPT !.ram_data[u.n] = rx.data, !.n = NextByte(WordBytes)]
  IN  /\ u.state = "IMPR_WAIT_DATA" /\ rx.valid
      /\ u' = IF u.n < WordBytes - 1
              THEN [byte EXCEPT !.timeout = 0]
              ELSE [byte EXCEPT !.data_cnt = (@ + 1) % Counts,
                                !.ram_addr = u.data_cnt * WordBytes, !.ram_wen = TRUE,
                                !.uart_tx = Ack, !.state = "IMPR_CHECKSUM"]

BuswAddr(rx) ==
  /\ u.state = "BUSW_WAIT_ADDR" /\ rx.valid
  /\ u' = [u EXCEPT !.bus_addr[u.n] = rx.data, !.timeout = 0,
                    !.n = NextByte(AddrBytes), !.state = After(AddrBytes, "BUSW_WAIT_DATA")]

BuswData(rx) ==
  /\ u.state = "BUSW_WAIT_DATA" /\ rx.valid
  /\ u' = [u EXCEPT !.bus_wdat[u.n] = rx.data, !.timeout = 0,
                    !.n = NextByte(WordBytes), !.state = After(WordBytes, "BUSW_WAIT_WE")]

BuswWe(rx) ==
  /\ u.state = "BUSW_WAIT_WE" /\ rx.valid
  /\ u' = [u EXCEPT !.bus_we = Lanes(rx.data), !.timeout = 0, !.state = "BUSW_CHECKSUM"]

BusrAddr(rx) ==
  /\ u.state = "BUSR_WAIT_ADDR" /\ rx.valid
  /\ u' = [u EXCEPT !.bus_addr[u.n] = rx.data, !.timeout = 0,
                    !.n = NextByte(AddrBytes), !.state = After(AddrBytes, "BUSR_WAIT_DATA")]

\* Only the two low bytes of the instruction's address are replaced.
ImwrAddr(rx) ==
  /\ u.state = "IMWR_WAIT_ADDR" /\ rx.valid
  /\ u' = [u EXCEPT !.ram_addr = WithByte(@, u.n, rx.data), !.timeout = 0,
                    !.n = NextByte(2), !.state = After(2, "IMWR_WAIT_DATA")]

ImwrData(rx) ==
  /\ u.state = "IMWR_WAIT_DATA" /\ rx.valid
  /\ u' = [u EXCEPT !.ram_data[u.n] = rx.data, !.timeout = 0, !.n = NextByte(WordBytes),
                    !.ram_wen = (u.n = WordBytes - 1),
                    !.state = After(WordBytes, "IMWR_CHECKSUM")]

\* The only state that looks at the bus; bytes that arrive in it are lost.
BusrWait(bus, tick) ==
  /\ u.state = "BUSR_WAIT_DATA"
  /\ IF bus.rdy
     THEN u' = [u EXCEPT !.bus_rdat = bus.rdat, !.timeout = 0, !.state = "BUSR_DATA"]
     ELSE GiveUp(tick)

\* Faulty variant: the last byte of the word is never sent.
BusrDataOneShort ==
  /\ u.state = "BUSR_DATA"
  /\ u' = [u EXCEPT !.uart_tx = Data(u.bus_rdat[u.n]), !.n = NextByte(WordBytes - 1),
                    !.state = After(WordBytes - 1, "BUSR_CHECKSUM")]

BusrData ==
  /\ u.state = "BUSR_DATA"
  /\ u' = [u EXCEPT !.uart_tx = Data(u.bus_rdat[u.n]), !.n = NextByte(WordBytes),
                    !.state = After(WordBytes, "BUSR_CHECKSUM")]

\* Faulty variant: the acknowledgement stays in the transmit register.
ImprChecksumKeepsAck ==
  /\ u.state = "IMPR_CHECKSUM"
  /\ u' = IF u.data_cnt = Number(u.data_length)
          THEN [u EXCEPT !.ram_wen = FALSE, !.uart_tx = Checksum, !.state = "IMPR_DONE"]
          ELSE [u EXCEPT !.ram_wen = FALSE, !.timeout = 0, !.state = "IMPR_WAIT_DATA"]

\* After each word.  A length of zero is met only when the counter has gone round.
ImprChecksum ==
  /\ u.state = "IMPR_CHECKSUM"
  /\ u' = IF u.data_cnt = Number(u.data_length)
          THEN [u EXCEPT !.ram_wen = FALSE, !.uart_tx = Checksum, !.state = "IMPR_DONE"]
          ELSE [u EXCEPT !.ram_wen = FALSE, !.uart_tx = None, !.timeout = 0,
                         !.state = "IMPR_WAIT_DATA"]

\* The write enables were up for one clock; whether anyone took the write is not asked.
BuswChecksum ==
  /\ u.state = "BUSW_CHECKSUM"
  /\ u' = [u EXCEPT !.bus_we = {}, !.uart_tx = Checksum, !.state = "BUSW_DONE"]

BusrChecksum ==
  /\ u.state = "BUSR_CHECKSUM"
  /\ u' = [u EXCEPT !.uart_tx = Checksum, !.state = "BUSR_DONE"]

ImwrChecksum ==
  /\ u.state = "IMWR_CHECKSUM"
  /\ u' = [u EXCEPT !.ram_wen = FALSE, !.uart_tx = Checksum, !.state = "IMWR_DONE"]

Done ==
  \/ /\ u.state = "IMPR_DONE"
     /\ u' = [u EXCEPT !.cpu_rstn = TRUE, !.uart_tx = None, !.state = "WAIT_CMD"]
  \/ /\ u.state \in {"BUSW_DONE", "BUSR_DONE", "IMWR_DONE"}
     /\ u' = [u EXCEPT !.uart_tx = None, !.state = "WAIT_CMD"]

\* Faulty variant: a timeout leaves the CPU in reset.
AbandonInReset ==
  /\ u.state = "TIMEOUT"
  /\ u' = [u EXCEPT !.uart_tx = None, !.ram_wen = FALSE, !.bus_vld = FALSE,
                    !.state = "WAIT_SOP"]

\* A timeout ends the session and releases the CPU.
Abandon ==
  /\ u.state = "TIMEOUT"
  /\ u' = [u EXCEPT !.uart_tx = None, !.ram_wen = FALSE, !.cpu_rstn = TRUE,
                    !.bus_vld = FALSE, !.state = "WAIT_SOP"]

\* One rising edge: the byte the receiver delivers, the 1us tick, the bus's answer.
HostClock(rx, tick, bus) ==
  \/ WaitSop(rx) \/ WaitCmd(rx)
  \/ NoByte(rx, tick)
  \/ ImprLength(rx) \/ ImprData(rx) \/ ImprChecksum
  \/ BuswAddr(rx) \/ BuswData(rx) \/ BuswWe(rx) \/ BuswChecksum
  \/ BusrAddr(rx) \/ BusrWait(bus, tick) \/ BusrData \/ BusrChecksum
  \/ ImwrAddr(rx) \/ ImwrData(rx) \/ ImwrChecksum
  \/ Done \/ Abandon
-----------------------------------------------------------------------------
(* The surroundings of the machine on its own.  Bytes are at least ten bit *)
(* times apart, thousands of clocks, so none arrives in the few clocks in  *)
(* which the machine is not waiting; the bus answers as it likes.          *)
NoRx == [valid |-> FALSE, cmd |-> "DATA", data |-> 0]

Arriving ==
  {NoRx} \cup
  IF u.state \in {"WAIT_SOP", "WAIT_CMD"}
  THEN {[valid |-> TRUE, cmd |-> c, data |-> 0] : c \in Command \cup {"DATA"}}
  ELSE IF u.state \in Timed
       THEN {[valid |-> TRUE, cmd |-> "DATA", data |-> b] : b \in Byte}
  ELSE {}

NotReady == [rdy |-> FALSE, rdat |-> [i \in Lane |-> 0]]

BusAnswer ==
  {NotReady} \cup
  IF u.state = "BUSR_WAIT_DATA" THEN {[rdy |-> TRUE, rdat |-> w] : w \in Word} ELSE {}

\* The histories cover the command under way and are emptied after it.
Strobes(v) ==
  IF v.ram_wen THEN <<<<"IMEM", v.ram_addr \div WordBytes, v.ram_data, Lane>>>>
  ELSE IF v.bus_we # {} THEN <<<<"BUS", v.bus_addr, v.bus_wdat, v.bus_we>>>>
  ELSE << >>

Histories(rx) ==
  IF u'.state \in {"WAIT_SOP", "WAIT_CMD"}
  THEN sent' = << >> /\ writes' = << >> /\ replies' = << >>
  ELSE /\ sent' = IF rx.valid /\ u.state \in Timed THEN Append(sent, rx.data) ELSE sent
       /\ writes' = writes \o Strobes(u)
       /\ replies' = IF u.uart_tx = None THEN replies ELSE Append(replies, u.uart_tx)

Init == u = Reset /\ sent = << >> /\ writes = << >> /\ replies = << >>

Clock(tick) ==
  \E rx \in Arriving, bus \in BusAnswer : HostClock(rx, tick, bus) /\ Histories(rx)

Next == \E tick \in BOOLEAN : Clock(tick)

\* A tick in a clock without a byte and without an answer of the bus.
Silence == HostClock(NoRx, TRUE, NotReady) /\ Histories(NoRx)

\* The 1us tick is divided down from the same clock, and both keep running; many
\* ticks fit between two bytes.  Neither the host nor the bus owes anything.
Spec == Init /\ [][Next]_vars /\ WF_vars(Silence)
-----------------------------------------------------------------------------
\* How many bytes a state deals with, one at a time.
FieldBytes(state) ==
  IF state \in {"IMPR_WAIT_LEN", "IMWR_WAIT_ADDR"} THEN 2
  ELSE IF state \in {"BUSW_WAIT_ADDR", "BUSR_WAIT_ADDR"} THEN AddrBytes
  ELSE IF state \in {"IMPR_WAIT_DATA", "BUSW_WAIT_DATA", "BUSR_DATA", "IMWR_WAIT_DATA"}
       THEN WordBytes
  ELSE 1

TypeOK ==
  /\ u \in [state : States, n : Nat, cpu_rstn : BOOLEAN,
            data_length : [0 .. 1 -> Byte], data_cnt : 0 .. Counts - 1,
            ram_wen : BOOLEAN, ram_addr : Nat, ram_data : Word,
            bus_vld : BOOLEAN, bus_we : SUBSET Lane, bus_addr : Address,
            bus_rdat : Word, bus_wdat : Word,
            timeout : 0 .. TimeoutTicks, uart_tx : Reply]
  /\ u.n < FieldBytes(u.state)

(* Whenever the machine waits for a byte or for the bus, for however long  *)
(* that takes, none of its strobes is up: an IMEM word or a bus word is    *)
(* not written over and over, and no reply is repeated until the FIFO is   *)
(* full.                                                                   *)
QuietWhileWaiting ==
  u.state \in Waiting => ~u.ram_wen /\ u.bus_we = {} /\ u.uart_tx = None

(* The CPU is in reset during the whole of a programming command, and no   *)
(* way out of it, by completion or by timeout, leaves the CPU there.       *)
CpuHeldWhileProgramming ==
  /\ u.state \in Programming => ~u.cpu_rstn
  /\ ~u.cpu_rstn => u.state \in Programming \cup {"TIMEOUT"}

(* The bus is requested from SOP to EOP or timeout, and at no other time.  *)
SessionHoldsBus == u.bus_vld <=> u.state # "WAIT_SOP"

\* The host's view of the bytes it has sent.
WordAt(k) == [i \in Lane |-> sent[k + i]]
SentNumber == sent[1] + sent[2] * ByteRadix
ProgramLength == IF SentNumber = 0 THEN Counts ELSE SentNumber
Acks == [k \in 1 .. Len(writes) |-> Ack]

(* When a command has run to its end, the words written are those the host *)
(* has sent, each of them once and in order: the program from address 0 on *)
(* (65536 words when the length says 0), the instruction at an address     *)
(* that agrees with the one sent in the two bytes the command carries, the *)
(* bus word in the lanes asked for.                                        *)
WritesAsSent ==
  /\ u.state = "IMPR_DONE" =>
       writes = [k \in 1 .. ProgramLength |->
                   <<"IMEM", k - 1, WordAt(3 + (k - 1) * WordBytes), Lane>>]
  /\ u.state = "IMWR_DONE" =>
       /\ Len(writes) = 1
       /\ writes[1][2] % (Counts \div WordBytes) = SentNumber \div WordBytes
       /\ writes[1] = <<"IMEM", writes[1][2], WordAt(3), Lane>>
  /\ u.state = "BUSW_DONE" =>
       LET lanes == Lanes(sent[AddrBytes + WordBytes + 1])
       IN  writes = IF lanes = {} THEN << >>
                    ELSE <<<<"BUS", [i \in 0 .. AddrBytes - 1 |-> sent[1 + i]],
                             WordAt(AddrBytes + 1), lanes>>>>
  /\ u.state = "BUSR_DONE" => writes = << >>

(* A command is answered by exactly what the host waits for: one ACK per   *)
(* program word, the bytes of a word read, and last of all one checksum;   *)
(* or, when it is abandoned, one TOUT after the ACKs of just those words   *)
(* that were written.                                                      *)
RepliesMatch ==
  LET all == Append(replies, u.uart_tx)
  IN  /\ u.state = "IMPR_DONE" => all = Append(Acks, Checksum)
      /\ u.state \in {"BUSW_DONE", "IMWR_DONE"} => all = <<Checksum>>
      /\ u.state = "BUSR_DONE" =>
           all = Append([k \in 1 .. WordBytes |-> Data(u.bus_rdat[k - 1])], Checksum)
      /\ u.state = "TIMEOUT" => all = Append(Acks, Tout)

(* A command never hangs, whether the host falls silent in the middle of   *)
(* it or the bus never answers: the machine gets back to where it takes    *)
(* commands, or closes the session.                                        *)
CommandEnds ==
  u.state \notin {"WAIT_SOP", "WAIT_CMD"} ~> u.state \in {"WAIT_SOP", "WAIT_CMD"}
=============================================================================
