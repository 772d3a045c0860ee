------------------------------ MODULE PcieEnum ------------------------------
(***************************************************************************)
(* 5.sim/usercode/VUserMain1.cpp and VUserMain2.cpp: the two programs that *)
(* sit on the ends of the simulated PCIe link.  The endpoint fills in its  *)
(* configuration space and then only answers; the root waits for reset,    *)
(* trains the link, sizes and assigns the base address registers, reads    *)
(* them back, walks the capability list and ends the simulation.           *)
(*                                                                         *)
(* Link training is Ltssm; here both ends come up together.  The link      *)
(* itself, the endpoint's automatic completions and its read-only mask     *)
(* belong to the pcievhost library and are modelled from their use: TLPs   *)
(* stay in order, a completion of a read carries the whole word, and a     *)
(* DLLP acknowledges every TLP.  A word is the set of its one bits.        *)
(***************************************************************************)
EXTENDS Integers, Sequences, FiniteSets

CONSTANTS
  Depth   \* how many TLPs the link holds in each direction

ASSUME DepthAssumption == Depth \in Nat \ {0}

VARIABLES
  ep,         \* endpoint program: where it is, and its Interrupt flag
  config,     \* the endpoint's configuration space
  mask,       \* its read-only bits
  root,       \* root program: its locals
  ipbuf,      \* receive buffer of the root: the answer and its tag
  ip_byte_count,
  toEp, toRoot,
  released,   \* notReset
  pulse       \* ends that have not had the interrupt of its rising edge yet

vars == <<ep, config, mask, root, ipbuf, ip_byte_count, toEp, toRoot, released, pulse>>

Bits16(n) == {i \in 0 .. 15 : (n \div 2 ^ i) % 2 = 1}
Word(hi, lo) == {i + 16 : i \in Bits16(hi)} \cup Bits16(lo)
Ones == 0 .. 31
Byte(w, n) ==
  LET bit(i) == IF 8 * n + i \in w THEN 2 ^ i ELSE 0
  IN  bit(0) + bit(1) + bit(2) + bit(3) + bit(4) + bit(5) + bit(6) + bit(7)

\* Offsets and sizes of pci_express.h.
BarOffset == 16
CapabilitiesPtr == 52
HeaderSize == 64
PcieCapsSize == 60
MsiCapsSize == 24
PwrMgmtCapsSize == 8
PcieCaps == HeaderSize
MsiCaps == PcieCaps + PcieCapsSize
PwrMgmtCaps == MsiCaps + MsiCapsSize
ConfigSize == PwrMgmtCaps + PwrMgmtCapsSize
Addr == {4 * i : i \in 0 .. (ConfigSize \div 4) - 1}

BarAddr(k) == BarOffset + 4 * k
-----------------------------------------------------------------------------
(* ConfigureType0PcieCfg: the words that are not zero ...                  *)
Type0Value(a) ==
  CASE a = 0 -> Word(2, 5372)                      \* device and vendor
    [] a = 4 -> Word(16, 6)                        \* status and command
    [] a = 8 -> Word(640, 1)                       \* network controller, revision 1
    [] a \in {BarAddr(0), BarAddr(1)} -> Word(0, 8)   \* 32 bits, prefetchable
    [] a = BarAddr(2) -> Word(0, 12)               \* 64 bits, prefetchable
    [] a = CapabilitiesPtr -> Word(0, PcieCaps)
    [] a = PcieCaps -> Word(0, 256 * MsiCaps + 16)
    [] a = PcieCaps + 4 -> Word(0, 1)
    [] a = PcieCaps + 8 -> Word(0, 10256)
    [] a = PcieCaps + 12 -> Word(3, 64530)
    [] a = PcieCaps + 16 -> Word(145, 0)
    [] a = PcieCaps + 48 -> Word(0, 2)
    [] a = MsiCaps -> Word(128, 256 * PwrMgmtCaps + 5)
    [] a = PwrMgmtCaps -> Word(3, 1)
    [] a = PwrMgmtCaps + 4 -> Word(0, 8)
    [] OTHER -> {}

\* Faulty variant: the second base address register sized like the first.
Type0MaskBig(a) ==
  CASE a \in {BarAddr(0), BarAddr(1)} -> Word(0, 4095)
    [] a = BarAddr(3) -> Word(0, 1)
    [] OTHER -> Ones

\* ... and the bits that are not read-only.
Type0Mask(a) ==
  CASE a = 4 -> Word(65535, 64184)
    [] a = 12 -> Word(65535, 65280)
    [] a = BarAddr(0) -> Word(0, 4095)             \* 4K
    [] a = BarAddr(1) -> Word(0, 1023)             \* 1K
    [] a = BarAddr(3) -> Word(0, 1)                \* 8G with the bar before
    [] a = 48 -> Word(0, 2046)
    [] a = PcieCaps + 8 -> Word(65535, 0)
    [] a = PcieCaps + 16 -> Word(65535, 61444)
    [] a = PcieCaps + 48 -> Word(65535, 57455)
    [] a = MsiCaps -> Word(65422, 65535)
    [] a = MsiCaps + 4 -> Word(0, 3)
    [] a \in {MsiCaps + 8, MsiCaps + 16} -> {}
    [] a = MsiCaps + 12 -> Word(65535, 0)
    [] a = PwrMgmtCaps + 4 -> Word(65535, 57596)
    [] OTHER -> Ones

ConfigureType0PcieCfg ==
  /\ ep.pc = "Configure"
  /\ config' = [a \in Addr |-> Type0Value(a)]
  /\ mask' = [a \in Addr |-> Type0Mask(a)]
  /\ ep' = [ep EXCEPT !.pc = "Reset"]
  /\ UNCHANGED <<root, ipbuf, ip_byte_count, toEp, toRoot, released, pulse>>
-----------------------------------------------------------------------------
(* Reset: both programs send idles until the interrupt of its rising edge, *)
(* a pulse of one clock, has reached their ResetDeasserted.  Set-up takes  *)
(* a clock or two and the test bench holds reset for twelve.               *)

ReleaseReset ==
  /\ ~released
  /\ ep.pc = "Reset" /\ root.pc = "Reset"
  /\ released' = TRUE
  /\ pulse' = {"ep", "root"}
  /\ UNCHANGED <<ep, config, mask, root, ipbuf, ip_byte_count, toEp, toRoot>>

\* Faulty variant: the call looks at another line of the vector.
ResetDeassertedMissed(who) ==
  /\ who \in pulse
  /\ pulse' = pulse \ {who}
  /\ UNCHANGED <<ep, root, config, mask, ipbuf, ip_byte_count, toEp, toRoot, released>>

\* ResetDeasserted, called with the vector of the interrupt lines.
ResetDeasserted(who) ==
  /\ who \in pulse
  /\ pulse' = pulse \ {who}
  /\ IF who = "ep" THEN ep' = [ep EXCEPT !.irq = TRUE] /\ UNCHANGED root
                   ELSE root' = [root EXCEPT !.irq = TRUE] /\ UNCHANGED ep
  /\ UNCHANGED <<config, mask, ipbuf, ip_byte_count, toEp, toRoot, released>>

\* End of the loop: Interrupt is cleared and InitLink called.
LeaveReset(who) ==
  LET next(p) == [p EXCEPT !.irq = FALSE, !.pc = "Train"]
      out(p) == p.pc = "Reset" /\ p.irq
  IN  /\ IF who = "ep" THEN out(ep) /\ ep' = next(ep) /\ UNCHANGED root
                       ELSE out(root) /\ root' = next(root) /\ UNCHANGED ep
      /\ UNCHANGED <<config, mask, ipbuf, ip_byte_count, toEp, toRoot, released, pulse>>
-----------------------------------------------------------------------------
(* The root program as a list of stages.  In each stage it sends some      *)
(* requests, one after the other, and waits for the answer to the last.    *)

IdentAddr == <<0, 0, 8, 12, 4, 12>>    \* the words that hold what it asks for
BarValue ==
  <<Word(10872, 16384), Word(32265, 44032), {}, Word(2047, 63654)>>

Rd(a) == [op |-> "rd", addr |-> a, data |-> {}]
Wr(a, w) == [op |-> "wr", addr |-> a, data |-> w]

To(pc, k, requests, r) == [r EXCEPT !.pc = pc, !.k = k, !.todo = requests]

ToIdent(k, r) == To("Ident", k, <<Rd(IdentAddr[k])>>, r)

ToSize(k, r) == To("Size", k, <<Wr(BarAddr(k), Ones), Rd(BarAddr(k))>>, r)

ToAssign(r) ==
  To("Check", 0,
     <<Wr(BarAddr(0), BarValue[1]), Wr(BarAddr(1), BarValue[2]),
       Wr(BarAddr(2), BarValue[3]), Wr(BarAddr(3), BarValue[4]), Rd(BarAddr(0))>>, r)

ToCheck(k, r) == To("Check", k, <<Rd(BarAddr(k))>>, r)

ToCapPtr(r) == To("CapPtr", 0, <<Rd(CapabilitiesPtr)>>, r)

ToCap(k, r) == To("Cap", k, <<Rd(r.cap + k)>>, r)

ToQuiet(r) == To("Quiet", 0, <<>>, r)

LinkUp ==
  /\ ep.pc = "Train" /\ root.pc = "Train"
  /\ ep' = [ep EXCEPT !.pc = "Idle"]
  /\ root' = ToIdent(1, root)
  /\ UNCHANGED <<config, mask, ipbuf, ip_byte_count, toEp, toRoot, released, pulse>>

\* Faulty variant: the tag is not kept to five bits.
GetNextTagWide(tag) == tag + 1

GetNextTag(tag) == (tag + 1) % 32

\* cfgRead or cfgWrite, with the next tag.
Send ==
  /\ root.todo # <<>>
  /\ Len(toEp) < Depth
  /\ toEp' = Append(toEp, [req |-> Head(root.todo), tag |-> root.tag])
  /\ root' = [root EXCEPT !.todo = Tail(@), !.tag = GetNextTag(@)]
  /\ UNCHANGED <<ep, config, mask, ipbuf, ip_byte_count, toRoot, released, pulse>>

Running == root.pc # "Finished"

\* Faulty variant: the read-only bits are written too.
WrittenAll(old, ro, new) == new

\* A write of the root does not reach the bits in the mask.
Written(old, ro, new) == (old \cap ro) \cup (new \ ro)

\* The endpoint answers, and acknowledges, the next TLP.
Complete ==
  LET m == Head(toEp)
      a == m.req.addr
  IN  /\ Running /\ toEp # <<>>
      /\ Len(toRoot) + 2 <= 2 * Depth
      /\ toEp' = Tail(toEp)
      /\ config' = IF m.req.op = "wr"
                   THEN [config EXCEPT ![a] = Written(@, mask[a], m.req.data)] ELSE config
      /\ toRoot' = toRoot \o
           <<[kind |-> "dllp", tag |-> 0, data |-> {}],
             IF m.req.op = "rd" THEN [kind |-> "cpld", tag |-> m.tag, data |-> config[a]]
                                ELSE [kind |-> "cpl", tag |-> m.tag, data |-> {}]>>
      /\ UNCHANGED <<ep, mask, root, ipbuf, ip_byte_count, released, pulse>>

\* Called for every packet, whatever the program is doing.
VUserInput_2 ==
  LET m == Head(toRoot)
  IN  /\ Running /\ toRoot # <<>>
      /\ toRoot' = Tail(toRoot)
      /\ IF m.kind = "cpld"
         THEN ipbuf' = [data |-> m.data, tag |-> m.tag] /\ ip_byte_count' = 4
         ELSE UNCHANGED <<ipbuf, ip_byte_count>>
      /\ UNCHANGED <<ep, config, mask, root, toEp, released, pulse>>

\* Faulty variant: WaitForInput leaves the count as it is.
WaitForInputKeeps ==
  /\ root.todo = <<>> /\ ip_byte_count > 0
  /\ UNCHANGED ip_byte_count

WaitForInput ==
  /\ root.todo = <<>> /\ ip_byte_count > 0
  /\ ip_byte_count' = 0

\* The program goes on as r with the answer in ipbuf.
Answered(pc, r) ==
  /\ root.pc = pc
  /\ WaitForInput
  /\ root' = r
  /\ UNCHANGED <<ep, config, mask, ipbuf, toEp, toRoot, released, pulse>>

Identify ==
  Answered("Ident", IF root.k < 6 THEN ToIdent(root.k + 1, root) ELSE ToSize(0, root))

\* The loop over the base address registers; one of 64 bits takes two.
Locatable64(w) == w \cap {1, 2} = {2}

SizeBar ==
  LET k == root.k
      r == [root EXCEPT !.bar[k] = ipbuf.data,
                        !.upper = ~@ /\ Locatable64(ipbuf.data)]
  IN  Answered("Size", IF k < 5 \/ r.upper THEN ToSize(k + 1, r) ELSE ToAssign(r))

\* The values assigned, read back; the fourth is compared as it is.
CheckBar ==
  LET k == root.k
      got == IF k = 3 THEN ipbuf.data ELSE ipbuf.data \ {0, 1, 2, 3}
      r == [root EXCEPT !.errors = IF got = BarValue[k + 1] THEN @ ELSE @ + 1]
  IN  Answered("Check", IF k < 3 THEN ToCheck(k + 1, r) ELSE ToCapPtr(r))

\* Top of the loop over the capabilities.
NextCap(r) ==
  IF r.next = 0 THEN ToQuiet(r) ELSE ToCap(0, [r EXCEPT !.cap = r.next])

FirstCap == Answered("CapPtr", NextCap([root EXCEPT !.next = Byte(ipbuf.data, 0)]))

CapSize(id) ==
  CASE id = 16 -> PcieCapsSize
    [] id = 5 -> MsiCapsSize
    [] id = 1 -> PwrMgmtCapsSize
    [] OTHER -> 0

\* The first word of a capability, then the rest of it.
WalkCap ==
  LET id == Byte(ipbuf.data, 0)
      r == IF root.k > 0 THEN root
           ELSE [root EXCEPT !.next = Byte(ipbuf.data, 1), !.size = CapSize(id),
                             !.errors = IF CapSize(id) = 0 THEN @ + 1 ELSE @,
                             !.found = @ \cup {id}]
  IN  Answered("Cap", IF r.k + 4 < r.size THEN ToCap(r.k + 4, r) ELSE NextCap(r))

\* PVH_FINISH, after a while of idles: the simulation ends.
Finish ==
  /\ root.pc = "Quiet"
  /\ root' = [root EXCEPT !.pc = "Finished"]
  /\ UNCHANGED <<ep, config, mask, ipbuf, ip_byte_count, toEp, toRoot, released, pulse>>
-----------------------------------------------------------------------------
Init ==
  /\ ep = [pc |-> "Configure", irq |-> FALSE]
  /\ config = [a \in Addr |-> {}]
  /\ mask = [a \in Addr |-> {}]
  /\ root = [pc |-> "Reset", irq |-> FALSE, k |-> 0, todo |-> <<>>, tag |-> 0,
             bar |-> [k \in 0 .. 5 |-> {}], upper |-> FALSE, errors |-> 0,
             cap |-> 0, next |-> 0, size |-> 0, found |-> {}]
  /\ ipbuf = [data |-> {}, tag |-> 0]
  /\ ip_byte_count = 0
  /\ toEp = <<>> /\ toRoot = <<>>
  /\ released = FALSE
  /\ pulse = {}

Next ==
  \/ ConfigureType0PcieCfg
  \/ ReleaseReset
  \/ \E who \in {"ep", "root"} : ResetDeasserted(who)
  \/ \E who \in {"ep", "root"} : LeaveReset(who)
  \/ LinkUp
  \/ Send
  \/ Complete
  \/ VUserInput_2
  \/ Identify
  \/ SizeBar
  \/ CheckBar
  \/ FirstCap
  \/ WalkCap
  \/ Finish

\* The simulator keeps running both programs and the link.
Spec == Init /\ [][Next]_vars /\ WF_vars(Next)
-----------------------------------------------------------------------------
Words == SUBSET Ones
Tags == 0 .. 31
Stages == {"Reset", "Train", "Ident", "Size", "Check", "CapPtr", "Cap", "Quiet", "Finished"}

TypeOK ==
  /\ ep.pc \in {"Configure", "Reset", "Train", "Idle"} /\ ep.irq \in BOOLEAN
  /\ root.pc \in Stages /\ root.irq \in BOOLEAN
  /\ root.tag \in Tags /\ root.errors \in Nat
  /\ \A k \in 0 .. 5 : root.bar[k] \subseteq Ones
  /\ \A a \in Addr : config[a] \subseteq Ones /\ mask[a] \subseteq Ones
  /\ ipbuf.data \subseteq Ones /\ ipbuf.tag \in Tags
  /\ ip_byte_count \in {0, 4}
  /\ Len(toEp) <= Depth /\ Len(toRoot) <= 2 * Depth
  /\ \A i \in DOMAIN toEp : toEp[i].req.addr \in Addr /\ toEp[i].tag \in Tags
  /\ pulse \subseteq {"ep", "root"} /\ released \in BOOLEAN

(* The program never goes on with the answer to another request: what is   *)
(* in the receive buffer when it looks is the completion of the read it    *)
(* sent last, although completions come in at any time and requests that   *)
(* have no answer of their own are in flight with it.                      *)
AnswersItsQuestion ==
  ip_byte_count > 0 => root.todo = <<>> /\ ipbuf.tag = (root.tag + 31) % 32

(* Sizing writes all ones over every base address register, and whatever   *)
(* the root writes, no bit the endpoint declared read-only changes.        *)
ReadOnlyKept ==
  [][ep.pc # "Configure" =>
       \A a \in Addr : config'[a] \cap mask[a] = config[a] \cap mask[a]]_vars

\* The lowest address bit a sized register lets one set.
LowBit(w) == CHOOSE i \in w \ (0 .. 3) : \A j \in w \ (0 .. 3) : i <= j

(* When the program is through it has counted no error, has found the      *)
(* sizes VUserMain1.cpp:120-125 gives its registers and the three          *)
(* capabilities, has left the assigned addresses in the endpoint, and      *)
(* leaves nothing in flight.                                               *)
EnumerationRight ==
  root.pc \in {"Quiet", "Finished"} =>
    /\ root.errors = 0
    /\ LowBit(root.bar[0]) = 12 /\ LowBit(root.bar[1]) = 10
    /\ root.bar[2] = {2, 3} /\ root.bar[3] = Ones \ {0}
    /\ root.bar[4] = {} /\ root.bar[5] = {}
    /\ root.found = {1, 5, 16}
    /\ \A k \in 0 .. 3 :
         config[BarAddr(k)] = BarValue[k + 1] \cup (Type0Value(BarAddr(k)) \cap mask[BarAddr(k)])
    /\ toEp = <<>>
    /\ ip_byte_count = 0

(* The simulation comes to its end: no wait is for an answer that does not *)
(* come, and the walk over the capability list stops.                      *)
Ends == <>(root.pc = "Finished")
=============================================================================
