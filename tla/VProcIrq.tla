------------------------------ MODULE VProcIrq ------------------------------
(***************************************************************************)
(* 5.sim/models/cosim/include/VProcIrqClass.h: nested vectored interrupts  *)
(* for a program on the virtual processor.  There is no preemption: every  *)
(* access of the program first polls the request lines in processIrq, and  *)
(* calls the service routine of a line from inside the poll.  A routine is *)
(* ordinary code, so it makes accesses, and polls, of its own: the stack   *)
(* of unfinished polls and routines is the state that matters.             *)
(*                                                                         *)
(* The request lines come from the simulation (updateIrqState) and change  *)
(* only while the program is blocked in an access.  The program may be any *)
(* that keeps accessing the bus and whose service routines return.         *)
(***************************************************************************)
EXTENDS Integers, Sequences, FiniteSets

CONSTANTS
  MAXINTERRUPTS,  \* lines, 0 the most urgent (32 in the code)
  MaxNest         \* bound: routines running at a time

ASSUME LinesAssumption == MAXINTERRUPTS \in Nat \ {0}
ASSUME NestAssumption == MaxNest \in Nat \ {0}

VARIABLES
  interrupt_enable,
  isr_enable,     \* vectors are sets of lines
  int_active,
  irq,
  edgeTriggered,
  isr,            \* lines that have a service routine
  stack           \* the main program, and the routines called by its polls

vars == <<interrupt_enable, isr_enable, int_active, irq, edgeTriggered, isr, stack>>

Lines == 0 .. MAXINTERRUPTS - 1
Main == MAXINTERRUPTS    \* stands for a line that is less urgent than all

(* A frame is a run of the main program or of the routine of line int.  It *)
(* is in code of its own, at index idx of a poll, calling the routine of   *)
(* line idx, or blocked in an access.  new is what the poll found when it  *)
(* began; kept says that int has been active since the frame began.        *)
Frame(i) == [int |-> i, at |-> "code", idx |-> 0, new |-> {}, kept |-> TRUE]

top == stack[Len(stack)]
SetTop(f) == [stack EXCEPT ![Len(stack)] = f]

\* The frames when the lines in cleared cease to be active.
Unkept(s, cleared) ==
  [k \in DOMAIN s |-> [s[k] EXCEPT !.kept = @ /\ s[k].int \notin cleared]]

\* Faulty variant: the loop goes one too far.
AdvancedLate(f) ==
  IF f.idx < MAXINTERRUPTS THEN [f EXCEPT !.at = "poll", !.idx = @ + 1]
                           ELSE [f EXCEPT !.at = "bus", !.idx = 0, !.new = {}]

\* The next index of the loop; after the last one the access itself is made.
Advanced(f) ==
  IF f.idx + 1 < MAXINTERRUPTS THEN [f EXCEPT !.at = "poll", !.idx = @ + 1]
                               ELSE [f EXCEPT !.at = "bus", !.idx = 0, !.new = {}]
-----------------------------------------------------------------------------
(* The accesses, and one clock of a tick, that begin with processIrq.      *)

\* Faulty variant: what is being served is requested again.
FoundAgain == isr_enable \cap irq

Found == (isr_enable \ int_active) \cap irq

Access ==
  /\ top.at = "code"
  /\ Len(stack) <= MaxNest
  /\ stack' = SetTop(IF interrupt_enable THEN [top EXCEPT !.at = "poll", !.new = Found]
                     ELSE [top EXCEPT !.at = "bus"])
  /\ UNCHANGED <<interrupt_enable, isr_enable, int_active, irq, edgeTriggered, isr>>

\* read is inherited from VProc as it is: it does not poll.
Read ==
  /\ top.at = "code"
  /\ stack' = SetTop([top EXCEPT !.at = "bus"])
  /\ UNCHANGED <<interrupt_enable, isr_enable, int_active, irq, edgeTriggered, isr>>

\* Faulty variant: a less urgent line that is active counts too.
HigherAny == \E h \in int_active : h # top.idx

higher_active == \E h \in int_active : h < top.idx

\* A level-triggered line is no longer active once its request is down.
Dropped == ({top.idx} \cap int_active) \ (irq \cup edgeTriggered)

serve == top.idx \in top.new /\ ~higher_active

PollPass ==
  /\ top.at = "poll" /\ ~serve
  /\ int_active' = int_active \ Dropped
  /\ stack' = Unkept(SetTop(Advanced(top)), Dropped)
  /\ UNCHANGED <<interrupt_enable, isr_enable, irq, edgeTriggered, isr>>

PollServe ==
  /\ top.at = "poll" /\ serve
  /\ int_active' = int_active \cup {top.idx}
  /\ stack' = IF top.idx \in isr
              THEN Append(Unkept(SetTop([top EXCEPT !.at = "isr"]), Dropped), Frame(top.idx))
              ELSE Unkept(SetTop(Advanced(top)), Dropped)
  /\ UNCHANGED <<interrupt_enable, isr_enable, irq, edgeTriggered, isr>>

\* The service routine returns to the poll that called it.
Return ==
  /\ Len(stack) > 1 /\ top.at = "code"
  /\ stack' = LET s == SubSeq(stack, 1, Len(stack) - 1)
              IN  [s EXCEPT ![Len(s)] = Advanced(@)]
  /\ UNCHANGED <<interrupt_enable, isr_enable, int_active, irq, edgeTriggered, isr>>

\* While the program is blocked the lines change, and in the end it goes on.
updateIrqState(newirq) ==
  /\ top.at = "bus"
  /\ irq' = newirq
  /\ UNCHANGED <<interrupt_enable, isr_enable, int_active, edgeTriggered, isr, stack>>

AccessDone ==
  /\ top.at = "bus"
  /\ stack' = SetTop([top EXCEPT !.at = "code"])
  /\ UNCHANGED <<interrupt_enable, isr_enable, int_active, irq, edgeTriggered, isr>>
-----------------------------------------------------------------------------
(* The interrupt methods, called from the main program or from a routine.  *)

enableInterrupts ==
  /\ top.at = "code"
  /\ interrupt_enable' = TRUE
  /\ UNCHANGED <<isr_enable, int_active, irq, edgeTriggered, isr, stack>>

disableInterrupts ==
  /\ top.at = "code"
  /\ interrupt_enable' = FALSE
  /\ UNCHANGED <<isr_enable, int_active, irq, edgeTriggered, isr, stack>>

enableIsr(i) ==
  /\ top.at = "code" /\ i \in isr
  /\ isr_enable' = isr_enable \cup {i}
  /\ UNCHANGED <<interrupt_enable, int_active, irq, edgeTriggered, isr, stack>>

disableIsr(i) ==
  /\ top.at = "code" /\ i \in isr
  /\ isr_enable' = isr_enable \ {i}
  /\ UNCHANGED <<interrupt_enable, int_active, irq, edgeTriggered, isr, stack>>

\* The function may be NULL; enabling then does nothing.
registerIsr(i, fun, enable) ==
  /\ top.at = "code"
  /\ isr' = IF fun THEN isr \cup {i} ELSE isr \ {i}
  /\ isr_enable' = IF enable /\ fun THEN isr_enable \cup {i} ELSE isr_enable
  /\ UNCHANGED <<interrupt_enable, int_active, irq, edgeTriggered, stack>>

setIrqAsEdgeTriggered(mask) ==
  /\ top.at = "code"
  /\ edgeTriggered' = mask
  /\ UNCHANGED <<interrupt_enable, isr_enable, int_active, irq, isr, stack>>

clearEdgeTriggeredIrq(i) ==
  /\ top.at = "code"
  /\ int_active' = int_active \ ({i} \cap edgeTriggered)
  /\ stack' = Unkept(stack, {i} \cap edgeTriggered)
  /\ UNCHANGED <<interrupt_enable, isr_enable, irq, edgeTriggered, isr>>
-----------------------------------------------------------------------------
Init ==
  /\ interrupt_enable = FALSE
  /\ isr_enable = {}
  /\ int_active = {}
  /\ irq = {}
  /\ edgeTriggered = {}
  /\ isr = {}
  /\ stack = <<Frame(Main)>>

Next ==
  \/ Access
  \/ Read
  \/ PollPass
  \/ PollServe
  \/ Return
  \/ AccessDone
  \/ \E newirq \in SUBSET Lines : updateIrqState(newirq)
  \/ enableInterrupts
  \/ disableInterrupts
  \/ \E i \in Lines : enableIsr(i)
  \/ \E i \in Lines : disableIsr(i)
  \/ \E i \in Lines, fun, enable \in BOOLEAN : registerIsr(i, fun, enable)
  \/ \E mask \in SUBSET Lines : setIrqAsEdgeTriggered(mask)
  \/ \E i \in Lines : clearEdgeTriggeredIrq(i)

\* The program keeps accessing the bus, accesses end, and routines return.
Fairness ==
  /\ SF_vars(Access)
  /\ SF_vars(Return)
  /\ WF_vars(PollPass \/ PollServe)
  /\ WF_vars(AccessDone)

Spec == Init /\ [][Next]_vars /\ Fairness
-----------------------------------------------------------------------------
Frames ==
  [int : 0 .. MAXINTERRUPTS, at : {"code", "poll", "isr", "bus"},
   idx : Lines, new : SUBSET Lines, kept : BOOLEAN]

TypeOK ==
  /\ interrupt_enable \in BOOLEAN
  /\ isr_enable \subseteq Lines /\ int_active \subseteq Lines
  /\ irq \subseteq Lines /\ edgeTriggered \subseteq Lines /\ isr \subseteq Lines
  /\ stack \in Seq(Frames)
  /\ Len(stack) \in 1 .. MaxNest + 1
  /\ stack[1].int = Main
  /\ \A k \in 2 .. Len(stack) : stack[k].int \in Lines /\ stack[k - 1].at = "isr"
  /\ top.at # "isr"

(* The priority rule: of the routines that run, each one whose line has    *)
(* been active since it was called was called from less urgent ones only.  *)
(* No routine interrupts itself or a more urgent one, unless the line of   *)
(* that one has dropped or been cleared in the meantime, although polls    *)
(* act on requests they found before other polls ran inside them.          *)
NestedByPriority ==
  \A j, k \in DOMAIN stack :
    j < k /\ stack[j].kept /\ stack[k].kept => stack[k].int < stack[j].int

Wanted(i) ==
  /\ interrupt_enable
  /\ i \in isr_enable /\ i \in irq
  /\ \A h \in int_active : h >= i

(* A line that stays up and enabled, with no more urgent line active, is   *)
(* served: the bit of no line it may interrupt, and no poll that is going  *)
(* on already, keeps it from being seen.                                   *)
Answered ==
  \A i \in Lines : <>[]Wanted(i) => []<>(i \in int_active)
=============================================================================
