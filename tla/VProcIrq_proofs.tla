--------------------------- MODULE VProcIrq_proofs ---------------------------
(***************************************************************************)
(* For any number of lines and any depth of nesting, whatever the program  *)
(* and its service routines do: routines nest by priority.  And the byte   *)
(* arithmetic of the accesses that the class inherits from VProc is right  *)
(* at every address and for every length.                                  *)
(***************************************************************************)
EXTENDS VProcIrq, VProcClass, SequenceTheorems, TLAPS

\* A routine whose line has been active throughout has it active now, ...
KeptActive ==
  \A k \in 2 .. Len(stack) : stack[k].kept => stack[k].int \in int_active

\* ... and no poll that has not ended holds a request for such a line: it
\* looked for requests when the routines below it, and its own, had begun.
FoundFresh ==
  \A j, k \in 1 .. Len(stack) :
    j <= k /\ stack[k].at \in {"poll", "isr"} /\ stack[j].kept
      => stack[j].int \notin stack[k].new

\* A poll begins only where a routine can still be called.
NestBounded == top.at = "poll" => Len(stack) <= MaxNest

IInv == TypeOK /\ NestedByPriority /\ KeptActive /\ FoundFresh /\ NestBounded
-----------------------------------------------------------------------------
LEMMA Shape ==
  ASSUME TypeOK
  PROVE  /\ Len(stack) \in Nat \ {0}
         /\ DOMAIN stack = 1 .. Len(stack)
         /\ \A k \in 1 .. Len(stack) : stack[k] \in Frames
         /\ top \in Frames
<1>1. stack \in Seq(Frames) /\ Len(stack) \in Nat \ {0}
  BY NestAssumption DEF TypeOK
<1>2. \A k \in 1 .. Len(stack) : stack[k] \in Frames
  BY <1>1, ElementOfSeq
<1>3. DOMAIN stack = 1 .. Len(stack)
  BY <1>1, LenProperties
<1> QED
  BY <1>1, <1>2, <1>3 DEF top

LEMMA SetTopStack ==
  ASSUME TypeOK, NEW f \in Frames
  PROVE  /\ SetTop(f) \in Seq(Frames)
         /\ Len(SetTop(f)) = Len(stack)
         /\ \A k \in 1 .. Len(stack) :
              SetTop(f)[k] = IF k = Len(stack) THEN f ELSE stack[k]
<1>1. stack \in Seq(Frames) /\ Len(stack) \in 1 .. Len(stack)
  BY Shape DEF TypeOK
<1> QED
  BY <1>1, ExceptSeq DEF SetTop

LEMMA UnkeptStack ==
  ASSUME NEW s \in Seq(Frames), NEW cleared
  PROVE  /\ Unkept(s, cleared) \in Seq(Frames)
         /\ Len(Unkept(s, cleared)) = Len(s)
         /\ \A k \in 1 .. Len(s) :
              /\ Unkept(s, cleared)[k].int = s[k].int
              /\ Unkept(s, cleared)[k].at = s[k].at
              /\ Unkept(s, cleared)[k].new = s[k].new
              /\ Unkept(s, cleared)[k].kept <=> s[k].kept /\ s[k].int \notin cleared
<1>1. Len(s) \in Nat /\ DOMAIN s = 1 .. Len(s)
  BY LenProperties
<1>2. \A k \in 1 .. Len(s) : s[k] \in Frames
  BY ElementOfSeq
<1> DEFINE g(k) == [s[k] EXCEPT !.kept = @ /\ s[k].int \notin cleared]
           u == [k \in 1 .. Len(s) |-> g(k)]
<1>3. ASSUME NEW k \in 1 .. Len(s)
      PROVE  /\ g(k) \in Frames
             /\ g(k).int = s[k].int /\ g(k).at = s[k].at /\ g(k).new = s[k].new
             /\ g(k).kept <=> s[k].kept /\ s[k].int \notin cleared
  BY <1>2 DEF Frames
<1>4. Unkept(s, cleared) = u
  BY <1>1 DEF Unkept
<1> HIDE DEF g
<1>5. u \in [1 .. Len(s) -> Frames]
  BY <1>3
<1>6. u \in Seq(Frames)
  BY <1>1, <1>5, SeqDef
<1>7. Len(u) = Len(s)
  BY <1>1, <1>5, <1>6, LenProperties
<1> QED
  BY <1>3, <1>4, <1>6, <1>7

LEMMA AdvancedFrame ==
  ASSUME NEW f \in Frames
  PROVE  /\ Advanced(f) \in Frames
         /\ Advanced(f).int = f.int
         /\ Advanced(f).kept <=> f.kept
         /\ Advanced(f).at \in {"poll", "bus"}
         /\ Advanced(f).at = "poll" => Advanced(f).new = f.new
<1>1. f.idx \in Lines /\ f.idx \in Nat /\ 0 \in Lines /\ {} \in SUBSET Lines
  BY LinesAssumption DEF Frames, Lines
<1>2. CASE f.idx + 1 < MAXINTERRUPTS
  <2>1. Advanced(f) = [f EXCEPT !.at = "poll", !.idx = @ + 1]
    BY <1>2 DEF Advanced
  <2>2. f.idx + 1 \in Lines
    BY <1>1, <1>2, LinesAssumption DEF Lines
  <2> QED
    BY <2>1, <2>2 DEF Frames
<1>3. CASE ~(f.idx + 1 < MAXINTERRUPTS)
  <2>1. Advanced(f) = [f EXCEPT !.at = "bus", !.idx = 0, !.new = {}]
    BY <1>3 DEF Advanced
  <2> QED
    BY <1>1, <2>1 DEF Frames
<1> QED
  BY <1>2, <1>3
-----------------------------------------------------------------------------
(* A step that leaves the frames what they are, except for what the top    *)
(* one is doing and for lines that cease to be active.                     *)
LEMMA SameFrames ==
  ASSUME IInv,
         interrupt_enable' \in BOOLEAN, isr_enable' \subseteq Lines,
         int_active' \subseteq Lines, irq' \subseteq Lines,
         edgeTriggered' \subseteq Lines, isr' \subseteq Lines,
         stack' \in Seq(Frames), Len(stack') = Len(stack),
         \A k \in 1 .. Len(stack) :
           /\ stack'[k].int = stack[k].int
           /\ stack'[k].kept => stack[k].kept
           /\ k > 1 /\ stack'[k].kept => stack[k].int \in int_active'
           /\ k < Len(stack) => stack'[k].at = stack[k].at /\ stack'[k].new = stack[k].new,
         top'.at # "isr",
         top'.at = "poll" =>
           /\ Len(stack) <= MaxNest
           /\ \A j \in 1 .. Len(stack) : stack'[j].kept => stack[j].int \notin top'.new
  PROVE  IInv'
<1>1. /\ Len(stack) \in Nat \ {0} /\ DOMAIN stack = 1 .. Len(stack)
      /\ Len(stack) <= MaxNest + 1
  BY Shape, NestAssumption DEF IInv, TypeOK
<1>2. DOMAIN stack' = 1 .. Len(stack)
  BY LenProperties
<1>3. top' = stack'[Len(stack)]
  BY DEF top
<1>4. TypeOK'
  <2>1. stack'[1].int = Main
    BY <1>1 DEF IInv, TypeOK
  <2>2. \A k \in 2 .. Len(stack') : stack'[k].int \in Lines /\ stack'[k - 1].at = "isr"
    <3> SUFFICES ASSUME NEW k \in 2 .. Len(stack)
                 PROVE  stack'[k].int \in Lines /\ stack'[k - 1].at = "isr"
      OBVIOUS
    <3>1. stack[k].int \in Lines /\ stack[k - 1].at = "isr"
      BY DEF IInv, TypeOK
    <3>2. k \in 1 .. Len(stack) /\ k - 1 \in 1 .. Len(stack) /\ k - 1 < Len(stack)
      BY <1>1
    <3> QED
      BY <3>1, <3>2
  <2> QED
    BY <1>1, <2>1, <2>2 DEF TypeOK, IInv
<1>5. NestedByPriority'
  BY <1>1, <1>2 DEF NestedByPriority, IInv
<1>6. KeptActive'
  BY <1>1 DEF KeptActive
<1>7. FoundFresh'
  <2> SUFFICES ASSUME NEW j \in 1 .. Len(stack), NEW k \in 1 .. Len(stack), j <= k,
                      stack'[k].at \in {"poll", "isr"}, stack'[j].kept
               PROVE  stack'[j].int \notin stack'[k].new
    BY DEF FoundFresh
  <2>1. CASE k = Len(stack)
    BY <2>1, <1>3
  <2>2. CASE k < Len(stack)
    BY <2>2 DEF FoundFresh, IInv
  <2> QED
    BY <1>1, <2>1, <2>2
<1>8. NestBounded'
  BY DEF NestBounded
<1> QED
  BY <1>4, <1>5, <1>6, <1>7, <1>8 DEF IInv

\* A step that changes neither the frames nor what is active.
LEMMA SameStack ==
  ASSUME IInv, UNCHANGED <<stack, int_active>>,
         interrupt_enable' \in BOOLEAN, isr_enable' \subseteq Lines, irq' \subseteq Lines,
         edgeTriggered' \subseteq Lines, isr' \subseteq Lines
  PROVE  IInv'
BY DEF IInv, TypeOK, NestedByPriority, KeptActive, FoundFresh, NestBounded, top
-----------------------------------------------------------------------------
LEMMA InitInductive == Init => IInv
<1> SUFFICES ASSUME Init
             PROVE  IInv
  OBVIOUS
<1>1. Frame(Main) \in Frames /\ Main \in Nat
  BY LinesAssumption DEF Frame, Frames, Main, Lines
<1>2. stack \in Seq(Frames) /\ Len(stack) = 1 /\ stack[1] = Frame(Main)
  BY <1>1 DEF Init
<1>3. DOMAIN stack = {1} /\ top = Frame(Main)
  BY <1>2, LenProperties DEF top
<1>4. TypeOK
  <2>1. Len(stack) \in 1 .. MaxNest + 1
    BY <1>2, NestAssumption
  <2>2. stack[1].int = Main /\ top.at = "code"
    BY <1>2, <1>3 DEF Frame
  <2>3. /\ interrupt_enable = FALSE /\ isr_enable = {} /\ int_active = {}
        /\ irq = {} /\ edgeTriggered = {} /\ isr = {}
    BY DEF Init
  <2>4. \A k \in 2 .. Len(stack) : FALSE
    BY <1>2
  <2> QED
    BY <1>2, <2>1, <2>2, <2>3, <2>4 DEF TypeOK
<1>5. NestedByPriority /\ KeptActive
  BY <1>2, <1>3 DEF NestedByPriority, KeptActive
<1>6. FoundFresh /\ NestBounded
  BY <1>2, <1>3 DEF FoundFresh, NestBounded, Frame
<1> QED
  BY <1>4, <1>5, <1>6 DEF IInv

\* What a poll finds is not the line of any frame that counts.
LEMMA FoundIsNew ==
  ASSUME IInv, NEW j \in 1 .. Len(stack), stack[j].kept
  PROVE  stack[j].int \notin Found
<1>1. CASE j = 1
  BY <1>1, LinesAssumption DEF IInv, TypeOK, Main, Lines, Found
<1>2. CASE j \in 2 .. Len(stack)
  BY <1>2 DEF IInv, KeptActive, Found
<1> QED
  BY <1>1, <1>2, Shape DEF IInv

\* The program, or a routine, goes on: a new top frame f that counts as before.
LEMMA TopMoves ==
  ASSUME IInv, UNCHANGED <<interrupt_enable, isr_enable, int_active, irq, edgeTriggered, isr>>,
         NEW f \in Frames, f.int = top.int, f.kept <=> top.kept,
         f.at # "isr",
         f.at = "poll" => /\ Len(stack) <= MaxNest
                          /\ f.new \in {Found, top.new}
                          /\ f.new = Found \/ top.at \in {"poll", "isr"},
         stack' = SetTop(f)
  PROVE  IInv'
<1>1. /\ stack' \in Seq(Frames) /\ Len(stack') = Len(stack) /\ Len(stack) \in Nat \ {0}
      /\ \A k \in 1 .. Len(stack) : stack'[k] = IF k = Len(stack) THEN f ELSE stack[k]
  BY SetTopStack, Shape DEF IInv
<1>2. top = stack[Len(stack)] /\ top' = f
  BY <1>1 DEF top
<1>3. \A k \in 1 .. Len(stack) :
        /\ stack'[k].int = stack[k].int
        /\ stack'[k].kept => stack[k].kept
        /\ k > 1 /\ stack'[k].kept => stack[k].int \in int_active'
        /\ k < Len(stack) => stack'[k].at = stack[k].at /\ stack'[k].new = stack[k].new
  BY <1>1, <1>2 DEF IInv, KeptActive
<1>4. ASSUME f.at = "poll", NEW j \in 1 .. Len(stack), stack'[j].kept
      PROVE  stack[j].int \notin f.new
  <2>1. stack[j].kept
    BY <1>3, <1>4
  <2>2. CASE f.new = Found
    BY <2>1, <2>2, FoundIsNew
  <2>3. CASE f.new = top.new /\ top.at \in {"poll", "isr"}
    BY <2>1, <2>3, <1>1, <1>2 DEF IInv, FoundFresh
  <2> QED
    BY <1>4, <2>2, <2>3
<1>5. /\ interrupt_enable' \in BOOLEAN /\ isr_enable' \subseteq Lines
      /\ int_active' \subseteq Lines /\ irq' \subseteq Lines
      /\ edgeTriggered' \subseteq Lines /\ isr' \subseteq Lines
  BY DEF IInv, TypeOK
<1>6. top'.at # "isr"
  BY <1>2
<1>7. top'.at = "poll" =>
        /\ Len(stack) <= MaxNest
        /\ \A j \in 1 .. Len(stack) : stack'[j].kept => stack[j].int \notin top'.new
  BY <1>2, <1>4
<1> QED
  BY <1>1, <1>3, <1>5, <1>6, <1>7, SameFrames

LEMMA AccessInductive == IInv /\ Access => IInv'
<1> SUFFICES ASSUME IInv, Access
             PROVE  IInv'
  OBVIOUS
<1>1. top \in Frames /\ Found \in SUBSET Lines
  BY Shape DEF IInv, TypeOK, Found
<1>2. CASE interrupt_enable
  <2> DEFINE f == [top EXCEPT !.at = "poll", !.new = Found]
  <2>1. /\ f \in Frames /\ f.int = top.int /\ (f.kept <=> top.kept)
        /\ f.at = "poll" /\ f.new = Found
    BY <1>1 DEF Frames
  <2>2. stack' = SetTop(f) /\ Len(stack) <= MaxNest
    BY <1>2 DEF Access
  <2> HIDE DEF f
  <2> QED
    BY <2>1, <2>2, TopMoves DEF Access
<1>3. CASE ~interrupt_enable
  <2> DEFINE f == [top EXCEPT !.at = "bus"]
  <2>1. f \in Frames /\ f.int = top.int /\ (f.kept <=> top.kept) /\ f.at = "bus"
    BY <1>1 DEF Frames
  <2>2. stack' = SetTop(f)
    BY <1>3 DEF Access
  <2> HIDE DEF f
  <2> QED
    BY <2>1, <2>2, TopMoves DEF Access
<1> QED
  BY <1>2, <1>3 DEF IInv, TypeOK

LEMMA ReadInductive == IInv /\ Read => IInv'
<1> SUFFICES ASSUME IInv, Read
             PROVE  IInv'
  OBVIOUS
<1> DEFINE f == [top EXCEPT !.at = "bus"]
<1>1. f \in Frames /\ f.int = top.int /\ (f.kept <=> top.kept) /\ f.at = "bus"
  BY Shape DEF Frames, IInv
<1>2. stack' = SetTop(f)
  BY DEF Read
<1> HIDE DEF f
<1> QED
  BY <1>1, <1>2, TopMoves DEF Read

LEMMA AccessDoneInductive == IInv /\ AccessDone => IInv'
<1> SUFFICES ASSUME IInv, AccessDone
             PROVE  IInv'
  OBVIOUS
<1> DEFINE f == [top EXCEPT !.at = "code"]
<1>1. f \in Frames /\ f.int = top.int /\ (f.kept <=> top.kept) /\ f.at = "code"
  BY Shape DEF Frames, IInv
<1>2. stack' = SetTop(f)
  BY DEF AccessDone
<1> HIDE DEF f
<1> QED
  BY <1>1, <1>2, TopMoves DEF AccessDone
-----------------------------------------------------------------------------
(* A poll goes on to its next line, and lines in cleared are no longer     *)
(* active: PollPass, and PollServe for a line without a routine.           *)
LEMMA PollMoves ==
  ASSUME IInv, top.at = "poll", NEW cleared,
         UNCHANGED <<interrupt_enable, isr_enable, irq, edgeTriggered, isr>>,
         int_active' \subseteq Lines,
         int_active \ cleared \subseteq int_active',
         stack' = Unkept(SetTop(Advanced(top)), cleared)
  PROVE  IInv'
<1> DEFINE s == SetTop(Advanced(top))
           f == Advanced(top)
<1>1. /\ f \in Frames /\ f.int = top.int /\ (f.kept <=> top.kept)
      /\ f.at \in {"poll", "bus"} /\ (f.at = "poll" => f.new = top.new)
  BY Shape, AdvancedFrame DEF IInv
<1> HIDE DEF f
<1>2. /\ s \in Seq(Frames) /\ Len(s) = Len(stack) /\ Len(stack) \in Nat \ {0}
      /\ \A k \in 1 .. Len(stack) : s[k] = IF k = Len(stack) THEN f ELSE stack[k]
  BY <1>1, SetTopStack, Shape DEF IInv, f
<1> HIDE DEF s
<1>3. /\ stack' \in Seq(Frames) /\ Len(stack') = Len(stack)
      /\ \A k \in 1 .. Len(stack) :
           /\ stack'[k].int = s[k].int
           /\ stack'[k].at = s[k].at
           /\ stack'[k].new = s[k].new
           /\ stack'[k].kept <=> s[k].kept /\ s[k].int \notin cleared
  BY <1>2, UnkeptStack DEF s
<1>4. top = stack[Len(stack)] /\ top' = stack'[Len(stack)]
  BY <1>3 DEF top
<1>5. \A k \in 1 .. Len(stack) :
        /\ stack'[k].int = stack[k].int
        /\ stack'[k].kept => stack[k].kept /\ stack[k].int \notin cleared
        /\ k < Len(stack) => stack'[k].at = stack[k].at /\ stack'[k].new = stack[k].new
  BY <1>1, <1>2, <1>3, <1>4
<1>6. \A k \in 1 .. Len(stack) :
        k > 1 /\ stack'[k].kept => stack[k].int \in int_active'
  BY <1>2, <1>5 DEF IInv, KeptActive
<1>7. top'.at = f.at /\ top'.new = f.new
  BY <1>2, <1>3, <1>4
<1>8. ASSUME top'.at = "poll", NEW j \in 1 .. Len(stack), stack'[j].kept
      PROVE  stack[j].int \notin top'.new
  BY <1>1, <1>2, <1>4, <1>5, <1>7, <1>8 DEF IInv, FoundFresh
<1>9. Len(stack) <= MaxNest
  BY DEF IInv, NestBounded
<1>10. /\ interrupt_enable' \in BOOLEAN /\ isr_enable' \subseteq Lines
       /\ irq' \subseteq Lines /\ edgeTriggered' \subseteq Lines /\ isr' \subseteq Lines
  BY DEF IInv, TypeOK
<1>11. top'.at # "isr"
  BY <1>1, <1>7
<1> QED
  BY <1>3, <1>5, <1>6, <1>8, <1>9, <1>10, <1>11, SameFrames

\* A routine is called: the line is more urgent than every one that counts.
LEMMA Calls ==
  ASSUME IInv, PollServe, top.idx \in isr
  PROVE  IInv'
<1> DEFINE f == [top EXCEPT !.at = "isr"]
           s == Unkept(SetTop(f), Dropped)
           L == Len(stack)
           g == Frame(top.idx)
<1>1. /\ top.at = "poll" /\ top.idx \in top.new /\ ~higher_active
      /\ int_active' = int_active \cup {top.idx}
      /\ stack' = Append(s, g)
      /\ UNCHANGED <<interrupt_enable, isr_enable, irq, edgeTriggered, isr>>
  BY DEF PollServe, serve
<1>2. top \in Frames /\ top = stack[L] /\ L \in Nat \ {0} /\ L <= MaxNest
  BY <1>1, Shape DEF IInv, NestBounded, top
<1>3. /\ f \in Frames /\ f.int = top.int /\ (f.kept <=> top.kept)
      /\ f.at = "isr" /\ f.new = top.new
  BY <1>2 DEF Frames
<1>4. top.idx \in Lines /\ top.idx \in Int /\ \A i \in Lines : i \in Int
  BY <1>2, LinesAssumption DEF Frames, Lines
<1>5. g \in Frames /\ g.int = top.idx /\ g.at = "code" /\ g.new = {}
  BY <1>4, LinesAssumption DEF Frame, Frames, Lines
<1> HIDE DEF f, g
<1>6. /\ SetTop(f) \in Seq(Frames) /\ Len(SetTop(f)) = L
      /\ \A k \in 1 .. L : SetTop(f)[k] = IF k = L THEN f ELSE stack[k]
  BY <1>3, SetTopStack DEF IInv
<1>7. /\ s \in Seq(Frames) /\ Len(s) = L
      /\ \A k \in 1 .. L :
           /\ s[k].int = stack[k].int
           /\ s[k].kept => stack[k].kept
           /\ s[k].at = (IF k = L THEN "isr" ELSE stack[k].at)
           /\ s[k].new = stack[k].new
  BY <1>2, <1>3, <1>6, UnkeptStack
<1> HIDE DEF s
<1>8. /\ stack' \in Seq(Frames) /\ Len(stack') = L + 1
      /\ \A k \in 1 .. L : stack'[k] = s[k]
      /\ stack'[L + 1] = g
  BY <1>1, <1>2, <1>5, <1>7, AppendProperties
<1>9. DOMAIN stack' = 1 .. L + 1 /\ top' = g
  BY <1>8, LenProperties DEF top
<1>10. ASSUME NEW j \in 1 .. L, stack[j].kept
       PROVE  stack[j].int # top.idx /\ stack[j].int >= top.idx /\ stack[j].int \in Int
  <2>1. stack[j].int \notin top.new
    BY <1>1, <1>2, <1>10 DEF IInv, FoundFresh
  <2>2. CASE j = 1
    BY <2>2, <1>4, LinesAssumption DEF IInv, TypeOK, Main, Lines
  <2>3. CASE j \in 2 .. L
    <3>1. stack[j].int \in int_active
      BY <2>3, <1>10 DEF IInv, KeptActive
    <3>2. stack[j].int \in Int /\ top.idx \in Int
      BY <3>1, <1>4 DEF IInv, TypeOK
    <3>3. ~(stack[j].int < top.idx)
      BY <1>1, <3>1 DEF higher_active
    <3> QED
      BY <1>1, <2>1, <3>2, <3>3
  <2> QED
    BY <1>1, <1>2, <2>1, <2>2, <2>3
<1>11. TypeOK'
  <2>1. /\ interrupt_enable' \in BOOLEAN /\ isr_enable' \subseteq Lines
        /\ int_active' \subseteq Lines /\ irq' \subseteq Lines
        /\ edgeTriggered' \subseteq Lines /\ isr' \subseteq Lines
    BY <1>1, <1>4 DEF IInv, TypeOK
  <2>2. stack'[1].int = Main
    BY <1>2, <1>7, <1>8 DEF IInv, TypeOK
  <2>3. ASSUME NEW k \in 2 .. L + 1
        PROVE  stack'[k].int \in Lines /\ stack'[k - 1].at = "isr"
    <3>1. CASE k = L + 1
      BY <3>1, <1>2, <1>4, <1>5, <1>7, <1>8
    <3>2. CASE k \in 2 .. L
      <4>1. stack[k].int \in Lines /\ stack[k - 1].at = "isr"
        BY <3>2 DEF IInv, TypeOK
      <4>2. k \in 1 .. L /\ k - 1 \in 1 .. L /\ k - 1 < L
        BY <3>2, <1>2
      <4> QED
        BY <4>1, <4>2, <1>7, <1>8
    <3> QED
      BY <1>2, <3>1, <3>2
  <2>4. L + 1 \in 1 .. MaxNest + 1 /\ top'.at # "isr"
    BY <1>2, <1>5, <1>9, NestAssumption
  <2> QED
    BY <1>8, <2>1, <2>2, <2>3, <2>4 DEF TypeOK
<1>12. NestedByPriority'
  <2> SUFFICES ASSUME NEW j \in 1 .. L + 1, NEW k \in 1 .. L + 1,
                      j < k, stack'[j].kept, stack'[k].kept
               PROVE  stack'[k].int < stack'[j].int
    BY <1>9 DEF NestedByPriority
  <2>1. j \in 1 .. L /\ stack[j].kept /\ stack'[j].int = stack[j].int
    BY <1>2, <1>7, <1>8
  <2>2. CASE k = L + 1
    <3>1. stack'[k].int = top.idx /\ top.idx \in Int
      BY <2>2, <1>4, <1>5, <1>8
    <3>2. stack[j].int # top.idx /\ stack[j].int >= top.idx /\ stack[j].int \in Int
      BY <2>1, <1>10
    <3> QED
      BY <2>1, <3>1, <3>2
  <2>3. CASE k \in 1 .. L
    BY <2>1, <2>3, <1>7, <1>8, Shape DEF IInv, NestedByPriority
  <2> QED
    BY <1>2, <2>2, <2>3
<1>13. KeptActive'
  <2> SUFFICES ASSUME NEW k \in 2 .. L + 1, stack'[k].kept
               PROVE  stack'[k].int \in int_active'
    BY <1>8 DEF KeptActive
  <2>1. CASE k = L + 1
    BY <2>1, <1>1, <1>5, <1>8
  <2>2. CASE k \in 2 .. L
    BY <2>2, <1>1, <1>7, <1>8 DEF IInv, KeptActive
  <2> QED
    BY <1>2, <2>1, <2>2
<1>14. FoundFresh'
  <2> SUFFICES ASSUME NEW j \in 1 .. L + 1, NEW k \in 1 .. L + 1, j <= k,
                      stack'[k].at \in {"poll", "isr"}, stack'[j].kept
               PROVE  stack'[j].int \notin stack'[k].new
    BY <1>8 DEF FoundFresh
  <2>1. k \in 1 .. L /\ j \in 1 .. L
    BY <1>2, <1>5, <1>8
  <2>2. stack[k].at \in {"poll", "isr"}
    BY <2>1, <1>1, <1>2, <1>7, <1>8
  <2> QED
    BY <2>1, <2>2, <1>7, <1>8 DEF IInv, FoundFresh
<1>15. NestBounded'
  BY <1>5, <1>9 DEF NestBounded
<1> QED
  BY <1>11, <1>12, <1>13, <1>14, <1>15 DEF IInv
LEMMA PollPassInductive == IInv /\ PollPass => IInv'
<1> SUFFICES ASSUME IInv, PollPass
             PROVE  IInv'
  OBVIOUS
<1>1. int_active' \subseteq Lines /\ int_active \ Dropped \subseteq int_active'
  BY DEF PollPass, IInv, TypeOK
<1> QED
  BY <1>1, PollMoves DEF PollPass

LEMMA PollServeInductive == IInv /\ PollServe => IInv'
<1> SUFFICES ASSUME IInv, PollServe
             PROVE  IInv'
  OBVIOUS
<1>1. CASE top.idx \in isr
  BY <1>1, Calls
<1>2. CASE top.idx \notin isr
  <2>1. top.idx \in Lines
    BY Shape DEF IInv, Frames
  <2>2. int_active' \subseteq Lines /\ int_active \ Dropped \subseteq int_active'
    BY <2>1 DEF PollServe, IInv, TypeOK
  <2>3. stack' = Unkept(SetTop(Advanced(top)), Dropped)
    BY <1>2 DEF PollServe
  <2> QED
    BY <2>2, <2>3, PollMoves DEF PollServe
<1> QED
  BY <1>1, <1>2

\* The routine's frame goes; the poll that called it takes its next line.
LEMMA ReturnInductive == IInv /\ Return => IInv'
<1> SUFFICES ASSUME IInv, Return
             PROVE  IInv'
  OBVIOUS
<1> DEFINE L == Len(stack)
           M == L - 1
           s == SubSeq(stack, 1, M)
           f == Advanced(stack[M])
<1>1. L \in Nat /\ L > 1 /\ L <= MaxNest + 1
  BY Shape DEF Return, IInv, TypeOK
<1>2. /\ s \in Seq(Frames) /\ Len(s) = M
      /\ \A k \in 1 .. M : s[k] = stack[k]
  <2>1. \A k \in 1 .. M : stack[k] \in Frames
    BY <1>1, Shape DEF IInv
  <2> HIDE DEF M
  <2>2. M \in Nat /\ M >= 1
    BY <1>1 DEF M
  <2> QED
    BY <2>1, <2>2, SubSeqProperties
<1>3. stack[M] \in Frames /\ stack[M].at = "isr"
  <2>1. L \in 2 .. Len(stack)
    BY <1>1
  <2> QED
    BY <1>1, <2>1, Shape DEF IInv, TypeOK
<1>4. /\ f \in Frames /\ f.int = stack[M].int /\ (f.kept <=> stack[M].kept)
      /\ f.at \in {"poll", "bus"} /\ (f.at = "poll" => f.new = stack[M].new)
  BY <1>3, AdvancedFrame
<1>5. stack' = [s EXCEPT ![M] = f]
  BY <1>1, <1>2 DEF Return
<1> HIDE DEF s, f
<1>6. /\ stack' \in Seq(Frames) /\ Len(stack') = M
      /\ \A k \in 1 .. M : stack'[k] = IF k = M THEN f ELSE stack[k]
  BY <1>1, <1>2, <1>4, <1>5, ExceptSeq
<1>7. DOMAIN stack' = 1 .. M /\ top' = f
  BY <1>1, <1>6, LenProperties DEF top
<1>8. \A k \in 1 .. M :
        /\ stack'[k].int = stack[k].int
        /\ stack'[k].kept <=> stack[k].kept
        /\ k < M => stack'[k].at = stack[k].at /\ stack'[k].new = stack[k].new
  BY <1>4, <1>6, SMTT(30)
<1>9. UNCHANGED <<interrupt_enable, isr_enable, int_active, irq, edgeTriggered, isr>>
  BY DEF Return
<1>10. TypeOK'
  <2>1. /\ interrupt_enable' \in BOOLEAN /\ isr_enable' \subseteq Lines
        /\ int_active' \subseteq Lines /\ irq' \subseteq Lines
        /\ edgeTriggered' \subseteq Lines /\ isr' \subseteq Lines
    BY <1>9 DEF IInv, TypeOK
  <2>2. stack'[1].int = Main
    BY <1>1, <1>8 DEF IInv, TypeOK
  <2>3. ASSUME NEW k \in 2 .. M
        PROVE  stack'[k].int \in Lines /\ stack'[k - 1].at = "isr"
    <3>1. k \in 2 .. L /\ k \in 1 .. M /\ k - 1 \in 1 .. M /\ k - 1 < M
      BY <1>1
    <3>2. stack[k].int \in Lines /\ stack[k - 1].at = "isr"
      BY <3>1 DEF IInv, TypeOK
    <3> QED
      BY <3>1, <3>2, <1>8
  <2>4. M \in 1 .. MaxNest + 1 /\ top'.at # "isr"
    BY <1>1, <1>4, <1>7, NestAssumption
  <2> QED
    BY <1>6, <2>1, <2>2, <2>3, <2>4 DEF TypeOK
<1>11. NestedByPriority'
  <2>1. \A k \in 1 .. M : k \in DOMAIN stack
    BY <1>1, Shape DEF IInv
  <2> QED
    BY <1>7, <1>8, <2>1 DEF IInv, NestedByPriority
<1>12. KeptActive'
  BY <1>1, <1>6, <1>8, <1>9 DEF IInv, KeptActive
<1>13. FoundFresh'
  <2> SUFFICES ASSUME NEW j \in 1 .. M, NEW k \in 1 .. M, j <= k,
                      stack'[k].at \in {"poll", "isr"}, stack'[j].kept
               PROVE  stack'[j].int \notin stack'[k].new
    BY <1>6 DEF FoundFresh
  <2>1. j \in 1 .. L /\ k \in 1 .. L
    BY <1>1
  <2>2. stack[k].at \in {"poll", "isr"} /\ stack'[k].new = stack[k].new
    BY <1>1, <1>3, <1>4, <1>6, <1>8
  <2> QED
    BY <2>1, <2>2, <1>8 DEF IInv, FoundFresh
<1>14. NestBounded'
  BY <1>1, <1>6, NestAssumption DEF NestBounded
<1> QED
  BY <1>10, <1>11, <1>12, <1>13, <1>14 DEF IInv

\* Frames of a line that is cleared by software no longer count.
LEMMA ClearInductive ==
  ASSUME IInv, NEW i \in Lines, clearEdgeTriggeredIrq(i)
  PROVE  IInv'
<1> DEFINE c == {i} \cap edgeTriggered
<1>1. /\ stack' = Unkept(stack, c) /\ int_active' = int_active \ c /\ top.at = "code"
      /\ UNCHANGED <<interrupt_enable, isr_enable, irq, edgeTriggered, isr>>
  BY DEF clearEdgeTriggeredIrq
<1> HIDE DEF c
<1>2. /\ stack' \in Seq(Frames) /\ Len(stack') = Len(stack) /\ Len(stack) \in Nat \ {0}
      /\ \A k \in 1 .. Len(stack) :
           /\ stack'[k].int = stack[k].int
           /\ stack'[k].at = stack[k].at
           /\ stack'[k].new = stack[k].new
           /\ stack'[k].kept <=> stack[k].kept /\ stack[k].int \notin c
  BY <1>1, UnkeptStack, Shape DEF IInv, TypeOK
<1>3. top'.at = "code"
  BY <1>1, <1>2 DEF top
<1>4. \A k \in 1 .. Len(stack) :
        k > 1 /\ stack'[k].kept => stack[k].int \in int_active'
  BY <1>1, <1>2 DEF IInv, KeptActive
<1>5. /\ interrupt_enable' \in BOOLEAN /\ isr_enable' \subseteq Lines
      /\ int_active' \subseteq Lines /\ irq' \subseteq Lines
      /\ edgeTriggered' \subseteq Lines /\ isr' \subseteq Lines
  BY <1>1 DEF IInv, TypeOK
<1> QED
  BY <1>2, <1>3, <1>4, <1>5, SameFrames

LEMMA StepInductive == IInv /\ [Next]_vars => IInv'
<1> SUFFICES ASSUME IInv, [Next]_vars
             PROVE  IInv'
  OBVIOUS
<1>1. CASE Access
  BY <1>1, AccessInductive
<1>2. CASE Read
  BY <1>2, ReadInductive
<1>3. CASE PollPass
  BY <1>3, PollPassInductive
<1>4. CASE PollServe
  BY <1>4, PollServeInductive
<1>5. CASE Return
  BY <1>5, ReturnInductive
<1>6. CASE AccessDone
  BY <1>6, AccessDoneInductive
<1>7. ASSUME NEW newirq \in SUBSET Lines, updateIrqState(newirq)
      PROVE  IInv'
  BY <1>7, SameStack DEF updateIrqState, IInv, TypeOK
<1>8. CASE enableInterrupts \/ disableInterrupts
  BY <1>8, SameStack DEF enableInterrupts, disableInterrupts, IInv, TypeOK
<1>9. ASSUME NEW i \in Lines, enableIsr(i) \/ disableIsr(i)
      PROVE  IInv'
  BY <1>9, SameStack DEF enableIsr, disableIsr, IInv, TypeOK
<1>10. ASSUME NEW i \in Lines, NEW fun \in BOOLEAN, NEW enable \in BOOLEAN,
              registerIsr(i, fun, enable)
       PROVE  IInv'
  BY <1>10, SameStack DEF registerIsr, IInv, TypeOK
<1>11. ASSUME NEW mask \in SUBSET Lines, setIrqAsEdgeTriggered(mask)
       PROVE  IInv'
  BY <1>11, SameStack DEF setIrqAsEdgeTriggered, IInv, TypeOK
<1>12. ASSUME NEW i \in Lines, clearEdgeTriggeredIrq(i)
       PROVE  IInv'
  BY <1>12, ClearInductive
<1>13. CASE UNCHANGED vars
  BY <1>13, SameStack DEF vars, IInv, TypeOK
<1> QED
  BY <1>1, <1>2, <1>3, <1>4, <1>5, <1>6, <1>7, <1>8, <1>9, <1>10, <1>11, <1>12, <1>13 DEF Next
-----------------------------------------------------------------------------
THEOREM IInvHolds == Spec => []IInv
BY InitInductive, StepInductive, PTL DEF Spec

(* The interrupt vectors, the polls and the stack of routines stay what    *)
(* they are meant to be: every routine was called by the poll below it     *)
(* (VProcIrqClass.h:161-197).                                              *)
THEOREM TypeCorrect == Spec => []TypeOK
<1>1. IInv => TypeOK
  BY DEF IInv
<1> QED
  BY <1>1, IInvHolds, PTL

(* Routines nest by priority although a poll acts on requests that it      *)
(* found before other routines ran inside it (VProcIrqClass.h:168-186).    *)
THEOREM PriorityKept == Spec => []NestedByPriority
<1>1. IInv => NestedByPriority
  BY DEF IInv
<1> QED
  BY <1>1, IInvHolds, PTL
-----------------------------------------------------------------------------
(* VProcClass.h: at every address and for every length.                   *)

\* A number in words and lanes, and how the two are found back.
LEMMA Split ==
  ASSUME NEW n \in Nat
  PROVE  /\ n \div 4 \in Nat /\ n % 4 \in Lanes
         /\ n = 4 * (n \div 4) + (n % 4)
         /\ \A q \in Nat, r \in Lanes : n = 4 * q + r => n \div 4 = q /\ n % 4 = r
BY DEF Lanes

(* Every address and length: the word count of calcWordLen is the number   *)
(* of words between the first and the last byte.                           *)
THEOREM WordCount ==
  ASSUME NEW byteaddr \in Nat, NEW bytelen \in Nat \ {0}
  PROVE  WordsTouched(byteaddr, bytelen)
<1> DEFINE a == byteaddr \div 4
           f == byteaddr % 4
           q == bytelen \div 4
           r == bytelen % 4
           last == byteaddr + bytelen - 1
<1>1. a \in Nat /\ f \in 0 .. 3 /\ byteaddr = 4 * a + f
  BY Split DEF Lanes
<1>2. q \in Nat /\ r \in 0 .. 3 /\ bytelen = 4 * q + r
  BY Split DEF Lanes
<1>3. last \in Nat /\ last = 4 * (a + q) + (f + r - 1)
  BY <1>1, <1>2
<1> HIDE DEF a, f, q, r
<1>4. ASSUME NEW k \in Nat, NEW l \in Lanes, last = 4 * k + l
      PROVE  last \div 4 = k /\ loff(byteaddr, bytelen) = l
  BY <1>3, <1>4, Split DEF loff
<1>5. foff(byteaddr) = f /\ calcWordLen(byteaddr, bytelen) = 
         q + (IF loff(byteaddr, bytelen) < f THEN 1 ELSE 0) + (IF r # 0 THEN 1 ELSE 0)
  BY DEF foff, calcWordLen, f, q, r
<1>6. CASE f + r = 0
  <2>1. q >= 1
    BY <1>2, <1>6, <1>1
  <2>2. last = 4 * (a + q - 1) + 3 /\ a + q - 1 \in Nat
    BY <1>1, <1>2, <1>3, <1>6, <2>1
  <2> QED
    BY <1>4, <2>2, <1>5, <1>1, <1>2, <1>6 DEF WordsTouched, a, Lanes
<1>7. CASE f + r \in 1 .. 4
  <2>1. last = 4 * (a + q) + (f + r - 1) /\ a + q \in Nat /\ f + r - 1 \in Lanes
    BY <1>1, <1>2, <1>3, <1>7 DEF Lanes
  <2> QED
    BY <1>4, <2>1, <1>5, <1>1, <1>2, <1>7 DEF WordsTouched, a, Lanes
<1>8. CASE f + r \in 5 .. 6
  <2>1. last = 4 * (a + q + 1) + (f + r - 5) /\ a + q + 1 \in Nat /\ f + r - 5 \in Lanes
    BY <1>1, <1>2, <1>3, <1>8 DEF Lanes
  <2> QED
    BY <1>4, <2>1, <1>5, <1>1, <1>2, <1>8 DEF WordsTouched, a, Lanes
<1> QED
  BY <1>1, <1>2, <1>6, <1>7, <1>8

(* Every address and length: the enables of a burst write cover exactly    *)
(* the bytes of the caller, each with its own element of the data.         *)
THEOREM BurstBytes ==
  ASSUME NEW byteaddr \in Nat, NEW bytelen \in Nat \ {0}
  PROVE  BytesExact(byteaddr, bytelen)
<1> DEFINE a == byteaddr \div 4
           f == byteaddr % 4
           last == byteaddr + bytelen - 1
           z == last \div 4
           l == last % 4
           n == calcWordLen(byteaddr, bytelen)
           enabled == Enabled(byteaddr, bytelen)
<1>1. a \in Nat /\ f \in 0 .. 3 /\ byteaddr = 4 * a + f
  BY Split DEF Lanes
<1>2. z \in Nat /\ l \in 0 .. 3 /\ last = 4 * z + l
  <2>1. last \in Nat
    OBVIOUS
  <2> QED
    BY <2>1, Split DEF Lanes
<1>3. n = z - a + 1
  BY WordCount DEF WordsTouched
<1>4. foff(byteaddr) = f /\ loff(byteaddr, bytelen) = l /\ Aligned(byteaddr) = 4 * a
  BY <1>1 DEF foff, loff, Aligned
<1> HIDE DEF a, f, z, l, n
<1>5. \A w, b : ByteAddress(byteaddr, w, b) = 4 * a + 4 * w + b
  BY <1>4 DEF ByteAddress
<1>6. \A p \in enabled :
        DataIndex(byteaddr, p[1], p[2]) = ByteAddress(byteaddr, p[1], p[2]) - byteaddr
  <2> SUFFICES ASSUME NEW p \in enabled
               PROVE  DataIndex(byteaddr, p[1], p[2]) = ByteAddress(byteaddr, p[1], p[2]) - byteaddr
    OBVIOUS
  <2>1. p[1] \in Int /\ p[2] \in Int
    BY <1>1, <1>2, <1>3 DEF Enabled, Lanes, n
  <2> QED
    BY <2>1, <1>1, <1>4, <1>5 DEF DataIndex
<1>7. ASSUME n > 1
      PROVE  {ByteAddress(byteaddr, p[1], p[2]) : p \in enabled} = byteaddr .. last
  <2>1. ASSUME NEW p \in enabled
        PROVE  ByteAddress(byteaddr, p[1], p[2]) \in byteaddr .. last
    <3>1. /\ p[1] \in 0 .. n - 1 /\ p[2] \in 0 .. 3
          /\ p[1] = 0 => p[2] >= f
          /\ p[1] = n - 1 => p[2] <= l
      BY <1>4, <1>7, <1>3, <1>1, <1>2
         DEF Enabled, BE, FirstEnables, LastEnables, Lanes, n
    <3> QED
      BY <3>1, <1>1, <1>2, <1>3, <1>5, <1>7, SMTT(30)
  <2>2. ASSUME NEW i \in byteaddr .. last
        PROVE  \E p \in enabled : i = ByteAddress(byteaddr, p[1], p[2])
    <3> DEFINE w == i \div 4 - a
               b == i % 4
    <3>1. i \in Nat
      BY <1>1
    <3>2. i = 4 * (i \div 4) + b /\ b \in 0 .. 3 /\ i \div 4 \in Nat
      BY <3>1, Split DEF Lanes
    <3>3. i \div 4 >= a /\ i \div 4 <= z /\ (i \div 4 = a => b >= f) /\ (i \div 4 = z => b <= l)
      BY <3>2, <1>1, <1>2
    <3> HIDE DEF b
    <3>4. w \in 0 .. n - 1 /\ i = 4 * a + 4 * w + b /\ (w = 0 => b >= f) /\ (w = n - 1 => b <= l)
      BY <3>2, <3>3, <1>1, <1>2, <1>3
    <3> HIDE DEF w
    <3>5. b \in BE(byteaddr, bytelen, w)
      BY <3>2, <3>4, <1>4 DEF BE, FirstEnables, LastEnables, Lanes, n
    <3>6. <<w, b>> \in enabled
      BY <3>2, <3>4, <3>5 DEF Enabled, Lanes, n
    <3> QED
      BY <3>4, <3>6, <1>5
  <2> QED
    BY <2>1, <2>2
<1>8. ASSUME n = 1
      PROVE  {ByteAddress(byteaddr, 0, b) :
                b \in FirstEnables(byteaddr) \cap LastEnables(byteaddr, bytelen)} = byteaddr .. last
  <2> DEFINE both == FirstEnables(byteaddr) \cap LastEnables(byteaddr, bytelen)
  <2>1. z = a
    BY <1>1, <1>2, <1>3, <1>8
  <2>2. both = f .. l
    BY <1>1, <1>2, <1>4 DEF FirstEnables, LastEnables, Lanes
  <2> HIDE DEF both
  <2>3. \A b \in Int : ByteAddress(byteaddr, 0, b) = 4 * a + b
    BY <1>1, <1>5
  <2>4. ASSUME NEW b \in both PROVE ByteAddress(byteaddr, 0, b) \in byteaddr .. last
    <3>1. b \in Int /\ f <= b /\ b <= l
      BY <2>2, <1>1, <1>2
    <3>2. ByteAddress(byteaddr, 0, b) = 4 * a + b
      BY <2>3, <3>1
    <3> QED
      BY <2>1, <3>1, <3>2, <1>1, <1>2
  <2>5. ASSUME NEW i \in byteaddr .. last
        PROVE  i - 4 * a \in both /\ i = ByteAddress(byteaddr, 0, i - 4 * a)
    <3>1. i \in Nat /\ i - 4 * a \in f .. l
      BY <2>1, <1>1, <1>2
    <3> QED
      BY <2>2, <2>3, <3>1, <1>1
  <2> QED
    BY <2>4, <2>5 DEF both
<1> QED
  BY <1>6, <1>7, <1>8 DEF BytesExact, n
=============================================================================
