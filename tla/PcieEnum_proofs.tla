--------------------------- MODULE PcieEnum_proofs ---------------------------
(***************************************************************************)
(* For every depth of the link.  First the order of requests and answers:  *)
(* the root program takes no answer for the answer to another request, and *)
(* no write of it reaches a read-only bit; addresses and data play no part *)
(* in either.  Then the data: what each request asks for, what each answer *)
(* holds and what the root has learnt from it, up to the outcome.          *)
(***************************************************************************)
EXTENDS PcieEnum, SequenceTheorems, TLAPS

\* A sequence, of whatever elements.
IsSequence(s) == \E S : s \in Seq(S)

Fields ==
  {"pc", "irq", "k", "todo", "tag", "bar", "upper", "errors", "cap", "next", "size", "found"}

Shapes ==
  /\ DOMAIN root = Fields /\ root.tag \in Tags /\ ip_byte_count \in Nat
  /\ IsSequence(root.todo) /\ IsSequence(toEp) /\ IsSequence(toRoot)

\* In a list of requests still to be sent, the last one is the only read.
ReadsLast(todo) == \A i \in 1 .. Len(todo) : todo[i].op = "rd" <=> i = Len(todo)

\* Nothing is sent before the link is up.
NothingSent ==
  root.pc \in {"Reset", "Train"} =>
    root.todo = <<>> /\ toEp = <<>> /\ toRoot = <<>> /\ ip_byte_count = 0

LastTag == (root.tag + 31) % 32

IsRead(m) == m.req.op = "rd"
IsAnswer(m) == m.kind = "cpld"

\* A read on its way to the endpoint is the request sent last, and there is
\* no other and no answer.
OneRead ==
  \A i \in 1 .. Len(toEp) : IsRead(toEp[i]) =>
    /\ root.todo = <<>> /\ toEp[i].tag = LastTag /\ ip_byte_count = 0
    /\ \A j \in 1 .. Len(toEp) : IsRead(toEp[j]) => j = i
    /\ \A j \in 1 .. Len(toRoot) : ~IsAnswer(toRoot[j])

\* The same for an answer on its way back.
OneAnswer ==
  \A i \in 1 .. Len(toRoot) : IsAnswer(toRoot[i]) =>
    /\ root.todo = <<>> /\ toRoot[i].tag = LastTag /\ ip_byte_count = 0
    /\ \A j \in 1 .. Len(toRoot) : IsAnswer(toRoot[j]) => j = i

IInv ==
  /\ Shapes /\ ReadsLast(root.todo) /\ NothingSent
  /\ OneRead /\ OneAnswer /\ AnswersItsQuestion
-----------------------------------------------------------------------------
(* Sequences of whatever elements.                                         *)

LEMMA EmptyIsSequence == IsSequence(<<>>) /\ Len(<<>>) = 0
<1>1. <<>> \in Seq({})
  BY EmptySeq
<1> QED
  BY <1>1, EmptySeq DEF IsSequence

LEMMA SequenceLen ==
  ASSUME NEW s, IsSequence(s)
  PROVE  Len(s) \in Nat /\ (s # <<>> => Len(s) \in Nat \ {0})
<1>1. PICK S : s \in Seq(S)
  BY DEF IsSequence
<1> QED
  BY <1>1, EmptySeq, LenProperties

LEMMA Appended ==
  ASSUME NEW s, IsSequence(s), NEW e
  PROVE  /\ IsSequence(Append(s, e))
         /\ Len(Append(s, e)) = Len(s) + 1
         /\ \A i \in 1 .. Len(s) : Append(s, e)[i] = s[i]
         /\ Append(s, e)[Len(s) + 1] = e
<1>1. PICK S : s \in Seq(S)
  BY DEF IsSequence
<1> DEFINE T == S \cup {e}
<1>2. s \in Seq(T) /\ e \in T
  BY <1>1, SeqMonotonic
<1>3. Append(s, e) \in Seq(T)
  BY <1>2
<1>4. /\ Len(Append(s, e)) = Len(s) + 1
      /\ \A i \in 1 .. Len(s) : Append(s, e)[i] = s[i]
      /\ Append(s, e)[Len(s) + 1] = e
  BY <1>2, LenProperties
<1> QED
  BY <1>3, <1>4 DEF IsSequence

LEMMA AppendedTwo ==
  ASSUME NEW s, IsSequence(s), NEW d, NEW e
  PROVE  /\ IsSequence(s \o <<d, e>>)
         /\ Len(s \o <<d, e>>) = Len(s) + 2
         /\ \A i \in 1 .. Len(s) : (s \o <<d, e>>)[i] = s[i]
         /\ (s \o <<d, e>>)[Len(s) + 1] = d
         /\ (s \o <<d, e>>)[Len(s) + 2] = e
<1>1. PICK S : s \in Seq(S)
  BY DEF IsSequence
<1> DEFINE T == S \cup {d, e}
           u == <<d, e>>
<1>2. s \in Seq(T) /\ Len(s) \in Nat
  BY <1>1, SeqMonotonic, LenProperties
<1>3. u \in Seq(T) /\ Len(u) = 2 /\ u[1] = d /\ u[2] = e
  OBVIOUS
<1> HIDE DEF u, T
<1>4. /\ s \o u \in Seq(T) /\ Len(s \o u) = Len(s) + 2
      /\ \A i \in 1 .. Len(s) + 2 :
           (s \o u)[i] = IF i <= Len(s) THEN s[i] ELSE u[i - Len(s)]
  <2>1. /\ s \o u \in Seq(T) /\ Len(s \o u) = Len(s) + Len(u)
        /\ \A i \in 1 .. Len(s) + Len(u) :
             (s \o u)[i] = IF i <= Len(s) THEN s[i] ELSE u[i - Len(s)]
    BY <1>2, <1>3, ConcatProperties, Zenon
  <2> QED
    BY <1>3, <2>1
<1>5. /\ \A i \in 1 .. Len(s) : (s \o u)[i] = s[i]
      /\ (s \o u)[Len(s) + 1] = d
      /\ (s \o u)[Len(s) + 2] = e
  BY <1>2, <1>3, <1>4
<1>6. IsSequence(s \o u)
  BY <1>4 DEF IsSequence
<1> QED
  BY <1>4, <1>5, <1>6 DEF u

LEMMA TailTaken ==
  ASSUME NEW s, IsSequence(s), s # <<>>
  PROVE  /\ IsSequence(Tail(s)) /\ Len(Tail(s)) = Len(s) - 1
         /\ \A i \in 1 .. Len(s) - 1 : Tail(s)[i] = s[i + 1]
         /\ Head(s) = s[1] /\ Len(s) \in Nat \ {0}
<1>1. PICK S : s \in Seq(S)
  BY DEF IsSequence
<1>2. /\ Tail(s) \in Seq(S) /\ Len(Tail(s)) = Len(s) - 1
      /\ \A i \in 1 .. Len(Tail(s)) : Tail(s)[i] = s[i + 1]
  BY <1>1, HeadTailProperties
<1>3. Len(s) \in Nat \ {0} /\ Head(s) = s[1]
  BY <1>1, EmptySeq
<1> QED
  BY <1>2, <1>3 DEF IsSequence
-----------------------------------------------------------------------------
(* What each stage of the root program asks for.                           *)

LEMMA OneRequest ==
  ASSUME NEW a
  PROVE  IsSequence(<<Rd(a)>>) /\ ReadsLast(<<Rd(a)>>)
<1>1. <<Rd(a)>> \in Seq({Rd(a)}) /\ Len(<<Rd(a)>>) = 1 /\ <<Rd(a)>>[1] = Rd(a)
  OBVIOUS
<1>2. Rd(a).op = "rd"
  BY DEF Rd
<1>3. IsSequence(<<Rd(a)>>)
  BY <1>1 DEF IsSequence
<1>4. ReadsLast(<<Rd(a)>>)
  BY <1>1, <1>2 DEF ReadsLast
<1> QED
  BY <1>3, <1>4

LEMMA TwoRequests ==
  ASSUME NEW a, NEW b, NEW w
  PROVE  IsSequence(<<Wr(a, w), Rd(b)>>) /\ ReadsLast(<<Wr(a, w), Rd(b)>>)
<1> DEFINE d == Wr(a, w)
           e == Rd(b)
<1>1. d.op = "wr" /\ e.op = "rd"
  BY DEF Rd, Wr
<1> HIDE DEF d, e
<1>2. <<d, e>> \in Seq({d, e}) /\ Len(<<d, e>>) = 2 /\ <<d, e>>[1] = d /\ <<d, e>>[2] = e
  OBVIOUS
<1>3. IsSequence(<<d, e>>)
  BY <1>2 DEF IsSequence
<1>4. ReadsLast(<<d, e>>)
  BY <1>1, <1>2 DEF ReadsLast
<1> QED
  BY <1>3, <1>4 DEF d, e

LEMMA FiveRequests ==
  ASSUME NEW d1, NEW d2, NEW d3, NEW d4, NEW e,
         d1.op = "wr", d2.op = "wr", d3.op = "wr", d4.op = "wr", e.op = "rd"
  PROVE  IsSequence(<<d1, d2, d3, d4, e>>) /\ ReadsLast(<<d1, d2, d3, d4, e>>)
<1> DEFINE u == <<d1, d2, d3, d4, e>>
<1>1. u \in Seq({d1, d2, d3, d4, e})
  OBVIOUS
<1>2. Len(u) = 5 /\ u[1] = d1 /\ u[2] = d2 /\ u[3] = d3 /\ u[4] = d4 /\ u[5] = e
  OBVIOUS
<1> HIDE DEF u
<1>3. \A i \in 1 .. 5 : u[i].op = "rd" <=> i = 5
  <2> SUFFICES ASSUME NEW i \in 1 .. 5
               PROVE  u[i].op = "rd" <=> i = 5
    OBVIOUS
  <2>1. i = 1 \/ i = 2 \/ i = 3 \/ i = 4 \/ i = 5
    OBVIOUS
  <2> QED
    BY <1>2, <2>1
<1>4. IsSequence(u)
  BY <1>1 DEF IsSequence
<1> QED
  BY <1>2, <1>3, <1>4 DEF ReadsLast, u

\* The root program at the beginning of a stage: its requests are listed and
\* nothing else that matters here has changed.
Begins(r, r0) ==
  /\ DOMAIN r = Fields /\ r.tag = r0.tag /\ r.pc \notin {"Reset", "Train"}
  /\ IsSequence(r.todo) /\ ReadsLast(r.todo)

LEMMA ToBegins ==
  ASSUME NEW r, NEW r0, DOMAIN r = Fields, r.tag = r0.tag,
         NEW pc, pc \notin {"Reset", "Train"}, NEW k, NEW todo,
         IsSequence(todo), ReadsLast(todo)
  PROVE  Begins(To(pc, k, todo, r), r0)
<1>1. /\ DOMAIN To(pc, k, todo, r) = Fields
      /\ To(pc, k, todo, r).tag = r.tag
      /\ To(pc, k, todo, r).pc = pc
      /\ To(pc, k, todo, r).todo = todo
  BY DEF To, Fields
<1> QED
  BY <1>1 DEF Begins

LEMMA StagesBegin ==
  ASSUME NEW r, NEW r0, DOMAIN r = Fields, r.tag = r0.tag, NEW k
  PROVE  /\ Begins(ToIdent(k, r), r0) /\ Begins(ToSize(k, r), r0)
         /\ Begins(ToAssign(r), r0) /\ Begins(ToCheck(k, r), r0)
         /\ Begins(ToCapPtr(r), r0) /\ Begins(ToCap(k, r), r0)
         /\ Begins(ToQuiet(r), r0)
<1>1. Begins(ToIdent(k, r), r0)
  BY ToBegins, OneRequest DEF ToIdent
<1>2. Begins(ToSize(k, r), r0)
  BY ToBegins, TwoRequests DEF ToSize
<1>3. Begins(ToAssign(r), r0)
  <2>1. \A a, w : Wr(a, w).op = "wr" /\ Rd(a).op = "rd"
    BY DEF Wr, Rd
  <2> QED
    BY <2>1, ToBegins, FiveRequests DEF ToAssign
<1>4. Begins(ToCheck(k, r), r0)
  BY ToBegins, OneRequest DEF ToCheck
<1>5. Begins(ToCapPtr(r), r0)
  BY ToBegins, OneRequest DEF ToCapPtr
<1>6. Begins(ToCap(k, r), r0)
  BY ToBegins, OneRequest DEF ToCap
<1>7. Begins(ToQuiet(r), r0)
  BY ToBegins, EmptyIsSequence DEF ToQuiet, ReadsLast
<1> QED
  BY <1>1, <1>2, <1>3, <1>4, <1>5, <1>6, <1>7
-----------------------------------------------------------------------------
LEMMA InitIInv == Init => IInv
<1>1. Init => Shapes /\ ReadsLast(root.todo) /\ NothingSent /\ AnswersItsQuestion
  BY EmptyIsSequence
     DEF Init, Shapes, Fields, Tags, ReadsLast, NothingSent, AnswersItsQuestion
<1>2. Init => OneRead /\ OneAnswer
  BY EmptyIsSequence DEF Init, OneRead, OneAnswer
<1> QED
  BY <1>1, <1>2 DEF IInv

\* With an answer in the receive buffer nothing is on its way.
LEMMA NoneUnderWay ==
  ASSUME IInv, ip_byte_count > 0 \/ root.todo # <<>>
  PROVE  /\ \A i \in 1 .. Len(toEp) : ~IsRead(toEp[i])
         /\ \A i \in 1 .. Len(toRoot) : ~IsAnswer(toRoot[i])
         /\ root.todo # <<>> => ~(ip_byte_count > 0)
BY DEF IInv, OneRead, OneAnswer, AnswersItsQuestion

\* Actions that leave the link, the buffer and the requests alone.
LEMMA Quietly ==
  ASSUME IInv, DOMAIN root' = Fields, root'.tag = root.tag, root'.todo = root.todo,
         root'.pc \in {"Reset", "Train"} => root.pc \in {"Reset", "Train"},
         UNCHANGED <<ipbuf, ip_byte_count, toEp, toRoot>>
  PROVE  IInv'
<1>1. Shapes' /\ ReadsLast(root'.todo) /\ NothingSent'
  BY DEF IInv, Shapes, NothingSent
<1>2. LastTag' = LastTag
  BY DEF LastTag
<1>3. OneRead' /\ OneAnswer'
  BY <1>2 DEF IInv, OneRead, OneAnswer
<1>4. AnswersItsQuestion'
  BY DEF IInv, AnswersItsQuestion
<1> QED
  BY <1>1, <1>3, <1>4 DEF IInv

\* A stage begins with nothing under way and an empty buffer.
LEMMA StageInductive ==
  ASSUME IInv, Begins(root', root), ip_byte_count' = 0,
         \A i \in 1 .. Len(toEp) : ~IsRead(toEp[i]),
         \A i \in 1 .. Len(toRoot) : ~IsAnswer(toRoot[i]),
         UNCHANGED <<toEp, toRoot>>
  PROVE  IInv'
<1>1. Shapes' /\ ReadsLast(root'.todo) /\ NothingSent'
  BY DEF IInv, Shapes, NothingSent, Begins
<1>2. OneRead' /\ OneAnswer'
  BY DEF OneRead, OneAnswer
<1>3. AnswersItsQuestion'
  BY DEF AnswersItsQuestion
<1> QED
  BY <1>1, <1>2, <1>3 DEF IInv

LEMMA AnsweredInductive ==
  ASSUME IInv, NEW pc, NEW r, Answered(pc, r), Begins(r, root)
  PROVE  IInv'
<1>1. ip_byte_count > 0 /\ ip_byte_count' = 0 /\ root' = r /\ UNCHANGED <<toEp, toRoot>>
  BY DEF Answered, WaitForInput
<1>2. /\ \A i \in 1 .. Len(toEp) : ~IsRead(toEp[i])
      /\ \A i \in 1 .. Len(toRoot) : ~IsAnswer(toRoot[i])
  BY <1>1, NoneUnderWay
<1> QED
  BY <1>1, <1>2, StageInductive

LEMMA StagesInductive ==
  ASSUME IInv, Identify \/ SizeBar \/ CheckBar \/ FirstCap \/ WalkCap
  PROVE  IInv'
<1> USE DEF Fields
<1>0. DOMAIN root = Fields
  BY DEF IInv, Shapes
<1>1. CASE Identify
  <2>1. Begins(ToIdent(root.k + 1, root), root) /\ Begins(ToSize(0, root), root)
    BY <1>0, StagesBegin
  <2> QED
    BY <1>1, <2>1, AnsweredInductive DEF Identify
<1>2. CASE SizeBar
  <2> DEFINE k == root.k
             r == [root EXCEPT !.bar[k] = ipbuf.data,
                               !.upper = ~@ /\ Locatable64(ipbuf.data)]
  <2>1. DOMAIN r = Fields /\ r.tag = root.tag
    BY <1>0
  <2> HIDE DEF r
  <2>2. Begins(ToSize(k + 1, r), root) /\ Begins(ToAssign(r), root)
    BY <2>1, StagesBegin
  <2>3. Answered("Size", IF k < 5 \/ r.upper THEN ToSize(k + 1, r) ELSE ToAssign(r))
    BY <1>2 DEF SizeBar, r
  <2> QED
    BY <2>2, <2>3, AnsweredInductive
<1>3. CASE CheckBar
  <2> DEFINE k == root.k
             got == IF k = 3 THEN ipbuf.data ELSE ipbuf.data \ {0, 1, 2, 3}
             r == [root EXCEPT !.errors = IF got = BarValue[k + 1] THEN @ ELSE @ + 1]
  <2>1. DOMAIN r = Fields /\ r.tag = root.tag
    BY <1>0
  <2> HIDE DEF r
  <2>2. Begins(ToCheck(k + 1, r), root) /\ Begins(ToCapPtr(r), root)
    BY <2>1, StagesBegin
  <2>3. Answered("Check", IF k < 3 THEN ToCheck(k + 1, r) ELSE ToCapPtr(r))
    BY <1>3 DEF CheckBar, r
  <2> QED
    BY <2>2, <2>3, AnsweredInductive
<1>4. ASSUME NEW r, DOMAIN r = Fields, r.tag = root.tag
      PROVE  Begins(NextCap(r), root)
  <2> DEFINE s == [r EXCEPT !.cap = r.next]
  <2>1. DOMAIN s = Fields /\ s.tag = root.tag
    BY <1>4
  <2> HIDE DEF s
  <2>2. Begins(ToQuiet(r), root) /\ Begins(ToCap(0, s), root)
    BY <1>4, <2>1, StagesBegin
  <2> QED
    BY <2>2 DEF NextCap, s
<1>5. CASE FirstCap
  <2> DEFINE r == [root EXCEPT !.next = Byte(ipbuf.data, 0)]
  <2>1. DOMAIN r = Fields /\ r.tag = root.tag
    BY <1>0
  <2> HIDE DEF r
  <2>2. Answered("CapPtr", NextCap(r)) /\ Begins(NextCap(r), root)
    BY <1>4, <1>5, <2>1 DEF FirstCap, r
  <2> QED
    BY <2>2, AnsweredInductive
<1>6. CASE WalkCap
  <2> DEFINE id == Byte(ipbuf.data, 0)
             r == IF root.k > 0 THEN root
                  ELSE [root EXCEPT !.next = Byte(ipbuf.data, 1), !.size = CapSize(id),
                                    !.errors = IF CapSize(id) = 0 THEN @ + 1 ELSE @,
                                    !.found = @ \cup {id}]
  <2>1. DOMAIN r = Fields /\ r.tag = root.tag
    BY <1>0
  <2> HIDE DEF r
  <2>2. Begins(ToCap(r.k + 4, r), root) /\ Begins(NextCap(r), root)
    BY <1>4, <2>1, StagesBegin
  <2>3. Answered("Cap", IF r.k + 4 < r.size THEN ToCap(r.k + 4, r) ELSE NextCap(r))
    BY <1>6 DEF WalkCap, r
  <2> QED
    BY <2>2, <2>3, AnsweredInductive
<1> QED
  BY <1>1, <1>2, <1>3, <1>5, <1>6

LEMMA OutsideInductive ==
  ASSUME IInv, \/ ConfigureType0PcieCfg \/ ReleaseReset \/ LinkUp \/ Finish
               \/ \E who \in {"ep", "root"} : ResetDeasserted(who) \/ LeaveReset(who)
  PROVE  IInv'
<1>0. DOMAIN root = Fields
  BY DEF IInv, Shapes
<1>1. CASE ConfigureType0PcieCfg \/ ReleaseReset
  BY <1>0, <1>1, Quietly DEF ConfigureType0PcieCfg, ReleaseReset
<1>2. ASSUME NEW who \in {"ep", "root"}, ResetDeasserted(who) \/ LeaveReset(who)
      PROVE  IInv'
  <2>1. CASE root' = root
    BY <1>0, <1>2, <2>1, Quietly DEF ResetDeasserted, LeaveReset
  <2>2. CASE root' = [root EXCEPT !.irq = TRUE]
    <3>1. /\ DOMAIN root' = Fields /\ root'.tag = root.tag
          /\ root'.todo = root.todo /\ root'.pc = root.pc
      BY <1>0, <2>2 DEF Fields
    <3> QED
      BY <1>2, <3>1, Quietly DEF ResetDeasserted, LeaveReset
  <2>3. CASE root.pc = "Reset" /\ root' = [root EXCEPT !.irq = FALSE, !.pc = "Train"]
    <3>1. /\ DOMAIN root' = Fields /\ root'.tag = root.tag /\ root'.todo = root.todo
      BY <1>0, <2>3 DEF Fields
    <3> QED
      BY <1>2, <2>3, <3>1, Quietly DEF ResetDeasserted, LeaveReset
  <2> QED
    BY <1>2, <2>1, <2>2, <2>3 DEF ResetDeasserted, LeaveReset
<1>3. CASE LinkUp
  <2>1. toEp = <<>> /\ toRoot = <<>> /\ ip_byte_count = 0
    BY <1>3 DEF LinkUp, IInv, NothingSent
  <2>2. /\ \A i \in 1 .. Len(toEp) : ~IsRead(toEp[i])
        /\ \A i \in 1 .. Len(toRoot) : ~IsAnswer(toRoot[i])
    BY <2>1, EmptyIsSequence
  <2>3. Begins(ToIdent(1, root), root)
    BY <1>0, StagesBegin
  <2> QED
    BY <1>3, <2>1, <2>2, <2>3, StageInductive DEF LinkUp
<1>4. CASE Finish
  <2>1. /\ DOMAIN root' = Fields /\ root'.tag = root.tag /\ root'.todo = root.todo
        /\ root'.pc = "Finished"
    BY <1>0, <1>4 DEF Finish, Fields
  <2> QED
    BY <1>4, <2>1, Quietly DEF Finish
<1> QED
  BY <1>1, <1>2, <1>3, <1>4

LEMMA SendInductive ==
  ASSUME IInv, Send
  PROVE  IInv'
<1> DEFINE todo == root.todo
           n == Len(toEp)
           e == [req |-> Head(todo), tag |-> root.tag]
<1>1. /\ todo # <<>> /\ toEp' = Append(toEp, e)
      /\ UNCHANGED <<ipbuf, ip_byte_count, toRoot>>
  BY DEF Send
<1>2. /\ DOMAIN root' = Fields /\ root'.pc = root.pc
      /\ root'.todo = Tail(todo) /\ root'.tag = (root.tag + 1) % 32
  BY DEF Send, GetNextTag, IInv, Shapes, Fields
<1>3. /\ IsSequence(Tail(todo)) /\ Len(Tail(todo)) = Len(todo) - 1
      /\ \A i \in 1 .. Len(todo) - 1 : Tail(todo)[i] = todo[i + 1]
      /\ Head(todo) = todo[1] /\ Len(todo) \in Nat \ {0}
  BY <1>1, TailTaken DEF IInv, Shapes
<1>4. /\ IsSequence(Append(toEp, e)) /\ Len(toEp') = n + 1 /\ n \in Nat
      /\ \A i \in 1 .. n : toEp'[i] = toEp[i]
      /\ toEp'[n + 1] = e
  BY <1>1, Appended, SequenceLen DEF IInv, Shapes
<1>5. root'.tag \in Tags /\ LastTag' = root.tag
  BY <1>2 DEF IInv, Shapes, Tags, LastTag
<1>6. /\ \A i \in 1 .. n : ~IsRead(toEp[i])
      /\ \A i \in 1 .. Len(toRoot) : ~IsAnswer(toRoot[i])
      /\ ~(ip_byte_count > 0)
  BY <1>1, NoneUnderWay
<1>7. Shapes'
  BY <1>1, <1>2, <1>3, <1>4, <1>5 DEF IInv, Shapes
<1>8. ReadsLast(root'.todo)
  BY <1>2, <1>3 DEF IInv, ReadsLast
<1>9. NothingSent'
  BY <1>1, <1>2 DEF IInv, NothingSent
<1>10. IsRead(e) => Tail(todo) = <<>>
  <2>0. IsRead(e) <=> todo[1].op = "rd"
    BY <1>3 DEF IsRead
  <2>1. IsRead(e) => Len(todo) = 1
    <3>1. ReadsLast(todo)
      BY DEF IInv
    <3>2. 1 \in 1 .. Len(todo)
      BY <1>3
    <3> QED
      BY <2>0, <3>1, <3>2 DEF ReadsLast
  <2>2. Tail(todo) # <<>> => Len(Tail(todo)) # 0
    BY <1>3, SequenceLen
  <2> QED
    BY <1>3, <2>1, <2>2
<1>11. OneRead'
  <2> SUFFICES ASSUME NEW i \in 1 .. n + 1, IsRead(toEp'[i])
               PROVE  /\ root'.todo = <<>> /\ toEp'[i].tag = LastTag' /\ ip_byte_count' = 0
                      /\ \A j \in 1 .. n + 1 : IsRead(toEp'[j]) => j = i
                      /\ \A j \in 1 .. Len(toRoot) : ~IsAnswer(toRoot[j])
    BY <1>1, <1>4 DEF OneRead
  <2>1. i = n + 1 /\ IsRead(e)
    BY <1>4, <1>6
  <2>2. \A j \in 1 .. n + 1 : IsRead(toEp'[j]) => j = i
    BY <1>4, <1>6, <2>1
  <2>3. e.tag = root.tag
    OBVIOUS
  <2>4. ip_byte_count' = 0
    BY <1>1, <1>6 DEF IInv, Shapes
  <2> HIDE DEF e
  <2> QED
    BY <1>1, <1>2, <1>4, <1>5, <1>6, <1>10, <2>1, <2>2, <2>3, <2>4
<1>12. OneAnswer'
  BY <1>1, <1>6 DEF OneAnswer
<1>13. AnswersItsQuestion'
  BY <1>1, <1>6 DEF AnswersItsQuestion
<1> QED
  BY <1>7, <1>8, <1>9, <1>11, <1>12, <1>13 DEF IInv

LEMMA CompleteInductive ==
  ASSUME IInv, Complete
  PROVE  IInv'
<1> DEFINE m == Head(toEp)
           n == Len(toRoot)
           d == [kind |-> "dllp", tag |-> 0, data |-> {}]
           c == IF m.req.op = "rd" THEN [kind |-> "cpld", tag |-> m.tag, data |-> config[m.req.addr]]
                                   ELSE [kind |-> "cpl", tag |-> m.tag, data |-> {}]
<1>1. /\ toEp # <<>> /\ toEp' = Tail(toEp) /\ toRoot' = toRoot \o <<d, c>>
      /\ UNCHANGED <<root, ipbuf, ip_byte_count>>
  BY DEF Complete
<1>2. /\ ~IsAnswer(d) /\ (IsAnswer(c) <=> IsRead(m)) /\ c.tag = m.tag
  BY DEF IsAnswer, IsRead
<1> HIDE DEF d, c
<1>3. /\ IsSequence(Tail(toEp)) /\ Len(Tail(toEp)) = Len(toEp) - 1
      /\ \A i \in 1 .. Len(toEp) - 1 : Tail(toEp)[i] = toEp[i + 1]
      /\ m = toEp[1] /\ Len(toEp) \in Nat \ {0}
  BY <1>1, TailTaken DEF IInv, Shapes
<1>4. /\ IsSequence(toRoot') /\ Len(toRoot') = n + 2 /\ n \in Nat
      /\ \A i \in 1 .. n : toRoot'[i] = toRoot[i]
      /\ toRoot'[n + 1] = d /\ toRoot'[n + 2] = c
  <2>1. IsSequence(toRoot)
    BY DEF IInv, Shapes
  <2>2. n \in Nat
    BY <2>1, SequenceLen
  <2>3. /\ IsSequence(toRoot \o <<d, c>>) /\ Len(toRoot \o <<d, c>>) = n + 2
        /\ \A i \in 1 .. n : (toRoot \o <<d, c>>)[i] = toRoot[i]
        /\ (toRoot \o <<d, c>>)[n + 1] = d
        /\ (toRoot \o <<d, c>>)[n + 2] = c
    BY <2>1, AppendedTwo
  <2> QED
    BY <1>1, <2>2, <2>3, Zenon
<1> HIDE DEF m
<1>5. LastTag' = LastTag
  BY <1>1 DEF LastTag
<1>6. Shapes' /\ ReadsLast(root'.todo)
  BY <1>1, <1>3, <1>4 DEF IInv, Shapes
<1>7. NothingSent'
  BY <1>1 DEF IInv, NothingSent
<1>8. AnswersItsQuestion'
  BY <1>1 DEF IInv, AnswersItsQuestion
<1>9. IsRead(m) => /\ root.todo = <<>> /\ m.tag = LastTag /\ ip_byte_count = 0
                   /\ \A j \in 2 .. Len(toEp) : ~IsRead(toEp[j])
                   /\ \A j \in 1 .. n : ~IsAnswer(toRoot[j])
  BY <1>3 DEF IInv, OneRead
<1>10. OneRead'
  <2> SUFFICES ASSUME NEW i \in 1 .. Len(toEp) - 1, IsRead(toEp[i + 1])
               PROVE  /\ root.todo = <<>> /\ toEp[i + 1].tag = LastTag /\ ip_byte_count = 0
                      /\ \A j \in 1 .. Len(toEp) - 1 : IsRead(toEp[j + 1]) => j = i
                      /\ \A j \in 1 .. n + 2 : ~IsAnswer(toRoot'[j])
    BY <1>1, <1>3, <1>4, <1>5 DEF OneRead
  <2>1. i + 1 \in 1 .. Len(toEp)
    BY <1>3
  <2>2. /\ root.todo = <<>> /\ toEp[i + 1].tag = LastTag /\ ip_byte_count = 0
        /\ \A j \in 1 .. Len(toEp) : IsRead(toEp[j]) => j = i + 1
        /\ \A j \in 1 .. n : ~IsAnswer(toRoot[j])
    BY <2>1 DEF IInv, OneRead
  <2>3. ~IsRead(m)
    BY <1>3, <2>2
  <2>4. \A j \in 1 .. n + 2 : ~IsAnswer(toRoot'[j])
    <3> SUFFICES ASSUME NEW j \in 1 .. n + 2
                 PROVE  ~IsAnswer(toRoot'[j])
      OBVIOUS
    <3>1. j \in 1 .. n \/ j = n + 1 \/ j = n + 2
      BY <1>4
    <3> QED
      BY <1>2, <1>4, <2>2, <2>3, <3>1
  <2> QED
    BY <1>3, <2>2, <2>4
<1>11. OneAnswer'
  <2> SUFFICES ASSUME NEW i \in 1 .. n + 2, IsAnswer(toRoot'[i])
               PROVE  /\ root.todo = <<>> /\ toRoot'[i].tag = LastTag /\ ip_byte_count = 0
                      /\ \A j \in 1 .. n + 2 : IsAnswer(toRoot'[j]) => j = i
    BY <1>1, <1>4, <1>5 DEF OneAnswer
  <2>0. \A j \in 1 .. n + 2 : j \in 1 .. n \/ j = n + 1 \/ j = n + 2
    BY <1>4
  <2>1. CASE i \in 1 .. n
    <3>1. IsAnswer(toRoot[i])
      BY <1>4, <2>1
    <3>2. /\ root.todo = <<>> /\ toRoot[i].tag = LastTag /\ ip_byte_count = 0
          /\ \A j \in 1 .. n : IsAnswer(toRoot[j]) => j = i
      BY <2>1, <3>1 DEF IInv, OneAnswer
    <3>3. ~IsRead(m)
      BY <1>9, <2>1, <3>1
    <3> QED
      BY <1>2, <1>4, <2>0, <2>1, <3>2, <3>3
  <2>2. CASE i = n + 1
    BY <1>2, <1>4, <2>2
  <2>3. CASE i = n + 2
    <3>1. IsRead(m)
      BY <1>2, <1>4, <2>3
    <3> QED
      BY <1>2, <1>4, <1>9, <2>0, <2>3, <3>1
  <2> QED
    BY <2>0, <2>1, <2>2, <2>3
<1> QED
  BY <1>6, <1>7, <1>8, <1>10, <1>11 DEF IInv

LEMMA InputInductive ==
  ASSUME IInv, VUserInput_2
  PROVE  IInv'
<1> DEFINE m == Head(toRoot)
<1>1. /\ toRoot # <<>> /\ toRoot' = Tail(toRoot) /\ UNCHANGED <<root, toEp>>
      /\ IF IsAnswer(m)
         THEN ipbuf' = [data |-> m.data, tag |-> m.tag] /\ ip_byte_count' = 4
         ELSE UNCHANGED <<ipbuf, ip_byte_count>>
  BY DEF VUserInput_2, IsAnswer
<1>2. /\ IsSequence(Tail(toRoot)) /\ Len(Tail(toRoot)) = Len(toRoot) - 1
      /\ \A i \in 1 .. Len(toRoot) - 1 : Tail(toRoot)[i] = toRoot[i + 1]
      /\ m = toRoot[1] /\ Len(toRoot) \in Nat \ {0}
  BY <1>1, TailTaken DEF IInv, Shapes
<1> HIDE DEF m
<1>3. LastTag' = LastTag
  BY <1>1 DEF LastTag
<1>4. Shapes' /\ ReadsLast(root'.todo)
  BY <1>1, <1>2 DEF IInv, Shapes
<1>5. NothingSent'
  BY <1>1 DEF IInv, NothingSent
<1>6. IsAnswer(m) => /\ root.todo = <<>> /\ m.tag = LastTag
                     /\ \A j \in 2 .. Len(toRoot) : ~IsAnswer(toRoot[j])
                     /\ \A j \in 1 .. Len(toEp) : ~IsRead(toEp[j])
  BY <1>2 DEF IInv, OneRead, OneAnswer
<1>7. OneRead'
  <2> SUFFICES ASSUME NEW i \in 1 .. Len(toEp), IsRead(toEp[i])
               PROVE  /\ root.todo = <<>> /\ toEp[i].tag = LastTag /\ ip_byte_count' = 0
                      /\ \A j \in 1 .. Len(toEp) : IsRead(toEp[j]) => j = i
                      /\ \A j \in 1 .. Len(toRoot) - 1 : ~IsAnswer(toRoot[j + 1])
    BY <1>1, <1>2, <1>3 DEF OneRead
  <2>1. ~IsAnswer(m)
    BY <1>6
  <2>2. /\ root.todo = <<>> /\ toEp[i].tag = LastTag /\ ip_byte_count = 0
        /\ \A j \in 1 .. Len(toEp) : IsRead(toEp[j]) => j = i
        /\ \A j \in 1 .. Len(toRoot) : ~IsAnswer(toRoot[j])
    BY DEF IInv, OneRead
  <2> QED
    BY <1>1, <1>2, <2>1, <2>2
<1>8. OneAnswer'
  <2> SUFFICES ASSUME NEW i \in 1 .. Len(toRoot) - 1, IsAnswer(toRoot[i + 1])
               PROVE  /\ root.todo = <<>> /\ toRoot[i + 1].tag = LastTag /\ ip_byte_count' = 0
                      /\ \A j \in 1 .. Len(toRoot) - 1 : IsAnswer(toRoot[j + 1]) => j = i
    BY <1>1, <1>2, <1>3 DEF OneAnswer
  <2>1. i + 1 \in 1 .. Len(toRoot)
    BY <1>2
  <2>2. /\ root.todo = <<>> /\ toRoot[i + 1].tag = LastTag /\ ip_byte_count = 0
        /\ \A j \in 1 .. Len(toRoot) : IsAnswer(toRoot[j]) => j = i + 1
    BY <2>1 DEF IInv, OneAnswer
  <2>3. ~IsAnswer(m)
    BY <1>2, <2>2
  <2> QED
    BY <1>1, <1>2, <2>2, <2>3
<1>9. AnswersItsQuestion'
  <2>1. CASE IsAnswer(m)
    <3>1. root'.todo = <<>> /\ ipbuf'.tag = LastTag
      BY <1>1, <1>6, <2>1
    <3> QED
      BY <1>3, <3>1 DEF AnswersItsQuestion, LastTag
  <2>2. CASE ~IsAnswer(m)
    BY <1>1, <2>2 DEF IInv, AnswersItsQuestion
  <2> QED
    BY <2>1, <2>2
<1> QED
  BY <1>4, <1>5, <1>7, <1>8, <1>9 DEF IInv

LEMMA NextIInv == IInv /\ [Next]_vars => IInv'
<1> SUFFICES ASSUME IInv, [Next]_vars
             PROVE  IInv'
  OBVIOUS
<1>1. CASE UNCHANGED vars
  <2>1. DOMAIN root = Fields
    BY DEF IInv, Shapes
  <2> QED
    BY <1>1, <2>1, Quietly DEF vars
<1>2. CASE ConfigureType0PcieCfg \/ ReleaseReset \/ LinkUp \/ Finish
  BY <1>2, OutsideInductive
<1>3. CASE \E who \in {"ep", "root"} : ResetDeasserted(who) \/ LeaveReset(who)
  BY <1>3, OutsideInductive
<1>4. CASE Send
  BY <1>4, SendInductive
<1>5. CASE Complete
  BY <1>5, CompleteInductive
<1>6. CASE VUserInput_2
  BY <1>6, InputInductive
<1>7. CASE Identify \/ SizeBar \/ CheckBar \/ FirstCap \/ WalkCap
  BY <1>7, StagesInductive
<1> QED
  BY <1>1, <1>2, <1>3, <1>4, <1>5, <1>6, <1>7 DEF Next
-----------------------------------------------------------------------------
(* The root program never takes the completion of one read for the answer  *)
(* to another, for every number of TLPs the link holds: WaitForInput and   *)
(* VUserInput_2 of VUserMain2.cpp compare no tags and need not.            *)
THEOREM RightAnswer == Spec => []AnswersItsQuestion
<1>1. IInv => AnswersItsQuestion
  BY DEF IInv
<1> QED
  BY InitIInv, NextIInv, <1>1, PTL DEF Spec
-----------------------------------------------------------------------------
\* The configuration space keeps its size.
ConfigShape == DOMAIN config = Addr

LEMMA ConfigKept ==
  ASSUME ConfigShape, Next
  PROVE  /\ ConfigShape'
         /\ ep.pc # "Configure" =>
              \A a \in Addr : config'[a] \cap mask[a] = config[a] \cap mask[a]
<1>1. CASE ConfigureType0PcieCfg
  BY <1>1 DEF ConfigureType0PcieCfg, ConfigShape
<1>2. CASE Complete
  <2> DEFINE m == Head(toEp).req
  <2>1. \/ config' = config
        \/ config' = [config EXCEPT ![m.addr] = Written(@, mask[m.addr], m.data)]
    BY <1>2 DEF Complete
  <2> HIDE DEF m
  <2>2. \A old, ro, new : Written(old, ro, new) \cap ro = old \cap ro
    BY DEF Written
  <2> QED
    BY <2>1, <2>2 DEF ConfigShape
<1>3. CASE ~ConfigureType0PcieCfg /\ ~Complete
  <2>1. config' = config
    BY <1>3
       DEF Next, ReleaseReset, ResetDeasserted, LeaveReset, LinkUp, Send, VUserInput_2,
           Identify, SizeBar, CheckBar, FirstCap, WalkCap, Answered, Finish
  <2> QED
    BY <2>1 DEF ConfigShape
<1> QED
  BY <1>1, <1>2, <1>3

(* Once the endpoint has set up its configuration space, no write of the   *)
(* root, the all ones of sizing included, changes a bit of it that the     *)
(* endpoint declared read-only, whatever the depth of the link.            *)
THEOREM ReadOnlyBitsKept == Spec => ReadOnlyKept
<1>1. Init => ConfigShape
  BY DEF Init, ConfigShape
<1>2. ConfigShape /\ [Next]_vars => ConfigShape'
  BY ConfigKept DEF ConfigShape, vars
<1>3. ConfigShape /\ [Next]_vars =>
        [ep.pc # "Configure" =>
           \A a \in Addr : config'[a] \cap mask[a] = config[a] \cap mask[a]]_vars
  BY ConfigKept
<1> QED
  BY <1>1, <1>2, <1>3, PTL DEF Spec, ReadOnlyKept
-----------------------------------------------------------------------------
(* Words: which bits the numbers of the program stand for.                 *)

LEMMA Powers ==
  /\ 2 ^ 0 = 1 /\ 2 ^ 1 = 2 /\ 2 ^ 2 = 4 /\ 2 ^ 3 = 8 /\ 2 ^ 4 = 16 /\ 2 ^ 5 = 32
  /\ 2 ^ 6 = 64 /\ 2 ^ 7 = 128 /\ 2 ^ 8 = 256 /\ 2 ^ 9 = 512 /\ 2 ^ 10 = 1024
  /\ 2 ^ 11 = 2048 /\ 2 ^ 12 = 4096 /\ 2 ^ 13 = 8192 /\ 2 ^ 14 = 16384 /\ 2 ^ 15 = 32768
OBVIOUS

LEMMA BitsAre ==
  ASSUME NEW n \in Nat
  PROVE  /\ Bits16(n) \subseteq 0 .. 15
         /\ 0 \in Bits16(n) <=> (n \div 1) % 2 = 1
         /\ 1 \in Bits16(n) <=> (n \div 2) % 2 = 1
         /\ 2 \in Bits16(n) <=> (n \div 4) % 2 = 1
         /\ 3 \in Bits16(n) <=> (n \div 8) % 2 = 1
         /\ 4 \in Bits16(n) <=> (n \div 16) % 2 = 1
         /\ 5 \in Bits16(n) <=> (n \div 32) % 2 = 1
         /\ 6 \in Bits16(n) <=> (n \div 64) % 2 = 1
         /\ 7 \in Bits16(n) <=> (n \div 128) % 2 = 1
         /\ 8 \in Bits16(n) <=> (n \div 256) % 2 = 1
         /\ 9 \in Bits16(n) <=> (n \div 512) % 2 = 1
         /\ 10 \in Bits16(n) <=> (n \div 1024) % 2 = 1
         /\ 11 \in Bits16(n) <=> (n \div 2048) % 2 = 1
         /\ 12 \in Bits16(n) <=> (n \div 4096) % 2 = 1
         /\ 13 \in Bits16(n) <=> (n \div 8192) % 2 = 1
         /\ 14 \in Bits16(n) <=> (n \div 16384) % 2 = 1
         /\ 15 \in Bits16(n) <=> (n \div 32768) % 2 = 1
BY Powers DEF Bits16

LEMMA Places ==
  \A i \in 0 .. 15 : i \in {0, 1, 2, 3, 4, 5, 6, 7, 8, 9, 10, 11, 12, 13, 14, 15}
OBVIOUS

LEMMA LowWord ==
  /\ Word(0, 0) = {} /\ Word(0, 8) = {3} /\ Word(0, 12) = {2, 3}
  /\ Word(0, 4095) = 0 .. 11 /\ Word(0, 1023) = 0 .. 9 /\ Word(0, 1) = {0}
<1>1. Bits16(0) = {}
  BY Places, BitsAre
<1>2. \A n : Word(0, n) = Bits16(n)
  BY <1>1 DEF Word
<1>3. Bits16(8) = {3}
  BY Places, BitsAre
<1>4. Bits16(12) = {2, 3}
  BY Places, BitsAre
<1>5. Bits16(4095) = 0 .. 11
  BY Places, BitsAre
<1>6. Bits16(1023) = 0 .. 9
  BY Places, BitsAre
<1>7. Bits16(1) = {0}
  BY Places, BitsAre
<1> QED
  BY <1>1, <1>2, <1>3, <1>4, <1>5, <1>6, <1>7

LEMMA WordInOnes == \A hi, lo : Word(hi, lo) \subseteq Ones
BY DEF Word, Bits16, Ones

\* What sizing and assigning leave in a base address register.
Sized(k) == Written(Type0Value(BarAddr(k)), Type0Mask(BarAddr(k)), Ones)
Assigned(k) == Written(Sized(k), Type0Mask(BarAddr(k)), BarValue[k + 1])

LEMMA BarTables ==
  /\ Type0Value(BarAddr(0)) = {3} /\ Type0Mask(BarAddr(0)) = 0 .. 11
  /\ Type0Value(BarAddr(1)) = {3} /\ Type0Mask(BarAddr(1)) = 0 .. 9
  /\ Type0Value(BarAddr(2)) = {2, 3} /\ Type0Mask(BarAddr(2)) = Ones
  /\ Type0Value(BarAddr(3)) = {} /\ Type0Mask(BarAddr(3)) = {0}
  /\ Type0Value(BarAddr(4)) = {} /\ Type0Mask(BarAddr(4)) = Ones
  /\ Type0Value(BarAddr(5)) = {} /\ Type0Mask(BarAddr(5)) = Ones
BY LowWord
   DEF Type0Value, Type0Mask, BarAddr, BarOffset, CapabilitiesPtr, PcieCaps, HeaderSize,
       MsiCaps, PcieCapsSize, PwrMgmtCaps, MsiCapsSize

LEMMA SizedAre ==
  /\ Sized(0) = {3} \cup 12 .. 31 /\ Sized(1) = {3} \cup 10 .. 31
  /\ Sized(2) = {2, 3} /\ Sized(3) = Ones \ {0} /\ Sized(4) = {} /\ Sized(5) = {}
BY BarTables DEF Sized, Written, Ones

LEMMA BarValuesFree ==
  /\ BarValue[1] \cap (0 .. 11) = {} /\ BarValue[2] \cap (0 .. 9) = {}
  /\ BarValue[3] = {} /\ 0 \notin BarValue[4]
  /\ \A k \in 1 .. 4 : BarValue[k] \subseteq Ones
<1>1. \A hi, lo : Word(hi, lo) \cap (0 .. 15) \subseteq Bits16(lo)
  BY DEF Word, Bits16
<1>2. Bits16(16384) = {14}
  BY Places, BitsAre
<1>3. Bits16(44032) = {10, 11, 13, 15}
  BY Places, BitsAre
<1>4. 0 \notin Bits16(63654)
  BY BitsAre
<1>5. /\ BarValue[1] = Word(10872, 16384) /\ BarValue[2] = Word(32265, 44032)
      /\ BarValue[3] = {} /\ BarValue[4] = Word(2047, 63654)
  BY DEF BarValue
<1>6. \A k \in 1 .. 4 : BarValue[k] \subseteq Ones
  <2>1. \A k \in 1 .. 4 : k \in {1, 2, 3, 4}
    OBVIOUS
  <2> QED
    BY <1>5, <2>1, WordInOnes
<1>7. BarValue[1] \cap (0 .. 15) \subseteq {14}
  BY <1>1, <1>2, <1>5
<1>8. BarValue[2] \cap (0 .. 15) \subseteq {10, 11, 13, 15}
  BY <1>1, <1>3, <1>5
<1>9. 0 \notin BarValue[4]
  BY <1>1, <1>4, <1>5
<1> QED
  BY <1>5, <1>6, <1>7, <1>8, <1>9

\* The check of a register assigned finds the value it was given.
LEMMA AssignedAre ==
  /\ \A k \in 0 .. 3 :
       Assigned(k) = BarValue[k + 1] \cup (Type0Value(BarAddr(k)) \cap Type0Mask(BarAddr(k)))
  /\ \A k \in 0 .. 2 : Assigned(k) \ {0, 1, 2, 3} = BarValue[k + 1]
  /\ Assigned(3) = BarValue[4]
<1>1. /\ Assigned(0) = BarValue[1] \cup {3}
      /\ Assigned(1) = BarValue[2] \cup {3}
      /\ Assigned(2) = {2, 3}
      /\ Assigned(3) = BarValue[4]
  BY BarTables, SizedAre, BarValuesFree DEF Assigned, Written, Ones
<1>2. \A k \in 0 .. 3 : k \in {0, 1, 2, 3}
  OBVIOUS
<1>3. \A k \in 0 .. 3 :
       Assigned(k) = BarValue[k + 1] \cup (Type0Value(BarAddr(k)) \cap Type0Mask(BarAddr(k)))
  BY <1>1, <1>2, BarTables, BarValuesFree DEF Ones
<1>4. \A k \in 0 .. 2 : Assigned(k) \ {0, 1, 2, 3} = BarValue[k + 1]
  BY <1>1, <1>2, BarValuesFree
<1> QED
  BY <1>1, <1>3, <1>4

LEMMA TablesInOnes ==
  \A a : Type0Value(a) \subseteq Ones /\ Type0Mask(a) \subseteq Ones
BY WordInOnes DEF Type0Value, Type0Mask

LEMMA WrittenInOnes ==
  ASSUME NEW old, old \subseteq Ones, NEW ro, NEW new, new \subseteq Ones
  PROVE  Written(old, ro, new) \subseteq Ones
BY DEF Written

LEMMA BarsInOnes ==
  /\ \A k : Sized(k) \subseteq Ones
  /\ \A k \in 0 .. 3 : Assigned(k) \subseteq Ones
<1>1. \A k : Sized(k) \subseteq Ones
  BY TablesInOnes, WrittenInOnes DEF Sized
<1>2. \A k \in 0 .. 3 : BarValue[k + 1] \subseteq Ones
  BY BarValuesFree
<1> QED
  BY <1>1, <1>2, WrittenInOnes DEF Assigned

\* The list of capabilities, as its links and names are read.
LEMMA CapBytes ==
  /\ Byte(Type0Value(CapabilitiesPtr), 0) = PcieCaps
  /\ Byte(Type0Value(PcieCaps), 0) = 16 /\ Byte(Type0Value(PcieCaps), 1) = MsiCaps
  /\ Byte(Type0Value(MsiCaps), 0) = 5 /\ Byte(Type0Value(MsiCaps), 1) = PwrMgmtCaps
  /\ Byte(Type0Value(PwrMgmtCaps), 0) = 1 /\ Byte(Type0Value(PwrMgmtCaps), 1) = 0
<1> USE DEF CapabilitiesPtr, PcieCaps, HeaderSize, MsiCaps, PcieCapsSize, PwrMgmtCaps, MsiCapsSize
<1>1. /\ Type0Value(52) = Word(0, 64) /\ Type0Value(64) = Word(0, 31760)
      /\ Type0Value(124) = Word(128, 37893) /\ Type0Value(148) = Word(3, 1)
  BY DEF Type0Value, BarAddr, BarOffset
<1>2. \A hi, lo, i : i \in 0 .. 15 => (i \in Word(hi, lo) <=> i \in Bits16(lo))
  BY DEF Word, Bits16
<1>3. Bits16(64) = {6}
  BY Places, BitsAre
<1>4. Bits16(31760) = {4, 10, 11, 12, 13, 14}
  BY Places, BitsAre
<1>5. Bits16(37893) = {0, 2, 10, 12, 15}
  BY Places, BitsAre
<1>6. Bits16(1) = {0}
  BY Places, BitsAre
<1>7. Byte(Word(0, 64), 0) = 64
  BY <1>2, <1>3, Powers DEF Byte
<1>8. Byte(Word(0, 31760), 0) = 16 /\ Byte(Word(0, 31760), 1) = 124
  BY <1>2, <1>4, Powers DEF Byte
<1>9. Byte(Word(128, 37893), 0) = 5 /\ Byte(Word(128, 37893), 1) = 148
  BY <1>2, <1>5, Powers DEF Byte
<1>10. Byte(Word(3, 1), 0) = 1 /\ Byte(Word(3, 1), 1) = 0
  BY <1>2, <1>6, Powers DEF Byte
<1> QED
  BY <1>1, <1>7, <1>8, <1>9, <1>10

LEMMA LowBits == LowBit(Sized(0)) = 12 /\ LowBit(Sized(1)) = 10
<1>1. Sized(0) \ (0 .. 3) = 12 .. 31 /\ Sized(1) \ (0 .. 3) = 10 .. 31
  BY SizedAre
<1> QED
  BY <1>1 DEF LowBit
-----------------------------------------------------------------------------
(* What the root program has asked for and been told.                      *)

\* The requests of the stage the program is in; the last one is a read.
Asks(r) ==
  CASE r.pc = "Ident" -> <<Rd(IdentAddr[r.k])>>
    [] r.pc = "Size" -> <<Wr(BarAddr(r.k), Ones), Rd(BarAddr(r.k))>>
    [] r.pc = "Check" /\ r.k = 0 ->
         <<Wr(BarAddr(0), BarValue[1]), Wr(BarAddr(1), BarValue[2]),
           Wr(BarAddr(2), BarValue[3]), Wr(BarAddr(3), BarValue[4]), Rd(BarAddr(0))>>
    [] r.pc = "Check" /\ r.k # 0 -> <<Rd(BarAddr(r.k))>>
    [] r.pc = "CapPtr" -> <<Rd(CapabilitiesPtr)>>
    [] r.pc = "Cap" -> <<Rd(r.cap + r.k)>>
    [] OTHER -> <<>>

\* The address of that read.
Asked(r) ==
  CASE r.pc = "Ident" -> IdentAddr[r.k]
    [] r.pc \in {"Size", "Check"} -> BarAddr(r.k)
    [] r.pc = "CapPtr" -> CapabilitiesPtr
    [] r.pc = "Cap" -> r.cap + r.k
    [] OTHER -> 0

\* How many of them the endpoint has handled.
Handled == Len(Asks(root)) - Len(root.todo) - Len(toEp)

\* The others are on the link, or still to be sent, in their order.
PendingInv ==
  /\ Handled \in Nat
  /\ \A i \in 1 .. Len(toEp) : toEp[i].req = Asks(root)[Handled + i]
  /\ \A i \in 1 .. Len(root.todo) : root.todo[i] = Asks(root)[Handled + Len(toEp) + i]

\* Base address register k when n requests of the stage have been handled.
BarState(r, n, k) ==
  CASE r.pc \in {"Reset", "Train", "Ident"} -> Type0Value(BarAddr(k))
    [] r.pc = "Size" ->
         IF k < r.k \/ (k = r.k /\ n > 0) THEN Sized(k) ELSE Type0Value(BarAddr(k))
    [] r.pc = "Check" /\ r.k = 0 -> IF k < n /\ k < 4 THEN Assigned(k) ELSE Sized(k)
    [] OTHER -> IF k < 4 THEN Assigned(k) ELSE Sized(k)

Bars == {BarAddr(k) : k \in 0 .. 5}

ConfigInv ==
  /\ DOMAIN config = Addr /\ DOMAIN mask = Addr
  /\ ep.pc # "Configure" =>
       /\ \A a \in Addr : mask[a] = Type0Mask(a)
       /\ \A k \in 0 .. 5 : config[BarAddr(k)] = BarState(root, Handled, k)
       /\ \A a \in Addr \ Bars : config[a] = Type0Value(a)
  /\ ep.pc = "Configure" => \A a \in Addr : config[a] = {} /\ mask[a] = {}

\* An answer holds what the endpoint still holds at the address asked for.
AnswerInv ==
  /\ \A i \in 1 .. Len(toRoot) :
       IsAnswer(toRoot[i]) => toEp = <<>> /\ toRoot[i].data = config[Asked(root)]
  /\ ip_byte_count > 0 => toEp = <<>> /\ ipbuf.data = config[Asked(root)]

\* Where the walk over the capabilities is, and what it has found.
CapAt(r, cap, size, next, before, id) ==
  /\ r.cap = cap
  /\ \/ r.k = 0 /\ r.found = before
     \/ /\ \E i \in 1 .. size \div 4 : r.k = 4 * i /\ r.k < size
        /\ r.size = size /\ r.next = next /\ r.found = before \cup {id}

\* The locals of the root program.
Known(r) ==
  /\ DOMAIN r = Fields /\ r.pc \in Stages /\ r.irq \in BOOLEAN /\ r.errors = 0
  /\ DOMAIN r.bar = 0 .. 5 /\ r.upper \in BOOLEAN
  /\ r.pc \in {"Reset", "Train", "Ident"} =>
       ~r.upper /\ \A k \in 0 .. 5 : r.bar[k] = {}
  /\ r.pc = "Ident" => r.k \in 1 .. 6
  /\ r.pc = "Size" =>
       /\ r.k \in 0 .. 5 /\ (r.upper <=> r.k = 3)
       /\ \A k \in 0 .. 5 : r.bar[k] = IF k < r.k THEN Sized(k) ELSE {}
  /\ r.pc = "Check" => r.k \in 0 .. 3
  /\ r.pc \in {"Check", "CapPtr", "Cap", "Quiet", "Finished"} =>
       \A k \in 0 .. 5 : r.bar[k] = Sized(k)
  /\ r.pc \notin {"Cap", "Quiet", "Finished"} => r.found = {}
  /\ r.pc = "Cap" =>
       \/ CapAt(r, PcieCaps, PcieCapsSize, MsiCaps, {}, 16)
       \/ CapAt(r, MsiCaps, MsiCapsSize, PwrMgmtCaps, {16}, 5)
       \/ CapAt(r, PwrMgmtCaps, PwrMgmtCapsSize, 0, {5, 16}, 1)
  /\ r.pc \in {"Quiet", "Finished"} => r.found = {1, 5, 16}

\* Nothing is asked for before the link is up or after the walk.
PhaseInv ==
  /\ DOMAIN ep = {"pc", "irq"}
  /\ ep.pc \in {"Configure", "Reset", "Train", "Idle"} /\ ep.irq \in BOOLEAN
  /\ pulse \subseteq {"ep", "root"} /\ released \in BOOLEAN
  /\ root.pc # "Reset" => ep.pc # "Configure"
  /\ root.pc \notin {"Reset", "Train"} => ep.pc = "Idle"
  /\ (root.irq \/ pulse # {}) => ep.pc # "Configure"
  /\ root.pc \in {"Quiet", "Finished"} =>
       /\ toEp = <<>> /\ ip_byte_count = 0 /\ root.todo = <<>>
       /\ \A i \in 1 .. Len(toRoot) : ~IsAnswer(toRoot[i])

LinkInv ==
  /\ Len(toEp) <= Depth /\ Len(toRoot) <= 2 * Depth
  /\ \A i \in 1 .. Len(toEp) : toEp[i].tag \in Tags
  /\ \A i \in 1 .. Len(toRoot) : toRoot[i].tag \in Tags /\ toRoot[i].data \subseteq Ones
  /\ ipbuf.tag \in Tags /\ ipbuf.data \subseteq Ones
  /\ ip_byte_count \in {0, 4}

EInv == PendingInv /\ ConfigInv /\ AnswerInv /\ Known(root) /\ PhaseInv /\ LinkInv
-----------------------------------------------------------------------------
\* Every address asked for is a word of the configuration space.
LEMMA AddrIs == \A j \in 0 .. 38 : 4 * j \in Addr
BY DEF Addr, ConfigSize, PwrMgmtCaps, MsiCaps, PcieCaps, HeaderSize, PcieCapsSize,
       MsiCapsSize, PwrMgmtCapsSize

LEMMA BarAddrs ==
  /\ \A k \in 0 .. 5 : BarAddr(k) \in Addr /\ BarAddr(k) \in Bars
  /\ \A j, k \in 0 .. 5 : BarAddr(j) = BarAddr(k) => j = k
  /\ \A a \in Bars : \E k \in 0 .. 5 : a = BarAddr(k)
  /\ \A a \in Bars : a \in 16 .. 36
<1>1. \A k \in 0 .. 5 : BarAddr(k) = 4 * (4 + k) /\ 4 + k \in 0 .. 38
  BY DEF BarAddr, BarOffset
<1>2. \A k \in 0 .. 5 : BarAddr(k) \in Addr
  BY <1>1, AddrIs
<1> QED
  BY <1>1, <1>2 DEF Bars

LEMMA CapKnown ==
  ASSUME NEW r, Known(r), r.pc = "Cap"
  PROVE  /\ r.cap + r.k \in Addr /\ r.k \in Nat
         /\ r.cap + r.k \notin Bars
         /\ r.cap \in {PcieCaps, MsiCaps, PwrMgmtCaps}
<1> USE DEF PcieCaps, HeaderSize, PcieCapsSize, MsiCaps, MsiCapsSize, PwrMgmtCaps, PwrMgmtCapsSize
<1>1. \/ r.cap = 64 /\ (r.k = 0 \/ \E i \in 1 .. 15 : r.k = 4 * i /\ r.k < 60)
      \/ r.cap = 124 /\ (r.k = 0 \/ \E i \in 1 .. 6 : r.k = 4 * i /\ r.k < 24)
      \/ r.cap = 148 /\ (r.k = 0 \/ \E i \in 1 .. 2 : r.k = 4 * i /\ r.k < 8)
  BY DEF Known, CapAt
<1>2. \E j \in 16 .. 38 : r.cap + r.k = 4 * j
  <2>1. CASE r.cap = 64 /\ (r.k = 0 \/ \E i \in 1 .. 15 : r.k = 4 * i /\ r.k < 60)
    <3>1. PICK i \in 0 .. 14 : r.k = 4 * i
      BY <2>1
    <3>2. 16 + i \in 16 .. 38 /\ r.cap + r.k = 4 * (16 + i)
      BY <2>1, <3>1
    <3> QED
      BY <3>2
  <2>2. CASE r.cap = 124 /\ (r.k = 0 \/ \E i \in 1 .. 6 : r.k = 4 * i /\ r.k < 24)
    <3>1. PICK i \in 0 .. 5 : r.k = 4 * i
      BY <2>2
    <3>2. 31 + i \in 16 .. 38 /\ r.cap + r.k = 4 * (31 + i)
      BY <2>2, <3>1
    <3> QED
      BY <3>2
  <2>3. CASE r.cap = 148 /\ (r.k = 0 \/ \E i \in 1 .. 2 : r.k = 4 * i /\ r.k < 8)
    <3>1. PICK i \in 0 .. 1 : r.k = 4 * i
      BY <2>3
    <3>2. 37 + i \in 16 .. 38 /\ r.cap + r.k = 4 * (37 + i)
      BY <2>3, <3>1
    <3> QED
      BY <3>2
  <2> QED
    BY <1>1, <2>1, <2>2, <2>3
<1>3. r.cap + r.k \in Addr /\ r.cap + r.k > 36
  BY <1>2, AddrIs
<1>4. r.k \in Nat /\ r.cap \in {64, 124, 148}
  BY <1>1
<1> QED
  BY <1>3, <1>4, BarAddrs

Asking == {"Ident", "Size", "Check", "CapPtr", "Cap"}

LEMMA AskedWord ==
  ASSUME NEW r, Known(r), r.pc \in Asking
  PROVE  Asked(r) \in Addr
<1>1. CASE r.pc = "Ident"
  <2>1. r.k \in {1, 2, 3, 4, 5, 6}
    BY <1>1 DEF Known
  <2>2. Asked(r) \in {4 * 0, 4 * 2, 4 * 3, 4 * 1}
    BY <1>1, <2>1 DEF Asked, IdentAddr
  <2> QED
    BY <2>2, AddrIs
<1>2. CASE r.pc \in {"Size", "Check"}
  BY <1>2, BarAddrs DEF Asked, Known
<1>3. CASE r.pc = "CapPtr"
  <2>1. Asked(r) = 4 * 13
    BY <1>3 DEF Asked, CapabilitiesPtr
  <2> QED
    BY <2>1, AddrIs
<1>4. CASE r.pc = "Cap"
  BY <1>4, CapKnown DEF Asked
<1> QED
  BY <1>1, <1>2, <1>3, <1>4 DEF Asking

\* The last request of a stage reads and changes nothing; each of the others
\* writes one base address register.
LEMMA Handles ==
  ASSUME NEW r, Known(r), NEW i \in 1 .. Len(Asks(r))
  PROVE  /\ Len(Asks(r)) \in Nat /\ r.pc \in Asking
         /\ \/ /\ i = Len(Asks(r)) /\ Asks(r)[i] = Rd(Asked(r))
               /\ \A j \in 0 .. 5 : BarState(r, i, j) = BarState(r, i - 1, j)
            \/ /\ i < Len(Asks(r))
               /\ \E b \in 0 .. 5, w \in SUBSET Ones :
                    /\ Asks(r)[i] = Wr(BarAddr(b), w)
                    /\ \A j \in 0 .. 5 :
                         BarState(r, i, j) =
                           IF j = b THEN Written(BarState(r, i - 1, j), Type0Mask(BarAddr(j)), w)
                                    ELSE BarState(r, i - 1, j)
<1> DEFINE q == Asks(r)
<1>0. r.pc \in Stages
  BY DEF Known
<1>1. ASSUME r.pc \in {"Ident", "CapPtr", "Cap"} \/ (r.pc = "Check" /\ r.k # 0)
      PROVE  /\ Len(q) = 1 /\ q[1] = Rd(Asked(r))
             /\ \A n, j : BarState(r, n, j) = BarState(r, 0, j)
  BY <1>1 DEF Asks, Asked, BarState
<1>2. CASE r.pc \in {"Ident", "CapPtr", "Cap"} \/ (r.pc = "Check" /\ r.k # 0)
  <2>1. /\ Len(q) = 1 /\ q[1] = Rd(Asked(r))
        /\ \A n, j : BarState(r, n, j) = BarState(r, 0, j)
    BY <1>1, <1>2
  <2> HIDE DEF q
  <2>2. i = 1
    BY <2>1 DEF q
  <2>3. \A j \in 0 .. 5 : BarState(r, 1, j) = BarState(r, 0, j)
    BY <2>1
  <2> QED
    BY <1>2, <2>1, <2>2, <2>3 DEF q, Asking
<1>3. CASE r.pc = "Size"
  <2> DEFINE d == Wr(BarAddr(r.k), Ones)
             e == Rd(BarAddr(r.k))
  <2>1. q = <<d, e>> /\ e = Rd(Asked(r))
    BY <1>3 DEF Asks, Asked
  <2> HIDE DEF d, e
  <2>2. Len(q) = 2 /\ q[1] = d /\ q[2] = e
    BY <2>1
  <2> HIDE DEF q
  <2>3. i = 1 \/ i = 2
    BY <2>2 DEF q
  <2>4. r.k \in 0 .. 5
    BY <1>3 DEF Known
  <2>5. \A j \in 0 .. 5 :
          /\ BarState(r, 2, j) = BarState(r, 1, j)
          /\ BarState(r, 1, j) =
               IF j = r.k THEN Written(BarState(r, 0, j), Type0Mask(BarAddr(j)), Ones)
                          ELSE BarState(r, 0, j)
    BY <1>3, <2>4 DEF BarState, Sized
  <2>6. CASE i = 1
    <3>1. q[i] = Wr(BarAddr(r.k), Ones) /\ i < Len(q)
      BY <2>2, <2>6 DEF d
    <3> QED
      BY <1>3, <2>2, <2>4, <2>5, <2>6, <3>1 DEF q, Asking
  <2>7. CASE i = 2
    BY <1>3, <2>1, <2>2, <2>5, <2>7 DEF q, Asking
  <2> QED
    BY <2>3, <2>6, <2>7
<1>4. CASE r.pc = "Check" /\ r.k = 0
  <2> DEFINE d(k) == Wr(BarAddr(k), BarValue[k + 1])
             e == Rd(BarAddr(0))
  <2>1. q = <<d(0), d(1), d(2), d(3), e>> /\ e = Rd(Asked(r))
    BY <1>4 DEF Asks, Asked
  <2> HIDE DEF d, e
  <2>2. Len(q) = 5 /\ q[1] = d(0) /\ q[2] = d(1) /\ q[3] = d(2) /\ q[4] = d(3) /\ q[5] = e
    BY <2>1
  <2> HIDE DEF q
  <2>3. i \in 1 .. 5
    BY <2>2 DEF q
  <2>4. i \in 1 .. 4 => q[i] = d(i - 1)
    <3>1. i \in 1 .. 4 => i = 1 \/ i = 2 \/ i = 3 \/ i = 4
      OBVIOUS
    <3> QED
      BY <2>2, <3>1
  <2>5. \A n \in 0 .. 5, j \in 0 .. 5 :
          BarState(r, n, j) = IF j < n /\ j < 4 THEN Assigned(j) ELSE Sized(j)
    BY <1>4 DEF BarState
  <2>6. CASE i = 5
    <3>1. \A j \in 0 .. 5 : BarState(r, 5, j) = BarState(r, 4, j)
      BY <2>5
    <3> QED
      BY <1>4, <2>1, <2>2, <2>6, <3>1 DEF q, Asking
  <2>7. CASE i \in 1 .. 4
    <3>1. i - 1 \in 0 .. 3 /\ i < Len(q)
      BY <2>2, <2>7
    <3>2. q[i] = Wr(BarAddr(i - 1), BarValue[i])
      BY <2>4, <2>7 DEF d
    <3>3. BarValue[i] \in SUBSET Ones
      BY <2>7, BarValuesFree
    <3>4. \A j \in 0 .. 5 :
            BarState(r, i, j) =
              IF j = i - 1 THEN Written(BarState(r, i - 1, j), Type0Mask(BarAddr(j)), BarValue[i])
                           ELSE BarState(r, i - 1, j)
      <4> SUFFICES ASSUME NEW j \in 0 .. 5
                   PROVE  BarState(r, i, j) =
                            IF j = i - 1
                            THEN Written(BarState(r, i - 1, j), Type0Mask(BarAddr(j)), BarValue[i])
                            ELSE BarState(r, i - 1, j)
        OBVIOUS
      <4>1. CASE j = i - 1
        <5>1. BarState(r, i, j) = Assigned(j) /\ BarState(r, i - 1, j) = Sized(j)
          BY <2>5, <2>7, <4>1
        <5>2. Assigned(j) = Written(Sized(j), Type0Mask(BarAddr(j)), BarValue[i])
          BY <2>7, <4>1 DEF Assigned
        <5> QED
          BY <4>1, <5>1, <5>2
      <4>2. CASE j # i - 1
        BY <2>5, <2>7, <4>2
      <4> QED
        BY <4>1, <4>2
    <3> QED
      BY <1>4, <2>2, <3>1, <3>2, <3>3, <3>4 DEF q, Asking
  <2> QED
    BY <2>3, <2>6, <2>7
<1>5. CASE r.pc \in {"Reset", "Train", "Quiet", "Finished"}
  <2>1. Asks(r) = <<>>
    BY <1>5 DEF Asks
  <2> QED
    BY <2>1
<1> QED
  BY <1>0, <1>2, <1>3, <1>4, <1>5 DEF Stages
-----------------------------------------------------------------------------
(* The locals of the root program when it goes on.                         *)

\* The same stage, and the same found.
SameProgress(r, r0) ==
  /\ r.pc = r0.pc /\ r.k = r0.k /\ r.bar = r0.bar /\ r.upper = r0.upper
  /\ r.errors = r0.errors /\ r.cap = r0.cap /\ r.next = r0.next /\ r.size = r0.size
  /\ r.found = r0.found /\ r.todo = r0.todo

SameFindings(r, r0) ==
  /\ r.irq = r0.irq /\ r.bar = r0.bar /\ r.upper = r0.upper /\ r.errors = r0.errors
  /\ r.cap = r0.cap /\ r.next = r0.next /\ r.size = r0.size /\ r.found = r0.found

LEMMA ToKeeps ==
  ASSUME NEW r, DOMAIN r = Fields, NEW pc, NEW k, NEW todo
  PROVE  /\ DOMAIN To(pc, k, todo, r) = Fields
         /\ To(pc, k, todo, r).pc = pc /\ To(pc, k, todo, r).k = k
         /\ To(pc, k, todo, r).todo = todo
         /\ SameFindings(To(pc, k, todo, r), r)
BY DEF To, Fields, SameFindings

LEMMA IdentKnown ==
  ASSUME NEW r, Known(r), r.pc \in {"Reset", "Train", "Ident"}, NEW k \in 1 .. 6
  PROVE  /\ Known(ToIdent(k, r)) /\ ToIdent(k, r).todo = Asks(ToIdent(k, r))
         /\ ToIdent(k, r).pc = "Ident"
<1> DEFINE s == ToIdent(k, r)
<1>1. /\ DOMAIN s = Fields /\ s.pc = "Ident" /\ s.k = k /\ s.todo = <<Rd(IdentAddr[k])>>
      /\ SameFindings(s, r)
  BY ToKeeps DEF ToIdent, Known
<1> HIDE DEF s
<1>2. Known(s)
  BY <1>1 DEF Known, SameFindings, Stages
<1>3. s.todo = Asks(s)
  BY <1>1 DEF Asks
<1> QED
  BY <1>1, <1>2, <1>3 DEF s
\* Only the interrupt flag has changed.
LEMMA SameProgressKeeps ==
  ASSUME IInv, EInv, PhaseInv', SameProgress(root', root), DOMAIN root' = Fields,
         root'.irq \in BOOLEAN,
         UNCHANGED <<ep, config, mask, toEp, toRoot, ipbuf, ip_byte_count>>
  PROVE  EInv'
<1>1. Asks(root') = Asks(root) /\ Asked(root') = Asked(root)
  BY DEF SameProgress, Asks, Asked
<1>2. Handled' = Handled
  BY <1>1 DEF Handled, SameProgress
<1>3. PendingInv'
  BY <1>1, <1>2 DEF EInv, PendingInv, SameProgress
<1>4. \A k \in 0 .. 5 : BarState(root', Handled', k) = BarState(root, Handled, k)
  BY <1>2 DEF BarState, SameProgress
<1>5. ConfigInv'
  BY <1>4 DEF EInv, ConfigInv
<1>6. AnswerInv' /\ LinkInv'
  BY <1>1 DEF EInv, AnswerInv, LinkInv
<1>7. Known(root')
  BY DEF EInv, Known, SameProgress, CapAt
<1> QED
  BY <1>3, <1>5, <1>6, <1>7 DEF EInv
-----------------------------------------------------------------------------
LEMMA AskLen ==
  ASSUME NEW r, Known(r)
  PROVE  /\ Len(Asks(r)) \in Nat
         /\ r.pc \in {"Reset", "Train", "Quiet", "Finished"} => Asks(r) = <<>> /\ Len(Asks(r)) = 0
         /\ r.pc \in Asking => Len(Asks(r)) > 0
<1>1. r.pc \in Stages
  BY DEF Known
<1>2. CASE r.pc \in {"Reset", "Train", "Quiet", "Finished"}
  <2>1. Asks(r) = <<>>
    BY <1>2 DEF Asks
  <2> QED
    BY <1>2, <2>1, EmptyIsSequence DEF Asking
<1>3. CASE r.pc \in {"Ident", "CapPtr", "Cap"} \/ (r.pc = "Check" /\ r.k # 0)
  <2>1. \E a : Asks(r) = <<Rd(a)>>
    BY <1>3 DEF Asks
  <2> QED
    BY <1>3, <2>1
<1>4. CASE r.pc = "Size"
  <2>1. Len(Asks(r)) = 2
    BY <1>4 DEF Asks
  <2> QED
    BY <1>4, <2>1
<1>5. CASE r.pc = "Check" /\ r.k = 0
  <2>1. Len(Asks(r)) = 5
    BY <1>5 DEF Asks
  <2> QED
    BY <1>5, <2>1
<1> QED
  BY <1>1, <1>2, <1>3, <1>4, <1>5 DEF Stages

\* With the last request handled nothing is pending.
LEMMA AllHandled ==
  ASSUME IInv, EInv, root.todo = <<>>, toEp = <<>>
  PROVE  Handled = Len(Asks(root))
BY EmptyIsSequence, AskLen DEF EInv, Handled

\* Outside the stages that ask for something.
LEMMA SilentStep ==
  ASSUME IInv, EInv, Known(root'), PhaseInv', root'.todo = root.todo,
         root.pc \in {"Reset", "Train", "Quiet", "Finished"},
         root'.pc \in {"Reset", "Train", "Quiet", "Finished"},
         root.pc \in {"Reset", "Train"} <=> root'.pc \in {"Reset", "Train"},
         ep.pc = "Configure" <=> ep'.pc = "Configure",
         UNCHANGED <<config, mask, toEp, toRoot, ipbuf, ip_byte_count>>
  PROVE  EInv'
<1>1. Asks(root) = <<>> /\ Asks(root') = <<>>
  BY AskLen DEF EInv
<1>2. Handled' = Handled
  BY <1>1 DEF Handled
<1>3. PendingInv'
  BY <1>1, <1>2 DEF EInv, PendingInv
<1>4. \A k \in 0 .. 5 : BarState(root', Handled', k) = BarState(root, Handled, k)
  BY DEF BarState
<1>5. ConfigInv'
  BY <1>4 DEF EInv, ConfigInv
<1>6. Asked(root') = Asked(root)
  BY DEF Asked
<1>7. AnswerInv'
  BY <1>6 DEF EInv, AnswerInv
<1>8. LinkInv'
  BY DEF EInv, LinkInv
<1> QED
  BY <1>3, <1>5, <1>7, <1>8 DEF EInv

\* A stage begins with nothing under way.
LEMMA StageStarts ==
  ASSUME IInv, EInv, toEp = <<>>, ip_byte_count' = 0,
         ep.pc # "Configure", ep'.pc = "Idle", ep'.irq = ep.irq, DOMAIN ep' = {"pc", "irq"},
         \A i \in 1 .. Len(toRoot) : ~IsAnswer(toRoot[i]),
         UNCHANGED <<config, mask, toEp, toRoot, ipbuf, pulse, released>>,
         Known(root'), root'.todo = Asks(root'), root'.pc \notin {"Reset", "Train"},
         \A k \in 0 .. 5 : BarState(root', 0, k) = BarState(root, Handled, k)
  PROVE  EInv'
<1>1. Len(Asks(root')) \in Nat
  BY AskLen
<1>2. Handled' = 0 /\ Len(toEp') = 0
  <2>1. Len(toEp') = 0
    BY EmptyIsSequence
  <2>2. Handled' = Len(Asks(root')) - Len(Asks(root')) - Len(toEp')
    BY DEF Handled
  <2> QED
    BY <1>1, <2>1, <2>2
<1>3. PendingInv'
  BY <1>1, <1>2 DEF PendingInv
<1>4. ConfigInv'
  BY <1>2 DEF EInv, ConfigInv
<1>5. AnswerInv'
  BY DEF AnswerInv
<1>6. PhaseInv'
  <2>1. root'.pc \in {"Quiet", "Finished"} => root'.todo = <<>>
    BY AskLen
  <2> QED
    BY <2>1 DEF EInv, PhaseInv
<1>7. LinkInv'
  BY DEF EInv, LinkInv
<1> QED
  BY <1>3, <1>4, <1>5, <1>6, <1>7 DEF EInv

LEMMA OutsideKeeps ==
  ASSUME IInv, EInv, \/ ConfigureType0PcieCfg \/ ReleaseReset \/ LinkUp \/ Finish
                     \/ \E who \in {"ep", "root"} : ResetDeasserted(who) \/ LeaveReset(who)
  PROVE  EInv'
<1>0. /\ Known(root) /\ PhaseInv /\ DOMAIN root = Fields /\ DOMAIN ep = {"pc", "irq"}
      /\ root.pc \in Stages
  BY DEF EInv, Known, PhaseInv
<1>1. CASE ConfigureType0PcieCfg
  <2>1. /\ root.pc = "Reset" /\ root' = root /\ ep'.pc = "Reset" /\ ep.irq = ep'.irq
        /\ DOMAIN ep' = {"pc", "irq"}
        /\ UNCHANGED <<toEp, toRoot, ipbuf, ip_byte_count, released, pulse>>
    BY <1>0, <1>1 DEF ConfigureType0PcieCfg, PhaseInv
  <2>2. toEp = <<>> /\ toRoot = <<>> /\ ip_byte_count = 0
    BY <2>1 DEF IInv, NothingSent
  <2>3. /\ config' = [a \in Addr |-> Type0Value(a)] /\ mask' = [a \in Addr |-> Type0Mask(a)]
    BY <1>1 DEF ConfigureType0PcieCfg
  <2>4. \A k \in 0 .. 5 : BarState(root', Handled', k) = Type0Value(BarAddr(k))
    BY <2>1 DEF BarState
  <2>5. ConfigInv'
    BY <2>1, <2>3, <2>4, BarAddrs DEF ConfigInv
  <2>6. AnswerInv'
    BY <2>1, <2>2, EmptyIsSequence DEF AnswerInv
  <2>7. PendingInv' /\ LinkInv' /\ Known(root')
    <3>1. Handled' = Handled
      BY <2>1 DEF Handled
    <3> QED
      BY <2>1, <3>1 DEF EInv, PendingInv, LinkInv
  <2>8. PhaseInv'
    BY <1>0, <2>1 DEF PhaseInv
  <2> QED
    BY <2>5, <2>6, <2>7, <2>8 DEF EInv
<1>2. CASE ReleaseReset
  <2>1. /\ root.pc = "Reset" /\ ep.pc = "Reset" /\ UNCHANGED <<ep, root>>
        /\ released' = TRUE /\ pulse' = {"ep", "root"}
        /\ UNCHANGED <<config, mask, toEp, toRoot, ipbuf, ip_byte_count>>
    BY <1>2 DEF ReleaseReset
  <2>2. PhaseInv'
    BY <1>0, <2>1 DEF PhaseInv
  <2> QED
    BY <1>0, <2>1, <2>2, SilentStep
<1>3. ASSUME NEW who \in {"ep", "root"}, ResetDeasserted(who)
      PROVE  EInv'
  <2>1. /\ who \in pulse /\ pulse' = pulse \ {who}
        /\ UNCHANGED <<config, mask, ipbuf, ip_byte_count, toEp, toRoot, released>>
    BY <1>3 DEF ResetDeasserted
  <2>2. CASE who = "ep"
    <3>1. /\ DOMAIN ep' = {"pc", "irq"} /\ ep'.pc = ep.pc /\ ep'.irq = TRUE /\ root' = root
      BY <1>0, <1>3, <2>2 DEF ResetDeasserted
    <3>2. PhaseInv'
      BY <1>0, <2>1, <3>1 DEF PhaseInv
    <3>3. Handled' = Handled
      BY <2>1, <3>1 DEF Handled
    <3> QED
      BY <2>1, <3>1, <3>2, <3>3 DEF EInv, PendingInv, ConfigInv, AnswerInv, LinkInv
  <2>3. CASE who = "root"
    <3>1. root' = [root EXCEPT !.irq = TRUE] /\ ep' = ep
      BY <1>3, <2>3 DEF ResetDeasserted
    <3>2. SameProgress(root', root) /\ DOMAIN root' = Fields /\ root'.irq = TRUE
      BY <1>0, <3>1 DEF SameProgress, Fields
    <3>3. PhaseInv'
      BY <1>0, <2>1, <3>1, <3>2 DEF PhaseInv, SameProgress
    <3> QED
      BY <2>1, <3>1, <3>2, <3>3, SameProgressKeeps
  <2> QED
    BY <2>2, <2>3
<1>4. ASSUME NEW who \in {"ep", "root"}, LeaveReset(who)
      PROVE  EInv'
  <2>1. UNCHANGED <<config, mask, ipbuf, ip_byte_count, toEp, toRoot, released, pulse>>
    BY <1>4 DEF LeaveReset
  <2>2. CASE who = "ep"
    <3>1. /\ DOMAIN ep' = {"pc", "irq"} /\ ep'.pc = "Train" /\ ep.pc = "Reset"
          /\ ep'.irq = FALSE /\ root' = root
      BY <1>0, <1>4, <2>2 DEF LeaveReset
    <3>2. PhaseInv'
      BY <1>0, <2>1, <3>1 DEF PhaseInv
    <3>3. Handled' = Handled
      BY <2>1, <3>1 DEF Handled
    <3> QED
      BY <2>1, <3>1, <3>2, <3>3 DEF EInv, PendingInv, ConfigInv, AnswerInv, LinkInv
  <2>3. CASE who = "root"
    <3>1. /\ root.pc = "Reset" /\ root.irq
          /\ root' = [root EXCEPT !.irq = FALSE, !.pc = "Train"] /\ ep' = ep
      BY <1>4, <2>3 DEF LeaveReset
    <3>2. /\ DOMAIN root' = Fields /\ root'.irq = FALSE /\ root'.pc = "Train"
          /\ root'.todo = root.todo /\ root'.errors = root.errors /\ root'.bar = root.bar
          /\ root'.upper = root.upper /\ root'.found = root.found
      BY <1>0, <3>1 DEF Fields
    <3>3. PhaseInv'
      BY <1>0, <2>1, <3>1, <3>2 DEF PhaseInv
    <3>4. Known(root')
      BY <1>0, <3>1, <3>2 DEF Known, Stages
    <3> QED
      BY <2>1, <3>1, <3>2, <3>3, <3>4, SilentStep
  <2> QED
    BY <2>2, <2>3
<1>5. CASE LinkUp
  <2>1. /\ root.pc = "Train" /\ ep.pc = "Train" /\ ep' = [ep EXCEPT !.pc = "Idle"]
        /\ root' = ToIdent(1, root)
        /\ UNCHANGED <<config, mask, ipbuf, ip_byte_count, toEp, toRoot, released, pulse>>
    BY <1>5 DEF LinkUp
  <2>2. toEp = <<>> /\ toRoot = <<>> /\ ip_byte_count = 0
    BY <2>1 DEF IInv, NothingSent
  <2>3. /\ DOMAIN ep' = {"pc", "irq"} /\ ep'.pc = "Idle" /\ ep'.irq = ep.irq
    BY <1>0, <2>1
  <2>4. Known(root') /\ root'.todo = Asks(root') /\ root'.pc = "Ident"
    BY <1>0, <2>1, IdentKnown
  <2>5. \A k \in 0 .. 5 : BarState(root', 0, k) = BarState(root, Handled, k)
    BY <2>1, <2>4 DEF BarState
  <2>6. \A i \in 1 .. Len(toRoot) : ~IsAnswer(toRoot[i])
    BY <2>2, EmptyIsSequence
  <2> QED
    BY <1>0, <2>1, <2>2, <2>3, <2>4, <2>5, <2>6, StageStarts
<1>6. CASE Finish
  <2>1. /\ root.pc = "Quiet" /\ root' = [root EXCEPT !.pc = "Finished"]
        /\ UNCHANGED <<ep, config, mask, ipbuf, ip_byte_count, toEp, toRoot, released, pulse>>
    BY <1>6 DEF Finish
  <2>2. /\ DOMAIN root' = Fields /\ root'.irq = root.irq /\ root'.pc = "Finished"
        /\ root'.todo = root.todo /\ root'.errors = root.errors /\ root'.bar = root.bar
        /\ root'.upper = root.upper /\ root'.found = root.found
    BY <1>0, <2>1 DEF Fields
  <2>3. PhaseInv'
    BY <1>0, <2>1, <2>2 DEF PhaseInv
  <2>4. Known(root')
    BY <1>0, <2>1, <2>2 DEF Known, Stages
  <2> QED
    BY <2>1, <2>2, <2>3, <2>4, SilentStep
<1> QED
  BY <1>1, <1>2, <1>3, <1>4, <1>5, <1>6
-----------------------------------------------------------------------------
LEMMA SendKeeps ==
  ASSUME IInv, EInv, Send
  PROVE  EInv'
<1> DEFINE todo == root.todo
           n == Len(toEp)
           e == [req |-> Head(todo), tag |-> root.tag]
<1>1. /\ todo # <<>> /\ toEp' = Append(toEp, e) /\ n < Depth
      /\ root' = [root EXCEPT !.todo = Tail(@), !.tag = GetNextTag(@)]
      /\ UNCHANGED <<ep, config, mask, ipbuf, ip_byte_count, toRoot, released, pulse>>
  BY DEF Send
<1>2. /\ DOMAIN root' = Fields /\ root'.todo = Tail(todo) /\ root'.irq = root.irq
      /\ root'.pc = root.pc /\ root'.k = root.k /\ root'.bar = root.bar
      /\ root'.upper = root.upper /\ root'.errors = root.errors /\ root'.cap = root.cap
      /\ root'.next = root.next /\ root'.size = root.size /\ root'.found = root.found
  BY <1>1 DEF IInv, Shapes, Fields
<1>3. /\ Len(Tail(todo)) = Len(todo) - 1
      /\ \A i \in 1 .. Len(todo) - 1 : Tail(todo)[i] = todo[i + 1]
      /\ Head(todo) = todo[1] /\ Len(todo) \in Nat \ {0}
  BY <1>1, TailTaken DEF IInv, Shapes
<1>4. /\ Len(toEp') = n + 1 /\ n \in Nat
      /\ \A i \in 1 .. n : toEp'[i] = toEp[i]
      /\ toEp'[n + 1] = e
  BY <1>1, Appended, SequenceLen DEF IInv, Shapes
<1>5. /\ e.req = todo[1] /\ e.tag = root.tag
  BY <1>3
<1> HIDE DEF e
<1>6. Asks(root') = Asks(root) /\ Asked(root') = Asked(root)
  BY <1>2 DEF Asks, Asked
<1>7. Len(Asks(root)) \in Nat
  BY AskLen DEF EInv
<1>8. Handled' = Handled /\ Handled \in Nat
  <2>1. Handled' = Len(Asks(root)) - Len(Tail(todo)) - Len(toEp')
    BY <1>2, <1>6 DEF Handled
  <2>2. Handled = Len(Asks(root)) - Len(todo) - n /\ Handled \in Nat
    BY DEF EInv, PendingInv, Handled
  <2>3. /\ Len(Tail(todo)) = Len(todo) - 1 /\ Len(todo) \in Nat \ {0}
        /\ Len(toEp') = n + 1 /\ n \in Nat
    BY <1>3, <1>4
  <2> HIDE DEF todo, n
  <2> QED
    BY <1>7, <2>1, <2>2, <2>3
<1>9. PendingInv'
  <2> DEFINE q == Asks(root)
  <2>1. /\ \A i \in 1 .. n : toEp[i].req = q[Handled + i]
        /\ \A i \in 1 .. Len(todo) : todo[i] = q[Handled + n + i]
    BY DEF EInv, PendingInv
  <2> HIDE DEF q
  <2>2. \A i \in 1 .. n + 1 : toEp'[i].req = q[Handled + i]
    <3> SUFFICES ASSUME NEW i \in 1 .. n + 1
                 PROVE  toEp'[i].req = q[Handled + i]
      OBVIOUS
    <3>1. CASE i \in 1 .. n
      BY <1>4, <2>1, <3>1
    <3>2. CASE i = n + 1
      <4>1. todo[1] = q[Handled + n + 1]
        BY <1>3, <2>1
      <4>2. Handled + i = Handled + n + 1
        BY <1>4, <1>8, <3>2
      <4> QED
        BY <1>4, <1>5, <3>2, <4>1, <4>2
    <3> QED
      BY <1>4, <3>1, <3>2
  <2>3. \A i \in 1 .. Len(todo) - 1 : Tail(todo)[i] = q[Handled + (n + 1) + i]
    <3> SUFFICES ASSUME NEW i \in 1 .. Len(todo) - 1
                 PROVE  Tail(todo)[i] = q[Handled + (n + 1) + i]
      OBVIOUS
    <3>1. todo[i + 1] = q[Handled + n + (i + 1)]
      BY <1>3, <2>1
    <3>2. Handled + n + (i + 1) = Handled + (n + 1) + i
      BY <1>3, <1>4, <1>8
    <3> QED
      BY <1>3, <3>1, <3>2
  <2> QED
    BY <1>2, <1>3, <1>4, <1>6, <1>8, <2>2, <2>3 DEF PendingInv, q
<1>10. \A k \in 0 .. 5 : BarState(root', Handled', k) = BarState(root, Handled, k)
  BY <1>2, <1>8 DEF BarState
<1>11. ConfigInv'
  BY <1>1, <1>10 DEF EInv, ConfigInv
<1>12. AnswerInv'
  <2>1. /\ \A i \in 1 .. Len(toRoot) : ~IsAnswer(toRoot[i])
        /\ ~(ip_byte_count > 0)
    BY <1>1, NoneUnderWay
  <2> QED
    BY <1>1, <2>1 DEF AnswerInv
<1>13. Known(root')
  BY <1>2 DEF EInv, Known, CapAt
<1>14. PhaseInv'
  BY <1>1, <1>2 DEF EInv, PhaseInv
<1>15. LinkInv'
  <2>1. root.tag \in Tags
    BY DEF IInv, Shapes
  <2>2. \A i \in 1 .. n + 1 : toEp'[i].tag \in Tags
    <3>1. \A i \in 1 .. n + 1 : i \in 1 .. n \/ i = n + 1
      BY <1>4
    <3> QED
      BY <1>4, <1>5, <2>1, <3>1 DEF EInv, LinkInv
  <2>3. n + 1 <= Depth
    BY <1>1, <1>4, DepthAssumption
  <2> QED
    BY <1>1, <1>4, <2>2, <2>3 DEF EInv, LinkInv
<1> QED
  BY <1>9, <1>11, <1>12, <1>13, <1>14, <1>15 DEF EInv

LEMMA ConfigWords ==
  ASSUME EInv, root.pc \in Asking
  PROVE  \A a \in Addr : config[a] \subseteq Ones
<1>1. ep.pc # "Configure"
  BY DEF EInv, PhaseInv, Asking
<1>2. \A n, k : k \in 0 .. 5 => BarState(root, n, k) \subseteq Ones
  <2>1. \A k \in 0 .. 5 : k < 4 => k \in 0 .. 3
    OBVIOUS
  <2> QED
    BY <2>1, TablesInOnes, BarsInOnes DEF BarState
<1>3. \A a \in Addr : a \in Bars => config[a] \subseteq Ones
  BY <1>1, <1>2, BarAddrs DEF EInv, ConfigInv
<1>4. \A a \in Addr : a \notin Bars => config[a] \subseteq Ones
  BY <1>1, TablesInOnes DEF EInv, ConfigInv
<1> QED
  BY <1>3, <1>4

LEMMA CompleteKeeps ==
  ASSUME IInv, EInv, Complete
  PROVE  EInv'
<1> DEFINE m == Head(toEp)
           a == m.req.addr
           n == Len(toRoot)
           d == [kind |-> "dllp", tag |-> 0, data |-> {}]
           c == IF m.req.op = "rd" THEN [kind |-> "cpld", tag |-> m.tag, data |-> config[a]]
                                   ELSE [kind |-> "cpl", tag |-> m.tag, data |-> {}]
           h == Handled + 1
           q == Asks(root)
<1>1. /\ toEp # <<>> /\ toEp' = Tail(toEp) /\ toRoot' = toRoot \o <<d, c>>
      /\ n + 2 <= 2 * Depth
      /\ config' = IF m.req.op = "wr"
                   THEN [config EXCEPT ![a] = Written(@, mask[a], m.req.data)] ELSE config
      /\ UNCHANGED <<ep, mask, root, ipbuf, ip_byte_count, released, pulse>>
  BY DEF Complete
<1>2. /\ ~IsAnswer(d) /\ d.tag = 0 /\ d.data = {}
      /\ (IsAnswer(c) <=> m.req.op = "rd") /\ c.tag = m.tag
      /\ c.data = IF m.req.op = "rd" THEN config[a] ELSE {}
  BY DEF IsAnswer
<1> HIDE DEF d, c
<1>3. /\ IsSequence(Tail(toEp)) /\ Len(Tail(toEp)) = Len(toEp) - 1
      /\ \A i \in 1 .. Len(toEp) - 1 : Tail(toEp)[i] = toEp[i + 1]
      /\ m = toEp[1] /\ Len(toEp) \in Nat \ {0}
  BY <1>1, TailTaken DEF IInv, Shapes
<1>4. /\ Len(toRoot') = n + 2 /\ n \in Nat
      /\ \A i \in 1 .. n : toRoot'[i] = toRoot[i]
      /\ toRoot'[n + 1] = d /\ toRoot'[n + 2] = c
  <2>1. IsSequence(toRoot)
    BY DEF IInv, Shapes
  <2>2. n \in Nat
    BY <2>1, SequenceLen
  <2>3. /\ Len(toRoot \o <<d, c>>) = n + 2
        /\ \A i \in 1 .. n : (toRoot \o <<d, c>>)[i] = toRoot[i]
        /\ (toRoot \o <<d, c>>)[n + 1] = d
        /\ (toRoot \o <<d, c>>)[n + 2] = c
    BY <2>1, AppendedTwo
  <2> QED
    BY <1>1, <2>2, <2>3, Zenon
<1> HIDE DEF m
<1>5. Known(root) /\ Len(q) \in Nat /\ Len(root.todo) \in Nat
  BY AskLen, SequenceLen, EmptyIsSequence DEF EInv, IInv, Shapes
<1>6. /\ Handled = Len(q) - Len(root.todo) - Len(toEp) /\ Handled \in Nat
      /\ Handled' = h /\ h \in 1 .. Len(q)
  <2> DEFINE l == Len(q)
             t == Len(root.todo)
             e == Len(toEp)
  <2>1. Handled = l - t - e /\ Handled \in Nat
    BY DEF EInv, PendingInv, Handled
  <2>2. Handled' = l - t - (e - 1)
    BY <1>1, <1>3 DEF Handled
  <2>3. l \in Nat /\ t \in Nat /\ e \in Nat \ {0}
    BY <1>3, <1>5
  <2> HIDE DEF l, t, e
  <2>4. Handled' = h /\ h \in 1 .. l
    BY <2>1, <2>2, <2>3
  <2> QED
    BY <2>1, <2>4 DEF l, t, e
<1>7. /\ \A i \in 1 .. Len(toEp) : toEp[i].req = q[Handled + i]
      /\ \A i \in 1 .. Len(root.todo) : root.todo[i] = q[Handled + Len(toEp) + i]
  BY DEF EInv, PendingInv
<1>6a. Len(toEp) \in Nat \ {0} /\ Handled \in Nat /\ Handled' = h /\ h \in 1 .. Len(q)
  BY <1>3, <1>6
<1>7a. m.req = q[h]
  <2> HIDE DEF q
  <2>1. 1 \in 1 .. Len(toEp) /\ toEp[1] = m
    BY <1>3
  <2> QED
    BY <1>7, <2>1
<1>8. PendingInv'
  <2> HIDE DEF q
  <2>1. \A i \in 1 .. Len(toEp) - 1 : toEp[i + 1].req = q[h + i]
    <3> SUFFICES ASSUME NEW i \in 1 .. Len(toEp) - 1
                 PROVE  toEp[i + 1].req = q[h + i]
      OBVIOUS
    <3>1. i + 1 \in 1 .. Len(toEp) /\ Handled + (i + 1) = h + i
      BY <1>6a
    <3> HIDE DEF h
    <3> QED
      BY <1>7, <3>1
  <2>2. \A i \in 1 .. Len(root.todo) : root.todo[i] = q[h + (Len(toEp) - 1) + i]
    <3> SUFFICES ASSUME NEW i \in 1 .. Len(root.todo)
                 PROVE  root.todo[i] = q[h + (Len(toEp) - 1) + i]
      OBVIOUS
    <3>1. Handled + Len(toEp) + i = h + (Len(toEp) - 1) + i
      BY <1>6a
    <3> HIDE DEF h
    <3> QED
      BY <1>7, <3>1
  <2>3. /\ root' = root /\ toEp' = Tail(toEp) /\ Len(Tail(toEp)) = Len(toEp) - 1
        /\ \A i \in 1 .. Len(toEp) - 1 : Tail(toEp)[i] = toEp[i + 1]
    BY <1>1, <1>3
  <2>4. Handled' = h /\ h \in Nat
    BY <1>6a
  <2> HIDE DEF h
  <2>5. Asks(root') = q
    BY <2>3 DEF q
  <2>6. \A i \in 1 .. Len(toEp') : toEp'[i].req = Asks(root')[Handled' + i]
    BY <2>1, <2>3, <2>4, <2>5
  <2>7. \A i \in 1 .. Len(root'.todo) :
          root'.todo[i] = Asks(root')[Handled' + Len(toEp') + i]
    BY <2>2, <2>3, <2>4, <2>5
  <2> QED
    BY <2>4, <2>6, <2>7 DEF PendingInv
<1>9. root.pc \in Asking /\ ep.pc = "Idle"
  <2>1. root.pc \in Asking
    BY <1>5, <1>6, Handles
  <2> QED
    BY <2>1 DEF EInv, PhaseInv, Asking
<1>10. \/ /\ h = Len(q) /\ m.req = Rd(Asked(root))
          /\ \A j \in 0 .. 5 : BarState(root, h, j) = BarState(root, Handled, j)
       \/ /\ h < Len(q)
          /\ \E b \in 0 .. 5, w \in SUBSET Ones :
               /\ m.req = Wr(BarAddr(b), w)
               /\ \A j \in 0 .. 5 :
                    BarState(root, h, j) =
                      IF j = b THEN Written(BarState(root, Handled, j), Type0Mask(BarAddr(j)), w)
                               ELSE BarState(root, Handled, j)
  <2>1. h - 1 = Handled /\ h \in 1 .. Len(q)
    BY <1>6a
  <2> HIDE DEF h
  <2> QED
    BY <1>5, <1>7a, <2>1, Handles
<1>11. m.tag \in Tags
  BY <1>3 DEF EInv, LinkInv
<1> HIDE DEF h
<1>12. PhaseInv'
  BY <1>1, <1>9 DEF EInv, PhaseInv, Asking
<1>13. LinkInv' \/ ~(c.data \subseteq Ones)
  <2>1. CASE c.data \subseteq Ones
    <3>1. \A i \in 1 .. n + 2 : i \in 1 .. n \/ i = n + 1 \/ i = n + 2
      BY <1>4
    <3>2. \A i \in 1 .. n : toRoot[i].tag \in Tags /\ toRoot[i].data \subseteq Ones
      BY DEF EInv, LinkInv
    <3>3. 0 \in Tags
      BY DEF Tags
    <3>4. \A i \in 1 .. n + 2 : toRoot'[i].tag \in Tags /\ toRoot'[i].data \subseteq Ones
      BY <1>2, <1>4, <1>11, <2>1, <3>1, <3>2, <3>3
    <3>5. /\ Len(toEp') <= Depth
          /\ \A i \in 1 .. Len(toEp) - 1 : Tail(toEp)[i].tag \in Tags
      BY <1>1, <1>3, DepthAssumption DEF EInv, LinkInv
    <3> QED
      BY <1>1, <1>3, <1>4, <3>4, <3>5 DEF EInv, LinkInv
  <2> QED
    BY <2>1
<1>14. CASE m.req = Rd(Asked(root)) /\ h = Len(q)
  <2>1. m.req.op = "rd" /\ a = Asked(root) /\ config' = config
    BY <1>1, <1>14 DEF Rd
  <2>2. toEp' = <<>>
    <3>1. Len(toEp) = 1
      <4> DEFINE l == Len(q)
                 t == Len(root.todo)
                 e == Len(toEp)
      <4>1. /\ Handled = l - t - e /\ Handled + 1 = l
            /\ l \in Nat /\ t \in Nat /\ e \in Nat \ {0}
        BY <1>5, <1>6, <1>6a, <1>14 DEF h
      <4> HIDE DEF l, t, e
      <4>2. e = 1
        BY <4>1
      <4> QED
        BY <4>2 DEF e
    <3> QED
      <4>1. IsSequence(Tail(toEp)) /\ Len(Tail(toEp)) = 0 /\ toEp' = Tail(toEp)
        BY <1>1, <1>3, <3>1
      <4> QED
        BY <4>1, SequenceLen
  <2>3. Asked(root) \in Addr
    BY <1>5, <1>9, AskedWord
  <2>4. c.data = config[Asked(root)] /\ c.data \subseteq Ones
    BY <1>2, <1>9, <2>1, <2>3, ConfigWords
  <2>5. /\ \A i \in 1 .. n : ~IsAnswer(toRoot[i])
        /\ ip_byte_count = 0
    <3>1. IsRead(toEp[1]) /\ 1 \in 1 .. Len(toEp)
      BY <1>3, <2>1 DEF IsRead
    <3> QED
      BY <3>1 DEF IInv, OneRead
  <2>6. AnswerInv'
    <3>1. \A i \in 1 .. n + 2 : i \in 1 .. n \/ i = n + 1 \/ i = n + 2
      BY <1>4
    <3>2. \A i \in 1 .. n + 2 : IsAnswer(toRoot'[i]) => toRoot'[i].data = config[Asked(root)]
      BY <1>2, <1>4, <2>4, <2>5, <3>1
    <3>3. /\ Len(toRoot') = n + 2 /\ toEp' = <<>> /\ ip_byte_count' = 0
          /\ config' = config /\ root' = root
      BY <1>1, <1>4, <2>1, <2>2, <2>5
    <3> QED
      BY <3>2, <3>3 DEF AnswerInv
  <2>7. ConfigInv'
    <3>1. \A j \in 0 .. 5 : BarState(root, h, j) = BarState(root, Handled, j)
      BY <1>10, <1>14, <1>5, <1>6
    <3> QED
      BY <1>1, <1>6, <2>1, <3>1 DEF EInv, ConfigInv
  <2> QED
    BY <1>1, <1>5, <1>8, <1>12, <1>13, <2>4, <2>6, <2>7 DEF EInv
<1>15. ASSUME NEW b \in 0 .. 5, NEW w \in SUBSET Ones, m.req = Wr(BarAddr(b), w),
              \A j \in 0 .. 5 :
                BarState(root, h, j) =
                  IF j = b THEN Written(BarState(root, Handled, j), Type0Mask(BarAddr(j)), w)
                           ELSE BarState(root, Handled, j)
       PROVE  EInv'
  <2>1. m.req.op = "wr" /\ a = BarAddr(b) /\ m.req.data = w
    BY <1>15 DEF Wr
  <2>2. /\ a \in Addr /\ a \in Bars
        /\ config' = [config EXCEPT ![a] = Written(@, mask[a], w)]
        /\ mask[a] = Type0Mask(a) /\ DOMAIN config = Addr
    BY <1>1, <1>9, <2>1, BarAddrs DEF EInv, ConfigInv
  <2>3. \A j \in 0 .. 5 : config'[BarAddr(j)] = BarState(root, h, j)
    <3> SUFFICES ASSUME NEW j \in 0 .. 5
                 PROVE  config'[BarAddr(j)] = BarState(root, h, j)
      OBVIOUS
    <3>1. config[BarAddr(j)] = BarState(root, Handled, j) /\ BarAddr(j) \in Addr
      BY <1>9, BarAddrs DEF EInv, ConfigInv
    <3>2. CASE j = b
      BY <1>15, <2>1, <2>2, <3>1, <3>2
    <3>3. CASE j # b
      <4>1. BarAddr(j) # a
        BY <2>1, <3>3, BarAddrs
      <4> QED
        BY <1>15, <2>2, <3>1, <3>3, <4>1
    <3> QED
      BY <3>2, <3>3
  <2>4. ConfigInv'
    BY <1>1, <1>6, <1>9, <2>2, <2>3 DEF EInv, ConfigInv
  <2>5. AnswerInv'
    <3>1. /\ \A i \in 1 .. n : ~IsAnswer(toRoot[i])
          /\ ~(ip_byte_count > 0)
      BY <1>1 DEF EInv, AnswerInv
    <3>2. \A i \in 1 .. n + 2 : i \in 1 .. n \/ i = n + 1 \/ i = n + 2
      BY <1>4
    <3>3. \A i \in 1 .. n + 2 : ~IsAnswer(toRoot'[i])
      BY <1>2, <1>4, <2>1, <3>1, <3>2
    <3> QED
      BY <1>1, <1>4, <3>1, <3>3 DEF AnswerInv
  <2>6. c.data \subseteq Ones
    BY <1>2, <2>1
  <2> QED
    BY <1>1, <1>5, <1>8, <1>12, <1>13, <2>4, <2>5, <2>6 DEF EInv
<1> QED
  BY <1>10, <1>14, <1>15

LEMMA InputKeeps ==
  ASSUME IInv, EInv, VUserInput_2
  PROVE  EInv'
<1> DEFINE m == Head(toRoot)
<1>1. /\ toRoot # <<>> /\ toRoot' = Tail(toRoot)
      /\ UNCHANGED <<ep, config, mask, root, toEp, released, pulse>>
      /\ IF IsAnswer(m)
         THEN ipbuf' = [data |-> m.data, tag |-> m.tag] /\ ip_byte_count' = 4
         ELSE UNCHANGED <<ipbuf, ip_byte_count>>
  BY DEF VUserInput_2, IsAnswer
<1>2. /\ Len(Tail(toRoot)) = Len(toRoot) - 1
      /\ \A i \in 1 .. Len(toRoot) - 1 : Tail(toRoot)[i] = toRoot[i + 1]
      /\ m = toRoot[1] /\ Len(toRoot) \in Nat \ {0}
  BY <1>1, TailTaken DEF IInv, Shapes
<1> HIDE DEF m
<1>3. Handled' = Handled
  BY <1>1 DEF Handled
<1>4. PendingInv' /\ ConfigInv' /\ Known(root')
  BY <1>1, <1>3 DEF EInv, PendingInv, ConfigInv
<1>5. \A i \in 1 .. Len(toRoot) - 1 : i + 1 \in 1 .. Len(toRoot)
  BY <1>2
<1>6. AnswerInv'
  <2>1. IsAnswer(m) => toEp = <<>> /\ m.data = config[Asked(root)]
    BY <1>2 DEF EInv, AnswerInv
  <2>2. \A i \in 1 .. Len(toRoot) - 1 :
          IsAnswer(toRoot[i + 1]) => toEp = <<>> /\ toRoot[i + 1].data = config[Asked(root)]
    BY <1>5 DEF EInv, AnswerInv
  <2>3. ip_byte_count' > 0 => toEp = <<>> /\ ipbuf'.data = config[Asked(root)]
    BY <1>1, <2>1 DEF EInv, AnswerInv
  <2> QED
    BY <1>1, <1>2, <2>2, <2>3 DEF AnswerInv
<1>7. PhaseInv'
  BY <1>1, <1>2, <1>5 DEF EInv, PhaseInv
<1>8. LinkInv'
  <2>1. m.tag \in Tags /\ m.data \subseteq Ones
    BY <1>2 DEF EInv, LinkInv
  <2>2. Len(toRoot) - 1 <= 2 * Depth
    BY <1>2, DepthAssumption DEF EInv, LinkInv
  <2> QED
    BY <1>1, <1>2, <1>5, <2>1, <2>2 DEF EInv, LinkInv
<1> QED
  BY <1>4, <1>6, <1>7, <1>8 DEF EInv
-----------------------------------------------------------------------------
(* The stages: each goes on with the answer to its own last request.       *)

LEMMA StageKeeps ==
  ASSUME IInv, EInv, NEW pc \in Asking, NEW r, Answered(pc, r),
         Known(r), r.todo = Asks(r), r.pc \notin {"Reset", "Train"},
         \A k \in 0 .. 5 : BarState(r, 0, k) = BarState(root, Len(Asks(root)), k)
  PROVE  EInv'
<1>1. /\ root.pc = pc /\ root.todo = <<>> /\ ip_byte_count > 0 /\ ip_byte_count' = 0
      /\ root' = r
      /\ UNCHANGED <<ep, config, mask, ipbuf, toEp, toRoot, released, pulse>>
  BY DEF Answered, WaitForInput
<1>2. toEp = <<>>
  BY <1>1 DEF EInv, AnswerInv
<1>3. \A i \in 1 .. Len(toRoot) : ~IsAnswer(toRoot[i])
  BY <1>1, NoneUnderWay
<1>4. Handled = Len(Asks(root))
  BY <1>1, <1>2, AllHandled
<1>5. ep.pc = "Idle" /\ DOMAIN ep = {"pc", "irq"}
  BY <1>1 DEF EInv, PhaseInv, Asking
<1> QED
  BY <1>1, <1>2, <1>3, <1>4, <1>5, StageStarts

\* What the receive buffer holds when the program looks.
LEMMA AnswerHolds ==
  ASSUME EInv, NEW pc \in Asking, NEW r, Answered(pc, r)
  PROVE  /\ root.pc = pc /\ Known(root)
         /\ ipbuf.data = config[Asked(root)] /\ Asked(root) \in Addr
         /\ \A k \in 0 .. 5 : Asked(root) = BarAddr(k) =>
              ipbuf.data = BarState(root, Len(Asks(root)), k)
         /\ Asked(root) \notin Bars => ipbuf.data = Type0Value(Asked(root))
<1>1. root.pc = pc /\ root.todo = <<>> /\ ip_byte_count > 0
  BY DEF Answered, WaitForInput
<1>2. toEp = <<>> /\ ipbuf.data = config[Asked(root)]
  BY <1>1 DEF EInv, AnswerInv
<1>3. Known(root) /\ Asked(root) \in Addr
  BY <1>1, AskedWord DEF EInv
<1>4. Handled = Len(Asks(root))
  BY <1>1, <1>2, <1>3, EmptyIsSequence, AskLen DEF Handled
<1>5. ep.pc # "Configure"
  BY <1>1 DEF EInv, PhaseInv, Asking
<1> QED
  BY <1>1, <1>2, <1>3, <1>4, <1>5 DEF EInv, ConfigInv

LEMMA SizeKnown ==
  ASSUME NEW r, DOMAIN r = Fields, r.irq \in BOOLEAN, r.errors = 0, r.found = {},
         DOMAIN r.bar = 0 .. 5, r.upper \in BOOLEAN, NEW k \in 0 .. 5, r.upper <=> k = 3,
         \A j \in 0 .. 5 : r.bar[j] = IF j < k THEN Sized(j) ELSE {}
  PROVE  /\ Known(ToSize(k, r)) /\ ToSize(k, r).todo = Asks(ToSize(k, r))
         /\ ToSize(k, r).pc = "Size" /\ ToSize(k, r).k = k
<1> DEFINE s == ToSize(k, r)
<1>1. /\ DOMAIN s = Fields /\ s.pc = "Size" /\ s.k = k
      /\ s.todo = <<Wr(BarAddr(k), Ones), Rd(BarAddr(k))>>
      /\ SameFindings(s, r)
  BY ToKeeps DEF ToSize
<1> HIDE DEF s
<1>2. Known(s)
  BY <1>1 DEF Known, SameFindings, Stages
<1>3. s.todo = Asks(s)
  BY <1>1 DEF Asks
<1> QED
  BY <1>1, <1>2, <1>3 DEF s

\* All registers are sized.
Swept(r) ==
  /\ DOMAIN r = Fields /\ r.irq \in BOOLEAN /\ r.errors = 0
  /\ DOMAIN r.bar = 0 .. 5 /\ r.upper \in BOOLEAN
  /\ \A k \in 0 .. 5 : r.bar[k] = Sized(k)

LEMMA CheckKnown ==
  ASSUME NEW r, Swept(r), r.found = {}
  PROVE  /\ Known(ToAssign(r)) /\ ToAssign(r).todo = Asks(ToAssign(r))
         /\ ToAssign(r).pc = "Check" /\ ToAssign(r).k = 0
         /\ \A k \in 1 .. 3 : /\ Known(ToCheck(k, r)) /\ ToCheck(k, r).todo = Asks(ToCheck(k, r))
                              /\ ToCheck(k, r).pc = "Check" /\ ToCheck(k, r).k = k
         /\ Known(ToCapPtr(r)) /\ ToCapPtr(r).todo = Asks(ToCapPtr(r))
         /\ ToCapPtr(r).pc = "CapPtr"
<1>0. DOMAIN r = Fields
  BY DEF Swept
<1>1. /\ Known(ToAssign(r)) /\ ToAssign(r).todo = Asks(ToAssign(r))
      /\ ToAssign(r).pc = "Check" /\ ToAssign(r).k = 0
  <2> DEFINE s == ToAssign(r)
             q == <<Wr(BarAddr(0), BarValue[1]), Wr(BarAddr(1), BarValue[2]),
                    Wr(BarAddr(2), BarValue[3]), Wr(BarAddr(3), BarValue[4]), Rd(BarAddr(0))>>
  <2>1. s = To("Check", 0, q, r)
    BY DEF ToAssign
  <2>2. \A t : t.pc = "Check" /\ t.k = 0 => Asks(t) = q
    BY DEF Asks
  <2> HIDE DEF s, q
  <2>3. /\ DOMAIN s = Fields /\ s.pc = "Check" /\ s.k = 0 /\ s.todo = q /\ SameFindings(s, r)
    BY <1>0, <2>1, ToKeeps
  <2>4. Known(s)
    BY <2>3 DEF Known, SameFindings, Stages, Swept
  <2> QED
    BY <2>2, <2>3, <2>4 DEF s
<1>2. ASSUME NEW k \in 1 .. 3
      PROVE  /\ Known(ToCheck(k, r)) /\ ToCheck(k, r).todo = Asks(ToCheck(k, r))
             /\ ToCheck(k, r).pc = "Check" /\ ToCheck(k, r).k = k
  <2> DEFINE s == ToCheck(k, r)
  <2>1. /\ DOMAIN s = Fields /\ s.pc = "Check" /\ s.k = k /\ s.todo = <<Rd(BarAddr(k))>>
        /\ SameFindings(s, r)
    BY <1>0, ToKeeps DEF ToCheck
  <2> HIDE DEF s
  <2>2. Known(s)
    BY <2>1 DEF Known, SameFindings, Stages, Swept
  <2>3. s.todo = Asks(s)
    BY <2>1 DEF Asks
  <2> QED
    BY <2>1, <2>2, <2>3 DEF s
<1>3. /\ Known(ToCapPtr(r)) /\ ToCapPtr(r).todo = Asks(ToCapPtr(r))
      /\ ToCapPtr(r).pc = "CapPtr"
  <2> DEFINE s == ToCapPtr(r)
  <2>1. /\ DOMAIN s = Fields /\ s.pc = "CapPtr" /\ s.todo = <<Rd(CapabilitiesPtr)>>
        /\ SameFindings(s, r)
    BY <1>0, ToKeeps DEF ToCapPtr
  <2> HIDE DEF s
  <2>2. Known(s)
    BY <2>1 DEF Known, SameFindings, Stages, Swept
  <2>3. s.todo = Asks(s)
    BY <2>1 DEF Asks
  <2> QED
    BY <2>1, <2>2, <2>3 DEF s
<1> QED
  BY <1>1, <1>2, <1>3

\* One of the three capabilities.
AtCap(r) ==
  \/ CapAt(r, PcieCaps, PcieCapsSize, MsiCaps, {}, 16)
  \/ CapAt(r, MsiCaps, MsiCapsSize, PwrMgmtCaps, {16}, 5)
  \/ CapAt(r, PwrMgmtCaps, PwrMgmtCapsSize, 0, {5, 16}, 1)

LEMMA CapStageKnown ==
  ASSUME NEW r, Swept(r), NEW k
  PROVE  /\ /\ ToCap(k, r).todo = Asks(ToCap(k, r)) /\ ToCap(k, r).pc = "Cap"
            /\ ToCap(k, r).k = k /\ SameFindings(ToCap(k, r), r)
            /\ AtCap(ToCap(k, r)) => Known(ToCap(k, r))
         /\ /\ ToQuiet(r).todo = Asks(ToQuiet(r)) /\ ToQuiet(r).pc = "Quiet"
            /\ r.found = {1, 5, 16} => Known(ToQuiet(r))
<1>0. DOMAIN r = Fields
  BY DEF Swept
<1>1. /\ ToCap(k, r).todo = Asks(ToCap(k, r)) /\ ToCap(k, r).pc = "Cap"
      /\ ToCap(k, r).k = k /\ SameFindings(ToCap(k, r), r)
      /\ AtCap(ToCap(k, r)) => Known(ToCap(k, r))
  <2> DEFINE s == ToCap(k, r)
  <2>1. /\ DOMAIN s = Fields /\ s.pc = "Cap" /\ s.k = k /\ s.todo = <<Rd(r.cap + k)>>
        /\ SameFindings(s, r)
    BY <1>0, ToKeeps DEF ToCap
  <2> HIDE DEF s
  <2>2. AtCap(s) => Known(s)
    BY <2>1 DEF Known, SameFindings, Stages, Swept, AtCap
  <2>3. s.todo = Asks(s)
    BY <2>1 DEF Asks, SameFindings
  <2> QED
    BY <2>1, <2>2, <2>3 DEF s
<1>2. /\ ToQuiet(r).todo = Asks(ToQuiet(r)) /\ ToQuiet(r).pc = "Quiet"
      /\ r.found = {1, 5, 16} => Known(ToQuiet(r))
  <2> DEFINE s == ToQuiet(r)
  <2>1. /\ DOMAIN s = Fields /\ s.pc = "Quiet" /\ s.todo = <<>> /\ SameFindings(s, r)
    BY <1>0, ToKeeps DEF ToQuiet
  <2> HIDE DEF s
  <2>2. r.found = {1, 5, 16} => Known(s)
    BY <2>1 DEF Known, SameFindings, Stages, Swept
  <2>3. s.todo = Asks(s)
    BY <2>1 DEF Asks
  <2> QED
    BY <2>1, <2>2, <2>3 DEF s
<1> QED
  BY <1>1, <1>2

LEMMA IdentifyKeeps ==
  ASSUME IInv, EInv, Identify
  PROVE  EInv'
<1> DEFINE r == IF root.k < 6 THEN ToIdent(root.k + 1, root) ELSE ToSize(0, root)
<1>1. Answered("Ident", r)
  BY DEF Identify
<1>2. root.pc = "Ident" /\ Known(root)
  BY <1>1, AnswerHolds DEF Asking
<1>3. root.k \in 1 .. 6
  BY <1>2 DEF Known
<1>4. CASE root.k < 6
  <2>1. root.k + 1 \in 1 .. 6
    BY <1>3, <1>4
  <2>2. Known(r) /\ r.todo = Asks(r) /\ r.pc = "Ident"
    BY <1>2, <1>4, <2>1, IdentKnown
  <2> HIDE DEF r
  <2>3. \A k \in 0 .. 5 : BarState(r, 0, k) = BarState(root, Len(Asks(root)), k)
    BY <1>2, <2>2 DEF BarState
  <2> QED
    BY <1>1, <2>2, <2>3, StageKeeps DEF Asking
<1>5. CASE ~(root.k < 6)
  <2>1. Known(r) /\ r.todo = Asks(r) /\ r.pc = "Size" /\ r.k = 0
    BY <1>2, <1>5, SizeKnown DEF Known
  <2> HIDE DEF r
  <2>2. \A k \in 0 .. 5 : BarState(r, 0, k) = BarState(root, Len(Asks(root)), k)
    BY <1>2, <2>1 DEF BarState
  <2> QED
    BY <1>1, <2>1, <2>2, StageKeeps DEF Asking
<1> QED
  BY <1>4, <1>5

LEMMA SizeBarKeeps ==
  ASSUME IInv, EInv, SizeBar
  PROVE  EInv'
<1> DEFINE k == root.k
           s == [root EXCEPT !.bar[k] = ipbuf.data,
                             !.upper = ~@ /\ Locatable64(ipbuf.data)]
           r == IF k < 5 \/ s.upper THEN ToSize(k + 1, s) ELSE ToAssign(s)
<1>1. Answered("Size", r)
  BY DEF SizeBar
<1> HIDE DEF r
<1>2. /\ root.pc = "Size" /\ Known(root)
      /\ \A j \in 0 .. 5 : Asked(root) = BarAddr(j) =>
              ipbuf.data = BarState(root, Len(Asks(root)), j)
  BY <1>1, AnswerHolds DEF Asking
<1>3. /\ k \in 0 .. 5 /\ (root.upper <=> k = 3) /\ root.upper \in BOOLEAN
      /\ DOMAIN root = Fields /\ DOMAIN root.bar = 0 .. 5
      /\ root.irq \in BOOLEAN /\ root.errors = 0 /\ root.found = {}
      /\ \A j \in 0 .. 5 : root.bar[j] = IF j < k THEN Sized(j) ELSE {}
  BY <1>2 DEF Known
<1>4. Len(Asks(root)) > 0
  BY <1>2, AskLen DEF Asking
<1>5. ipbuf.data = Sized(k)
  BY <1>2, <1>3, <1>4 DEF Asked, BarState
<1>6. (~root.upper /\ Locatable64(ipbuf.data)) <=> k = 2
  <2>1. k \in {0, 1, 2, 3, 4, 5}
    BY <1>3
  <2>2. /\ ~Locatable64(Sized(0)) /\ ~Locatable64(Sized(1)) /\ Locatable64(Sized(2))
        /\ ~Locatable64(Sized(4)) /\ ~Locatable64(Sized(5))
    BY SizedAre DEF Locatable64
  <2> QED
    BY <1>3, <1>5, <2>1, <2>2
<1>7. /\ DOMAIN s = Fields /\ s.irq = root.irq /\ s.errors = root.errors
      /\ s.found = root.found
      /\ s.bar = [root.bar EXCEPT ![k] = ipbuf.data]
      /\ s.upper = (~root.upper /\ Locatable64(ipbuf.data))
  BY <1>3 DEF Fields
<1> HIDE DEF s
<1>8. /\ DOMAIN s.bar = 0 .. 5 /\ s.upper \in BOOLEAN /\ (s.upper <=> k = 2)
      /\ \A j \in 0 .. 5 : s.bar[j] = IF j < k + 1 THEN Sized(j) ELSE {}
  <2>1. s.upper \in BOOLEAN /\ (s.upper <=> k = 2)
    BY <1>6, <1>7
  <2>2. DOMAIN s.bar = 0 .. 5 /\ s.bar[k] = Sized(k)
    BY <1>3, <1>5, <1>7
  <2>3. \A j \in 0 .. 5 : j # k => s.bar[j] = root.bar[j]
    BY <1>3, <1>7
  <2> HIDE DEF k
  <2>4. \A j \in 0 .. 5 : j = k \/ (j < k <=> j < k + 1)
    BY <1>3
  <2> QED
    BY <1>3, <2>1, <2>2, <2>3, <2>4
<1>9. CASE k < 5
  <2>1. k + 1 \in 0 .. 5 /\ (s.upper <=> k + 1 = 3) /\ r = ToSize(k + 1, s)
    BY <1>3, <1>8, <1>9 DEF r
  <2>2. Known(r) /\ r.todo = Asks(r) /\ r.pc = "Size" /\ r.k = k + 1
    <3>1. /\ DOMAIN s = Fields /\ s.irq \in BOOLEAN /\ s.errors = 0 /\ s.found = {}
          /\ DOMAIN s.bar = 0 .. 5 /\ s.upper \in BOOLEAN
          /\ \A j \in 0 .. 5 : s.bar[j] = IF j < k + 1 THEN Sized(j) ELSE {}
      BY <1>3, <1>7, <1>8
    <3> HIDE DEF k
    <3> QED
      BY <2>1, <3>1, SizeKnown
  <2>3. \A j \in 0 .. 5 : BarState(r, 0, j) = BarState(root, Len(Asks(root)), j)
    BY <1>2, <1>3, <1>4, <2>2 DEF BarState
  <2> QED
    BY <1>1, <2>2, <2>3, StageKeeps DEF Asking
<1>10. CASE k = 5
  <2>1. ~s.upper /\ r = ToAssign(s)
    BY <1>8, <1>10 DEF r
  <2>2. Swept(s) /\ s.found = {}
    BY <1>3, <1>7, <1>8, <1>10 DEF Swept
  <2>3. Known(r) /\ r.todo = Asks(r) /\ r.pc = "Check" /\ r.k = 0
    BY <2>1, <2>2, CheckKnown
  <2>4. \A j \in 0 .. 5 : BarState(r, 0, j) = BarState(root, Len(Asks(root)), j)
    BY <1>2, <1>4, <1>10, <2>3 DEF BarState
  <2> QED
    BY <1>1, <2>3, <2>4, StageKeeps DEF Asking
<1> QED
  BY <1>3, <1>9, <1>10

LEMMA CheckBarKeeps ==
  ASSUME IInv, EInv, CheckBar
  PROVE  EInv'
<1> DEFINE k == root.k
           got == IF k = 3 THEN ipbuf.data ELSE ipbuf.data \ {0, 1, 2, 3}
           s == [root EXCEPT !.errors = IF got = BarValue[k + 1] THEN @ ELSE @ + 1]
           r == IF k < 3 THEN ToCheck(k + 1, s) ELSE ToCapPtr(s)
<1>1. Answered("Check", r)
  BY DEF CheckBar
<1> HIDE DEF r
<1>2. /\ root.pc = "Check" /\ Known(root)
      /\ \A j \in 0 .. 5 : Asked(root) = BarAddr(j) =>
              ipbuf.data = BarState(root, Len(Asks(root)), j)
  BY <1>1, AnswerHolds DEF Asking
<1>3. k \in 0 .. 3 /\ Swept(root) /\ root.found = {} /\ DOMAIN root = Fields /\ root.errors = 0
  BY <1>2 DEF Known, Swept
<1>4. \A j \in 0 .. 5 :
        BarState(root, Len(Asks(root)), j) = IF j < 4 THEN Assigned(j) ELSE Sized(j)
  <2>1. CASE k = 0
    <3>1. Len(Asks(root)) = 5
      BY <1>2, <2>1 DEF Asks
    <3> QED
      BY <1>2, <2>1, <3>1 DEF BarState
  <2>2. CASE k # 0
    BY <1>2, <2>2 DEF BarState
  <2> QED
    BY <2>1, <2>2
<1>5. ipbuf.data = Assigned(k)
  BY <1>2, <1>3, <1>4 DEF Asked
<1>6. got = BarValue[k + 1]
  <2>1. CASE k \in 0 .. 2
    <3>1. got = Assigned(k) \ {0, 1, 2, 3}
      BY <1>5, <2>1
    <3> HIDE DEF got, k
    <3> QED
      BY <2>1, <3>1, AssignedAre
  <2>2. CASE k = 3
    BY <1>5, <2>2, AssignedAre
  <2> QED
    BY <1>3, <2>1, <2>2
<1>7. s = [root EXCEPT !.errors = root.errors]
  BY <1>6
<1>8. Swept(s) /\ s.found = {}
  BY <1>3, <1>7 DEF Swept, Fields
<1> HIDE DEF s
<1>9. CASE k < 3
  <2>1. k + 1 \in 1 .. 3 /\ r = ToCheck(k + 1, s)
    BY <1>3, <1>9 DEF r
  <2>2. Known(r) /\ r.todo = Asks(r) /\ r.pc = "Check" /\ r.k = k + 1
    BY <1>8, <2>1, CheckKnown
  <2>3. \A j \in 0 .. 5 : BarState(r, 0, j) = BarState(root, Len(Asks(root)), j)
    BY <1>3, <1>4, <2>2 DEF BarState
  <2> QED
    BY <1>1, <2>2, <2>3, StageKeeps DEF Asking
<1>10. CASE k = 3
  <2>1. r = ToCapPtr(s)
    BY <1>10 DEF r
  <2>2. Known(r) /\ r.todo = Asks(r) /\ r.pc = "CapPtr"
    BY <1>8, <2>1, CheckKnown
  <2>3. \A j \in 0 .. 5 : BarState(r, 0, j) = BarState(root, Len(Asks(root)), j)
    BY <1>4, <2>2 DEF BarState
  <2> QED
    BY <1>1, <2>2, <2>3, StageKeeps DEF Asking
<1> QED
  BY <1>3, <1>9, <1>10

LEMMA CapDifferent ==
  /\ PcieCaps # MsiCaps /\ PcieCaps # PwrMgmtCaps /\ MsiCaps # PwrMgmtCaps
  /\ PcieCaps # 0 /\ MsiCaps # 0 /\ PwrMgmtCaps # 0
  /\ CapabilitiesPtr \notin Bars
BY BarAddrs
   DEF PcieCaps, HeaderSize, PcieCapsSize, MsiCaps, MsiCapsSize, PwrMgmtCaps, CapabilitiesPtr

LEMMA FirstCapKeeps ==
  ASSUME IInv, EInv, FirstCap
  PROVE  EInv'
<1> DEFINE s == [root EXCEPT !.next = Byte(ipbuf.data, 0)]
           t == [s EXCEPT !.cap = s.next]
<1>1. Answered("CapPtr", NextCap(s))
  BY DEF FirstCap
<1>2. /\ root.pc = "CapPtr" /\ Known(root)
      /\ Asked(root) \notin Bars => ipbuf.data = Type0Value(Asked(root))
  BY <1>1, AnswerHolds DEF Asking
<1>3. DOMAIN root = Fields /\ root.found = {} /\ Swept(root)
  BY <1>2 DEF Known, Swept
<1>4. Byte(ipbuf.data, 0) = PcieCaps
  BY <1>2, CapBytes, CapDifferent DEF Asked
<1>5. /\ Swept(s) /\ s.found = {} /\ s.next = PcieCaps
      /\ Swept(t) /\ t.found = {} /\ t.next = PcieCaps /\ t.cap = PcieCaps
  BY <1>3, <1>4 DEF Swept, Fields
<1>6. NextCap(s) = ToCap(0, t)
  BY <1>5, CapDifferent DEF NextCap
<1> HIDE DEF s, t
<1> DEFINE r == ToCap(0, t)
<1>7. /\ r.todo = Asks(r) /\ r.pc = "Cap" /\ r.k = 0 /\ SameFindings(r, t)
      /\ AtCap(r) => Known(r)
  BY <1>5, CapStageKnown
<1> HIDE DEF r
<1>8. AtCap(r)
  BY <1>5, <1>7 DEF AtCap, CapAt, SameFindings
<1>9. \A j \in 0 .. 5 : BarState(r, 0, j) = BarState(root, Len(Asks(root)), j)
  BY <1>2, <1>7 DEF BarState
<1>10. Answered("CapPtr", r)
  BY <1>1, <1>6 DEF r
<1> QED
  BY <1>7, <1>8, <1>9, <1>10, StageKeeps DEF Asking

\* In one of them, its first word read.
CapRead(r, cap, size, next, before, id) ==
  /\ r.cap = cap /\ r.size = size /\ r.next = next /\ r.found = before \cup {id}
  /\ r.k = 0 \/ \E i \in 1 .. size \div 4 : r.k = 4 * i /\ r.k < size

ReadCap(r) ==
  \/ CapRead(r, PcieCaps, PcieCapsSize, MsiCaps, {}, 16)
  \/ CapRead(r, MsiCaps, MsiCapsSize, PwrMgmtCaps, {16}, 5)
  \/ CapRead(r, PwrMgmtCaps, PwrMgmtCapsSize, 0, {5, 16}, 1)

\* The walk in one capability: the next word of it, or the next capability.
LEMMA WalkOn ==
  ASSUME IInv, EInv, root.pc = "Cap", NEW s, Swept(s), ReadCap(s),
         Answered("Cap", IF s.k + 4 < s.size THEN ToCap(s.k + 4, s) ELSE NextCap(s))
  PROVE  EInv'
<1> SUFFICES ASSUME NEW cap, NEW size, NEW next, NEW before, NEW id,
                    CapRead(s, cap, size, next, before, id),
                    \/ /\ cap = PcieCaps /\ size = PcieCapsSize /\ next = MsiCaps
                       /\ before = {} /\ id = 16
                    \/ /\ cap = MsiCaps /\ size = MsiCapsSize /\ next = PwrMgmtCaps
                       /\ before = {16} /\ id = 5
                    \/ /\ cap = PwrMgmtCaps /\ size = PwrMgmtCapsSize /\ next = 0
                       /\ before = {5, 16} /\ id = 1
             PROVE  EInv'
  BY DEF ReadCap
<1> DEFINE r == IF s.k + 4 < s.size THEN ToCap(s.k + 4, s) ELSE NextCap(s)
           t == [s EXCEPT !.cap = s.next]
<1>1. /\ s.cap = cap /\ s.size = size /\ s.next = next /\ s.found = before \cup {id}
      /\ s.k = 0 \/ \E i \in 1 .. size \div 4 : s.k = 4 * i /\ s.k < size
  BY DEF CapRead
<1>2. /\ Swept(t) /\ t.found = s.found /\ t.next = s.next /\ t.cap = s.next
  BY DEF Swept, Fields
<1>3. ASSUME s.k + 4 < s.size
      PROVE  AtCap(ToCap(s.k + 4, s))
  <2> DEFINE v == ToCap(s.k + 4, s)
  <2>1. v.k = s.k + 4 /\ SameFindings(v, s)
    BY CapStageKnown
  <2> HIDE DEF v
  <2>2. \E i \in 1 .. size \div 4 : v.k = 4 * i /\ v.k < size
    <3>1. size \in {60, 24, 8}
      BY <1>1 DEF PcieCapsSize, MsiCapsSize, PwrMgmtCapsSize
    <3>2. PICK j \in Nat : s.k = 4 * j
      BY <1>1, <3>1
    <3>3. j + 1 \in 1 .. size \div 4 /\ v.k = 4 * (j + 1) /\ v.k < size
      BY <1>1, <1>3, <2>1, <3>1, <3>2
    <3> QED
      BY <3>3
  <2>3. CapAt(v, cap, size, next, before, id)
    BY <1>1, <2>1, <2>2 DEF CapAt, SameFindings
  <2>4. AtCap(v)
    BY <1>1, <2>3 DEF AtCap
  <2> QED
    BY <2>4 DEF v
<1>4. ASSUME s.next # 0
      PROVE  AtCap(ToCap(0, t))
  <2> DEFINE v == ToCap(0, t)
  <2>1. v.k = 0 /\ SameFindings(v, t)
    BY <1>2, CapStageKnown
  <2> HIDE DEF v, t
  <2>2. v.cap = next /\ v.found = before \cup {id}
    BY <1>1, <1>2, <2>1 DEF SameFindings
  <2>3. \/ v.cap = MsiCaps /\ v.found = {16}
        \/ v.cap = PwrMgmtCaps /\ v.found = {5, 16}
    BY <1>1, <1>4, <2>2
  <2>4. AtCap(v)
    BY <2>1, <2>3 DEF AtCap, CapAt
  <2> QED
    BY <2>4 DEF v, t
<1>5. s.next = 0 => s.found = {1, 5, 16}
  BY <1>1, CapDifferent
<1>6. Known(r) /\ r.todo = Asks(r) /\ r.pc \in {"Cap", "Quiet"}
  <2>1. CASE s.k + 4 < s.size
    BY <1>3, <2>1, CapStageKnown
  <2>2. CASE ~(s.k + 4 < s.size) /\ s.next # 0
    <3>1. r = ToCap(0, t)
      BY <2>2 DEF NextCap
    <3> HIDE DEF r, t
    <3> QED
      BY <1>2, <1>4, <2>2, <3>1, CapStageKnown
  <2>3. CASE ~(s.k + 4 < s.size) /\ s.next = 0
    <3>1. r = ToQuiet(s)
      BY <2>3 DEF NextCap
    <3> HIDE DEF r
    <3> QED
      BY <1>5, <2>3, <3>1, CapStageKnown
  <2> QED
    BY <2>1, <2>2, <2>3
<1>7. Answered("Cap", r)
  OBVIOUS
<1> HIDE DEF r
<1>8. \A j \in 0 .. 5 : BarState(r, 0, j) = BarState(root, Len(Asks(root)), j)
  BY <1>6 DEF BarState
<1> QED
  BY <1>6, <1>7, <1>8, StageKeeps DEF Asking

LEMMA WalkCapKeeps ==
  ASSUME IInv, EInv, WalkCap
  PROVE  EInv'
<1> DEFINE id == Byte(ipbuf.data, 0)
           f == [root EXCEPT !.next = Byte(ipbuf.data, 1), !.size = CapSize(id),
                             !.errors = IF CapSize(id) = 0 THEN @ + 1 ELSE @,
                             !.found = @ \cup {id}]
           s == IF root.k > 0 THEN root ELSE f
           r == IF s.k + 4 < s.size THEN ToCap(s.k + 4, s) ELSE NextCap(s)
<1>1. Answered("Cap", r)
  BY DEF WalkCap
<1> HIDE DEF r
<1>2. /\ root.pc = "Cap" /\ Known(root)
      /\ Asked(root) \notin Bars => ipbuf.data = Type0Value(Asked(root))
  BY <1>1, AnswerHolds DEF Asking
<1>3. DOMAIN root = Fields /\ Swept(root) /\ AtCap(root)
  BY <1>2 DEF Known, Swept, AtCap
<1>4. ASSUME NEW cap, NEW size \in {60, 24, 8}, NEW next, NEW before, NEW name,
             CapAt(root, cap, size, next, before, name),
             Byte(Type0Value(cap), 0) = name, Byte(Type0Value(cap), 1) = next,
             CapSize(name) = size
      PROVE  Swept(s) /\ CapRead(s, cap, size, next, before, name)
  <2>1. CASE root.k = 0
    <3>1. root.cap = cap /\ root.found = before
      BY <1>4, <2>1 DEF CapAt
    <3>2. cap \in Int
      BY <1>2, <3>1, CapKnown
         DEF PcieCaps, HeaderSize, PcieCapsSize, MsiCaps, MsiCapsSize, PwrMgmtCaps
    <3>3. Asked(root) = cap /\ cap \notin Bars
      BY <1>2, <2>1, <3>1, <3>2, CapKnown DEF Asked
    <3>4. id = name /\ Byte(ipbuf.data, 1) = next
      BY <1>2, <1>4, <3>3
    <3>5. s = f
      BY <2>1
    <3>6. f = [root EXCEPT !.next = next, !.size = size, !.errors = root.errors,
                           !.found = before \cup {name}]
      <4>1. CapSize(id) = size /\ CapSize(id) # 0 /\ root.found \cup {id} = before \cup {name}
        BY <1>4, <3>1, <3>4
      <4>2. (IF CapSize(id) = 0 THEN root.errors + 1 ELSE root.errors) = root.errors
        BY <4>1
      <4> HIDE DEF id
      <4> QED
        BY <3>4, <4>1, <4>2 DEF f
    <3> HIDE DEF s, f, id
    <3> QED
      BY <1>3, <2>1, <3>1, <3>5, <3>6 DEF Swept, Fields, CapRead
  <2>2. CASE root.k # 0
    <3>1. /\ root.cap = cap /\ root.size = size /\ root.next = next
          /\ root.found = before \cup {name}
          /\ \E i \in 1 .. size \div 4 : root.k = 4 * i /\ root.k < size
      BY <1>4, <2>2 DEF CapAt
    <3>2. root.k > 0
      BY <1>4, <3>1
    <3>3. s = root
      BY <3>2
    <3> QED
      BY <1>3, <3>1, <3>3 DEF CapRead
  <2> QED
    BY <2>1, <2>2
<1>5. /\ CapSize(16) = PcieCapsSize /\ CapSize(5) = MsiCapsSize /\ CapSize(1) = PwrMgmtCapsSize
      /\ PcieCapsSize = 60 /\ MsiCapsSize = 24 /\ PwrMgmtCapsSize = 8
  BY DEF CapSize, PcieCapsSize, MsiCapsSize, PwrMgmtCapsSize
<1> HIDE DEF s
<1>6. Answered("Cap", IF s.k + 4 < s.size THEN ToCap(s.k + 4, s) ELSE NextCap(s))
  BY <1>1 DEF r
<1>7. ASSUME CapAt(root, PcieCaps, PcieCapsSize, MsiCaps, {}, 16)
      PROVE  Swept(s) /\ ReadCap(s)
  BY <1>4, <1>5, <1>7, CapBytes DEF ReadCap
<1>8. ASSUME CapAt(root, MsiCaps, MsiCapsSize, PwrMgmtCaps, {16}, 5)
      PROVE  Swept(s) /\ ReadCap(s)
  BY <1>4, <1>5, <1>8, CapBytes DEF ReadCap
<1>9. ASSUME CapAt(root, PwrMgmtCaps, PwrMgmtCapsSize, 0, {5, 16}, 1)
      PROVE  Swept(s) /\ ReadCap(s)
  BY <1>4, <1>5, <1>9, CapBytes DEF ReadCap
<1>10. Swept(s) /\ ReadCap(s)
  BY <1>3, <1>7, <1>8, <1>9 DEF AtCap
<1> QED
  BY <1>2, <1>6, <1>10, WalkOn
-----------------------------------------------------------------------------
LEMMA InitEInv == Init => EInv
<1> SUFFICES ASSUME Init PROVE EInv
  OBVIOUS
<1>1. /\ DOMAIN root = Fields /\ root.pc = "Reset" /\ root.irq = FALSE /\ root.todo = <<>>
      /\ root.bar = [k \in 0 .. 5 |-> {}] /\ root.upper = FALSE /\ root.errors = 0
      /\ root.found = {} /\ root.tag = 0
  BY DEF Init, Fields
<1>2. Known(root)
  BY <1>1 DEF Known, Stages
<1>3. Handled = 0 /\ Len(toEp) = 0 /\ Len(toRoot) = 0 /\ Len(root.todo) = 0
  BY <1>1, <1>2, EmptyIsSequence, AskLen DEF Init, Handled
<1>4. PendingInv
  BY <1>3 DEF PendingInv
<1>5. ConfigInv
  BY DEF Init, ConfigInv
<1>6. AnswerInv
  BY <1>3 DEF Init, AnswerInv
<1>7. PhaseInv
  BY <1>1 DEF Init, PhaseInv
<1>8. LinkInv
  BY <1>3, DepthAssumption DEF Init, LinkInv, Tags
<1> QED
  BY <1>2, <1>4, <1>5, <1>6, <1>7, <1>8 DEF EInv

LEMMA NextEInv == IInv /\ EInv /\ [Next]_vars => EInv'
<1> SUFFICES ASSUME IInv, EInv, [Next]_vars
             PROVE  EInv'
  OBVIOUS
<1>1. CASE UNCHANGED vars
  <2>1. UNCHANGED <<ep, config, mask, root, ipbuf, ip_byte_count, toEp, toRoot, released, pulse>>
    BY <1>1 DEF vars
  <2>2. Handled' = Handled
    BY <2>1 DEF Handled
  <2> QED
    BY <2>1, <2>2 DEF EInv, PendingInv, ConfigInv, AnswerInv, PhaseInv, LinkInv
<1>2. CASE ConfigureType0PcieCfg \/ ReleaseReset \/ LinkUp \/ Finish
  BY <1>2, OutsideKeeps
<1>3. CASE \E who \in {"ep", "root"} : ResetDeasserted(who) \/ LeaveReset(who)
  BY <1>3, OutsideKeeps
<1>4. CASE Send
  BY <1>4, SendKeeps
<1>5. CASE Complete
  BY <1>5, CompleteKeeps
<1>6. CASE VUserInput_2
  BY <1>6, InputKeeps
<1>7. CASE Identify
  BY <1>7, IdentifyKeeps
<1>8. CASE SizeBar
  BY <1>8, SizeBarKeeps
<1>9. CASE CheckBar
  BY <1>9, CheckBarKeeps
<1>10. CASE FirstCap
  BY <1>10, FirstCapKeeps
<1>11. CASE WalkCap
  BY <1>11, WalkCapKeeps
<1> QED
  BY <1>1, <1>2, <1>3, <1>4, <1>5, <1>6, <1>7, <1>8, <1>9, <1>10, <1>11 DEF Next

LEMMA EInvTypeOK == IInv /\ EInv => TypeOK
<1> SUFFICES ASSUME IInv, EInv
             PROVE  TypeOK
  OBVIOUS
<1>1. /\ ep.pc \in {"Configure", "Reset", "Train", "Idle"} /\ ep.irq \in BOOLEAN
      /\ pulse \subseteq {"ep", "root"} /\ released \in BOOLEAN
  BY DEF EInv, PhaseInv
<1>2. root.pc \in Stages /\ root.irq \in BOOLEAN /\ root.errors \in Nat /\ root.tag \in Tags
  BY DEF EInv, Known, IInv, Shapes
<1>3. \A k \in 0 .. 5 : root.bar[k] \subseteq Ones
  BY BarsInOnes DEF EInv, Known, Stages
<1>4. \A a \in Addr : config[a] \subseteq Ones /\ mask[a] \subseteq Ones
  <2>1. CASE ep.pc = "Configure"
    BY <2>1 DEF EInv, ConfigInv
  <2>2. CASE ep.pc # "Configure"
    <3>1. \A n, k : k \in 0 .. 5 => BarState(root, n, k) \subseteq Ones
      <4>1. \A k \in 0 .. 5 : k < 4 => k \in 0 .. 3
        OBVIOUS
      <4> QED
        BY <4>1, TablesInOnes, BarsInOnes DEF BarState
    <3>2. \A a \in Addr : a \in Bars => config[a] \subseteq Ones
      BY <2>2, <3>1, BarAddrs DEF EInv, ConfigInv
    <3>3. \A a \in Addr : a \notin Bars => config[a] \subseteq Ones
      BY <2>2, TablesInOnes DEF EInv, ConfigInv
    <3> QED
      BY <2>2, <3>2, <3>3, TablesInOnes DEF EInv, ConfigInv
  <2> QED
    BY <2>1, <2>2
<1>5. /\ ipbuf.data \subseteq Ones /\ ipbuf.tag \in Tags /\ ip_byte_count \in {0, 4}
      /\ Len(toEp) <= Depth /\ Len(toRoot) <= 2 * Depth
      /\ \A i \in 1 .. Len(toEp) : toEp[i].tag \in Tags
  BY DEF EInv, LinkInv
<1>6. \A i \in 1 .. Len(toEp) : toEp[i].req.addr \in Addr
  <2> SUFFICES ASSUME NEW i \in 1 .. Len(toEp)
               PROVE  toEp[i].req.addr \in Addr
    OBVIOUS
  <2> DEFINE l == Len(Asks(root))
             t == Len(root.todo)
             e == Len(toEp)
             h == Handled
  <2>1. toEp[i].req = Asks(root)[h + i]
    BY DEF EInv, PendingInv
  <2>2. h = l - t - e /\ h \in Nat /\ l \in Nat /\ t \in Nat /\ e \in Nat /\ i \in 1 .. e
    BY AskLen, SequenceLen, EmptyIsSequence DEF EInv, PendingInv, Handled, IInv, Shapes
  <2> HIDE DEF l, t, e, h
  <2>3. h + i \in 1 .. l
    BY <2>2
  <2>4. /\ root.pc \in Asking
        /\ \/ Asks(root)[h + i] = Rd(Asked(root))
           \/ \E b \in 0 .. 5, w \in SUBSET Ones : Asks(root)[h + i] = Wr(BarAddr(b), w)
    BY <2>3, Handles DEF EInv, l
  <2>5. Asked(root) \in Addr
    BY <2>4, AskedWord DEF EInv
  <2>6. CASE Asks(root)[h + i] = Rd(Asked(root))
    BY <2>1, <2>5, <2>6 DEF Rd
  <2>7. CASE \E b \in 0 .. 5, w \in SUBSET Ones : Asks(root)[h + i] = Wr(BarAddr(b), w)
    <3>1. PICK b \in 0 .. 5, w \in SUBSET Ones : Asks(root)[h + i] = Wr(BarAddr(b), w)
      BY <2>7
    <3>2. BarAddr(b) \in Addr
      BY BarAddrs
    <3> QED
      BY <2>1, <3>1, <3>2 DEF Wr
  <2> QED
    BY <2>4, <2>6, <2>7
<1>7. DOMAIN toEp = 1 .. Len(toEp)
  <2>1. PICK S : toEp \in Seq(S)
    BY DEF IInv, Shapes, IsSequence
  <2> QED
    BY <2>1, LenProperties
<1> QED
  BY <1>1, <1>2, <1>3, <1>4, <1>5, <1>6, <1>7 DEF TypeOK

LEMMA EInvRight == IInv /\ EInv => EnumerationRight
<1> SUFFICES ASSUME EInv, root.pc \in {"Quiet", "Finished"}
             PROVE  /\ root.errors = 0
                    /\ LowBit(root.bar[0]) = 12 /\ LowBit(root.bar[1]) = 10
                    /\ root.bar[2] = {2, 3} /\ root.bar[3] = Ones \ {0}
                    /\ root.bar[4] = {} /\ root.bar[5] = {}
                    /\ root.found = {1, 5, 16}
                    /\ \A k \in 0 .. 3 :
                         config[BarAddr(k)] =
                           BarValue[k + 1] \cup (Type0Value(BarAddr(k)) \cap mask[BarAddr(k)])
                    /\ toEp = <<>>
                    /\ ip_byte_count = 0
  BY DEF EnumerationRight
<1>1. root.errors = 0 /\ root.found = {1, 5, 16} /\ \A k \in 0 .. 5 : root.bar[k] = Sized(k)
  BY DEF EInv, Known
<1>2. toEp = <<>> /\ ip_byte_count = 0 /\ ep.pc = "Idle"
  BY DEF EInv, PhaseInv
<1>3. \A k \in 0 .. 3 : k \in 0 .. 5 /\ config[BarAddr(k)] = Assigned(k)
  <2>1. \A k \in 0 .. 3 : k \in 0 .. 5 /\ k < 4
    OBVIOUS
  <2>2. \A k \in 0 .. 3 : BarState(root, Handled, k) = Assigned(k)
    BY <2>1 DEF BarState
  <2> QED
    BY <1>2, <2>1, <2>2 DEF EInv, ConfigInv
<1>4. \A k \in 0 .. 3 : mask[BarAddr(k)] = Type0Mask(BarAddr(k))
  BY <1>2, <1>3, BarAddrs DEF EInv, ConfigInv
<1>5. \A k \in 0 .. 3 :
        config[BarAddr(k)] = BarValue[k + 1] \cup (Type0Value(BarAddr(k)) \cap mask[BarAddr(k)])
  BY <1>3, <1>4, AssignedAre
<1>6. /\ LowBit(root.bar[0]) = 12 /\ LowBit(root.bar[1]) = 10
      /\ root.bar[2] = {2, 3} /\ root.bar[3] = Ones \ {0}
      /\ root.bar[4] = {} /\ root.bar[5] = {}
  BY <1>1, LowBits, SizedAre
<1> QED
  BY <1>1, <1>2, <1>5, <1>6
-----------------------------------------------------------------------------
(* Every variable keeps its type whatever the depth of the link: tags stay *)
(* in five bits, every request goes to a word of the endpoint's            *)
(* configuration space, and neither direction of the link holds more than  *)
(* its room.                                                               *)
THEOREM TypeCorrect == Spec => []TypeOK
BY InitIInv, NextIInv, InitEInv, NextEInv, EInvTypeOK, PTL DEF Spec

(* When the program of VUserMain2.cpp has gone through its stages it has   *)
(* counted no error, holds the sizes VUserMain1.cpp gives the registers,   *)
(* has found the three capabilities, has left the addresses it assigned in *)
(* the endpoint, and nothing is in flight: for every depth of the link and *)
(* every order in which requests, completions and the program's own steps  *)
(* follow each other.                                                      *)
THEOREM EnumeratesRight == Spec => []EnumerationRight
BY InitIInv, NextIInv, InitEInv, NextEInv, EInvRight, PTL DEF Spec
=============================================================================
