---------------------------- MODULE Rv32_proofs ----------------------------
(***************************************************************************)
(* Proofs about Rv32, for all command lines, programs and sizes: the type  *)
(* invariant, how far the program is ahead of the simulation, the order in *)
(* which the cache gives up its lines, the time a character takes, what a  *)
(* load finds in memory, and that the options come to what was meant.      *)
(***************************************************************************)
EXTENDS Rv32, FiniteSetTheorems, SequenceTheorems, TLAPS

Words == [dash : BOOLEAN, chars : Seq(STRING)]
FileLines == [name : STRING, words : Seq(Words)]
Files == Seq(FileLines)
-----------------------------------------------------------------------------
(* The options.                                                            *)

\* What has been set: letters of the option string, and a core that there is.
SetRight(flags, values) ==
  /\ flags \subseteq Flags
  /\ DOMAIN values \subseteq Valued
  /\ "V" \in DOMAIN values => values["V"] \in Cores

\* The scan is within the words, one past them, or two when a value is missing.
ScanRight(argv, optind, place) ==
  /\ optind \in Nat /\ optind <= Len(argv) + 1
  /\ place # <<>> => optind < Len(argv)

ParseRecord(p) ==
  p = [argv |-> p.argv, optind |-> p.optind, place |-> p.place, done |-> p.done,
       flags |-> p.flags, values |-> p.values, errors |-> p.errors]

ParseInv(p) ==
  /\ ParseRecord(p)
  /\ Len(p.argv) \in Nat
  /\ ScanRight(p.argv, p.optind, p.place)
  /\ SetRight(p.flags, p.values)

Letters == Flags \cup Valued \cup {EOF, BADCH}

LEMMA LetterScans ==
  ASSUME NEW argv, Len(argv) \in Nat, NEW optind \in Nat, optind < Len(argv), NEW place
  PROVE  LET f == Letter(argv, optind, place)
         IN  f.c \in Letters \ {EOF} /\ ScanRight(argv, f.optind, f.place)
<1> DEFINE f == Letter(argv, optind, place)
<1>1. f.c \in Letters \ {EOF}
  BY DEF Letter, Found, Letters, EOF, BADCH, Flags, Valued, AfterArgument
<1>2. ScanRight(argv, f.optind, f.place)
  BY DEF Letter, Found, ScanRight, AfterArgument
<1> QED  BY <1>1, <1>2

LEMMA getoptScans ==
  ASSUME NEW argv, Len(argv) \in Nat, NEW optind, NEW place, ScanRight(argv, optind, place)
  PROVE  LET f == getopt(argv, optind, place)
         IN  f.c \in Letters /\ ScanRight(argv, f.optind, f.place)
<1> DEFINE f == getopt(argv, optind, place)
<1>0. Len(argv) \in Nat /\ optind \in Nat  BY DEF ScanRight
<1>1. CASE place # <<>>
  BY <1>0, <1>1, LetterScans DEF getopt, ScanRight
<1>2. CASE place = <<>> /\ (optind >= Len(argv) \/ ~argv[optind + 1].dash)
  BY <1>0, <1>2 DEF getopt, ScanRight, Found, Letters
<1>3. CASE place = <<>> /\ ~(optind >= Len(argv) \/ ~argv[optind + 1].dash)
  <2> DEFINE chars == argv[optind + 1].chars
  <2>0. optind < Len(argv)  BY <1>0, <1>3
  <2>1. CASE chars = <<>>
    BY <1>0, <1>3, <2>0, <2>1 DEF getopt, ScanRight, Found, Letters
  <2>2. CASE chars # <<>> /\ Head(chars) = "-"
    BY <1>0, <1>3, <2>0, <2>2 DEF getopt, ScanRight, Found, Letters
  <2>3. CASE chars # <<>> /\ Head(chars) # "-"
    <3>1. f = Letter(argv, optind, chars)  BY <1>3, <2>3 DEF getopt
    <3> QED  BY <1>0, <2>0, <3>1, LetterScans
  <2> QED  BY <2>1, <2>2, <2>3
<1> QED  BY <1>1, <1>2, <1>3

LEMMA WithSets ==
  ASSUME NEW flags, NEW values, SetRight(flags, values), NEW c \in Valued, NEW v,
         c = "V" => v \in Cores
  PROVE  SetRight(flags, With(values, Field(c), v))
<1>1. Field(c) \in Valued /\ (Field(c) = "V" => c = "V")  BY DEF Field, Valued
<1>2. DOMAIN With(values, Field(c), v) = DOMAIN values \cup {Field(c)}  BY DEF With
<1>3. \A g \in DOMAIN values \cup {Field(c)} :
        With(values, Field(c), v)[g] = IF g = Field(c) THEN v ELSE values[g]  BY DEF With
<1> QED  BY <1>1, <1>2, <1>3 DEF SetRight

LEMMA ApplySets ==
  ASSUME NEW p, ParseInv(p), NEW c \in Letters \ {EOF}, NEW v
  PROVE  ParseInv(Apply(p, c, v))
<1>1. CASE c \in {"h", BADCH} \/ (c = "V" /\ v \notin Cores) \/ (c = "D" /\ v \in Unwritable)
  <2>1. Apply(p, c, v) = [p EXCEPT !.errors = @ + 1]
    BY <1>1 DEF Apply, Flags, BADCH
  <2> QED  BY <2>1 DEF ParseInv, ParseRecord
<1>2. CASE c \in Flags \ {"h"}
  <2>1. Apply(p, c, v) = [p EXCEPT !.flags = @ \cup {c}]
    BY <1>2 DEF Apply, Flags, BADCH
  <2> QED  BY <1>2, <2>1 DEF ParseInv, ParseRecord, SetRight
<1>3. CASE c \in Valued /\ ~(c = "V" /\ v \notin Cores) /\ ~(c = "D" /\ v \in Unwritable)
  <2>1. Apply(p, c, v) = [p EXCEPT !.values = With(@, Field(c), v)]
    BY <1>3 DEF Apply, Flags, Valued, BADCH
  <2>2. SetRight(p.flags, With(p.values, Field(c), v))  BY <1>3, WithSets DEF ParseInv
  <2> QED  BY <2>1, <2>2 DEF ParseInv, ParseRecord
<1> QED  BY <1>1, <1>2, <1>3 DEF Letters

LEMMA OptionParsed ==
  ASSUME NEW p, ParseInv(p)
  PROVE  ParseInv(ParseOption(p))
<1> DEFINE f == getopt(p.argv, p.optind, p.place)
           q == [p EXCEPT !.optind = f.optind, !.place = f.place]
<1>1. f.c \in Letters /\ ScanRight(p.argv, f.optind, f.place)  BY getoptScans DEF ParseInv
<1>2. ParseInv(q)
  <2> DEFINE r == [p EXCEPT !.optind = f.optind]
  <2>1. q = [r EXCEPT !.place = f.place]  OBVIOUS
  <2> HIDE DEF f, q
  <2>2. ParseRecord(r) /\ r.optind = f.optind /\ r.argv = p.argv /\ r.flags = p.flags
        /\ r.values = p.values
    BY DEF ParseInv, ParseRecord
  <2> HIDE DEF r
  <2>3. ParseRecord(q) /\ q.optind = f.optind /\ q.place = f.place /\ q.argv = p.argv
        /\ q.flags = p.flags /\ q.values = p.values
    BY <2>1, <2>2 DEF ParseRecord
  <2> QED  BY <1>1, <2>3 DEF ParseInv
<1>3. CASE f.c = EOF  BY <1>3 DEF ParseOption, ParseInv, ParseRecord
<1>4. CASE f.c # EOF
  <2>1. ParseOption(p) = Apply(q, f.c, Value(f.arg))  BY <1>4 DEF ParseOption
  <2>2. f.c \in Letters \ {EOF}  BY <1>1, <1>4
  <2> HIDE DEF f, q
  <2> QED  BY <1>2, <2>1, <2>2, ApplySets
<1> QED  BY <1>3, <1>4

LEMMA StartsParse ==
  ASSUME NEW argv, Len(argv) \in Nat
  PROVE  ParseInv(Parse(argv))
<1>1. DOMAIN <<>> = {}  OBVIOUS
<1> QED  BY <1>1 DEF ParseInv, ParseRecord, Parse, ScanRight, SetRight

LEMMA Minimum ==
  ASSUME NEW T \in SUBSET Nat, T # {}
  PROVE  \E x \in T : \A y \in T : x <= y
<1> DEFINE R == OpToRel(<, Nat)
<1>1. IsWellFoundedOn(R, Nat)  BY NatLessThanWellFounded
<1>2. \A x, y \in Nat : x < y => <<x, y>> \in R  BY DEF OpToRel
<1> HIDE DEF R
<1>3. PICK x \in T : \A y \in T : <<y, x>> \notin R  BY <1>1, WFMin
<1>4. ASSUME NEW y \in T PROVE x <= y
  <2>1. x \in Nat /\ y \in Nat  OBVIOUS
  <2>2. ~(y < x)  BY <1>2, <1>3, <2>1, Zenon
  <2> QED  BY <2>1, <2>2
<1> QED  BY <1>4

LEMMA WordsRead ==
  ASSUME NEW file \in Files, file # <<>>, NEW name
  PROVE  Len(ArgsOf(file, name)) \in Nat
<1> DEFINE mine == {i \in DOMAIN file : file[i].name = name}
           first == CHOOSE i \in mine : \A k \in mine : i <= k
           stripped(s) == [k \in DOMAIN s |-> Strip(s[k])]
           words(i) == stripped(file[i].words)
<1>1. ASSUME NEW s \in Seq(Words) PROVE Len(stripped(s)) \in Nat /\ \E S : stripped(s) \in Seq(S)
  <2> DEFINE S == {Strip(s[k]) : k \in 1 .. Len(s)}
  <2>1. Len(s) \in Nat  OBVIOUS
  <2>2. stripped(s) = [k \in 1 .. Len(s) |-> Strip(s[k])]  OBVIOUS
  <2>3. [k \in 1 .. Len(s) |-> Strip(s[k])] \in Seq(S)  BY <2>1
  <2>4. stripped(s) \in Seq(S)  BY <2>2, <2>3
  <2> HIDE DEF stripped, S
  <2> QED  BY <2>4
<1>2. \A i \in DOMAIN file : file[i].words \in Seq(Words)
  <2>1. \A i \in DOMAIN file : file[i] \in FileLines  BY DEF Files
  <2> QED  BY <2>1 DEF FileLines
<1>3. CASE mine # {}
  <2>1. first \in mine
    <3>1. mine \subseteq Nat /\ mine # {}  BY <1>3 DEF Files
    <3>2. PICK n \in mine : \A k \in mine : n <= k  BY <3>1, Minimum
    <3> HIDE DEF mine
    <3> QED  BY <3>2
  <2>2. PICK S : words(first) \in Seq(S)  BY <1>1, <1>2, <2>1
  <2> DEFINE w == Word(FALSE, <<name>>)
             T == S \cup {w}
  <2>3. words(first) \in Seq(T)
    <3> HIDE DEF stripped, first, w
    <3> QED  BY <2>2, SeqMonotonic
  <2>4. <<w>> \in Seq(T)
    <3> HIDE DEF w
    <3> QED  OBVIOUS
  <2>5. ArgsOf(file, name) = <<w>> \o words(first)
    BY <1>3 DEF ArgsOf
  <2> HIDE DEF words, first, w, T
  <2>6. Len(<<w>> \o words(first)) \in Nat  BY <2>3, <2>4
  <2> QED  BY <2>5, <2>6, Zenon
<1>4. CASE mine = {}
  <2>1. Len(file) \in DOMAIN file  BY DEF Files
  <2>2. Len(stripped(file[Len(file)].words)) \in Nat  BY <1>1, <1>2, <2>1
  <2> QED  BY <1>4, <2>2 DEF ArgsOf
<1> QED  BY <1>3, <1>4
-----------------------------------------------------------------------------
(* One set of the cache.  A set's lines q, oldest first, lie in its ways   *)
(* from way 0 on; with two ways next tells which of them is the older one. *)
Held(m, s) == {e \in m : e.set = s}
Entry(way, s, addr) == [way |-> way, set |-> s, addr |-> addr]

Empty(m, next, q, s) == q = <<>> /\ Held(m, s) = {} /\ s \notin next

OneLine(m, next, ways, q, s) ==
  \E l \in Nat :
    /\ q = <<l>> /\ Held(m, s) = {Entry(0, s, l)}
    /\ s \in next <=> ways = 2

TwoLines(m, next, ways, q, s) ==
  \E l1, l2 \in Nat :
    /\ ways = 2 /\ l1 # l2 /\ q = <<l1, l2>>
    /\ Held(m, s) = IF s \in next THEN {Entry(1, s, l1), Entry(0, s, l2)}
                                  ELSE {Entry(0, s, l1), Entry(1, s, l2)}

SetInv(m, next, ways, q, s) ==
  Empty(m, next, q, s) \/ OneLine(m, next, ways, q, s) \/ TwoLines(m, next, ways, q, s)

LEMMA SetIsFifo ==
  ASSUME NEW m, NEW next, NEW ways, NEW q, NEW s, SetInv(m, next, ways, q, s)
  PROVE  /\ {e.addr : e \in Held(m, s)} = Members(q)
         /\ Cardinality(Held(m, s)) = Len(q)
<1>1. CASE Empty(m, next, q, s)
  BY <1>1, FS_EmptySet DEF Empty, Members
<1>2. CASE OneLine(m, next, ways, q, s)
  <2>1. PICK l \in Nat : q = <<l>> /\ Held(m, s) = {Entry(0, s, l)}  BY <1>2 DEF OneLine
  <2>2. Members(q) = {l}  BY <2>1 DEF Members
  <2>3. {e.addr : e \in Held(m, s)} = {l}  BY <2>1 DEF Entry
  <2>4. Cardinality(Held(m, s)) = 1  BY <2>1, FS_Singleton
  <2> QED  BY <2>1, <2>2, <2>3, <2>4
<1>3. CASE TwoLines(m, next, ways, q, s)
  <2>1. PICK l1 \in Nat, l2 \in Nat, v \in {0, 1}, w \in {0, 1} :
          /\ l1 # l2 /\ q = <<l1, l2>>
          /\ Held(m, s) = {Entry(v, s, l1), Entry(w, s, l2)}
    BY <1>3 DEF TwoLines
  <2>2. Members(q) = {l1, l2}
    <3>1. DOMAIN q = {1, 2} /\ q[1] = l1 /\ q[2] = l2  BY <2>1
    <3> QED  BY <3>1 DEF Members
  <2>3. {e.addr : e \in Held(m, s)} = {l1, l2}  BY <2>1 DEF Entry
  <2>4. Entry(v, s, l1) # Entry(w, s, l2)  BY <2>1 DEF Entry
  <2>5. Cardinality({Entry(v, s, l1)}) = 1 /\ IsFiniteSet({Entry(v, s, l1)})  BY FS_Singleton
  <2>6. Cardinality({Entry(v, s, l1)} \cup {Entry(w, s, l2)}) = 2
    BY <2>4, <2>5, FS_AddElement
  <2>7. Held(m, s) = {Entry(v, s, l1)} \cup {Entry(w, s, l2)}  BY <2>1
  <2> QED  BY <2>1, <2>2, <2>3, <2>6, <2>7
<1> QED  BY <1>1, <1>2, <1>3 DEF SetInv

\* A line that is missed, put into the set.
Filled(m, next, s, l) ==
  LET way == IF s \in next THEN 1 ELSE 0
  IN  {e \in m : e.set # s \/ e.way # way} \cup {Entry(way, s, l)}

Kept(ways, q, l) == IF Len(Append(q, l)) > ways THEN Tail(Append(q, l)) ELSE Append(q, l)
Toggled(next, ways, s) == IF ways # 2 THEN next ELSE IF s \in next THEN next \ {s} ELSE next \cup {s}

LEMMA FilledHolds ==
  ASSUME NEW m, NEW next, NEW s, NEW l
  PROVE  LET way == IF s \in next THEN 1 ELSE 0
         IN  Held(Filled(m, next, s, l), s) = {e \in Held(m, s) : e.way # way} \cup {Entry(way, s, l)}
  BY DEF Held, Filled, Entry

LEMMA AppendPair ==
  ASSUME NEW x \in Nat, NEW y \in Nat
  PROVE  Append(<<x>>, y) = <<x, y>>
<1> DEFINE u == Append(<<x>>, y)
           v == <<x, y>>
<1>1. <<x>> \in Seq(Nat) /\ Len(<<x>>) = 1 /\ <<x>>[1] = x  OBVIOUS
<1>2. u \in Seq(Nat) /\ Len(u) = 2 /\ u[1] = x /\ u[2] = y  BY <1>1, AppendProperties
<1>3. v \in Seq(Nat) /\ Len(v) = 2 /\ v[1] = x /\ v[2] = y  OBVIOUS
<1>4. \A i \in 1 .. 2 : u[i] = v[i]  BY <1>2, <1>3
<1>5. u = v
  <2> HIDE DEF u, v
  <2> QED  BY <1>2, <1>3, <1>4, SeqEqual
<1> QED  BY <1>5

LEMMA AppendTriple ==
  ASSUME NEW x \in Nat, NEW y \in Nat, NEW z \in Nat
  PROVE  Append(<<x, y>>, z) = <<x, y, z>> /\ Tail(<<x, y, z>>) = <<y, z>> /\ Len(<<x, y, z>>) = 3
<1> DEFINE u == Append(<<x, y>>, z)
           v == <<x, y, z>>
<1>1. <<x, y>> \in Seq(Nat) /\ Len(<<x, y>>) = 2 /\ <<x, y>>[1] = x /\ <<x, y>>[2] = y  OBVIOUS
<1>2. u \in Seq(Nat) /\ Len(u) = 3 /\ u[1] = x /\ u[2] = y /\ u[3] = z  BY <1>1, AppendProperties
<1>3. v \in Seq(Nat) /\ Len(v) = 3 /\ v[1] = x /\ v[2] = y /\ v[3] = z  OBVIOUS
<1>4. \A i \in 1 .. 3 : u[i] = v[i]  BY <1>2, <1>3
<1>5. u = v
  <2> HIDE DEF u, v
  <2> QED  BY <1>2, <1>3, <1>4, SeqEqual
<1>6. Tail(v) = <<y, z>>
  <2> DEFINE t == Tail(v)
             w == <<y, z>>
  <2>1. v # <<>>  BY <1>3
  <2>2. t \in Seq(Nat) /\ Len(t) = 2 /\ t[1] = y /\ t[2] = z  BY <1>3, <2>1, HeadTailProperties
  <2>3. w \in Seq(Nat) /\ Len(w) = 2 /\ w[1] = y /\ w[2] = z  OBVIOUS
  <2>4. \A i \in 1 .. 2 : t[i] = w[i]  BY <2>2, <2>3
  <2> HIDE DEF t, w
  <2> QED  BY <2>2, <2>3, <2>4, SeqEqual
<1> QED  BY <1>3, <1>5, <1>6

LEMMA SetFilled ==
  ASSUME NEW m, NEW next, NEW ways \in {1, 2}, NEW q, NEW s, NEW l \in Nat,
         SetInv(m, next, ways, q, s), l \notin Members(q)
  PROVE  SetInv(Filled(m, next, s, l), Toggled(next, ways, s), ways, Kept(ways, q, l), s)
<1> DEFINE f == Filled(m, next, s, l)
           n == Toggled(next, ways, s)
           k == Kept(ways, q, l)
           way == IF s \in next THEN 1 ELSE 0
<1> SUFFICES SetInv(f, n, ways, k, s)  OBVIOUS
<1>1. Held(f, s) = {e \in Held(m, s) : e.way # way} \cup {Entry(way, s, l)}  BY FilledHolds
<1>2. s \in n <=> (ways = 2 /\ s \notin next) \/ (ways # 2 /\ s \in next)  BY DEF Toggled
<1>3. CASE Empty(m, next, q, s)
  <2>1. k = <<l>>  BY <1>3 DEF Empty, Kept
  <2>2. Held(f, s) = {Entry(0, s, l)}  BY <1>1, <1>3 DEF Empty
  <2>3. OneLine(f, n, ways, k, s)  BY <1>2, <1>3, <2>1, <2>2 DEF Empty, OneLine
  <2> QED  BY <2>3 DEF SetInv
<1>4. CASE OneLine(m, next, ways, q, s)
  <2>1. PICK l1 \in Nat : /\ q = <<l1>> /\ Held(m, s) = {Entry(0, s, l1)}
                          /\ s \in next <=> ways = 2
    BY <1>4 DEF OneLine
  <2>2. l # l1  BY <2>1 DEF Members
  <2>3. Append(q, l) = <<l1, l>>  BY <2>1, AppendPair
  <2>4. CASE ways = 1
    <3>1. k = <<l>>  BY <2>3, <2>4 DEF Kept
    <3>2. Held(f, s) = {Entry(0, s, l)}  BY <1>1, <2>1, <2>4 DEF Entry
    <3>3. s \notin n  BY <1>2, <2>1, <2>4
    <3>4. OneLine(f, n, ways, k, s)  BY <2>4, <3>1, <3>2, <3>3 DEF OneLine
    <3> QED  BY <3>4 DEF SetInv
  <2>5. CASE ways = 2
    <3>1. k = <<l1, l>>  BY <2>3, <2>5 DEF Kept
    <3>2. Held(f, s) = {Entry(0, s, l1), Entry(1, s, l)}  BY <1>1, <2>1, <2>5 DEF Entry
    <3>3. s \notin n  BY <1>2, <2>1, <2>5
    <3> HIDE DEF f, n, k
    <3>4. TwoLines(f, n, ways, k, s)  BY <2>2, <2>5, <3>1, <3>2, <3>3 DEF TwoLines
    <3> QED  BY <3>4 DEF SetInv
  <2> QED  BY <2>4, <2>5
<1>5. CASE TwoLines(m, next, ways, q, s)
  <2>1. PICK l1 \in Nat, l2 \in Nat :
          /\ ways = 2 /\ l1 # l2 /\ q = <<l1, l2>>
          /\ Held(m, s) = IF s \in next THEN {Entry(1, s, l1), Entry(0, s, l2)}
                                        ELSE {Entry(0, s, l1), Entry(1, s, l2)}
    BY <1>5 DEF TwoLines
  <2>2. DOMAIN q = {1, 2} /\ q[1] = l1 /\ q[2] = l2  BY <2>1
  <2>3. l # l1 /\ l # l2
    <3>1. 1 \in DOMAIN q /\ 2 \in DOMAIN q  BY <2>2
    <3>2. q[1] \in Members(q) /\ q[2] \in Members(q)  BY <3>1 DEF Members
    <3> QED  BY <2>2, <3>2
  <2>4. Append(q, l) = <<l1, l2, l>>  BY <2>1, AppendTriple
  <2>5. k = <<l2, l>>
    <3>1. Len(<<l1, l2, l>>) > ways  BY <2>1, AppendTriple
    <3>2. k = Tail(<<l1, l2, l>>)  BY <2>4, <3>1, Zenon DEF Kept
    <3> QED  BY <3>2, AppendTriple
  <2>6. CASE s \in next
    <3>1. Held(f, s) = {Entry(0, s, l2), Entry(1, s, l)}  BY <1>1, <2>1, <2>6 DEF Entry
    <3>2. s \notin n  BY <1>2, <2>1, <2>6
    <3> HIDE DEF f, n, k
    <3>3. TwoLines(f, n, ways, k, s)  BY <2>1, <2>3, <2>5, <3>1, <3>2 DEF TwoLines
    <3> QED  BY <3>3 DEF SetInv
  <2>7. CASE s \notin next
    <3>1. Held(f, s) = {Entry(1, s, l2), Entry(0, s, l)}  BY <1>1, <2>1, <2>7 DEF Entry
    <3>2. s \in n  BY <1>2, <2>1, <2>7
    <3> HIDE DEF f, n, k
    <3>3. TwoLines(f, n, ways, k, s)  BY <2>1, <2>3, <2>5, <3>1, <3>2 DEF TwoLines
    <3> QED  BY <3>3 DEF SetInv
  <2> QED  BY <2>6, <2>7
<1> QED  BY <1>3, <1>4, <1>5 DEF SetInv
-----------------------------------------------------------------------------
(* The invariant.                                                          *)

PCs == {"boot", "file", "parse", "setup", "open", "load", "gdb", "int", "fetch", "exec",
        "post", "sleep", "exited"}

\* The parse and what it has come to.
ConfInv ==
  /\ pc \in PCs
  /\ opt = [file |-> opt.file, meant |-> opt.meant, p |-> opt.p]
  /\ ParseInv(opt.p)
  /\ pc \in {"boot", "file"} => opt.file \in Files /\ opt.file # <<>>
  /\ cfg = [flags |-> cfg.flags, values |-> cfg.values]
  /\ SetRight(cfg.flags, cfg.values)

\* Before the run nothing has taken time; then only an instruction that is due
\* to be executed may leave the program further behind than one instruction.
TimeInv ==
  /\ timing = [linear |-> timing.linear, extra |-> timing.extra]
  /\ timing.linear \in 1 .. 4 /\ timing.extra \in [2 .. 7 -> 0 .. 33]
  /\ skew \in Nat
  /\ pc \in {"boot", "file", "parse", "setup"} => skew = 0
  /\ pc = "exec" => skew <= max_sync_diff + MaxWait
  /\ skew <= max_sync_diff + MaxWait + MaxInstr

MemInv ==
  /\ load = [idx |-> load.idx, buf |-> load.buf]
  /\ load.idx \in Nat /\ load.buf \in [0 .. 3 -> Nat]
  /\ ram \in [DataBytes -> Nat] /\ bus \in [DataBytes -> Nat]
  /\ want \in [DataBytes -> Int]
  /\ swirq \in {0, 1} /\ extirq \in {0, 1} /\ clk \in {0, 1}

\* A cache that is used is one that could be made, and each set is in order.
CacheRecord ==
  icache = [line |-> icache.line, ways |-> icache.ways, sets |-> icache.sets,
            base |-> icache.base, limit |-> icache.limit, m |-> icache.m, next |-> icache.next]

CacheUsable ==
  /\ pc \in {"open", "load", "gdb", "int", "fetch", "exec"} /\ "I" \in cfg.flags
       => CacheOK(icache.line, icache.ways, icache.sets)
  /\ pc \in {"boot", "file", "parse", "setup"} => recent = <<>>

CacheTyped ==
  /\ icache.m \subseteq [way : {0, 1}, set : 0 .. 1023, addr : Nat]
  /\ icache.next \subseteq 0 .. 1023 /\ DOMAIN recent \subseteq 0 .. 1023

SetNumbers == 0 .. 1023

SetsInOrder ==
  \A s \in SetNumbers : SetInv(icache.m, icache.next, icache.ways, Lines(s), s)

CacheInv == CacheRecord /\ CacheUsable /\ CacheTyped /\ SetsInOrder

\* A busy transmitter counts the cycles that have gone by since the write, from
\* the tick that follows it.
Ticks == NONE .. UART_TICKS_PER_BIT + 1

UartInv ==
  /\ uart \in [ready : BOOLEAN, thri : BOOLEAN, iir : {"NONE", "EMP"}, start : Ticks]
  /\ sent \in Ticks
  /\ uart.ready => uart.start = NONE
  /\ ~uart.ready => IF uart.start = NONE THEN sent = 0 /\ pc = "int" ELSE uart.start = sent

Inv == ConfInv /\ TimeInv /\ MemInv /\ CacheInv /\ UartInv
-----------------------------------------------------------------------------
(* Numbers.                                                                *)

LEMMA NumberNat ==
  ASSUME NEW f, NEW default \in Nat
  PROVE  Number(f, default) \in Nat
<1>1. \A v : strtol(v) \in Nat  BY NumeralsAssumption DEF strtol
<1> QED  BY <1>1 DEF Number

LEMMA MaxOfSix ==
  ASSUME NEW e \in [2 .. 7 -> 0 .. 33]
  PROVE  LET S == {e[i] : i \in 2 .. 7}
         IN  MaxOf(S) \in 0 .. 33 /\ \A i \in 2 .. 7 : e[i] <= MaxOf(S)
<1> DEFINE S == {e[i] : i \in 2 .. 7}
<1>1. \E x \in S : \A y \in S : y <= x
  <2> DEFINE T == {33 - e[i] : i \in 2 .. 7}
  <2>1. T \subseteq Nat /\ 33 - e[2] \in T  OBVIOUS
  <2>2. PICK x \in T : \A y \in T : x <= y
    <3> HIDE DEF T
    <3> QED  BY <2>1, Minimum
  <2>3. PICK k \in 2 .. 7 : x = 33 - e[k]  BY <2>2
  <2>4. ASSUME NEW i \in 2 .. 7 PROVE e[i] <= e[k]
    <3>1. 33 - e[i] \in T  OBVIOUS
    <3>2. 33 - e[k] <= 33 - e[i]  BY <2>2, <2>3, <3>1
    <3>3. e[i] \in 0 .. 33 /\ e[k] \in 0 .. 33  OBVIOUS
    <3> QED  BY <3>2, <3>3
  <2> QED  BY <2>4
<1>2. MaxOf(S) \in S /\ \A y \in S : y <= MaxOf(S)
  <2> HIDE DEF S
  <2> QED  BY <1>1 DEF MaxOf
<1>3. \A i \in 2 .. 7 : e[i] \in S  OBVIOUS
<1>4. S \subseteq 0 .. 33  OBVIOUS
<1>5. MaxOf(S) \in 0 .. 33 /\ \A i \in 2 .. 7 : e[i] <= MaxOf(S)
  <2> HIDE DEF S
  <2> QED  BY <1>2, <1>3, <1>4
<1> QED  BY <1>5

LEMMA Maxima ==
  ASSUME TimeInv
  PROVE  /\ MaxWait \in Nat /\ MaxInstr \in Nat
         /\ \A i \in 2 .. 7 : timing.extra[i] \in Nat /\ 1 + timing.linear + timing.extra[i] <= MaxInstr
<1> DEFINE M == MaxOf({timing.extra[i] : i \in 2 .. 7})
<1>1. M \in 0 .. 33 /\ \A i \in 2 .. 7 : timing.extra[i] <= M  BY MaxOfSix DEF TimeInv
<1>2. timing.linear \in 1 .. 4 /\ \A i \in 2 .. 7 : timing.extra[i] \in 0 .. 33  BY DEF TimeInv
<1>3. penalty_slow_mem \in Nat  BY NumberNat DEF penalty_slow_mem
<1>4. MaxInstr = 1 + timing.linear + M  BY DEF MaxInstr
<1>5. MaxWait = 1 + penalty_slow_mem * 4  BY DEF MaxWait
<1> HIDE DEF M
<1>6. MaxWait \in Nat /\ MaxInstr \in Nat  BY <1>1, <1>2, <1>3, <1>4, <1>5
<1>7. ASSUME NEW i \in 2 .. 7
      PROVE  timing.extra[i] \in Nat /\ 1 + timing.linear + timing.extra[i] <= MaxInstr
  <2>1. timing.extra[i] \in 0 .. 33 /\ timing.extra[i] <= M  BY <1>1, <1>2
  <2> QED  BY <1>1, <1>2, <1>4, <2>1
<1> QED  BY <1>6, <1>7

LEMMA TimingOfCores ==
  ASSUME NEW core \in Cores
  PROVE  LET t == update_timing(core)
         IN  /\ t = [linear |-> t.linear, extra |-> t.extra]
             /\ t.linear \in 1 .. 4 /\ t.extra \in [2 .. 7 -> 0 .. 33]
<1> DEFINE t == update_timing(core)
           c == Cycles(core)
<1>1. /\ c[1] \in 1 .. 4
      /\ c[2] - c[1] \in 0 .. 33 /\ c[3] - c[1] \in 0 .. 33 /\ c[4] - c[1] \in 0 .. 33
      /\ c[5] - c[1] \in 0 .. 33 /\ c[6] - c[1] \in 0 .. 33 /\ c[7] - c[1] \in 0 .. 33
  BY DEF Cores, Cycles
<1>2. t = [linear |-> c[1], extra |-> [i \in 2 .. 7 |-> c[i] - c[1]]]  BY DEF update_timing
<1> SUFFICES /\ t = [linear |-> t.linear, extra |-> t.extra]
             /\ t.linear \in 1 .. 4 /\ t.extra \in [2 .. 7 -> 0 .. 33]
  OBVIOUS
<1> HIDE DEF c, t
<1>3. \A i \in 2 .. 7 : c[i] - c[1] \in 0 .. 33  BY <1>1
<1>4. t.linear = c[1] /\ t.extra = [i \in 2 .. 7 |-> c[i] - c[1]]  BY <1>2
<1>5. [i \in 2 .. 7 |-> c[i] - c[1]] \in [2 .. 7 -> 0 .. 33]  BY <1>3, Zenon
<1> QED  BY <1>1, <1>2, <1>4, <1>5

LEMMA LaterTicks ==
  ASSUME NEW t \in Ticks, NEW n \in Nat
  PROVE  Later(t, n) \in Ticks /\ (t # NONE => Later(t, n) >= t /\ Later(t, n) >= 0)
         /\ (t = NONE => Later(t, n) = NONE)
  BY SizesAssumption DEF Ticks, Later, NONE

LEMMA ProgramSound ==
  /\ Program.image \in Seq(Nat) /\ Program.at \in Nat
  /\ Program.fetches \subseteq Nat
  /\ \A op \in Program.loads \cup Program.stores : Aligned(op)
  /\ Program.data \subseteq [0 .. 3 -> Nat]
  /\ Program.swirq \subseteq {0, 1}
<1>1. CASE Exists  BY <1>1, ProgramsAssumption DEF Program, Exists
<1>2. CASE ~Exists  BY <1>2 DEF Program, NoProgram
<1> QED  BY <1>1, <1>2
-----------------------------------------------------------------------------
(* Each part of the invariant is kept by every step.                       *)

\* An instruction is executed, with an access or without.
Instruction ==
  \/ \E class \in {1, 2} : Execute(class)
  \/ \E op \in Program.loads : Load(op[1], op[2])
  \/ \E op \in Program.stores, data \in Program.data : Store(op[1], op[2], data)
  \/ \E reg \in Program.regs, data \in {0, 1}, write \in BOOLEAN : UartAccess(reg, data, write)
  \/ \E data \in Program.swirq, write \in BOOLEAN : SwIrqAccess(data, write)

\* The steps that move on and do nothing else, but for the clock.
Moves ==
  Boot \/ FileMissing \/ NoFile \/ StartGdb \/ Halt \/ post_run_actions \/ SleepForever

Loading == read_elf \/ read_binary \/ ReadByte \/ FlushPartialWord

LEMMA Steps ==
  ASSUME Next
  PROVE  \/ Moves \/ Loading \/ OpenFile \/ parseArgs \/ Parsed \/ pre_run_setup
         \/ iss_int_callback \/ (\E a \in Program.fetches : Fetch(a)) \/ Instruction
  BY Zenon DEF Next, Moves, Loading, Instruction

LEMMA InstructionKeeps ==
  ASSUME Instruction
  PROVE  /\ pc = "exec" /\ pc' = "int"
         /\ UNCHANGED <<opt, cfg, load, timing, icache, recent>>
<1>1. ASSUME NEW class \in {1, 2}, Execute(class)
      PROVE  pc = "exec" /\ pc' = "int" /\ UNCHANGED <<opt, cfg, load, timing, icache, recent>>
  BY <1>1 DEF Execute
<1>2. ASSUME NEW op \in Program.loads, Load(op[1], op[2])
      PROVE  pc = "exec" /\ pc' = "int" /\ UNCHANGED <<opt, cfg, load, timing, icache, recent>>
  BY <1>2 DEF Load
<1>3. ASSUME NEW op \in Program.stores, NEW data \in Program.data, Store(op[1], op[2], data)
      PROVE  pc = "exec" /\ pc' = "int" /\ UNCHANGED <<opt, cfg, load, timing, icache, recent>>
  BY <1>3 DEF Store
<1>4. ASSUME NEW reg \in Program.regs, NEW data \in {0, 1}, NEW write \in BOOLEAN,
             UartAccess(reg, data, write)
      PROVE  pc = "exec" /\ pc' = "int" /\ UNCHANGED <<opt, cfg, load, timing, icache, recent>>
  BY <1>4 DEF UartAccess
<1>5. ASSUME NEW data \in Program.swirq, NEW write \in BOOLEAN, SwIrqAccess(data, write)
      PROVE  pc = "exec" /\ pc' = "int" /\ UNCHANGED <<opt, cfg, load, timing, icache, recent>>
  BY <1>5 DEF SwIrqAccess
<1> QED  BY <1>1, <1>2, <1>3, <1>4, <1>5, Zenon DEF Instruction

LEMMA MovesKeep ==
  ASSUME Moves
  PROVE  /\ UNCHANGED <<opt, cfg, load, skew, timing, ram, bus, icache, uart, swirq, want, rd,
                        recent, sent>>
         /\ (clk' = 1 - clk /\ extirq' \in {0, 1}) \/ UNCHANGED <<clk, extirq>>
         /\ \/ pc = "boot" /\ pc' = "file"
            \/ pc = "open" /\ pc' \in {"int", "gdb"}
            \/ pc = "gdb" /\ pc' = "int"
            \/ pc' \in {"post", "sleep"}
  BY DEF Moves, Boot, FileMissing, NoFile, StartGdb, Halt, post_run_actions, SleepForever,
         VTick, Advance, NoAdvance, run_or_not

LEMMA LoadingKeeps ==
  ASSUME Loading
  PROVE  /\ UNCHANGED <<opt, cfg, skew, timing, bus, icache, uart, swirq, extirq, clk, rd, recent, sent>>
         /\ pc \in {"open", "load"} /\ pc' \in {"load", "int", "gdb"}
  BY DEF Loading, read_elf, read_binary, ReadByte, FlushPartialWord, run_or_not

LEMMA ConfStep ==
  ASSUME ConfInv, Next
  PROVE  ConfInv'
<1>1. ASSUME UNCHANGED <<opt, cfg>>, pc' \in PCs, pc' # "boot", pc' = "file" => pc = "boot"
      PROVE  ConfInv'
  BY <1>1 DEF ConfInv
<1>2. CASE Moves \/ Loading \/ Instruction
  <2>1. UNCHANGED <<opt, cfg>> /\ pc' \in PCs /\ pc' # "boot" /\ (pc' = "file" => pc = "boot")
    BY <1>2, MovesKeep, LoadingKeeps, InstructionKeeps DEF PCs
  <2> QED  BY <1>1, <2>1
<1>3. CASE OpenFile
  <2> DEFINE argv == ArgsOf(opt.file, "vusermain0")
  <2>1. Len(argv) \in Nat  BY <1>3, WordsRead DEF OpenFile, ConfInv
  <2>2. ParseInv(Parse(argv))  BY <2>1, StartsParse
  <2>3. opt' = [file |-> opt.file, meant |-> opt.meant, p |-> Parse(argv)]
    BY <1>3 DEF OpenFile, ConfInv
  <2>4. pc' = "parse" /\ cfg' = cfg  BY <1>3 DEF OpenFile
  <2> HIDE DEF argv
  <2>5. opt'.file = opt.file /\ opt'.meant = opt.meant /\ opt'.p = Parse(argv)  BY <2>3
  <2> QED  BY <2>2, <2>3, <2>4, <2>5 DEF ConfInv, PCs
<1>4. CASE parseArgs
  <2>1. ParseInv(ParseOption(opt.p))  BY OptionParsed DEF ConfInv
  <2>2. opt' = [file |-> opt.file, meant |-> opt.meant, p |-> ParseOption(opt.p)]
    BY <1>4 DEF parseArgs, ConfInv
  <2>3. pc' = "parse" /\ cfg' = cfg  BY <1>4 DEF parseArgs
  <2>4. opt'.file = opt.file /\ opt'.meant = opt.meant /\ opt'.p = ParseOption(opt.p)  BY <2>2
  <2> QED  BY <2>1, <2>2, <2>3, <2>4 DEF ConfInv, PCs
<1>5. CASE Parsed
  <2>1. ParseInv(Parse(<<>>))  BY StartsParse, Len(<<>>) \in Nat
  <2>2. opt' = [file |-> <<>>, meant |-> <<>>, p |-> Parse(<<>>)]  BY <1>5 DEF Parsed
  <2>3. cfg' = [flags |-> opt.p.flags, values |-> opt.p.values]  BY <1>5 DEF Parsed
  <2>4. pc' \in {"setup", "sleep"}  BY <1>5 DEF Parsed
  <2>5. SetRight(opt.p.flags, opt.p.values)  BY DEF ConfInv, ParseInv
  <2>6. opt'.file = <<>> /\ opt'.meant = <<>> /\ opt'.p = Parse(<<>>)  BY <2>2
  <2>7. cfg'.flags = opt.p.flags /\ cfg'.values = opt.p.values  BY <2>3
  <2> QED  BY <2>1, <2>2, <2>3, <2>4, <2>5, <2>6, <2>7 DEF ConfInv, PCs
<1>6. CASE pre_run_setup
  BY <1>1, <1>6 DEF pre_run_setup, PCs
<1>7. CASE iss_int_callback
  BY <1>1, <1>7 DEF iss_int_callback, PCs
<1>8. ASSUME NEW a \in Program.fetches, Fetch(a) PROVE ConfInv'
  BY <1>1, <1>8 DEF Fetch, PCs
<1> QED  BY Steps, <1>2, <1>3, <1>4, <1>5, <1>6, <1>7, <1>8

LEMMA SameBounds ==
  ASSUME UNCHANGED <<cfg, timing>>
  PROVE  MaxWait' = MaxWait /\ MaxInstr' = MaxInstr /\ penalty_slow_mem' = penalty_slow_mem
<1>1. penalty_slow_mem' = penalty_slow_mem  BY DEF penalty_slow_mem, Number, Has
<1>2. MaxInstr' = MaxInstr  BY DEF MaxInstr
<1> QED  BY <1>1, <1>2 DEF MaxWait

LEMMA TextOfCore ==
  ASSUME ConfInv
  PROVE  Text("V", "DEFAULT") \in Cores
  BY DEF ConfInv, SetRight, Text, Has, Cores

\* What an instruction fetch waits, with the cache or without.
LEMMA WaitBounded ==
  ASSUME CacheInv, pc = "fetch", NEW miss \in BOOLEAN, miss => "I" \in cfg.flags
  PROVE  LET wait == 1 + (IF miss THEN (penalty_slow_mem * icache.line) \div 4 ELSE 0)
         IN  wait \in Nat \ {0} /\ wait <= MaxWait
<1>1. penalty_slow_mem \in Nat  BY NumberNat DEF penalty_slow_mem
<1>2. CASE ~miss  BY <1>1, <1>2 DEF MaxWait
<1>3. CASE miss
  <2>1. icache.line \in {4, 8, 16}  BY <1>3 DEF CacheInv, CacheUsable, CacheOK
  <2>2. CASE icache.line = 4  BY <1>1, <2>2 DEF MaxWait
  <2>3. CASE icache.line = 8  BY <1>1, <2>3 DEF MaxWait
  <2>4. CASE icache.line = 16  BY <1>1, <2>4 DEF MaxWait
  <2> QED  BY <2>1, <2>2, <2>3, <2>4
<1> QED  BY <1>2, <1>3

\* The cycles an instruction takes; they are counted in the skew, the UART and
\* the history, which a character written to a free transmitter starts again.
UartRecords == [ready : BOOLEAN, thri : BOOLEAN, iir : {"NONE", "EMP"}, start : Ticks]

TakesTime(n) ==
  /\ n <= MaxInstr
  /\ skew' \in {n, skew + n}
  /\ uart' \in UartRecords /\ uart'.start = Later(uart.start, n)
  /\ \/ uart'.ready = uart.ready /\ sent' = Later(sent, n)
     \/ uart.ready /\ ~uart'.ready /\ sent' = 0

LEMMA JustTime ==
  ASSUME UartInv, NEW n \in Nat
  PROVE  LET now == [uart EXCEPT !.start = Later(@, n)]
         IN  now \in UartRecords /\ now.start = Later(uart.start, n) /\ now.ready = uart.ready
<1>1. uart \in UartRecords  BY DEF UartInv, UartRecords
<1>2. Later(uart.start, n) \in Ticks  BY <1>1, LaterTicks DEF UartRecords
<1> QED  BY <1>1, <1>2, Zenon DEF UartRecords

LEMMA InstructionTakesTime ==
  ASSUME Inv, Instruction
  PROVE  \E n \in Nat : TakesTime(n)
<1> DEFINE now(n) == [uart EXCEPT !.start = Later(@, n)]
<1> USE DEF Inv
<1>1. /\ timing.linear \in Nat /\ \A i \in 2 .. 7 : timing.extra[i] \in Nat
      /\ \A i \in 2 .. 7 : 1 + timing.linear + timing.extra[i] <= MaxInstr
      /\ MaxInstr \in Nat
  BY Maxima DEF TimeInv
<1>2. ASSUME NEW n \in Nat, n <= MaxInstr, skew' \in {n, skew + n}, uart' = now(n), sent' = Later(sent, n)
      PROVE  TakesTime(n)
  BY <1>2, JustTime DEF TakesTime
<1>3. ASSUME NEW a, NEW n PROVE Behind(a, FALSE, n) \in {n, skew + n}
  BY DEF Behind
<1>4. ASSUME NEW class \in {1, 2}, Execute(class) PROVE \E n \in Nat : TakesTime(n)
  <2> DEFINE n == timing.linear + (IF class = 1 THEN 0 ELSE timing.extra[class])
  <2>1. n \in Nat /\ n <= MaxInstr  BY <1>1, <1>1
  <2>2. skew' = skew + n /\ uart' = now(n) /\ sent' = Later(sent, n)  BY <1>4 DEF Execute
  <2> HIDE DEF n, now
  <2> QED  BY <1>2, <2>1, <2>2
<1>5. ASSUME NEW op \in Program.loads, Load(op[1], op[2]) PROVE \E n \in Nat : TakesTime(n)
  <2> DEFINE n == 1 + timing.linear + timing.extra[3]
  <2>1. n \in Nat /\ n <= MaxInstr  BY <1>1
  <2>2. skew' = Behind(op[1], FALSE, n) /\ uart' = now(n) /\ sent' = Later(sent, n)
    BY <1>5 DEF Load
  <2> HIDE DEF n, now
  <2> QED  BY <1>2, <1>3, <2>1, <2>2
<1>6. ASSUME NEW op \in Program.stores, NEW data \in Program.data, Store(op[1], op[2], data)
      PROVE  \E n \in Nat : TakesTime(n)
  <2> DEFINE n == timing.linear + timing.extra[4]
  <2>1. n \in Nat /\ n <= MaxInstr  BY <1>1
  <2>2. skew' = Behind(op[1], FALSE, n) /\ uart' = now(n) /\ sent' = Later(sent, n)
    BY <1>6 DEF Store
  <2> HIDE DEF n, now
  <2> QED  BY <1>2, <1>3, <2>1, <2>2
<1>7. ASSUME NEW reg \in Program.regs, NEW data \in {0, 1}, NEW write \in BOOLEAN,
             UartAccess(reg, data, write)
      PROVE  \E n \in Nat : TakesTime(n)
  <2> DEFINE n == timing.linear + (IF write THEN timing.extra[4] ELSE timing.extra[3])
  <2>1. n \in Nat /\ n <= MaxInstr  BY <1>1
  <2>2. /\ skew' \in {n, skew + n}
        /\ uart' = IF write THEN uart_write(now(n), reg, data) ELSE now(n)
        /\ sent' = IF write /\ reg = "RBR" /\ uart.ready THEN 0 ELSE Later(sent, n)
    BY <1>3, <1>7 DEF UartAccess
  <2>3. now(n) \in UartRecords /\ now(n).start = Later(uart.start, n) /\ now(n).ready = uart.ready
    BY <2>1, JustTime
  <2> HIDE DEF n, now
  <2>4. CASE write /\ reg = "RBR"
    <3>1. uart' = [now(n) EXCEPT !.ready = FALSE]  BY <2>2, <2>4 DEF uart_write
    <3>2. uart' \in UartRecords /\ uart'.start = now(n).start /\ uart'.ready = FALSE
      BY <2>3, <3>1, Zenon DEF UartRecords
    <3>3. uart.ready \in BOOLEAN  BY DEF UartInv
    <3>4. sent' = IF uart.ready THEN 0 ELSE Later(sent, n)  BY <2>2, <2>4
    <3> QED  BY <2>1, <2>2, <2>3, <3>2, <3>3, <3>4 DEF TakesTime
  <2>5. CASE write /\ reg = "IER"
    <3>1. uart' = [now(n) EXCEPT !.thri = (data = 1)]  BY <2>2, <2>5 DEF uart_write
    <3>2. uart' \in UartRecords /\ uart'.start = now(n).start /\ uart'.ready = now(n).ready
      BY <2>3, <3>1, Zenon DEF UartRecords
    <3>3. sent' = Later(sent, n)  BY <2>2, <2>5
    <3> QED  BY <2>1, <2>2, <2>3, <3>2, <3>3 DEF TakesTime
  <2>6. CASE ~(write /\ reg \in {"RBR", "IER"})
    <3>1. uart' = now(n) /\ sent' = Later(sent, n)  BY <2>2, <2>6 DEF uart_write
    <3> QED  BY <2>1, <2>2, <2>3, <3>1 DEF TakesTime
  <2> QED  BY <2>4, <2>5, <2>6
<1>8. ASSUME NEW data \in Program.swirq, NEW write \in BOOLEAN, SwIrqAccess(data, write)
      PROVE  \E n \in Nat : TakesTime(n)
  <2> DEFINE n == timing.linear + (IF write THEN timing.extra[4] ELSE timing.extra[3])
  <2>1. n \in Nat /\ n <= MaxInstr  BY <1>1
  <2>2. skew' \in {n, skew + n} /\ uart' = now(n) /\ sent' = Later(sent, n)
    BY <1>3, <1>8 DEF SwIrqAccess
  <2> HIDE DEF n, now
  <2> QED  BY <1>2, <2>1, <2>2
<1> QED  BY <1>4, <1>5, <1>6, <1>7, <1>8 DEF Instruction

LEMMA TimeStep ==
  ASSUME Inv, Next
  PROVE  TimeInv'
<1> USE DEF Inv
<1>0. MaxWait \in Nat /\ MaxInstr \in Nat /\ skew \in Nat /\ max_sync_diff \in Nat
  BY Maxima, SizesAssumption DEF TimeInv
<1>1. ASSUME UNCHANGED <<cfg, timing>>, skew' \in Nat,
             pc' \in {"boot", "file", "parse", "setup"} => skew' = 0,
             pc' = "exec" => skew' <= max_sync_diff + MaxWait,
             skew' <= max_sync_diff + MaxWait + MaxInstr
      PROVE  TimeInv'
  BY <1>1, SameBounds DEF TimeInv
<1>2. CASE Moves \/ Loading
  <2>1. UNCHANGED <<cfg, timing, skew>>  BY <1>2, MovesKeep, LoadingKeeps
  <2>2. pc' # "exec" /\ (pc' \in {"boot", "file", "parse", "setup"} => pc = "boot")
    BY <1>2, MovesKeep, LoadingKeeps
  <2> QED  BY <1>1, <2>1, <2>2 DEF TimeInv
<1>3. CASE OpenFile \/ parseArgs
  <2>1. pc \in {"file", "parse"} /\ pc' = "parse" /\ UNCHANGED <<cfg, timing, skew>>
    BY <1>3 DEF OpenFile, parseArgs
  <2> QED  BY <1>1, <2>1 DEF TimeInv
<1>4. CASE Parsed
  <2>1. pc = "parse" /\ pc' \in {"setup", "sleep"} /\ UNCHANGED <<timing, skew>>  BY <1>4 DEF Parsed
  <2>2. \A v : strtol(v) \in Nat  BY NumeralsAssumption DEF strtol
  <2>3. penalty_slow_mem' \in Nat  BY <2>2 DEF penalty_slow_mem, Number
  <2> DEFINE w == MaxWait'
             penalty == penalty_slow_mem'
  <2>4. w \in Nat
    <3>1. w = 1 + penalty * 4  BY DEF MaxWait
    <3>2. penalty \in Nat  BY <2>3
    <3> HIDE DEF w, penalty
    <3> QED  BY <3>1, <3>2
  <2>5. MaxInstr' = MaxInstr  BY <2>1 DEF MaxInstr
  <2>6. skew' = 0  BY <2>1 DEF TimeInv
  <2>7. skew' <= max_sync_diff + w + MaxInstr'
    <3> HIDE DEF w
    <3> QED  BY <1>0, <2>4, <2>5, <2>6
  <2> QED  BY <2>1, <2>6, <2>7 DEF TimeInv
<1>5. CASE pre_run_setup
  <2> DEFINE t == update_timing(Text("V", "DEFAULT"))
  <2>1. pc = "setup" /\ pc' \in {"open", "exited"} /\ UNCHANGED <<cfg, skew>> /\ timing' = t
    BY <1>5 DEF pre_run_setup
  <2>2. /\ t = [linear |-> t.linear, extra |-> t.extra]
        /\ t.linear \in 1 .. 4 /\ t.extra \in [2 .. 7 -> 0 .. 33]
    BY TextOfCore, TimingOfCores
  <2> HIDE DEF t
  <2>3. MaxOf({t.extra[i] : i \in 2 .. 7}) \in 0 .. 33  BY <2>2, MaxOfSix
  <2>4. MaxInstr' \in Nat  BY <2>1, <2>2, <2>3 DEF MaxInstr
  <2>5. penalty_slow_mem' = penalty_slow_mem  BY <2>1 DEF penalty_slow_mem, Number, Has
  <2>6. MaxWait' = MaxWait  BY <2>5 DEF MaxWait
  <2>7. skew' = 0  BY <2>1 DEF TimeInv
  <2> DEFINE i == MaxInstr'
  <2>8. skew' <= max_sync_diff + MaxWait' + i
    <3>1. i \in Nat  BY <2>4
    <3> HIDE DEF i
    <3> QED  BY <1>0, <2>6, <2>7, <3>1
  <2> QED  BY <2>1, <2>2, <2>7, <2>8 DEF TimeInv
<1>6. CASE iss_int_callback
  <2>1. pc = "int" /\ pc' = "fetch" /\ UNCHANGED <<cfg, timing, skew>>
    BY <1>6 DEF iss_int_callback
  <2> QED  BY <1>1, <2>1 DEF TimeInv
<1>7. ASSUME NEW a \in Program.fetches, Fetch(a) PROVE TimeInv'
  <2> DEFINE miss == "I" \in cfg.flags /\ (~Cached(a) \/ ~Hit(a))
             wait == 1 + (IF miss THEN (penalty_slow_mem * icache.line) \div 4 ELSE 0)
  <2>1. pc = "fetch" /\ pc' = "exec" /\ UNCHANGED <<cfg, timing>> /\ skew' = Behind(a, TRUE, wait)
    BY <1>7 DEF Fetch
  <2>2. wait \in Nat /\ wait <= MaxWait
    <3>1. miss \in BOOLEAN /\ (miss => "I" \in cfg.flags)  OBVIOUS
    <3> HIDE DEF miss
    <3> QED  BY <2>1, <3>1, WaitBounded
  <2> HIDE DEF wait
  <2>3. skew' \in Nat /\ skew' <= max_sync_diff + MaxWait
    BY <1>0, <2>1, <2>2 DEF Behind, Syncs
  <2>4. skew' <= max_sync_diff + MaxWait + MaxInstr  BY <1>0, <2>3
  <2> QED  BY <1>1, <2>1, <2>3, <2>4
<1>8. CASE Instruction
  <2>1. pc = "exec" /\ pc' = "int" /\ UNCHANGED <<cfg, timing>>  BY <1>8, InstructionKeeps
  <2>2. PICK n \in Nat : TakesTime(n)  BY <1>8, InstructionTakesTime
  <2>3. n <= MaxInstr /\ skew' \in {n, skew + n}  BY <2>2 DEF TakesTime
  <2>4. skew <= max_sync_diff + MaxWait  BY <2>1 DEF TimeInv
  <2>5. skew' \in Nat /\ skew' <= max_sync_diff + MaxWait + MaxInstr  BY <1>0, <2>3, <2>4
  <2> QED  BY <1>1, <2>1, <2>5
<1> QED  BY Steps, <1>2, <1>3, <1>4, <1>5, <1>6, <1>7, <1>8

LEMMA AlignedLane ==
  ASSUME NEW op, Aligned(op)
  PROVE  /\ op[1] \in Nat /\ Size[op[2]] \in {1, 2, 4}
         /\ op[1] .. op[1] + Size[op[2]] - 1 \subseteq DataBytes
         /\ Base(op[1]) + Lane(op[1], op[2]) = op[1]
         /\ \A b \in op[1] .. op[1] + Size[op[2]] - 1 : Base(b) = Base(op[1])
<1> DEFINE a == op[1]
           n == Size[op[2]]
<1>1. a \in Nat /\ op[2] \in {"byte", "hword", "word"}  BY DEF Aligned
<1>2. op[2] = "byte" \/ (op[2] = "hword" /\ n = 2 /\ a % 2 = 0) \/ (op[2] = "word" /\ n = 4 /\ a % 4 = 0)
  BY <1>1 DEF Aligned, Size
<1>3. n \in {1, 2, 4} /\ (op[2] = "byte" => n = 1)  BY <1>1 DEF Size
<1>4. Base(a) + Lane(a, op[2]) = a
  <2> HIDE DEF a, n
  <2>1. CASE op[2] = "byte"  BY <1>1, <2>1 DEF Base, Lane
  <2>2. CASE op[2] = "hword" /\ a % 2 = 0  BY <1>1, <2>2 DEF Base, Lane
  <2>3. CASE op[2] = "word" /\ a % 4 = 0  BY <1>1, <2>3 DEF Base, Lane
  <2> QED  BY <1>2, <2>1, <2>2, <2>3
<1>5. ASSUME NEW b \in a .. a + n - 1 PROVE Base(b) = Base(a)
  <2> HIDE DEF a, n
  <2>1. CASE n = 1  BY <1>1, <2>1
  <2>2. CASE n = 2 /\ a % 2 = 0  BY <1>1, <2>2 DEF Base
  <2>3. CASE n = 4 /\ a % 4 = 0  BY <1>1, <2>3 DEF Base
  <2> QED  BY <1>2, <1>3, <2>1, <2>2, <2>3
<1>6. a .. a + n - 1 \subseteq DataBytes  BY DEF Aligned
<1> QED  BY <1>1, <1>3, <1>4, <1>5, <1>6

LEMMA SetTyped ==
  ASSUME NEW T \in SUBSET Int, NEW m \in [DataBytes -> T], NEW from, NEW data,
         \A i \in DOMAIN data : data[i] \in T
  PROVE  Set(m, from, data) \in [DataBytes -> T]
<1>1. \A b \in DataBytes : (IF b - from \in DOMAIN data THEN data[b - from] ELSE m[b]) \in T
  OBVIOUS
<1> QED  BY <1>1, Zenon DEF Set

LEMMA RamAndWantTyped ==
  ASSUME MemInv, NEW from, NEW data, NEW meant,
         \A i \in DOMAIN data : data[i] \in Nat, \A i \in DOMAIN meant : meant[i] \in Int
  PROVE  /\ Set(ram, from, data) \in [DataBytes -> Nat]
         /\ Set(want, from, meant) \in [DataBytes -> Int]
<1>1. Nat \in SUBSET Int /\ Int \in SUBSET Int  OBVIOUS
<1>2. ram \in [DataBytes -> Nat] /\ want \in [DataBytes -> Int]  BY DEF MemInv
<1> QED  BY <1>1, <1>2, SetTyped, Zenon

LEMMA PutTyped ==
  ASSUME NEW m \in [DataBytes -> Nat], NEW from \in Nat, NEW n \in {1, 2, 4},
         NEW data \in [0 .. 3 -> Nat]
  PROVE  Put(m, from, n, data) \in [DataBytes -> Nat]
<1>1. \A b \in DataBytes : from <= b /\ b < from + n => data[b - from] \in Nat
  BY SizesAssumption
<1> QED  BY <1>1, Zenon DEF Put

LEMMA LoadingTyped ==
  ASSUME MemInv, Loading
  PROVE  MemInv'
<1>1. swirq' = swirq /\ extirq' = extirq /\ clk' = clk /\ bus' = bus  BY LoadingKeeps
<1>2. Program.image \in Seq(Nat)  BY ProgramSound
<1>3. CASE read_elf
  <2> DEFINE image == [i \in 0 .. Len(Program.image) - 1 |-> Program.image[i + 1]]
  <2>1. \A i \in DOMAIN image : image[i] \in Nat /\ image[i] \in Int  BY <1>2
  <2>2. /\ ram' = Set(ram, Program.at, image) /\ want' = Set(want, Program.at, image)
        /\ load' = load
    BY <1>3 DEF read_elf
  <2> HIDE DEF image
  <2>3. ram' \in [DataBytes -> Nat] /\ want' \in [DataBytes -> Int]
    BY <2>1, <2>2, RamAndWantTyped
  <2> QED  BY <1>1, <2>2, <2>3 DEF MemInv
<1>4. CASE read_binary
  <2>1. load' = [idx |-> 0, buf |-> [i \in 0 .. 3 |-> 0]] /\ UNCHANGED <<ram, want>>
    BY <1>4 DEF read_binary
  <2>2. [i \in 0 .. 3 |-> 0] \in [0 .. 3 -> Nat]  OBVIOUS
  <2> QED  BY <1>1, <2>1, <2>2 DEF MemInv
<1>5. CASE ReadByte
  <2> DEFINE buf == [load.buf EXCEPT ![load.idx % 4] = Program.image[load.idx + 1]]
  <2>1. load.idx \in Nat /\ load.idx < Len(Program.image)  BY <1>5 DEF ReadByte, MemInv
  <2>2. buf \in [0 .. 3 -> Nat]
    <3>1. load.idx % 4 \in 0 .. 3  BY <2>1
    <3>2. Program.image[load.idx + 1] \in Nat
      <4>1. load.idx + 1 \in 1 .. Len(Program.image)  BY <1>2, <2>1
      <4> QED  BY <1>2, <4>1, ElementOfSeq, Zenon
    <3>3. load.buf \in [0 .. 3 -> Nat]  BY DEF MemInv
    <3> QED  BY <3>1, <3>2, <3>3
  <2>3. /\ load' = [idx |-> load.idx + 1, buf |-> buf]
        /\ \/ /\ ram' = Set(ram, WordAt(load.idx), buf)
              /\ want' = Set(want, bin_load_addr + Base(load.idx), buf)
           \/ UNCHANGED <<ram, want>>
    BY <1>5 DEF ReadByte
  <2> HIDE DEF buf
  <2>4. \A i \in DOMAIN buf : buf[i] \in Nat /\ buf[i] \in Int  BY <2>2
  <2>5. ram' \in [DataBytes -> Nat] /\ want' \in [DataBytes -> Int]
    <3>1. CASE UNCHANGED <<ram, want>>  BY <3>1 DEF MemInv
    <3>2. CASE ram' = Set(ram, WordAt(load.idx), buf) /\ want' = Set(want, WordAt(load.idx), buf)
      BY <2>4, <3>2, RamAndWantTyped
    <3> QED  BY <2>3, <3>1, <3>2 DEF WordAt
  <2>6. load'.idx = load.idx + 1 /\ load'.buf = buf  BY <2>3
  <2>7. load' = [idx |-> load'.idx, buf |-> load'.buf]  BY <2>3, <2>6, Zenon
  <2>8. load'.idx \in Nat /\ load'.buf \in [0 .. 3 -> Nat]  BY <2>1, <2>2, <2>6
  <2> QED  BY <1>1, <2>5, <2>7, <2>8 DEF MemInv
<1>6. CASE FlushPartialWord
  <2> DEFINE kept == [i \in 0 .. 3 |-> IF i < bin_load_addr % 4 THEN load.buf[i] ELSE 0]
             tail == [i \in 0 .. 3 |-> IF i < load.idx % 4 THEN load.buf[i] ELSE Unknown]
  <2>1. /\ load' = [idx |-> 0, buf |-> [i \in 0 .. 3 |-> 0]]
        /\ \/ ram' = Set(ram, WordAt(load.idx), kept) /\ want' = Set(want, WordAt(load.idx), tail)
           \/ UNCHANGED <<ram, want>>
    BY <1>6 DEF FlushPartialWord
  <2>2. \A i \in DOMAIN kept : kept[i] \in Nat  BY DEF MemInv
  <2>3. \A i \in DOMAIN tail : tail[i] \in Int  BY DEF MemInv, Unknown
  <2> HIDE DEF kept, tail
  <2>4. ram' \in [DataBytes -> Nat] /\ want' \in [DataBytes -> Int]
    <3>1. CASE UNCHANGED <<ram, want>>  BY <3>1 DEF MemInv
    <3>2. CASE ram' = Set(ram, WordAt(load.idx), kept) /\ want' = Set(want, WordAt(load.idx), tail)
      BY <2>2, <2>3, <3>2, RamAndWantTyped
    <3> QED  BY <2>1, <3>1, <3>2
  <2>5. [i \in 0 .. 3 |-> 0] \in [0 .. 3 -> Nat]  OBVIOUS
  <2> QED  BY <1>1, <2>1, <2>4, <2>5 DEF MemInv
<1> QED  BY <1>3, <1>4, <1>5, <1>6 DEF Loading

LEMMA StoreTyped ==
  ASSUME MemInv, NEW op \in Program.stores, NEW data \in Program.data, Store(op[1], op[2], data)
  PROVE  /\ ram' \in [DataBytes -> Nat] /\ bus' \in [DataBytes -> Nat]
         /\ want' \in [DataBytes -> Int]
<1> DEFINE a == op[1]
           n == Size[op[2]]
<1>1. Aligned(op) /\ data \in [0 .. 3 -> Nat]  BY ProgramSound
<1>2. a \in Nat /\ n \in {1, 2, 4} /\ Base(a) + Lane(a, op[2]) = a  BY <1>1, AlignedLane
<1>3. /\ ram' = Put(ram, a, n, data) \/ ram' = ram
      /\ bus' = Put(bus, a, n, data) \/ bus' = bus
      /\ want' = [b \in DOMAIN want |-> IF a <= b /\ b < a + n THEN data[b - a] ELSE want[b]]
  BY <1>2 DEF Store, Write
<1> HIDE DEF a, n
<1>4. \A b \in DataBytes : a <= b /\ b < a + n => data[b - a] \in Nat
  BY <1>1, <1>2, SizesAssumption
<1>5. \A b \in DataBytes : (IF a <= b /\ b < a + n THEN data[b - a] ELSE want[b]) \in Int
  BY <1>4 DEF MemInv
<1>6. DOMAIN want = DataBytes  BY DEF MemInv
<1>7. want' \in [DataBytes -> Int]  BY <1>3, <1>5, <1>6, Zenon
<1>8. ram \in [DataBytes -> Nat] /\ bus \in [DataBytes -> Nat]  BY DEF MemInv
<1>9. Put(ram, a, n, data) \in [DataBytes -> Nat] /\ Put(bus, a, n, data) \in [DataBytes -> Nat]
  BY <1>1, <1>2, <1>8, PutTyped
<1> QED  BY <1>3, <1>7, <1>8, <1>9

LEMMA MemStep ==
  ASSUME MemInv, Next
  PROVE  MemInv'
<1>1. ASSUME UNCHANGED <<load, ram, bus, want>>, swirq' \in {0, 1},
             (clk' = 1 - clk /\ extirq' \in {0, 1}) \/ UNCHANGED <<clk, extirq>>
      PROVE  MemInv'
  BY <1>1 DEF MemInv
<1>2. CASE Moves
  BY <1>1, <1>2, MovesKeep DEF MemInv
<1>3. CASE OpenFile \/ parseArgs \/ Parsed \/ pre_run_setup \/ iss_int_callback
  <2>1. UNCHANGED <<load, ram, bus, want, swirq, clk, extirq>>
    BY <1>3 DEF OpenFile, parseArgs, Parsed, pre_run_setup, iss_int_callback
  <2> QED  BY <2>1 DEF MemInv
<1>4. ASSUME NEW a, NEW instr, NEW onbus, Time(a, instr, onbus)
      PROVE  (clk' = 1 - clk /\ extirq' \in {0, 1}) \/ UNCHANGED <<clk, extirq>>
  BY <1>4 DEF Time, VTick, Advance, NoAdvance
<1>5. ASSUME NEW a \in Program.fetches, Fetch(a) PROVE MemInv'
  <2>1. UNCHANGED <<load, ram, bus, want, swirq>> /\ Time(a, TRUE, access_sim(a))
    BY <1>5 DEF Fetch
  <2> QED  BY <1>1, <1>4, <2>1 DEF MemInv
<1>6. CASE Instruction
  <2>1. ASSUME NEW class \in {1, 2}, Execute(class) PROVE MemInv'
    <3>1. UNCHANGED <<load, ram, bus, want, swirq, clk, extirq>>  BY <2>1 DEF Execute
    <3> QED  BY <3>1 DEF MemInv
  <2>2. ASSUME NEW op \in Program.loads, Load(op[1], op[2]) PROVE MemInv'
    <3>1. UNCHANGED <<load, ram, bus, want, swirq>> /\ Time(op[1], FALSE, access_sim(op[1]))
      BY <2>2 DEF Load
    <3> QED  BY <1>1, <1>4, <3>1 DEF MemInv
  <2>3. ASSUME NEW op \in Program.stores, NEW data \in Program.data, Store(op[1], op[2], data)
        PROVE  MemInv'
    <3>1. UNCHANGED <<load, swirq>> /\ Time(op[1], FALSE, access_sim(op[1]))  BY <2>3 DEF Store
    <3>2. (clk' = 1 - clk /\ extirq' \in {0, 1}) \/ UNCHANGED <<clk, extirq>>  BY <1>4, <3>1
    <3>3. clk' \in {0, 1} /\ extirq' \in {0, 1}  BY <3>2 DEF MemInv
    <3> QED  BY <2>3, <3>1, <3>3, StoreTyped DEF MemInv
  <2>4. ASSUME NEW reg \in Program.regs, NEW data \in {0, 1}, NEW write \in BOOLEAN,
               UartAccess(reg, data, write)
        PROVE  MemInv'
    <3>1. UNCHANGED <<load, ram, bus, want, swirq>> /\ Time(uart0_base_addr, FALSE, FALSE)
      BY <2>4 DEF UartAccess
    <3> QED  BY <1>1, <1>4, <3>1 DEF MemInv
  <2>5. ASSUME NEW data \in Program.swirq, NEW write \in BOOLEAN, SwIrqAccess(data, write)
        PROVE  MemInv'
    <3>1. UNCHANGED <<load, ram, bus, want>> /\ Time(sw_irq_addr, FALSE, FALSE) /\ swirq' = data
      BY <2>5 DEF SwIrqAccess
    <3>2. data \in {0, 1}  BY ProgramSound
    <3> QED  BY <1>1, <1>4, <3>1, <3>2
  <2> QED  BY <1>6, <2>1, <2>2, <2>3, <2>4, <2>5 DEF Instruction
<1> QED  BY Steps, LoadingTyped, <1>2, <1>3, <1>5, <1>6

\* The index of an address is that of a set, whatever its line.
LEMMA SetNumber ==
  ASSUME CacheOK(icache.line, icache.ways, icache.sets), NEW a \in Nat
  PROVE  LineOf(a) \in Nat /\ SetOf(a) \in 0 .. 1023 /\ icache.ways \in {1, 2}
<1>1. icache.line \in {4, 8, 16} /\ icache.sets \in {128, 256, 512, 1024} /\ icache.ways \in {1, 2}
  BY DEF CacheOK
<1>2. LineOf(a) \in Nat
  <2>1. CASE icache.line = 4  BY <2>1 DEF LineOf
  <2>2. CASE icache.line = 8  BY <2>2 DEF LineOf
  <2>3. CASE icache.line = 16  BY <2>3 DEF LineOf
  <2> QED  BY <1>1, <2>1, <2>2, <2>3
<1>3. SetOf(a) \in 0 .. 1023
  <2>1. CASE icache.sets = 128  BY <1>2, <2>1 DEF SetOf
  <2>2. CASE icache.sets = 256  BY <1>2, <2>2 DEF SetOf
  <2>3. CASE icache.sets = 512  BY <1>2, <2>3 DEF SetOf
  <2>4. CASE icache.sets = 1024  BY <1>2, <2>4 DEF SetOf
  <2> QED  BY <1>1, <2>1, <2>2, <2>3, <2>4
<1> QED  BY <1>1, <1>2, <1>3

LEMMA CacheAccessed ==
  ASSUME CacheInv, CacheOK(icache.line, icache.ways, icache.sets), NEW a \in Nat,
         rv32_cache_access(a), recent' = Refilled(a), UNCHANGED cfg, pc' = "exec"
  PROVE  CacheInv'
<1> DEFINE l == LineOf(a)
           s == SetOf(a)
           q == Lines(s)
           m1 == IF Hit(a) THEN icache.m ELSE Filled(icache.m, icache.next, s, l)
           n1 == IF Hit(a) THEN icache.next ELSE Toggled(icache.next, icache.ways, s)
<1>1. l \in Nat /\ s \in 0 .. 1023 /\ icache.ways \in {1, 2}  BY SetNumber
<1>2. icache' = [icache EXCEPT !.m = m1, !.next = n1]
  <2>1. Fill(a) = Filled(icache.m, icache.next, s, l)  BY DEF Fill, Filled, Entry
  <2> QED  BY <2>1, Zenon DEF rv32_cache_access, Toggles, Toggled
<1>3. /\ icache'.m = m1 /\ icache'.next = n1 /\ icache'.ways = icache.ways
      /\ icache'.line = icache.line /\ icache'.sets = icache.sets /\ CacheRecord'
  <2> HIDE DEF m1, n1
  <2> DEFINE r == [icache EXCEPT !.m = m1]
  <2>1. icache' = [r EXCEPT !.next = n1]  BY <1>2
  <2>2. /\ r = [line |-> icache.line, ways |-> icache.ways, sets |-> icache.sets,
                base |-> icache.base, limit |-> icache.limit, m |-> m1, next |-> icache.next]
    <3>1. CacheRecord  BY DEF CacheInv
    <3> QED  BY <3>1 DEF CacheRecord
  <2> HIDE DEF r
  <2>3. icache' = [line |-> icache.line, ways |-> icache.ways, sets |-> icache.sets,
                   base |-> icache.base, limit |-> icache.limit, m |-> m1, next |-> n1]
    BY <2>1, <2>2
  <2> QED  BY <2>3 DEF CacheRecord
<1>4. Hit(a) <=> l \in Members(q)
  <2>1. SetInv(icache.m, icache.next, icache.ways, q, s)
    <3>1. SetsInOrder  BY DEF CacheInv
    <3>2. s \in SetNumbers  BY <1>1 DEF SetNumbers
    <3> HIDE DEF s
    <3> QED  BY <3>1, <3>2, Zenon DEF SetsInOrder
  <2>2. {e.addr : e \in Held(icache.m, s)} = Members(q)  BY <2>1, SetIsFifo
  <2> QED  BY <2>2 DEF Hit, Held
<1>5. /\ DOMAIN recent' = DOMAIN recent \cup {s}
      /\ \A t : Lines(t)' = IF t = s /\ ~Hit(a) THEN Kept(icache.ways, q, l) ELSE Lines(t)
  <2>1. DOMAIN recent' = DOMAIN recent \cup {s}  BY DEF Refilled
  <2>2. \A t \in DOMAIN recent \cup {s} :
          recent'[t] = IF t = s /\ ~Hit(a) THEN Kept(icache.ways, q, l) ELSE Lines(t)
    BY <1>4, Zenon DEF Refilled, Kept
  <2> HIDE DEF s, q, l
  <2> QED  BY <2>1, <2>2 DEF Lines
<1>6. m1 \subseteq [way : {0, 1}, set : 0 .. 1023, addr : Nat]
  <2>1. \A w \in {0, 1} : Entry(w, s, l) \in [way : {0, 1}, set : 0 .. 1023, addr : Nat]
    <3> HIDE DEF s, l
    <3> QED  BY <1>1 DEF Entry
  <2>2. icache.m \subseteq [way : {0, 1}, set : 0 .. 1023, addr : Nat]  BY DEF CacheInv, CacheTyped
  <2> HIDE DEF s, l
  <2> QED  BY <2>1, <2>2 DEF Filled
<1>7. n1 \subseteq 0 .. 1023
  <2>1. icache.next \subseteq 0 .. 1023  BY DEF CacheInv, CacheTyped
  <2> HIDE DEF s
  <2> QED  BY <1>1, <2>1 DEF Toggled
<1>8. ASSUME NEW t \in SetNumbers PROVE SetInv(m1, n1, icache.ways, Lines(t)', t)
  <2>1. SetInv(icache.m, icache.next, icache.ways, Lines(t), t)
    BY Zenon DEF CacheInv, SetsInOrder
  <2>2. CASE Hit(a)
    <3>1. m1 = icache.m /\ n1 = icache.next /\ Lines(t)' = Lines(t)  BY <1>5, <2>2
    <3> HIDE DEF m1, n1
    <3> QED  BY <2>1, <3>1
  <2>3. CASE ~Hit(a) /\ t = s
    <3>1. /\ m1 = Filled(icache.m, icache.next, s, l) /\ n1 = Toggled(icache.next, icache.ways, s)
          /\ Lines(t)' = Kept(icache.ways, q, l)
      BY <1>5, <2>3
    <3>2. l \notin Members(q)  BY <1>4, <2>3
    <3> HIDE DEF m1, n1, l, s
    <3> QED  BY <1>1, <2>1, <2>3, <3>1, <3>2, SetFilled
  <2>4. CASE ~Hit(a) /\ t # s
    <3>1. Lines(t)' = Lines(t)  BY <1>5, <2>4
    <3>2. Held(m1, t) = Held(icache.m, t)
      <4> HIDE DEF s, l
      <4> QED  BY <2>4 DEF Held, Filled, Entry
    <3>3. t \in n1 <=> t \in icache.next
      <4> HIDE DEF s
      <4> QED  BY <2>4 DEF Toggled
    <3> HIDE DEF m1, n1
    <3> QED  BY <2>1, <3>1, <3>2, <3>3 DEF SetInv, Empty, OneLine, TwoLines
  <2> QED  BY <2>2, <2>3, <2>4
<1> HIDE DEF m1, n1, s, l, q
<1>9. ASSUME NEW t \in SetNumbers
      PROVE  SetInv(icache'.m, icache'.next, icache'.ways, Lines(t)', t)
  <2>1. SetInv(m1, n1, icache.ways, Lines(t)', t)  BY <1>8
  <2> QED  BY <1>3, <2>1
<1>10. DOMAIN recent' \subseteq 0 .. 1023
  <2>1. DOMAIN recent \subseteq 0 .. 1023  BY DEF CacheInv, CacheTyped
  <2> QED  BY <1>1, <1>5, <2>1
<1>11. SetsInOrder'  BY <1>9, Zenon DEF SetsInOrder
<1>12. CacheTyped'  BY <1>3, <1>6, <1>7, <1>10 DEF CacheTyped
<1>13. CacheUsable'  BY <1>3 DEF CacheUsable
<1> QED  BY <1>3, <1>11, <1>12, <1>13 DEF CacheInv

LEMMA NewCacheEmpty ==
  ASSUME CacheInv, pc = "setup", UNCHANGED <<cfg, recent>>, pc' \in {"open", "exited"},
         icache'.m = {}, icache'.next = {}, CacheRecord',
         pc' = "open" /\ "I" \in cfg.flags => CacheOK(icache'.line, icache'.ways, icache'.sets)
  PROVE  CacheInv'
<1>1. recent' = <<>>  BY DEF CacheInv, CacheUsable
<1>2. \A t : Lines(t)' = <<>>  BY <1>1 DEF Lines
<1>3. \A t : SetInv(icache'.m, icache'.next, icache'.ways, Lines(t)', t)
  BY <1>2 DEF SetInv, Empty, Held
<1>4. SetsInOrder'  BY <1>3 DEF SetsInOrder
<1>5. CacheTyped'  BY <1>1 DEF CacheTyped
<1>6. CacheUsable'  BY <1>1 DEF CacheUsable
<1> QED  BY <1>4, <1>5, <1>6 DEF CacheInv

LEMMA OrderKept ==
  ASSUME SetsInOrder, UNCHANGED <<icache, recent>>
  PROVE  SetsInOrder'
<1>1. ASSUME NEW s \in SetNumbers
      PROVE  SetInv(icache'.m, icache'.next, icache'.ways, Lines(s)', s)
  <2>1. SetInv(icache.m, icache.next, icache.ways, Lines(s), s)  BY Zenon DEF SetsInOrder
  <2>2. Lines(s)' = Lines(s)  BY DEF Lines
  <2>3. icache'.m = icache.m /\ icache'.next = icache.next /\ icache'.ways = icache.ways  OBVIOUS
  <2> QED  BY <2>1, <2>2, <2>3
<1> QED  BY <1>1, Zenon DEF SetsInOrder

LEMMA CacheStep ==
  ASSUME CacheInv, Next
  PROVE  CacheInv'
<1> DEFINE setUp == {"open", "load", "gdb", "int", "fetch", "exec"}
           early == {"boot", "file", "parse", "setup"}
<1>1. ASSUME UNCHANGED <<icache, recent>>,
             pc' \in setUp => pc \in setUp /\ UNCHANGED cfg, pc' \in early => pc \in early
      PROVE  CacheInv'
  <2>2. SetsInOrder'  BY <1>1, OrderKept DEF CacheInv
  <2>3. CacheTyped' /\ CacheRecord'  BY <1>1 DEF CacheInv, CacheTyped, CacheRecord
  <2>4. CacheUsable'  BY <1>1 DEF CacheInv, CacheUsable
  <2> QED  BY <2>2, <2>3, <2>4 DEF CacheInv
<1>2. CASE Moves
  <2>1. UNCHANGED <<icache, recent, cfg>> /\ (pc' \in setUp => pc \in setUp) /\ (pc' \in early => pc \in early)
    BY <1>2, MovesKeep
  <2> QED  BY <1>1, <2>1
<1>3. CASE Loading
  <2>1. UNCHANGED <<icache, recent, cfg>> /\ pc \in setUp /\ pc' \notin early
    BY <1>3, LoadingKeeps
  <2> QED  BY <1>1, <2>1
<1>4. CASE Instruction
  <2>1. UNCHANGED <<icache, recent, cfg>> /\ pc \in setUp /\ pc' \notin early
    BY <1>4, InstructionKeeps
  <2> QED  BY <1>1, <2>1
<1>5. CASE OpenFile \/ parseArgs \/ Parsed
  <2>1. UNCHANGED <<icache, recent>> /\ pc \in early /\ pc' \notin setUp
    BY <1>5 DEF OpenFile, parseArgs, Parsed
  <2> QED  BY <1>1, <2>1
<1>6. CASE iss_int_callback
  <2>1. UNCHANGED <<icache, recent, cfg>> /\ pc \in setUp /\ pc' \notin early
    BY <1>6 DEF iss_int_callback
  <2> QED  BY <1>1, <2>1
<1>7. CASE pre_run_setup
  <2> DEFINE line == Number("l", 8)
             ways == Number("w", 2)
             sets == Number("s", 256)
             made == NewCache(line, ways, sets, Number("j", 0), ILimit)
  <2>1. pc = "setup" /\ UNCHANGED <<cfg, recent>>  BY <1>7 DEF pre_run_setup
  <2>2. \/ icache' = NoCache /\ ((pc' = "open" /\ "I" \notin cfg.flags) \/ pc' = "exited")
        \/ icache' = made /\ pc' = "open" /\ CacheOK(line, ways, sets)
    BY <1>7 DEF pre_run_setup
  <2> HIDE DEF line, ways, sets
  <2>3. CASE icache' = NoCache /\ ((pc' = "open" /\ "I" \notin cfg.flags) \/ pc' = "exited")
    <3>1. icache'.m = {} /\ icache'.next = {} /\ CacheRecord'  BY <2>3 DEF NoCache, CacheRecord
    <3> QED  BY <2>1, <2>3, <3>1, NewCacheEmpty
  <2>4. CASE icache' = made /\ pc' = "open" /\ CacheOK(line, ways, sets)
    <3>1. /\ icache'.m = {} /\ icache'.next = {} /\ CacheRecord'
          /\ icache'.line = line /\ icache'.ways = ways /\ icache'.sets = sets
      BY <2>4 DEF NewCache, CacheRecord
    <3> QED  BY <2>1, <2>4, <3>1, NewCacheEmpty
  <2> QED  BY <2>2, <2>3, <2>4
<1>8. ASSUME NEW a \in Program.fetches, Fetch(a) PROVE CacheInv'
  <2>1. pc = "fetch" /\ pc' = "exec" /\ UNCHANGED cfg
    BY <1>8 DEF Fetch
  <2>2. CASE "I" \in cfg.flags /\ Cached(a)
    <3>1. rv32_cache_access(a) /\ recent' = Refilled(a)  BY <1>8, <2>2 DEF Fetch
    <3>2. CacheOK(icache.line, icache.ways, icache.sets)  BY <2>1, <2>2 DEF CacheInv, CacheUsable
    <3>3. a \in Nat  BY ProgramSound
    <3> QED  BY <2>1, <3>1, <3>2, <3>3, CacheAccessed
  <2>3. CASE ~("I" \in cfg.flags /\ Cached(a))
    <3>1. UNCHANGED <<icache, recent>>  BY <1>8, <2>3 DEF Fetch
    <3> QED  BY <1>1, <2>1, <3>1
  <2> QED  BY <2>2, <2>3
<1> QED  BY Steps, <1>2, <1>3, <1>4, <1>5, <1>6, <1>7, <1>8

\* When a busy transmitter is free again.
FreedInTime == ~uart.ready => (uart'.ready <=> pc = "int" /\ sent >= UART_TICKS_PER_BIT)

LEMMA Ticked ==
  ASSUME UartInv, iss_int_callback
  PROVE  UartInv' /\ FreedInTime
<1> DEFINE begun == IF ~uart.ready /\ uart.start = NONE THEN [uart EXCEPT !.start = 0] ELSE uart
           done == IF begun.start = NONE \/ begun.start >= UART_TICKS_PER_BIT
                   THEN Transmitted(begun) ELSE begun
           cause == IF done.ready /\ done.thri THEN "EMP" ELSE "NONE"
<1>1. /\ uart' = [done EXCEPT !.iir = cause] /\ sent' = IF uart'.ready THEN NONE ELSE sent
      /\ pc = "int"
  BY DEF iss_int_callback, uart_tick
<1>2. uart \in UartRecords /\ sent \in Ticks /\ UART_TICKS_PER_BIT \in Nat \ {0}
  BY SizesAssumption DEF UartInv, UartRecords
<1>3. /\ begun \in UartRecords /\ begun.ready = uart.ready
      /\ uart.ready => begun.start = NONE
      /\ ~uart.ready => begun.start = sent /\ sent \in Nat
  <2>1. CASE ~uart.ready /\ uart.start = NONE
    <3>1. begun = [uart EXCEPT !.start = 0]  BY <2>1
    <3>2. 0 \in Ticks  BY <1>2 DEF Ticks, NONE
    <3> HIDE DEF begun
    <3>3. begun \in UartRecords /\ begun.ready = uart.ready /\ begun.start = 0
      BY <1>2, <3>1, <3>2, Zenon DEF UartRecords
    <3> QED  BY <2>1, <3>3 DEF UartInv, NONE
  <2>2. CASE ~(~uart.ready /\ uart.start = NONE)
    <3>1. begun = uart  BY <2>2
    <3> HIDE DEF begun
    <3>2. uart.start \in Ticks /\ uart.ready \in BOOLEAN  BY <1>2 DEF UartRecords
    <3> QED  BY <1>2, <2>2, <3>1, <3>2 DEF UartInv, Ticks, NONE
  <2> QED  BY <2>1, <2>2
<1> HIDE DEF begun
<1>4. /\ done \in UartRecords
      /\ done.ready => done.start = NONE
      /\ ~done.ready => ~uart.ready /\ done.start = sent /\ sent \in Nat
      /\ ~uart.ready => (done.ready <=> sent >= UART_TICKS_PER_BIT)
  <2>1. CASE begun.start = NONE \/ begun.start >= UART_TICKS_PER_BIT
    <3>1. done = [begun EXCEPT !.ready = TRUE, !.start = NONE]  BY <2>1 DEF Transmitted
    <3>2. NONE \in Ticks  BY <1>2 DEF Ticks, NONE
    <3> HIDE DEF done
    <3>3. done \in UartRecords /\ done.ready = TRUE /\ done.start = NONE
      BY <1>3, <3>1, <3>2, Zenon DEF UartRecords
    <3>4. ~uart.ready => sent >= UART_TICKS_PER_BIT
      BY <1>3, <2>1 DEF NONE
    <3> QED  BY <3>3, <3>4
  <2>2. CASE ~(begun.start = NONE \/ begun.start >= UART_TICKS_PER_BIT)
    <3>1. done = begun  BY <2>2
    <3> HIDE DEF done
    <3>2. ~uart.ready  BY <1>3, <2>2
    <3>3. done.ready = FALSE  BY <1>2, <1>3, <3>1, <3>2 DEF UartRecords
    <3>4. ~(sent >= UART_TICKS_PER_BIT)  BY <1>3, <2>2, <3>2
    <3> QED  BY <1>3, <3>1, <3>2, <3>3, <3>4
  <2> QED  BY <2>1, <2>2
<1> HIDE DEF done
<1>5. uart' \in UartRecords /\ uart'.ready = done.ready /\ uart'.start = done.start
  <2>1. cause \in {"NONE", "EMP"}  OBVIOUS
  <2> HIDE DEF cause
  <2> QED  BY <1>1, <1>4, <2>1, Zenon DEF UartRecords
<1>6. sent' \in Ticks /\ (~done.ready => sent' = sent)
  <2>1. NONE \in Ticks  BY <1>2 DEF Ticks, NONE
  <2> QED  BY <1>1, <1>2, <1>5, <2>1
<1>7. FreedInTime  BY <1>1, <1>4, <1>5 DEF FreedInTime
<1>8. ~done.ready => uart'.start # NONE /\ uart'.start = sent'
  BY <1>4, <1>5, <1>6 DEF NONE
<1> QED  BY <1>4, <1>5, <1>6, <1>7, <1>8 DEF UartInv, UartRecords

LEMMA UartStep ==
  ASSUME Inv, Next
  PROVE  UartInv' /\ FreedInTime
<1> USE DEF Inv
<1>1. ASSUME UNCHANGED <<uart, sent>>, pc # "int"
      PROVE  UartInv' /\ FreedInTime
  BY <1>1 DEF UartInv, FreedInTime
<1>2. CASE Moves \/ Loading \/ OpenFile \/ parseArgs \/ Parsed \/ pre_run_setup
  <2>1. UNCHANGED <<uart, sent>>
    BY <1>2, MovesKeep, LoadingKeeps DEF OpenFile, parseArgs, Parsed, pre_run_setup
  <2>2. pc # "int"
    BY <1>2, LoadingKeeps DEF Moves, Boot, FileMissing, NoFile, StartGdb, Halt, post_run_actions,
       SleepForever, OpenFile, parseArgs, Parsed, pre_run_setup
  <2> QED  BY <1>1, <2>1, <2>2
<1>3. CASE iss_int_callback
  BY <1>3, Ticked
<1>4. ASSUME NEW n \in Nat, uart' \in UartRecords, uart'.start = Later(uart.start, n),
             uart'.ready = uart.ready, sent' = Later(sent, n), pc # "int"
      PROVE  UartInv' /\ FreedInTime
  <2>1. uart \in UartRecords /\ uart.start \in Ticks /\ sent \in Ticks
    BY DEF UartInv, UartRecords
  <2>2. sent' \in Ticks  BY <1>4, <2>1, LaterTicks
  <2>3. uart.ready => uart'.start = NONE  BY <1>4, <2>1, LaterTicks DEF UartInv
  <2>4. ~uart.ready => uart.start # NONE /\ uart.start = sent  BY <1>4 DEF UartInv
  <2>5. ~uart.ready => uart'.start # NONE /\ uart'.start = sent'
    BY <1>4, <2>1, <2>4, LaterTicks DEF NONE
  <2>6. FreedInTime  BY <1>4 DEF FreedInTime
  <2> QED  BY <1>4, <2>2, <2>3, <2>5, <2>6 DEF UartInv, UartRecords
<1>5. ASSUME NEW a \in Program.fetches, Fetch(a)
      PROVE  UartInv' /\ FreedInTime
  <2> DEFINE miss == "I" \in cfg.flags /\ (~Cached(a) \/ ~Hit(a))
             wait == 1 + (IF miss THEN (penalty_slow_mem * icache.line) \div 4 ELSE 0)
  <2>1. /\ pc = "fetch" /\ uart' = [uart EXCEPT !.start = Later(@, wait)]
        /\ sent' = Later(sent, wait)
    BY <1>5 DEF Fetch
  <2>2. wait \in Nat
    <3>1. miss \in BOOLEAN /\ (miss => "I" \in cfg.flags)  OBVIOUS
    <3> HIDE DEF miss
    <3> QED  BY <2>1, <3>1, WaitBounded
  <2> HIDE DEF wait
  <2>3. uart' \in UartRecords /\ uart'.start = Later(uart.start, wait) /\ uart'.ready = uart.ready
    BY <2>1, <2>2, JustTime
  <2> QED  BY <1>4, <2>1, <2>2, <2>3
<1>6. CASE Instruction
  <2>1. PICK n \in Nat : TakesTime(n)  BY <1>6, InstructionTakesTime
  <2>4. pc = "exec" /\ pc' = "int"  BY <1>6, InstructionKeeps
  <2>2. CASE uart'.ready = uart.ready /\ sent' = Later(sent, n)
    BY <1>4, <2>1, <2>2, <2>4 DEF TakesTime
  <2>3. CASE uart.ready /\ ~uart'.ready /\ sent' = 0
    <3>1. uart' \in UartRecords /\ uart'.start = Later(uart.start, n)  BY <2>1 DEF TakesTime
    <3>2. uart.start = NONE /\ uart.start \in Ticks  BY <2>3 DEF UartInv
    <3>3. uart'.start = NONE  BY <3>1, <3>2, LaterTicks
    <3>4. 0 \in Ticks  BY SizesAssumption DEF Ticks, NONE
    <3> QED  BY <2>3, <2>4, <3>1, <3>3, <3>4 DEF UartInv, UartRecords, FreedInTime
  <2> QED  BY <2>1, <2>2, <2>3 DEF TakesTime
<1> QED  BY Steps, <1>2, <1>3, <1>5, <1>6
-----------------------------------------------------------------------------
(* The theorems.                                                           *)

LEMMA Starts ==
  ASSUME Init
  PROVE  Inv
<1>1. ConfInv
  <2>1. PICK c \in Commands : opt = [file |-> c.file, meant |-> c.meant, p |-> Parse(<<>>)]
    BY DEF Init
  <2>2. c.file \in Files /\ c.file # <<>>
    BY CommandsAssumption DEF Files, FileLines, Words
  <2>3. ParseInv(Parse(<<>>))  BY StartsParse, Len(<<>>) \in Nat
  <2>4. opt.file = c.file /\ opt.meant = c.meant /\ opt.p = Parse(<<>>)  BY <2>1
  <2>5. cfg = [flags |-> {}, values |-> <<>>] /\ pc = "boot"  BY DEF Init
  <2>6. SetRight({}, <<>>)
    <3>1. DOMAIN <<>> = {}  OBVIOUS
    <3> QED  BY <3>1 DEF SetRight
  <2> QED  BY <2>1, <2>2, <2>3, <2>4, <2>5, <2>6 DEF ConfInv, PCs
<1>2. TimeInv
  <2> DEFINE t == update_timing("DEFAULT")
  <2>1. /\ t = [linear |-> t.linear, extra |-> t.extra]
        /\ t.linear \in 1 .. 4 /\ t.extra \in [2 .. 7 -> 0 .. 33]
    BY TimingOfCores DEF Cores
  <2>2. timing = t /\ skew = 0 /\ pc = "boot"  BY DEF Init
  <2> HIDE DEF t
  <2>3. penalty_slow_mem \in Nat  BY NumberNat DEF penalty_slow_mem
  <2>4. MaxOf({timing.extra[i] : i \in 2 .. 7}) \in 0 .. 33  BY <2>1, <2>2, MaxOfSix
  <2>5. MaxWait \in Nat /\ MaxInstr \in Nat  BY <2>1, <2>2, <2>3, <2>4 DEF MaxWait, MaxInstr
  <2> QED  BY <2>1, <2>2, <2>5, SizesAssumption DEF TimeInv
<1>3. MemInv
  <2>1. [i \in 0 .. 3 |-> 0] \in [0 .. 3 -> Nat] /\ [b \in DataBytes |-> 0] \in [DataBytes -> Nat]
        /\ [b \in DataBytes |-> Unknown] \in [DataBytes -> Int]
    BY DEF Unknown
  <2>2. load = [idx |-> 0, buf |-> [i \in 0 .. 3 |-> 0]]  BY DEF Init
  <2> QED  BY <2>1, <2>2 DEF Init, MemInv
<1>4. CacheInv
  <2>1. icache = NoCache /\ recent = <<>> /\ pc = "boot"  BY DEF Init
  <2>2. \A s : Lines(s) = <<>>  BY <2>1 DEF Lines
  <2>3. SetsInOrder  BY <2>1, <2>2 DEF SetsInOrder, SetInv, Empty, Held, NoCache
  <2>4. CacheRecord /\ CacheUsable /\ CacheTyped
    BY <2>1 DEF CacheRecord, CacheUsable, CacheTyped, NoCache
  <2> QED  BY <2>3, <2>4 DEF CacheInv
<1>5. UartInv
  <2>1. uart = NewUart /\ sent = NONE  BY DEF Init
  <2> QED  BY <2>1, SizesAssumption DEF UartInv, NewUart, Ticks, NONE
<1> QED  BY <1>1, <1>2, <1>3, <1>4, <1>5 DEF Inv

LEMMA InvKept ==
  ASSUME Inv, [Next]_vars
  PROVE  Inv'
<1>1. CASE Next
  BY <1>1, ConfStep, TimeStep, MemStep, CacheStep, UartStep DEF Inv
<1>2. CASE UNCHANGED vars
  <2>1. ConfInv' = ConfInv  BY <1>2 DEF vars, ConfInv
  <2>2. TimeInv'
    <3>1. UNCHANGED <<cfg, timing, skew, pc>>  BY <1>2 DEF vars
    <3> QED  BY <3>1, SameBounds DEF Inv, TimeInv
  <2>3. MemInv' = MemInv  BY <1>2 DEF vars, MemInv
  <2>5. SetsInOrder'  BY <1>2, OrderKept DEF vars, Inv, CacheInv
  <2>6. CacheRecord' /\ CacheUsable' /\ CacheTyped'
    <3>1. UNCHANGED <<pc, cfg, icache, recent>>  BY <1>2 DEF vars
    <3>2. CacheRecord' = CacheRecord  BY <3>1 DEF CacheRecord
    <3>3. CacheTyped' = CacheTyped  BY <3>1 DEF CacheTyped
    <3>4. CacheUsable' = CacheUsable  BY <3>1 DEF CacheUsable
    <3> QED  BY <3>2, <3>3, <3>4 DEF Inv, CacheInv
  <2>7. UartInv' = UartInv  BY <1>2 DEF vars, UartInv
  <2> QED  BY <2>1, <2>2, <2>3, <2>5, <2>6, <2>7 DEF Inv, CacheInv
<1> QED  BY <1>1, <1>2

\* The invariant holds throughout, for all command lines, programs and sizes.
THEOREM Inductive == Spec => []Inv
<1>1. Init => Inv  BY Starts
<1>2. Inv /\ [Next]_vars => Inv'  BY InvKept
<1> QED  BY <1>1, <1>2, PTL DEF Spec

\* Each variable has its type, and the program is never further ahead of the
\* simulation than max_sync_diff and one instruction.
THEOREM TypeCorrect == Spec => []TypeOK
<1>1. ASSUME Inv PROVE TypeOK
  <2> USE <1>1 DEF Inv
  <2>1. opt.p.optind \in 0 .. Len(opt.p.argv) + 2
    BY DEF ConfInv, ParseInv, ScanRight
  <2>2. cfg.flags \subseteq Flags /\ DOMAIN cfg.values \subseteq Valued /\ pc \in PCs
    BY DEF ConfInv, SetRight
  <2>3. skew \in 0 .. max_sync_diff + MaxWait + MaxInstr /\ timing.linear \in 1 .. 4
    BY Maxima, SizesAssumption DEF TimeInv
  <2>4. /\ load.idx \in Nat /\ ram \in [DataBytes -> Nat] /\ bus \in [DataBytes -> Nat]
        /\ swirq \in {0, 1} /\ extirq \in {0, 1} /\ clk \in {0, 1}
    BY DEF MemInv
  <2>5. /\ icache.m \subseteq [way : {0, 1}, set : 0 .. 1023, addr : Nat]
        /\ icache.next \subseteq 0 .. 1023
    BY DEF CacheInv, CacheTyped
  <2>6. /\ uart.ready \in BOOLEAN /\ uart.thri \in BOOLEAN /\ uart.iir \in {"NONE", "EMP"}
        /\ uart.start \in Ticks /\ sent \in Ticks
    BY DEF UartInv
  <2> QED  BY <2>1, <2>2, <2>3, <2>4, <2>5, <2>6, ZenonT(60) DEF TypeOK, PCs, Ticks
<1>2. Inv => TypeOK  BY <1>1
<1> QED  BY Inductive, <1>2, PTL

\* The cache holds the lines that were missed last, as many as there are ways,
\* each once: for any line size, number of sets, cached region and program.
THEOREM CacheGivesUpOldest == Spec => []CacheIsFifo
<1>1. ASSUME Inv PROVE CacheIsFifo
  <2>1. SetsInOrder /\ CacheTyped  BY <1>1 DEF Inv, CacheInv
  <2>2. ASSUME NEW s \in {e.set : e \in icache.m} \cup DOMAIN recent
        PROVE  LET held == {e \in icache.m : e.set = s}
               IN  /\ {e.addr : e \in held} = Members(Lines(s))
                   /\ Cardinality(held) = Len(Lines(s))
    <3>1. s \in 0 .. 1023
      <4>1. \A e \in icache.m : e.set \in 0 .. 1023  BY <2>1 DEF CacheTyped
      <4> QED  BY <2>1, <4>1 DEF CacheTyped
    <3>2. SetInv(icache.m, icache.next, icache.ways, Lines(s), s)
      <4>1. s \in SetNumbers  BY <3>1 DEF SetNumbers
      <4> QED  BY <2>1, <4>1, Zenon DEF SetsInOrder
    <3>3. /\ {e.addr : e \in Held(icache.m, s)} = Members(Lines(s))
          /\ Cardinality(Held(icache.m, s)) = Len(Lines(s))
      BY <3>2, SetIsFifo
    <3> QED  BY <3>3, Zenon DEF Held
  <2> QED  BY <2>2, Zenon DEF CacheIsFifo
<1>2. Inv => CacheIsFifo  BY <1>1
<1> QED  BY Inductive, <1>2, PTL

\* The transmitter is busy from the write of a character until the first tick
\* at which the time of one bit has gone by since, neither longer nor shorter,
\* whatever is written and read meanwhile.
THEOREM TransmitterIsBusyForABit == Spec => TransmitterBusyForABit
<1>1. Inv /\ [Next]_vars =>
        [~uart.ready => (uart'.ready <=> pc = "int" /\ sent >= UART_TICKS_PER_BIT)]_vars
  BY UartStep DEF FreedInTime
<1> QED  BY Inductive, <1>1, PTL DEF Spec, TransmitterBusyForABit
-----------------------------------------------------------------------------
(* What a load finds.  The bytes that are known are in the memory that     *)
(* their address goes to, as long as the options put whole words on the    *)
(* bus and the program file is loaded where accesses do not go to the bus. *)
WordsWhole == \A b \in DataBytes : access_sim(b) <=> access_sim(Base(b))

ProgramBytes ==
  LET from == IF "B" \in cfg.flags THEN bin_load_addr ELSE Program.at
  IN  from .. from + Len(Program.image) - 1

LoadedOffBus == \A b \in ProgramBytes : ~access_sim(b)

\* What is left over of a binary image is no more than the load address keeps.
TailKept == "B" \in cfg.flags => Len(Program.image) % 4 <= bin_load_addr % 4

MemoryRight == WordsWhole /\ LoadedOffBus /\ TailKept

KnownHeld ==
  \A b \in DataBytes :
    want[b] # Unknown => want[b] = IF access_sim(b) THEN bus[b] ELSE ram[b]

ReadInv ==
  /\ pc \in {"boot", "file", "parse", "setup"} => \A b \in DataBytes : want[b] = Unknown
  /\ KnownHeld
  /\ pc = "load" => "B" \in cfg.flags
  /\ pc # "int" => rd = NoRead
  /\ ReadsWhatWasWritten

LEMMA SameRegion ==
  ASSUME UNCHANGED cfg
  PROVE  \A b : access_sim(b)' <=> access_sim(b)
  BY DEF access_sim, Number, Has

LEMMA NothingRead ==
  ASSUME rd = NoRead
  PROVE  ReadsWhatWasWritten
<1>1. DOMAIN rd.data = {}
  <2>1. rd.data = <<>>  BY DEF NoRead
  <2> QED  BY <2>1
<1> QED  BY <1>1 DEF ReadsWhatWasWritten

\* All the bytes of an aligned access go where its first one goes.
LEMMA OneRegion ==
  ASSUME WordsWhole, NEW op, Aligned(op), NEW b \in op[1] .. op[1] + Size[op[2]] - 1
  PROVE  b \in DataBytes /\ (access_sim(b) <=> access_sim(op[1]))
<1>1. /\ op[1] \in Nat /\ Size[op[2]] \in {1, 2, 4}
      /\ op[1] .. op[1] + Size[op[2]] - 1 \subseteq DataBytes
      /\ Base(b) = Base(op[1])
  BY AlignedLane
<1>2. b \in DataBytes /\ op[1] \in DataBytes  BY <1>1
<1> QED  BY <1>1, <1>2 DEF WordsWhole

LEMMA LoadFinds ==
  ASSUME WordsWhole, KnownHeld, MemInv, NEW op \in Program.loads, Load(op[1], op[2])
  PROVE  ReadsWhatWasWritten' /\ KnownHeld'
<1> DEFINE a == op[1]
           n == Size[op[2]]
<1>1. Aligned(op)  BY ProgramSound
<1>2. a \in Nat /\ n \in {1, 2, 4} /\ Base(a) + Lane(a, op[2]) = a  BY <1>1, AlignedLane
<1>3. /\ rd' = [addr |-> a, data |-> ReadBytes(a, op[2])]
      /\ UNCHANGED <<cfg, want, ram, bus>>
  BY DEF Load
<1>4. ReadBytes(a, op[2]) = IF access_sim(a) THEN Take(bus, a, n) ELSE Take(ram, a, n)
  BY <1>2 DEF ReadBytes, Size
<1>5. rd'.addr = a /\ rd'.data = IF access_sim(a) THEN Take(bus, a, n) ELSE Take(ram, a, n)
  BY <1>3, <1>4
<1>6. \A i \in 0 .. n - 1 : a + i \in DataBytes /\ (access_sim(a + i) <=> access_sim(a))
  <2>1. \A i \in 0 .. n - 1 : a + i \in a .. a + n - 1  BY <1>2
  <2> QED  BY <1>1, <2>1, OneRegion
<1> HIDE DEF a, n
<1>7. DOMAIN rd'.data = 0 .. n - 1
      /\ \A i \in 0 .. n - 1 : rd'.data[i] = IF access_sim(a) THEN bus[a + i] ELSE ram[a + i]
  BY <1>5 DEF Take
<1>8. ASSUME NEW i \in DOMAIN rd'.data, want'[rd'.addr + i] # Unknown
      PROVE  rd'.data[i] = want'[rd'.addr + i]
  <2>1. i \in 0 .. n - 1 /\ want[a + i] # Unknown /\ want'[rd'.addr + i] = want[a + i]
    BY <1>3, <1>5, <1>7, <1>8
  <2>2. want[a + i] = IF access_sim(a) THEN bus[a + i] ELSE ram[a + i]
    BY <1>6, <2>1 DEF KnownHeld
  <2> QED  BY <1>7, <2>1, <2>2
<1>9. ReadsWhatWasWritten'  BY <1>8 DEF ReadsWhatWasWritten
<1>10. KnownHeld'  BY <1>3, SameRegion DEF KnownHeld
<1> QED  BY <1>9, <1>10

LEMMA StoreHolds ==
  ASSUME WordsWhole, KnownHeld, MemInv, NEW op \in Program.stores, NEW data \in Program.data,
         Store(op[1], op[2], data)
  PROVE  KnownHeld'
<1> DEFINE a == op[1]
           n == Size[op[2]]
           in(b) == a <= b /\ b < a + n
<1>1. Aligned(op)  BY ProgramSound
<1>2. a \in Nat /\ n \in {1, 2, 4} /\ Base(a) + Lane(a, op[2]) = a  BY <1>1, AlignedLane
<1>3. /\ access_sim(a) => bus' = Put(bus, a, n, data) /\ ram' = ram
      /\ ~access_sim(a) => ram' = Put(ram, a, n, data) /\ bus' = bus
      /\ want' = [b \in DOMAIN want |-> IF a <= b /\ b < a + n THEN data[b - a] ELSE want[b]]
      /\ UNCHANGED cfg
  BY <1>2 DEF Store, Write
<1>4. \A b \in DataBytes : in(b) => (access_sim(b) <=> access_sim(a))
  <2>1. \A b \in DataBytes : in(b) => b \in a .. a + n - 1  BY <1>2, SizesAssumption
  <2> QED  BY <1>1, <2>1, OneRegion
<1> HIDE DEF a, n
<1>5. DOMAIN want = DataBytes /\ DOMAIN ram = DataBytes /\ DOMAIN bus = DataBytes  BY DEF MemInv
<1>6. \A b \in DataBytes : want'[b] = IF in(b) THEN data[b - a] ELSE want[b]  BY <1>3, <1>5
<1>7. \A b \in DataBytes : bus'[b] = IF access_sim(a) /\ in(b) THEN data[b - a] ELSE bus[b]
  BY <1>3, <1>5 DEF Put
<1>8. \A b \in DataBytes : ram'[b] = IF ~access_sim(a) /\ in(b) THEN data[b - a] ELSE ram[b]
  BY <1>3, <1>5 DEF Put
<1> HIDE DEF in
<1>9. ASSUME NEW b \in DataBytes, want'[b] # Unknown
      PROVE  want'[b] = IF access_sim(b) THEN bus'[b] ELSE ram'[b]
  BY <1>4, <1>6, <1>7, <1>8, <1>9 DEF KnownHeld
<1>10. \A b : access_sim(b)' <=> access_sim(b)  BY <1>3, SameRegion
<1> QED  BY <1>9, <1>10 DEF KnownHeld

\* Bytes put into memory that is not on the bus, and as many known or fewer.
LEMMA SetHolds ==
  ASSUME KnownHeld, MemInv, UNCHANGED <<cfg, bus>>, NEW from, NEW data, NEW meant,
         ram' = Set(ram, from, data), want' = Set(want, from, meant),
         DOMAIN meant = DOMAIN data,
         \A i \in DOMAIN data : meant[i] = data[i] \/ meant[i] = Unknown,
         \A b \in DataBytes : b - from \in DOMAIN data /\ meant[b - from] # Unknown => ~access_sim(b)
  PROVE  KnownHeld'
<1>1. DOMAIN want = DataBytes /\ DOMAIN ram = DataBytes  BY DEF MemInv
<1>2. \A b \in DataBytes : want'[b] = IF b - from \in DOMAIN data THEN meant[b - from] ELSE want[b]
  BY <1>1 DEF Set
<1>3. \A b \in DataBytes : ram'[b] = IF b - from \in DOMAIN data THEN data[b - from] ELSE ram[b]
  BY <1>1 DEF Set
<1>4. ASSUME NEW b \in DataBytes, want'[b] # Unknown
      PROVE  want'[b] = IF access_sim(b) THEN bus'[b] ELSE ram'[b]
  BY <1>2, <1>3, <1>4 DEF KnownHeld
<1>5. \A b : access_sim(b)' <=> access_sim(b)  BY SameRegion
<1> QED  BY <1>4, <1>5 DEF KnownHeld

LEMMA LoadingHolds ==
  ASSUME LoadedOffBus, TailKept, KnownHeld, MemInv, Loading, pc = "load" => "B" \in cfg.flags
  PROVE  KnownHeld'
<1>1. UNCHANGED <<cfg, bus>>  BY LoadingKeeps
<1>2. Program.image \in Seq(Nat) /\ Program.at \in Nat  BY ProgramSound
<1>3. bin_load_addr \in Nat  BY NumberNat DEF bin_load_addr
<1>4. ASSUME UNCHANGED <<ram, want>> PROVE KnownHeld'
  BY <1>1, <1>4, SameRegion DEF KnownHeld
<1>5. CASE read_elf
  <2> DEFINE image == [i \in 0 .. Len(Program.image) - 1 |-> Program.image[i + 1]]
             from == Program.at
             len == Len(Program.image)
  <2>1. /\ ram' = Set(ram, from, image) /\ want' = Set(want, from, image)
        /\ "B" \notin cfg.flags
    BY <1>5 DEF read_elf
  <2>2. DOMAIN image = 0 .. len - 1  OBVIOUS
  <2>3. \A b \in from .. from + len - 1 : ~access_sim(b)
    BY <2>1 DEF LoadedOffBus, ProgramBytes
  <2>4. len \in Nat /\ from \in Nat  BY <1>2
  <2> HIDE DEF image, from, len
  <2>5. \A b \in DataBytes : b - from \in DOMAIN image => ~access_sim(b)
    <3>1. \A b \in DataBytes : b - from \in 0 .. len - 1 => b \in from .. from + len - 1
      BY <2>4, SizesAssumption
    <3> QED  BY <2>2, <2>3, <3>1
  <2> QED  BY <1>1, <2>1, <2>5, SetHolds
<1>6. CASE read_binary
  BY <1>4, <1>6 DEF read_binary
<1>7. CASE ReadByte
  <2> DEFINE buf == [load.buf EXCEPT ![load.idx % 4] = Program.image[load.idx + 1]]
             from == WordAt(load.idx)
             idx == load.idx
             len == Len(Program.image)
             start == bin_load_addr
  <2>1. CASE idx % 4 # 3
    BY <1>4, <1>7, <2>1 DEF ReadByte
  <2>2. CASE idx % 4 = 3
    <3>1. ram' = Set(ram, from, buf) /\ want' = Set(want, from, buf) /\ pc = "load" /\ idx < len
      BY <1>7, <2>2 DEF ReadByte, WordAt
    <3>2. DOMAIN buf = 0 .. 3  BY DEF MemInv
    <3>3. \A b \in start .. start + len - 1 : ~access_sim(b)
      BY <3>1 DEF LoadedOffBus, ProgramBytes
    <3>4. from = start + (idx - 3)
      <4>1. Base(idx) = idx - 3  BY <2>2 DEF MemInv, Base
      <4> QED  BY <4>1 DEF WordAt
    <3>5. idx \in Nat /\ idx >= 3 /\ len \in Nat
      <4>1. idx \in Nat  BY DEF MemInv
      <4>2. len \in Nat  BY <1>2
      <4> HIDE DEF idx, len
      <4> QED  BY <2>2, <4>1, <4>2
    <3> HIDE DEF buf, from, idx, len, start
    <3>6. \A b \in DataBytes : b - from \in 0 .. 3 => ~access_sim(b)
      <4>1. start \in Nat  BY <1>3 DEF start
      <4>2. \A b \in DataBytes : b - from \in 0 .. 3 => b \in start .. start + len - 1
        BY <3>1, <3>4, <3>5, <4>1, SizesAssumption
      <4> QED  BY <3>3, <4>2
    <3> QED  BY <1>1, <3>1, <3>2, <3>6, SetHolds
  <2> QED  BY <2>1, <2>2
<1>8. CASE FlushPartialWord
  <2> DEFINE kept == [i \in 0 .. 3 |-> IF i < bin_load_addr % 4 THEN load.buf[i] ELSE 0]
             tail == [i \in 0 .. 3 |-> IF i < load.idx % 4 THEN load.buf[i] ELSE Unknown]
             from == WordAt(load.idx)
             idx == load.idx
             start == bin_load_addr
  <2>1. CASE UNCHANGED <<ram, want>>  BY <1>4, <2>1
  <2>2. CASE ram' = Set(ram, from, kept) /\ want' = Set(want, from, tail)
    <3>1. pc = "load" /\ idx = Len(Program.image)  BY <1>8 DEF FlushPartialWord
    <3>2. idx \in Nat /\ start \in Nat  BY <1>3 DEF MemInv
    <3>3. idx % 4 <= start % 4 /\ \A b \in start .. start + idx - 1 : ~access_sim(b)
      BY <3>1 DEF TailKept, LoadedOffBus, ProgramBytes
    <3>4. from = start + (idx - (idx % 4))  BY DEF WordAt, Base
    <3>5. DOMAIN tail = 0 .. 3 /\ DOMAIN kept = 0 .. 3  OBVIOUS
    <3>6. \A i \in 0 .. 3 : tail[i] # Unknown => i < idx % 4  OBVIOUS
    <3>7. \A i \in 0 .. 3 : i < idx % 4 => tail[i] = load.buf[i]  OBVIOUS
    <3>8. \A i \in 0 .. 3 : i < start % 4 => kept[i] = load.buf[i]  OBVIOUS
    <3> HIDE DEF kept, tail, from, idx, start
    <3>9. \A i \in 0 .. 3 : tail[i] = kept[i] \/ tail[i] = Unknown
      <4>1. idx % 4 \in 0 .. 3 /\ start % 4 \in 0 .. 3  BY <3>2
      <4>2. \A i \in 0 .. 3 : i < idx % 4 => i < start % 4  BY <3>3, <4>1
      <4> QED  BY <3>6, <3>7, <3>8, <4>2
    <3>10. ASSUME NEW b \in DataBytes, b - from \in 0 .. 3, tail[b - from] # Unknown
           PROVE  ~access_sim(b)
      <4>1. b - from < idx % 4  BY <3>6, <3>10
      <4>2. b \in Nat  BY SizesAssumption
      <4>3. idx % 4 \in 0 .. 3 /\ idx % 4 <= idx  BY <3>2
      <4>4. b \in start .. start + idx - 1  BY <3>2, <3>4, <3>10, <4>1, <4>2, <4>3
      <4> QED  BY <3>3, <4>4
    <3> QED  BY <1>1, <2>2, <3>5, <3>9, <3>10, SetHolds
  <2> QED  BY <1>8, <2>1, <2>2 DEF FlushPartialWord
<1> QED  BY <1>5, <1>6, <1>7, <1>8 DEF Loading

LEMMA ReadStep ==
  ASSUME Inv, MemoryRight, ReadInv, Next
  PROVE  ReadInv'
<1> DEFINE early == {"boot", "file", "parse", "setup"}
<1> USE DEF Inv, MemoryRight
<1>1. ASSUME UNCHANGED <<cfg, want, ram, bus>> PROVE KnownHeld'
  BY <1>1, SameRegion DEF ReadInv, KnownHeld
<1>2. ASSUME rd' = NoRead PROVE ReadsWhatWasWritten'
  BY <1>2, NothingRead DEF ReadsWhatWasWritten, NoRead
<1>3. CASE Moves
  <2>1. /\ UNCHANGED <<cfg, want, ram, bus, rd>> /\ rd = NoRead
        /\ pc' # "load" /\ (pc' \in early => pc \in early)
    BY <1>3, MovesKeep DEF ReadInv, Moves, Boot, FileMissing, NoFile, StartGdb, Halt,
       post_run_actions, SleepForever
  <2>2. want' = want  BY <2>1
  <2> QED  BY <1>1, <1>2, <2>1, <2>2 DEF ReadInv
<1>4. CASE Loading
  <2>1. pc # "int" /\ pc' \notin early /\ UNCHANGED <<cfg, rd>>  BY <1>4, LoadingKeeps
  <2>2. pc' = "load" => "B" \in cfg.flags
    BY <1>4 DEF Loading, read_elf, read_binary, ReadByte, FlushPartialWord, run_or_not, ReadInv
  <2>3. KnownHeld'  BY <1>4, LoadingHolds DEF ReadInv
  <2>4. rd' = NoRead  BY <2>1 DEF ReadInv
  <2> QED  BY <1>2, <2>1, <2>2, <2>3, <2>4 DEF ReadInv
<1>5. CASE OpenFile \/ parseArgs \/ Parsed \/ pre_run_setup
  <2>1. /\ UNCHANGED <<want, ram, bus, rd>> /\ pc \in early /\ pc' \notin {"load", "int"}
    BY <1>5 DEF OpenFile, parseArgs, Parsed, pre_run_setup
  <2>2. \A b \in DataBytes : want'[b] = Unknown  BY <2>1 DEF ReadInv
  <2>3. KnownHeld'  BY <2>2 DEF KnownHeld
  <2>4. rd' = NoRead  BY <2>1 DEF ReadInv
  <2> QED  BY <1>2, <2>1, <2>2, <2>3, <2>4 DEF ReadInv
<1>6. CASE iss_int_callback
  <2>1. UNCHANGED <<cfg, want, ram, bus>> /\ rd' = NoRead /\ pc' = "fetch"
    BY <1>6 DEF iss_int_callback
  <2> QED  BY <1>1, <1>2, <2>1 DEF ReadInv
<1>7. ASSUME NEW a \in Program.fetches, Fetch(a) PROVE ReadInv'
  <2>1. UNCHANGED <<cfg, want, ram, bus, rd>> /\ pc = "fetch" /\ pc' = "exec"  BY <1>7 DEF Fetch
  <2>2. rd' = NoRead  BY <2>1 DEF ReadInv
  <2> QED  BY <1>1, <1>2, <2>1, <2>2 DEF ReadInv
<1>8. ASSUME Instruction, KnownHeld', ReadsWhatWasWritten' PROVE ReadInv'
  <2>1. pc' = "int"  BY <1>8, InstructionKeeps
  <2> QED  BY <1>8, <2>1 DEF ReadInv
<1>9. ASSUME Instruction, UNCHANGED <<cfg, want, ram, bus, rd>> PROVE ReadInv'
  <2>1. rd' = NoRead  BY <1>9, InstructionKeeps DEF ReadInv
  <2> QED  BY <1>1, <1>2, <1>8, <1>9, <2>1
<1>10. ASSUME NEW class \in {1, 2}, Execute(class), Instruction PROVE ReadInv'
  <2>1. UNCHANGED <<cfg, want, ram, bus, rd>>  BY <1>10 DEF Execute
  <2> QED  BY <1>9, <1>10, <2>1
<1>11. ASSUME NEW op \in Program.loads, Load(op[1], op[2]), Instruction PROVE ReadInv'
  BY <1>8, <1>11, LoadFinds DEF ReadInv
<1>12. ASSUME NEW op \in Program.stores, NEW data \in Program.data, Store(op[1], op[2], data),
              Instruction
       PROVE  ReadInv'
  <2>1. KnownHeld'  BY <1>12, StoreHolds DEF ReadInv
  <2>2. rd' = rd /\ pc = "exec"  BY <1>12 DEF Store
  <2>3. rd' = NoRead  BY <2>2 DEF ReadInv
  <2> QED  BY <1>2, <1>8, <1>12, <2>1, <2>3
<1>13. ASSUME NEW reg \in Program.regs, NEW data \in {0, 1}, NEW write \in BOOLEAN,
              UartAccess(reg, data, write), Instruction
       PROVE  ReadInv'
  <2>1. UNCHANGED <<cfg, want, ram, bus, rd>>  BY <1>13 DEF UartAccess
  <2> QED  BY <1>9, <1>13, <2>1
<1>14. ASSUME NEW data \in Program.swirq, NEW write \in BOOLEAN, SwIrqAccess(data, write),
              Instruction
       PROVE  ReadInv'
  <2>1. UNCHANGED <<cfg, want, ram, bus, rd>>  BY <1>14 DEF SwIrqAccess
  <2> QED  BY <1>9, <1>14, <2>1
<1>15. CASE Instruction
  BY <1>10, <1>11, <1>12, <1>13, <1>14, <1>15 DEF Instruction
<1> QED  BY Steps, <1>3, <1>4, <1>5, <1>6, <1>7, <1>15

LEMMA ReadStarts ==
  ASSUME Init
  PROVE  ReadInv
<1>1. pc = "boot" /\ rd = NoRead /\ want = [b \in DataBytes |-> Unknown]  BY DEF Init
<1>2. \A b \in DataBytes : want[b] = Unknown  BY <1>1
<1>3. KnownHeld  BY <1>2 DEF KnownHeld
<1> QED  BY <1>1, <1>2, <1>3, NothingRead DEF ReadInv

\* A load finds in every byte what was last put there, by the program file, to
\* its last byte, or by a store of any size, directly or over the bus, in every
\* run whose options put whole words on the bus and not those that the program
\* file is loaded to, and whose file, when it is a binary image, is whole words
\* or is loaded where its last bytes are kept.
THEOREM LoadsFindStores ==
  Spec /\ []MemoryRight => []ReadsWhatWasWritten
<1>1. Init => ReadInv  BY ReadStarts
<1>2. Inv /\ MemoryRight /\ ReadInv /\ [Next]_vars => ReadInv'
  <2>1. ASSUME ReadInv, UNCHANGED vars PROVE ReadInv'
    <3>1. UNCHANGED <<cfg, want, ram, bus, rd, pc>>  BY <2>1 DEF vars
    <3>2. KnownHeld'  BY <2>1, <3>1, SameRegion DEF ReadInv, KnownHeld
    <3>3. ReadsWhatWasWritten' = ReadsWhatWasWritten  BY <3>1 DEF ReadsWhatWasWritten
    <3>4. want' = want  BY <3>1
    <3> QED  BY <2>1, <3>1, <3>2, <3>3, <3>4 DEF ReadInv
  <2> QED  BY <2>1, ReadStep
<1>3. ReadInv => ReadsWhatWasWritten  BY DEF ReadInv
<1> QED  BY Inductive, <1>1, <1>2, <1>3, PTL DEF Spec
-----------------------------------------------------------------------------
(* How a list of settings is written: the words of its first n settings,   *)
(* and what follows them on the line.                                      *)

\* What a word is put together from.
Signs == Flags \cup Valued \cup STRING

Lettering(meant, attached, n) ==
  <<meant[n].c>> \o (IF n \in attached THEN <<meant[n].v>> ELSE <<>>)
ValueWord(meant, attached, n) ==
  IF HasValue(meant[n]) /\ n \notin attached THEN <<Word(FALSE, <<meant[n].v>>)>> ELSE <<>>

\* The words with one more setting: in the last word, or in one of its own.
Joined(w, l, u) ==
  SubSeq(w, 1, Len(w) - 1) \o <<[w[Len(w)] EXCEPT !.chars = @ \o l]>> \o u
Apart(w, l, u) == w \o <<Word(TRUE, l)>> \o u

Grown(meant, joined, attached, n, w) ==
  IF n \in joined THEN Joined(w, Lettering(meant, attached, n), ValueWord(meant, attached, n))
  ELSE Apart(w, Lettering(meant, attached, n), ValueWord(meant, attached, n))

Unfolds(ws, meant, joined, attached, m) ==
  ws = [n \in 0 .. m |-> IF n = 0 THEN <<>> ELSE Grown(meant, joined, attached, n, ws[n - 1])]

LEMMA UnfoldsTo ==
  ASSUME NEW meant, NEW joined, NEW attached, NEW m \in Nat
  PROVE  \E ws : Unfolds(ws, meant, joined, attached, m)
<1> DEFINE G(n, w) == Grown(meant, joined, attached, n, w)
           P(k) == \E f : f = [n \in 0 .. k |-> IF n = 0 THEN <<>> ELSE G(n, f[n - 1])]
           T == {k \in Nat : ~P(k)}
<1>1. SUFFICES P(m)
  BY DEF Unfolds
<1> HIDE DEF G
<1>2. P(0)
  <2> DEFINE f == [n \in 0 .. 0 |-> <<>>]
  <2>1. f = [n \in 0 .. 0 |-> IF n = 0 THEN <<>> ELSE G(n, f[n - 1])]
    OBVIOUS
  <2> QED
    BY <2>1
<1>3. ASSUME NEW k \in Nat, P(k)
      PROVE  P(k + 1)
  <2>1. PICK f : f = [n \in 0 .. k |-> IF n = 0 THEN <<>> ELSE G(n, f[n - 1])]
    BY <1>3
  <2> DEFINE g == [n \in 0 .. k + 1 |-> IF n = 0 THEN <<>> ELSE G(n, f[n - 1])]
  <2>2. \A n \in 0 .. k : f[n] = IF n = 0 THEN <<>> ELSE G(n, f[n - 1])
    BY <2>1
  <2>3. \A n \in 0 .. k : g[n] = f[n]
    BY <2>2
  <2>4. ASSUME NEW n \in 0 .. k + 1
        PROVE  (IF n = 0 THEN <<>> ELSE G(n, f[n - 1])) = (IF n = 0 THEN <<>> ELSE G(n, g[n - 1]))
    <3>1. n # 0 => n - 1 \in 0 .. k
      OBVIOUS
    <3> QED
      BY <2>3, <3>1
  <2>5. g = [n \in 0 .. k + 1 |-> IF n = 0 THEN <<>> ELSE G(n, g[n - 1])]
    BY <2>4
  <2> HIDE DEF g
  <2> QED
    BY <2>5
<1> HIDE DEF P
<1>4. CASE T = {}
  BY <1>4
<1>5. CASE T # {}
  <2>1. PICK k \in T : \A j \in T : k <= j
    BY <1>5, Minimum
  <2>2. k \in Nat /\ ~P(k) /\ k # 0
    BY <1>2, <2>1
  <2>3. k - 1 \in Nat /\ k - 1 \notin T
    BY <2>1, <2>2
  <2>4. P(k - 1)
    BY <2>3
  <2>5. P((k - 1) + 1)
    BY <1>3, <2>3, <2>4
  <2> QED
    BY <2>2, <2>5
<1> QED
  BY <1>4, <1>5

LEMMA SpellingUnfolds ==
  ASSUME NEW meant, Len(meant) \in Nat, NEW joined, NEW attached
  PROVE  \E ws : /\ Unfolds(ws, meant, joined, attached, Len(meant))
                 /\ Spelling(meant, joined, attached) = ws[Len(meant)]
<1> DEFINE ws == CHOOSE x : Unfolds(x, meant, joined, attached, Len(meant))
<1>1. Unfolds(ws, meant, joined, attached, Len(meant))
  BY UnfoldsTo
<1>2. Spelling(meant, joined, attached) = ws[Len(meant)]
  BY DEF Spelling, Unfolds, Grown, Joined, Apart, Lettering, ValueWord
<1> HIDE DEF ws
<1> QED
  BY <1>1, <1>2

\* Sequences: a beginning, one element more, and at most one element more.
LEMMA Beginning ==
  ASSUME NEW S, NEW w \in Seq(S), NEW n \in 0 .. Len(w)
  PROVE  /\ SubSeq(w, 1, n) \in Seq(S) /\ Len(SubSeq(w, 1, n)) = n
         /\ \A k \in 1 .. n : SubSeq(w, 1, n)[k] = w[k]
OBVIOUS

LEMMA OneMore ==
  ASSUME NEW S, NEW w \in Seq(S), NEW e \in S
  PROVE  /\ w \o <<e>> \in Seq(S) /\ Len(w \o <<e>>) = Len(w) + 1
         /\ (w \o <<e>>)[Len(w) + 1] = e
         /\ \A k \in 1 .. Len(w) : (w \o <<e>>)[k] = w[k]
OBVIOUS

LEMMA AtMostOneMore ==
  ASSUME NEW S, NEW w \in Seq(S), NEW u \in Seq(S), Len(u) \in {0, 1}
  PROVE  /\ w \o u \in Seq(S) /\ Len(w \o u) = Len(w) + Len(u)
         /\ Len(u) = 1 => (w \o u)[Len(w) + 1] = u[1]
         /\ \A k \in 1 .. Len(w) : (w \o u)[k] = w[k]
OBVIOUS

LEMMA Alone ==
  ASSUME NEW S, NEW a \in S
  PROVE  /\ <<a>> \in Seq(S) /\ Len(<<a>>) = 1 /\ <<a>> # <<>> /\ <<a>>[1] = a
         /\ <<a>> \o <<>> = <<a>>
OBVIOUS

LEMMA PairOf ==
  ASSUME NEW S, NEW a \in S, NEW b \in S
  PROVE  <<a>> \o <<b>> = <<a, b>>
<1> DEFINE x == <<a>> \o <<b>>
           y == <<a, b>>
<1>1. <<a>> \in Seq(S) /\ <<b>> \in Seq(S)
  OBVIOUS
<1>2. x \in Seq(S) /\ Len(x) = 2 /\ x[1] = a /\ x[2] = b
  BY <1>1
<1>3. y \in Seq(S) /\ Len(y) = 2 /\ y[1] = a /\ y[2] = b
  OBVIOUS
<1> HIDE DEF x, y
<1>4. \A i \in 1 .. Len(x) : x[i] = y[i]
  BY <1>2, <1>3
<1> QED
  BY <1>2, <1>3, <1>4, SeqEqual DEF x, y

\* Words as they are spelled: nothing is taken off them as the end of a line.
FullWords ==
  {w \in [dash : BOOLEAN, chars : Seq(Signs)] :
     w.chars # <<>> /\ w.chars[Len(w.chars)] \notin LineEnds}

Spells(meant, joined, attached) ==
  /\ meant \in Seq(Settings)
  /\ joined \subseteq Joinable(meant) /\ attached \subseteq Attachable(meant)

LEMMA LetterNames ==
  ASSUME NEW c \in Flags \cup Valued
  PROVE  c \notin LineEnds /\ c # "-" /\ c # EOF /\ c # BADCH
<1>1. CASE c \in Flags
  BY <1>1, SMT DEF Flags, LineEnds, EOF, BADCH
<1>2. CASE c \in Valued
  BY <1>2, SMT DEF Valued, LineEnds, EOF, BADCH
<1> QED
  BY <1>1, <1>2

\* What a setting adds: its letter, perhaps with its value, and perhaps a word.
Written(s, l, u) ==
  /\ l \in Seq(Signs) /\ Len(l) \in {1, 2} /\ l[1] = s.c
  /\ u \in Seq(FullWords) /\ Len(u) \in {0, 1}
  /\ Len(l) = 2 => HasValue(s) /\ l[2] = s.v
  /\ Len(u) = 1 <=> HasValue(s) /\ Len(l) = 1
  /\ Len(u) = 1 => u[1] = Word(FALSE, <<s.v>>)

LEMMA LetteringOf ==
  ASSUME NEW meant, NEW joined, NEW attached, Spells(meant, joined, attached),
         NEW n \in 1 .. Len(meant)
  PROVE  Written(meant[n], Lettering(meant, attached, n), ValueWord(meant, attached, n))
<1> DEFINE s == meant[n]
           l == Lettering(meant, attached, n)
           u == ValueWord(meant, attached, n)
           e == Word(FALSE, <<s.v>>)
<1>1. s \in Settings
  BY DEF Spells
<1>2. s.c \in Signs /\ s.v \in Signs /\ s.v \notin LineEnds
  BY <1>1 DEF Settings, Signs
<1>3. n \in attached => HasValue(s)
  BY DEF Spells, Attachable
<1>4. l = <<s.c>> \o (IF n \in attached THEN <<s.v>> ELSE <<>>)
  BY DEF Lettering
<1>5. u = IF HasValue(s) /\ n \notin attached THEN <<e>> ELSE <<>>
  BY DEF ValueWord
<1> HIDE DEF s, l, u
<1>6. <<s.v>> \in Seq(Signs) /\ <<s.v>> # <<>> /\ Len(<<s.v>>) = 1 /\ <<s.v>>[1] = s.v
  BY <1>2, Alone
<1>7. e \in FullWords
  BY <1>2, <1>6 DEF FullWords, Word
<1>8. /\ l \in Seq(Signs) /\ l[1] = s.c
      /\ Len(l) = IF n \in attached THEN 2 ELSE 1
      /\ n \in attached => l[2] = s.v
  <2>1. <<s.c>> \in Seq(Signs) /\ Len(<<s.c>>) = 1 /\ <<s.c>>[1] = s.c /\ <<s.c>> \o <<>> = <<s.c>>
    BY <1>2, Alone
  <2>2. CASE n \in attached
    <3> DEFINE a == <<s.c>>
    <3>1. l = a \o <<s.v>>
      BY <1>4, <2>2
    <3>2. a \in Seq(Signs) /\ Len(a) = 1 /\ a[1] = s.c
      BY <2>1
    <3> HIDE DEF a
    <3>3. /\ a \o <<s.v>> \in Seq(Signs) /\ Len(a \o <<s.v>>) = Len(a) + 1
          /\ (a \o <<s.v>>)[Len(a) + 1] = s.v
          /\ \A k \in 1 .. Len(a) : (a \o <<s.v>>)[k] = a[k]
      BY <1>2, <3>2, OneMore DEF a
    <3>4. /\ l \in Seq(Signs) /\ Len(l) = Len(a) + 1
          /\ l[Len(a) + 1] = s.v
          /\ \A k \in 1 .. Len(a) : l[k] = a[k]
      BY <3>1, <3>3, Zenon
    <3> QED
      BY <2>2, <3>2, <3>4
  <2>3. CASE n \notin attached
    <3>1. l = <<s.c>>
      BY <1>4, <2>1, <2>3
    <3> QED
      BY <2>1, <2>3, <3>1
  <2> QED
    BY <2>2, <2>3
<1>9. /\ u \in Seq(FullWords)
      /\ IF HasValue(s) /\ n \notin attached THEN Len(u) = 1 /\ u[1] = e ELSE Len(u) = 0
  <2> HIDE DEF e
  <2>1. <<e>> \in Seq(FullWords) /\ Len(<<e>>) = 1 /\ <<e>>[1] = e
    BY <1>7, Alone
  <2>2. <<>> \in Seq(FullWords) /\ Len(<<>>) = 0
    OBVIOUS
  <2> QED
    BY <1>5, <2>1, <2>2
<1>10. Written(s, l, u)
  <2>1. e = Word(FALSE, <<s.v>>)
    OBVIOUS
  <2> HIDE DEF e
  <2> QED
    <3>1. Len(l) \in {1, 2} /\ Len(u) \in {0, 1} /\ (Len(l) = 2 <=> n \in attached)
      BY <1>8, <1>9
    <3>2. Len(u) = 1 <=> HasValue(s) /\ n \notin attached
      BY <1>9
    <3>3. Len(u) = 1 => u[1] = e
      BY <1>9
    <3>4. Len(l) = 1 <=> n \notin attached
      BY <1>8
    <3>5. Len(u) = 1 <=> HasValue(s) /\ Len(l) = 1
      BY <3>2, <3>4
    <3>6. Len(l) = 2 => HasValue(s) /\ l[2] = s.v
      BY <1>3, <1>8, <3>1
    <3>7. l \in Seq(Signs) /\ l[1] = s.c /\ u \in Seq(FullWords)
      BY <1>8, <1>9
    <3> QED
      BY <2>1, <3>1, <3>3, <3>5, <3>6, <3>7 DEF Written
<1> QED
  BY <1>10 DEF s, l, u

LEMMA JoinedChars ==
  ASSUME NEW a \in Seq(Signs), NEW b \in Seq(Signs), Len(b) # 0
  PROVE  /\ a \o b \in Seq(Signs) /\ Len(a \o b) = Len(a) + Len(b) /\ a \o b # <<>>
         /\ \A k \in 1 .. Len(a) : (a \o b)[k] = a[k]
         /\ \A k \in 1 .. Len(b) : (a \o b)[Len(a) + k] = b[k]
         /\ (a \o b)[Len(a \o b)] = b[Len(b)]
<1>1. /\ a \o b \in Seq(Signs) /\ Len(a \o b) = Len(a) + Len(b)
      /\ \A k \in 1 .. Len(a) : (a \o b)[k] = a[k]
      /\ \A k \in 1 .. Len(b) : (a \o b)[Len(a) + k] = b[k]
  OBVIOUS
<1>2. Len(a) \in Nat /\ Len(b) \in Nat /\ Len(b) \in 1 .. Len(b)
  OBVIOUS
<1> QED
  BY <1>1, <1>2, EmptySeq

LEMMA WrittenFull ==
  ASSUME NEW s \in Settings, NEW l, NEW u, Written(s, l, u)
  PROVE  l[Len(l)] \notin LineEnds /\ l # <<>>
<1>1. s.c \notin LineEnds /\ s.v \notin LineEnds
  BY LetterNames DEF Settings
<1>2. l[Len(l)] = s.c \/ l[Len(l)] = s.v
  BY DEF Written
<1>3. l # <<>>
  BY EmptySeq DEF Written
<1> QED
  BY <1>1, <1>2, <1>3

LEMMA JoinedWords ==
  ASSUME NEW s \in Settings, NEW l, NEW u, Written(s, l, u),
         NEW w \in Seq(FullWords), Len(w) # 0
  PROVE  LET v == Joined(w, l, u)
             m == Len(w)
         IN  /\ v \in Seq(FullWords) /\ Len(v) = m + Len(u)
             /\ \A k \in 1 .. m - 1 : v[k] = w[k]
             /\ v[m].dash = w[m].dash /\ v[m].chars = w[m].chars \o l
             /\ Len(u) = 1 => v[m + 1] = u[1]
<1> DEFINE v == Joined(w, l, u)
           m == Len(w)
           x == w[m]
           y == [x EXCEPT !.chars = @ \o l]
           a == SubSeq(w, 1, m - 1)
<1>1. v = a \o <<y>> \o u
  BY DEF Joined
<1>2. m \in 1 .. m /\ m - 1 \in 0 .. m /\ m \in Nat
  OBVIOUS
<1>3. x \in [dash : BOOLEAN, chars : Seq(Signs)] /\ x.chars \in Seq(Signs)
  <2>1. x \in FullWords
    BY <1>2
  <2> QED
    BY <2>1 DEF FullWords
<1>4. l \in Seq(Signs) /\ Len(l) # 0 /\ l[Len(l)] \notin LineEnds /\ u \in Seq(FullWords)
      /\ Len(u) \in {0, 1}
  <2>1. l[Len(l)] \notin LineEnds
    BY WrittenFull, Zenon
  <2> QED
    BY <2>1 DEF Written
<1>5. x.chars \o l \in Seq(Signs) /\ x.chars \o l # <<>>
      /\ (x.chars \o l)[Len(x.chars \o l)] \notin LineEnds
  BY <1>3, <1>4, JoinedChars
<1> HIDE DEF x
<1>6. y.dash = x.dash /\ y.chars = x.chars \o l /\ y \in FullWords
  BY <1>3, <1>5 DEF FullWords
<1>7. a \in Seq(FullWords) /\ Len(a) = m - 1 /\ \A k \in 1 .. m - 1 : a[k] = w[k]
  BY <1>2, Beginning
<1> DEFINE b == a \o <<y>>
<1> HIDE DEF v, y, a, m
<1>8. /\ b \in Seq(FullWords) /\ Len(b) = m /\ b[m] = y
      /\ \A k \in 1 .. m - 1 : b[k] = w[k]
  <2>1. /\ a \o <<y>> \in Seq(FullWords) /\ Len(a \o <<y>>) = Len(a) + 1
        /\ (a \o <<y>>)[Len(a) + 1] = y
        /\ \A k \in 1 .. Len(a) : (a \o <<y>>)[k] = a[k]
    BY <1>6, <1>7, OneMore
  <2> QED
    BY <1>2, <1>7, <2>1
<1>9. v = b \o u
  BY <1>1
<1> HIDE DEF b
<1>10. /\ v \in Seq(FullWords) /\ Len(v) = m + Len(u) /\ v[m] = y
       /\ \A k \in 1 .. m - 1 : v[k] = w[k]
       /\ Len(u) = 1 => v[m + 1] = u[1]
  <2>1. /\ b \o u \in Seq(FullWords) /\ Len(b \o u) = Len(b) + Len(u)
        /\ Len(u) = 1 => (b \o u)[Len(b) + 1] = u[1]
        /\ \A k \in 1 .. Len(b) : (b \o u)[k] = b[k]
    BY <1>4, <1>8, AtMostOneMore DEF b
  <2> QED
    BY <1>2, <1>8, <1>9, <2>1
<1> QED
  BY <1>6, <1>10, Zenon DEF v, m, x

LEMMA ApartWords ==
  ASSUME NEW s \in Settings, NEW l, NEW u, Written(s, l, u), NEW w \in Seq(FullWords)
  PROVE  LET v == Apart(w, l, u)
             m == Len(w) + 1
         IN  /\ v \in Seq(FullWords) /\ Len(v) = m + Len(u)
             /\ \A k \in 1 .. m - 1 : v[k] = w[k]
             /\ v[m].dash /\ v[m].chars = l
             /\ Len(u) = 1 => v[m + 1] = u[1]
<1> DEFINE v == Apart(w, l, u)
           m == Len(w) + 1
           y == Word(TRUE, l)
           b == w \o <<y>>
<1>1. v = b \o u
  BY DEF Apart
<1>2. l \in Seq(Signs) /\ l # <<>> /\ l[Len(l)] \notin LineEnds /\ u \in Seq(FullWords)
      /\ Len(u) \in {0, 1}
  <2>1. l[Len(l)] \notin LineEnds /\ l # <<>>
    BY WrittenFull
  <2> QED
    BY <2>1 DEF Written
<1>3. y.dash /\ y.chars = l
  BY DEF Word
<1>4. y \in FullWords
  BY <1>2 DEF Word, FullWords
<1> HIDE DEF v, y
<1>5. /\ b \in Seq(FullWords) /\ Len(b) = m /\ b[m] = y
      /\ \A k \in 1 .. Len(w) : b[k] = w[k]
  BY <1>4, OneMore
<1> HIDE DEF b
<1>6. /\ b \o u \in Seq(FullWords) /\ Len(b \o u) = Len(b) + Len(u)
      /\ Len(u) = 1 => (b \o u)[Len(b) + 1] = u[1]
      /\ \A k \in 1 .. Len(b) : (b \o u)[k] = b[k]
  BY <1>2, <1>5, AtMostOneMore
<1>7. /\ v \in Seq(FullWords) /\ Len(v) = m + Len(u) /\ v[m] = y
      /\ \A k \in 1 .. m - 1 : v[k] = w[k]
      /\ Len(u) = 1 => v[m + 1] = u[1]
  BY <1>1, <1>5, <1>6
<1> QED
  BY <1>3, <1>7, Zenon DEF v
-----------------------------------------------------------------------------
(* How words are read: the word and the place in it before each setting.   *)
(* Places stay where they are when more is written, but for the last one.  *)

InWord(a, s, o, i, o2, i2) ==
  /\ i < Len(a) /\ a[i + 1] = s.c
  /\ ~HasValue(s) => IF i + 1 < Len(a) THEN o2 = o /\ i2 = i + 1 ELSE o2 = o + 1 /\ i2 = 0
  /\ HasValue(s) =>
       /\ i2 = 0
       /\ IF i + 1 < Len(a) THEN Len(a) = i + 2 /\ a[i + 2] = s.v /\ o2 = o + 1 ELSE o2 = o + 2

ValueNext(w, s, o) == o < Len(w) /\ w[o + 1] = Word(FALSE, <<s.v>>)

Reads(w, s, o, i, o2, i2) ==
  /\ o \in 1 .. Len(w)
  /\ i = 0 => w[o].dash
  /\ InWord(w[o].chars, s, o, i, o2, i2)
  /\ HasValue(s) /\ o2 = o + 2 => ValueNext(w, s, o)

Scans(w, meant, at, in, n) ==
  /\ at \in [0 .. n -> Nat] /\ in \in [0 .. n -> Nat]
  /\ at[0] = 1 /\ in[0] = 0 /\ at[n] = Len(w) + 1 /\ in[n] = 0
  /\ \A k \in 1 .. n : Reads(w, meant[k], at[k - 1], in[k - 1], at[k], in[k])

LEMMA CharsOf ==
  ASSUME NEW w \in Seq(FullWords), NEW o \in 1 .. Len(w)
  PROVE  w[o].chars \in Seq(Signs) /\ Len(w[o].chars) \in Nat \ {0}
<1>1. w[o] \in FullWords
  OBVIOUS
<1>2. w[o].chars \in Seq(Signs) /\ w[o].chars # <<>>
  BY <1>1 DEF FullWords
<1> QED
  BY <1>2, EmptySeq

LEMMA InWordLonger ==
  ASSUME NEW a \in Seq(Signs), NEW b \in Seq(Signs), Len(a) < Len(b),
         \A k \in 1 .. Len(a) : b[k] = a[k],
         NEW s, NEW o \in Nat, NEW i \in Nat, NEW o2 \in Nat, NEW i2 \in Nat,
         InWord(a, s, o, i, o2, i2)
  PROVE  /\ o2 = o => InWord(b, s, o, i, o2, i2) /\ ~HasValue(s)
         /\ o2 # o /\ ~HasValue(s) => o2 = o + 1 /\ InWord(b, s, o, i, o, Len(a))
<1>1. Len(a) \in Nat /\ Len(b) \in Nat /\ i + 1 \in 1 .. Len(a)
  BY DEF InWord
<1>2. b[i + 1] = a[i + 1]
  BY <1>1
<1>3. CASE HasValue(s)
  BY <1>3 DEF InWord
<1>4. CASE ~HasValue(s) /\ i + 1 < Len(a)
  BY <1>1, <1>2, <1>4 DEF InWord
<1>5. CASE ~HasValue(s) /\ i + 1 >= Len(a)
  BY <1>1, <1>2, <1>5 DEF InWord
<1> QED
  BY <1>1, <1>3, <1>4, <1>5

LEMMA ReadsOn ==
  ASSUME NEW w \in Seq(FullWords), NEW v \in Seq(FullWords), NEW m \in Nat,
         m <= Len(w), m <= Len(v), \A k \in 1 .. m : v[k] = w[k],
         NEW s, NEW o \in Nat, NEW i \in Nat, NEW o2 \in Nat, NEW i2 \in Nat,
         Reads(w, s, o, i, o2, i2), o2 <= m + 1, o <= m
  PROVE  Reads(v, s, o, i, o2, i2)
<1>1. o \in 1 .. m /\ v[o] = w[o] /\ o \in 1 .. Len(v)
  BY DEF Reads
<1>2. (i = 0 => v[o].dash) /\ InWord(v[o].chars, s, o, i, o2, i2)
  BY <1>1 DEF Reads
<1>3. ASSUME HasValue(s), o2 = o + 2
      PROVE  ValueNext(v, s, o)
  <2>1. w[o + 1] = Word(FALSE, <<s.v>>)
    BY <1>3 DEF Reads, ValueNext
  <2>2. o + 1 \in 1 .. m /\ o < Len(v)
    BY <1>1, <1>3
  <2>3. v[o + 1] = w[o + 1]
    BY <2>2
  <2> QED
    BY <2>1, <2>2, <2>3 DEF ValueNext
<1> QED
  BY <1>1, <1>2, <1>3 DEF Reads

LEMMA ReadsBefore ==
  ASSUME NEW w \in Seq(FullWords), NEW v \in Seq(FullWords), NEW l \in Seq(Signs),
         Len(w) # 0, Len(l) # 0, Len(w) <= Len(v), \A k \in 1 .. Len(w) - 1 : v[k] = w[k],
         v[Len(w)].dash = w[Len(w)].dash, v[Len(w)].chars = w[Len(w)].chars \o l,
         NEW s, NEW o \in Nat, NEW i \in Nat, NEW o2 \in Nat, NEW i2 \in Nat,
         Reads(w, s, o, i, o2, i2)
  PROVE  /\ o2 <= Len(w) => Reads(v, s, o, i, o2, i2)
         /\ o2 = Len(w) + 1 /\ ~HasValue(s) =>
              Reads(v, s, o, i, Len(w), Len(w[Len(w)].chars))
<1> DEFINE m == Len(w)
           a == w[m].chars
           b == v[m].chars
<1>1. m \in Nat \ {0} /\ m \in 1 .. m /\ m \in 1 .. Len(v) /\ o \in 1 .. m
  BY DEF Reads
<1>2. a \in Seq(Signs) /\ Len(a) \in Nat \ {0}
  BY <1>1, CharsOf
<1>3. b = a \o l
  OBVIOUS
<1>4. b \in Seq(Signs) /\ Len(b) = Len(a) + Len(l) /\ \A k \in 1 .. Len(a) : b[k] = a[k]
  BY <1>2, <1>3, JoinedChars
<1>5. Len(b) \in Nat /\ Len(a) < Len(b)
  BY <1>2, <1>4
<1>6. InWord(w[o].chars, s, o, i, o2, i2) /\ (i = 0 => w[o].dash)
  BY DEF Reads
<1>7. o2 \in {o, o + 1, o + 2}
  BY <1>6 DEF InWord
<1>8. CASE o = m
  <2>1. InWord(a, s, o, i, o2, i2) /\ (i = 0 => v[o].dash)
    BY <1>6, <1>8
  <2> HIDE DEF a, b
  <2>2. /\ o2 = o => InWord(b, s, o, i, o2, i2) /\ ~HasValue(s)
        /\ o2 # o /\ ~HasValue(s) => o2 = o + 1 /\ InWord(b, s, o, i, o, Len(a))
    BY <1>2, <1>4, <1>5, <2>1, InWordLonger
  <2>3. o \in 1 .. Len(v) /\ (o2 <= m => o2 = o) /\ (o2 = m + 1 => o2 # o)
    BY <1>1, <1>7, <1>8
  <2>4. b = v[o].chars /\ a = w[m].chars
    BY <1>8 DEF a, b
  <2>5. o2 <= m => Reads(v, s, o, i, o2, i2)
    BY <2>1, <2>2, <2>3, <2>4 DEF Reads
  <2>6. o2 = m + 1 /\ ~HasValue(s) => Reads(v, s, o, i, o, Len(a))
    BY <2>1, <2>2, <2>3, <2>4 DEF Reads
  <2> QED
    BY <1>8, <2>4, <2>5, <2>6
<1>9. CASE o # m
  <2>1. o <= m - 1 /\ m - 1 \in Nat /\ m - 1 <= Len(w) /\ m - 1 <= Len(v)
    BY <1>1, <1>9
  <2>2. o2 <= m => Reads(v, s, o, i, o2, i2)
    <3>1. o2 <= m => o2 <= (m - 1) + 1
      BY <1>1
    <3>2. \A k \in 1 .. m - 1 : v[k] = w[k]
      OBVIOUS
    <3> QED
      BY <2>1, <3>1, <3>2, ReadsOn
  <2>3. ~HasValue(s) => o2 <= m
    <3>1. ~HasValue(s) => o2 <= o + 1
      BY <1>6 DEF InWord
    <3> QED
      BY <1>1, <2>1, <3>1
  <2> QED
    BY <1>1, <2>2, <2>3
<1> QED
  BY <1>8, <1>9

LEMMA ReadsNew ==
  ASSUME NEW v \in Seq(FullWords), NEW s \in Settings, NEW l, NEW u, Written(s, l, u),
         NEW m \in Nat \ {0}, NEW i \in Nat, NEW a \in Seq(Signs),
         Len(v) = m + Len(u), Len(a) = i,
         v[m].chars = a \o l, i = 0 => v[m].dash,
         Len(u) = 1 => v[m + 1] = u[1]
  PROVE  Reads(v, s, m, i, Len(v) + 1, 0)
<1> DEFINE b == v[m].chars
<1>1. Len(l) \in {1, 2} /\ Len(u) \in {0, 1} /\ l \in Seq(Signs) /\ l[1] = s.c
  BY DEF Written
<1>2. Len(l) = 2 => HasValue(s) /\ l[2] = s.v
  BY DEF Written
<1>3. Len(u) = 1 <=> HasValue(s) /\ Len(l) = 1
  BY DEF Written
<1>4. Len(u) = 1 => u[1] = Word(FALSE, <<s.v>>)
  BY DEF Written
<1>5. Len(b) = Len(a) + Len(l) /\ \A k \in 1 .. Len(l) : b[Len(a) + k] = l[k]
  <2>1. Len(l) # 0
    BY <1>1
  <2> QED
    BY <1>1, <2>1, JoinedChars, SMTT(60)
<1> HIDE DEF b
<1>6. Len(b) = i + Len(l) /\ b[i + 1] = l[1] /\ (Len(l) = 2 => b[i + 2] = l[2])
  BY <1>1, <1>5
<1>7. m \in 1 .. Len(v) /\ i < Len(b) /\ (i + 1 < Len(b) <=> Len(l) = 2)
  <2>1. m \in 1 .. Len(v)
    <3>1. Len(v) \in {m, m + 1}
      <4>1. Len(u) = 0 \/ Len(u) = 1
        BY <1>1
      <4>2. Len(u) = 0 => Len(v) = m
        OBVIOUS
      <4>3. Len(u) = 1 => Len(v) = m + 1
        OBVIOUS
      <4> QED
        BY <4>1, <4>2, <4>3
    <3> QED
      BY <3>1
  <2>2. i < Len(b) /\ (i + 1 < Len(b) <=> Len(l) = 2)
    <3>1. CASE Len(l) = 1
      BY <1>6, <3>1
    <3>2. CASE Len(l) = 2
      BY <1>6, <3>2
    <3> QED
      BY <1>1, <3>1, <3>2
  <2> QED
    BY <2>1, <2>2
<1>8. InWord(b, s, m, i, Len(v) + 1, 0)
  <2>1. CASE Len(l) = 2
    <3>1. HasValue(s) /\ Len(u) = 0 /\ Len(v) + 1 = m + 1 /\ Len(b) = i + 2
      BY <1>1, <1>2, <1>3, <1>6, <2>1
    <3> QED
      BY <1>1, <1>2, <1>6, <1>7, <2>1, <3>1 DEF InWord
  <2>2. CASE Len(l) = 1 /\ HasValue(s)
    <3>1. Len(u) = 1
      BY <1>3, <2>2, Zenon
    <3>2. Len(v) + 1 = m + 2
      BY <3>1
    <3> QED
      BY <1>1, <1>6, <1>7, <2>2, <3>2 DEF InWord
  <2>3. CASE Len(l) = 1 /\ ~HasValue(s)
    <3>1. Len(v) + 1 = m + 1
      BY <1>1, <1>3, <2>3
    <3> QED
      BY <1>1, <1>6, <1>7, <2>3, <3>1 DEF InWord
  <2> QED
    BY <1>1, <2>1, <2>2, <2>3
<1>9. ASSUME Len(v) + 1 = m + 2
      PROVE  ValueNext(v, s, m)
  <2>1. Len(u) = 1
    BY <1>1, <1>9
  <2>2. m < Len(v)
    BY <2>1
  <2> QED
    BY <1>4, <2>1, <2>2 DEF ValueNext
<1> QED
  BY <1>7, <1>8, <1>9 DEF Reads, b
Told(w, meant, n) ==
  /\ w \in Seq(FullWords)
  /\ n > 0 => Len(w) # 0
  /\ \E at, in : Scans(w, meant, at, in, n)

LEMMA ToldGrown ==
  ASSUME NEW meant, NEW joined, NEW attached, Spells(meant, joined, attached),
         NEW n \in 1 .. Len(meant), NEW w, Told(w, meant, n - 1)
  PROVE  Told(Grown(meant, joined, attached, n, w), meant, n)
<1> DEFINE v == Grown(meant, joined, attached, n, w)
           l == Lettering(meant, attached, n)
           u == ValueWord(meant, attached, n)
           s == meant[n]
           m == IF n \in joined THEN Len(w) ELSE Len(w) + 1
           i == IF n \in joined THEN Len(w[Len(w)].chars) ELSE 0
<1>1. PICK at, in : Scans(w, meant, at, in, n - 1)
  BY DEF Told
<1>2. n \in Nat \ {0} /\ n - 1 \in Nat /\ meant \in Seq(Settings)
  BY DEF Spells
<1>3. w \in Seq(FullWords) /\ Len(w) \in Nat
  BY DEF Told
<1>4. s \in Settings /\ Written(s, l, u)
  <2>1. Written(s, l, u)
    BY LetteringOf, Zenon
  <2> QED
    BY <2>1 DEF Spells
<1>5. n \in joined => n - 1 \in 1 .. n - 1 /\ ~HasValue(meant[n - 1])
  BY <1>2 DEF Spells, Joinable
<1>6. n \in joined => Len(w) # 0
  BY <1>2, <1>5 DEF Told
<1>7. l \in Seq(Signs) /\ u \in Seq(FullWords) /\ Len(l) # 0 /\ Len(u) \in {0, 1}
  BY <1>4 DEF Written
<1> HIDE DEF l, u
<1>8. n \in joined => i \in Nat \ {0} /\ w[Len(w)].chars \in Seq(Signs)
  <2>1. n \in joined => Len(w) \in 1 .. Len(w)
    BY <1>3, <1>6
  <2> QED
    BY <1>3, <2>1, CharsOf
<1>9. i \in Nat /\ m \in Nat \ {0}
  BY <1>3, <1>6, <1>8
<1>10. /\ v \in Seq(FullWords) /\ Len(v) = m + Len(u)
       /\ \A k \in 1 .. m - 1 : v[k] = w[k]
       /\ Len(u) = 1 => v[m + 1] = u[1]
  <2>1. CASE n \in joined
    <3>1. v = Joined(w, l, u)
      BY <2>1 DEF Grown, l, u
    <3>2. m = Len(w) /\ Len(w) # 0
      BY <1>6, <2>1
    <3> HIDE DEF v, m, i, s
    <3>3. /\ Joined(w, l, u) \in Seq(FullWords)
          /\ Len(Joined(w, l, u)) = Len(w) + Len(u)
          /\ \A k \in 1 .. Len(w) - 1 : Joined(w, l, u)[k] = w[k]
          /\ Len(u) = 1 => Joined(w, l, u)[Len(w) + 1] = u[1]
      BY <1>3, <1>4, <3>2, JoinedWords
    <3> QED
      BY <3>1, <3>2, <3>3
  <2>2. CASE n \notin joined
    <3>1. v = Apart(w, l, u)
      BY <2>2 DEF Grown, l, u
    <3>2. m = Len(w) + 1
      BY <2>2
    <3> QED
      BY <1>3, <1>4, <3>1, <3>2, ApartWords, SMTT(60)
  <2> QED
    BY <2>1, <2>2
<1>11. Reads(v, s, m, i, Len(v) + 1, 0)
  <2>1. CASE n \in joined
    <3>1. v[m].chars = w[Len(w)].chars \o l
      <4>1. v = Joined(w, l, u)
        BY <2>1 DEF Grown, l, u
      <4> QED
        BY <1>3, <1>4, <1>6, <2>1, <4>1, JoinedWords
    <3>2. i # 0 /\ Len(w[Len(w)].chars) = i
      BY <1>8, <2>1
    <3> HIDE DEF v, s, m, i
    <3> QED
      BY <1>4, <1>8, <1>9, <1>10, <2>1, <3>1, <3>2, ReadsNew
  <2>2. CASE n \notin joined
    <3>1. v[m].dash /\ v[m].chars = l
      <4>1. v = Apart(w, l, u)
        BY <2>2 DEF Grown, l, u
      <4> QED
        BY <1>3, <1>4, <2>2, <4>1, ApartWords
    <3>2. i = 0
      BY <2>2
    <3>3. <<>> \in Seq(Signs) /\ Len(<<>>) = 0 /\ l = <<>> \o l
      BY <1>7
    <3> HIDE DEF v, s, m, i
    <3> QED
      BY <1>4, <1>9, <1>10, <3>1, <3>2, <3>3, ReadsNew
  <2> QED
    BY <2>1, <2>2
<1> DEFINE at2 == [k \in 0 .. n |-> IF k = n THEN Len(v) + 1
                                    ELSE IF k = n - 1 THEN m ELSE at[k]]
           in2 == [k \in 0 .. n |-> IF k = n THEN 0 ELSE IF k = n - 1 THEN i ELSE in[k]]
<1>12. Scans(v, meant, at2, in2, n)
  <2>1. at2 \in [0 .. n -> Nat] /\ in2 \in [0 .. n -> Nat]
    <3> HIDE DEF v, i, m
    <3>1. Len(v) + 1 \in Nat
      BY <1>10
    <3>2. at \in [0 .. n - 1 -> Nat] /\ in \in [0 .. n - 1 -> Nat]
      BY <1>1 DEF Scans
    <3>3. ASSUME NEW k \in 0 .. n, k # n, k # n - 1
          PROVE  at[k] \in Nat /\ in[k] \in Nat
      BY <1>2, <3>2, <3>3
    <3> QED
      BY <1>9, <3>1, <3>3
  <2>2. at2[0] = 1 /\ in2[0] = 0
    <3>1. at[0] = 1 /\ in[0] = 0 /\ at[n - 1] = Len(w) + 1
      BY <1>1 DEF Scans
    <3>2. 0 \in 0 .. n /\ 0 # n
      BY <1>2
    <3>3. CASE n - 1 = 0
      <4>1. n \notin joined
        BY <1>2, <1>5, <3>3
      <4>2. m = 1 /\ i = 0
        BY <3>1, <3>3, <4>1
      <4> HIDE DEF m, i, v
      <4> QED
        BY <3>2, <3>3, <4>2
    <3>4. CASE n - 1 # 0
      <4> HIDE DEF m, i, v
      <4> QED
        BY <3>1, <3>2, <3>4
    <3> QED
      BY <3>3, <3>4
  <2>3. at2[n] = Len(v) + 1 /\ in2[n] = 0
    BY <1>2
  <2>4. ASSUME NEW k \in 1 .. n
        PROVE  Reads(v, meant[k], at2[k - 1], in2[k - 1], at2[k], in2[k])
    <3>1. /\ at \in [0 .. n - 1 -> Nat] /\ in \in [0 .. n - 1 -> Nat]
          /\ at[n - 1] = Len(w) + 1 /\ in[n - 1] = 0
          /\ \A j \in 1 .. n - 1 : Reads(w, meant[j], at[j - 1], in[j - 1], at[j], in[j])
      BY <1>1 DEF Scans
    <3>2. CASE k = n
      <4>1. at2[k - 1] = m /\ in2[k - 1] = i /\ at2[k] = Len(v) + 1 /\ in2[k] = 0
        <5> HIDE DEF m, i, v
        <5>1. n - 1 \in 0 .. n /\ n \in 0 .. n /\ n - 1 # n
          BY <1>2
        <5> QED
          BY <3>2, <5>1
      <4> HIDE DEF at2, in2, m, i, v
      <4> QED
        BY <1>11, <3>2, <4>1
    <3>3. CASE k # n
      <4> DEFINE o == at[k - 1]
                 j == in[k - 1]
      <4>1. k \in 1 .. n - 1 /\ k - 1 \in 0 .. n - 1 /\ k \in 0 .. n - 1 /\ k \in Nat
        BY <1>2, <3>3
      <4>2. /\ o \in Nat /\ j \in Nat /\ at[k] \in Nat /\ in[k] \in Nat
            /\ Reads(w, meant[k], o, j, at[k], in[k])
        BY <3>1, <4>1
      <4>3. at2[k - 1] = o /\ in2[k - 1] = j
        <5> HIDE DEF m, i, v
        <5>1. k - 1 \in 0 .. n /\ k - 1 # n /\ k - 1 # n - 1
          BY <1>2, <3>3
        <5> QED
          BY <5>1
      <4>4. /\ k = n - 1 => at2[k] = m /\ in2[k] = i
            /\ k # n - 1 => at2[k] = at[k] /\ in2[k] = in[k]
        <5> HIDE DEF m, i, v
        <5>1. k \in 0 .. n
          BY <1>2
        <5> QED
          BY <3>3, <5>1
      <4>5. k # n - 1 => at[k] <= Len(w)
        <5>1. ASSUME k # n - 1
              PROVE  Reads(w, meant[k + 1], at[k], in[k], at[k + 1], in[k + 1])
          <6>1. k + 1 \in 1 .. n - 1 /\ (k + 1) - 1 = k
            BY <1>2, <4>1, <5>1
          <6> QED
            BY <3>1, <6>1
        <5>2. k # n - 1 => at[k] \in 1 .. Len(w)
          BY <5>1 DEF Reads
        <5> QED
          BY <1>3, <5>2
      <4>6. k = n - 1 => at[k] = Len(w) + 1 /\ in[k] = 0
        BY <3>1
      <4>7. o <= Len(w)
        BY <4>2 DEF Reads
      <4> HIDE DEF at2, in2, v, o, j
      <4>8. CASE n \in joined
        <5>1. /\ Len(w) # 0 /\ Len(l) # 0 /\ Len(w) <= Len(v)
              /\ \A q \in 1 .. Len(w) - 1 : v[q] = w[q]
          <6>1. m = Len(w)
            BY <4>8
          <6> QED
            BY <1>3, <1>6, <1>7, <1>10, <4>8, <6>1
        <5>2. v[Len(w)].dash = w[Len(w)].dash /\ v[Len(w)].chars = w[Len(w)].chars \o l
          <6>1. v = Joined(w, l, u)
            BY <4>8 DEF Grown, v, l, u
          <6> QED
            BY <1>3, <1>4, <1>6, <4>8, <6>1, JoinedWords, SMTT(60)
        <5>3. m = Len(w) /\ i = Len(w[Len(w)].chars)
          BY <4>8
        <5> HIDE DEF m, i
        <5>4. /\ at[k] <= Len(w) => Reads(v, meant[k], o, j, at[k], in[k])
              /\ at[k] = Len(w) + 1 /\ ~HasValue(meant[k]) => Reads(v, meant[k], o, j, m, i)
          BY <1>3, <1>7, <1>10, <4>2, <5>1, <5>2, <5>3, ReadsBefore
        <5>5. k = n - 1 => ~HasValue(meant[k])
          BY <1>5, <4>8
        <5> QED
          BY <4>3, <4>4, <4>5, <4>6, <5>4, <5>5
      <4>9. CASE n \notin joined
        <5>1. m = Len(w) + 1 /\ i = 0
          BY <4>9
        <5> HIDE DEF m, i
        <5>2. /\ Len(w) <= Len(w) /\ Len(w) <= Len(v)
              /\ \A q \in 1 .. Len(w) : v[q] = w[q]
          BY <1>3, <1>7, <1>10, <5>1
        <5>3. at[k] <= Len(w) + 1
          BY <1>3, <4>2, <4>5, <4>6
        <5>4. Reads(v, meant[k], o, j, at[k], in[k])
          BY <1>3, <1>10, <4>2, <4>7, <5>2, <5>3, ReadsOn
        <5> QED
          BY <4>3, <4>4, <4>6, <5>1, <5>4
      <4> QED
        BY <4>8, <4>9
    <3> QED
      BY <3>2, <3>3
  <2> HIDE DEF at2, in2, v
  <2> QED
    BY <2>1, <2>2, <2>3, <2>4 DEF Scans
<1>13. Len(v) # 0
  BY <1>7, <1>9, <1>10
<1> QED
  BY <1>10, <1>12, <1>13 DEF Told

LEMMA SpellingTold ==
  ASSUME NEW meant, NEW joined, NEW attached, Spells(meant, joined, attached)
  PROVE  Told(Spelling(meant, joined, attached), meant, Len(meant))
<1> DEFINE N == Len(meant)
           T(ws) == {k \in 0 .. N : ~Told(ws[k], meant, k)}
<1>1. N \in Nat
  BY DEF Spells
<1>2. PICK ws : /\ Unfolds(ws, meant, joined, attached, N)
                /\ Spelling(meant, joined, attached) = ws[N]
  BY <1>1, SpellingUnfolds
<1>3. ws[0] = <<>>
  BY <1>1, <1>2 DEF Unfolds
<1>4. \A k \in 1 .. N : ws[k] = Grown(meant, joined, attached, k, ws[k - 1])
  <2> DEFINE G(k, w) == Grown(meant, joined, attached, k, w)
  <2> HIDE DEF G
  <2>1. ws = [k \in 0 .. N |-> IF k = 0 THEN <<>> ELSE G(k, ws[k - 1])]
    BY <1>2 DEF Unfolds, G
  <2>2. \A k \in 1 .. N : ws[k] = G(k, ws[k - 1])
    BY <1>1, <2>1
  <2> QED
    BY <2>2 DEF G
<1>5. Told(<<>>, meant, 0)
  <2> DEFINE at == [k \in 0 .. 0 |-> 1]
             in == [k \in 0 .. 0 |-> 0]
  <2>1. <<>> \in Seq(FullWords) /\ Len(<<>>) = 0
    OBVIOUS
  <2>2. at \in [0 .. 0 -> Nat] /\ in \in [0 .. 0 -> Nat] /\ at[0] = 1 /\ in[0] = 0
    OBVIOUS
  <2> HIDE DEF at, in
  <2>3. Scans(<<>>, meant, at, in, 0)
    BY <2>1, <2>2 DEF Scans
  <2> QED
    BY <2>1, <2>3 DEF Told
<1> HIDE DEF N
<1>6. CASE T(ws) = {}
  <2>1. N \in 0 .. N
    BY <1>1
  <2>2. Told(ws[N], meant, N)
    BY <1>6, <2>1
  <2> QED
    BY <1>2, <2>2 DEF N
<1>7. CASE T(ws) # {}
  <2>1. T(ws) \subseteq Nat
    BY <1>1
  <2>2. PICK k \in T(ws) : \A j \in T(ws) : k <= j
    BY <1>7, <2>1, Minimum
  <2>3. k \in 0 .. N /\ ~Told(ws[k], meant, k)
    BY <2>2
  <2>4. k # 0
    BY <1>3, <1>5, <2>3
  <2>5. k \in 1 .. N /\ k - 1 \in 0 .. N /\ k - 1 \notin T(ws)
    BY <1>1, <2>2, <2>3, <2>4
  <2>6. Told(ws[k - 1], meant, k - 1)
    BY <2>5
  <2>7. Told(Grown(meant, joined, attached, k, ws[k - 1]), meant, k)
    BY <2>5, <2>6, ToldGrown DEF N
  <2> QED
    BY <1>4, <2>3, <2>5, <2>7
<1> QED
  BY <1>6, <1>7
-----------------------------------------------------------------------------
(* The words that are taken from the file.                                 *)

\* The words behind the program's name; there may not even be that.
Holds(argv, w) ==
  \/ Len(argv) = 0 /\ Len(w) = 0
  \/ Len(argv) = Len(w) + 1 /\ \A k \in 1 .. Len(w) : argv[k + 1] = w[k]

LEMMA EndTaken ==
  ASSUME NEW S, NEW a \in Seq(S), NEW e
  PROVE  /\ Len(a \o <<e>>) = Len(a) + 1 /\ (a \o <<e>>)[Len(a) + 1] = e
         /\ a \o <<e>> # <<>> /\ SubSeq(a \o <<e>>, 1, Len(a)) = a
<1> DEFINE T == S \cup {e}
           b == a \o <<e>>
           c == SubSeq(b, 1, Len(a))
<1>1. a \in Seq(T)
  BY SeqMonotonic
<1>2. e \in T /\ Len(a) \in Nat
  OBVIOUS
<1> HIDE DEF T
<1>3. /\ b \in Seq(T) /\ Len(b) = Len(a) + 1 /\ b[Len(a) + 1] = e
      /\ \A k \in 1 .. Len(a) : b[k] = a[k]
  BY <1>1, <1>2, OneMore
<1>4. c \in Seq(T) /\ Len(c) = Len(a) /\ \A k \in 1 .. Len(a) : c[k] = b[k]
  <2>1. Len(a) \in 0 .. Len(b)
    BY <1>2, <1>3
  <2> QED
    BY <1>3, <2>1, Beginning
<1>5. c = a
  <2> HIDE DEF c, b
  <2> QED
    BY <1>1, <1>2, <1>3, <1>4, SeqEqual
<1>6. b # <<>>
  BY <1>2, <1>3
<1> QED
  BY <1>3, <1>5, <1>6

LEMMA StripsNothing ==
  ASSUME NEW w \in FullWords
  PROVE  Strip(w) = w
BY DEF FullWords, Strip

LEMMA StripsEnd ==
  ASSUME NEW w \in FullWords
  PROVE  Strip([w EXCEPT !.chars = @ \o <<"LF">>]) = w
<1> DEFINE a == w.chars
           b == a \o <<"LF">>
           x == [w EXCEPT !.chars = @ \o <<"LF">>]
<1>1. w \in [dash : BOOLEAN, chars : Seq(Signs)]
  BY DEF FullWords
<1>2. /\ Len(b) = Len(a) + 1 /\ b[Len(a) + 1] = "LF" /\ b # <<>>
      /\ SubSeq(b, 1, Len(a)) = a /\ Len(a) \in Nat
  BY <1>1, EndTaken
<1>3. x = [dash |-> w.dash, chars |-> b] /\ w = [dash |-> w.dash, chars |-> a]
  <2> HIDE DEF b
  <2>1. w = [dash |-> w.dash, chars |-> w.chars]
    BY <1>1
  <2>2. x = [dash |-> w.dash, chars |-> b]
    BY <2>1 DEF b
  <2> QED
    BY <2>1, <2>2
<1> HIDE DEF x, a, b
<1>4. x.chars = b /\ x.dash = w.dash
  BY <1>3
<1>5. "LF" \in LineEnds
  BY DEF LineEnds
<1>6. Strip(x) = [x EXCEPT !.chars = SubSeq(@, 1, Len(@) - 1)]
  BY <1>2, <1>4, <1>5 DEF Strip
<1>7. Len(b) - 1 = Len(a)
  BY <1>2
<1>8. Strip(x) = [dash |-> w.dash, chars |-> SubSeq(b, 1, Len(b) - 1)]
  BY <1>3, <1>4, <1>6
<1>9. Strip(x) = w
  BY <1>2, <1>3, <1>7, <1>8
<1> QED
  BY <1>9 DEF x

\* Spelled words, ended or not, are told with the end taken off.
LEMMA StrippedTold ==
  ASSUME NEW meant \in Seq(Settings), NEW w \in Spellings(meant)
  PROVE  \E v : /\ Told(v, meant, Len(meant))
                /\ Len(w) = Len(v) /\ \A k \in 1 .. Len(v) : Strip(w[k]) = v[k]
<1>1. PICK joined \in SUBSET Joinable(meant), attached \in SUBSET Attachable(meant) :
        w \in {Spelling(meant, joined, attached), Ended(Spelling(meant, joined, attached))}
  BY DEF Spellings
<1> DEFINE v == Spelling(meant, joined, attached)
<1>2. Told(v, meant, Len(meant))
  BY SpellingTold DEF Spells
<1> HIDE DEF v
<1>3. v \in Seq(FullWords) /\ Len(v) \in Nat
  BY <1>2 DEF Told
<1>4. \A k \in 1 .. Len(v) : v[k] \in FullWords /\ Strip(v[k]) = v[k]
  BY <1>3, StripsNothing
<1>5. CASE w = v
  BY <1>2, <1>4, <1>5
<1>6. CASE w # v
  <2>1. w = Ended(v) /\ v # <<>>
    BY <1>1, <1>6 DEF Ended, v
  <2> DEFINE x(k) == [v[k] EXCEPT !.chars = @ \o <<"LF">>]
             n == Len(v)
  <2>2. n \in 1 .. n
    BY <1>3, <2>1, EmptySeq
  <2>3. w = [v EXCEPT ![n].chars = @ \o <<"LF">>]
    BY <2>1 DEF Ended
  <2>4. v = [k \in 1 .. n |-> v[k]]
    BY <1>3
  <2>5. Strip(x(n)) = v[n]
    BY <1>4, <2>2, StripsEnd
  <2>6. w = [k \in 1 .. n |-> IF k = n THEN x(n) ELSE v[k]]
    BY <2>2, <2>3, <2>4
  <2> HIDE DEF x
  <2>7. Len(w) = n
    BY <1>3, <2>6
  <2>8. \A k \in 1 .. n : Strip(w[k]) = v[k]
    BY <1>4, <2>5, <2>6
  <2> QED
    BY <1>2, <2>7, <2>8
<1> QED
  BY <1>5, <1>6

LEMMA ArgsTold ==
  ASSUME NEW file \in Files, file # <<>>, NEW name, NEW meant, SpellsOut(file, name, meant)
  PROVE  \E v : Told(v, meant, Len(meant)) /\ Holds(ArgsOf(file, name), v)
<1> DEFINE mine == {i \in DOMAIN file : file[i].name = name}
           first == CHOOSE i \in mine : \A k \in mine : i <= k
           stripped(s) == [k \in DOMAIN s |-> Strip(s[k])]
           argv == ArgsOf(file, name)
           last == file[Len(file)].words
<1>1. meant \in Seq(Settings)
  BY DEF SpellsOut
<1>2. \A i \in DOMAIN file : file[i].words \in Seq(Words)
  <2>1. \A i \in DOMAIN file : file[i] \in FileLines
    BY DEF Files
  <2> QED
    BY <2>1 DEF FileLines
<1>3. ASSUME NEW s \in Seq(Words)
      PROVE  /\ Len(stripped(s)) = Len(s) /\ Len(s) \in Nat
             /\ \A k \in 1 .. Len(s) : stripped(s)[k] = Strip(s[k])
             /\ stripped(s) \in Seq({Strip(s[k]) : k \in 1 .. Len(s)})
  <2>1. Len(s) \in Nat /\ DOMAIN s = 1 .. Len(s)
    OBVIOUS
  <2>2. stripped(s) = [k \in 1 .. Len(s) |-> Strip(s[k])]
    BY <2>1
  <2> HIDE DEF stripped
  <2> QED
    BY <2>1, <2>2
<1>4. CASE mine # {}
  <2>1. PICK i \in mine : (\A k \in mine : i <= k) /\ file[i].words \in Spellings(meant)
    BY <1>4 DEF SpellsOut
  <2>2. first = i
    <3>1. mine \subseteq Nat
      BY DEF Files
    <3>2. \A j \in mine : (\A k \in mine : j <= k) => j = i
      BY <2>1, <3>1
    <3> HIDE DEF mine
    <3> QED
      BY <2>1, <3>2
  <2> DEFINE s == file[i].words
             t == stripped(s)
             W == Word(FALSE, <<name>>)
  <2>3. s \in Seq(Words)
    BY <1>2
  <2>4. argv = <<W>> \o t
    <3>1. argv = <<W>> \o stripped(file[first].words)
      BY <1>4 DEF ArgsOf
    <3>2. stripped(file[first].words) = t
      <4> HIDE DEF stripped, first, mine
      <4> QED
        BY <2>2
    <3> HIDE DEF argv, W, t, stripped, first
    <3> QED
      BY <3>1, <3>2
  <2>5. PICK v : /\ Told(v, meant, Len(meant))
                 /\ Len(s) = Len(v) /\ \A k \in 1 .. Len(v) : Strip(s[k]) = v[k]
    BY <1>1, <2>1, StrippedTold
  <2>6. PICK S : t \in Seq(S)
    BY <1>3, <2>3
  <2>7. Len(t) = Len(v) /\ \A k \in 1 .. Len(v) : t[k] = v[k]
    BY <1>3, <2>3, <2>5
  <2> HIDE DEF s, t, W, argv
  <2>8. t \in Seq(S \cup {W}) /\ <<W>> \in Seq(S \cup {W}) /\ Len(<<W>>) = 1
    <3>1. t \in Seq(S \cup {W})
      BY <2>6, SeqMonotonic
    <3>2. W \in S \cup {W}
      OBVIOUS
    <3> QED
      BY <3>1, <3>2, Alone
  <2>9. Len(<<W>> \o t) = 1 + Len(t) /\ \A k \in 1 .. Len(t) : (<<W>> \o t)[k + 1] = t[k]
    <3> DEFINE T == S \cup {W}
    <3> HIDE DEF T
    <3>1. t \in Seq(T) /\ <<W>> \in Seq(T) /\ Len(<<W>>) = 1
      BY <2>8 DEF T
    <3> QED
      BY <3>1
  <2>10. Holds(argv, v)
    BY <2>4, <2>7, <2>9 DEF Holds
  <2> QED
    BY <2>5, <2>10 DEF argv
<1>5. CASE mine = {}
  <2>1. Len(file) \in DOMAIN file
    BY DEF Files
  <2>2. last \in Seq(Words)
    BY <1>2, <2>1
  <2>3. argv = stripped(last)
    BY <1>5 DEF ArgsOf
  <2>4. Len(argv) = Len(last) /\ \A k \in 1 .. Len(last) : argv[k] = Strip(last[k])
    BY <1>3, <2>2, <2>3
  <2> HIDE DEF argv
  <2>5. CASE last = <<>> /\ meant = <<>>
    <3> DEFINE at == [k \in 0 .. 0 |-> 1]
               in == [k \in 0 .. 0 |-> 0]
    <3>1. <<>> \in Seq(FullWords) /\ Len(<<>>) = 0 /\ Len(meant) = 0
      BY <2>5
    <3>2. at \in [0 .. 0 -> Nat] /\ in \in [0 .. 0 -> Nat] /\ at[0] = 1 /\ in[0] = 0
      OBVIOUS
    <3> HIDE DEF at, in
    <3>3. Told(<<>>, meant, Len(meant))
      BY <3>1, <3>2 DEF Scans, Told
    <3>4. Holds(argv, <<>>)
      BY <2>4, <2>5, <3>1 DEF Holds
    <3> QED
      BY <3>3, <3>4 DEF argv
  <2>6. CASE last # <<>> /\ Tail(last) \in Spellings(meant)
    <3> DEFINE s == Tail(last)
    <3>1. PICK v : /\ Told(v, meant, Len(meant))
                   /\ Len(s) = Len(v) /\ \A k \in 1 .. Len(v) : Strip(s[k]) = v[k]
      BY <1>1, <2>6, StrippedTold
    <3>2. Len(last) = Len(s) + 1 /\ \A k \in 1 .. Len(s) : s[k] = last[k + 1] /\ Len(s) \in Nat
      BY <2>2, <2>6
    <3> HIDE DEF s, last
    <3>3. \A k \in 1 .. Len(v) : argv[k + 1] = v[k]
      BY <2>4, <3>1, <3>2
    <3>4. Holds(argv, v)
      BY <2>4, <3>1, <3>2, <3>3 DEF Holds
    <3> QED
      BY <3>1, <3>4 DEF argv
  <2> QED
    BY <1>5, <2>5, <2>6 DEF SpellsOut
<1> QED
  BY <1>4, <1>5
-----------------------------------------------------------------------------
(* The scan finds the settings one after the other.                        *)

Rest(a, i) == SubSeq(a, i + 1, Len(a))
Place(a, i) == IF i = 0 THEN <<>> ELSE Rest(a, i)

LEMMA RestOf ==
  ASSUME NEW a \in Seq(Signs), NEW i \in Nat, i < Len(a)
  PROVE  /\ Rest(a, i) \in Seq(Signs) /\ Len(Rest(a, i)) = Len(a) - i
         /\ \A k \in 1 .. Len(a) - i : Rest(a, i)[k] = a[i + k]
         /\ Rest(a, i) # <<>> /\ Head(Rest(a, i)) = a[i + 1]
         /\ i + 1 < Len(a) => Tail(Rest(a, i)) = Rest(a, i + 1)
         /\ i + 1 = Len(a) => Tail(Rest(a, i)) = <<>>
<1> DEFINE r == Rest(a, i)
<1>1. Len(a) \in Nat
  OBVIOUS
<1>2. r \in Seq(Signs) /\ Len(r) = Len(a) - i /\ \A k \in 1 .. Len(a) - i : r[k] = a[i + k]
  BY DEF Rest
<1> HIDE DEF r
<1>3. r # <<>> /\ Head(r) = a[i + 1]
  <2>1. 1 \in 1 .. Len(a) - i
    BY <1>1
  <2> QED
    BY <1>1, <1>2, <2>1
<1>4. /\ Tail(r) \in Seq(Signs) /\ Len(Tail(r)) = Len(a) - i - 1
      /\ \A k \in 1 .. Len(a) - i - 1 : Tail(r)[k] = r[k + 1]
  BY <1>1, <1>2, <1>3
<1>5. i + 1 = Len(a) => Tail(r) = <<>>
  BY <1>1, <1>4, EmptySeq
<1>6. ASSUME i + 1 < Len(a)
      PROVE  Tail(r) = Rest(a, i + 1)
  <2> DEFINE q == Rest(a, i + 1)
  <2>1. /\ q \in Seq(Signs) /\ Len(q) = Len(a) - i - 1
        /\ \A k \in 1 .. Len(a) - i - 1 : q[k] = a[i + 1 + k]
    BY <1>1, <1>6 DEF Rest
  <2> DEFINE t == Tail(r)
  <2>2. /\ t \in Seq(Signs) /\ Len(t) = Len(a) - i - 1
        /\ \A k \in 1 .. Len(a) - i - 1 : t[k] = r[k + 1]
    BY <1>4
  <2>3. \A k \in 1 .. Len(a) - i - 1 : r[k + 1] = a[i + 1 + k]
    <3>1. ASSUME NEW k \in 1 .. Len(a) - i - 1
          PROVE  r[k + 1] = a[i + 1 + k]
      <4>1. k + 1 \in 1 .. Len(a) - i /\ i + (k + 1) = i + 1 + k
        BY <1>1
      <4>2. r[k + 1] = a[i + (k + 1)]
        BY <1>2, <4>1
      <4> QED
        BY <4>1, <4>2
    <3> QED
      BY <3>1
  <2> HIDE DEF q, t
  <2>4. t = q
    BY <2>1, <2>2, <2>3, SeqEqual
  <2> QED
    BY <2>4 DEF q, t
<1> QED
  BY <1>2, <1>3, <1>5, <1>6 DEF r

LEMMA FlagOrValue ==
  ASSUME NEW s \in Settings
  PROVE  /\ HasValue(s) => s.c \in Valued /\ s.c \notin Flags
         /\ ~HasValue(s) => s.c \in Flags /\ s.c \notin Valued
<1>1. s.c \in Flags \cup Valued
  BY DEF Settings
<1>2. \A c \in Valued : c \notin Flags
  BY SMT DEF Flags, Valued
<1> QED
  BY <1>1, <1>2 DEF HasValue

\* The value is in the next word if two words are passed.
ValueFollows(argv, s, o, o2) ==
  HasValue(s) /\ o2 = o + 2 =>
    Len(argv) \in Nat /\ o + 1 < Len(argv) /\ argv[o + 2].chars = <<s.v>>

LEMMA LetterReads ==
  ASSUME NEW a \in Seq(Signs), NEW s \in Settings, NEW argv,
         NEW o \in Nat, NEW i \in Nat, NEW o2 \in Nat, NEW i2 \in Nat,
         InWord(a, s, o, i, o2, i2),
         ValueFollows(argv, s, o, o2)
  PROVE  /\ Letter(argv, o, Rest(a, i)).c = s.c
         /\ Letter(argv, o, Rest(a, i)).optind = o2
         /\ Letter(argv, o, Rest(a, i)).place = Place(a, i2)
         /\ HasValue(s) => Value(Letter(argv, o, Rest(a, i)).arg) = s.v
<1> DEFINE r == Rest(a, i)
           t == Tail(r)
           f == Letter(argv, o, r)
<1>1. Len(a) \in Nat /\ i < Len(a) /\ a[i + 1] = s.c
  BY DEF InWord
<1>2. /\ Head(r) = s.c
      /\ i + 1 < Len(a) => t = Rest(a, i + 1) /\ t # <<>> /\ Head(t) = a[i + 2]
      /\ i + 1 >= Len(a) => t = <<>>
  <2>1. Head(r) = a[i + 1] /\ (i + 1 < Len(a) => t = Rest(a, i + 1))
        /\ (i + 1 = Len(a) => t = <<>>)
    BY <1>1, RestOf
  <2>2. i + 1 < Len(a) => Rest(a, i + 1) # <<>> /\ Head(Rest(a, i + 1)) = a[(i + 1) + 1]
    <3>1. i + 1 \in Nat
      OBVIOUS
    <3> QED
      BY <3>1, RestOf
  <2> HIDE DEF r, t
  <2> QED
    BY <1>1, <2>1, <2>2
<1>3. /\ HasValue(s) => s.c \in Valued /\ s.c \notin Flags
      /\ ~HasValue(s) => s.c \in Flags
  BY FlagOrValue
<1>4. CASE ~HasValue(s)
  <2>1. f = Found(s.c, NoWord, IF t = <<>> THEN o + 1 ELSE o, t)
    <3> HIDE DEF r
    <3>1. Head(r) = s.c /\ Head(r) \in Flags
      BY <1>2, <1>3, <1>4
    <3> QED
      BY <3>1 DEF Letter
  <2>2. f.c = s.c /\ f.optind = (IF t = <<>> THEN o + 1 ELSE o) /\ f.place = t
    <3> HIDE DEF f, t
    <3> QED
      BY <2>1 DEF Found
  <2> HIDE DEF f, r, t
  <2>3. CASE i + 1 < Len(a)
    <3>1. o2 = o /\ i2 = i + 1 /\ i2 # 0
      BY <1>4, <2>3 DEF InWord
    <3> QED
      BY <1>2, <1>4, <2>2, <2>3, <3>1 DEF Place, f, r
  <2>4. CASE i + 1 >= Len(a)
    <3>1. o2 = o + 1 /\ i2 = 0
      BY <1>1, <1>4, <2>4 DEF InWord
    <3> QED
      BY <1>2, <1>4, <2>2, <2>4, <3>1 DEF Place, f, r
  <2> QED
    BY <1>1, <2>3, <2>4
<1>5. CASE HasValue(s) /\ i + 1 < Len(a)
  <2>1. f = Found(s.c, Word(FALSE, t), o + 1, <<>>)
    <3>1. f = Found(Head(r), Word(FALSE, t), AfterArgument(o, t)[1], AfterArgument(o, t)[2])
      <4> HIDE DEF r
      <4> QED
        BY <1>2, <1>3, <1>5 DEF Letter
    <3> QED
      BY <1>2, <3>1 DEF AfterArgument
  <2>2. f.c = s.c /\ f.optind = o + 1 /\ f.place = <<>> /\ f.arg.chars = t
    <3> HIDE DEF f, t
    <3> QED
      BY <2>1 DEF Found, Word
  <2>3. o2 = o + 1 /\ i2 = 0 /\ a[i + 2] = s.v
    BY <1>5 DEF InWord
  <2> HIDE DEF f, r, t
  <2>4. Value(f.arg) = s.v
    BY <1>2, <1>5, <2>2, <2>3 DEF Value
  <2> QED
    BY <2>2, <2>3, <2>4 DEF Place, f, r
<1>6. CASE HasValue(s) /\ i + 1 >= Len(a)
  <2>1. o2 = o + 2 /\ i2 = 0
    BY <1>1, <1>6 DEF InWord
  <2>2. f = Found(s.c, argv[o + 2], o + 2, <<>>)
    <3>1. f = Found(Head(r), argv[o + 2], AfterArgument(o + 1, <<>>)[1],
                    AfterArgument(o + 1, <<>>)[2])
      <4>1. ~(o + 1 >= Len(argv))
        BY <1>6, <2>1 DEF ValueFollows
      <4>2. Head(r) = s.c /\ Tail(r) = <<>>
        BY <1>2, <1>6
      <4> HIDE DEF r, t
      <4> QED
        BY <1>3, <1>6, <4>1, <4>2 DEF Letter, f
    <3> QED
      BY <1>2, <3>1 DEF AfterArgument
  <2>3. f.c = s.c /\ f.optind = o + 2 /\ f.place = <<>> /\ f.arg = argv[o + 2]
    <3> HIDE DEF f
    <3> QED
      BY <2>2 DEF Found
  <2>4. argv[o + 2].chars = <<s.v>>
    BY <1>6, <2>1 DEF ValueFollows
  <2> HIDE DEF f, r, t
  <2>5. Value(f.arg) = s.v
    <3>1. f.arg.chars = <<s.v>>
      BY <2>3, <2>4
    <3> QED
      BY <3>1 DEF Value
  <2> QED
    BY <2>1, <2>3, <2>5 DEF Place, f, r
<1> QED
  BY <1>1, <1>4, <1>5, <1>6

LEMMA getoptReads ==
  ASSUME NEW w \in Seq(FullWords), NEW argv, Holds(argv, w), NEW s \in Settings,
         NEW o \in Nat, NEW i \in Nat, NEW o2 \in Nat, NEW i2 \in Nat,
         Reads(w, s, o, i, o2, i2)
  PROVE  LET f == getopt(argv, o, Place(w[o].chars, i))
         IN  /\ f.c = s.c /\ f.optind = o2 /\ f.place = Place(w[o].chars, i2)
             /\ HasValue(s) => Value(f.arg) = s.v
<1> DEFINE a == w[o].chars
           p == Place(a, i)
           f == getopt(argv, o, p)
<1>1. o \in 1 .. Len(w) /\ InWord(a, s, o, i, o2, i2) /\ (i = 0 => w[o].dash)
  BY DEF Reads
<1>2. /\ Len(argv) = Len(w) + 1 /\ argv[o + 1] = w[o] /\ Len(w) \in Nat
      /\ \A k \in 1 .. Len(w) : argv[k + 1] = w[k]
  BY <1>1 DEF Holds
<1>3. a \in Seq(Signs) /\ Len(a) \in Nat /\ i < Len(a) /\ a[i + 1] = s.c
  BY <1>1, CharsOf DEF InWord
<1>4. ASSUME HasValue(s), o2 = o + 2
      PROVE  Len(argv) \in Nat /\ o + 1 < Len(argv) /\ argv[o + 2].chars = <<s.v>>
  <2>1. o < Len(w) /\ w[o + 1].chars = <<s.v>>
    BY <1>4 DEF Reads, ValueNext, Word
  <2>2. o + 1 \in 1 .. Len(w) /\ (o + 1) + 1 = o + 2
    BY <1>1, <1>2, <2>1
  <2>3. argv[(o + 1) + 1] = w[o + 1]
    BY <1>2, <2>2
  <2>4. Len(argv) \in Nat /\ o + 1 < Len(argv)
    BY <1>2, <2>1
  <2> QED
    BY <2>1, <2>2, <2>3, <2>4
<1> HIDE DEF a
<1>5. f = Letter(argv, o, Rest(a, i))
  <2>1. CASE i # 0
    <3>1. p = Rest(a, i) /\ p # <<>>
      BY <1>3, <2>1, RestOf DEF Place
    <3> QED
      BY <3>1 DEF getopt
  <2>2. CASE i = 0
    <3>1. p = <<>>
      BY <2>2 DEF Place
    <3>2. Rest(a, 0) = a /\ a # <<>> /\ Head(a) = s.c
      <4>1. a # <<>> /\ Head(a) = a[1]
        BY <1>3, <2>2
      <4>2. Rest(a, 0) \in Seq(Signs) /\ Len(Rest(a, 0)) = Len(a)
            /\ \A k \in 1 .. Len(a) : Rest(a, 0)[k] = a[k]
        BY <1>3 DEF Rest
      <4>3. Rest(a, 0) = a
        BY <1>3, <4>2, SeqEqual
      <4> QED
        BY <1>3, <2>2, <4>1, <4>3
    <3>3. s.c # "-"
      <4>1. s.c \in Flags \cup Valued
        BY DEF Settings
      <4> QED
        BY <4>1, LetterNames
    <3>4. ~(o >= Len(argv) \/ ~argv[o + 1].dash) /\ argv[o + 1].chars = a
      BY <1>1, <1>2, <2>2 DEF a
    <3> HIDE DEF p
    <3>5. f = Letter(argv, o, a)
      BY <3>1, <3>2, <3>3, <3>4 DEF getopt
    <3> QED
      BY <2>2, <3>2, <3>5
  <2> QED
    BY <2>1, <2>2
<1>6. /\ Letter(argv, o, Rest(a, i)).c = s.c
      /\ Letter(argv, o, Rest(a, i)).optind = o2
      /\ Letter(argv, o, Rest(a, i)).place = Place(a, i2)
      /\ HasValue(s) => Value(Letter(argv, o, Rest(a, i)).arg) = s.v
  <2>1. ValueFollows(argv, s, o, o2)
    BY <1>4 DEF ValueFollows
  <2> QED
    BY <1>1, <1>3, <2>1, LetterReads DEF a
<1> HIDE DEF f
<1> QED
  BY <1>5, <1>6 DEF f, a

LEMMA getoptEnds ==
  ASSUME NEW w \in Seq(FullWords), NEW argv, Holds(argv, w)
  PROVE  getopt(argv, Len(w) + 1, <<>>).c = EOF
<1>1. Len(w) + 1 >= Len(argv)
  BY DEF Holds
<1> QED
  BY <1>1 DEF getopt, Found
-----------------------------------------------------------------------------
(* What has been set after the first n settings.                           *)

IsLast(meant, n, f, k) ==
  Field(meant[k].c) = f /\ \A i \in 1 .. n : Field(meant[i].c) = f => i <= k

BadOnes(meant, n) == {k \in 1 .. n : Bad(meant[k])}
FlagsMeant(meant, n) == {meant[k].c : k \in {j \in 1 .. n : ~HasValue(meant[j])}}
FieldsMeant(meant, n) == {Field(meant[k].c) : k \in {j \in 1 .. n : HasValue(meant[j])}}

ValuesMeant(values, meant, n) ==
  /\ values = [f \in FieldsMeant(meant, n) |-> values[f]]
  /\ \A f \in FieldsMeant(meant, n) :
       \E k \in 1 .. n : IsLast(meant, n, f, k) /\ values[f] = meant[k].v

SetAsMeant(p, meant, n) ==
  /\ p.errors = Cardinality(BadOnes(meant, n))
  /\ p.errors = 0 => p.flags = FlagsMeant(meant, n) /\ ValuesMeant(p.values, meant, n)

LEMMA FieldKinds ==
  ASSUME NEW s \in Settings
  PROVE  /\ HasValue(s) => Field(s.c) \in Valued
         /\ ~HasValue(s) => Field(s.c) \notin Valued
<1>1. "j" \in Valued /\ "J" \notin Flags
  BY DEF Valued, Flags
<1> QED
  BY <1>1, FlagOrValue DEF Field

LEMMA BadOnesOf ==
  ASSUME NEW meant, NEW n \in Nat \ {0}
  PROVE  /\ Cardinality(BadOnes(meant, n - 1)) \in Nat
         /\ Cardinality(BadOnes(meant, n))
              = Cardinality(BadOnes(meant, n - 1)) + (IF Bad(meant[n]) THEN 1 ELSE 0)
<1> DEFINE old == BadOnes(meant, n - 1)
           new == BadOnes(meant, n)
<1>1. IsFiniteSet(1 .. n - 1)
  BY FS_Interval
<1>2. old \subseteq 1 .. n - 1
  BY DEF BadOnes
<1>3. IsFiniteSet(old)
  BY <1>1, <1>2, FS_Subset
<1>4. n \notin old
  BY <1>2
<1>5. new = IF Bad(meant[n]) THEN old \cup {n} ELSE old
  <2> DEFINE B(k) == Bad(meant[k])
  <2> HIDE DEF B
  <2>1. old = {k \in 1 .. n - 1 : B(k)} /\ new = {k \in 1 .. n : B(k)}
    BY DEF BadOnes, B
  <2>2. new = IF B(n) THEN old \cup {n} ELSE old
    <3> HIDE DEF old, new
    <3> QED
      BY <2>1
  <2> QED
    BY <2>2 DEF B
<1> HIDE DEF old, new
<1>6. Cardinality(old) \in Nat /\ Cardinality(old \cup {n}) = Cardinality(old) + 1
  BY <1>3, <1>4, FS_CardinalityType, FS_AddElement
<1>7. Cardinality(new) = Cardinality(old) + (IF Bad(meant[n]) THEN 1 ELSE 0)
  BY <1>5, <1>6
<1> QED
  BY <1>6, <1>7 DEF old, new

LEMMA FlagMeant ==
  ASSUME NEW meant \in Seq(Settings), NEW n \in 1 .. Len(meant), ~HasValue(meant[n])
  PROVE  /\ FlagsMeant(meant, n) = FlagsMeant(meant, n - 1) \cup {meant[n].c}
         /\ \A values : ValuesMeant(values, meant, n - 1) => ValuesMeant(values, meant, n)
<1>1. FlagsMeant(meant, n) = FlagsMeant(meant, n - 1) \cup {meant[n].c}
  BY DEF FlagsMeant
<1>2. FieldsMeant(meant, n) = FieldsMeant(meant, n - 1)
  BY DEF FieldsMeant
<1>3. ASSUME NEW values, ValuesMeant(values, meant, n - 1)
      PROVE  ValuesMeant(values, meant, n)
  <2>1. ASSUME NEW f \in FieldsMeant(meant, n - 1)
        PROVE  \E k \in 1 .. n : IsLast(meant, n, f, k) /\ values[f] = meant[k].v
    <3>1. PICK k \in 1 .. n - 1 : IsLast(meant, n - 1, f, k) /\ values[f] = meant[k].v
      BY <1>3 DEF ValuesMeant
    <3>2. f \in Valued
      <4>1. PICK j \in 1 .. n - 1 : HasValue(meant[j]) /\ f = Field(meant[j].c)
        BY DEF FieldsMeant
      <4>2. meant[j] \in Settings
        BY <4>1
      <4> QED
        BY <4>1, <4>2, FieldKinds
    <3>3. Field(meant[n].c) # f
      <4>1. meant[n] \in Settings
        OBVIOUS
      <4> QED
        BY <3>2, <4>1, FieldKinds
    <3>4. k \in 1 .. n /\ IsLast(meant, n, f, k)
      BY <3>1, <3>3 DEF IsLast
    <3> QED
      BY <3>1, <3>4
  <2> QED
    BY <1>2, <1>3, <2>1 DEF ValuesMeant
<1> QED
  BY <1>1, <1>3

LEMMA ValueMeant ==
  ASSUME NEW meant \in Seq(Settings), NEW n \in 1 .. Len(meant), HasValue(meant[n]),
         NEW values, ValuesMeant(values, meant, n - 1)
  PROVE  /\ FlagsMeant(meant, n) = FlagsMeant(meant, n - 1)
         /\ ValuesMeant(With(values, Field(meant[n].c), meant[n].v), meant, n)
<1> DEFINE f0 == Field(meant[n].c)
           v0 == meant[n].v
           new == With(values, f0, v0)
<1>1. FlagsMeant(meant, n) = FlagsMeant(meant, n - 1)
  BY DEF FlagsMeant
<1>2. FieldsMeant(meant, n) = FieldsMeant(meant, n - 1) \cup {f0}
  BY DEF FieldsMeant
<1>3. DOMAIN values = FieldsMeant(meant, n - 1)
  BY DEF ValuesMeant
<1>4. new = [f \in FieldsMeant(meant, n) |-> IF f = f0 THEN v0 ELSE values[f]]
  BY <1>2, <1>3 DEF With
<1>5. ASSUME NEW f \in FieldsMeant(meant, n)
      PROVE  \E k \in 1 .. n : IsLast(meant, n, f, k) /\ new[f] = meant[k].v
  <2>1. CASE f = f0
    <3>1. new[f] = meant[n].v
      BY <1>4, <2>1
    <3>2. n \in 1 .. n /\ IsLast(meant, n, f, n)
      BY <2>1 DEF IsLast
    <3> QED
      BY <3>1, <3>2
  <2>2. CASE f # f0
    <3>1. f \in FieldsMeant(meant, n - 1)
      BY <1>2, <2>2
    <3>2. PICK k \in 1 .. n - 1 : IsLast(meant, n - 1, f, k) /\ values[f] = meant[k].v
      BY <3>1 DEF ValuesMeant
    <3>3. new[f] = values[f]
      <4> HIDE DEF f0, v0, new
      <4> QED
        BY <1>4, <2>2
    <3>4. k \in 1 .. n /\ IsLast(meant, n, f, k)
      BY <2>2, <3>2 DEF IsLast
    <3> QED
      BY <3>2, <3>3, <3>4
  <2> QED
    BY <2>1, <2>2
<1> HIDE DEF new, f0, v0
<1>6. new = [f \in FieldsMeant(meant, n) |-> new[f]]
  BY <1>4
<1>7. ValuesMeant(new, meant, n)
  BY <1>5, <1>6 DEF ValuesMeant
<1> QED
  BY <1>1, <1>7 DEF new, f0, v0
\* The value is the setting's, if it has one.
ValueOf(s, v) == HasValue(s) => v = s.v

LEMMA ApplyMeant ==
  ASSUME NEW p, ParseRecord(p), NEW meant \in Seq(Settings), NEW n \in 1 .. Len(meant),
         SetAsMeant(p, meant, n - 1), NEW v, ValueOf(meant[n], v)
  PROVE  LET q == Apply(p, meant[n].c, v)
         IN  /\ ParseRecord(q) /\ SetAsMeant(q, meant, n)
             /\ q.argv = p.argv /\ q.optind = p.optind /\ q.place = p.place /\ q.done = p.done
<1> DEFINE s == meant[n]
           c == s.c
           q == Apply(p, c, v)
<1>1. s \in Settings /\ n \in Nat \ {0}
  OBVIOUS
<1>2. /\ HasValue(s) => c \in Valued /\ c \notin Flags
      /\ ~HasValue(s) => c \in Flags /\ c \notin Valued
  BY <1>1, FlagOrValue
<1>3. c # BADCH /\ c # EOF
  <2>1. c \in Flags \cup Valued
    BY <1>2
  <2> QED
    BY <2>1, LetterNames
<1>4. /\ Cardinality(BadOnes(meant, n - 1)) \in Nat
      /\ Cardinality(BadOnes(meant, n))
           = Cardinality(BadOnes(meant, n - 1)) + (IF Bad(s) THEN 1 ELSE 0)
  BY <1>1, BadOnesOf
<1>5. p.errors = Cardinality(BadOnes(meant, n - 1)) /\ p.errors \in Nat
  BY <1>4 DEF SetAsMeant
<1>6. "h" \in Flags /\ "V" \in Valued /\ "D" \in Valued /\ "h" \notin Valued
      /\ "V" \notin Flags /\ "D" \notin Flags
  BY DEF Flags, Valued
<1>7. Bad(s) <=> c = "h" \/ (c = "V" /\ s.v \notin Cores) \/ (c = "D" /\ s.v \in Unwritable)
  BY DEF Bad
<1>8. (c = "V" \/ c = "D") => v = s.v
  BY <1>2, <1>6 DEF ValueOf
<1>9. p = [argv |-> p.argv, optind |-> p.optind, place |-> p.place, done |-> p.done,
           flags |-> p.flags, values |-> p.values, errors |-> p.errors]
  BY DEF ParseRecord
<1> HIDE DEF s, c
<1>10. CASE Bad(s)
  <2>1. q = [p EXCEPT !.errors = @ + 1]
    BY <1>3, <1>6, <1>7, <1>8, <1>10 DEF Apply
  <2> HIDE DEF q
  <2>2. /\ ParseRecord(q) /\ q.errors = p.errors + 1
        /\ q.argv = p.argv /\ q.optind = p.optind /\ q.place = p.place /\ q.done = p.done
    BY <1>9, <2>1 DEF ParseRecord
  <2>3. SetAsMeant(q, meant, n)
    BY <1>4, <1>5, <1>10, <2>2 DEF SetAsMeant
  <2> QED
    BY <2>2, <2>3 DEF q, c, s
<1>11. CASE ~Bad(s) /\ ~HasValue(s)
  <2>1. q = [p EXCEPT !.flags = @ \cup {c}]
    <3>1. c \in Flags \ {"h"} /\ c \notin {"h", BADCH} /\ c # "V" /\ c # "D"
      BY <1>2, <1>3, <1>6, <1>7, <1>11
    <3> QED
      BY <3>1 DEF Apply
  <2> HIDE DEF q
  <2>2. /\ ParseRecord(q) /\ q.errors = p.errors /\ q.flags = p.flags \cup {c}
        /\ q.values = p.values
        /\ q.argv = p.argv /\ q.optind = p.optind /\ q.place = p.place /\ q.done = p.done
    BY <1>9, <2>1 DEF ParseRecord
  <2>3. FlagsMeant(meant, n) = FlagsMeant(meant, n - 1) \cup {c}
        /\ \A values : ValuesMeant(values, meant, n - 1) => ValuesMeant(values, meant, n)
    BY <1>11, FlagMeant DEF c, s
  <2>4. SetAsMeant(q, meant, n)
    BY <1>4, <1>5, <1>11, <2>2, <2>3 DEF SetAsMeant
  <2> QED
    BY <2>2, <2>4 DEF q, c, s
<1>12. CASE ~Bad(s) /\ HasValue(s)
  <2>1. q = [p EXCEPT !.values = With(@, Field(c), v)]
    BY <1>2, <1>3, <1>6, <1>7, <1>8, <1>12 DEF Apply
  <2> HIDE DEF q
  <2>2. /\ ParseRecord(q) /\ q.errors = p.errors /\ q.flags = p.flags
        /\ q.values = With(p.values, Field(c), v)
        /\ q.argv = p.argv /\ q.optind = p.optind /\ q.place = p.place /\ q.done = p.done
    BY <1>9, <2>1 DEF ParseRecord
  <2>3. v = meant[n].v
    BY <1>12 DEF s, ValueOf
  <2>4. ASSUME p.errors = 0
        PROVE  q.flags = FlagsMeant(meant, n) /\ ValuesMeant(q.values, meant, n)
    <3>1. p.flags = FlagsMeant(meant, n - 1) /\ ValuesMeant(p.values, meant, n - 1)
      BY <2>4 DEF SetAsMeant
    <3>2. /\ FlagsMeant(meant, n) = FlagsMeant(meant, n - 1)
          /\ ValuesMeant(With(p.values, Field(meant[n].c), meant[n].v), meant, n)
      BY <1>12, <3>1, ValueMeant DEF s
    <3> QED
      BY <2>2, <2>3, <3>1, <3>2 DEF c, s
  <2>5. SetAsMeant(q, meant, n)
    BY <1>4, <1>5, <1>12, <2>2, <2>4 DEF SetAsMeant
  <2> QED
    BY <2>2, <2>5 DEF q, c, s
<1> QED
  BY <1>10, <1>11, <1>12

\* The scan is before the setting after the n-th, and what the ones before it
\* say has been set.
Scanned(p, meant, w, at, in, n) ==
  /\ w \in Seq(FullWords) /\ Holds(p.argv, w)
  /\ Scans(w, meant, at, in, Len(meant))
  /\ p.optind = at[n] /\ p.place = Place(w[at[n]].chars, in[n])
  /\ p.done => n = Len(meant)
  /\ SetAsMeant(p, meant, n)

ParseRight(p, meant) ==
  /\ meant \in Seq(Settings) /\ ParseRecord(p)
  /\ \E w, at, in : \E n \in 0 .. Len(meant) : Scanned(p, meant, w, at, in, n)

Scan(p, optind, place) == [p EXCEPT !.optind = optind, !.place = place]
End(p) == [p EXCEPT !.done = TRUE]

LEMMA ScanMoves ==
  ASSUME NEW p, ParseRecord(p), NEW a, NEW b
  PROVE  LET q == Scan(p, a, b)
         IN  /\ ParseRecord(q) /\ q.argv = p.argv /\ q.done = p.done /\ q.errors = p.errors
             /\ q.flags = p.flags /\ q.values = p.values /\ q.optind = a /\ q.place = b
<1> DEFINE x == [p EXCEPT !.optind = a]
           q == [x EXCEPT !.place = b]
<1>1. /\ ParseRecord(x) /\ x.argv = p.argv /\ x.done = p.done /\ x.errors = p.errors
      /\ x.flags = p.flags /\ x.values = p.values /\ x.optind = a
  BY DEF ParseRecord
<1> HIDE DEF x
<1>2. /\ ParseRecord(q) /\ q.argv = p.argv /\ q.done = p.done /\ q.errors = p.errors
      /\ q.flags = p.flags /\ q.values = p.values /\ q.optind = a /\ q.place = b
  BY <1>1 DEF ParseRecord
<1> HIDE DEF q
<1>3. q = Scan(p, a, b)
  BY DEF x, q, Scan
<1> QED
  BY <1>2, <1>3

LEMMA ScanEnds ==
  ASSUME NEW p, ParseRecord(p)
  PROVE  LET r == End(p)
         IN  /\ ParseRecord(r) /\ r.argv = p.argv /\ r.optind = p.optind /\ r.place = p.place
             /\ r.flags = p.flags /\ r.values = p.values /\ r.errors = p.errors
<1>0. PICK d : d = TRUE
  OBVIOUS
<1> DEFINE r == [p EXCEPT !.done = d]
<1>1. r.argv = p.argv /\ r.optind = p.optind /\ r.place = p.place
  BY DEF ParseRecord
<1>2. r.flags = p.flags /\ r.values = p.values /\ r.errors = p.errors
  BY DEF ParseRecord
<1>3. ParseRecord(r)
  BY DEF ParseRecord
<1> HIDE DEF r
<1>4. r = End(p)
  BY <1>0 DEF End, r
<1> QED
  BY <1>1, <1>2, <1>3, <1>4

LEMMA OptionRight ==
  ASSUME NEW p, NEW meant, ParseRight(p, meant), ~p.done
  PROVE  ParseRight(ParseOption(p), meant)
<1>1. PICK w, at, in : \E n \in 0 .. Len(meant) : Scanned(p, meant, w, at, in, n)
  BY DEF ParseRight
<1>2. PICK n \in 0 .. Len(meant) : Scanned(p, meant, w, at, in, n)
  BY <1>1
<1> DEFINE N == Len(meant)
           f == getopt(p.argv, p.optind, p.place)
<1>3. meant \in Seq(Settings) /\ N \in Nat /\ n \in Nat
  BY DEF ParseRight
<1>4. /\ w \in Seq(FullWords) /\ Holds(p.argv, w) /\ SetAsMeant(p, meant, n)
      /\ p.optind = at[n] /\ p.place = Place(w[at[n]].chars, in[n])
  BY <1>2 DEF Scanned
<1>5. /\ at \in [0 .. N -> Nat] /\ in \in [0 .. N -> Nat]
      /\ at[N] = Len(w) + 1 /\ in[N] = 0
      /\ \A k \in 1 .. N : Reads(w, meant[k], at[k - 1], in[k - 1], at[k], in[k])
  BY <1>2 DEF Scanned, Scans
<1>7. CASE n = N
  <2>1. f.c = EOF
    <3>1. p.optind = Len(w) + 1 /\ p.place = <<>>
      BY <1>4, <1>5, <1>7 DEF Place
    <3> QED
      BY <1>4, <3>1, getoptEnds
  <2> DEFINE r == End(p)
  <2>2. ParseOption(p) = r
    <3> HIDE DEF r
    <3> QED
      BY <2>1 DEF ParseOption, r, End
  <2>3. /\ ParseRecord(r) /\ r.argv = p.argv /\ r.optind = p.optind /\ r.place = p.place
        /\ r.flags = p.flags /\ r.values = p.values /\ r.errors = p.errors
    BY ScanEnds DEF ParseRight
  <2> HIDE DEF r
  <2>4. SetAsMeant(r, meant, n)
    BY <1>4, <2>3 DEF SetAsMeant
  <2>5. Scanned(r, meant, w, at, in, n)
    BY <1>2, <1>7, <2>3, <2>4 DEF Scanned
  <2> QED
    BY <1>3, <2>2, <2>3, <2>5 DEF ParseRight
<1>8. CASE n # N
  <2>1. n + 1 \in 1 .. N /\ (n + 1) - 1 = n /\ n + 1 \in 0 .. N
    BY <1>3, <1>8
  <2>2. PICK k \in 1 .. N : k = n + 1
    BY <2>1
  <2>3. PICK s \in Settings, o \in Nat, i \in Nat, o2 \in Nat, i2 \in Nat :
          s = meant[k] /\ o = at[n] /\ i = in[n] /\ o2 = at[k] /\ i2 = in[k]
    <3>1. k \in 0 .. N
      BY <2>1, <2>2
    <3>2. /\ meant[k] \in Settings /\ at[n] \in Nat /\ in[n] \in Nat
          /\ at[k] \in Nat /\ in[k] \in Nat
      BY <1>3, <1>5, <3>1
    <3> QED
      BY <3>2, Zenon
  <2>4. Reads(w, s, o, i, o2, i2)
    <3>1. Reads(w, meant[k], at[k - 1], in[k - 1], at[k], in[k])
      BY <1>5
    <3>2. k - 1 = n
      BY <2>1, <2>2
    <3> QED
      BY <2>3, <3>1, <3>2
  <2>5. LET g == getopt(p.argv, o, Place(w[o].chars, i))
        IN  /\ g.c = s.c /\ g.optind = o2 /\ g.place = Place(w[o].chars, i2)
            /\ HasValue(s) => Value(g.arg) = s.v
    BY <1>4, <2>4, getoptReads
  <2>6. /\ f.c = s.c /\ f.optind = o2 /\ f.place = Place(w[o].chars, i2)
        /\ HasValue(s) => Value(f.arg) = s.v
    <3>1. f = getopt(p.argv, o, Place(w[o].chars, i))
      BY <1>4, <2>3
    <3> HIDE DEF f
    <3> QED
      BY <2>5, <3>1
  <2> HIDE DEF f
  <2>7. f.place = Place(w[o2].chars, i2)
    <3>1. i2 # 0 => o2 = o
      BY <2>4 DEF Reads, InWord
    <3> QED
      BY <2>6, <3>1 DEF Place
  <2>8. s.c # EOF
    <3>1. s.c \in Flags \cup Valued
      BY DEF Settings
    <3> QED
      BY <3>1, LetterNames
  <2>15. PICK q : q = Scan(p, f.optind, f.place)
    OBVIOUS
  <2>9. ParseOption(p) = Apply(q, s.c, Value(f.arg))
    BY <2>6, <2>8, <2>15 DEF ParseOption, Scan, f
  <2>10. /\ ParseRecord(q) /\ q.argv = p.argv /\ q.done = p.done /\ q.errors = p.errors
         /\ q.flags = p.flags /\ q.values = p.values
         /\ q.optind = o2 /\ q.place = Place(w[o2].chars, i2)
    <3>1. /\ ParseRecord(q) /\ q.argv = p.argv /\ q.done = p.done /\ q.errors = p.errors
          /\ q.flags = p.flags /\ q.values = p.values
          /\ q.optind = f.optind /\ q.place = f.place
      BY <2>15, ScanMoves DEF ParseRight
    <3> QED
      BY <2>6, <2>7, <3>1
  <2>11. SetAsMeant(q, meant, k - 1)
    <3>1. k - 1 = n
      BY <2>1, <2>2
    <3> QED
      BY <1>4, <2>10, <3>1 DEF SetAsMeant
  <2> DEFINE r == Apply(q, s.c, Value(f.arg))
  <2>12. /\ ParseRecord(r) /\ SetAsMeant(r, meant, k)
         /\ r.argv = q.argv /\ r.optind = q.optind /\ r.place = q.place /\ r.done = q.done
    <3>1. ValueOf(meant[k], Value(f.arg))
      BY <2>3, <2>6 DEF ValueOf
    <3> QED
      BY <1>3, <2>3, <2>10, <2>11, <3>1, ApplyMeant, ZenonT(60)
  <2> HIDE DEF r
  <2>13. Scanned(r, meant, w, at, in, k)
    BY <1>2, <1>4, <2>3, <2>10, <2>12 DEF Scanned
  <2>14. k \in 0 .. N
    BY <1>3
  <2> QED
    BY <1>3, <2>9, <2>12, <2>13, <2>14 DEF ParseRight, r
<1> QED
  BY <1>7, <1>8

LEMMA NothingMeant ==
  ASSUME NEW meant
  PROVE  /\ Cardinality(BadOnes(meant, 0)) = 0
         /\ FlagsMeant(meant, 0) = {} /\ ValuesMeant(<<>>, meant, 0)
<1>1. 1 .. 0 = {}
  OBVIOUS
<1>2. BadOnes(meant, 0) = {} /\ FlagsMeant(meant, 0) = {} /\ FieldsMeant(meant, 0) = {}
  BY <1>1 DEF BadOnes, FlagsMeant, FieldsMeant
<1>3. <<>> = [f \in {} |-> <<>>[f]]
  OBVIOUS
<1> QED
  BY <1>2, <1>3, FS_EmptySet DEF ValuesMeant

LEMMA ParseStarts ==
  ASSUME NEW file \in Files, file # <<>>, NEW name, NEW meant, SpellsOut(file, name, meant)
  PROVE  ParseRight(Parse(ArgsOf(file, name)), meant)
<1>1. PICK w : Told(w, meant, Len(meant)) /\ Holds(ArgsOf(file, name), w)
  BY ArgsTold
<1>2. PICK at, in : Scans(w, meant, at, in, Len(meant))
  BY <1>1 DEF Told
<1>3. PICK argv : argv = ArgsOf(file, name)
  OBVIOUS
<1> DEFINE p == Parse(argv)
<1>4. /\ p.argv = argv /\ p.optind = 1 /\ p.place = <<>> /\ p.done = FALSE
      /\ p.flags = {} /\ p.values = <<>> /\ p.errors = 0
  BY DEF Parse
<1>5. ParseRecord(p)
  BY DEF Parse, ParseRecord
<1> HIDE DEF p
<1>6. meant \in Seq(Settings) /\ 0 \in 0 .. Len(meant)
  BY DEF SpellsOut
<1>7. at[0] = 1 /\ in[0] = 0
  BY <1>2 DEF Scans
<1>8. SetAsMeant(p, meant, 0)
  BY <1>4, NothingMeant DEF SetAsMeant
<1>9. Scanned(p, meant, w, at, in, 0)
  BY <1>1, <1>2, <1>3, <1>4, <1>7, <1>8 DEF Scanned, Told, Place
<1> QED
  BY <1>3, <1>5, <1>6, <1>9 DEF ParseRight, p

\* What a list of settings means, set beside the fields that have been set for
\* it: they agree where -J has no part.
LEMMA MeaningOf ==
  ASSUME NEW meant \in Seq(Settings), NEW values, ValuesMeant(values, meant, Len(meant)),
         NEW m, m = Meaning(meant)
  PROVE  /\ m.flags = FlagsMeant(meant, Len(meant))
         /\ Without(values, Confused(m.values)) = Without(m.values, Confused(m.values))
<1> DEFINE N == Len(meant)
           given == {meant[k].c : k \in {j \in 1 .. N : HasValue(meant[j])}}
           latest(c, k) == meant[k].c = c /\ \A i \in 1 .. N : meant[i].c = c => i <= k
           last(c) == CHOOSE k \in 1 .. N : latest(c, k)
           away == Confused(m.values)
<1>1. DOMAIN meant = 1 .. N /\ N \in Nat
  OBVIOUS
<1>2. m = [flags |-> FlagsMeant(meant, N), values |-> [c \in given |-> meant[last(c)].v]]
  BY <1>1 DEF Meaning, FlagsMeant
<1>3. m.flags = FlagsMeant(meant, N) /\ m.values = [c \in given |-> meant[last(c)].v]
  BY <1>2
<1>4. DOMAIN m.values = given /\ DOMAIN values = FieldsMeant(meant, N)
  BY <1>3 DEF ValuesMeant
<1>5. "J" \in Valued
  BY DEF Valued
<1>6. \A k \in 1 .. N : meant[k].c = "J" => "J" \in given
  BY <1>5 DEF HasValue
<1>7. \A k \in 1 .. N : meant[k].c = "J" => away = {"j", "J"}
  BY <1>4, <1>6 DEF Confused
<1>8. ASSUME NEW c, c \notin away, NEW k \in 1 .. N
      PROVE  Field(meant[k].c) = c <=> meant[k].c = c
  BY <1>7, <1>8 DEF Field
<1> HIDE DEF away
<1>9. ASSUME NEW c, c \notin away
      PROVE  c \in given <=> c \in FieldsMeant(meant, N)
  BY <1>8, <1>9 DEF FieldsMeant
<1>10. ASSUME NEW c, c \notin away, c \in given
       PROVE  values[c] = m.values[c]
  <2>1. PICK k \in 1 .. N : IsLast(meant, N, c, k) /\ values[c] = meant[k].v
    BY <1>9, <1>10 DEF ValuesMeant
  <2>2. latest(c, k)
    BY <1>8, <1>10, <2>1 DEF IsLast
  <2>3. \A j \in 1 .. N : latest(c, j) => j = k
    BY <2>2
  <2>4. last(c) = k
    BY <2>2, <2>3
  <2> QED
    BY <1>3, <1>10, <2>1, <2>4
<1> HIDE DEF given, last, latest
<1>11. DOMAIN values \ away = DOMAIN m.values \ away
  BY <1>4, <1>9
<1>12. \A c \in DOMAIN m.values \ away : values[c] = m.values[c]
  BY <1>4, <1>10
<1>13. Without(values, away) = Without(m.values, away)
  BY <1>11, <1>12 DEF Without
<1> QED
  BY <1>3, <1>13 DEF away

LEMMA ParseEnds ==
  ASSUME NEW p, NEW meant, ParseRight(p, meant), p.done,
         NEW m, m = Meaning(meant)
  PROVE  /\ p.errors = Cardinality({k \in DOMAIN meant : Bad(meant[k])})
         /\ p.errors = 0 =>
              /\ p.flags = m.flags
              /\ Without(p.values, Confused(m.values)) = Without(m.values, Confused(m.values))
<1>1. meant \in Seq(Settings) /\ DOMAIN meant = 1 .. Len(meant)
  BY DEF ParseRight
<1>2. SetAsMeant(p, meant, Len(meant))
  BY DEF ParseRight, Scanned
<1>3. p.errors = Cardinality({k \in DOMAIN meant : Bad(meant[k])})
  BY <1>1, <1>2 DEF SetAsMeant, BadOnes
<1>4. ASSUME p.errors = 0
      PROVE  /\ p.flags = m.flags
             /\ Without(p.values, Confused(m.values)) = Without(m.values, Confused(m.values))
  <2>1. p.flags = FlagsMeant(meant, Len(meant)) /\ ValuesMeant(p.values, meant, Len(meant))
    BY <1>2, <1>4 DEF SetAsMeant
  <2> QED
    BY <1>1, <2>1, MeaningOf
<1> QED
  BY <1>3, <1>4

SpeltInv ==
  /\ pc \in {"boot", "file"} => SpellsOut(opt.file, "vusermain0", opt.meant)
  /\ pc = "parse" => ParseRight(opt.p, opt.meant)

LEMMA SpeltStarts ==
  ASSUME FilesSpell, Init
  PROVE  SpeltInv
<1>1. PICK c \in Commands : opt = [file |-> c.file, meant |-> c.meant, p |-> Parse(<<>>)]
  BY DEF Init
<1>2. opt.file = c.file /\ opt.meant = c.meant
  BY <1>1
<1>3. pc = "boot"
  BY DEF Init
<1> QED
  BY <1>2, <1>3 DEF SpeltInv, FilesSpell

LEMMA SpeltStep ==
  ASSUME ConfInv, SpeltInv, [Next]_vars
  PROVE  SpeltInv'
<1>1. ASSUME opt' = opt,
             pc' \in {"boot", "file"} => pc \in {"boot", "file"},
             pc' = "parse" => pc = "parse"
      PROVE  SpeltInv'
  BY <1>1 DEF SpeltInv
<1>2. CASE UNCHANGED vars
  BY <1>1, <1>2 DEF vars
<1>3. CASE Moves \/ Loading \/ Instruction
  BY <1>1, <1>3, MovesKeep, LoadingKeeps, InstructionKeeps
<1>4. CASE OpenFile
  <2>1. ParseRight(Parse(ArgsOf(opt.file, "vusermain0")), opt.meant)
    BY <1>4, ParseStarts DEF ConfInv, SpeltInv, OpenFile
  <2>2. pc' = "parse" /\ opt' = [opt EXCEPT !.p = Parse(ArgsOf(opt.file, "vusermain0"))]
    BY <1>4 DEF OpenFile
  <2>3. opt'.p = Parse(ArgsOf(opt.file, "vusermain0")) /\ opt'.meant = opt.meant
    BY <2>2 DEF ConfInv
  <2> QED
    BY <2>1, <2>2, <2>3 DEF SpeltInv
<1>5. CASE parseArgs
  <2>1. ParseRight(ParseOption(opt.p), opt.meant)
    BY <1>5, OptionRight DEF SpeltInv, parseArgs
  <2>2. pc' = "parse" /\ opt' = [opt EXCEPT !.p = ParseOption(opt.p)]
    BY <1>5 DEF parseArgs
  <2>3. opt'.p = ParseOption(opt.p) /\ opt'.meant = opt.meant
    BY <2>2 DEF ConfInv
  <2> QED
    BY <2>1, <2>2, <2>3 DEF SpeltInv
<1>6. CASE Parsed
  <2>1. pc' \in {"setup", "sleep"}
    BY <1>6 DEF Parsed
  <2> QED
    BY <2>1 DEF SpeltInv
<1>7. CASE pre_run_setup
  BY <1>1, <1>7 DEF pre_run_setup
<1>8. CASE iss_int_callback
  BY <1>1, <1>8 DEF iss_int_callback
<1>9. ASSUME NEW a \in Program.fetches, Fetch(a)
      PROVE  SpeltInv'
  BY <1>1, <1>9 DEF Fetch
<1> QED
  BY Steps, <1>2, <1>3, <1>4, <1>5, <1>6, <1>7, <1>8, <1>9

\* However the options are written, flags together or apart, values in the
\* word of their letter or in the next, the line ended or not: what has been
\* set is what the usage text says of the settings, the last of several values,
\* and an error is seen for exactly the bad ones.  For settings, however many,
\* of every file that spells them out.  When -J is among them nothing is said
\* of the bounds of the cached region, which parseArgs mixes up.
THEOREM ParsesRight == FilesSpell => (Spec => []ParsedRight)
<1> SUFFICES ASSUME FilesSpell
             PROVE  Spec => []ParsedRight
  OBVIOUS
<1>1. Init => SpeltInv
  BY SpeltStarts
<1>2. Inv /\ SpeltInv /\ [Next]_vars => SpeltInv'
  BY SpeltStep DEF Inv
<1>3. SpeltInv => ParsedRight
  <2> SUFFICES ASSUME SpeltInv, pc = "parse", opt.p.done, NEW m, m = Meaning(opt.meant)
               PROVE  /\ opt.p.errors = Cardinality({k \in DOMAIN opt.meant : Bad(opt.meant[k])})
                      /\ opt.p.errors = 0 =>
                           /\ opt.p.flags = m.flags
                           /\ Without(opt.p.values, Confused(m.values))
                              = Without(m.values, Confused(m.values))
    BY DEF ParsedRight
  <2> QED
    BY ParseEnds DEF SpeltInv
<1> QED
  BY Inductive, <1>1, <1>2, <1>3, PTL DEF Spec
=============================================================================
