---------------------------- MODULE Rv32Options ----------------------------
(***************************************************************************)
(* 5.sim/models/rv32/usercode/vuserutils.cpp (parseArgs) and getopt.c: how *)
(* the processor node reads its options.  They stand in a line of          *)
(* vusermain.cfg that begins with the node's name.                         *)
(*                                                                         *)
(* A word of the line is a leading dash, or none, and a sequence of        *)
(* characters; what may be the value of an option counts as one character. *)
(***************************************************************************)
EXTENDS Integers, Sequences, FiniteSets

Word(dash, chars) == [dash |-> dash, chars |-> chars]
NoWord == Word(FALSE, <<>>)

\* The option string: which letters there are, and which take a value.
Flags == {"b", "r", "d", "H", "T", "e", "E", "g", "C", "a", "h", "R", "c", "I", "B"}
Valued == {"t", "n", "A", "D", "p", "S", "x", "X", "l", "w", "s", "j", "J", "P", "V", "L"}

Cores ==
  {"DEFAULT", "PICORV32", "EDUBOS5STG2", "EDUBOS5STG3", "IBEXMULSGL", "IBEXMULFAST",
   "IBEXMULSLOW"}

\* File names that cannot be opened for writing.
Unwritable == {"unwritable"}

(* A parse in progress: the words, getopt's place and optind, and what has *)
(* been set: the flags, and a value for each option that has been given.   *)
Parse(argv) ==
  [argv |-> argv, optind |-> 1, place |-> <<>>, done |-> FALSE,
   flags |-> {}, values |-> <<>>, errors |-> 0]
-----------------------------------------------------------------------------
(* getopt: the next option, its value, and the scan after it.  Word 0 of   *)
(* argv is the program's name.                                             *)
Found(c, arg, optind, place) == [c |-> c, arg |-> arg, optind |-> optind, place |-> place]
EOF == "EOF"
BADCH == "?"

\* Faulty variant: after a value the scan goes on inside its word.
AfterArgumentStays(optind, rest) == <<optind, rest>>

\* The word that held the value is done with.
AfterArgument(optind, rest) == <<optind + 1, <<>>>>

Letter(argv, optind, place) ==
  LET c == Head(place)
      rest == Tail(place)
      passed == IF rest = <<>> THEN optind + 1 ELSE optind
  IN  IF c \in Flags THEN Found(c, NoWord, passed, rest)
      ELSE IF c \notin Valued THEN Found(BADCH, NoWord, passed, rest)
      ELSE IF rest # <<>>
           THEN LET after == AfterArgument(optind, rest)
                IN  Found(c, Word(FALSE, rest), after[1], after[2])
      ELSE IF optind + 1 >= Len(argv) THEN Found(BADCH, NoWord, optind + 2, <<>>)
      ELSE LET after == AfterArgument(optind + 1, <<>>)
           IN  Found(c, argv[optind + 2], after[1], after[2])

getopt(argv, optind, place) ==
  IF place # <<>> THEN Letter(argv, optind, place)
  ELSE IF optind >= Len(argv) \/ ~argv[optind + 1].dash THEN Found(EOF, NoWord, optind, <<>>)
  ELSE LET chars == argv[optind + 1].chars
       IN  IF chars = <<>> THEN Found(BADCH, NoWord, optind + 1, <<>>)   \* a dash alone
           ELSE IF Head(chars) = "-" THEN Found(EOF, NoWord, optind + 1, <<>>)
           ELSE Letter(argv, optind, chars)
-----------------------------------------------------------------------------
(* The switch of parseArgs.  Values are kept as given, each in a field of  *)
(* the configuration; -J goes to the field of -j, the base of the cached   *)
(* region.                                                                 *)
Field(c) == IF c = "J" THEN "j" ELSE c

With(values, f, v) == [g \in DOMAIN values \cup {f} |-> IF g = f THEN v ELSE values[g]]

Value(arg) == IF arg.chars = <<>> THEN "" ELSE Head(arg.chars)

Apply(p, c, v) ==
  CASE c \in {"h", BADCH} -> [p EXCEPT !.errors = @ + 1]
    [] c \in Flags \ {"h"} -> [p EXCEPT !.flags = @ \cup {c}]
    [] c = "V" /\ v \notin Cores -> [p EXCEPT !.errors = @ + 1]
    [] c = "D" /\ v \in Unwritable -> [p EXCEPT !.errors = @ + 1]
    [] OTHER -> [p EXCEPT !.values = With(@, Field(c), v)]

\* One turn of the loop of parseArgs.
ParseOption(p) ==
  LET f == getopt(p.argv, p.optind, p.place)
      q == [p EXCEPT !.optind = f.optind, !.place = f.place]
  IN  IF f.c = EOF THEN [p EXCEPT !.done = TRUE] ELSE Apply(q, f.c, Value(f.arg))
-----------------------------------------------------------------------------
(* The file: strtok splits its lines, and the words of the first line with *)
(* the node's name are taken, the end of line off the last word's end.     *)
(* When there is no such line the split of the last line is carried on     *)
(* with: what follows its first word is taken.  No file, or an empty file  *)
(* (nothing to carry on with), is undefined.                               *)
LineEnds == {"LF", "CR"}

Strip(w) ==
  IF w.chars # <<>> /\ w.chars[Len(w.chars)] \in LineEnds
  THEN [w EXCEPT !.chars = SubSeq(@, 1, Len(@) - 1)] ELSE w

ArgsOf(file, name) ==
  LET mine == {i \in DOMAIN file : file[i].name = name}
      first == CHOOSE i \in mine : \A k \in mine : i <= k
      stripped(s) == [k \in DOMAIN s |-> Strip(s[k])]
  IN  IF mine # {}
      THEN <<Word(FALSE, <<name>>)>> \o stripped(file[first].words)
      ELSE stripped(file[Len(file)].words)
-----------------------------------------------------------------------------
(* What a line means, and how it is written: a list of settings, each with *)
(* a value or none, of which some follow their predecessor in its word and *)
(* some have their value in the word of the letter.                        *)
Setting(c, v) == [c |-> c, v |-> v]
HasValue(s) == s.c \in Valued

\* Only a flag can be followed in its word.
Joinable(meant) == {k \in 2 .. Len(meant) : ~HasValue(meant[k - 1])}
Attachable(meant) == {k \in 1 .. Len(meant) : HasValue(meant[k])}

\* The words of the first n settings.
Spelling(meant, joined, attached) ==
  LET letter(k) == <<meant[k].c>> \o (IF k \in attached THEN <<meant[k].v>> ELSE <<>>)
      value(k) ==
        IF HasValue(meant[k]) /\ k \notin attached THEN <<Word(FALSE, <<meant[k].v>>)>> ELSE <<>>
      words[n \in 0 .. Len(meant)] ==
        IF n = 0 THEN <<>>
        ELSE LET w == words[n - 1]
             IN  IF n \in joined
                 THEN SubSeq(w, 1, Len(w) - 1)
                      \o <<[w[Len(w)] EXCEPT !.chars = @ \o letter(n)]>> \o value(n)
                 ELSE w \o <<Word(TRUE, letter(n))>> \o value(n)
  IN  words[Len(meant)]

Ended(words) ==
  IF words = <<>> THEN words
  ELSE [words EXCEPT ![Len(words)].chars = @ \o <<"LF">>]

Spellings(meant) ==
  LET spelled == {Spelling(meant, joined, attached) :
                    joined \in SUBSET Joinable(meant), attached \in SUBSET Attachable(meant)}
  IN  spelled \cup {Ended(words) : words \in spelled}

\* A file that says what is meant: in its first line for the node, or, when it
\* has none, behind the first word of its last line.
Settings == [c : Flags \cup Valued, v : STRING \ LineEnds]

SpellsOut(file, name, meant) ==
  LET mine == {i \in DOMAIN file : file[i].name = name}
      last == file[Len(file)].words
  IN  /\ meant \in Seq(Settings)
      /\ mine # {} => \E i \in mine : (\A k \in mine : i <= k) /\ file[i].words \in Spellings(meant)
      /\ mine = {} => \/ last = <<>> /\ meant = <<>>
                      \/ last # <<>> /\ Tail(last) \in Spellings(meant)

(* What the settings mean by the usage text (vuserutils.cpp:228-263): each *)
(* letter is a setting of its own, and its last value counts.              *)
Meaning(meant) ==
  LET last(c) == CHOOSE k \in DOMAIN meant :
                   meant[k].c = c /\ \A i \in DOMAIN meant : meant[i].c = c => i <= k
      given == {meant[k].c : k \in {i \in DOMAIN meant : HasValue(meant[i])}}
  IN  [flags |-> {meant[k].c : k \in {i \in DOMAIN meant : ~HasValue(meant[i])}},
       values |-> [c \in given |-> meant[last(c)].v]]
=============================================================================
