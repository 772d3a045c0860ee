------------------------------- MODULE MCRv32 -------------------------------
(***************************************************************************)
(* Instance of Rv32 for TLC: a handful of programs, each exercising one    *)
(* kind of access, and command lines in every spelling that run them.      *)
(***************************************************************************)
EXTENDS Rv32

Nothing ==
  [image |-> <<1, 2, 3, 4, 5, 6>>, at |-> 0, fetches |-> {0}, loads |-> {}, stores |-> {},
   data |-> {}, regs |-> {}, swirq |-> {}]

Data == {[i \in 0 .. 3 |-> i + 11], [i \in 0 .. 3 |-> i + 21]}

MCPrograms ==
  [p \in {"test.exe", "ram.elf", "bus.elf", "words.bin", "image.bin", "fetch.elf", "uart.elf"} |->
     CASE p = "ram.elf" ->
            [Nothing EXCEPT !.loads = {<<0, "word">>, <<2, "hword">>, <<1, "byte">>, <<4, "word">>},
                            !.stores = {<<0, "word">>, <<2, "hword">>, <<3, "byte">>},
                            !.data = Data]
       [] p = "bus.elf" ->
            [Nothing EXCEPT !.loads = {<<8192, "word">>, <<8194, "hword">>, <<8193, "byte">>},
                            !.stores = {<<8192, "word">>, <<8194, "hword">>, <<8193, "byte">>, <<0, "byte">>},
                            !.data = Data]
       [] p = "words.bin" ->
            [Nothing EXCEPT !.image = @ \o <<7, 8>>,
                            !.loads = {<<0, "word">>, <<4, "byte">>, <<6, "hword">>, <<8, "word">>}]
       [] p = "image.bin" ->
            [Nothing EXCEPT !.loads = {<<0, "word">>, <<4, "byte">>, <<6, "hword">>},
                            !.swirq = {0, 1}]
       [] p = "fetch.elf" -> [Nothing EXCEPT !.fetches = {0, 4, 2048, 4096, 8192, 40000}]
       [] p = "uart.elf" -> [Nothing EXCEPT !.regs = {"RBR", "IER", "LSR"}]
       [] OTHER -> Nothing]

MCNumerals ==
  [v \in {"0", "1", "2", "4", "7", "128", "0x2000", "0x4000"} |->
     CASE v = "0" -> 0 [] v = "1" -> 1 [] v = "2" -> 2 [] v = "4" -> 4 [] v = "7" -> 7
       [] v = "128" -> 128 [] v = "0x2000" -> 8192 [] v = "0x4000" -> 16384]

S(c, v) == Setting(c, v)
F(c) == Setting(c, "")

\* An image of whole words at two places, and one whose last two bytes are kept
\* because its load address is at a half word.
Meant ==
  {<<F("H"), S("t", "ram.elf"), F("E")>>,
   <<S("t", "bus.elf"), S("x", "0x2000"), F("r"), S("X", "0x4000"), S("V", "PICORV32")>>,
   <<F("B"), S("t", "words.bin")>>,
   <<F("B"), S("L", "4"), S("t", "words.bin")>>,
   <<F("B"), S("L", "2"), S("t", "image.bin")>>,
   <<S("t", "fetch.elf"), F("C"), F("I"), S("P", "1")>>,
   <<S("t", "fetch.elf"), F("I"), S("w", "1"), S("l", "4"), S("s", "128"), S("V", "EDUBOS5STG2")>>,
   <<S("t", "fetch.elf"), F("I"), S("w", "7")>>,
   <<S("t", "ram.elf"), S("t", "uart.elf")>>,
   <<F("g"), S("p", "7")>>,
   <<F("g"), S("t", "ram.elf")>>,
   <<S("t", "missing.elf")>>,
   <<F("h")>>,
   <<S("V", "none"), S("n", "1"), F("h")>>,
   <<S("D", "unwritable")>>,
   <<S("t", "fetch.elf"), F("I"), S("x", "0x2000"), S("X", "0x4000")>>,
   <<S("t", "fetch.elf"), F("I"), S("j", "0x2000"), S("J", "0x4000")>>}

\* Every spelling, ended or not; the line of another node comes first.
Lines0(m) ==
  LET other == [name |-> "vusermain1", words |-> <<Word(TRUE, <<"h", "LF">>)>>]
  IN  {<<other, [name |-> "vusermain0", words |-> w]>> : w \in Spellings(m)}

\* No line for the node: what follows the first word of the last line counts,
\* the first of it as the name of the program.
NoLine(m) ==
  {<<[name |-> "vusermain9", words |-> <<Word(TRUE, <<"h">>)>> \o Spelling(m, {}, {})]>>}

MCCommands ==
  UNION {{[file |-> f, meant |-> m] : f \in Lines0(m)} : m \in Meant}
    \cup UNION {{[file |-> f, meant |-> m] : f \in NoLine(m)} : m \in Meant}
    \cup {[file |-> <<[name |-> "vusermain0LF", words |-> <<>>]>>, meant |-> <<>>]}

ASSUME FilesAssumption == FilesSpell

MCDataBytes == (0 .. 11) \cup (8192 .. 8195)
=============================================================================
