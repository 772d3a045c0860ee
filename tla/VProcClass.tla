----------------------------- MODULE VProcClass -----------------------------
(***************************************************************************)
(* 5.sim/models/cosim/include/VProcClass.h: accesses of bytes, half words  *)
(* and runs of bytes on a virtual processor whose bus knows only words     *)
(* with byte enables.  A word access is a word address and a set of lanes; *)
(* a burst is a word address, a number of words, and the enables of its    *)
(* first and last word, which f_VProc.v puts on the bus beat by beat.      *)
(*                                                                         *)
(* The addresses are 32 bits wide in the code; every sum here is used only *)
(* modulo 4, which an overflow does not change.                            *)
(***************************************************************************)
EXTENDS Integers

Lanes == 0 .. 3

Aligned(byteaddr) == byteaddr - (byteaddr % 4)

\* The lane of the lowest byte of an access of size 1, 2 or 4: the data is
\* shifted up to it by a write and down from it by a read.
Shift(byteaddr, size) == (byteaddr % 4) - (byteaddr % size)

ShortLanes(byteaddr, size) ==
  {b \in Lanes : Shift(byteaddr, size) <= b /\ b < Shift(byteaddr, size) + size}
-----------------------------------------------------------------------------
(* calcWordLen: the lanes of the first and of the last byte, and how many  *)
(* words the bytes touch.                                                  *)

foff(byteaddr) == byteaddr % 4
loff(byteaddr, bytelen) == (byteaddr + bytelen - 1) % 4

calcWordLen(byteaddr, bytelen) ==
  bytelen \div 4
    + (IF loff(byteaddr, bytelen) < foff(byteaddr) THEN 1 ELSE 0)
    + (IF bytelen % 4 # 0 THEN 1 ELSE 0)

\* The enables that burstWriteBytes hands over.
FirstEnables(byteaddr) == {b \in Lanes : b >= foff(byteaddr)}
LastEnables(byteaddr, bytelen) == {b \in Lanes : b <= loff(byteaddr, bytelen)}

(* What the scheduler drives in beat w of a burst of more than one word.   *)
(* In a burst of a single word only the first enables are looked at.       *)
BE(byteaddr, bytelen, w) ==
  IF w = 0 THEN FirstEnables(byteaddr)
  ELSE IF w = calcWordLen(byteaddr, bytelen) - 1 THEN LastEnables(byteaddr, bytelen)
  ELSE Lanes

\* Lane b of beat w carries this element of the caller's data, both ways.
DataIndex(byteaddr, w, b) == 4 * w + b - foff(byteaddr)

\* The byte that lane b of beat w writes.
ByteAddress(byteaddr, w, b) == Aligned(byteaddr) + 4 * w + b

\* The lanes of all beats that are enabled.
Enabled(byteaddr, bytelen) ==
  {p \in (0 .. calcWordLen(byteaddr, bytelen) - 1) \X Lanes :
     p[2] \in BE(byteaddr, bytelen, p[1])}
-----------------------------------------------------------------------------
(* A burst of bytes at any address and of any length takes the words the   *)
(* bytes lie in, no more and no fewer, though that is computed from three  *)
(* remainders (VProcClass.h:101-106).                                      *)
WordsTouched(byteaddr, bytelen) ==
  calcWordLen(byteaddr, bytelen)
    = (byteaddr + bytelen - 1) \div 4 - byteaddr \div 4 + 1

(* A short access at a multiple of its size uses the lanes of its own     *)
(* bytes, and one at any other address stays in its word                   *)
(* (VProcClass.h:44-61).                                                   *)
ShortExact(byteaddr, size) ==
  LET bytes == {Aligned(byteaddr) + b : b \in ShortLanes(byteaddr, size)}
      start == byteaddr - (byteaddr % size)
  IN  bytes = start .. start + size - 1

(* The enables of a burst write (VProcClass.h:75-80, f_VProc.v:219,        *)
(* 261-269) let through the bytes of the caller and no neighbour of them,  *)
(* each with its own element of the data; a burst that fits into a single  *)
(* word needs both sets of enables for that.                               *)
BytesExact(byteaddr, bytelen) ==
  LET enabled == Enabled(byteaddr, bytelen)
      bytes == byteaddr .. byteaddr + bytelen - 1
  IN  /\ \A p \in enabled :
           DataIndex(byteaddr, p[1], p[2]) = ByteAddress(byteaddr, p[1], p[2]) - byteaddr
      /\ calcWordLen(byteaddr, bytelen) > 1 =>
           {ByteAddress(byteaddr, p[1], p[2]) : p \in enabled} = bytes
      /\ calcWordLen(byteaddr, bytelen) = 1 =>
           {ByteAddress(byteaddr, 0, b) :
              b \in FirstEnables(byteaddr) \cap LastEnables(byteaddr, bytelen)} = bytes
=============================================================================
