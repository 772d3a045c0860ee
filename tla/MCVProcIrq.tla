----------------------------- MODULE MCVProcIrq -----------------------------
(***************************************************************************)
(* The run of VProcIrq.  VProcIrqClass inherits its accesses from VProc;   *)
(* their byte arithmetic is evaluated here for every offset and for        *)
(* lengths of up to four words, and proved for all in VProcIrq_proofs.    *)
(***************************************************************************)
EXTENDS VProcIrq, VProcClass

Addresses == 0 .. 11

ASSUME BurstsOnSmallLengths ==
  \A byteaddr \in Addresses, bytelen \in 1 .. 16 :
    WordsTouched(byteaddr, bytelen) /\ BytesExact(byteaddr, bytelen)

ASSUME ShortAccesses ==
  \A byteaddr \in Addresses, size \in {1, 2, 4} : ShortExact(byteaddr, size)
=============================================================================
