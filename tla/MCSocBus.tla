------------------------------ MODULE MCSocBus ------------------------------
(***************************************************************************)
(* Values for the constants of SocBus: words of one byte, zero or one.     *)
(***************************************************************************)
EXTENDS SocBus

\* What the CPU writes, and what memory holds at power-up; the host writes both.
MCCpuWords == [{0} -> {1}]
=============================================================================
