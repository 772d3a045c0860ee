------------------------------ MODULE MCLtssm ------------------------------
(***************************************************************************)
(* Values for the constants of Ltssm.  A training sequence takes four      *)
(* units, and the starts and delays cover every alignment of the two ends. *)
(***************************************************************************)
EXTENDS Ltssm

CONSTANTS a, b

MCNode == {a, b}

Both(p) == [n \in MCNode |-> p]
Pair(p, q) == [n \in MCNode |-> IF n = a THEN p ELSE q]

\* Defaults, each forced test, different settings that agree on the link
\* number, settings that do not, tests taken at random, and a bad call.
MCPrograms ==
  {Both(<<>>),
   Both(<< <<"force_tests", DISABLE>> >>),
   Both(<< <<"force_tests", LOOPBACK>> >>),
   Pair(<< <<"force_tests", COMPLIANCE>> >>, << <<"poll_tx_count", 24>> >>),
   Pair(<< <<"linknum", 261>>, <<"n_fts", 300>> >>,
        << <<"linknum", 5>>, <<"linknum", NoChange>>, <<"quiet_to", 30>> >>),
   Pair(<< <<"linknum", 1>> >>, <<>>),
   Pair(<< <<"enable_tests", LOOPBACK>> >>, << <<"enable_tests", DISABLE + COMPLIANCE>> >>),
   Pair(<< <<"gen2", 1>> >>, <<>>)}
=============================================================================
