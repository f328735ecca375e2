----------------------------- MODULE MCRunners ------------------------------
(***************************************************************************)
(* Runners with one projection and two process managers, on events that    *)
(* every manager answers with one command, that nobody reacts to, and that *)
(* are not eventfold-es events at all.                                     *)
(***************************************************************************)
EXTENDS Runners, TLC

CONSTANTS p1, m1, m2, c1, c2

MCOrder        == <<p1, m1, m2>>
MCOrderOne     == <<p1, m1>>
MCEvents       == {"trigger", "foreign"}
MCDecodable    == {"trigger"}
MCEnvelopes(m, e) == IF e = "trigger" THEN 1 ELSE 0

Both == {"projection", "run_process_managers"}
EachDoesBoth   == (c1 :> Both) @@ (c2 :> Both)
EachDoesOne    == (c1 :> {"run_process_managers"}) @@ (c2 :> {"projection"})
=============================================================================
