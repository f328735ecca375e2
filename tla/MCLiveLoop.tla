----------------------------- MODULE MCLiveLoop -----------------------------
(***************************************************************************)
(* LiveLoop with one projection, one process manager and one caller;       *)
(* the cfg files choose which operations and which faults occur.           *)
(***************************************************************************)
EXTENDS LiveLoop, TLC

CONSTANTS p1, m1, c1

MCOrder     == <<p1, m1>>
MCTriggers  == {"trigger"}
MCDecodable == {"trigger"}
MCEnvelopes(m, e) == IF e = "trigger" THEN 1 ELSE 0

Handle      == {"start_live", "shutdown", "watch"}
StartAndStop == c1 :> {"start_live", "shutdown"}
WholeHandle == c1 :> Handle
LiveAndRead == c1 :> Handle \cup {"projection"}
LiveAndPull == c1 :> {"start_live", "live_projection", "run_process_managers"}
=============================================================================
