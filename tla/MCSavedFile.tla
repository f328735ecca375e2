---------------------------- MODULE MCSavedFile -----------------------------
(***************************************************************************)
(* Three savers, a short value and a long one.                             *)
(***************************************************************************)
EXTENDS SavedFile, TLC

CONSTANTS w1, w2, w3, short, long, noSave, f1, f2, f3, f4, noFile

MCSize(v) == IF v = long THEN 2 ELSE 1

\* Files and savers are interchangeable.
Symmetry == Permutations({w1, w2, w3}) \cup Permutations({f1, f2, f3, f4})
=============================================================================
