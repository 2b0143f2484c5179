----------------------------- MODULE MCRegistry -----------------------------
EXTENDS Registry, TLC

(* Nothing tells one id a browser made up from another. *)
MadeUp == Permutations(Provisional)
=============================================================================
