---------------------------- MODULE MCPolicyGate ----------------------------
EXTENDS PolicyGate, TLC

CONSTANTS a, b, c

(* The first two ids are messages of one sender. *)
MCSenderOf == (1 :> a) @@ (2 :> a) @@ (3 :> b) @@ (4 :> c)
=============================================================================
