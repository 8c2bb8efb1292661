------------------------------- MODULE MCMulti -------------------------------
(* A small instance.  Both names have a network that covers address 1 of the
   pool, the second the smaller one; the second is pushed a host address. *)
EXTENDS Multi

CONSTANTS r1, r2, c1, c2, h1, n8, n24

HandleDef == 0 .. 1
NetBitsDef == [n \in Net |-> IF n = n8 THEN 8 ELSE 24]
CoversDef == [n \in Net |-> {1}]
IroutesDef == [c \in CN |-> IF c = c1 THEN <<n8>> ELSE <<n24>>]
PushDef == [c \in CN |-> IF c = c1 THEN {NoAddr} ELSE {h1}]
Symmetry == Permutations(Real)
===============================================================================
