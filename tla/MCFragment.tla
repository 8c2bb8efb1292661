------------------------------ MODULE MCFragment ------------------------------
(* A small instance: packets of two sizes, two or three fragments each. *)
EXTENDS Fragment

LengthDef == [p \in Packet |-> CASE p % 3 = 0 -> 13 [] p % 3 = 1 -> 24 [] OTHER -> 30]
===============================================================================
