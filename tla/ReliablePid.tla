----------------------------- MODULE ReliablePid -----------------------------
(***************************************************************************)
(* Packet-id comparison of the control channel (reliable.c:47-99).  A      *)
(* packet id is an unsigned machine word that wraps around.  Half is half  *)
(* of its range: 0x80000000u in the code, where a word has 32 bits.        *)
(***************************************************************************)
EXTENDS Integers

CONSTANT Half

ASSUME HalfAssumption == Half \in Nat \ {0}

Modulus == 2 * Half

PacketId == 0 .. (Modulus - 1)

(* Unsigned addition and subtraction of two words, by what they do: wrap.  *)
Plus(a, b)  == IF a + b < Modulus THEN a + b ELSE a + b - Modulus
Minus(a, b) == IF a >= b THEN a - b ELSE a - b + Modulus

(* test - base < extent *)
reliable_pid_in_range1(test, base, extent) ==
  IF test >= base
    THEN test - base < extent
    ELSE Minus(Plus(test, Half), Plus(base, Half)) < extent

(* test < base + extent *)
reliable_pid_in_range2(test, base, extent) ==
  IF Plus(base, extent) >= base
    THEN test < Plus(base, extent)
    ELSE Plus(test, Half) < Plus(Plus(base, Half), extent)

(* p1 < p2 *)
reliable_pid_min(p1, p2) == ~ reliable_pid_in_range1(p1, p2, Half)
=============================================================================
