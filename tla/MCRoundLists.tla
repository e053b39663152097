---------------------------- MODULE MCRoundLists -----------------------------
(***************************************************************************)
(* RoundLists for TLC: the group of the numbers modulo a small prime, each *)
(* point being its own logarithm.                                          *)
(***************************************************************************)
EXTENDS RoundLists

CONSTANT Prime

Residues == 0 .. Prime - 1

NotZero == 1 .. Prime - 1

AddMod(p, q) == (p + q) % Prime

SubMod(p, q) == (p - q) % Prime

MulMod(p, a) == (p * a) % Prime

\* No two points have the same challenge, and only the neutral point has 0.
HashMod(m, p) == (m * p) % Prime

Keys == [c \in Client |-> c]

TwoServers == <<2, 3>>
=============================================================================
