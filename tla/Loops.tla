------------------------------- MODULE Loops -------------------------------
(***************************************************************************)
(* Loops over a slice, as the lab host and the shell have them.            *)
(***************************************************************************)
EXTENDS Integers, Sequences

\* FoldLeft as a function on the places, which proofs can unfold.
Over(Op(_, _), base, seq) ==
  LET made[i \in 0 .. Len(seq)] == IF i = 0 THEN base ELSE Op(made[i - 1], seq[i])
  IN  made[Len(seq)]
=============================================================================
