--------------------------- MODULE MCSessionStore ---------------------------
(***************************************************************************)
(* Instances of SessionStore for TLC: handlers and ordinary commands are   *)
(* interchangeable model values.                                           *)
(***************************************************************************)
EXTENDS SessionStore, TLC

HandlerSymmetry == Permutations(Handlers)
=============================================================================
