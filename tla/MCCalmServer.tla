---------------------------- MODULE MCCalmServer ----------------------------
\* Two settings of the gate in which no SQL statement fails: requests racing
\* the close of the event ("close"), and one participant request and one
\* organizer at a time ("turns").  They share the variables, a behaviour is one
\* of them.
EXTENDS EventGate, TLC

CONSTANTS h, u1, u2, v1, v2

VARIABLE setting

Turns == INSTANCE EventGate WITH
  Teams <- {u1, u2}, Ids <- {v1, v2}, Handlers <- {h},
  MaxConcurrent <- 0, IdleTimeout <- 1, OpensAt <- 0, ClosesAt <- 3, MaxTime <- 3, MaxCrashes <- 2

CalmInit == \/ setting = "close" /\ Init
            \/ setting = "turns" /\ Turns!Init

CalmNext ==
  /\ UNCHANGED setting
  /\ \/ setting = "close" /\ Next
     \/ setting = "turns" /\ Turns!Next

Calm == CalmInit /\ [][CalmNext]_<<setting, vars>>
Symmetry == Permutations(Teams) \union Permutations(Ids) \union Permutations(Handlers)

\* With one request at a time an active team is not refused as idle, and the
\* stored flag follows the organizer, also after a restart.
TurnsServeActive == setting = "turns" => Turns!ActiveIsServed /\ Turns!ClosedAgrees
=============================================================================
