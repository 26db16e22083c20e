----------------------------- MODULE DurableLog -----------------------------
(***************************************************************************)
(* What the store promises a participant, with no handler, table or        *)
(* statement in sight.  Commands are appended to a log; a prefix of the    *)
(* log becomes durable; what a participant was told is done lies inside    *)
(* the durable prefix; a crash loses the log down to that prefix and       *)
(* nothing else.                                                           *)
(***************************************************************************)
EXTENDS Naturals, Sequences

CONSTANT Commands

VARIABLES
  running,   \* the server is up
  log,       \* the accepted commands, in order
  durable,   \* how many of them survive a crash
  promised   \* how many of them were acknowledged

vars == <<running, log, durable, promised>>

Init ==
  /\ running = TRUE
  /\ log = <<>>
  /\ durable = 0
  /\ promised = 0

Accept ==
  /\ running
  /\ \E c \in Commands : log' = Append(log, c)
  /\ UNCHANGED <<running, durable, promised>>

Flush ==
  /\ running
  /\ durable' = durable + 1 /\ durable < Len(log)
  /\ UNCHANGED <<running, log, promised>>

Promise ==
  /\ running
  /\ promised' \in (promised + 1) .. durable
  /\ UNCHANGED <<running, log, durable>>

Crash ==
  /\ running
  /\ running' = FALSE
  /\ log' = SubSeq(log, 1, durable)
  /\ UNCHANGED <<durable, promised>>

Recover ==
  /\ ~running
  /\ running' = TRUE
  /\ UNCHANGED <<log, durable, promised>>

Next == Accept \/ Flush \/ Promise \/ Crash \/ Recover

Spec == Init /\ [][Next]_vars
=============================================================================
