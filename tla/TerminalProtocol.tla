-------------------------- MODULE TerminalProtocol --------------------------
(***************************************************************************)
(* The frames of a WebSocket terminal (server.go, terminal), for several   *)
(* terminals of one session.  The client is not in this repository beyond  *)
(* `redlab join`, which sends input only; the one modelled does what       *)
(* server_test.go does: it resumes from the last cursor it saw as soon as  *)
(* it is connected.  A broken connection loses a suffix of the frames sent *)
(* back; a line that was sent may still be run by the goroutine left       *)
(* behind.  Each event of the session has its own number, so that a        *)
(* sequence number that is used again after a restart is another event.    *)
(***************************************************************************)
EXTENDS Integers, Sequences

CONSTANTS
  Terminals,    \* connections a participant keeps, one after another or at once
  MaxEventIds,  \* events ever recorded (bound)
  MaxFrames,    \* frames under way in one direction (bound)
  MaxRestarts,  \* restarts of the session (bound)
  MaxConnects   \* connections made (bound)

ASSUME TerminalAssumption ==
  MaxEventIds \in Nat /\ MaxFrames \in Nat /\ MaxRestarts \in Nat /\ MaxConnects \in Nat

VARIABLES
  log,      \* the session's timeline: event ids in sequence order
  recorded, \* events recorded so far
  term,     \* the goroutine of each connection: open, its sequence, the ack it owes
  inbox,    \* frames on their way to the server
  outbox,   \* frames on their way back
  client,   \* cursor it goes on from, ids it has seen
  unshown,  \* history: what others recorded while the terminal followed
  restarts,
  connects

terminalVars == <<log, recorded, term, inbox, outbox, client, unshown, restarts, connects>>

Closed == [open |-> FALSE, sequence |-> 0, pc |-> "read", ran |-> 0]

TerminalInit ==
  /\ log = <<>> /\ recorded = 0
  /\ term = [t \in Terminals |-> Closed]
  /\ inbox = [t \in Terminals |-> <<>>] /\ outbox = [t \in Terminals |-> <<>>]
  /\ client = [t \in Terminals |-> [cursor |-> 0, seen |-> {}]]
  /\ unshown = [t \in Terminals |-> {}] /\ restarts = 0 /\ connects = 0

Sent(t, frames) == outbox' = [outbox EXCEPT ![t] = @ \o frames]
Room(t) == Len(outbox[t]) <= MaxFrames

-----------------------------------------------------------------------------
(* The client.                                                             *)

Connect(t) ==
  /\ ~term[t].open /\ connects < MaxConnects
  /\ term' = [term EXCEPT ![t] = [Closed EXCEPT !.open = TRUE, !.sequence = Len(log)]]
  /\ inbox' = [inbox EXCEPT ![t] = <<[type |-> "resume", cursor |-> client[t].cursor]>>]
  /\ connects' = connects + 1
  /\ UNCHANGED <<log, recorded, outbox, client, unshown, restarts>>

SendInput(t) ==
  /\ term[t].open /\ Len(inbox[t]) < MaxFrames
  /\ inbox' = [inbox EXCEPT ![t] = Append(@, [type |-> "input", cursor |-> 0])]
  /\ UNCHANGED <<log, recorded, term, outbox, client, unshown, restarts, connects>>

SendAck(t) ==
  /\ term[t].open /\ Len(inbox[t]) < MaxFrames
  /\ inbox' = [inbox EXCEPT ![t] = Append(@, [type |-> "ack", cursor |-> client[t].cursor])]
  /\ UNCHANGED <<log, recorded, term, outbox, client, unshown, restarts, connects>>

Receive(t) ==
  /\ term[t].open /\ outbox[t] # <<>>
  /\ LET f == Head(outbox[t]) IN
       client' = [client EXCEPT ![t].cursor = IF f.cursor > @ THEN f.cursor ELSE @,
                                ![t].seen = @ \union f.shows]
  /\ outbox' = [outbox EXCEPT ![t] = Tail(@)]
  /\ UNCHANGED <<log, recorded, term, inbox, unshown, restarts, connects>>

\* The client has lost the connection, and whatever was on its way back.  The
\* goroutine reads on until a read or a write fails: see RunElsewhere.
Break(t) ==
  /\ term[t].open
  /\ term' = [term EXCEPT ![t] = Closed]
  /\ inbox' = [inbox EXCEPT ![t] = <<>>] /\ outbox' = [outbox EXCEPT ![t] = <<>>]
  /\ UNCHANGED <<log, recorded, client, unshown, restarts, connects>>

-----------------------------------------------------------------------------
(* The server.                                                             *)

Reads(t, type) == term[t].open /\ term[t].pc = "read" /\ inbox[t] # <<>> /\ Head(inbox[t]).type = type
Took(t) == inbox' = [inbox EXCEPT ![t] = Tail(@)]

\* The client is up to date, and learns of the events from its own answers only.
Follows(t) == term[t].open /\ \A i \in DOMAIN inbox[t] : inbox[t][i].type # "resume"

\* An event is recorded, by the goroutine of one of these terminals or by another.
RecordEvent(writers) ==
  /\ recorded < MaxEventIds
  /\ recorded' = recorded + 1 /\ log' = Append(log, recorded')
  /\ unshown' = [t \in Terminals |-> IF t \notin writers /\ Follows(t)
                                     THEN unshown[t] \union {recorded'} ELSE unshown[t]]

RunInput(t) ==
  /\ Reads(t, "input")
  /\ Took(t) /\ RecordEvent({t})
  /\ term' = [term EXCEPT ![t].pc = "report", ![t].ran = recorded']
  /\ UNCHANGED <<outbox, client, restarts, connects>>

\* A command, hint, note, check or submit of another request, or a line that a
\* goroutine received before its connection broke: it may be run at any time,
\* also after the client is back and has resumed.
RunElsewhere ==
  /\ RecordEvent({})
  /\ UNCHANGED <<term, inbox, outbox, client, restarts, connects>>

\* Another handler may have written, or restarted the session, since RunLine.
ReportInput(t) ==
  /\ term[t].open /\ term[t].pc = "report"
  /\ LET sequence == IF log = <<>> THEN term[t].sequence + 1 ELSE Len(log)
     IN /\ term' = [term EXCEPT ![t].sequence = sequence, ![t].pc = "read"]
        /\ Sent(t, <<[type |-> "output", cursor |-> sequence, shows |-> {term[t].ran}]>>)
  /\ UNCHANGED <<log, recorded, inbox, client, unshown, restarts, connects>>

Replay(from) == [i \in 1 .. Len(log) - from |->
                   [type |-> "replay", cursor |-> from + i, shows |-> {log[from + i]}]]

\* The event the cursor names is taken for one that was missed, the next for one that was seen.
ResumeAfterNext(t) ==
  /\ Reads(t, "resume") /\ Room(t)
  /\ Took(t)
  /\ LET from == Head(inbox[t]).cursor
     IN Sent(t, (IF from < Len(log) THEN Replay(from + 1) ELSE <<>>)
                  \o <<[type |-> "ack", cursor |-> term[t].sequence, shows |-> {}]>>)
  /\ UNCHANGED <<log, recorded, term, client, unshown, restarts, connects>>

\* The events after the cursor, then the sequence this goroutine last knew.
Resume(t) ==
  /\ Reads(t, "resume") /\ Room(t)
  /\ Took(t)
  /\ LET from == Head(inbox[t]).cursor
     IN Sent(t, (IF from < Len(log) THEN Replay(from) ELSE <<>>)
                  \o <<[type |-> "ack", cursor |-> term[t].sequence, shows |-> {}]>>)
  /\ UNCHANGED <<log, recorded, term, client, unshown, restarts, connects>>

\* An acknowledgment ahead of the sequence is answered with an error; the cursor is the same.
Ack(t) ==
  /\ Reads(t, "ack") /\ Room(t)
  /\ Took(t)
  /\ Sent(t, <<[type |-> IF Head(inbox[t]).cursor > term[t].sequence THEN "error" ELSE "ack",
                cursor |-> term[t].sequence, shows |-> {}]>>)
  /\ UNCHANGED <<log, recorded, term, client, unshown, restarts, connects>>

\* POST restart, in another request.
RestartSession ==
  /\ restarts < MaxRestarts
  /\ log' = <<>> /\ restarts' = restarts + 1
  /\ UNCHANGED <<recorded, term, inbox, outbox, client, unshown, connects>>

TerminalNext ==
  \/ \E t \in Terminals : \/ Connect(t) \/ SendInput(t) \/ SendAck(t) \/ Receive(t) \/ Break(t)
                          \/ RunInput(t) \/ ReportInput(t) \/ Resume(t) \/ Ack(t)
  \/ RunElsewhere \/ RestartSession

TerminalSpec == TerminalInit /\ [][TerminalNext]_terminalVars

-----------------------------------------------------------------------------
\* The timeline holds recorded events, a connection that is down has no frames.
TerminalTypeOK ==
  /\ \A i \in DOMAIN log : log[i] \in 1 .. recorded
  /\ \A t \in Terminals :
       /\ term[t].pc \in {"read", "report"} /\ client[t].seen \subseteq 1 .. recorded
       /\ ~term[t].open => inbox[t] = <<>> /\ outbox[t] = <<>>

\* Until the session is restarted a cursor never runs ahead of it, and a
\* participant who goes on from the last cursor was shown every event up to it,
\* however connections break and commands of others come in between
\* (server.go:1073, :1081) - but for what others recorded while the terminal
\* was connected and had resumed: an answer's cursor jumps over that, and no
\* frame ever shows it.  One's own earlier line is such an event when it is run
\* by the goroutine left behind.
NothingMissed ==
  restarts = 0 =>
    \A t \in Terminals : \A i \in 1 .. client[t].cursor :
      i \in DOMAIN log /\ log[i] \in client[t].seen \union unshown[t]
=============================================================================
