---------------------------- MODULE SessionStore ----------------------------
(***************************************************************************)
(* One participant session of the organizer server: the runtime.Session in *)
(* memory, its rows in SQLite, and the goroutines that serve HTTP requests *)
(* and WebSocket terminals for it.                                         *)
(*                                                                         *)
(* A handler never holds one lock from start to end.  RunLine, Restart,    *)
(* SetJudge, Report, PersistenceEvents and IsSubmitted each take and drop  *)
(* the session's mutex, the restart counter has the server's mutex, and    *)
(* persistSession is a series of separate SQL statements.  Every one of    *)
(* these critical sections and statements is an action here; between two   *)
(* of them any other handler may run, and the process may die.             *)
(*                                                                         *)
(* The evidence hash chain is represented by what its hashes commit to:    *)
(* event n is the sequence of the first n commands, its hash is the value  *)
(* itself and the hash of its predecessor is the value's front.  Two       *)
(* events are equal exactly when all they commit to is equal, which is     *)
(* what a collision-free hash over a deterministic clock gives.            *)
(*                                                                         *)
(* Requests refused at the door (no token, idle session, closed event)     *)
(* change nothing here and are left to EventGate.                          *)
(***************************************************************************)
EXTENDS Integers, Sequences, FiniteSets

CONSTANTS
  Handlers,       \* goroutines that may serve this session at one time
  Commands,       \* command lines a participant may send
  Submit,         \* the command line "lab submit"
  None,           \* no such row or file
  JudgeMaximum,   \* Scenario.Spec.Scoring.JudgeMaximum
  AllowRestart,   \* Event.Spec.Sessions.AllowRestart
  MaxRestarts,    \* Event.Spec.Sessions.MaxRestarts, 0 for no limit
  Terminals,      \* whether participants open WebSocket terminals
  StoreMayFail,   \* whether a SQL statement may return an error
  MaxEvents,      \* bound on the evidence chain, for TLC
  MaxCrashes      \* bound on the number of process crashes, for TLC

ASSUME ConstantsAssumption ==
  /\ Submit \in Commands
  /\ None \notin Seq(Commands)
  /\ JudgeMaximum \in Nat
  /\ AllowRestart \in BOOLEAN
  /\ MaxRestarts \in Nat
  /\ Terminals \in BOOLEAN
  /\ StoreMayFail \in BOOLEAN
  /\ MaxEvents \in Nat
  /\ MaxCrashes \in Nat

VARIABLES
  up,           \* the server process runs and has recovered
  chain,        \* Session.Chain, the commands recorded since the last restart
  submitted,    \* Session.Submitted
  stamp,        \* which clock Session.SubmittedAt was read from
  judge,        \* Session.JudgeScore, or NoJudge while not Judged
  restarts,     \* Server.Restarts[id]
  rows,         \* table evidence_events, keyed by sequence
  meta,         \* table session_meta
  submission,   \* table submissions: the evidence its report shows, or None
  marked,       \* sessions.submitted_at IS NOT NULL
  bundle,       \* data/submissions/<id>.rlab.zip: its evidence, or None
  job,          \* the request each handler is serving
  acked,        \* history: events whose request was answered 200
  resets,       \* history: restarts really performed
  crashes       \* number of crashes so far

memory  == <<chain, submitted, stamp, judge, restarts>>
tables  == <<rows, meta, submission, marked, bundle>>
history == <<acked, resets, crashes>>
vars    == <<up, memory, tables, job, history>>

-----------------------------------------------------------------------------
\* Data

Event   == Seq(Commands) \ {<<>>}
NoJudge == -1
Scores  == 0 .. JudgeMaximum

Meta == [restarts : Nat, judge : Scores \union {NoJudge}, submitted : BOOLEAN]

FreshMeta == [restarts |-> 0, judge |-> NoJudge, submitted |-> FALSE]

Idle == [op |-> "none", pc |-> "idle", own |-> 0, judge |-> NoJudge,
         snap |-> <<>>, next |-> 1, restarts |-> 0, submitted |-> FALSE]

\* Steps that execute a statement, or write the bundle, and return its error.
FallibleLabels == {"report", "evidence", "meta", "bundle", "insert"}

Labels ==
  FallibleLabels \union {"idle", "run", "count", "reset", "clear", "snapshot",
                         "restarts", "submitted", "model", "mark"}

Job == [op : {"none", "command", "submit", "restart", "judge"}, pc : Labels,
        own : Nat, judge : Scores \union {NoJudge}, snap : Seq(Commands),
        next : Nat \ {0}, restarts : Nat, submitted : BOOLEAN]

ShowsSubmit(log) == \E i \in DOMAIN log : log[i] = Submit

\* Event n of a chain: what its hash commits to.
EventAt(log, n) == SubSeq(log, 1, n)

\* INSERT OR REPLACE on the key (session, sequence).
Upsert(table, event) == {r \in table : Len(r) # Len(event)} \union {event}

\* Chain.Restore: sequences count up from one and every event's predecessor
\* hash is the hash of the event before it.
Verifies(table) ==
  \A r \in table :
    /\ \A q \in table : Len(q) = Len(r) => q = r
    /\ Len(r) > 1 => EventAt(r, Len(r) - 1) \in table

\* LoadEvents: the rows in sequence order; the last one commits to all.
LastRow(table) == CHOOSE r \in table : \A q \in table : Len(q) <= Len(r)
Loaded(table)  == IF table = {} THEN <<>> ELSE LastRow(table)

-----------------------------------------------------------------------------
TypeOK ==
  /\ up \in BOOLEAN
  /\ chain \in Seq(Commands)
  /\ submitted \in BOOLEAN
  /\ stamp \in {"unset", "virtual", "wall", "created"}
  /\ judge \in Scores \union {NoJudge}
  /\ restarts \in Nat
  /\ rows \in SUBSET Event
  /\ meta \in Meta
  /\ submission \in Seq(Commands) \union {None}
  /\ marked \in BOOLEAN
  /\ bundle \in Seq(Commands) \union {None}
  /\ job \in [Handlers -> Job]
  /\ acked \in Nat
  /\ resets \in Nat
  /\ crashes \in Nat

\* createSession: the session and both its rows exist before any other
\* handler can find the session.
Init ==
  /\ up = TRUE
  /\ chain = <<>>
  /\ submitted = FALSE
  /\ stamp = "unset"
  /\ judge = NoJudge
  /\ restarts = 0
  /\ rows = {}
  /\ meta = FreshMeta
  /\ submission = None
  /\ marked = FALSE
  /\ bundle = None
  /\ job = [h \in Handlers |-> Idle]
  /\ acked = 0
  /\ resets = 0
  /\ crashes = 0

-----------------------------------------------------------------------------
\* Helpers of the handlers

At(h, label)   == up /\ job[h].pc = label
Goto(h, label) == job' = [job EXCEPT ![h] = [@ EXCEPT !.pc = label]]

\* The bound MaxEvents leaves room for the submissions already under way.
Room == Len(chain) + Cardinality({h \in Handlers : job[h].pc = "run"}) < MaxEvents

\* Session.RunLine under the session mutex: run the line, append the event.
AppendLine(c) ==
  /\ chain' = Append(chain, c)
  /\ submitted' = (submitted \/ c = Submit)
  /\ stamp' = IF c = Submit THEN "virtual" ELSE stamp
  /\ UNCHANGED <<judge, restarts>>

\* The handler writes 200: the event of its own command is promised.
Answer(h) ==
  /\ job' = [job EXCEPT ![h] = Idle]
  /\ acked' = IF job[h].own > acked THEN job[h].own ELSE acked
  /\ UNCHANGED <<resets, crashes>>

-----------------------------------------------------------------------------
\* Where each request starts

\* POST command, check, hints and notes: RunLine, then persistSession.
Command(h, c) ==
  /\ At(h, "idle") /\ Room
  /\ AppendLine(c)
  /\ job' = [job EXCEPT ![h] = [Idle EXCEPT !.op = "command", !.pc = "report",
                                            !.own = Len(chain) + 1]]
  /\ UNCHANGED <<up, tables, history>>

\* POST submit: refused with 409 once submitted; the mutex is then dropped.
SubmitCheck(h) ==
  /\ At(h, "idle") /\ Room
  /\ ~submitted
  /\ job' = [job EXCEPT ![h] = [Idle EXCEPT !.op = "submit", !.pc = "run"]]
  /\ UNCHANGED <<up, memory, tables, history>>

SubmitRun(h) ==
  /\ At(h, "run")
  /\ AppendLine(Submit)
  /\ job' = [job EXCEPT ![h] = [@ EXCEPT !.pc = "report", !.own = Len(chain) + 1]]
  /\ UNCHANGED <<up, tables, history>>

\* POST restart: refused once submitted or when the event forbids restarts.
RestartCheck(h) ==
  /\ At(h, "idle")
  /\ ~submitted
  /\ AllowRestart
  /\ job' = [job EXCEPT ![h] = [Idle EXCEPT !.op = "restart", !.pc = "count"]]
  /\ UNCHANGED <<up, memory, tables, history>>

\* Under the server mutex: the limit is tested and the counter raised.
RestartCount(h) ==
  /\ At(h, "count")
  /\ IF MaxRestarts > 0 /\ restarts >= MaxRestarts
       THEN /\ job' = [job EXCEPT ![h] = Idle]
            /\ UNCHANGED restarts
       ELSE /\ restarts' = restarts + 1
            /\ Goto(h, "reset")
  /\ UNCHANGED <<up, chain, submitted, stamp, judge, tables, history>>

\* Session.Restart under the session mutex.  Nothing older is promised.
RestartReset(h) ==
  /\ At(h, "reset")
  /\ chain' = <<>>
  /\ submitted' = FALSE
  /\ stamp' = "unset"
  /\ judge' = NoJudge
  /\ job' = [g \in Handlers |->
               [job[g] EXCEPT !.own = 0, !.pc = IF g = h THEN "clear" ELSE @]]
  /\ acked' = 0
  /\ resets' = resets + 1
  /\ UNCHANGED <<up, restarts, tables, crashes>>

\* Faulty variant: a restart wipes the submission together with the evidence.
RestartClearAll(h) ==
  /\ At(h, "clear")
  /\ rows' = {} /\ submission' = None
  /\ Goto(h, "report")
  /\ UNCHANGED <<up, memory, meta, marked, bundle, history>>

\* Store.ClearEvidence; the handler ignores its error.
RestartClear(h) ==
  /\ At(h, "clear")
  /\ rows' = {} \/ (StoreMayFail /\ UNCHANGED rows)
  /\ Goto(h, "report")
  /\ UNCHANGED <<up, memory, meta, submission, marked, bundle, history>>

\* Faulty variant: the score is not compared with the maximum.
JudgeUnchecked(h, score) ==
  /\ At(h, "idle")
  /\ judge' = score
  /\ job' = [job EXCEPT ![h] = [Idle EXCEPT !.op = "judge", !.pc = "report"]]
  /\ UNCHANGED <<up, chain, submitted, stamp, restarts, tables, history>>

\* Both judging routes: Session.SetJudge refuses scores out of range.
Judge(h, score) ==
  /\ At(h, "idle")
  /\ score \in Scores
  /\ judge' = score
  /\ job' = [job EXCEPT ![h] = [Idle EXCEPT !.op = "judge", !.pc = "report"]]
  /\ UNCHANGED <<up, chain, submitted, stamp, restarts, tables, history>>

\* POST submissions/<id>/export: the bundle is written to a temporary file
\* and renamed, and the session mutex is held meanwhile.
Export ==
  /\ up
  /\ bundle' = chain
  /\ UNCHANGED <<up, memory, rows, meta, submission, marked, job, history>>

\* An input frame on an open terminal: RunLine and nothing else.
TerminalInput(c) ==
  /\ up /\ Terminals /\ Room
  /\ AppendLine(c)
  /\ UNCHANGED <<up, tables, job, history>>

-----------------------------------------------------------------------------
\* persistSession, shared by every POST that changes the session

\* SaveSession (its state_json is never read back), then session.Report.
PersistReport(h) ==
  /\ At(h, "report")
  /\ job' = [job EXCEPT ![h] = [@ EXCEPT !.pc = "snapshot", !.judge = judge]]
  /\ UNCHANGED <<up, memory, tables, history>>

\* session.PersistenceEvents: a copy of the chain.
PersistSnapshot(h) ==
  /\ At(h, "snapshot")
  /\ job' = [job EXCEPT ![h] = [@ EXCEPT !.pc = IF chain = <<>> THEN "restarts" ELSE "evidence",
                        !.snap = chain, !.next = 1]]
  /\ UNCHANGED <<up, memory, tables, history>>

\* Faulty variants: only the newest event is saved; the loop stops one short
\* of the end; the loop never ends.
PersistNewestOnly(h) ==
  /\ At(h, "evidence")
  /\ rows' = Upsert(rows, job[h].snap)
  /\ job' = [job EXCEPT ![h] = [@ EXCEPT !.next = 1, !.snap = <<>>, !.pc = "restarts"]]
  /\ UNCHANGED <<up, memory, meta, submission, marked, bundle, history>>
PersistEventShort(h) ==
  /\ At(h, "evidence")
  /\ LET n == job[h].next IN
       /\ rows' = Upsert(rows, EventAt(job[h].snap, n))
       /\ job' = IF n + 1 < Len(job[h].snap)
                   THEN [job EXCEPT ![h] = [@ EXCEPT !.next = n + 1]]
                   ELSE [job EXCEPT ![h] = [@ EXCEPT !.next = 1, !.snap = <<>>, !.pc = "restarts"]]
  /\ UNCHANGED <<up, memory, meta, submission, marked, bundle, history>>
PersistEventForever(h) ==
  /\ At(h, "evidence")
  /\ rows' = Upsert(rows, EventAt(job[h].snap, job[h].next))
  /\ job' = [job EXCEPT ![h] = [@ EXCEPT !.next = (job[h].next % Len(job[h].snap)) + 1]]
  /\ UNCHANGED <<up, memory, meta, submission, marked, bundle, history>>

\* One SaveEvidence of the loop over the copy.
PersistEvent(h) ==
  /\ At(h, "evidence")
  /\ LET n == job[h].next IN
       /\ rows' = Upsert(rows, EventAt(job[h].snap, n))
       /\ job' = IF n < Len(job[h].snap)
                   THEN [job EXCEPT ![h] = [@ EXCEPT !.next = n + 1]]
                   ELSE [job EXCEPT ![h] = [@ EXCEPT !.next = 1, !.snap = <<>>, !.pc = "restarts"]]
  /\ UNCHANGED <<up, memory, meta, submission, marked, bundle, history>>

\* The counter is read under the server mutex ...
PersistRestarts(h) ==
  /\ At(h, "restarts")
  /\ job' = [job EXCEPT ![h] = [@ EXCEPT !.pc = "submitted", !.restarts = restarts]]
  /\ UNCHANGED <<up, memory, tables, history>>

\* ... and Submitted under the session's, while the arguments are evaluated.
PersistSubmitted(h) ==
  /\ At(h, "submitted")
  /\ job' = [job EXCEPT ![h] = [@ EXCEPT !.pc = "meta", !.submitted = submitted]]
  /\ UNCHANGED <<up, memory, tables, history>>

\* Faulty variants: POST submit ends here; the bundle is left out; the count
\* of restarts is not saved.
PersistMetaEnds(h) ==
  /\ At(h, "meta")
  /\ meta' = [restarts |-> job[h].restarts, judge |-> job[h].judge,
              submitted |-> job[h].submitted]
  /\ Answer(h)
  /\ UNCHANGED <<up, memory, rows, submission, marked, bundle>>
PersistMetaUncounted(h) ==
  /\ At(h, "meta")
  /\ meta' = [restarts |-> 0, judge |-> job[h].judge, submitted |-> job[h].submitted]
  /\ IF job[h].op = "submit"
       THEN /\ job' = [job EXCEPT ![h] = [Idle EXCEPT !.op = "submit", !.pc = "bundle",
                                                      !.own = job[h].own]]
            /\ UNCHANGED history
       ELSE Answer(h)
  /\ UNCHANGED <<up, memory, rows, submission, marked, bundle>>

\* SaveSessionMeta.  Only POST submit goes on after it.
PersistMeta(h) ==
  /\ At(h, "meta")
  /\ meta' = [restarts |-> job[h].restarts, judge |-> job[h].judge,
              submitted |-> job[h].submitted]
  /\ IF job[h].op = "submit"
       THEN /\ job' = [job EXCEPT ![h] = [Idle EXCEPT !.op = "submit", !.pc = "bundle",
                                                      !.own = job[h].own]]
            /\ UNCHANGED history
       ELSE Answer(h)
  /\ UNCHANGED <<up, memory, rows, submission, marked, bundle>>

-----------------------------------------------------------------------------
\* persistSubmission and MarkSubmitted, the tail of POST submit

SubmitBundle(h) ==
  /\ At(h, "bundle")
  /\ bundle' = chain
  /\ Goto(h, "model")
  /\ UNCHANGED <<up, memory, rows, meta, submission, marked, history>>

SubmitModel(h) ==
  /\ At(h, "model")
  /\ job' = [job EXCEPT ![h] = [@ EXCEPT !.pc = "insert", !.snap = chain]]
  /\ UNCHANGED <<up, memory, tables, history>>

\* A plain INSERT: a second row for the session violates the primary key,
\* and the handler answers 500.
SubmitInsert(h) ==
  /\ At(h, "insert")
  /\ IF submission = None
       THEN /\ submission' = job[h].snap
            /\ job' = [job EXCEPT ![h] = [@ EXCEPT !.pc = "mark", !.snap = <<>>]]
       ELSE /\ job' = [job EXCEPT ![h] = Idle]
            /\ UNCHANGED submission
  /\ UNCHANGED <<up, memory, rows, meta, marked, bundle, history>>

\* MarkSubmitted with the wall clock; its error is ignored.
SubmitMark(h) ==
  /\ At(h, "mark")
  /\ marked' = TRUE \/ (StoreMayFail /\ UNCHANGED marked)
  /\ Answer(h)
  /\ UNCHANGED <<up, memory, rows, meta, submission, bundle>>

\* A statement or the bundle's file returns an error: 500, and what was already written stays.
StoreFails(h) ==
  /\ StoreMayFail
  /\ up /\ job[h].pc \in FallibleLabels
  /\ job' = [job EXCEPT ![h] = Idle]
  /\ UNCHANGED <<up, memory, tables, history>>

-----------------------------------------------------------------------------
\* The process dies with its memory and its requests.
Crash ==
  /\ up /\ crashes < MaxCrashes
  /\ up' = FALSE
  /\ chain' = <<>> /\ submitted' = FALSE /\ stamp' = "unset"
  /\ judge' = NoJudge /\ restarts' = 0
  /\ job' = [h \in Handlers |-> Idle]
  /\ crashes' = crashes + 1
  /\ UNCHANGED <<tables, acked, resets>>

\* Faulty variant: the session is made anew and its rows are not replayed.
RecoverAnew ==
  /\ ~up
  /\ Verifies(rows)
  /\ up' = TRUE
  /\ chain' = <<>> /\ submitted' = meta.submitted /\ stamp' = "unset"
  /\ judge' = meta.judge
  /\ restarts' = meta.restarts
  /\ UNCHANGED <<tables, job, history>>

\* Server.Recover: replay the rows in sequence order, verify them, then lay
\* session_meta over the result.  Rows that do not verify stop the start.
Recover ==
  /\ ~up
  /\ Verifies(rows)
  /\ up' = TRUE
  /\ chain' = Loaded(rows)
  /\ submitted' = (meta.submitted \/ ShowsSubmit(Loaded(rows)))
  /\ stamp' = IF meta.submitted
                THEN IF marked THEN "wall" ELSE "created"
                ELSE IF ShowsSubmit(Loaded(rows)) THEN "virtual" ELSE "unset"
  /\ judge' = meta.judge
  /\ restarts' = meta.restarts
  /\ UNCHANGED <<tables, job, history>>

-----------------------------------------------------------------------------
\* What a handler does without anyone asking: the rest of its request.
Continue(h) ==
  \/ SubmitRun(h)
  \/ RestartCount(h) \/ RestartReset(h) \/ RestartClear(h)
  \/ PersistReport(h) \/ PersistSnapshot(h) \/ PersistEvent(h)
  \/ PersistRestarts(h) \/ PersistSubmitted(h) \/ PersistMeta(h)
  \/ SubmitBundle(h) \/ SubmitModel(h) \/ SubmitInsert(h) \/ SubmitMark(h)

Next ==
  \/ \E h \in Handlers :
       \/ \E c \in Commands : Command(h, c)
       \/ \E score \in 0 .. (JudgeMaximum + 1) : Judge(h, score)
       \/ SubmitCheck(h)
       \/ RestartCheck(h)
       \/ Continue(h)
       \/ StoreFails(h)
  \/ \E c \in Commands : TerminalInput(c)
  \/ Export
  \/ Crash
  \/ Recover

Spec == Init /\ [][Next]_vars

\* The Go scheduler runs every goroutine that can run, and no step of a
\* handler waits for another request.
FairSpec == Spec /\ \A h \in Handlers : WF_vars(Continue(h))
-----------------------------------------------------------------------------
\* Properties

Quiet == \A h \in Handlers : job[h].pc = "idle"

\* After a crash at this very moment the server could start again: the rows
\* of evidence_events always pass Chain.Restore, without which Recover
\* returns an error and the whole server stays down.
Recoverable == Verifies(rows)

\* A command answered with 200 is on disk and stays the command at its place
\* in the evidence, through crashes and whatever other handlers persist.
AckedDurable ==
  /\ acked <= Len(Loaded(rows))
  /\ up => EventAt(chain, acked) = EventAt(Loaded(rows), acked)

\* A row in submissions is never alone: its report, the signed bundle and
\* the durable evidence each show the participant's "lab submit".
SubmissionBacked ==
  submission # None =>
    /\ ShowsSubmit(submission)
    /\ bundle # None /\ ShowsSubmit(bundle)
    /\ ShowsSubmit(Loaded(rows))

\* A stored submission is never replaced or dropped, not by a second submit
\* that passed the 409 check in time, not by a restart, not by a recovery.
SubmissionKept == [][submission # None => submission' = submission]_vars

\* With no request in flight a crash would lose nothing: what Recover would
\* rebuild from SQLite is exactly what is in memory.  And at any time what a
\* stored submission rests on is stored too.
LosesNothing ==
  /\ SubmissionBacked
  /\ up /\ Quiet =>
       /\ chain = Loaded(rows)
       /\ submitted = (meta.submitted \/ ShowsSubmit(Loaded(rows)))
       /\ judge = meta.judge
       /\ restarts = meta.restarts

\* "submitted sessions cannot be restarted": a reset only ever happens to a
\* session that is not submitted.  The code does not keep this (the run
\* session_restart_submit): IsSubmitted is tested before the reset, not with it.
SubmittedNeverReset == [][resets' # resets => ~submitted]_vars

\* With no request in flight a submitted session has its submission stored.
SubmissionStored == up /\ Quiet /\ submitted => submission # None

\* Every request is answered: no handler waits for another one.
EveryRequestAnswered == \A h \in Handlers : job[h].pc # "idle" ~> job[h].pc = "idle"

\* A POST submit that gets past the 409 check ends with a stored submission.
SubmitIsStored == \A h \in Handlers : job[h].op = "submit" ~> submission # None

\* Refinement: memory is the log while the server runs, the rows when it does
\* not; the rows are the durable prefix.
Durable == INSTANCE DurableLog WITH
  running  <- up,
  log      <- IF up THEN chain ELSE Loaded(rows),
  durable  <- Len(Loaded(rows)),
  promised <- acked

ImplementsDurableLog == Durable!Spec
=============================================================================
