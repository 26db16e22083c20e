----------------------------- MODULE EventGate ------------------------------
(***************************************************************************)
(* The gate in front of the sessions of an event: which team gets a        *)
(* session, how many there may be, which request is let through to one,    *)
(* and what of this is still true after the server was started again.      *)
(*                                                                         *)
(* Three decisions meet here.  createSession admits a team while it holds  *)
(* the server's mutex, statements included.  touchActivity refuses a       *)
(* session that was idle too long, and otherwise restarts its clock.       *)
(* eventStatus refuses work once the event is closed, by the schedule or   *)
(* by an organizer; it is asked first and the work is done afterwards,     *)
(* with the mutex dropped in between.                                      *)
(*                                                                         *)
(* The mutex is a variable because createSession keeps it across SQL       *)
(* statements; every other critical section of it is one action.  What a   *)
(* request does inside its session is SessionStore's.                      *)
(***************************************************************************)
EXTENDS Integers, FiniteSets

CONSTANTS
  Teams,          \* teams of the event
  Ids,            \* identifiers opaqueToken may return, none of them twice
  Handlers,       \* goroutines that serve participants' requests
  Organizers,     \* goroutines that serve close and reopen
  None,           \* no team, session or holder of the mutex
  MaxConcurrent,  \* Event.Spec.Sessions.MaxConcurrent, 0 for no limit
  IdleTimeout,    \* Event.Spec.Sessions.IdleTimeout, 0 for none
  OpensAt,        \* Event.Spec.Schedule.OpensAt, 0 for the zero time
  ClosesAt,       \* Event.Spec.Schedule.SubmissionsCloseAt, 0 likewise
  Terminals,      \* whether participants open WebSocket terminals
  StoreMayFail,   \* whether a SQL statement may return an error
  MaxTime,        \* bound on the clock, for TLC
  MaxCrashes      \* bound on the number of process crashes, for TLC

ASSUME GateAssumption ==
  /\ None \notin Teams /\ None \notin Ids /\ None \notin Handlers
  /\ IsFiniteSet(Handlers)
  /\ MaxConcurrent \in Nat /\ IdleTimeout \in Nat
  /\ OpensAt \in Nat /\ ClosesAt \in Nat
  /\ Terminals \in BOOLEAN /\ StoreMayFail \in BOOLEAN
  /\ MaxTime \in Nat /\ MaxCrashes \in Nat

VARIABLES
  up,           \* the server process runs and has recovered
  now,          \* the wall clock; zero is Go's zero time and never read
  mu,           \* the handler that holds Server.mu across steps, or None
  sessions,     \* Server.Sessions: the team of each, or None
  activity,     \* Server.Activity, zero where there is no entry
  manualClose,  \* Server.manualClose
  rows,         \* table sessions: the team of each, or None
  meta,         \* session_meta.last_activity, zero where there is no row
  storedClose,  \* event_state.manual_closed
  terminals,    \* sessions with an open terminal
  job,          \* the request each handler is serving
  order,        \* what each organizer's request still has to store
  known,        \* history: sessions whose identifier a team was told
  used,         \* history: when work that was answered arrived
  late,         \* history: work done since the event closed, saturating
  crashes       \* number of crashes so far

memory  == <<sessions, activity, manualClose>>
tables  == <<rows, meta, storedClose>>
history == <<known, used, late>>
vars    == <<up, now, mu, memory, tables, terminals, job, order, history, crashes>>

-----------------------------------------------------------------------------
Time == Nat

Idle == [pc |-> "idle", team |-> None, id |-> None, kind |-> "none",
         arrived |-> 0, seen |-> 0]

\* What a request may ask of a session: GET, a POST that runs a line, POST
\* submit (which asks for the status twice), GET terminal, and judging.
Kinds == {"read", "post", "submit", "terminal", "judge"}

Job == [pc : {"idle", "admit", "saveRow", "saveMeta",
              "gate", "submit", "work", "row", "seen", "meta"},
        team : Teams \union {None}, id : Ids \union {None},
        kind : Kinds \union {"none"}, arrived : Time, seen : Time]

TypeOK ==
  /\ up \in BOOLEAN
  /\ now \in Time \ {0}
  /\ mu \in Handlers \union {None}
  /\ sessions \in [Ids -> Teams \union {None}]
  /\ activity \in [Ids -> Time]
  /\ manualClose \in BOOLEAN
  /\ rows \in [Ids -> Teams \union {None}]
  /\ meta \in [Ids -> Time]
  /\ storedClose \in BOOLEAN
  /\ terminals \in SUBSET Ids
  /\ job \in [Handlers -> Job]
  /\ order \in [Organizers -> {"none", "close", "reopen"}]
  /\ known \in SUBSET Ids
  /\ used \in [Ids -> Time]
  /\ late \in Nat
  /\ crashes \in Nat

\* A server that was just started for a new event.
Init ==
  /\ up = TRUE
  /\ now = 1
  /\ mu = None
  /\ sessions = [i \in Ids |-> None]
  /\ activity = [i \in Ids |-> 0]
  /\ manualClose = FALSE
  /\ rows = [i \in Ids |-> None]
  /\ meta = [i \in Ids |-> 0]
  /\ storedClose = FALSE
  /\ terminals = {}
  /\ job = [h \in Handlers |-> Idle]
  /\ order = [o \in Organizers |-> "none"]
  /\ known = {}
  /\ used = [i \in Ids |-> 0]
  /\ late = 0
  /\ crashes = 0

-----------------------------------------------------------------------------
Live(table) == {i \in Ids : table[i] # None}

\* eventStatus, for a given value of the organizer's flag.
StatusWith(closed) ==
  IF closed THEN "closed"
  ELSE IF OpensAt # 0 /\ now < OpensAt THEN "scheduled"
  ELSE IF ClosesAt # 0 /\ now >= ClosesAt THEN "closed"
  ELSE "open"
Status == StatusWith(manualClose)

At(h, label)   == up /\ job[h].pc = label
Free           == up /\ mu = None
Goto(h, label) == job' = [job EXCEPT ![h] = [@ EXCEPT !.pc = label]]
Done(h)        == job' = [job EXCEPT ![h] = Idle]

\* Counts work done after the event closed, up to one more than the handlers.
LateAfterWork ==
  IF Status = "closed" /\ late <= Cardinality(Handlers) THEN late + 1 ELSE late

Latest(s, t) == IF s >= t THEN s ELSE t

-----------------------------------------------------------------------------
\* POST /teams/<team>/session

\* eventStatus takes and drops the mutex before createSession takes it.
CreateCheck(h, t) ==
  /\ At(h, "idle") /\ Free
  /\ Status = "open"
  /\ job' = [job EXCEPT ![h] = [Idle EXCEPT !.pc = "admit", !.team = t]]
  /\ UNCHANGED <<up, now, mu, memory, tables, terminals, order, history, crashes>>

\* Faulty variant: the answer names the request's own, still empty, session.
CreateExistingUnnamed(h) ==
  /\ At(h, "admit") /\ Free
  /\ \E i \in Live(sessions) : sessions[i] = job[h].team
  /\ known' = known \union {job[h].id}
  /\ Done(h)
  /\ UNCHANGED <<up, now, mu, memory, tables, terminals, order, used, late, crashes>>

\* The team already has a session: 200 with its identifier.
CreateExisting(h) ==
  /\ At(h, "admit") /\ Free
  /\ \E i \in Live(sessions) :
       /\ sessions[i] = job[h].team
       /\ known' = known \union {i}
  /\ Done(h)
  /\ UNCHANGED <<up, now, mu, memory, tables, terminals, order, used, late, crashes>>

HasSession(t) == \E i \in Live(sessions) : sessions[i] = t
Full == MaxConcurrent > 0 /\ Cardinality(Live(sessions)) >= MaxConcurrent

\* No room: 503.
CreateRefused(h) ==
  /\ At(h, "admit") /\ Free
  /\ ~HasSession(job[h].team)
  /\ Full
  /\ Done(h)
  /\ UNCHANGED <<up, now, mu, memory, tables, terminals, order, history, crashes>>

\* opaqueToken never returns an identifier that is or was in use.
Unused(i) == sessions[i] = None /\ rows[i] = None /\ i \notin known

\* Faulty variants: the limit is off by one; the team's session is not
\* looked for again; the mutex is dropped before the statements.
CreateSessionOver(h, i) ==
  /\ At(h, "admit") /\ Free
  /\ ~HasSession(job[h].team)
  /\ ~(MaxConcurrent > 0 /\ Cardinality(Live(sessions)) > MaxConcurrent)
  /\ Unused(i)
  /\ sessions' = [sessions EXCEPT ![i] = job[h].team]
  /\ activity' = [activity EXCEPT ![i] = now]
  /\ mu' = h
  /\ job' = [job EXCEPT ![h] = [@ EXCEPT !.pc = "saveRow", !.id = i]]
  /\ late' = LateAfterWork
  /\ UNCHANGED <<up, now, manualClose, tables, terminals, order, known, used, crashes>>
CreateSessionTwice(h, i) ==
  /\ At(h, "admit") /\ Free
  /\ ~Full
  /\ Unused(i)
  /\ sessions' = [sessions EXCEPT ![i] = job[h].team]
  /\ activity' = [activity EXCEPT ![i] = now]
  /\ mu' = h
  /\ job' = [job EXCEPT ![h] = [@ EXCEPT !.pc = "saveRow", !.id = i]]
  /\ late' = LateAfterWork
  /\ UNCHANGED <<up, now, manualClose, tables, terminals, order, known, used, crashes>>
CreateSessionUnlocked(h, i) ==
  /\ At(h, "admit") /\ Free
  /\ ~HasSession(job[h].team) /\ ~Full
  /\ Unused(i)
  /\ sessions' = [sessions EXCEPT ![i] = job[h].team]
  /\ activity' = [activity EXCEPT ![i] = now]
  /\ job' = [job EXCEPT ![h] = [@ EXCEPT !.pc = "saveRow", !.id = i]]
  /\ late' = LateAfterWork
  /\ UNCHANGED <<up, now, mu, manualClose, tables, terminals, order, known, used, crashes>>

\* The session enters the maps; the mutex is kept.
CreateSession(h, i) ==
  /\ At(h, "admit") /\ Free
  /\ ~HasSession(job[h].team) /\ ~Full
  /\ Unused(i)
  /\ sessions' = [sessions EXCEPT ![i] = job[h].team]
  /\ activity' = [activity EXCEPT ![i] = now]
  /\ mu' = h
  /\ job' = [job EXCEPT ![h] = [@ EXCEPT !.pc = "saveRow", !.id = i]]
  /\ late' = LateAfterWork
  /\ UNCHANGED <<up, now, manualClose, tables, terminals, order, known, used, crashes>>

CreateSaveRow(h) ==
  /\ At(h, "saveRow")
  /\ rows' = [rows EXCEPT ![job[h].id] = job[h].team]
  /\ Goto(h, "saveMeta")
  /\ UNCHANGED <<up, now, mu, memory, meta, storedClose, terminals, order, history, crashes>>

\* 201: the deferred unlock ends the critical section.
CreateSaveMeta(h) ==
  /\ At(h, "saveMeta")
  /\ meta' = [meta EXCEPT ![job[h].id] = activity[job[h].id]]
  /\ known' = known \union {job[h].id}
  /\ mu' = None
  /\ Done(h)
  /\ UNCHANGED <<up, now, memory, rows, storedClose, terminals, order, used, late, crashes>>

\* Faulty variant: the mutex stays locked when a statement fails.
CreateFailsLocked(h) ==
  /\ StoreMayFail
  /\ At(h, "saveRow") \/ At(h, "saveMeta")
  /\ Done(h)
  /\ UNCHANGED <<up, now, mu, memory, tables, terminals, order, history, crashes>>

\* A statement fails: 500.  The session stays in the maps.
CreateFails(h) ==
  /\ StoreMayFail
  /\ At(h, "saveRow") \/ At(h, "saveMeta")
  /\ mu' = None
  /\ Done(h)
  /\ UNCHANGED <<up, now, memory, tables, terminals, order, history, crashes>>

-----------------------------------------------------------------------------
\* /sessions/<id>

Expired(i) == IdleTimeout > 0 /\ now - activity[i] > IdleTimeout

\* The session is found, then touchActivity: 410 leaves everything alone.
Touch(h, i, kind) ==
  /\ At(h, "idle") /\ Free
  /\ sessions[i] # None
  /\ kind # "judge" /\ (kind = "terminal" => Terminals)
  /\ ~Expired(i)
  /\ activity' = [activity EXCEPT ![i] = now]
  /\ job' = [job EXCEPT ![h] = [Idle EXCEPT !.pc = "gate", !.id = i, !.kind = kind,
                                            !.arrived = now]]
  /\ UNCHANGED <<up, now, mu, sessions, manualClose, tables, terminals, order,
                 history, crashes>>

\* Faulty variant: only POST submit asks whether the event is closed.
GateOpen(h) ==
  /\ At(h, "gate") /\ Free
  /\ \/ /\ job[h].kind = "read"
        /\ Done(h) /\ UNCHANGED terminals
     \/ /\ job[h].kind = "terminal"
        /\ Done(h) /\ terminals' = terminals \union {job[h].id}
     \/ /\ job[h].kind \in {"post", "submit"}
        /\ Goto(h, IF job[h].kind = "submit" THEN "submit" ELSE "work")
        /\ UNCHANGED terminals
  /\ UNCHANGED <<up, now, mu, memory, tables, order, history, crashes>>

\* eventStatus: a closed event refuses what is not a plain GET.
Gate(h) ==
  /\ At(h, "gate") /\ Free
  /\ \/ /\ job[h].kind = "read" \/ Status = "closed"
        /\ Done(h) /\ UNCHANGED terminals
     \/ /\ Status # "closed" /\ job[h].kind = "terminal"
        /\ Done(h) /\ terminals' = terminals \union {job[h].id}
     \/ /\ Status # "closed" /\ job[h].kind \in {"post", "submit"}
        /\ Goto(h, IF job[h].kind = "submit" THEN "submit" ELSE "work")
        /\ UNCHANGED terminals
  /\ UNCHANGED <<up, now, mu, memory, tables, order, history, crashes>>

\* POST submit asks once more.
SubmitGate(h) ==
  /\ At(h, "submit") /\ Free
  /\ IF Status = "closed" THEN Done(h) ELSE Goto(h, "work")
  /\ UNCHANGED <<up, now, mu, memory, tables, terminals, order, history, crashes>>

\* The line is run under the session's own mutex.
Work(h) ==
  /\ At(h, "work")
  /\ late' = LateAfterWork
  /\ Goto(h, "row")
  /\ UNCHANGED <<up, now, mu, memory, tables, terminals, order, known, used, crashes>>

\* Both judging routes: neither the idle time nor the status is asked.
JudgeSession(h, i) ==
  /\ At(h, "idle") /\ Free
  /\ sessions[i] # None
  /\ job' = [job EXCEPT ![h] = [Idle EXCEPT !.pc = "row", !.id = i, !.kind = "judge"]]
  /\ UNCHANGED <<up, now, mu, memory, tables, terminals, order, history, crashes>>

\* persistSession: SaveSession inserts the row if it is not there yet ...
PersistRow(h) ==
  /\ At(h, "row")
  /\ rows' = [rows EXCEPT ![job[h].id] = sessions[job[h].id]]
  /\ Goto(h, "seen")
  /\ UNCHANGED <<up, now, mu, memory, meta, storedClose, terminals, order, history, crashes>>

\* Faulty variant: the moment of saving is stored as the session's activity.
PersistSeenNow(h) ==
  /\ At(h, "seen") /\ Free
  /\ job' = [job EXCEPT ![h] = [@ EXCEPT !.pc = "meta", !.seen = now]]
  /\ UNCHANGED <<up, now, mu, memory, tables, terminals, order, history, crashes>>

\* ... Activity is read under the mutex (the evidence was written before) ...
PersistSeen(h) ==
  /\ At(h, "seen") /\ Free
  /\ LET seen == activity[job[h].id] IN
       job' = [job EXCEPT ![h] = [@ EXCEPT !.pc = "meta",
                                           !.seen = IF seen = 0 THEN now ELSE seen]]
  /\ UNCHANGED <<up, now, mu, memory, tables, terminals, order, history, crashes>>

\* Faulty variant: the row of a session that has one is left as it is.
PersistMetaOnce(h) ==
  /\ At(h, "meta")
  /\ meta' = [meta EXCEPT ![job[h].id] = IF @ = 0 THEN job[h].seen ELSE @]
  /\ used' = [used EXCEPT ![job[h].id] = Latest(@, job[h].arrived)]
  /\ Done(h)
  /\ UNCHANGED <<up, now, mu, memory, rows, storedClose, terminals, order, known,
                 late, crashes>>

\* ... and stored.  The request is answered 200.
PersistMeta(h) ==
  /\ At(h, "meta")
  /\ meta' = [meta EXCEPT ![job[h].id] = job[h].seen]
  /\ used' = [used EXCEPT ![job[h].id] = Latest(@, job[h].arrived)]
  /\ Done(h)
  /\ UNCHANGED <<up, now, mu, memory, rows, storedClose, terminals, order, known,
                 late, crashes>>

PersistFails(h) ==
  /\ StoreMayFail
  /\ At(h, "row") \/ At(h, "meta")
  /\ Done(h)
  /\ UNCHANGED <<up, now, mu, memory, tables, terminals, order, history, crashes>>

-----------------------------------------------------------------------------
\* An open terminal

\* An input frame runs a line: no touchActivity, no eventStatus, no statement.
TerminalInput(i) ==
  /\ up /\ i \in terminals
  /\ used' = [used EXCEPT ![i] = now]
  /\ late' = LateAfterWork
  /\ UNCHANGED <<up, now, mu, memory, tables, terminals, job, order, known, crashes>>

\* The client leaves, or the read deadline of 60 minutes passes.
TerminalEnd(i) ==
  /\ up /\ i \in terminals
  /\ terminals' = terminals \ {i}
  /\ UNCHANGED <<up, now, mu, memory, tables, job, order, history, crashes>>

-----------------------------------------------------------------------------
\* POST organizer/event/close, event/reopen and submissions/close

\* The flag is set under the mutex ...
OrganizerSet(o, what) ==
  /\ Free /\ order[o] = "none"
  /\ manualClose' = (what = "close")
  /\ order' = [order EXCEPT ![o] = what]
  /\ late' = IF StatusWith(what = "close") = "closed" THEN late ELSE 0
  /\ UNCHANGED <<up, now, mu, sessions, activity, tables, terminals, job, known,
                 used, crashes>>

\* ... and stored without it; 500 if that fails, with the flag left set.
OrganizerStore(o) ==
  /\ up /\ order[o] # "none"
  /\ storedClose' = (order[o] = "close") \/ (StoreMayFail /\ UNCHANGED storedClose)
  /\ order' = [order EXCEPT ![o] = "none"]
  /\ UNCHANGED <<up, now, mu, memory, rows, meta, terminals, job, history, crashes>>

-----------------------------------------------------------------------------
Tick ==
  /\ now < MaxTime
  /\ now' = now + 1
  /\ UNCHANGED <<up, mu, memory, tables, terminals, job, order, history, crashes>>

Crash ==
  /\ up /\ crashes < MaxCrashes
  /\ up' = FALSE
  /\ mu' = None
  /\ sessions' = [i \in Ids |-> None]
  /\ activity' = [i \in Ids |-> 0]
  /\ manualClose' = FALSE
  /\ terminals' = {}
  /\ job' = [h \in Handlers |-> Idle]
  /\ order' = [o \in Organizers |-> "none"]
  /\ crashes' = crashes + 1
  /\ UNCHANGED <<now, tables, history>>

\* Faulty variants: only sessions that have a session_meta row are recovered;
\* the organizer's flag is forgotten.
RecoverJoined ==
  /\ ~up
  /\ up' = TRUE
  /\ sessions' = [i \in Ids |-> IF meta[i] = 0 THEN None ELSE rows[i]]
  /\ activity' = meta
  /\ manualClose' = storedClose
  /\ late' = IF StatusWith(storedClose) = "closed" THEN late ELSE 0
  /\ UNCHANGED <<now, mu, tables, terminals, job, order, known, used, crashes>>
\* Server.Recover, before the server listens.
Recover ==
  /\ ~up
  /\ up' = TRUE
  /\ sessions' = rows
  /\ activity' = [i \in Ids |-> IF rows[i] = None THEN 0
                                ELSE IF meta[i] = 0 THEN now ELSE meta[i]]
  /\ manualClose' = storedClose
  /\ late' = IF StatusWith(storedClose) = "closed" THEN late ELSE 0
  /\ UNCHANGED <<now, mu, tables, terminals, job, order, known, used, crashes>>

-----------------------------------------------------------------------------
\* The rest of a request, which nobody has to ask for.
Continue(h) ==
  \/ CreateExisting(h) \/ CreateRefused(h)
  \/ \E i \in Ids : CreateSession(h, i)
  \/ CreateSaveRow(h) \/ CreateSaveMeta(h)
  \/ Gate(h) \/ SubmitGate(h) \/ Work(h)
  \/ PersistRow(h) \/ PersistSeen(h) \/ PersistMeta(h)

Next ==
  \/ \E h \in Handlers :
       \/ \E t \in Teams : CreateCheck(h, t)
       \/ \E i \in Ids : \/ JudgeSession(h, i)
                         \/ \E kind \in Kinds : Touch(h, i, kind)
       \/ Continue(h)
       \/ CreateFails(h) \/ PersistFails(h)
  \/ \E i \in Ids : TerminalInput(i) \/ TerminalEnd(i)
  \/ \E o \in Organizers :
       \/ \E what \in {"close", "reopen"} : OrganizerSet(o, what)
       \/ OrganizerStore(o)
  \/ Tick \/ Crash \/ Recover

Spec == Init /\ [][Next]_vars

\* The Go scheduler runs every goroutine that can run, and a sync.RWMutex is
\* handed on: a goroutine that waits for it is not overtaken for ever.
FairSpec == Spec /\ \A h \in Handlers : SF_vars(Continue(h))

-----------------------------------------------------------------------------
\* Properties

\* However many requests of a team race, and through any restart, the team
\* has one session: in the server's map, and in the table.
OneSessionPerTeam ==
  \A i, j \in Ids :
    /\ sessions[i] # None /\ sessions[i] = sessions[j] => i = j
    /\ rows[i] # None /\ rows[i] = rows[j] => i = j

\* The limit holds of the sessions served and of the sessions stored.
SessionLimit ==
  MaxConcurrent > 0 => /\ Cardinality(Live(sessions)) <= MaxConcurrent
                       /\ Cardinality(Live(rows)) <= MaxConcurrent

\* A session whose identifier a team was told is in the table, so that it is
\* there after a crash.
KnownIsStored == \A i \in known : rows[i] # None

\* A running server serves every stored session, to the team it belongs to.
StoredIsServed == up => \A i \in Live(rows) : sessions[i] = rows[i]

\* The time a session was last used, as the server knows it or would learn
\* it from the table; and whether there is such a session.
LastUse(i) == IF up THEN activity[i] ELSE meta[i]
Exists(i)  == IF up THEN sessions[i] # None ELSE rows[i] # None

\* The next start finds a session without the row that tells its last use:
\* SaveSessionMeta failed in createSession, or the server died before it, and
\* no request of the session was stored since.
Undated(i) == ~up /\ meta[i] = 0

\* A session that went idle for too long stays expired: no request, no save
\* of an older copy and no restart brings it back.  There is one exception,
\* and the code has it: Recover takes the current time for the last use of an
\* undated session, so such a session is back after a restart however long it
\* was idle.
ExpiryIsFinal ==
  [][\A i \in Ids :
       /\ Exists(i) /\ ~Undated(i)
       /\ IdleTimeout > 0 /\ now - LastUse(i) > IdleTimeout
       => (LastUse(i))' <= LastUse(i)]_vars

\* The exception by itself: a session that is expired when the server dies is
\* still known to be by the next start (server.go:780 answers "session expired
\* due to inactivity").  The code does not promise it.
ExpiryIsRemembered ==
  [][\A i \in Live(rows) : up /\ ~up' /\ Expired(i) => ~Undated(i)']_vars

\* A participant whose work was answered within the idle time is not refused
\* as inactive, even if the server was restarted meanwhile.
ActiveIsServed ==
  up => \A i \in Live(sessions) :
          used[i] # 0 /\ now - used[i] <= IdleTimeout => ~Expired(i)

\* With no close or reopen under way, what the table says is what the server
\* does, and would do after a crash.
ClosedAgrees ==
  up /\ (\A o \in Organizers : order[o] = "none") => manualClose = storedClose

\* Once the event is closed, only the requests that were past the gate still
\* do work, one piece each.
LateWorkBounded == late <= Cardinality(Handlers)

\* No request hangs, whatever fails while the mutex is held.
EveryRequestEnds == \A h \in Handlers : job[h].pc # "idle" ~> job[h].pc = "idle"
=============================================================================
