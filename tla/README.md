# RedLab in TLA+

RedLab runs Linux troubleshooting exercises inside an emulated machine: a
participant types commands, a deterministic interpreter changes a virtual
system, every command becomes an event of a hash chain, and the result is
judged from that evidence. It runs alone (`redlab play`) or as an organizer
server for an event with teams, which keeps its state in SQLite and must give
the participants' work back after a restart.

This directory specifies that program, model-checks it with TLC and proves part
of it with TLAPS. Definitions keep the names of the Go code; `PROJECT.json`
gives for each of them the lines it was translated from.

## 1. Inventory

| Component | Source | State | Operations | Hard behaviours |
|---|---|---|---|---|
| Session | `internal/runtime/session.go` | virtual system, evidence chain, submitted flag, judge score | `RunLine`, `Restart`, `SetJudge`, `Report`, `Replay`, `ExportBundle` | one mutex, dropped between the calls of one request |
| Store | `internal/store/store.go` | SQLite tables for sessions, evidence, meta, submissions, tokens, event state | one statement per method, one connection | a request is many statements; a crash may fall between any two |
| Request handlers | `internal/server/server.go` | `Sessions`, `Restarts`, `Activity`, `manualClose` | POST command/check/submit/restart/judge, `persistSession`, `persistSubmission`, `Recover` | handlers of one session interleave freely |
| Event gate | `server.go` 534-760, 947-956 | open/closed, sessions per team, activity | create session, close, reopen, idle timeout | check then act across locks, memory and table written separately |
| Terminal | `server.go` 1047-1106 | sequence and cursor per connection | input, resume, ack | unpersisted input, reconnects |
| Credentials, tokens | `internal/auth`, `server.go` 273-483, 627-650, 1115-1212 | credential file, refresh tokens | logon, refresh, link rotation, legacy upgrade | single use, rotation that fails half-way |
| Rate limiter | `server.go` 1235-1301 | window and count per client and route class | `allowRequest` | boundaries of window and table |
| Scenario workshop | `internal/server/scenarios.go` | packages, event specification, files | create, update, delete, import | lock dropped between test, change and save; rollback |
| Evidence chain | `internal/evidence/chain.go` | events, previous hash | `Append`, `Restore`, `Verify`, manifest signature | a row missing or stale |
| Bundle | `internal/bundle`, `main.go` 115-245 | signed zip, export directory | `Write`, `Verify`, `submissions export`, `judge` | a file replaced while it is read |
| Report, diff | `internal/report` | none | format, compare two snapshots | none |
| Virtual system | `internal/system`, `internal/command` | files, services, processes, ports, users | commands of the shell | failing operations that leave half a change |
| Rules, scoring | `internal/rules`, `internal/scoring` | applied effects, score | `Apply`, `Evaluate` | effects that depend on order |
| Shell | `internal/shell/parser.go`, `session.go` 94-235 | none | parse, `&&`, `\|\|`, `;`, pipes, redirections | exit codes decide what runs |
| Scenario loading | `internal/scenario` | none | load, validate, archive | limits, path checks |
| Command line | `cmd/redlab` | files of an event | serve, play, join, event, bundle commands | pure input and output for the most part |

How they interact: the server finds the session in a map under its own mutex,
then calls the session, whose methods take the session's mutex one at a time,
then calls the store, whose statements are serialized by SQLite only. Nothing
spans the three. A terminal is a long-lived handler that calls `RunLine` and
nothing else. After a crash `Recover` rebuilds every session by running its
commands again, checks the stored chain, and lays `session_meta` on top.

What makes each part correct:

- session and store: what was answered 200 survives a crash; what is on disk can
  always be loaded; a submission is stored, backed by evidence, and never
  replaced; restarts respect the limit (that a submitted session is not reset is
  what the code answers and not what it does: chapter 3);
- event gate: one session per team, no more than the limit, nothing accepted
  once closed, the stored flag follows the answered one, an expired session stays
  expired;
- tokens: a refresh token is redeemed once, logons follow the credential file;
- workshop: packages do not change once sessions exist, a failed save leaves
  memory as it was;
- rate limiter: no client exceeds its limit by more than one window's worth in
  any minute, and one more for each request that lost the mutex to a later one;
  none is refused without a reason;
- terminal: who resumes from the last cursor gets everything after it, and misses
  at most what others recorded while it was following;
- bundle: what is accepted is what was sealed, by the server unless someone else
  signed it anew, and what is handed out is what was verified;
- virtual system: ports, processes and services agree with one another, files
  of others stay out of reach without sudo;
- lab session: a full score is earned, and replay gives back the same session.

## 2. Plan

| Step | Modules | Checked by | Status |
|---|---|---|---|
| 1 | `DurableLog`, `SessionStore`, `SessionStoreProofs` | `MCSessionStore`, `MCVirtualHost` | modelled; safety, action properties and the refinement proved |
| 2 | `EventGate`, `EventGateProofs` | `MCEventGate`, `MCCalmServer` | modelled; safety and action properties proved |
| 3 | `Access`, `FrontDoorProofs` | `MCFrontDoor` | modelled and proved |
| 4 | `RateLimiter`, `FrontDoorProofs` | `MCFrontDoor` | modelled and proved |
| 5 | `ScenarioWorkshop`, `ScenarioWorkshopProofs` | `MCDataDirectory` | modelled and proved |
| 6 | `LabSession`, `Loops`, `LabSessionProofs` | `MCVirtualHost` | modelled and proved |
| 7 | `VirtualFS`, `VirtualFSProofs` | `MCVirtualHost` | modelled and proved |
| 8 | `TerminalProtocol`, `FrontDoorProofs`, `EvidenceBundle`, `EvidenceBundleProofs` | `MCFrontDoor`, `MCDataDirectory` | modelled and proved |
| 9 | `ShellParser`, `FrontDoorProofs` | `MCFrontDoor` | modelled and proved |

Every invariant and every action property that a passing run checks is a theorem
for all values of the constants, or (`TypesOK`, `TurnsServeActive`) the
conjunction, over the parts a run composes, of such theorems. Liveness is left.

`FrontDoorProofs` holds the theorems of the four modules behind the front door,
one section each. `Loops` has the loop over a slice as a recursive function on its
places, and `LoopProofs` the lemmas that carry a property from one place to the
next (`Climb`, `LoopStays`), say that such a loop has a result (`GoesOn`) and that
this is the loop as written (`GoesAsLoop`), and pick a least number (`Smallest`);
the proof modules that reason about loops extend it.

The modules know nothing of one another: each takes the rest of the server as
nondeterminism. The modules that compose them for TLC check modules that share
no state in one run: a variable chosen in `Init` (`focus`, `setting`) says which
part a behaviour is of, and the others keep their initial state, which the run
also restricts to one of each so that they are not multiplied with the part that
moves. A run of such a module is therefore exactly the union of one run per part.
They extend the modules they compose, so that a property of a run and a property
of a theorem are the same definition: `MCVirtualHost` extends `SessionStore`,
`LabSession` and `VirtualFS`, `MCFrontDoor` extends `Access`,
`RateLimiter`, `TerminalProtocol` and `ShellParser`,
`MCDataDirectory` extends `ScenarioWorkshop` and `EvidenceBundle`. `MCCalmServer`
is the gate twice, in the two settings in which no statement fails.

### Runs

| Run | Module | What it shows |
|---|---|---|
| `session_durable` | `MCSessionStore` | Without restarts, racing handlers and terminals, failing statements and crashes never break the evidence on disk and never lose an acknowledged command: the session implements DurableLog |
| `session_live` | `MCSessionStore` | Under fair scheduling every request ends, and a submit that passed the 409 check leaves a stored submission, which no racing submit or restart replaces |
| `calm_server` | `MCCalmServer` | What holds of the gate while no statement fails, through crashes: with one request at a time an active team stays served and the stored close flag agrees; and a close racing requests lets through only those under way |
| `session_restart_race` | `MCSessionStore` | A handler that copied the chain before a restart writes its stale events after the restart cleared the table; the rows then fail Chain.Restore and the server cannot start |
| `session_restart_submit` | `MCSessionStore` | A restart that tested IsSubmitted before a concurrent submit resets the submitted session |
| `session_terminal_submit` | `MCSessionStore` | lab submit typed in a terminal raises the submitted flag and stores nothing; POST submit is then refused for good |
| `gate_admission` | `MCEventGate` | Three teams race for two sessions through two handlers, with failing statements and a crash between any two: one session per team, never one too many, and every stored session is served again |
| `gate_expiry` | `MCEventGate` | No mixture of requests, stale saves, judging, failing statements and crashes brings a session back that was idle too long, with the one exception the code makes: a start that finds a session without its session_meta row takes the current time for its last use. And every request ends although createSession keeps the mutex across statements that may fail |
| `gate_unsaved` | `MCEventGate` | SaveSession fails after the session entered the map; the team's retry is answered 200 with a session no table knows |
| `data_directory` | `MCDataDirectory` | The files beside the database: two organizer requests race over two scenarios while a session starts, writes fail before and after their rename and the server dies; and bundles are written, damaged, signed anew, exported and judged, each step on a file an action of its own |
| `virtual_host` | `MCVirtualHost` | One participant: two command lines over two small trees with and without sudo keep secrets unread, commands confined and transfers exact; three lines over two broken web servers, with resets, restarts and recoveries, keep services, score and replay consistent; and one request at a time, as ADR 0002 describes, what the server keeps of his session survives crashes between requests |
| `front_door` | `MCFrontDoor` | What stands before a session: logons, refreshes and rotations race, save and crash without reviving a token or losing a record; the limiter admits two windows in a minute and one more per late request; a terminal misses no event but what others, or a goroutine it left behind, recorded while it followed; a command line is read as it was written, but that a segment without words hands its redirections on |

## 3. SessionStore

One session of the organizer server: its memory, its rows, the handlers that
serve it. The hash chain is represented by what it commits to: event *n* is the
sequence of the first *n* commands, so a row with the wrong predecessor is a
row whose own front is not the row before it. This is what makes stale rows
visible.

State: `chain`, `submitted`, `stamp`, `judge`, `restarts` are fields of the
`Session` and of the `Server` maps; `rows`, `meta`, `submission`, `marked` are
the tables; `bundle` is the exported file; `job` says, for each goroutine, which
request it serves and where it stands, with the values it read and still
holds. `acked` and `resets` are history variables that only the properties use.

Actions: one per critical section or SQL statement. `Command`, `SubmitCheck`,
`RestartCheck`, `Judge`, `Export` and `TerminalInput` are where requests start;
`PersistReport` .. `PersistMeta` are `persistSession` in source order;
`SubmitBundle` .. `SubmitMark` are `persistSubmission` and `MarkSubmitted`;
`RestartCount`, `RestartReset`, `RestartClear` are POST restart; `StoreFails`
is a statement that returns an error; `Crash` and `Recover` frame a restart of
the process. Faulty variants stand next to the action they change.

Left out: `state_json` (saved and never read), transcript, notes, judge notes and
hints (no decision depends on them), last activity (event gate), the refusals at
the door (event gate). Two hashes are equal exactly when what they commit to is
equal, and `Replay` runs the same commands, so time stamps are not compared; the
one second by which `Replay` guesses the start is in `LabSession`.

`DurableLog` is what a participant is promised: a log grows, a prefix of it is
durable, promises lie inside that prefix, a crash cuts the log down to the prefix
and to nothing less. `ImplementsDurableLog` maps the session to it.

### Runs

Handlers are symmetric wherever no liveness is checked. Two handlers are what
every race in the code needs: each hazard is one request overtaking another.

| Run | Instance | Checks |
|---|---|---|
| `session_durable` | 2 handlers, terminals, failing statements, 2 crashes, 2 events, no restarts | `TypeOK`, `Recoverable`, `AckedDurable`, `ImplementsDurableLog` |
| `session_live` | 2 fair handlers, 1 restart, 2 events | `EveryRequestAnswered`, `SubmitIsStored`, `SubmissionKept` |
| `virtual_host`, focus "session" | 1 handler, 2 restarts, 2 crashes, 3 events, scores | `LosesNothing` (with `SubmissionBacked`) |

Bounds: `MaxEvents` limits the chain (a chain of 2 has a first row, a last row
and a predecessor link; 3 with one handler), `MaxCrashes` the crashes (2, so
that a recovery is itself interrupted by a later crash). The number of restarts
is bounded by the program itself (`MaxRestarts`).

`virtual_host` with the focus "session" is the session as `docs/adr/0002` describes it, one request at a
time and no statement failing: there the table and memory agree whenever the
session is at rest, crash or no crash.

Fairness: `FairSpec` assumes weak fairness of each handler's next step. The Go
scheduler runs every goroutine that can run and no step waits for another
request: mutexes are held for one critical section and SQLite serves one
statement at a time. No fairness is assumed of clients, crashes or recoveries.

What the code does and its documents do not say, each shown by a run with a
counterexample:

| Run | Shows |
|---|---|
| `session_restart_race` | a handler that copied the chain before a restart writes its rows after the table was cleared; `Recover` then fails and takes every session with it |
| `session_restart_submit` | a restart tests `IsSubmitted`, a submit goes through, the restart resets the submitted session |
| `session_terminal_submit` | `lab submit` typed in a terminal stores no submission, and POST submit is refused afterwards |

The passing instances are drawn around what the code does not promise. With two
handlers instead of one there, `LosesNothing` fails: two requests read and
write `session_meta` in opposite orders and the newer judge score is in memory
only; and a request that copied the chain before a submit reads the submitted
flag after it, and stores the flag without the event. It fails with terminals,
too, since commands typed there are in memory until some other request persists
the session.

### Proofs

`SessionStoreProofs` proves, for all values of the constants that satisfy
`ConstantsAssumption`:

- `TypeCorrect`: `Spec => []TypeOK`. `TypeOK` alone is not inductive: the loop of
  `persistSession` indexes its copy of the chain and `Recover` picks the last
  row, so `TypeInv` adds that the index stays inside the copy and that a
  non-empty table has a last row (an infinite table would not).
- `AlwaysRecoverable`, `AlwaysAckedDurable`: with `~AllowRestart`,
  `Spec => []Recoverable` and `Spec => []AckedDurable`. The inductive invariant
  `DurableInv` says that the rows are exactly the first events of the chain, that
  every copy still being written is a prefix of the chain whose earlier rows are
  in place, and that a request past the loop has its own command on disk. The
  lemmas on `FirstRows` carry the argument: writing a row again changes nothing,
  writing the next one makes the rows one longer, a prefix of a prefix is a
  prefix. The assumption is needed: `session_restart_race` refutes both without it.
- `SubmissionNeverReplaced`: `Spec => SubmissionKept`, with restarts.
- `RefinesDurableLog`: with `~AllowRestart`, `Spec => ImplementsDurableLog`. Each
  action is shown to be a step of `DurableLog` under the mapping or to leave the
  mapped log alone; `DurableInv` says which rows are the durable prefix.
- `CalmLosesNothing`: with `Alone(h)` and `~StoreMayFail`,
  `Spec => []LosesNothing`. `CalmInv` says of every step of a request how far the
  tables have caught up with memory (`CalmRequest`), and of a request cut off by a
  crash that what is stored is that of a moment the server went through. A judge
  score, a restart count and a submission each reach their table in another
  statement, so the invariant has a clause per statement.

Model-checked only: `EveryRequestAnswered` and `SubmitIsStored`, since liveness
is out of the prover's reach.

## 4. EventGate

All sessions of an event, seen from the door: which team gets one, how many
there may be, which request is let through, and what a restart of the server
makes of it. What a request does inside its session is `SessionStore`'s.

State: `sessions` and `activity` are the maps of `Server`, with the team a
session belongs to in place of the session; `manualClose` is the organizer's
flag; `rows`, `meta` and `storedClose` are `sessions`, `session_meta` and
`event_state`. `mu` is the server's mutex. It is a variable because
`createSession` keeps it while SQLite works and may fail; every other critical
section of it is one action that needs it free. `job` is the request a handler
serves, with the session it found, when it arrived and the copy of the activity
it still holds; `order` is what an organizer's request has set and not stored
yet. `known`, `used` and `late` are history that only properties read: the
identifiers a team was told, when answered work arrived, and how much work was
done since the event closed.

Actions: `CreateCheck` asks for the status and drops the mutex; then one of
`CreateExisting`, `CreateRefused`, or `CreateSession` with `CreateSaveRow` and
`CreateSaveMeta`, either of which may fail (`CreateFails`). `Touch` is the lookup
with `touchActivity`, `Gate` the status test, `SubmitGate` the second one of POST
submit, `Work` the line itself, `PersistRow` .. `PersistMeta` the statements of
`persistSession` that this module tells apart. `JudgeSession` enters behind the
gate. `TerminalInput` is a frame of an open terminal. `OrganizerSet` and
`OrganizerStore` are the two halves of close and reopen. `Tick` moves the clock.

Left out: which package a team gets (a hash of its name), the 60 minutes after
which a terminal ends (`TerminalEnd` may happen at any time), and POST restart,
which passes the same gate as any other POST.

### Runs

Teams, identifiers and handlers are symmetric in `gate_admission` and in the
setting "close"; where liveness or one handler is checked there is no symmetry.

| Run | Instance | Checks |
|---|---|---|
| `gate_admission` | 3 teams, 2 places, 2 handlers, terminals, failing statements, 1 crash | `TypeOK`, `OneSessionPerTeam`, `SessionLimit`, `StoredIsServed` |
| `gate_expiry` | 1 team, 2 fair handlers, failing statements, 1 crash, idle time 1 | `ExpiryIsFinal`, `EveryRequestEnds` |
| `calm_server`, setting "close" | 2 teams, 2 handlers, 1 organizer, a schedule, 1 crash | `LateWorkBounded`, `KnownIsStored` |
| `calm_server`, setting "turns" | 2 teams, 1 handler, 1 organizer, idle time 1, 2 crashes | `TurnsServeActive` (`ActiveIsServed` and `ClosedAgrees`) |

Bounds: three teams and two places are the least in which one of two racing
requests must be refused. The clock starts at 1, since Go's zero time means that
nothing was recorded, and runs to `MaxTime`: with an idle time of 1, three ticks
hold a session that is used, one that is about to expire and one that has. The
program itself bounds everything else; `late` stops counting one above the
number it is compared with.

Fairness: `FairSpec` assumes strong fairness of the rest of each request. A
waiting goroutine of a `sync.RWMutex` is handed the lock and cannot be overtaken
for ever, but the mutex may be taken and given back in between, so weak fairness
would not say it. Nothing is assumed of clients, organizers, the clock, failing
statements, crashes and recoveries.

| Run | Shows |
|---|---|
| `gate_unsaved` | a session whose row failed to be saved stays in the map; the retry is answered 200 and a crash loses it |

Again the passing instances leave out what the code does not promise, and each
property fails when its instance is widened:

- `ClosedAgrees` with two organizers in "turns": two close and reopen requests
  set the flag in one order and store it in the other, and a restart opens what
  was closed;
- `ExpiryIsFinal` itself names an exception: when `SaveSessionMeta` failed in
  `createSession`, or the server died before it, and nothing of the session was
  stored since, `Recover` has no last use to go by and takes the current time
  (`server.go:201`). A session that had expired is then in use again
  (`ExpiryIsRemembered`, chapter 13);
- `LateWorkBounded` with terminals in "close": an open terminal runs commands and
  `lab submit` after the event closed;
- `ActiveIsServed` with terminals and a longer clock in "turns": typing in a
  terminal is not activity, and the next request is answered 410; also with two
  handlers, when the older of two copies of the activity is stored last and the
  server restarts.

### Proofs

`EventGateProofs` proves, for all values of the constants that satisfy
`GateAssumption`:

- `TypeCorrect`. `TypeInv` adds to `TypeOK` that a request past its first step has
  the team or the session it is about, since it indexes the maps by it.
- `AlwaysOneSessionPerTeam`, `AlwaysSessionLimit`, `AlwaysStoredIsServed`, from
  one invariant, `AdmissionInv`. The table is written from the map, so what holds
  of the map is carried to the table by `StoredIsServed`; this in turn needs that
  a request writes the row of a session that is in the map under the same team
  (`FoundInv`), and that no request runs while the server is down (`DownInv`). In
  the other direction recovery makes the map equal to the table. `Contained` and
  `Admitted` are the two facts about one table: part of a good table is good, and
  a good table with room takes one more team.
- `ExpiryNeverUndone`. `ExpiryInv` says that what is stored, and every copy about
  to be stored, is never newer than the server's own activity, and that none is
  newer than the clock. What a start reads is then no newer than what memory held,
  unless it reads nothing, which is the exception of the property (`Undated`).
- `KnownAlwaysStored`: with `~StoreMayFail`, `Spec => []KnownIsStored`. `MutexInv`
  says that `createSession` keeps the mutex until its rows are written, so that a
  session without a row is the one being created.
- `LateWorkAlwaysBounded`: with `~Terminals`, `Spec => []LateWorkBounded`. `Pending`
  is the set of requests that passed the gate and have not worked yet; `LateInv`
  says that the work done since the close and those pending are together no more
  than the handlers there are: every piece of late work used up a pending request.
- `ActiveAlwaysServed`: with one handler and no terminal (`Single(h)`),
  `Spec => []ActiveIsServed`, statements that fail and crashes included. `UseInv`
  compares the time of the last answered work with what memory holds, what the
  request carries to the table and what the table holds.
- `ClosedAlwaysAgrees`: with one organizer and `~StoreMayFail`,
  `Spec => []ClosedAgrees`. `FlagInv` says what the organizer still owes the table.
  `calm_server` checks the last two together as `TurnsServeActive`.

Model-checked only: `EveryRequestEnds`, a liveness property.

## 5. ScenarioWorkshop

The organizer's requests that create, import, edit and remove scenario packages,
against the sessions started from them and the restart that follows.

State: `packages` and `source` are `Server.Packages` and
`Server.ScenarioSources`; `event` is the slice `Event.Spec.Scenarios`, and
`arrays` the part of Go's heap such slices point into, since a rollback restores
a slice and not its array; `archives` and `eventFile` are the files; `job` is an
organizer's request with what it keeps for the rollback. `overlap` and `failed`
are history: whether two requests overlapped, or a write failed, since the start;
a start that reads two enabled references to one scenario counts as failed, since
that is what a failed write left.

Actions: `Window` is `requireScenarioMutationWindow`, asked at the start of a
request and again in `saveManagedScenario`; `WriteArchive`, `Install`,
`Marshal` and `Rename` are the rest of a save, `Detach` of a removal;
`WriteFails` and `Rollback` the error path. `ArchiveModeFails` and `EventModeFails`
are the same path taken once the new file has its name: `writeFileAtomic` and
`WriteArchiveFile` set its mode after the rename, so that a write may report an
error and leave the new content. `AppendRef` is Go's `append`. `Init` is what
`redlab init` packs (`initializeEvent`), with some references disabled by their author.
`CreateSession` starts a session, `Crash` and `Serve` frame a restart.

Left out: what is in a `scenario.yaml` beyond its version and the validation it
must pass; the crash recovery of a session is that it finds its package and runs
on it.

Checked in `data_directory` with two scenarios, two handlers, three requests, one
session, one crash and failing writes: `RestartServesSame`, `EventFileServes`,
`CalmSessionRecovers`, `LockedAfterSessions`. Two requests are what every
overlap needs; the third is the retry after a failure. One session is enough for
the window to close.

`RestartServesSame` and `CalmSessionRecovers` speak of moments in which nothing
overlapped and nothing failed; what happens otherwise is in chapter 13.

### Proofs

`ScenarioWorkshopProofs` proves all four, and `TypesKept`, for any numbers of
scenarios, sources, handlers, requests, sessions and crashes. `WorkshopInv` has
six parts. `TypeInv` describes Go's heap: a slice lies in its array, and a slice
a rollback may restore does, too. `ArchiveInv` says that every
reference in memory, on its way to the file or in it has its archive on disk,
`DisabledInv` that a package an author has disabled is never taken for a served
one, `ListInv` that while no write failed no list names a package twice and
memory is the list that was made last. `SyncInv` says that while requests follow
one another memory and files differ only by what the one under way still has to
do. `SessionInv` says what a session was started from
and that it is stored. What `serve` makes of a list is a choice of the last
reference to each scenario; the lemma `Smallest`, well-founded induction on the
naturals by choice of a least counterexample, gives the last place without an
operator parameter.

The proof showed that an earlier `RestartServesSame` was false from four requests
on, one more than the run has: a failed save leaves two references to one
package, the start after it is calm again, and the next removal drops both. A
start from such a list now counts as one after a failure.

## 6. EvidenceBundle

How submission bundles are written, checked, exported and judged.

State: `store`, `temp` and `dest` are the files of the data directory and of the
export directory; an archive is a sequence of entries. A payload entry's data is its
own hash, the manifest's the hashes it lists, and `manifest.sig` holds the manifest it
was made of and the key it was made with: "own" for the keys of the server's
sessions, "foreign" for anyone else's. `export` and `judge` are the two commands with
the file they hold open. `version`, `resealed` and `damages` are history: what the
server wrote, what others signed, how often others changed a file.

Actions: `Write`, `RenameBundle` and `WriteBundleFails` are `bundle.Write`; `Damage` is what
a transfer or an editor does to a stored file (an entry lost, changed, repeated,
added, or their order), `Reseal` what a program does that writes a manifest of what
it finds and signs that with a key of its own; `ExportStart` .. `ExportKilled` are
`submissions export`, `JudgeVerify` .. `JudgeEnds` are `judge`, each opening of a name a
step of its own.

`VerifyManifest` checks the signature against the public key in `manifest.sig` itself
(`chain.go:129`); nothing else in the program knows which key is a session's. A
bundle that somebody changed and signed anew is therefore accepted, and that an
accepted bundle comes from the server is not a property of the code: chapter 13.
What holds is `AcceptedIsSealed`. An archive that is accepted has all of what its
signature was made for and nothing else, so that no loss, change, repetition or
addition goes unnoticed without a new signature; under a session's own key it is a
bundle the server wrote; and what nobody changed is accepted.

Checked in `data_directory` with two sessions, two versions of each (where `export` is
checked, of one of them), two changes by others and two exports: `BundlesAreSound`, which is `AcceptedIsSealed` and
`VerifiedIsUsed`. Two changes are a change and the signature over it, or a
replacement and one more while a command reads; the second export meets what an
interrupted first one left.

`VerifiedIsUsed` says of `judge` only what holds: while nobody but the server has
changed a bundle since the command began. `ReadReport` verifies one opening of the
name and reads from another, so a file replaced in between is judged without being
verified. Of `export` it holds without a condition, since that verifies and copies
one open file.

Not modelled: the limits on sizes and unsafe names, which refuse an archive whatever
it holds; a bundle stored under another session's name, which is accepted as well,
since the name of the file is compared with nothing.

### Proofs

`EvidenceBundleProofs` proves `SignaturesAreMade`, `BundlesAlwaysSound` and
`BundleTypesKept` for any number of sessions, entries, versions and changes, from
`BundleAssumption` (the payload is a non-empty list of distinct names, none of them
the name of the manifest or of its signature). The invariant says that a signature
cannot be made up: an entry that carries one carries a manifest that was signed with
that key for that session (`Made`), whatever was lost, changed, repeated, added or
moved around it. An archive that is accepted is the content of its own manifest
(`AcceptedHolds`), which was signed (`AcceptedIsWhole`). That what nobody changed is
accepted comes from `BundleVerifies`. For `export` the invariant adds that the file it
holds open is the one it verified, for `judge` that it is one as long as nothing was
changed since it began.

## 7. VirtualFS

The files, users and permissions of a lab host, and the commands that change
them.

State: `fs` is `State.Files`, a map from paths to entries that nothing forces to
be a tree; `users`, `cwd` and `sudoers` are the fields of the same names. `sudoed`
and `last` are history; `last` keeps the user of the last command, and of a `cp`
or `mv` its operands and whether it succeeded. Each command line is one step, as `RunLine` holds the
session's mutex; the operations of `State` are operators that return the new
files and whether they succeeded, so that the order of tests and side effects
(parents are made before a destination is refused) is kept. New directories and
files have the modes the code gives them, the home of a new account 0750 (`HomeMode`).

Actions: one per command: `tee` and redirection, `touch`, `mkdir` with and
without `-p`, `rm`, `rmdir`, `cp`, `mv`, `chmod`, `chown`, `cd`, `useradd`,
`usermod`, each as the participant and, if the host's sudo rules admit it, as
root.

Checked in `virtual_host`, focus "files", for two lines over two trees with four
accounts: `SecretKept`, `Confined`, `TransferExact`. The trees have twelve paths
of depth three at most: a home with a directory and a file, a directory of root's
with a secret beside the home or inside it. Two lines are one that prepares
(copy, move, change a mode) and one that reaches for the secret; a read without
its permission test (`ReadFileAny`) is caught within them. The definitions a
specification usually calls `Init`, `Next` and `Spec` are `FilesInit`, `FilesNext`
and `FilesSpec` here, since the run extends other components, too.

### Proofs

`VirtualFSProofs` proves these three properties and the types, for any paths, trees,
accounts, operands and number of commands, from `FilesAssumption`: paths are
sequences of numbers, root, the participant and the account `useradd` may make are
three names, and every initial tree has typed entries, a directory at its root, and
the secret only in private files that are not the participant's.

The proof goes operation by operation. `Step` says what an operation may make of a
tree: a tree again, and, if the participant runs it, nothing outside his
reach changed (`Within`) and the secret in private files of others only, unless it was
among the lines brought (`Kept`). It is transitive (`StepOrder`), although entries made
on the way can be written themselves: what is in reach after a step
was in reach before it (`ReachKept`). `chmod` and `chown` touch an entry
because of its owner and not of its mode, so they have a relation of their own
(`Mine`). A command with several operands, `mkdir -p` and the parents of a path are
loops, which keep what one turn keeps.

- `FilesTypesKept`: `FilesTypeOK` is inductive; `/` stays since `rm` and `mv` refuse it.
- `SecretAlwaysKept`: `SecretKept` is not inductive, since a file that cannot be read
  may still be the participant's to `chmod`. The invariant is `Kept`: until something
  has run under sudo, a file with the secret is not the participant's and at most
  its owner may read or write it.
- `AlwaysConfined`: a step of the participant is `Within`, or changes only what is his
  (`Owned`), or is an `mv` of what he can read.
- `TransfersAlwaysExact`: `CopyTreeFacts` follows the loop over the sorted paths of the
  source. `Rebase` is injective, so a path written once is not written again, and
  where source and destination are unrelated no path that is still to be read is
  written (`Apart`). `Sorted` lists every path of the source once (`SortedFacts`,
  from the order of paths being linear).

## 8. LabSession

One participant's session: services, processes, ports, rules, score, hints, the
evidence, its replay.

State: `pkg` is the scenario package, `s` the session as one record, so that
`RunLine` is a function and `Replay` can be compared with what it replays.

Actions: one per kind of command line (`SystemctlLine`, `KillLine`, ...,
`CompoundLine` for `&&`, `||` and `;`, `Unparsed` for a line the parser refuses,
`BareLine` for one that parses to no statement, as `> f` does: it runs nothing, and
the rules and the clock go on as after any other),
`Restart`, and `RecoverSession`, which replaces the session by its replay.

Checked in `virtual_host`, focus "lab", for three lines over three units and two
packages shaped like `broken-httpd`: `ServicesAgree`, `FullScoreIsEarned`,
`ReplayReproduces`, `KillHitsListed`. Three lines are the fewest that repair the
host. `MaxDrift` bounds by how many seconds
recoveries may move the start.

`ReplayReproduces` compares times counted from the start of the session: `Replay`
guesses the start as one second before the first event, which is wrong by one
second when the first line did not parse.

### Proofs

`LabSessionProofs` proves, from `LabAssumption` (units are finitely many numbers;
a package has a state for every unit, and its rule publishes the web server only
while that runs and the zone admits http, as the core scenarios' rules do; no
objective is worth less than nothing, which the loader enforces, two of them are
the running web server and its page, and guardrails and hints cost something):

- `LabTypesKept` and `ServicesAlwaysAgree`. `LabInv` says that the session is typed
  with a host in which services, processes and ports agree, that the snapshot a
  reset goes back to is the new state of the package, and that the evidence is
  within its bound. `Over`, the fold of the model, is a recursive function on the
  places of a sequence; the lemma `Climb` carries a property from place to place,
  so that what one unit, one process or one statement keeps, a loop keeps.
- `KillAlwaysHitsListed`: what `kill` with one PID does to every unit.
- `ReplayAlwaysReproduces`. Two sessions are `Alike` when they differ by the same
  number of seconds in every time they hold. Every command keeps two sessions
  alike, one kind of command at a time, so the replay of a chain and the run it
  came from stay alike, line by line. `ReplayInv` adds to `LabInv` that no time and no
  event is before the start, that the start is no further back than recoveries
  move it, and
  that for *every* start the replay of the evidence is alike the session. The last
  part is what makes it inductive: a recovery changes the start.
- `FullScoreAlwaysEarned`. The objectives and guardrails of a package are slices, as
  in `scoring.go`, and the score is a sum along them. `SumChange` says that one number
  changed moves a sum by the difference, so that the cost of hints stays the
  sum of the prices of those taken (`Paid`), through every line, reset and replay: a hint
  is charged when it is first taken and never again. `SumLess` says that a sum that
  is nowhere more and less in one place is less, so that whoever has all the points
  lacks none of them, and pays for no guardrail and for no hint. Then the conditions of
  the two objectives hold of the host.

## 9. Access

Who gets in: the credential file and the server's copy, link tokens, refresh
tokens.

State: `disk` and `mem` are the file and `Server.Credentials`, `memErr` and
`keyOk` what went wrong at start; `tokens` is `auth_refresh_tokens`, with the
logon each descends from; `job` is a request between its critical sections; `gen`
is the file `event teams generate` has read and not yet saved. The rest is
history.

Actions: `Login`, `LinkLogin`, `VerifyLink`, `VerifyWho` (with the upgrade of a
legacy record and all outcomes of the save), `IssueTokens`, `IssueFails`,
`RotateRefreshToken`, `AskRotation`, `RotateLinkToken`, `GenerateLoad`,
`GenerateSave`, `Crash`, `New`.

Checked in `front_door` with one team and one generated, two handlers, two
tokens, one rotation, one crash, failing saves and loads: `OneUsableToken`,
`ClientKeepsToken`, `LinkIsCurrent`, `CredentialsKept`. Two requests racing for
one token need one token and the one it is traded for; a rotation racing an
upgrade needs one of each.

`FrontDoorProofs` proves all four and the types for any numbers of teams, handlers,
tokens, links and crashes. `TokenInv`: the unspent token of a family is unique, a
family has one refresh under way at most and no unspent token beside it, and one
of the two is there unless the family was cut. `LinkInv`, for as long as
`generate` and the server did not overlap, has three parts: `generate` adds its
team to the file that is there (`NewFileAlone`), a rotation under way installs a link
nobody had (`Rotating`), and memory agrees with the file unless a save tore them
apart or the start failed (`Together`).

## 10. RateLimiter

`allowRequest` over `rate`, the table, and `clock`; `latest`, `lates` and `admitted` are
history. `Request(k, now)` is the whole critical section with its sweep, `Pass` the
clock. `now` is any time up to the present, since the code reads the clock
(`server.go:1281`) before it waits for the mutex (`:1282`): requests come in with times
out of order, and one that is `Late` finds a table that a request with a later time
has been at. It may count in a window that began after it, be spared or caught by a sweep
with its own time, or open a window in the past.

The constants are the code's own numbers scaled down: limits 1 and 2 for 20 and 120,
a minute of 2, a sweep above 1 entry for 1024, a capacity of 2 for 4096. The three keys
exceed the capacity by one. `MaxNow` is 2, so that a window ends, and `MaxLate` 2, so
that there is a late request after a late one.

Checked in `front_door`: `LimiterIsFair`. Twice the limit in one minute is what a
fixed window allows. A late request may add a window of its own once its key's was
swept, so the bound is a window more for each late request of the key around
that minute that was let through; it is the
exact two windows whenever requests come in in the order of their times. A refusal is
justified by requests of the key since a minute before the time it read, or by a full
table.

`FrontDoorProofs` proves `LimiterIsFair` for any keys, limits, minute and
capacity above the sweep, and any number of late requests. What the table knows of a
key is tied to its history. An entry counts every request since its window began, or
says that the limit was passed (`Counted`); what came before that window is `Fair`, as
is all that is known of a key without an entry, and a minute that goes on after it
holds one window and one more for each late request (`Forgotten`). A window that
begins in time brings this to two; one that begins in the past does so with a late
request, which pays for it (`Opened`).

## 11. TerminalProtocol

The frames of WebSocket terminals of one session. `log` is the timeline by event
identity, so that a sequence number used again after a restart is another event;
`term` the goroutine of each connection, `inbox` and `outbox` the frames under
way, `client` what the participant's side knows. The client is external: it
resumes from its last cursor as soon as it is connected, as `server_test.go` does.
`RunInput` and `ReportInput` are two steps, since `RunLine` and `Report` take the
session's mutex separately.

`Break` is the client's: it has lost the connection and every frame on its way back.
The goroutine at the other end has not ended with it. It reads on until a read or
a write fails (`server.go:1062`), and may run a line it had received when the client is
back and has resumed. What such a goroutine still does that others can see is to
record events, and that is `RunElsewhere`, the action of every other writer of the
session: a second terminal outside the model, a POST, an organizer's request.

`NothingMissed` says what a cursor stands for: events that were shown, and no
others but those in `unshown`, which were recorded by someone else while the terminal
was connected and had resumed. Those are lost for good, as the cursor of an answer is
the last event of the session and not the command's own (`server.go:1073`). The code
does not promise more: a participant alone in the session misses the event of his own
line when it is run late. Everything recorded while the terminal was away is shown
by the next resume, which is where a mistake would lose events.

Checked in `front_door` with two terminals, two events, one frame under way in each
direction, one restart and three connections: one to lose, one to resume with and one
beside them. Two events are one that is shown and one that is missed. The terminals are
symmetric.

`FrontDoorProofs` proves it for any numbers of terminals, frames, events and
connections. What is in `unshown` counts as seen (`Me`). Until a restart an open
connection is in one of two states: its resume frame comes first and nothing has been
sent (`Greeting`), or every event of the session is seen, in a frame under way or
the one whose answer is due, and every frame's cursor stands for events that are seen
or shown by the frames before it (`Going`). A broken connection
loses frames and leaves what was shown, which is what the next resume starts from.

## 12. ShellParser

How a command line becomes statements, pipelines and commands. `lexer` holds the
variables of `lex`. `normalizeOperators` is a loop over the places of its argument,
whose `skip` is what `i += 3` skips; the parser is a loop over the tokens. The
participant writes a line piece by piece (`Letter`, `Quoted`, `Escaped`, `Operator`,
...), and `meant` records what each piece says.

`LineIsUnderstood` compares both halves with what they stand for. `WordsAsMeant`: the
tokens are the words and operators that were meant, and what ends inside a quote is
refused. `StructureKept`: the commands are the segments between the operators
(`Segments`, a second reading of the tokens with no pipelines and no pending flush),
and a line is refused for an operator without a command or a redirection without a
target, and for nothing else. A segment without words is where the code departs from
this, and the property says how (`Carry`): `flushCommand` and `flushPipeline` reset a
command only when it has words, so that its redirections go to the next one, and in
`a | > f ; b` it is `b` that writes to `f`; at the end of a line they are dropped.
A pipe with nothing between it and the next connector is passed over, and `a | ; b`
taken for `a ; b`. Both are accepted without an error, and nothing else is carried over.

The property leaves out what the code reads in its own way (`Plain`): a quoted `|` is
an operator, a quoted `&` may become half of one, `2 >` and `| |` are joined over the
blank; and `2>&1` takes the next token as its target, so that `a 2>&1 | b` is the one
command `a b`.

Checked in `front_door` for every line of six pieces over two letters, four quoted
runes and the operators `|`, `||`, `>`, `2>` and `2>&1`; `;`, `&&`, `<` and `>>` are left to
the proof. Six pieces are what `a | > f || b` has, the shortest line in which a redirection
reaches the wrong command.

### Proofs

`FrontDoorProofs` proves it for lines of any length and any letters and operators,
from `LineAssumption`: a letter is no rune the lexer knows, and a quoted rune is no quote.

- `LineTypesKept`: the types, from the same invariant.
- `LineAlwaysUnderstood`. `LineInv` says where what was meant lies in the tokens
  written so far (`Laid`): a word is one token, an operator as many as it has
  runes, in order and without a gap. Each kind of piece is followed rune by rune through
  the lexer, and adds its tokens or makes the last word longer.
  `normalizeOperators` is then at the first token of a piece whenever it skips
  nothing (`NormalizedIsMeant`): it finds that piece there and skips the rest of it,
  and `Plain` is exactly what excludes that it finds more. For the parser,
  `Structure` takes any sequence of tokens: parser and segments are read token
  by token in step, the statements, the pipeline under way and the words not yet
  flushed on one side, the closed segments and the last one on the other, until the
  parser refuses; what it refuses for stays in the segments. The redirections a
  segment without words leaves are, on the parser's side, those of the command it has
  not reset.

## 13. Disagreements

Four runs of chapters 3 and 4 end in a counterexample; each is a finding in
`PROJECT.json`. The definitions below state further sentences of the documents
that the code does not keep. They are in the modules and in no configuration:
add the name to the `INVARIANTS` or `PROPERTY` line of the configuration to see
the counterexample.

| Definition | Configuration | The sentence | What happens |
|---|---|---|---|
| `PackagesLocked` | `DataDirectory.cfg` | `README.md:406`, scenario changes are locked once sessions exist | `scenarios.go:412`: the window is tested before the write; a session created in between runs, after a restart, on a package it was not started from |
| `EventFileAlwaysLoads` | `DataDirectory.cfg` | `loader.go:384`, references are unique | `scenarios.go:431`: a failed save restores the slice and not its array; the retry appends a second reference to the same package and the server no longer starts |
| `MovedIsThere` | `VirtualHost.cfg` (property) | `state.go:497`, what mv moves is at the destination | `state.go:562`: with a destination below a plain file, mv deletes the copy with the source |
| `ReplayKeepsClock` | `VirtualHost.cfg` | `README.md:440`, evidence is replayed deterministically | `session.go:77`: after a first line that did not parse, the replayed clock is one second behind |
| `ResetClearsAnswers` | `VirtualHost.cfg` (property) | `README.md:240`, `lab reset` resets machine and session state | `session.go:313`: answers and the submission stay |
| `QuotedIsData` | `FrontDoor.cfg` | `parser.go:153`, the normalizer combines adjacent punctuation | `parser.go:172`: the quotes are gone and the blanks too, so a quoted `\|` is an operator |
| `AcceptedIsWritten` | `DataDirectory.cfg` | `README.md:438`, signed bundle manifests make tampering detectable; `docs/threat-model.md:20` | `chain.go:129`: the signature is checked against the key the archive brings along, so an archive that was changed and signed anew is accepted |
| `ExpiryIsRemembered` | `GateExpiry.cfg` (property) | `server.go:780`, `session expired due to inactivity` | `server.go:201`: without its `session_meta` row an expired session starts anew at the next start |
| `FailsClosed` | `FrontDoor.cfg` | `README.md:435`, logons are closed without valid credentials | `server.go:648`: a link rotation with an organizer token from before clears the error that kept them closed and saves an empty file with one link |

`README.md:385` says that `evidence verify` verifies archive and evidence chain;
`main.go:58` calls `bundle.Verify`, which checks the hashes of the manifest, its
signature and the entries, and does not read the timeline.

A line like `a | > f ; b`, accepted with the redirection of the first command moved to
the second (chapter 12), contradicts no sentence of the documents; it is described in
`LineIsUnderstood` and is not what a shell does.

## 14. Proved and checked

Proved for all values of the constants: 43 theorems, those of chapters 3 to 12,
in seven modules and the lemmas on loops in an eighth. They rest on the assumptions
about constants that the modules state and TLC evaluates in every run
(`ConstantsAssumption`, `GateAssumption`, `WorkshopAssumption`, `NoneAssumption`,
`BundleAssumption`, `FilesAssumption`, `LabAssumption`, `AccessAssumption`,
`RateAssumption`, `TerminalAssumption`, `LineAssumption`), and
some on a hypothesis that the theorem names: no restarts, one handler and no
terminal, one organizer, no failing statement. Each of these hypotheses is the
setting of the run that checks the same property, and chapters 3, 4 and 13 name
what happens outside of it.

Left to TLC:

- liveness (`EveryRequestAnswered`, `SubmitIsStored`, `EveryRequestEnds`): the
  prover has no rule for fairness of an enabled action;
- that the parts of a composed run do not disturb one another, which holds by
  `focus` and `setting` and is not a statement about the program.

Inductions over data (a loop over a slice, a sum, a line) are proved over the
places of a sequence, one property at a time, by a least counterexample; the loops
are recursive functions, of which only the step from one place to the next is used.

What TLC runs on is small, but no bound hides a step: between them the runs take
every action of every module, and for every property a changed version of one
mapped definition (the operators commented as variants in the modules) makes the
same run fail.

## 15. Not modelled

- Reports and diff: pure functions that lay out text and compare two snapshots
  section by section; no decision of the program depends on them.
- Commands that only print (`ls`, `grep`, `find`, `ps`, `journalctl`, `man`, ...):
  they read the host; those that change it are in `VirtualFS` and `LabSession`.
- Expansion of variables and globs, and the text a pipeline passes from one
  command to the next. How a line is read is in `ShellParser`; which of its
  statements run, and what a failure ends, is in `LabSession`.
- Scenario loading: independent checks on one input file. The check on
  references is in `ScenarioWorkshop` (`ValidEvent`).
- The catalog of commands, the command line and the launcher, TLS files: static
  data, argument parsing, input and output.
- The HTTP layer (headers, routing, bodies) and the dashboard: no state that a
  property could be about.
- The time of submission (`MarkSubmitted`): the session's model has the statement
  and no clock.
