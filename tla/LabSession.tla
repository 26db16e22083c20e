----------------------------- MODULE LabSession -----------------------------
(***************************************************************************)
(* A participant's session (runtime/session.go) over the services,         *)
(* processes, ports and modes of the virtual host (system/state.go), the   *)
(* rules and the score (rules/engine.go, scoring/scoring.go).              *)
(*                                                                         *)
(* A session is one record, so that RunLine is a function of it and Replay *)
(* can be compared with what it replays.  Units are numbers because        *)
(* processes are numbered in the order of their units.  The journal is     *)
(* left out: only journalctl reads it.  The file a start condition reads   *)
(* is the flag conf: whether it holds the pattern.                         *)
(***************************************************************************)
EXTENDS Loops, Integers, Sequences, SequencesExt

CONSTANTS
  Units,      \* the services of the scenario
  Httpd,      \* the one whose ports the host keeps
  Packages,   \* the scenarios a session may run (see MCVirtualHost)
  Seed,       \* the clock at which a session of this team starts
  Compounds,  \* command lines of several statements (bound)
  MaxLines,   \* events in the evidence (bound)
  MaxDrift    \* seconds recoveries may move the start (bound)

\* What schemas/scenario-v1.json admits for a service and for the mode.
Service == [state : {"running", "stopped", "failed"}, enabled : BOOLEAN]
Selinux == {"enforcing", "permissive", "disabled"}

\* The command lines, as far as they change the session.
LabCommand ==
  [kind : {"systemctl"}, verb : {"start", "stop", "restart", "enable", "disable"},
   units : Seq(Units), root : BOOLEAN]
    \union [kind : {"kill"}, pids : Seq(Nat), root : BOOLEAN]
    \union [kind : {"killall"}, unit : Units, root : BOOLEAN]
    \union [kind : {"firewall"}, root : BOOLEAN]
    \union [kind : {"setenforce"}, mode : {"enforcing", "permissive"}, root : BOOLEAN]
    \union [kind : {"edit"}, good : BOOLEAN, root : BOOLEAN]
    \union [kind : {"hint"}, id : Nat]
    \union [kind : {"curl", "answer", "reset", "submit"}]
LabStatement == [op : {"", "&&", "||", ";"}, cmd : LabCommand]
\* A line that parses may have no statement, as "> f" has none.
LabLine == [parsed : {TRUE}, statements : Seq(LabStatement)]
             \union [parsed : {FALSE}, statements : {<<>>}]

\* No submission yet.
Never == 0 - 100

(* The packages are shaped like the core scenarios: their rule publishes   *)
(* the web server only while it runs and the zone admits http; what is     *)
(* asked for is worth points (loader.go:285 admits none below zero), the   *)
(* web server and its page among it; what is forbidden or told costs.      *)
ASSUME LabAssumption ==
  /\ Units \subseteq Nat /\ IsFiniteSet(Units)
  /\ Compounds \subseteq LabLine
  /\ \A p \in Packages :
       /\ p.services \in [Units -> Service]
       /\ p.web \in BOOLEAN /\ p.conf \in BOOLEAN /\ p.selinux \in Selinux
       /\ p.hints \in Seq([cost : Nat, after : Nat])
       /\ p.when.op = "all"
       /\ [type |-> "serviceRunning", name |-> Httpd] \in p.when.of
       /\ [type |-> "firewallAllowed"] \in p.when.of
       /\ DOMAIN p.objectives = 1 .. Len(p.objectives) /\ Len(p.objectives) \in Nat
       /\ \A i \in DOMAIN p.objectives : p.objectives[i].points \in Nat
       /\ \A c \in {[type |-> "serviceRunning", name |-> Httpd], [type |-> "httpStatus", status |-> 200]} :
            \E i \in DOMAIN p.objectives :
              /\ p.objectives[i].points > 0 /\ p.objectives[i].checks.op = "all"
              /\ c \in p.objectives[i].checks.of
       /\ DOMAIN p.guardrails = 1 .. Len(p.guardrails) /\ Len(p.guardrails) \in Nat
       /\ \A i \in DOMAIN p.guardrails : p.guardrails[i].points \in Int /\ p.guardrails[i].points < 0
       /\ \A i \in DOMAIN p.hints : p.hints[i].cost > 0
  /\ MaxLines \in Nat
  /\ Seed \in Int /\ MaxDrift \in Nat /\ Never < Seed - MaxDrift - 1

VARIABLES
  pkg,        \* the scenario package
  s           \* the session

labVars == <<pkg, s>>

-----------------------------------------------------------------------------
(* The host: services, procs (unit to PID), web (the zone allows http),    *)
(* ports and http (what rules and services published), conf, selinux,      *)
(* clock.                                                                  *)

Running(h) == {u \in Units : h.services[u].state = "running"}

\* Only services that had no process are numbered.
RebuildNew(h) == [h EXCEPT !.procs = [u \in Running(h) \union DOMAIN @ |->
                    99 + Cardinality({v \in Running(h) : v <= u})]]

Rebuild(h) == [h EXCEPT !.procs = [u \in Running(h) |->
                 99 + Cardinality({v \in Running(h) : v <= u})]]
Refresh(h, u) ==
  IF u = Httpd /\ u \in Running(h) /\ h.web THEN [h EXCEPT !.ports = @ \union {"80"}] ELSE h

ClearEffects(h, u) == IF u = Httpd THEN [h EXCEPT !.ports = @ \ {"80"}] ELSE h

SetState(h, u, state) == [h EXCEPT !.services[u].state = state]

(* rules.Evaluate and conditionLocked on one condition, and on a group.    *)
Holds(h, c) ==
  CASE c.type = "serviceRunning"  -> c.name \in Running(h)
    [] c.type = "serviceDisabled" -> ~h.services[c.name].enabled
    [] c.type = "firewallAllowed" -> h.web
    [] c.type = "selinuxModeIn"   -> h.selinux \in c.values
    [] c.type = "fileContains"    -> h.conf
    [] c.type = "httpStatus"      -> h.http = c.status
    [] OTHER                      -> FALSE
Evaluate(h, g) ==
  CASE g.op = "all" -> \A c \in g.of : Holds(h, c)
    [] g.op = "any" -> \E c \in g.of : Holds(h, c)
    [] g.op = "not" -> \A c \in g.of : ~Holds(h, c)

Did(h, ok) == [host |-> h, ok |-> ok]
Refused(h) == Did(h, FALSE)

(* A start whose condition fails leaves the process and the ports of a     *)
(* service that was running.                                               *)
StartService(h, u) ==
  IF \A c \in pkg.conditions[u] : Holds(h, c)
  THEN Did(Refresh(Rebuild(SetState(h, u, "running")), u), TRUE)
  ELSE Refused(SetState(h, u, "failed"))
StopService(h, u) == Did(ClearEffects(Rebuild(SetState(h, u, "stopped")), u), TRUE)
EnableService(h, u, enabled) == Did([h EXCEPT !.services[u].enabled = enabled], TRUE)

Then(r, Op(_)) == IF r.ok THEN Op(r.host) ELSE r

\* One unit of a systemctl line.
Unit(h, c, u) ==
  IF ~c.root THEN Refused(h)
  ELSE CASE c.verb = "start"   -> StartService(h, u)
         [] c.verb = "stop"    -> StopService(h, u)
         [] c.verb = "restart" -> Then(StopService(h, u), LAMBDA g : StartService(g, u))
         [] c.verb = "enable"  -> EnableService(h, u, TRUE)
         [] c.verb = "disable" -> EnableService(h, u, FALSE)
Systemctl(h, c) == Over(LAMBDA r, u : Then(r, LAMBDA g : Unit(g, c, u)), Did(h, TRUE), c.units)

\* The services of a process that gets a signal.
StopAll(h, hit) ==
  [h EXCEPT !.services = [u \in Units |-> IF u \in hit THEN [@[u] EXCEPT !.state = "stopped"] ELSE @[u]],
            !.ports = IF Httpd \in hit THEN @ \ {"80"} ELSE @]

\* The unit is taken by its rank and not by its number.
SignalProcessRank(h, pid, root) ==
  LET hit == {u \in Units : 99 + u = pid}
  IN IF pid <= 1 \/ (hit # {} /\ ~root) THEN Refused(h)
     ELSE Did(Rebuild(StopAll(h, hit)), TRUE)

(* Any signal stops; a PID nobody has succeeds.  The processes are         *)
(* renumbered after each.                                                  *)
SignalProcess(h, pid, root) ==
  LET hit == {u \in DOMAIN h.procs : h.procs[u] = pid}
  IN IF pid <= 1 \/ (hit # {} /\ ~root) THEN Refused(h)
     ELSE Did(Rebuild(StopAll(h, hit)), TRUE)

Kill(h, c) ==
  Over(LAMBDA r, pid : Then(r, LAMBDA g : SignalProcess(g, pid, c.root)), Did(h, TRUE), c.pids)
KillAll(h, c) ==
  IF c.unit \in DOMAIN h.procs THEN SignalProcess(h, h.procs[c.unit], c.root) ELSE Refused(h)

AllowFirewall(h, c) == IF c.root /\ pkg.zone THEN Did([h EXCEPT !.web = TRUE], TRUE) ELSE Refused(h)
SetEnforce(h, c) == IF c.root THEN Did([h EXCEPT !.selinux = c.mode], TRUE) ELSE Refused(h)
Curl(h) == Did(h, h.http # 0 /\ h.http < 400)
Edit(h, c) == IF c.root THEN Did([h EXCEPT !.conf = c.good], TRUE) ELSE Refused(h)

(* Rules.Apply: effects are applied, never taken back.                     *)
Apply(h) ==
  IF Evaluate(h, pkg.when)
  THEN [h EXCEPT !.ports = @ \union {"80", "80/tcp"}, !.http = 200] ELSE h

Sum(numbers) == Over(LAMBDA n, x : n + x, 0, numbers)

\* An objective for the judge earns nothing here and is left out.
Earned(h) == [i \in DOMAIN pkg.objectives |->
                IF Evaluate(h, pkg.objectives[i].checks) THEN pkg.objectives[i].points ELSE 0]

\* A guardrail's points are its penalty.
Penalties(h) == [i \in DOMAIN pkg.guardrails |->
                   IF Evaluate(h, pkg.guardrails[i].when) THEN pkg.guardrails[i].points ELSE 0]

ScoreAdds(h, cost) == Sum(Earned(h)) - Sum(Penalties(h)) - cost

Score(h, cost) == Sum(Earned(h)) + Sum(Penalties(h)) - cost

NewState(seed) ==
  LET h == [services |-> pkg.services, procs |-> <<>>, web |-> pkg.web, ports |-> {}, http |-> 0,
            conf |-> pkg.conf, selinux |-> pkg.selinux, clock |-> seed]
  IN Rebuild(Refresh(h, Httpd))

-----------------------------------------------------------------------------
(* The session.                                                            *)

NewSession(seed) ==
  [host |-> NewState(seed), initial |-> NewState(seed), chain |-> <<>>, hints |-> {}, hintCost |-> 0,
   answers |-> 0, submittedAt |-> Never, started |-> seed]

Ended(sess, ok) == [s |-> sess, ok |-> ok]

Hint(sess, c) ==
  IF c.id \notin DOMAIN pkg.hints THEN Ended(sess, FALSE)
  ELSE IF c.id \in sess.hints THEN Ended(sess, TRUE)
  ELSE IF sess.host.clock - sess.started < pkg.hints[c.id].after THEN Ended(sess, FALSE)
  ELSE Ended([sess EXCEPT !.hints = @ \union {c.id}, !.hintCost = @ + pkg.hints[c.id].cost], TRUE)

LabReset(sess) == [sess EXCEPT !.host = sess.initial, !.hints = {}, !.hintCost = 0]

(* The registry: host commands, and the lab commands of RunLab.            *)
OnHost(sess, r) == Ended([sess EXCEPT !.host = r.host], r.ok)
Execute(sess, c) ==
  CASE c.kind = "systemctl"  -> OnHost(sess, Systemctl(sess.host, c))
    [] c.kind = "kill"       -> OnHost(sess, Kill(sess.host, c))
    [] c.kind = "killall"    -> OnHost(sess, KillAll(sess.host, c))
    [] c.kind = "firewall"   -> OnHost(sess, AllowFirewall(sess.host, c))
    [] c.kind = "setenforce" -> OnHost(sess, SetEnforce(sess.host, c))
    [] c.kind = "curl"       -> OnHost(sess, Curl(sess.host))
    [] c.kind = "edit"       -> OnHost(sess, Edit(sess.host, c))
    [] c.kind = "hint"       -> Hint(sess, c)
    [] c.kind = "answer"     -> Ended([sess EXCEPT !.answers = IF @ < 2 THEN @ + 1 ELSE 2], TRUE)
    [] c.kind = "reset"      -> Ended(LabReset(sess), TRUE)
    [] c.kind = "submit"     -> Ended([sess EXCEPT !.submittedAt = sess.host.clock], TRUE)

(* A statement is skipped by its operator, and the first that fails ends   *)
(* the line: what follows || never runs.                                   *)
Statement(acc, st) ==
  IF acc.stopped \/ st.op = "||" THEN acc
  ELSE LET r == Execute(acc.s, st.cmd) IN [s |-> r.s, stopped |-> ~r.ok]

Advance(h) == [h EXCEPT !.clock = @ + 1]

\* A line is recorded by its parser and by its runner.
RecordEventTwice(sess, line) ==
  LET e == [line |-> line, time |-> sess.host.clock]
  IN [sess EXCEPT !.chain = @ \o <<e, e>>]

RecordEvent(sess, line) ==
  [sess EXCEPT !.chain = Append(@, [line |-> line, time |-> sess.host.clock])]

(* A line that does not parse is recorded, and neither the rules nor the   *)
(* clock move.                                                             *)
RunLine(sess, line) ==
  IF ~line.parsed THEN RecordEvent(sess, line)
  ELSE LET ran == Over(Statement, [s |-> sess, stopped |-> FALSE], line.statements).s
           ruled == [ran EXCEPT !.host = Advance(Apply(@))]
       IN RecordEvent(ruled, line)

(* The start is taken to be a second before the first event; Recover makes *)
(* a session without events anew.                                          *)
StartOf(events) == IF events = <<>> THEN Seed ELSE events[1].time - 1
Rerun(seed, events) == Over(LAMBDA sess, e : RunLine(sess, e.line), NewSession(seed), events)
Replay(events) == [Rerun(StartOf(events), events) EXCEPT !.chain = events]

-----------------------------------------------------------------------------

One(cmd) == [parsed |-> TRUE, statements |-> <<[op |-> "", cmd |-> cmd]>>]
Enter(line) == Len(s.chain) < MaxLines /\ s' = RunLine(s, line) /\ UNCHANGED pkg

SystemctlLine == \E verb \in {"start", "stop", "restart", "enable", "disable"},
                    units \in {<<u>> : u \in Units}, root \in BOOLEAN :
                   Enter(One([kind |-> "systemctl", verb |-> verb, units |-> units, root |-> root]))
KillLine == \E pid \in {1} \union 100 .. 99 + Cardinality(Units), root \in BOOLEAN :
                   Enter(One([kind |-> "kill", pids |-> <<pid>>, root |-> root]))
KillAllLine == \E u \in Units : Enter(One([kind |-> "killall", unit |-> u, root |-> TRUE]))
FirewallLine == Enter(One([kind |-> "firewall", root |-> TRUE]))
SetEnforceLine == \E mode \in {"enforcing", "permissive"} :
                   Enter(One([kind |-> "setenforce", mode |-> mode, root |-> TRUE]))
CurlLine == Enter(One([kind |-> "curl"]))
EditLine == \E good \in BOOLEAN : Enter(One([kind |-> "edit", good |-> good, root |-> TRUE]))
HintLine == \E id \in DOMAIN pkg.hints : Enter(One([kind |-> "hint", id |-> id]))
AnswerLine == Enter(One([kind |-> "answer"]))
ResetLine == Enter(One([kind |-> "reset"]))
SubmitLine == Enter(One([kind |-> "submit"]))
CompoundLine == \E line \in Compounds : Enter(line)
BareLine == Enter([parsed |-> TRUE, statements |-> <<>>])
Unparsed == Enter([parsed |-> FALSE, statements |-> <<>>])

\* The evidence is kept.
RestartEvidence ==
  /\ s' = [NewSession(s.initial.clock) EXCEPT !.chain = s.chain]
  /\ UNCHANGED pkg

(* Session.Restart, which the organizer's restart calls.                   *)
Restart ==
  /\ s' = [s EXCEPT !.host = s.initial, !.chain = <<>>, !.hints = {}, !.hintCost = 0,
                    !.answers = 0, !.submittedAt = Never, !.started = s.initial.clock]
  /\ UNCHANGED pkg

(* The server starts again and replays the evidence.                       *)
RecoverSession ==
  /\ s' = Replay(s.chain)
  /\ s'.started >= Seed - MaxDrift
  /\ UNCHANGED pkg

LabInit == pkg \in Packages /\ s = NewSession(Seed)

LabNext == \/ SystemctlLine \/ KillLine \/ KillAllLine \/ FirewallLine \/ SetEnforceLine \/ CurlLine
           \/ EditLine \/ HintLine \/ AnswerLine \/ ResetLine \/ SubmitLine \/ CompoundLine \/ BareLine
           \/ Unparsed \/ Restart \/ RecoverSession

LabSpec == LabInit /\ [][LabNext]_labVars

-----------------------------------------------------------------------------

LabTypeOK ==
  /\ pkg \in Packages
  /\ DOMAIN s.host.services = Units
  /\ \A u \in Units : s.host.services[u].state \in {"running", "stopped", "failed"}
  /\ s.host.ports \subseteq {"80", "80/tcp"} /\ s.host.http \in {0, 200}
  /\ s.hints \subseteq DOMAIN pkg.hints
  /\ Len(s.chain) \in 0 .. MaxLines

(* The process list is what the services say: a running service has a      *)
(* process, one with a process is running or has just failed to start,     *)
(* and no PID is given twice.  And port 80 is never open on a server that  *)
(* was stopped or killed, nor before the firewall allowed it, whatever     *)
(* starts, failures, rules and resets came between; what a rule has        *)
(* published was allowed once.  (A failed start leaves the port, and the   *)
(* next renumbering takes the process, so an open port need not have one.) *)
ServicesAgree ==
  LET procs == s.host.procs IN
  /\ Running(s.host) \subseteq DOMAIN procs
  /\ \A u \in DOMAIN procs : s.host.services[u].state \in {"running", "failed"}
  /\ \A u, v \in DOMAIN procs : procs[u] = procs[v] => u = v
  /\ "80" \in s.host.ports => s.host.web /\ s.host.services[Httpd].state # "stopped"
  /\ s.host.http = 200 => s.host.web

(* The full score is only given to a repaired host, in enforcing mode,     *)
(* with no guardrail triggered and no hint read; the cost in the score is  *)
(* the cost of the hints that count as read.                               *)
FullScoreIsEarned ==
  /\ s.hintCost = Sum([i \in DOMAIN pkg.hints |-> IF i \in s.hints THEN pkg.hints[i].cost ELSE 0])
  /\ Score(s.host, s.hintCost) >= Sum([i \in DOMAIN pkg.objectives |-> pkg.objectives[i].points]) =>
       /\ s.hints = {}
       /\ \A i \in DOMAIN pkg.guardrails : ~Evaluate(s.host, pkg.guardrails[i].when)
       /\ s.host.web /\ Httpd \in Running(s.host)

(* A session that is recovered from its evidence is the session it was,    *)
(* all times counted from its start.                                       *)
Relative(sess) ==
  [sess EXCEPT !.host.clock = @ - sess.started, !.initial.clock = @ - sess.started, !.started = 0,
               !.submittedAt = IF @ = Never THEN @ ELSE @ - sess.started]
ReplayReproduces == Relative(Replay(s.chain)) = Relative(s)

(* README.md:440: replayed deterministically.  The recovered clock is the  *)
(* clock; the code guesses the start from the first event, and a first     *)
(* line that does not parse has not moved the clock.                       *)
ReplayKeepsClock == s.chain # <<>> => Replay(s.chain).host.clock = s.host.clock

(* kill with one PID stops the service listed under that PID, and no other *)
(* service changes.                                                        *)
KillHitsListed == [][
  \A pid \in 100 .. 99 + Cardinality(Units) :
    (Len(s'.chain) = Len(s.chain) + 1
       /\ Last(s'.chain).line = One([kind |-> "kill", pids |-> <<pid>>, root |-> TRUE])) =>
      \A u \in Units :
        s'.host.services[u].state =
          IF u \in DOMAIN s.host.procs /\ s.host.procs[u] = pid THEN "stopped"
          ELSE s.host.services[u].state ]_labVars

(* README.md:240: lab reset resets "the virtual machine and session        *)
(* state".  The answers and the submission stay.                           *)
ResetClearsAnswers == [][
  (Len(s'.chain) = Len(s.chain) + 1 /\ Last(s'.chain).line = One([kind |-> "reset"])) =>
    s'.answers = 0 /\ s'.submittedAt = Never ]_labVars

=============================================================================
