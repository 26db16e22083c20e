-------------------------- MODULE LabSessionProofs --------------------------
(***************************************************************************)
(* Proofs about LabSession, for any units, packages, lines and bounds.     *)
(*                                                                         *)
(* A host is good when services, processes and ports agree and the fields  *)
(* have their types; every command leads from good hosts to good hosts,    *)
(* and so do the loops over statements, units and processes.  For the      *)
(* replay two sessions are compared that differ in their clock only, by    *)
(* as much as in their start: a line keeps them so.                        *)
(***************************************************************************)
EXTENDS LabSession, LoopProofs, FiniteSetTheorems, SequenceTheorems, TLAPS

-----------------------------------------------------------------------------
\* The host

Host ==
  [services : [Units -> Service], procs : UNION {[D -> Nat] : D \in SUBSET Units},
   web : BOOLEAN, ports : SUBSET {"80", "80/tcp"}, http : {0, 200}, conf : BOOLEAN,
   selinux : Selinux, clock : Int]

\* Port 80 and the page are there for a reason.
PortsAgree(h) ==
  /\ "80" \in h.ports => h.web /\ Httpd \in Units /\ h.services[Httpd].state # "stopped"
  /\ h.http = 200 => h.web

\* So are the processes.
ProcsAgree(h) ==
  /\ Running(h) \subseteq DOMAIN h.procs
  /\ \A u \in DOMAIN h.procs : h.services[u].state \in {"running", "failed"}
  /\ \A u, v \in DOMAIN h.procs : h.procs[u] = h.procs[v] => u = v

GoodHost == {h \in Host : PortsAgree(h) /\ ProcsAgree(h)}

\* Ranks are numbers, and no two units of a set have the same.
LEMMA RankFacts ==
  ASSUME NEW S \in SUBSET Units
  PROVE  /\ [u \in S |-> 99 + Cardinality({v \in S : v <= u})] \in [S -> Nat]
         /\ \A u, w \in S : Cardinality({v \in S : v <= u}) = Cardinality({v \in S : v <= w}) => u = w
<1>1. S \subseteq Nat /\ IsFiniteSet(S)
  BY LabAssumption, FS_Subset
<1>2. ASSUME NEW u \in S PROVE IsFiniteSet({v \in S : v <= u}) /\ Cardinality({v \in S : v <= u}) \in Nat
  BY <1>1, FS_Subset, FS_CardinalityType
<1>3. ASSUME NEW u \in S, NEW w \in S, u < w
      PROVE  Cardinality({v \in S : v <= u}) < Cardinality({v \in S : v <= w})
  <2> DEFINE Low == {v \in S : v <= u}
             High == {v \in S : v <= w}
  <2>0. u \in Nat /\ w \in Nat /\ S \subseteq Nat
    BY <1>1
  <2>1. Low \subseteq High /\ w \in High /\ w \notin Low
    <3>1. \A v \in S : v <= u => v <= w
      BY <2>0, <1>3
    <3>2. w <= w /\ ~(w <= u)
      BY <2>0, <1>3
    <3>3. QED
      BY <3>1, <3>2, Zenon
  <2>2. IsFiniteSet(High)
    BY <1>2
  <2> HIDE DEF Low, High
  <2>3. Cardinality(Low) < Cardinality(High)
    <3>1. IsFiniteSet(High \ {w}) /\ Cardinality(High \ {w}) = Cardinality(High) - 1
      BY <2>1, <2>2, FS_RemoveElement
    <3>2. Low \subseteq High \ {w}
      BY <2>1
    <3>3. Cardinality(Low) <= Cardinality(High \ {w}) /\ IsFiniteSet(Low)
      BY <3>1, <3>2, FS_Subset
    <3>4. Cardinality(Low) \in Nat /\ Cardinality(High) \in Nat
      BY <2>2, <3>3, FS_CardinalityType
    <3>5. QED
      BY <3>1, <3>3, <3>4
  <2>4. QED
    BY <2>3 DEF Low, High
<1>4. ASSUME NEW u \in S, NEW w \in S, Cardinality({v \in S : v <= u}) = Cardinality({v \in S : v <= w})
      PROVE  u = w
  <2>1. ~(u < w) /\ ~(w < u)
    <3> DEFINE c(x) == Cardinality({v \in S : v <= x})
    <3>1. c(u) \in Nat /\ c(w) \in Nat /\ c(u) = c(w)
      BY <1>2, <1>4
    <3>2. (u < w => c(u) < c(w)) /\ (w < u => c(w) < c(u))
      BY <1>3
    <3> HIDE DEF c
    <3>3. QED
      BY <3>1, <3>2
  <2>2. QED
    BY <2>1, <1>1
<1>5. QED
  BY <1>2, <1>4

-----------------------------------------------------------------------------
\* Commands lead from good hosts to good ones

LEMMA HostType ==
  ASSUME NEW h \in Host
  PROVE  /\ h.services \in [Units -> Service] /\ h.web \in BOOLEAN /\ h.conf \in BOOLEAN
         /\ h.ports \in SUBSET {"80", "80/tcp"} /\ h.http \in {0, 200}
         /\ h.selinux \in Selinux /\ h.clock \in Int
         /\ DOMAIN h.procs \subseteq Units /\ h.procs \in [DOMAIN h.procs -> Nat]
         /\ Running(h) \subseteq Units
         /\ \A u \in Units : h.services[u].state \in {"running", "stopped", "failed"}
<1>1. h.procs \in UNION {[D -> Nat] : D \in SUBSET Units}
  BY DEF Host
<1>2. PICK D \in SUBSET Units : h.procs \in [D -> Nat]
  BY <1>1
<1>3. DOMAIN h.procs = D
  BY <1>2
<1>4. QED
  BY <1>2, <1>3 DEF Host, Running, Service

\* All fields but the processes.
SameBut(h, g) ==
  /\ g.services = h.services /\ g.web = h.web /\ g.ports = h.ports /\ g.http = h.http
  /\ g.conf = h.conf /\ g.selinux = h.selinux /\ g.clock = h.clock

LEMMA RebuildKeeps ==
  ASSUME NEW h \in Host
  PROVE  Rebuild(h) \in Host /\ SameBut(h, Rebuild(h)) /\ ProcsAgree(Rebuild(h))
<1> DEFINE P == [u \in Running(h) |-> 99 + Cardinality({v \in Running(h) : v <= u})]
<1>1. Running(h) \in SUBSET Units
  BY HostType
<1>2. P \in [Running(h) -> Nat] /\ \A u, w \in Running(h) : P[u] = P[w] => u = w
  <2>1. /\ [u \in Running(h) |-> 99 + Cardinality({v \in Running(h) : v <= u})] \in [Running(h) -> Nat]
        /\ \A u, w \in Running(h) :
             Cardinality({v \in Running(h) : v <= u}) = Cardinality({v \in Running(h) : v <= w}) => u = w
    BY <1>1, RankFacts
  <2>2. ASSUME NEW u \in Running(h) PROVE Cardinality({v \in Running(h) : v <= u}) \in Nat
    <3>1. IsFiniteSet(Running(h))
      BY <1>1, LabAssumption, FS_Subset
    <3>2. IsFiniteSet({v \in Running(h) : v <= u})
      BY <3>1, FS_Subset
    <3>3. QED
      BY <3>2, FS_CardinalityType
  <2>3. ASSUME NEW u \in Running(h), NEW w \in Running(h), P[u] = P[w] PROVE u = w
    <3> DEFINE c(x) == Cardinality({v \in Running(h) : v <= x})
    <3>1. c(u) \in Nat /\ c(w) \in Nat /\ (c(u) = c(w) => u = w)
      BY <2>1, <2>2
    <3>2. 99 + c(u) = 99 + c(w)
      BY <2>3
    <3> HIDE DEF c
    <3>3. QED
      BY <3>1, <3>2
  <2>4. QED
    BY <2>1, <2>3
<1> HIDE DEF P
<1>3. Rebuild(h) = [h EXCEPT !.procs = P]
  BY DEF Rebuild, P
<1>4. P \in UNION {[D -> Nat] : D \in SUBSET Units}
  BY <1>1, <1>2
<1>5. Rebuild(h) \in Host /\ Rebuild(h).procs = P /\ SameBut(h, Rebuild(h))
  BY <1>3, <1>4 DEF Host, SameBut
<1>6. Running(Rebuild(h)) = Running(h)
  BY <1>5 DEF Running, SameBut
<1>7. ProcsAgree(Rebuild(h))
  <2>1. DOMAIN P = Running(h)
    BY <1>2
  <2>2. \A u \in Running(h) : Rebuild(h).services[u].state = "running"
    BY <1>5 DEF Running, SameBut
  <2>3. QED
    BY <1>2, <1>5, <1>6, <2>1, <2>2 DEF ProcsAgree
<1>8. QED
  BY <1>5, <1>7

LEMMA RebuildGood ==
  ASSUME NEW h \in Host, PortsAgree(h)
  PROVE  Rebuild(h) \in GoodHost
<1>1. Rebuild(h) \in Host /\ SameBut(h, Rebuild(h)) /\ ProcsAgree(Rebuild(h))
  BY RebuildKeeps
<1>2. PortsAgree(Rebuild(h))
  BY <1>1 DEF SameBut, PortsAgree
<1>3. QED
  BY <1>1, <1>2 DEF GoodHost

\* A state for one unit; what is listed under it stays.
LEMMA SetStateFacts ==
  ASSUME NEW h \in Host, NEW u \in Units, NEW state \in {"running", "stopped", "failed"}
  PROVE  LET g == SetState(h, u, state) IN
         /\ g \in Host
         /\ g.services[u].state = state
         /\ \A v \in Units \ {u} : g.services[v] = h.services[v]
         /\ g.procs = h.procs /\ g.web = h.web /\ g.ports = h.ports /\ g.http = h.http
<1> DEFINE g == SetState(h, u, state)
<1>1. h.services \in [Units -> Service]
  BY DEF Host
<1>2. g = [h EXCEPT !.services = [h.services EXCEPT ![u] = [h.services[u] EXCEPT !.state = state]]]
  BY DEF SetState
<1>3. [h.services[u] EXCEPT !.state = state] \in Service
      /\ [h.services[u] EXCEPT !.state = state].state = state
  BY <1>1 DEF Service
<1> DEFINE srv == [h.services EXCEPT ![u] = [h.services[u] EXCEPT !.state = state]]
<1>4. srv \in [Units -> Service] /\ srv[u].state = state /\ \A v \in Units \ {u} : srv[v] = h.services[v]
  BY <1>1, <1>3
<1>5. g = [h EXCEPT !.services = srv]
  BY <1>2
<1> HIDE DEF srv, g
<1>6. g \in Host /\ g.services = srv /\ g.procs = h.procs /\ g.web = h.web /\ g.ports = h.ports /\ g.http = h.http
  BY <1>4, <1>5 DEF Host
<1>7. QED
  BY <1>4, <1>6 DEF g

LEMMA RefreshGood ==
  ASSUME NEW h \in GoodHost, NEW u
  PROVE  Refresh(h, u) \in GoodHost
<1>1. CASE u = Httpd /\ u \in Running(h) /\ h.web
  <2>1. Refresh(h, u) = [h EXCEPT !.ports = h.ports \union {"80"}]
    BY <1>1 DEF Refresh
  <2>2. h \in Host /\ ProcsAgree(h) /\ PortsAgree(h)
    BY DEF GoodHost
  <2>3. h.ports \union {"80"} \in SUBSET {"80", "80/tcp"}
    BY <2>2, HostType
  <2>4. Httpd \in Units /\ h.services[Httpd].state = "running"
    BY <1>1 DEF Running
  <2> DEFINE g == [h EXCEPT !.ports = h.ports \union {"80"}]
  <2>5. g \in Host /\ g.services = h.services /\ g.procs = h.procs /\ g.web = h.web /\ g.http = h.http
    BY <2>2, <2>3 DEF Host
  <2> HIDE DEF g
  <2>6. Running(g) = Running(h)
    BY <2>5 DEF Running
  <2>7. PortsAgree(g) /\ ProcsAgree(g)
    BY <1>1, <2>2, <2>4, <2>5, <2>6 DEF PortsAgree, ProcsAgree
  <2>8. QED
    BY <2>1, <2>5, <2>7 DEF g, GoodHost
<1>2. CASE ~(u = Httpd /\ u \in Running(h) /\ h.web)
  BY <1>2 DEF Refresh
<1>3. QED
  BY <1>1, <1>2

\* What an operation on the host answers.
Answer == [host : GoodHost, ok : BOOLEAN]

LEMMA AnswerType ==
  ASSUME NEW h \in GoodHost, NEW ok \in BOOLEAN
  PROVE  Did(h, ok) \in Answer /\ Refused(h) \in Answer
  BY DEF Did, Refused, Answer

LEMMA FailGood ==
  ASSUME NEW h \in GoodHost, NEW u \in Units
  PROVE  SetState(h, u, "failed") \in GoodHost
<1> DEFINE g == SetState(h, u, "failed")
<1>1. h \in Host /\ ProcsAgree(h) /\ PortsAgree(h)
  BY DEF GoodHost
<1>2. /\ g \in Host /\ g.services[u].state = "failed"
      /\ \A v \in Units \ {u} : g.services[v] = h.services[v]
      /\ g.procs = h.procs /\ g.web = h.web /\ g.ports = h.ports /\ g.http = h.http
  BY <1>1, SetStateFacts
<1> HIDE DEF g
<1>3. Running(g) \subseteq Running(h)
  BY <1>2 DEF Running
<1>4. DOMAIN h.procs \subseteq Units
  BY <1>1, HostType
<1>5. ProcsAgree(g)
  BY <1>1, <1>2, <1>3, <1>4 DEF ProcsAgree
<1>6. PortsAgree(g)
  BY <1>1, <1>2 DEF PortsAgree
<1>7. QED
  BY <1>2, <1>5, <1>6 DEF GoodHost, g

LEMMA StartGood ==
  ASSUME NEW h \in GoodHost, NEW u \in Units
  PROVE  StartService(h, u) \in Answer
<1> DEFINE g == SetState(h, u, "running")
<1>1. h \in Host /\ ProcsAgree(h) /\ PortsAgree(h)
  BY DEF GoodHost
<1>2. /\ g \in Host /\ g.services[u].state = "running"
      /\ \A v \in Units \ {u} : g.services[v] = h.services[v]
      /\ g.procs = h.procs /\ g.web = h.web /\ g.ports = h.ports /\ g.http = h.http
  BY <1>1, SetStateFacts
<1> HIDE DEF g
<1>3. PortsAgree(g)
  BY <1>1, <1>2 DEF PortsAgree
<1>4. Refresh(Rebuild(g), u) \in GoodHost
  BY <1>2, <1>3, RebuildGood, RefreshGood
<1>5. SetState(h, u, "failed") \in GoodHost
  BY FailGood
<1>6. Did(Refresh(Rebuild(g), u), TRUE) \in Answer /\ Refused(SetState(h, u, "failed")) \in Answer
  BY <1>4, <1>5, AnswerType
<1>7. QED
  BY <1>6 DEF StartService, g

\* Services that stop take port 80 with them when the web server is one.
LEMMA StopAllFacts ==
  ASSUME NEW h \in GoodHost, NEW hit \in SUBSET Units
  PROVE  LET g == StopAll(h, hit) IN
         /\ g \in Host /\ PortsAgree(g)
         /\ \A u \in Units : g.services[u].state = IF u \in hit THEN "stopped" ELSE h.services[u].state
<1> DEFINE srv == [u \in Units |-> IF u \in hit THEN [h.services[u] EXCEPT !.state = "stopped"] ELSE h.services[u]]
           prt == IF Httpd \in hit THEN h.ports \ {"80"} ELSE h.ports
           g   == StopAll(h, hit)
<1>1. h \in Host /\ PortsAgree(h)
  BY DEF GoodHost
<1>2. h.services \in [Units -> Service] /\ h.ports \in SUBSET {"80", "80/tcp"}
  BY <1>1, HostType
<1>3. ASSUME NEW u \in Units
      PROVE  /\ srv[u] \in Service
             /\ srv[u].state = IF u \in hit THEN "stopped" ELSE h.services[u].state
  BY <1>2 DEF Service
<1>4. srv \in [Units -> Service] /\ prt \in SUBSET {"80", "80/tcp"}
  BY <1>2, <1>3
<1>5. g = [h EXCEPT !.services = srv, !.ports = prt]
  BY DEF StopAll
<1> HIDE DEF srv, g
<1>6. g \in Host /\ g.services = srv /\ g.ports = prt /\ g.web = h.web /\ g.http = h.http
  BY <1>1, <1>4, <1>5 DEF Host
<1>7. PortsAgree(g)
  BY <1>1, <1>3, <1>6 DEF PortsAgree
<1>8. QED
  BY <1>3, <1>6, <1>7 DEF g

LEMMA StopGood ==
  ASSUME NEW h \in GoodHost, NEW u \in Units
  PROVE  StopService(h, u) \in Answer
<1> DEFINE g == SetState(h, u, "stopped")
           r == Rebuild(g)
           c == ClearEffects(r, u)
<1>1. h \in Host /\ ProcsAgree(h) /\ PortsAgree(h)
  BY DEF GoodHost
<1>2. /\ g \in Host /\ g.services[u].state = "stopped"
      /\ \A v \in Units \ {u} : g.services[v] = h.services[v]
      /\ g.procs = h.procs /\ g.web = h.web /\ g.ports = h.ports /\ g.http = h.http
  BY <1>1, SetStateFacts
<1> HIDE DEF g
<1>3. r \in Host /\ SameBut(g, r) /\ ProcsAgree(r)
  BY <1>2, RebuildKeeps
<1> HIDE DEF r
<1>4. ASSUME u = Httpd PROVE c \in GoodHost
  <2>1. c = [r EXCEPT !.ports = r.ports \ {"80"}]
    BY <1>4 DEF ClearEffects
  <2>2. r.ports \ {"80"} \in SUBSET {"80", "80/tcp"}
    BY <1>3, HostType
  <2>3. /\ c \in Host /\ c.services = r.services /\ c.procs = r.procs /\ c.web = r.web
        /\ c.http = r.http /\ "80" \notin c.ports
    BY <1>3, <2>1, <2>2 DEF Host
  <2> HIDE DEF c
  <2>4. Running(c) = Running(r)
    BY <2>3 DEF Running
  <2>5. PortsAgree(c) /\ ProcsAgree(c)
    BY <1>1, <1>2, <1>3, <2>3, <2>4 DEF PortsAgree, ProcsAgree, SameBut
  <2>6. QED
    BY <2>3, <2>5 DEF GoodHost
<1>5. ASSUME u # Httpd PROVE c \in GoodHost
  <2>1. c = r
    BY <1>5 DEF ClearEffects
  <2>2. PortsAgree(r)
    BY <1>1, <1>2, <1>3, <1>5 DEF PortsAgree, SameBut
  <2>3. QED
    BY <1>3, <2>1, <2>2 DEF GoodHost
<1>6. c \in GoodHost
  BY <1>4, <1>5
<1>7. StopService(h, u) = Did(c, TRUE)
  BY DEF StopService, g, r
<1>8. QED
  BY <1>6, <1>7, AnswerType

LEMMA EnableGood ==
  ASSUME NEW h \in GoodHost, NEW u \in Units, NEW enabled \in BOOLEAN
  PROVE  EnableService(h, u, enabled) \in Answer
<1> DEFINE srv == [h.services EXCEPT ![u] = [h.services[u] EXCEPT !.enabled = enabled]]
           g   == [h EXCEPT !.services = srv]
<1>1. h \in Host /\ ProcsAgree(h) /\ PortsAgree(h)
  BY DEF GoodHost
<1>2. h.services \in [Units -> Service]
  BY <1>1, HostType
<1>3. [h.services[u] EXCEPT !.enabled = enabled] \in Service
      /\ [h.services[u] EXCEPT !.enabled = enabled].state = h.services[u].state
  BY <1>2 DEF Service
<1>4. srv \in [Units -> Service] /\ \A v \in Units : srv[v].state = h.services[v].state
  BY <1>2, <1>3
<1>5. EnableService(h, u, enabled) = Did(g, TRUE)
  BY DEF EnableService
<1> HIDE DEF srv
<1>6. /\ g \in Host /\ g.services = srv /\ g.procs = h.procs /\ g.web = h.web
      /\ g.ports = h.ports /\ g.http = h.http
  BY <1>1, <1>4 DEF Host
<1> HIDE DEF g
<1>7. Running(g) = Running(h)
  BY <1>4, <1>6 DEF Running
<1>8. DOMAIN h.procs \subseteq Units
  BY <1>1, HostType
<1>9. PortsAgree(g) /\ ProcsAgree(g)
  BY <1>1, <1>4, <1>6, <1>7, <1>8 DEF PortsAgree, ProcsAgree
<1>10. g \in GoodHost
  BY <1>6, <1>9 DEF GoodHost
<1>11. QED
  BY <1>5, <1>10, AnswerType

LEMMA SignalGood ==
  ASSUME NEW h \in GoodHost, NEW pid, NEW root \in BOOLEAN
  PROVE  SignalProcess(h, pid, root) \in Answer
<1> DEFINE hit == {u \in DOMAIN h.procs : h.procs[u] = pid}
<1>1. h \in Host
  BY DEF GoodHost
<1>2. hit \in SUBSET Units
  BY <1>1, HostType
<1>3. StopAll(h, hit) \in Host /\ PortsAgree(StopAll(h, hit))
  BY <1>2, StopAllFacts
<1>4. Rebuild(StopAll(h, hit)) \in GoodHost
  BY <1>3, RebuildGood
<1>5. Did(Rebuild(StopAll(h, hit)), TRUE) \in Answer /\ Refused(h) \in Answer
  BY <1>4, AnswerType
<1>6. QED
  BY <1>5 DEF SignalProcess

LEMMA FieldGood ==
  ASSUME NEW h \in GoodHost, NEW g \in Host,
         g.services = h.services, g.procs = h.procs, g.ports = h.ports, g.http = h.http,
         h.web => g.web
  PROVE  g \in GoodHost
<1>1. Running(g) = Running(h)
  BY DEF Running
<1>2. QED
  BY <1>1 DEF GoodHost, PortsAgree, ProcsAgree

LEMMA FirewallGood ==
  ASSUME NEW h \in GoodHost, NEW c
  PROVE  AllowFirewall(h, c) \in Answer
<1> DEFINE g == [h EXCEPT !.web = TRUE]
<1>1. /\ g \in Host /\ g.services = h.services /\ g.procs = h.procs /\ g.ports = h.ports
      /\ g.http = h.http /\ g.web
  BY DEF GoodHost, Host
<1>2. AllowFirewall(h, c) \in {Did(g, TRUE), Refused(h)}
  BY DEF AllowFirewall
<1> HIDE DEF g
<1>3. g \in GoodHost
  BY <1>1, FieldGood
<1>4. QED
  BY <1>2, <1>3, AnswerType

LEMMA EnforceGood ==
  ASSUME NEW h \in GoodHost, NEW c, c.mode \in Selinux
  PROVE  SetEnforce(h, c) \in Answer
<1> DEFINE g == [h EXCEPT !.selinux = c.mode]
<1>1. /\ g \in Host /\ g.services = h.services /\ g.procs = h.procs /\ g.ports = h.ports
      /\ g.http = h.http /\ g.web = h.web
  BY DEF GoodHost, Host
<1>2. SetEnforce(h, c) \in {Did(g, TRUE), Refused(h)}
  BY DEF SetEnforce
<1> HIDE DEF g
<1>3. g \in GoodHost
  BY <1>1, FieldGood
<1>4. QED
  BY <1>2, <1>3, AnswerType

LEMMA EditGood ==
  ASSUME NEW h \in GoodHost, NEW c, c.good \in BOOLEAN
  PROVE  Edit(h, c) \in Answer
<1> DEFINE g == [h EXCEPT !.conf = c.good]
<1>1. /\ g \in Host /\ g.services = h.services /\ g.procs = h.procs /\ g.ports = h.ports
      /\ g.http = h.http /\ g.web = h.web
  BY DEF GoodHost, Host
<1>2. Edit(h, c) \in {Did(g, TRUE), Refused(h)}
  BY DEF Edit
<1> HIDE DEF g
<1>3. g \in GoodHost
  BY <1>1, FieldGood
<1>4. QED
  BY <1>2, <1>3, AnswerType

LEMMA CurlGood ==
  ASSUME NEW h \in GoodHost
  PROVE  Curl(h) \in Answer
  BY AnswerType DEF Curl

\* The rule publishes what runs and is allowed.
LEMMA ApplyGood ==
  ASSUME NEW h \in GoodHost, pkg \in Packages
  PROVE  Apply(h) \in GoodHost
<1>1. CASE ~Evaluate(h, pkg.when)
  BY <1>1 DEF Apply
<1>2. CASE Evaluate(h, pkg.when)
  <2> DEFINE g == [h EXCEPT !.ports = h.ports \union {"80", "80/tcp"}, !.http = 200]
             up == [type |-> "serviceRunning", name |-> Httpd]
             allowed == [type |-> "firewallAllowed"]
  <2>1. pkg.when.op = "all" /\ up \in pkg.when.of /\ allowed \in pkg.when.of
    BY LabAssumption
  <2>2. Holds(h, up) /\ Holds(h, allowed)
    BY <1>2, <2>1 DEF Evaluate
  <2>3. Httpd \in Running(h)
    BY <2>2 DEF Holds
  <2>4. h.web
    BY <2>2 DEF Holds
  <2>5. h \in Host /\ ProcsAgree(h)
    BY DEF GoodHost
  <2>6. h.ports \union {"80", "80/tcp"} \in SUBSET {"80", "80/tcp"}
    BY <2>5, HostType
  <2>7. Apply(h) = g
    BY <1>2 DEF Apply
  <2>8. /\ g \in Host /\ g.services = h.services /\ g.procs = h.procs /\ g.web = h.web
    BY <2>5, <2>6 DEF Host
  <2> HIDE DEF g
  <2>9. Running(g) = Running(h)
    BY <2>8 DEF Running
  <2>10. PortsAgree(g) /\ ProcsAgree(g)
    BY <2>3, <2>4, <2>5, <2>8, <2>9 DEF PortsAgree, ProcsAgree, Running
  <2>11. QED
    BY <2>7, <2>8, <2>10 DEF GoodHost
<1>3. QED
  BY <1>1, <1>2

\* The clock alone.
LEMMA ClockGood ==
  ASSUME NEW h \in GoodHost, NEW t \in Int
  PROVE  [h EXCEPT !.clock = t] \in GoodHost
<1> DEFINE g == [h EXCEPT !.clock = t]
<1>1. /\ g \in Host /\ g.services = h.services /\ g.procs = h.procs /\ g.ports = h.ports
      /\ g.http = h.http /\ g.web = h.web
  BY DEF GoodHost, Host
<1> HIDE DEF g
<1>2. g \in GoodHost
  BY <1>1, FieldGood
<1>3. QED
  BY <1>2 DEF g

LEMMA NewStateGood ==
  ASSUME pkg \in Packages, NEW seed \in Int
  PROVE  NewState(seed) \in GoodHost
<1> DEFINE h == [services |-> pkg.services, procs |-> <<>>, web |-> pkg.web, ports |-> {}, http |-> 0,
                 conf |-> pkg.conf, selinux |-> pkg.selinux, clock |-> seed]
           p == IF Httpd \in Running(h) /\ h.web THEN {"80"} ELSE {}
           g == [h EXCEPT !.ports = p]
<1>1. <<>> \in UNION {[D -> Nat] : D \in SUBSET Units}
  <2>1. <<>> \in [{} -> Nat]
    OBVIOUS
  <2>2. QED
    BY <2>1
<1>2. h \in Host
  BY <1>1, LabAssumption DEF Host
<1>3. h.ports = {} /\ h.http = 0
  OBVIOUS
<1> HIDE DEF h
<1>4. Refresh(h, Httpd) = g
  <2>1. CASE Httpd \in Running(h) /\ h.web
    BY <2>1, <1>3 DEF Refresh
  <2>2. CASE ~(Httpd \in Running(h) /\ h.web)
    <3>1. g = h
      BY <1>2, <1>3, <2>2 DEF Host
    <3>2. QED
      BY <2>2, <3>1 DEF Refresh
  <2>3. QED
    BY <2>1, <2>2
<1>5. g \in Host /\ g.services = h.services /\ g.ports = p /\ g.web = h.web /\ g.http = 0
  BY <1>2, <1>3 DEF Host
<1> HIDE DEF g
<1>6. PortsAgree(g)
  BY <1>5 DEF PortsAgree, Running
<1>7. Rebuild(g) \in GoodHost
  BY <1>5, <1>6, RebuildGood
<1>8. NewState(seed) = Rebuild(Refresh(h, Httpd))
  BY DEF NewState, h
<1>9. QED
  BY <1>4, <1>7, <1>8

-----------------------------------------------------------------------------
\* The loops over units and processes

LEMMA UnitGood ==
  ASSUME NEW h \in GoodHost, NEW c, NEW u \in Units,
         c.verb \in {"start", "stop", "restart", "enable", "disable"}
  PROVE  Unit(h, c, u) \in Answer
<1>1. StopService(h, u).host \in GoodHost
  BY StopGood DEF Answer
<1>2. Then(StopService(h, u), LAMBDA g : StartService(g, u)) \in Answer
  BY <1>1, StopGood, StartGood DEF Then
<1>3. Refused(h) \in Answer
  BY AnswerType
<1>4. QED
  BY <1>2, <1>3, StopGood, StartGood, EnableGood DEF Unit

LEMMA SystemctlMade ==
  ASSUME NEW h \in GoodHost, NEW c, c.units \in Seq(Units),
         c.verb \in {"start", "stop", "restart", "enable", "disable"}
  PROVE  \E m \in [0 .. Len(c.units) -> Answer] :
           /\ m[0] = Did(h, TRUE)
           /\ \A i \in 1 .. Len(c.units) :
                m[i] = IF m[i - 1].ok THEN Unit(m[i - 1].host, c, c.units[i]) ELSE m[i - 1]
           /\ Systemctl(h, c) = m[Len(c.units)]
<1> DEFINE n == Len(c.units)
           Op(r, u) == IF r.ok THEN Unit(r.host, c, u) ELSE r
           Is(m) == m = [i \in 0 .. n |-> IF i = 0 THEN Did(h, TRUE) ELSE Op(m[i - 1], c.units[i])]
           g == [i \in 1 .. n |-> [x \in Answer |-> Op(x, c.units[i])]]
           made == CHOOSE m : Is(m)
<1>1. n \in Nat /\ \A i \in 1 .. n : c.units[i] \in Units
  OBVIOUS
<1>2. Did(h, TRUE) \in Answer
  BY AnswerType
<1>3. ASSUME NEW x \in Answer, NEW i \in 1 .. n PROVE Op(x, c.units[i]) \in Answer
  <2>1. x.host \in GoodHost
    BY DEF Answer
  <2>2. Unit(x.host, c, c.units[i]) \in Answer
    BY <1>1, <2>1, UnitGood
  <2>3. QED
    BY <2>2
<1> HIDE DEF n, Op
<1>4. g \in [1 .. n -> [Answer -> Answer]]
  BY <1>3
<1>5. PICK f : Goes(f, Answer, Did(h, TRUE), n, g)
  BY <1>1, <1>2, <1>4, GoesOn
<1>6. Is(f)
  <2>1. ASSUME NEW i \in 1 .. n PROVE f[i] = Op(f[i - 1], c.units[i])
    <3>1. i - 1 \in 0 .. n
      BY <1>1
    <3>2. f[i] = g[i][f[i - 1]] /\ f[i - 1] \in Answer
      BY <1>5, <3>1 DEF Goes
    <3>3. QED
      BY <3>2
  <2>2. f \in [0 .. n -> Answer] /\ f[0] = Did(h, TRUE)
    BY <1>5 DEF Goes
  <2>3. \A i \in 0 .. n : f[i] = IF i = 0 THEN Did(h, TRUE) ELSE Op(f[i - 1], c.units[i])
    <3>1. \A i \in 0 .. n : i = 0 \/ i \in 1 .. n
      BY <1>1
    <3>2. QED
      BY <2>1, <2>2, <3>1
  <2>4. QED
    BY <2>2, <2>3
<1>7. Is(made)
  BY <1>6
<1>8. Systemctl(h, c) = made[n]
  BY DEF Systemctl, Over, Then, n, Op
<1> HIDE DEF made
<1>9. made[0] = Did(h, TRUE) /\ \A i \in 1 .. n : made[i] = Op(made[i - 1], c.units[i])
  <2>1. \A i \in 0 .. n : made[i] = IF i = 0 THEN Did(h, TRUE) ELSE Op(made[i - 1], c.units[i])
    BY <1>7
  <2>2. 0 \in 0 .. n /\ \A i \in 1 .. n : i \in 0 .. n /\ i # 0
    BY <1>1
  <2>3. QED
    BY <2>1, <2>2
<1>10. \A i \in 0 .. n : made[i] \in Answer
  <2> DEFINE T == {i \in 0 .. n : made[i] \in Answer}
  <2>0. 0 \in 0 .. n /\ \A i \in 1 .. n : i \in 0 .. n
    BY <1>1
  <2>1. 0 \in T /\ \A i \in 1 .. n : i - 1 \in T => i \in T
    BY <2>0, <1>2, <1>3, <1>9
  <2> HIDE DEF T
  <2>2. \A i \in 0 .. n : i \in T
    BY <1>1, <2>1, Climb
  <2>3. QED
    BY <2>2 DEF T
<1>11. made \in [0 .. n -> Answer]
  BY <1>7, <1>10
<1>12. QED
  BY <1>8, <1>9, <1>11 DEF n, Op

LEMMA KillMade ==
  ASSUME NEW h \in GoodHost, NEW c, c.pids \in Seq(Nat), c.root \in BOOLEAN
  PROVE  \E m \in [0 .. Len(c.pids) -> Answer] :
           /\ m[0] = Did(h, TRUE)
           /\ \A i \in 1 .. Len(c.pids) : m[i] = IF m[i - 1].ok THEN SignalProcess(m[i - 1].host, c.pids[i], c.root) ELSE m[i - 1]
           /\ Kill(h, c) = m[Len(c.pids)]
<1> DEFINE n == Len(c.pids)
           Op(r, pid) == IF r.ok THEN SignalProcess(r.host, pid, c.root) ELSE r
           Is(m) == m = [i \in 0 .. n |-> IF i = 0 THEN Did(h, TRUE) ELSE Op(m[i - 1], c.pids[i])]
           g == [i \in 1 .. n |-> [x \in Answer |-> Op(x, c.pids[i])]]
           made == CHOOSE m : Is(m)
<1>1. n \in Nat /\ \A i \in 1 .. n : c.pids[i] \in Nat
  OBVIOUS
<1>2. Did(h, TRUE) \in Answer
  BY AnswerType
<1>3. ASSUME NEW x \in Answer, NEW i \in 1 .. n PROVE Op(x, c.pids[i]) \in Answer
  <2>1. x.host \in GoodHost
    BY DEF Answer
  <2>2. SignalProcess(x.host, c.pids[i], c.root) \in Answer
    BY <2>1, SignalGood
  <2>3. QED
    BY <2>2
<1> HIDE DEF n, Op
<1>4. g \in [1 .. n -> [Answer -> Answer]]
  BY <1>3
<1>5. PICK f : Goes(f, Answer, Did(h, TRUE), n, g)
  BY <1>1, <1>2, <1>4, GoesOn
<1>6. Is(f)
  <2>1. ASSUME NEW i \in 1 .. n PROVE f[i] = Op(f[i - 1], c.pids[i])
    <3>1. i - 1 \in 0 .. n
      BY <1>1
    <3>2. f[i] = g[i][f[i - 1]] /\ f[i - 1] \in Answer
      BY <1>5, <3>1 DEF Goes
    <3>3. QED
      BY <3>2
  <2>2. f \in [0 .. n -> Answer] /\ f[0] = Did(h, TRUE)
    BY <1>5 DEF Goes
  <2>3. \A i \in 0 .. n : f[i] = IF i = 0 THEN Did(h, TRUE) ELSE Op(f[i - 1], c.pids[i])
    <3>1. \A i \in 0 .. n : i = 0 \/ i \in 1 .. n
      BY <1>1
    <3>2. QED
      BY <2>1, <2>2, <3>1
  <2>4. QED
    BY <2>2, <2>3
<1>7. Is(made)
  BY <1>6
<1>8. Kill(h, c) = made[n]
  BY DEF Kill, Over, Then, n, Op
<1> HIDE DEF made
<1>9. made[0] = Did(h, TRUE) /\ \A i \in 1 .. n : made[i] = Op(made[i - 1], c.pids[i])
  <2>1. \A i \in 0 .. n : made[i] = IF i = 0 THEN Did(h, TRUE) ELSE Op(made[i - 1], c.pids[i])
    BY <1>7
  <2>2. 0 \in 0 .. n /\ \A i \in 1 .. n : i \in 0 .. n /\ i # 0
    BY <1>1
  <2>3. QED
    BY <2>1, <2>2
<1>10. \A i \in 0 .. n : made[i] \in Answer
  <2> DEFINE T == {i \in 0 .. n : made[i] \in Answer}
  <2>0. 0 \in 0 .. n /\ \A i \in 1 .. n : i \in 0 .. n
    BY <1>1
  <2>1. 0 \in T /\ \A i \in 1 .. n : i - 1 \in T => i \in T
    BY <2>0, <1>2, <1>3, <1>9
  <2> HIDE DEF T
  <2>2. \A i \in 0 .. n : i \in T
    BY <1>1, <2>1, Climb
  <2>3. QED
    BY <2>2 DEF T
<1>11. made \in [0 .. n -> Answer]
  BY <1>7, <1>10
<1>12. QED
  BY <1>8, <1>9, <1>11 DEF n, Op

LEMMA SystemctlGood ==
  ASSUME NEW h \in GoodHost, NEW c, c.units \in Seq(Units),
         c.verb \in {"start", "stop", "restart", "enable", "disable"}
  PROVE  Systemctl(h, c) \in Answer
<1>1. PICK m \in [0 .. Len(c.units) -> Answer] : Systemctl(h, c) = m[Len(c.units)]
  BY SystemctlMade
<1>2. Len(c.units) \in 0 .. Len(c.units)
  OBVIOUS
<1>3. QED
  BY <1>1, <1>2

LEMMA KillGood ==
  ASSUME NEW h \in GoodHost, NEW c, c.pids \in Seq(Nat), c.root \in BOOLEAN
  PROVE  Kill(h, c) \in Answer
<1>1. PICK m \in [0 .. Len(c.pids) -> Answer] : Kill(h, c) = m[Len(c.pids)]
  BY KillMade
<1>2. Len(c.pids) \in 0 .. Len(c.pids)
  OBVIOUS
<1>3. QED
  BY <1>1, <1>2

LEMMA KillAllGood ==
  ASSUME NEW h \in GoodHost, NEW c, c.root \in BOOLEAN
  PROVE  KillAll(h, c) \in Answer
  BY SignalGood, AnswerType DEF KillAll

-----------------------------------------------------------------------------
\* The session

Event == [line : LabLine, time : Int]

Session ==
  [host : GoodHost, initial : GoodHost, chain : Seq(Event), hints : SUBSET DOMAIN pkg.hints,
   hintCost : Nat, answers : 0 .. 2, submittedAt : Int, started : Int]

Outcome == [s : Session, ok : BOOLEAN]

LEMMA OutcomeType ==
  ASSUME NEW sess \in Session, NEW ok \in BOOLEAN
  PROVE  Ended(sess, ok) \in Outcome
  BY DEF Ended, Outcome

LEMMA OnHostGood ==
  ASSUME NEW sess \in Session, NEW r \in Answer
  PROVE  OnHost(sess, r) \in Outcome
<1>1. r.host \in GoodHost /\ r.ok \in BOOLEAN
  BY DEF Answer
<1>2. [sess EXCEPT !.host = r.host] \in Session
  BY <1>1 DEF Session
<1>3. QED
  BY <1>1, <1>2, OutcomeType DEF OnHost

LEMMA ElementType ==
  ASSUME NEW R, NEW q \in Seq(R), NEW i \in DOMAIN q
  PROVE  q[i] \in R
  OBVIOUS

LEMMA CostType ==
  ASSUME NEW q \in Seq([cost : Nat, after : Nat]), NEW i \in DOMAIN q
  PROVE  q[i].cost \in Nat
<1>1. q[i] \in [cost : Nat, after : Nat]
  BY ElementType
<1>2. QED
  BY <1>1

LEMMA HintGood ==
  ASSUME NEW sess \in Session, pkg \in Packages, NEW c
  PROVE  Hint(sess, c) \in Outcome
<1> DEFINE g == [sess EXCEPT !.hints = sess.hints \union {c.id}, !.hintCost = sess.hintCost + pkg.hints[c.id].cost]
<1>1. CASE c.id \in DOMAIN pkg.hints
  <2>1. pkg.hints \in Seq([cost : Nat, after : Nat])
    BY LabAssumption
  <2>2. pkg.hints[c.id].cost \in Nat
    BY <1>1, <2>1, CostType
  <2> DEFINE cost == sess.hintCost + pkg.hints[c.id].cost
             read == sess.hints \union {c.id}
  <2>3. g \in Session
    <3>1. read \in SUBSET DOMAIN pkg.hints /\ cost \in Nat
      BY <1>1, <2>2 DEF Session
    <3> HIDE DEF read, cost
    <3>2. [sess EXCEPT !.hints = read, !.hintCost = cost] \in Session
      BY <3>1 DEF Session
    <3>3. QED
      BY <3>2 DEF read, cost
  <2>4. Hint(sess, c) \in {Ended(g, TRUE), Ended(sess, TRUE), Ended(sess, FALSE)}
    BY DEF Hint
  <2>5. QED
    BY <2>3, <2>4, OutcomeType
<1>2. CASE c.id \notin DOMAIN pkg.hints
  BY <1>2, OutcomeType DEF Hint
<1>3. QED
  BY <1>1, <1>2

LEMMA ExecuteGood ==
  ASSUME NEW sess \in Session, pkg \in Packages, NEW c \in LabCommand
  PROVE  Execute(sess, c) \in Outcome
<1>1. sess.host \in GoodHost /\ sess.initial \in GoodHost
  BY DEF Session
<1>2. CASE c.kind = "systemctl"
  <2>1. c.units \in Seq(Units) /\ c.verb \in {"start", "stop", "restart", "enable", "disable"}
    BY <1>2 DEF LabCommand
  <2>2. Systemctl(sess.host, c) \in Answer
    BY <1>1, <2>1, SystemctlGood
  <2>3. QED
    BY <1>2, <2>2, OnHostGood DEF Execute
<1>3. CASE c.kind = "kill"
  <2>1. c.pids \in Seq(Nat) /\ c.root \in BOOLEAN
    BY <1>3 DEF LabCommand
  <2>2. Kill(sess.host, c) \in Answer
    BY <1>1, <2>1, KillGood
  <2>3. QED
    BY <1>3, <2>2, OnHostGood DEF Execute
<1>4. CASE c.kind = "killall"
  <2>1. c.root \in BOOLEAN
    BY <1>4 DEF LabCommand
  <2>2. KillAll(sess.host, c) \in Answer
    BY <1>1, <2>1, KillAllGood
  <2>3. QED
    BY <1>4, <2>2, OnHostGood DEF Execute
<1>5. CASE c.kind = "firewall"
  BY <1>1, <1>5, FirewallGood, OnHostGood DEF Execute
<1>6. CASE c.kind = "setenforce"
  <2>1. c.mode \in Selinux
    BY <1>6 DEF LabCommand, Selinux
  <2>2. SetEnforce(sess.host, c) \in Answer
    BY <1>1, <2>1, EnforceGood
  <2>3. QED
    BY <1>6, <2>2, OnHostGood DEF Execute
<1>7. CASE c.kind = "curl"
  BY <1>1, <1>7, CurlGood, OnHostGood DEF Execute
<1>8. CASE c.kind = "edit"
  <2>1. c.good \in BOOLEAN
    BY <1>8 DEF LabCommand
  <2>2. Edit(sess.host, c) \in Answer
    BY <1>1, <2>1, EditGood
  <2>3. QED
    BY <1>8, <2>2, OnHostGood DEF Execute
<1>9. CASE c.kind = "hint"
  BY <1>9, HintGood DEF Execute
<1>10. CASE c.kind = "answer"
  <2>1. [sess EXCEPT !.answers = IF @ < 2 THEN @ + 1 ELSE 2] \in Session
    BY DEF Session
  <2>2. QED
    BY <1>10, <2>1, OutcomeType DEF Execute
<1>11. CASE c.kind = "reset"
  <2>1. LabReset(sess) \in Session
    BY <1>1 DEF Session, LabReset
  <2>2. QED
    BY <1>11, <2>1, OutcomeType DEF Execute
<1>12. CASE c.kind = "submit"
  <2>1. sess.host.clock \in Int
    BY <1>1, HostType DEF GoodHost
  <2>2. [sess EXCEPT !.submittedAt = sess.host.clock] \in Session
    BY <2>1 DEF Session
  <2>3. QED
    BY <1>12, <2>2, OutcomeType DEF Execute
<1>13. c.kind \in {"systemctl", "kill", "killall", "firewall", "setenforce", "curl", "edit", "hint",
                  "answer", "reset", "submit"}
  BY DEF LabCommand
<1>14. QED
  BY <1>2, <1>3, <1>4, <1>5, <1>6, <1>7, <1>8, <1>9, <1>10, <1>11, <1>12, <1>13

LEMMA LineStatements ==
  ASSUME NEW line \in LabLine
  PROVE  line.statements \in Seq(LabStatement)
<1>1. CASE line \in [parsed : {TRUE}, statements : Seq(LabStatement)]
  BY <1>1
<1>2. CASE line \in [parsed : {FALSE}, statements : {<<>>}]
  <2>1. line.statements = <<>>
    BY <1>2
  <2>2. QED
    BY <2>1
<1>3. QED
  BY <1>1, <1>2 DEF LabLine

\* Where a line stands after some of its statements.
Progress == [s : Session, stopped : BOOLEAN]

LEMMA StatementGood ==
  ASSUME NEW acc \in Progress, pkg \in Packages, NEW st, st.cmd \in LabCommand
  PROVE  Statement(acc, st) \in Progress
<1>1. acc.s \in Session
  BY DEF Progress
<1>2. Execute(acc.s, st.cmd) \in Outcome
  BY <1>1, ExecuteGood
<1>3. QED
  BY <1>2 DEF Statement, Progress, Outcome

LEMMA StatementsMade ==
  ASSUME NEW sess \in Session, pkg \in Packages, NEW line \in LabLine
  PROVE  \E m \in [0 .. Len(line.statements) -> Progress] :
           /\ m[0] = [s |-> sess, stopped |-> FALSE]
           /\ \A i \in 1 .. Len(line.statements) : m[i] = Statement(m[i - 1], line.statements[i])
           /\ Over(Statement, [s |-> sess, stopped |-> FALSE], line.statements) = m[Len(line.statements)]
<1> DEFINE n == Len(line.statements)
           Op(r, st) == Statement(r, st)
           Is(m) == m = [i \in 0 .. n |-> IF i = 0 THEN [s |-> sess, stopped |-> FALSE] ELSE Op(m[i - 1], line.statements[i])]
           g == [i \in 1 .. n |-> [x \in Progress |-> Op(x, line.statements[i])]]
           made == CHOOSE m : Is(m)
<1>1. n \in Nat /\ \A i \in 1 .. n : line.statements[i] \in LabStatement
  <2>1. line.statements \in Seq(LabStatement)
    BY LineStatements
  <2>2. QED
    BY <2>1
<1>2. [s |-> sess, stopped |-> FALSE] \in Progress
  BY DEF Progress
<1>3. ASSUME NEW x \in Progress, NEW i \in 1 .. n PROVE Op(x, line.statements[i]) \in Progress
  <2>1. line.statements[i].cmd \in LabCommand
    BY <1>1 DEF LabStatement
  <2>2. QED
    BY <2>1, StatementGood
<1> HIDE DEF n, Op
<1>4. g \in [1 .. n -> [Progress -> Progress]]
  BY <1>3
<1>5. PICK f : Goes(f, Progress, [s |-> sess, stopped |-> FALSE], n, g)
  BY <1>1, <1>2, <1>4, GoesOn
<1>6. Is(f)
  <2>1. ASSUME NEW i \in 1 .. n PROVE f[i] = Op(f[i - 1], line.statements[i])
    <3>1. i - 1 \in 0 .. n
      BY <1>1
    <3>2. f[i] = g[i][f[i - 1]] /\ f[i - 1] \in Progress
      BY <1>5, <3>1 DEF Goes
    <3>3. QED
      BY <3>2
  <2>2. f \in [0 .. n -> Progress] /\ f[0] = [s |-> sess, stopped |-> FALSE]
    BY <1>5 DEF Goes
  <2>3. \A i \in 0 .. n : f[i] = IF i = 0 THEN [s |-> sess, stopped |-> FALSE] ELSE Op(f[i - 1], line.statements[i])
    <3>1. \A i \in 0 .. n : i = 0 \/ i \in 1 .. n
      BY <1>1
    <3>2. QED
      BY <2>1, <2>2, <3>1
  <2>4. QED
    BY <2>2, <2>3
<1>7. Is(made)
  BY <1>6
<1>8. Over(Statement, [s |-> sess, stopped |-> FALSE], line.statements) = made[n]
  BY DEF Over, n, Op
<1> HIDE DEF made
<1>9. made[0] = [s |-> sess, stopped |-> FALSE] /\ \A i \in 1 .. n : made[i] = Op(made[i - 1], line.statements[i])
  <2>1. \A i \in 0 .. n : made[i] = IF i = 0 THEN [s |-> sess, stopped |-> FALSE] ELSE Op(made[i - 1], line.statements[i])
    BY <1>7
  <2>2. 0 \in 0 .. n /\ \A i \in 1 .. n : i \in 0 .. n /\ i # 0
    BY <1>1
  <2>3. QED
    BY <2>1, <2>2
<1>10. \A i \in 0 .. n : made[i] \in Progress
  <2> DEFINE T == {i \in 0 .. n : made[i] \in Progress}
  <2>0. 0 \in 0 .. n /\ \A i \in 1 .. n : i \in 0 .. n
    BY <1>1
  <2>1. 0 \in T /\ \A i \in 1 .. n : i - 1 \in T => i \in T
    BY <2>0, <1>2, <1>3, <1>9
  <2> HIDE DEF T
  <2>2. \A i \in 0 .. n : i \in T
    BY <1>1, <2>1, Climb
  <2>3. QED
    BY <2>2 DEF T
<1>11. made \in [0 .. n -> Progress]
  BY <1>7, <1>10
<1>12. QED
  BY <1>8, <1>9, <1>11 DEF n, Op

\* A command leaves the evidence, the snapshot and the start alone.
Fixed(a, b) == a.chain = b.chain /\ a.initial = b.initial /\ a.started = b.started

LEMMA ExecuteFixed ==
  ASSUME NEW sess \in Session, NEW c \in LabCommand
  PROVE  Fixed(Execute(sess, c).s, sess)
<1>1. c.kind \in {"systemctl", "kill", "killall", "firewall", "setenforce", "curl", "edit", "hint",
                 "answer", "reset", "submit"}
  BY DEF LabCommand
<1>2. \A r : Fixed(OnHost(sess, r).s, sess)
  BY DEF Session, OnHost, Ended, Fixed
<1>3. Fixed(Hint(sess, c).s, sess)
  BY DEF Session, Hint, Ended, Fixed
<1>4. Fixed(LabReset(sess), sess)
  BY DEF Session, LabReset, Fixed
<1>5. Fixed([sess EXCEPT !.answers = IF @ < 2 THEN @ + 1 ELSE 2], sess)
  BY DEF Session, Fixed
<1>6. Fixed([sess EXCEPT !.submittedAt = sess.host.clock], sess)
  BY DEF Session, Fixed
<1>7. QED
  BY <1>1, <1>2, <1>3, <1>4, <1>5, <1>6 DEF Execute, Ended

LEMMA StatementsGood ==
  ASSUME NEW sess \in Session, pkg \in Packages, NEW line \in LabLine
  PROVE  LET ran == Over(Statement, [s |-> sess, stopped |-> FALSE], line.statements).s IN
         ran \in Session /\ Fixed(ran, sess)
<1> DEFINE n == Len(line.statements)
           first == [s |-> sess, stopped |-> FALSE]
<1>1. PICK m \in [0 .. n -> Progress] :
        /\ m[0] = first
        /\ \A i \in 1 .. n : m[i] = Statement(m[i - 1], line.statements[i])
        /\ Over(Statement, first, line.statements) = m[n]
  BY StatementsMade
<1>2. line.statements \in Seq(LabStatement)
  BY LineStatements
<1>3. n \in Nat /\ \A i \in 1 .. n : line.statements[i].cmd \in LabCommand
  <2>1. n \in Nat /\ \A i \in 1 .. n : line.statements[i] \in LabStatement
    BY <1>2
  <2>2. QED
    BY <2>1 DEF LabStatement
<1> DEFINE T == {i \in 0 .. n : Fixed(m[i].s, sess)}
<1> HIDE DEF n
<1>4. 0 \in T
  BY <1>1, <1>3 DEF Fixed
<1>5. ASSUME NEW i \in 1 .. n, i - 1 \in T PROVE i \in T
  <2>1. m[i - 1] \in Progress
    BY <1>1, <1>3
  <2>2. m[i - 1].s \in Session
    BY <2>1 DEF Progress
  <2>3. Fixed(Execute(m[i - 1].s, line.statements[i].cmd).s, m[i - 1].s)
    BY <1>3, <2>2, ExecuteFixed
  <2>4. m[i].s = m[i - 1].s \/ m[i].s = Execute(m[i - 1].s, line.statements[i].cmd).s
    <3>1. m[i] = Statement(m[i - 1], line.statements[i])
      BY <1>1
    <3>2. QED
      BY <3>1 DEF Statement
  <2>5. QED
    BY <1>5, <2>3, <2>4 DEF Fixed
<1>6. \A i \in 1 .. n : i - 1 \in T => i \in T
  BY <1>5
<1> HIDE DEF T
<1>7. \A i \in 0 .. n : i \in T
  BY <1>3, <1>4, <1>6, Climb
<1>8. n \in 0 .. n
  BY <1>3
<1>9. m[n].s \in Session /\ Fixed(m[n].s, sess)
  BY <1>1, <1>7, <1>8 DEF T, Progress
<1>10. QED
  BY <1>1, <1>9

\* What a line leaves before it is recorded.
Ran(sess, line) ==
  IF ~line.parsed THEN sess
  ELSE LET ran == Over(Statement, [s |-> sess, stopped |-> FALSE], line.statements).s
       IN [ran EXCEPT !.host = Advance(Apply(@))]

LEMMA RanGood ==
  ASSUME NEW sess \in Session, pkg \in Packages, NEW line \in LabLine
  PROVE  Ran(sess, line) \in Session /\ Fixed(Ran(sess, line), sess)
<1>1. CASE ~line.parsed
  BY <1>1 DEF Ran, Fixed
<1>2. CASE line.parsed
  <2> DEFINE ran == Over(Statement, [s |-> sess, stopped |-> FALSE], line.statements).s
             h == Advance(Apply(ran.host))
  <2>1. ran \in Session /\ Fixed(ran, sess)
    BY StatementsGood
  <2>2. Ran(sess, line) = [ran EXCEPT !.host = h]
    BY <1>2 DEF Ran
  <2> HIDE DEF ran
  <2>3. ran.host \in GoodHost
    BY <2>1 DEF Session
  <2>4. Apply(ran.host) \in GoodHost
    BY <2>3, ApplyGood
  <2>5. Apply(ran.host).clock + 1 \in Int
    BY <2>4, HostType DEF GoodHost
  <2>6. h \in GoodHost
    BY <2>4, <2>5, ClockGood DEF Advance
  <2> HIDE DEF h
  <2>7. QED
    BY <2>1, <2>2, <2>6 DEF Session, Fixed
<1>3. QED
  BY <1>1, <1>2

LEMMA RunLineRecords ==
  ASSUME NEW sess \in Session, NEW line \in LabLine, pkg \in Packages
  PROVE  RunLine(sess, line) = RecordEvent(Ran(sess, line), line)
<1>1. CASE ~line.parsed
  BY <1>1 DEF RunLine, Ran
<1>2. CASE line.parsed
  BY <1>2 DEF RunLine, Ran
<1>3. QED
  BY <1>1, <1>2

LEMMA RunLineGood ==
  ASSUME NEW sess \in Session, pkg \in Packages, NEW line \in LabLine
  PROVE  /\ RunLine(sess, line) \in Session
         /\ RunLine(sess, line).host = Ran(sess, line).host
         /\ RunLine(sess, line).initial = sess.initial /\ RunLine(sess, line).started = sess.started
         /\ RunLine(sess, line).chain = Append(sess.chain, [line |-> line, time |-> Ran(sess, line).host.clock])
<1> DEFINE r == Ran(sess, line)
           e == [line |-> line, time |-> r.host.clock]
<1>1. r \in Session /\ Fixed(r, sess)
  BY RanGood
<1>2. RunLine(sess, line) = [r EXCEPT !.chain = Append(r.chain, e)]
  BY RunLineRecords DEF RecordEvent
<1> HIDE DEF r
<1>3. r.host.clock \in Int
  BY <1>1, HostType DEF Session, GoodHost
<1>4. e \in Event
  BY <1>3 DEF Event
<1> HIDE DEF e
<1>5. r.chain \in Seq(Event) /\ Append(r.chain, e) \in Seq(Event)
  BY <1>1, <1>4 DEF Session
<1>6. RunLine(sess, line) \in Session
  BY <1>1, <1>2, <1>5 DEF Session
<1>7. QED
  BY <1>1, <1>2, <1>6 DEF Session, Fixed, e, r

LEMMA NewSessionGood ==
  ASSUME pkg \in Packages, NEW seed \in Int
  PROVE  NewSession(seed) \in Session
<1>1. NewState(seed) \in GoodHost
  BY NewStateGood
<1>2. Never \in Int /\ <<>> \in Seq(Event)
  BY DEF Never
<1>3. QED
  BY <1>1, <1>2 DEF NewSession, Session

LEMMA RerunMade ==
  ASSUME NEW seed \in Int, pkg \in Packages, NEW events \in Seq(Event)
  PROVE  \E m \in [0 .. Len(events) -> Session] :
           /\ m[0] = NewSession(seed)
           /\ \A i \in 1 .. Len(events) : m[i] = RunLine(m[i - 1], events[i].line)
           /\ Rerun(seed, events) = m[Len(events)]
<1> DEFINE n == Len(events)
           Op(r, e) == RunLine(r, e.line)
           Is(m) == m = [i \in 0 .. n |-> IF i = 0 THEN NewSession(seed) ELSE Op(m[i - 1], events[i])]
           g == [i \in 1 .. n |-> [x \in Session |-> Op(x, events[i])]]
           made == CHOOSE m : Is(m)
<1>1. n \in Nat /\ \A i \in 1 .. n : events[i] \in Event
  OBVIOUS
<1>2. NewSession(seed) \in Session
  BY NewSessionGood
<1>3. ASSUME NEW x \in Session, NEW i \in 1 .. n PROVE Op(x, events[i]) \in Session
  <2>1. events[i].line \in LabLine
    BY <1>1 DEF Event
  <2>2. QED
    BY <2>1, RunLineGood
<1> HIDE DEF n, Op
<1>4. g \in [1 .. n -> [Session -> Session]]
  BY <1>3
<1>5. PICK f : Goes(f, Session, NewSession(seed), n, g)
  BY <1>1, <1>2, <1>4, GoesOn
<1>6. Is(f)
  <2>1. ASSUME NEW i \in 1 .. n PROVE f[i] = Op(f[i - 1], events[i])
    <3>1. i - 1 \in 0 .. n
      BY <1>1
    <3>2. f[i] = g[i][f[i - 1]] /\ f[i - 1] \in Session
      BY <1>5, <3>1 DEF Goes
    <3>3. QED
      BY <3>2
  <2>2. f \in [0 .. n -> Session] /\ f[0] = NewSession(seed)
    BY <1>5 DEF Goes
  <2>3. \A i \in 0 .. n : f[i] = IF i = 0 THEN NewSession(seed) ELSE Op(f[i - 1], events[i])
    <3>1. \A i \in 0 .. n : i = 0 \/ i \in 1 .. n
      BY <1>1
    <3>2. QED
      BY <2>1, <2>2, <3>1
  <2>4. QED
    BY <2>2, <2>3
<1>7. Is(made)
  BY <1>6
<1>8. Rerun(seed, events) = made[n]
  BY DEF Rerun, Over, n, Op
<1> HIDE DEF made
<1>9. made[0] = NewSession(seed) /\ \A i \in 1 .. n : made[i] = Op(made[i - 1], events[i])
  <2>1. \A i \in 0 .. n : made[i] = IF i = 0 THEN NewSession(seed) ELSE Op(made[i - 1], events[i])
    BY <1>7
  <2>2. 0 \in 0 .. n /\ \A i \in 1 .. n : i \in 0 .. n /\ i # 0
    BY <1>1
  <2>3. QED
    BY <2>1, <2>2
<1>10. \A i \in 0 .. n : made[i] \in Session
  <2> DEFINE T == {i \in 0 .. n : made[i] \in Session}
  <2>0. 0 \in 0 .. n /\ \A i \in 1 .. n : i \in 0 .. n
    BY <1>1
  <2>1. 0 \in T /\ \A i \in 1 .. n : i - 1 \in T => i \in T
    BY <2>0, <1>2, <1>3, <1>9
  <2> HIDE DEF T
  <2>2. \A i \in 0 .. n : i \in T
    BY <1>1, <2>1, Climb
  <2>3. QED
    BY <2>2 DEF T
<1>11. made \in [0 .. n -> Session]
  BY <1>7, <1>10
<1>12. QED
  BY <1>8, <1>9, <1>11 DEF n, Op

\* A rerun leaves the snapshot and the start it was given.
LEMMA RerunGood ==
  ASSUME NEW seed \in Int, pkg \in Packages, NEW events \in Seq(Event)
  PROVE  /\ Rerun(seed, events) \in Session
         /\ Rerun(seed, events).initial = NewState(seed) /\ Rerun(seed, events).started = seed
<1> DEFINE n == Len(events)
           start == NewSession(seed)
<1>1. PICK m \in [0 .. n -> Session] :
        /\ m[0] = start
        /\ \A i \in 1 .. n : m[i] = RunLine(m[i - 1], events[i].line)
        /\ Rerun(seed, events) = m[n]
  BY RerunMade
<1>2. n \in Nat /\ \A i \in 1 .. n : events[i] \in Event
  OBVIOUS
<1>3. start.initial = NewState(seed) /\ start.started = seed
  BY DEF NewSession
<1> DEFINE T == {i \in 0 .. n : m[i].initial = NewState(seed) /\ m[i].started = seed}
<1> HIDE DEF n, start
<1>4. 0 \in T
  BY <1>1, <1>2, <1>3
<1>5. ASSUME NEW i \in 1 .. n, i - 1 \in T PROVE i \in T
  <2>1. m[i - 1] \in Session /\ events[i].line \in LabLine
    BY <1>1, <1>2 DEF Event
  <2>2. m[i] = RunLine(m[i - 1], events[i].line)
    BY <1>1
  <2>3. m[i].initial = m[i - 1].initial /\ m[i].started = m[i - 1].started
    <3> DEFINE x == m[i - 1]
               l == events[i].line
    <3>1. x \in Session /\ l \in LabLine
      BY <2>1
    <3> HIDE DEF x, l
    <3>2. RunLine(x, l).initial = x.initial /\ RunLine(x, l).started = x.started
      BY <3>1, RunLineGood
    <3>3. QED
      BY <2>2, <3>2 DEF x, l
  <2>4. QED
    BY <1>5, <2>3
<1>6. \A i \in 1 .. n : i - 1 \in T => i \in T
  BY <1>5
<1> HIDE DEF T
<1>7. \A i \in 0 .. n : i \in T
  BY <1>2, <1>4, <1>6, Climb
<1>8. n \in 0 .. n
  BY <1>2
<1>9. QED
  BY <1>1, <1>7, <1>8 DEF T

LEMMA StartOfType ==
  ASSUME NEW events \in Seq(Event)
  PROVE  StartOf(events) \in Int
<1>1. CASE events = <<>>
  BY <1>1, LabAssumption DEF StartOf
<1>2. CASE events # <<>>
  <2>1. events[1] \in Event
    BY <1>2
  <2>2. events[1].time \in Int
    BY <2>1 DEF Event
  <2>3. QED
    BY <1>2, <2>2 DEF StartOf
<1>3. QED
  BY <1>1, <1>2

LEMMA ReplayGood ==
  ASSUME pkg \in Packages, NEW events \in Seq(Event)
  PROVE  LET seed == StartOf(events) IN
         /\ Replay(events) \in Session /\ Replay(events).chain = events
         /\ Replay(events).initial = NewState(seed) /\ Replay(events).started = seed
<1> DEFINE seed == StartOf(events)
           ran == Rerun(seed, events)
<1>1. seed \in Int
  BY StartOfType
<1>2. ran \in Session /\ ran.initial = NewState(seed) /\ ran.started = seed
  BY <1>1, RerunGood
<1>3. Replay(events) = [ran EXCEPT !.chain = events]
  BY DEF Replay
<1> HIDE DEF ran, seed
<1>4. [ran EXCEPT !.chain = events] \in Session
  BY <1>2 DEF Session
<1>5. QED
  BY <1>2, <1>3, <1>4 DEF Session, seed

-----------------------------------------------------------------------------
\* The invariant

LabInv ==
  /\ pkg \in Packages
  /\ s \in Session
  /\ Len(s.chain) <= MaxLines
  /\ s.initial = NewState(s.started)

LEMMA Singleton ==
  ASSUME NEW R, NEW x \in R
  PROVE  <<x>> \in Seq(R) /\ Len(<<x>>) = 1 /\ <<x>>[1] = x
  OBVIOUS

LEMMA OneLine ==
  ASSUME NEW cmd \in LabCommand
  PROVE  One(cmd) \in LabLine
<1>1. [op |-> "", cmd |-> cmd] \in LabStatement
  BY DEF LabStatement
<1>2. <<[op |-> "", cmd |-> cmd]>> \in Seq(LabStatement)
  BY <1>1, Singleton
<1>3. QED
  BY <1>2 DEF One, LabLine

LEMMA EnterKeeps ==
  ASSUME LabInv, NEW line \in LabLine, Enter(line)
  PROVE  LabInv'
<1>1. /\ pkg \in Packages /\ s \in Session /\ Len(s.chain) < MaxLines
      /\ s.initial = NewState(s.started) /\ s' = RunLine(s, line) /\ pkg' = pkg
  BY DEF LabInv, Enter
<1> DEFINE r == RunLine(s, line)
<1>2. /\ r \in Session /\ r.initial = s.initial /\ r.started = s.started
      /\ \E e : r.chain = Append(s.chain, e)
  BY <1>1, RunLineGood
<1>3. s' \in Session /\ s'.initial = s.initial /\ s'.started = s.started
      /\ \E e : s'.chain = Append(s.chain, e)
  BY <1>1, <1>2
<1>4. s' \in Session'
  BY <1>1, <1>3 DEF Session
<1>5. s.chain \in Seq(Event)
  BY <1>1 DEF Session
<1>6. Len(s'.chain) = Len(s.chain) + 1
  BY <1>3, <1>5
<1>7. MaxLines \in Nat /\ Len(s.chain) \in Nat
  BY <1>5, LabAssumption
<1>8. Len(s'.chain) <= MaxLines
  BY <1>1, <1>6, <1>7
<1>9. NewState(s.started)' = NewState(s.started)
  BY <1>1, <1>3 DEF NewState
<1>10. QED
  BY <1>1, <1>3, <1>4, <1>8, <1>9 DEF LabInv

\* The lines a participant enters.
Lines ==
  {One(c) : c \in LabCommand} \union [parsed : BOOLEAN, statements : {<<>>}] \union Compounds

LEMMA LinesAreLines == Lines \subseteq LabLine
<1>1. [parsed : BOOLEAN, statements : {<<>>}] \subseteq LabLine
  <2>1. SUFFICES ASSUME NEW line \in [parsed : BOOLEAN, statements : {<<>>}] PROVE line \in LabLine
    OBVIOUS
  <2>2. line = [parsed |-> line.parsed, statements |-> <<>>] /\ line.parsed \in BOOLEAN
    OBVIOUS
  <2>3. <<>> \in Seq(LabStatement)
    OBVIOUS
  <2>4. CASE line.parsed = TRUE
    BY <2>2, <2>3, <2>4 DEF LabLine
  <2>5. CASE line.parsed = FALSE
    BY <2>2, <2>5 DEF LabLine
  <2>6. QED
    BY <2>2, <2>4, <2>5
<1>2. QED
  BY <1>1, OneLine, LabAssumption DEF Lines

LEMMA EntersALine ==
  ASSUME LabNext, ~Restart, ~RecoverSession, DOMAIN pkg.hints \subseteq Nat
  PROVE  \E line \in Lines : Enter(line)
<1>1. CASE SystemctlLine
  <2>1. PICK verb \in {"start", "stop", "restart", "enable", "disable"},
             units \in {<<u>> : u \in Units}, root \in BOOLEAN :
               Enter(One([kind |-> "systemctl", verb |-> verb, units |-> units, root |-> root]))
    BY <1>1 DEF SystemctlLine
  <2>2. units \in Seq(Units)
    OBVIOUS
  <2>3. [kind |-> "systemctl", verb |-> verb, units |-> units, root |-> root] \in LabCommand
    BY <2>2 DEF LabCommand
  <2>4. QED
    BY <2>1, <2>3 DEF Lines
<1>2. CASE KillLine
  <2>1. PICK pid \in {1} \union 100 .. 99 + Cardinality(Units), root \in BOOLEAN :
               Enter(One([kind |-> "kill", pids |-> <<pid>>, root |-> root]))
    BY <1>2 DEF KillLine
  <2>2. Cardinality(Units) \in Nat
    BY LabAssumption, FS_CardinalityType
  <2>3. pid \in Nat
    BY <2>2
  <2>4. <<pid>> \in Seq(Nat)
    BY <2>3
  <2>5. [kind |-> "kill", pids |-> <<pid>>, root |-> root] \in LabCommand
    BY <2>4 DEF LabCommand
  <2>6. QED
    BY <2>1, <2>5 DEF Lines
<1>3. CASE KillAllLine
  <2>1. \A u \in Units : [kind |-> "killall", unit |-> u, root |-> TRUE] \in LabCommand
    BY DEF LabCommand
  <2>2. QED
    BY <1>3, <2>1 DEF KillAllLine, Lines
<1>4. CASE FirewallLine
  <2>1. [kind |-> "firewall", root |-> TRUE] \in LabCommand
    BY DEF LabCommand
  <2>2. QED
    BY <1>4, <2>1 DEF FirewallLine, Lines
<1>5. CASE SetEnforceLine
  <2>1. \A mode \in {"enforcing", "permissive"} : [kind |-> "setenforce", mode |-> mode, root |-> TRUE] \in LabCommand
    BY DEF LabCommand
  <2>2. QED
    BY <1>5, <2>1 DEF SetEnforceLine, Lines
<1>6. CASE CurlLine \/ AnswerLine \/ ResetLine \/ SubmitLine
  <2>1. \A kind \in {"curl", "answer", "reset", "submit"} : [kind |-> kind] \in LabCommand
    BY DEF LabCommand
  <2>2. QED
    BY <1>6, <2>1 DEF CurlLine, AnswerLine, ResetLine, SubmitLine, Lines
<1>7. CASE EditLine
  <2>1. \A good \in BOOLEAN : [kind |-> "edit", good |-> good, root |-> TRUE] \in LabCommand
    BY DEF LabCommand
  <2>2. QED
    BY <1>7, <2>1 DEF EditLine, Lines
<1>8. CASE HintLine
  <2>1. \A id \in Nat : [kind |-> "hint", id |-> id] \in LabCommand
    BY DEF LabCommand
  <2>2. QED
    BY <1>8, <2>1 DEF HintLine, Lines
<1>9. CASE CompoundLine
  BY <1>9 DEF CompoundLine, Lines
<1>10. CASE BareLine \/ Unparsed
  BY <1>10 DEF BareLine, Unparsed, Lines
<1>11. QED
  BY <1>1, <1>2, <1>3, <1>4, <1>5, <1>6, <1>7, <1>8, <1>9, <1>10 DEF LabNext

\* A new session counts from its start.
LEMMA NewStateClock ==
  ASSUME pkg \in Packages, NEW seed \in Int
  PROVE  NewState(seed).clock = seed
<1> DEFINE h == [services |-> pkg.services, procs |-> <<>>, web |-> pkg.web, ports |-> {}, http |-> 0,
                 conf |-> pkg.conf, selinux |-> pkg.selinux, clock |-> seed]
<1>1. Refresh(h, Httpd).clock = seed
  BY DEF Refresh
<1> HIDE DEF h
<1>2. Rebuild(Refresh(h, Httpd)).clock = Refresh(h, Httpd).clock
  <2> DEFINE g == Refresh(h, Httpd)
  <2>1. g = h \/ g = [h EXCEPT !.ports = h.ports \union {"80"}]
    BY DEF Refresh
  <2>2. Rebuild(g) = [g EXCEPT !.procs = [u \in Running(g) |-> 99 + Cardinality({v \in Running(g) : v <= u})]]
    BY DEF Rebuild
  <2> HIDE DEF g
  <2>3. Rebuild(g).clock = g.clock
    BY <2>2
  <2>4. QED
    BY <2>3 DEF g
<1>3. QED
  BY <1>1, <1>2 DEF NewState, h

LEMMA InitKeeps == LabInit => LabInv
<1> SUFFICES ASSUME LabInit PROVE LabInv
  OBVIOUS
<1>1. pkg \in Packages /\ s = NewSession(Seed) /\ Seed \in Int
  BY LabAssumption DEF LabInit
<1>2. s \in Session
  BY <1>1, NewSessionGood
<1>3. s.chain = <<>> /\ s.initial = NewState(s.started)
  BY <1>1 DEF NewSession
<1>4. Len(s.chain) <= MaxLines
  BY <1>3, LabAssumption
<1>5. QED
  BY <1>1, <1>2, <1>3, <1>4 DEF LabInv

LEMMA RestartKeeps ==
  ASSUME LabInv, Restart
  PROVE  LabInv'
<1>1. pkg \in Packages /\ s \in Session /\ s.initial = NewState(s.started) /\ pkg' = pkg
  BY DEF LabInv, Restart
<1>2. s.started \in Int /\ s.initial \in GoodHost
  BY <1>1 DEF Session
<1>3. s.initial.clock = s.started
  BY <1>1, <1>2, NewStateClock
<1>4. Never \in Int /\ <<>> \in Seq(Event)
  BY DEF Never
<1>5. s' = [s EXCEPT !.host = s.initial, !.chain = <<>>, !.hints = {}, !.hintCost = 0,
                    !.answers = 0, !.submittedAt = Never, !.started = s.started]
  BY <1>3 DEF Restart
<1>6. s' \in Session
  <2>1. s' = [host |-> s.initial, initial |-> s.initial, chain |-> <<>>, hints |-> {}, hintCost |-> 0,
              answers |-> 0, submittedAt |-> Never, started |-> s.started]
    BY <1>1, <1>5 DEF Session
  <2>2. QED
    BY <1>2, <1>4, <2>1 DEF Session
<1>7. s'.initial = s.initial /\ s'.started = s.started /\ s'.chain = <<>>
  BY <1>1, <1>5 DEF Session
<1>8. s' \in Session'
  BY <1>1, <1>6 DEF Session
<1>9. NewState(s.started)' = NewState(s.started)
  BY <1>1, <1>7 DEF NewState
<1>10. Len(s'.chain) <= MaxLines
  BY <1>7, LabAssumption
<1>11. QED
  BY <1>1, <1>7, <1>8, <1>9, <1>10 DEF LabInv

LEMMA RecoverKeeps ==
  ASSUME LabInv, RecoverSession
  PROVE  LabInv'
<1> DEFINE x == Replay(s.chain)
           seed == StartOf(s.chain)
<1>1. pkg \in Packages /\ s \in Session /\ Len(s.chain) <= MaxLines /\ s' = x /\ pkg' = pkg
  BY DEF LabInv, RecoverSession
<1>2. s.chain \in Seq(Event)
  BY <1>1 DEF Session
<1>3. x \in Session /\ x.chain = s.chain /\ x.initial = NewState(seed) /\ x.started = seed
  BY <1>1, <1>2, ReplayGood
<1> HIDE DEF x, seed
<1>4. s' \in Session'
  BY <1>1, <1>3 DEF Session
<1>5. NewState(s.started)' = NewState(seed)
  BY <1>1, <1>3 DEF NewState
<1>6. QED
  BY <1>1, <1>3, <1>4, <1>5 DEF LabInv

\* A step is a line, a restart, a recovery or nothing.
LEMMA StepKinds ==
  ASSUME LabInv, [LabNext]_labVars
  PROVE  (\E line \in LabLine : Enter(line)) \/ Restart \/ RecoverSession \/ UNCHANGED labVars
<1>1. pkg.hints \in Seq([cost : Nat, after : Nat])
  BY LabAssumption DEF LabInv
<1>2. DOMAIN pkg.hints \subseteq Nat
  BY <1>1
<1>3. QED
  BY <1>2, EntersALine, LinesAreLines

LEMMA StepKeeps == LabInv /\ [LabNext]_labVars => LabInv'
<1> SUFFICES ASSUME LabInv, [LabNext]_labVars PROVE LabInv'
  OBVIOUS
<1>1. ASSUME UNCHANGED labVars PROVE LabInv'
  <2>1. s' = s /\ pkg' = pkg
    BY <1>1 DEF labVars
  <2>2. s' \in Session'
    BY <2>1 DEF LabInv, Session
  <2>3. NewState(s.started)' = NewState(s.started)
    BY <2>1 DEF NewState
  <2>4. QED
    BY <2>1, <2>2, <2>3 DEF LabInv
<1>2. QED
  BY <1>1, StepKinds, EnterKeeps, RestartKeeps, RecoverKeeps

LEMMA LabInvHolds == LabSpec => []LabInv
  BY InitKeeps, StepKeeps, PTL DEF LabSpec

-----------------------------------------------------------------------------
\* The theorems

(* The fields of the host and of the session keep their types through      *)
(* every line, restart and recovery.                                       *)
THEOREM LabTypesKept == LabSpec => []LabTypeOK
<1>1. LabInv => LabTypeOK
  <2> SUFFICES ASSUME LabInv PROVE LabTypeOK
    OBVIOUS
  <2>1. pkg \in Packages /\ s \in Session /\ Len(s.chain) <= MaxLines
    BY DEF LabInv
  <2>2. s.host \in Host /\ s.hints \subseteq DOMAIN pkg.hints /\ s.chain \in Seq(Event)
    BY <2>1 DEF Session, GoodHost
  <2>3. /\ s.host.services \in [Units -> Service]
        /\ \A u \in Units : s.host.services[u].state \in {"running", "stopped", "failed"}
        /\ s.host.ports \in SUBSET {"80", "80/tcp"} /\ s.host.http \in {0, 200}
    BY <2>2, HostType
  <2>4. Len(s.chain) \in 0 .. MaxLines
    BY <2>1, <2>2, LabAssumption
  <2>5. QED
    BY <2>1, <2>2, <2>3, <2>4 DEF LabTypeOK
<1>2. QED
  BY <1>1, LabInvHolds, PTL

(* Services, processes and ports agree after every line, whatever it       *)
(* started, stopped, killed, enabled or reset, and after a recovery.       *)
THEOREM ServicesAlwaysAgree == LabSpec => []ServicesAgree
<1>1. LabInv => ServicesAgree
  <2> SUFFICES ASSUME LabInv PROVE ServicesAgree
    OBVIOUS
  <2>1. PortsAgree(s.host) /\ ProcsAgree(s.host)
    BY DEF LabInv, Session, GoodHost
  <2>2. QED
    BY <2>1 DEF ServicesAgree, PortsAgree, ProcsAgree
<1>2. QED
  BY <1>1, LabInvHolds, PTL

\* A signal to a listed process stops its service and touches no other.
LEMMA KillOne ==
  ASSUME NEW h \in GoodHost, NEW pid \in Nat, pid > 1
  PROVE  LET c == [kind |-> "kill", pids |-> <<pid>>, root |-> TRUE] IN
         \A u \in Units :
           Kill(h, c).host.services[u].state =
             IF u \in DOMAIN h.procs /\ h.procs[u] = pid THEN "stopped" ELSE h.services[u].state
<1> DEFINE c == [kind |-> "kill", pids |-> <<pid>>, root |-> TRUE]
           hit == {u \in DOMAIN h.procs : h.procs[u] = pid}
           g == StopAll(h, hit)
<1>1. c.pids \in Seq(Nat) /\ c.root = TRUE /\ Len(c.pids) = 1 /\ c.pids[1] = pid
  OBVIOUS
<1> HIDE DEF c
<1>2. PICK m \in [0 .. Len(c.pids) -> Answer] :
        /\ m[0] = Did(h, TRUE)
        /\ \A i \in 1 .. Len(c.pids) : m[i] = IF m[i - 1].ok THEN SignalProcess(m[i - 1].host, c.pids[i], c.root) ELSE m[i - 1]
        /\ Kill(h, c) = m[Len(c.pids)]
  BY <1>1, KillMade
<1>3. Kill(h, c) = SignalProcess(h, pid, TRUE)
  <2>0. 1 \in 1 .. Len(c.pids) /\ 1 - 1 = 0
    BY <1>1
  <2>1. m[1] = IF m[0].ok THEN SignalProcess(m[0].host, pid, TRUE) ELSE m[0]
    <3>1. m[1] = IF m[1 - 1].ok THEN SignalProcess(m[1 - 1].host, c.pids[1], c.root) ELSE m[1 - 1]
      BY <1>2, <2>0
    <3>2. QED
      BY <1>1, <2>0, <3>1
  <2>2. m[0].ok /\ m[0].host = h
    BY <1>2 DEF Did
  <2>3. QED
    BY <1>1, <1>2, <2>1, <2>2
<1>4. SignalProcess(h, pid, TRUE) = Did(Rebuild(g), TRUE)
  <2>1. ~(pid <= 1)
    OBVIOUS
  <2>2. QED
    BY <2>1 DEF SignalProcess
<1>5. h \in Host
  BY DEF GoodHost
<1>6. hit \in SUBSET Units
  BY <1>5, HostType
<1>7. g \in Host /\ \A u \in Units : g.services[u].state = IF u \in hit THEN "stopped" ELSE h.services[u].state
  BY <1>6, StopAllFacts
<1> HIDE DEF g
<1>8. Rebuild(g).services = g.services
  BY <1>7, RebuildKeeps DEF SameBut
<1>9. Kill(h, c).host.services = g.services
  <2>1. Did(Rebuild(g), TRUE).host = Rebuild(g)
    BY DEF Did
  <2>2. QED
    BY <1>3, <1>4, <1>8, <2>1
<1>10. QED
  BY <1>7, <1>9 DEF c

LEMMA ApplyServices ==
  ASSUME NEW h \in GoodHost
  PROVE  Advance(Apply(h)).services = h.services
  BY DEF Apply, Advance, GoodHost, Host

\* A line of one command runs it, then the rules and the clock.
LEMMA RanOne ==
  ASSUME NEW sess \in Session, pkg \in Packages, NEW cmd \in LabCommand
  PROVE  Ran(sess, One(cmd)).host = Advance(Apply(Execute(sess, cmd).s.host))
<1> DEFINE line == One(cmd)
           first == [s |-> sess, stopped |-> FALSE]
<1>1. line \in LabLine
  BY OneLine
<1>2. Len(line.statements) = 1 /\ line.statements[1] = [op |-> "", cmd |-> cmd] /\ line.parsed
  BY DEF One
<1> HIDE DEF line
<1>3. PICK m \in [0 .. Len(line.statements) -> Progress] :
        /\ m[0] = first
        /\ \A i \in 1 .. Len(line.statements) : m[i] = Statement(m[i - 1], line.statements[i])
        /\ Over(Statement, first, line.statements) = m[Len(line.statements)]
  BY <1>1, StatementsMade
<1>4. m[1] = Statement(first, [op |-> "", cmd |-> cmd])
  <2>0. 1 \in 1 .. Len(line.statements)
    <3>1. Len(line.statements) = 1
      BY <1>2, Zenon
    <3>2. QED
      BY <3>1
  <2>1. m[1] = Statement(m[1 - 1], line.statements[1])
    BY <1>3, <2>0
  <2>2. 1 - 1 = 0
    OBVIOUS
  <2>3. QED
    BY <1>2, <1>3, <2>1, <2>2
<1>5. Over(Statement, first, line.statements).s = Execute(sess, cmd).s
  <2>1. Over(Statement, first, line.statements) = m[1]
    BY <1>2, <1>3
  <2>2. Statement(first, [op |-> "", cmd |-> cmd]).s = Execute(sess, cmd).s
    BY DEF Statement
  <2>3. QED
    BY <1>4, <2>1, <2>2
<1> DEFINE x == Execute(sess, cmd).s
<1>6. x \in Session
  BY ExecuteGood DEF Outcome
<1>7. Ran(sess, line) = [x EXCEPT !.host = Advance(Apply(x.host))]
  BY <1>2, <1>5 DEF Ran
<1> HIDE DEF x
<1>8. Ran(sess, line).host = Advance(Apply(x.host))
  BY <1>6, <1>7 DEF Session
<1>9. QED
  BY <1>8 DEF x, line

(* kill of one PID stops the service listed under it and no other: PIDs    *)
(* are not ranks, and the renumbering comes after the signal.              *)
THEOREM KillAlwaysHitsListed == LabSpec => KillHitsListed
<1> DEFINE Hits(pid) ==
      (Len(s'.chain) = Len(s.chain) + 1
         /\ Last(s'.chain).line = One([kind |-> "kill", pids |-> <<pid>>, root |-> TRUE])) =>
        \A u \in Units :
          s'.host.services[u].state =
            IF u \in DOMAIN s.host.procs /\ s.host.procs[u] = pid THEN "stopped"
            ELSE s.host.services[u].state
<1>1. ASSUME LabInv, [LabNext]_labVars, NEW pid \in 100 .. 99 + Cardinality(Units) PROVE Hits(pid)
  <2> DEFINE c == [kind |-> "kill", pids |-> <<pid>>, root |-> TRUE]
  <2>0. pkg \in Packages /\ s \in Session /\ s.chain \in Seq(Event) /\ Len(s.chain) \in Nat
    BY <1>1 DEF LabInv, Session
  <2>1. CASE Restart \/ RecoverSession \/ UNCHANGED labVars
    <3>1. CASE Restart
      <4>1. s'.chain = <<>>
        BY <2>0, <3>1 DEF Restart, Session
      <4>2. Len(s'.chain) = 0
        BY <4>1
      <4>3. QED
        BY <2>0, <4>2
    <3>2. CASE RecoverSession
      <4>1. s'.chain = s.chain
        BY <2>0, <3>2, ReplayGood DEF RecoverSession
      <4>2. QED
        BY <2>0, <4>1
    <3>3. CASE UNCHANGED labVars
      BY <2>0, <3>3 DEF labVars
    <3>4. QED
      BY <2>1, <3>1, <3>2, <3>3
  <2>2. ASSUME NEW line \in LabLine, Enter(line) PROVE Hits(pid)
    <3>1. s' = RunLine(s, line)
      BY <2>2 DEF Enter
    <3>2. /\ s'.host = Ran(s, line).host
          /\ s'.chain = Append(s.chain, [line |-> line, time |-> Ran(s, line).host.clock])
      BY <2>0, <2>2, <3>1, RunLineGood
    <3>3. Last(s'.chain).line = line
      BY <2>0, <3>2 DEF Last
    <3>4. ASSUME line = One(c)
          PROVE  \A u \in Units :
                   s'.host.services[u].state =
                     IF u \in DOMAIN s.host.procs /\ s.host.procs[u] = pid THEN "stopped"
                     ELSE s.host.services[u].state
      <4>1. pid \in Nat /\ pid > 1 /\ <<pid>> \in Seq(Nat)
        BY LabAssumption, FS_CardinalityType
      <4>2. c \in LabCommand /\ c.kind = "kill"
        BY <4>1 DEF LabCommand
      <4>3. s.host \in GoodHost
        BY <2>0 DEF Session
      <4>4. \A u \in Units :
              Kill(s.host, c).host.services[u].state =
                IF u \in DOMAIN s.host.procs /\ s.host.procs[u] = pid THEN "stopped"
                ELSE s.host.services[u].state
        BY <4>1, <4>3, KillOne
      <4>5. c.pids \in Seq(Nat) /\ c.root \in BOOLEAN
        BY <4>1
      <4> HIDE DEF c
      <4>6. Kill(s.host, c) \in Answer
        BY <4>3, <4>5, KillGood
      <4>7. Execute(s, c).s.host = Kill(s.host, c).host
        BY <2>0, <4>2 DEF Execute, OnHost, Ended, Session
      <4>8. s'.host = Advance(Apply(Kill(s.host, c).host))
        BY <2>0, <3>2, <3>4, <4>2, <4>7, RanOne
      <4>9. s'.host.services = Kill(s.host, c).host.services
        BY <4>6, <4>8, ApplyServices DEF Answer
      <4>10. QED
        BY <4>4, <4>9
    <3>5. QED
      BY <3>3, <3>4
  <2>3. QED
    BY <1>1, <2>1, <2>2, StepKinds
<1>2. ASSUME LabInv, [LabNext]_labVars
      PROVE  [\A pid \in 100 .. 99 + Cardinality(Units) : Hits(pid)]_labVars
  BY <1>1, <1>2
<1>3. QED
  BY <1>2, LabInvHolds, PTL DEF LabSpec, KillHitsListed

-----------------------------------------------------------------------------
\* The clock moves nothing else

\* g is h, d seconds later.
Later(g, h, d) ==
  /\ g.services = h.services /\ g.procs = h.procs /\ g.web = h.web /\ g.ports = h.ports
  /\ g.http = h.http /\ g.conf = h.conf /\ g.selinux = h.selinux
  /\ g.clock = h.clock + d

\* Two answers are the same, the hosts d seconds apart.
LaterAnswer(r, q, d) == (r.ok <=> q.ok) /\ Later(r.host, q.host, d)

LEMMA LaterRunning ==
  ASSUME NEW g, NEW h, NEW d, Later(g, h, d)
  PROVE  Running(g) = Running(h)
  BY DEF Running, Later

\* Conditions do not read the clock.
LEMMA LaterHolds ==
  ASSUME NEW g, NEW h, NEW d, Later(g, h, d), NEW c
  PROVE  Holds(g, c) <=> Holds(h, c)
<1>1. Running(g) = Running(h)
  BY LaterRunning
<1>2. QED
  BY <1>1 DEF Holds, Later

LEMMA LaterEvaluate ==
  ASSUME NEW g, NEW h, NEW d, Later(g, h, d), NEW x, x.op \in {"all", "any", "not"}
  PROVE  Evaluate(g, x) <=> Evaluate(h, x)
<1>1. \A c : Holds(g, c) <=> Holds(h, c)
  BY LaterHolds
<1>2. QED
  BY <1>1 DEF Evaluate

LEMMA LaterRebuild ==
  ASSUME NEW g \in Host, NEW h \in Host, NEW d, Later(g, h, d)
  PROVE  Later(Rebuild(g), Rebuild(h), d)
<1> DEFINE P == [u \in Running(h) |-> 99 + Cardinality({v \in Running(h) : v <= u})]
<1>1. Running(g) = Running(h)
  BY LaterRunning
<1>2. Rebuild(h) = [h EXCEPT !.procs = P] /\ Rebuild(g) = [g EXCEPT !.procs = P]
  BY <1>1 DEF Rebuild
<1> HIDE DEF P
<1>3. QED
  BY <1>2 DEF Later, Host

LEMMA LaterRefresh ==
  ASSUME NEW g \in Host, NEW h \in Host, NEW d, Later(g, h, d), NEW u
  PROVE  Later(Refresh(g, u), Refresh(h, u), d)
<1>1. Running(g) = Running(h) /\ g.web = h.web
  BY LaterRunning DEF Later
<1>2. CASE u = Httpd /\ u \in Running(h) /\ h.web
  <2>1. /\ Refresh(g, u) = [g EXCEPT !.ports = g.ports \union {"80"}]
        /\ Refresh(h, u) = [h EXCEPT !.ports = h.ports \union {"80"}]
    BY <1>1, <1>2 DEF Refresh
  <2>2. QED
    BY <2>1 DEF Later, Host
<1>3. CASE ~(u = Httpd /\ u \in Running(h) /\ h.web)
  BY <1>1, <1>3 DEF Refresh
<1>4. QED
  BY <1>2, <1>3

LEMMA LaterClear ==
  ASSUME NEW g \in Host, NEW h \in Host, NEW d, Later(g, h, d), NEW u
  PROVE  Later(ClearEffects(g, u), ClearEffects(h, u), d)
  BY DEF ClearEffects, Later, Host

LEMMA LaterSetState ==
  ASSUME NEW g \in Host, NEW h \in Host, NEW d, Later(g, h, d), NEW u, NEW state
  PROVE  Later(SetState(g, u, state), SetState(h, u, state), d)
<1> DEFINE srv == [h.services EXCEPT ![u] = [h.services[u] EXCEPT !.state = state]]
<1>1. SetState(h, u, state) = [h EXCEPT !.services = srv] /\ SetState(g, u, state) = [g EXCEPT !.services = srv]
  BY DEF SetState, Later
<1> HIDE DEF srv
<1>2. QED
  BY <1>1 DEF Later, Host

LEMMA LaterStart ==
  ASSUME NEW g \in GoodHost, NEW h \in GoodHost, NEW d, Later(g, h, d), NEW u \in Units
  PROVE  LaterAnswer(StartService(g, u), StartService(h, u), d)
<1>1. g \in Host /\ h \in Host
  BY DEF GoodHost
<1>2. SetState(g, u, "running") \in Host /\ SetState(h, u, "running") \in Host
  BY <1>1, SetStateFacts
<1> DEFINE x == SetState(g, u, "running")
           y == SetState(h, u, "running")
<1>3. Later(x, y, d) /\ Later(SetState(g, u, "failed"), SetState(h, u, "failed"), d)
  BY <1>1, LaterSetState
<1> HIDE DEF x, y
<1>4. x \in Host /\ y \in Host
  BY <1>2 DEF x, y
<1>5. Later(Rebuild(x), Rebuild(y), d) /\ Rebuild(x) \in Host /\ Rebuild(y) \in Host
  BY <1>3, <1>4, LaterRebuild, RebuildKeeps
<1>6. Later(Refresh(Rebuild(x), u), Refresh(Rebuild(y), u), d)
  BY <1>5, LaterRefresh
<1>7. \A c : Holds(g, c) <=> Holds(h, c)
  BY LaterHolds
<1>8. CASE \A c \in pkg.conditions[u] : Holds(h, c)
  <2>1. /\ StartService(g, u) = Did(Refresh(Rebuild(x), u), TRUE)
        /\ StartService(h, u) = Did(Refresh(Rebuild(y), u), TRUE)
    BY <1>7, <1>8 DEF StartService, x, y
  <2>2. QED
    BY <1>6, <2>1 DEF Did, LaterAnswer
<1>9. CASE ~\A c \in pkg.conditions[u] : Holds(h, c)
  <2>1. /\ StartService(g, u) = Refused(SetState(g, u, "failed"))
        /\ StartService(h, u) = Refused(SetState(h, u, "failed"))
    BY <1>7, <1>9 DEF StartService
  <2>2. QED
    BY <1>3, <2>1 DEF Did, Refused, LaterAnswer
<1>10. QED
  BY <1>8, <1>9

LEMMA LaterStop ==
  ASSUME NEW g \in GoodHost, NEW h \in GoodHost, NEW d, Later(g, h, d), NEW u \in Units
  PROVE  LaterAnswer(StopService(g, u), StopService(h, u), d)
<1>1. g \in Host /\ h \in Host
  BY DEF GoodHost
<1> DEFINE x == SetState(g, u, "stopped")
           y == SetState(h, u, "stopped")
<1>2. x \in Host /\ y \in Host
  BY <1>1, SetStateFacts
<1>3. Later(x, y, d)
  BY <1>1, LaterSetState
<1> HIDE DEF x, y
<1>4. Later(Rebuild(x), Rebuild(y), d) /\ Rebuild(x) \in Host /\ Rebuild(y) \in Host
  BY <1>2, <1>3, LaterRebuild, RebuildKeeps
<1>5. Later(ClearEffects(Rebuild(x), u), ClearEffects(Rebuild(y), u), d)
  BY <1>4, LaterClear
<1>6. QED
  BY <1>5 DEF StopService, Did, LaterAnswer, x, y

LEMMA LaterEnable ==
  ASSUME NEW g \in GoodHost, NEW h \in GoodHost, NEW d, Later(g, h, d), NEW u, NEW enabled
  PROVE  LaterAnswer(EnableService(g, u, enabled), EnableService(h, u, enabled), d)
<1> DEFINE srv == [h.services EXCEPT ![u] = [h.services[u] EXCEPT !.enabled = enabled]]
           x == [g EXCEPT !.services = srv]
           y == [h EXCEPT !.services = srv]
<1>1. EnableService(h, u, enabled) = Did(y, TRUE) /\ EnableService(g, u, enabled) = Did(x, TRUE)
  BY DEF EnableService, Later
<1> HIDE DEF srv
<1>2. g \in Host /\ h \in Host
  BY DEF GoodHost
<1>3. Later(x, y, d)
  BY <1>2 DEF Later, Host
<1> HIDE DEF x, y
<1>4. QED
  BY <1>1, <1>3 DEF Did, LaterAnswer

LEMMA LaterRefused ==
  ASSUME NEW g, NEW h, NEW d, Later(g, h, d), NEW ok
  PROVE  LaterAnswer(Refused(g), Refused(h), d) /\ LaterAnswer(Did(g, ok), Did(h, ok), d)
  BY DEF Refused, Did, LaterAnswer

LEMMA LaterUnit ==
  ASSUME NEW g \in GoodHost, NEW h \in GoodHost, NEW d, Later(g, h, d), NEW c, NEW u \in Units,
         c.verb \in {"start", "stop", "restart", "enable", "disable"}
  PROVE  LaterAnswer(Unit(g, c, u), Unit(h, c, u), d)
<1> DEFINE x == StopService(g, u)
           y == StopService(h, u)
<1>1. x.host \in GoodHost /\ y.host \in GoodHost
  BY StopGood DEF Answer
<1>2. LaterAnswer(x, y, d)
  BY LaterStop
<1>3. x.ok /\ y.ok
  BY DEF StopService, Did
<1> HIDE DEF x, y
<1>4. LaterAnswer(StartService(x.host, u), StartService(y.host, u), d)
  BY <1>1, <1>2, LaterStart DEF LaterAnswer
<1>5. /\ Then(x, LAMBDA k : StartService(k, u)) = StartService(x.host, u)
      /\ Then(y, LAMBDA k : StartService(k, u)) = StartService(y.host, u)
  BY <1>3 DEF Then
<1>6. CASE ~c.root
  BY <1>6, LaterRefused DEF Unit
<1>7. CASE c.root
  <2>1. CASE c.verb = "start"
    BY <1>7, <2>1, LaterStart DEF Unit
  <2>2. CASE c.verb = "stop"
    BY <1>7, <2>2, LaterStop DEF Unit
  <2>3. CASE c.verb = "restart"
    BY <1>4, <1>5, <1>7, <2>3 DEF Unit, x, y
  <2>4. CASE c.verb = "enable"
    BY <1>7, <2>4, LaterEnable DEF Unit
  <2>5. CASE c.verb = "disable"
    BY <1>7, <2>5, LaterEnable DEF Unit
  <2>6. QED
    BY <2>1, <2>2, <2>3, <2>4, <2>5
<1>8. QED
  BY <1>6, <1>7

LEMMA LaterSignal ==
  ASSUME NEW g \in GoodHost, NEW h \in GoodHost, NEW d, Later(g, h, d), NEW pid, NEW root
  PROVE  LaterAnswer(SignalProcess(g, pid, root), SignalProcess(h, pid, root), d)
<1> DEFINE hit == {u \in DOMAIN h.procs : h.procs[u] = pid}
           srv == [u \in Units |-> IF u \in hit THEN [h.services[u] EXCEPT !.state = "stopped"] ELSE h.services[u]]
           prt == IF Httpd \in hit THEN h.ports \ {"80"} ELSE h.ports
           x == StopAll(g, hit)
           y == StopAll(h, hit)
<1>1. g \in Host /\ h \in Host
  BY DEF GoodHost
<1>2. hit \in SUBSET Units /\ hit = {u \in DOMAIN g.procs : g.procs[u] = pid}
  BY <1>1, HostType DEF Later
<1>3. x = [g EXCEPT !.services = srv, !.ports = prt] /\ y = [h EXCEPT !.services = srv, !.ports = prt]
  BY DEF StopAll, Later
<1> HIDE DEF srv, prt, hit
<1>4. x \in Host /\ y \in Host
  BY <1>2, StopAllFacts
<1> HIDE DEF x, y
<1>5. Later(x, y, d)
  BY <1>1, <1>3 DEF Later, Host
<1>6. Later(Rebuild(x), Rebuild(y), d)
  BY <1>4, <1>5, LaterRebuild
<1>7. LaterAnswer(Did(Rebuild(x), TRUE), Did(Rebuild(y), TRUE), d) /\ LaterAnswer(Refused(g), Refused(h), d)
  BY <1>6, LaterRefused
<1>8. /\ SignalProcess(g, pid, root) = IF pid <= 1 \/ (hit # {} /\ ~root) THEN Refused(g) ELSE Did(Rebuild(x), TRUE)
      /\ SignalProcess(h, pid, root) = IF pid <= 1 \/ (hit # {} /\ ~root) THEN Refused(h) ELSE Did(Rebuild(y), TRUE)
  BY <1>2 DEF SignalProcess, x, y, hit
<1>9. QED
  BY <1>7, <1>8

\* Commands do not move the clock.
LEMMA ClockStart ==
  ASSUME NEW h \in GoodHost, NEW u \in Units
  PROVE  StartService(h, u).host.clock = h.clock
<1>1. h \in Host
  BY DEF GoodHost
<1> DEFINE x == SetState(h, u, "running")
           y == SetState(h, u, "failed")
<1>2. x \in Host
  BY <1>1, SetStateFacts
<1>3. x.clock = h.clock /\ y.clock = h.clock
  BY <1>1 DEF SetState, Host
<1> HIDE DEF x, y
<1>4. Rebuild(x) \in Host /\ Rebuild(x).clock = x.clock
  BY <1>2, RebuildKeeps DEF SameBut
<1> DEFINE z == Rebuild(x)
<1> HIDE DEF z
<1>5. z \in Host /\ z.clock = h.clock
  BY <1>3, <1>4 DEF z
<1>6. Refresh(z, u).clock = h.clock
  BY <1>5 DEF Refresh, Host
<1>7. StartService(h, u) \in {Did(Refresh(z, u), TRUE), Refused(y)}
  BY DEF StartService, x, y, z
<1>8. QED
  BY <1>3, <1>6, <1>7 DEF Did, Refused

LEMMA ClockStop ==
  ASSUME NEW h \in GoodHost, NEW u \in Units
  PROVE  StopService(h, u).host.clock = h.clock
<1>1. h \in Host
  BY DEF GoodHost
<1> DEFINE x == SetState(h, u, "stopped")
           z == Rebuild(x)
<1>2. x \in Host
  BY <1>1, SetStateFacts
<1>3. x.clock = h.clock
  BY <1>1 DEF SetState, Host
<1> HIDE DEF x
<1>4. z \in Host /\ z.clock = h.clock
  BY <1>2, <1>3, RebuildKeeps DEF SameBut
<1> HIDE DEF z
<1>5. ClearEffects(z, u).clock = h.clock
  BY <1>4 DEF ClearEffects, Host
<1>6. StopService(h, u) = Did(ClearEffects(z, u), TRUE)
  BY DEF StopService, x, z
<1>7. QED
  BY <1>5, <1>6 DEF Did

LEMMA ClockUnit ==
  ASSUME NEW h \in GoodHost, NEW c, NEW u \in Units,
         c.verb \in {"start", "stop", "restart", "enable", "disable"}
  PROVE  Unit(h, c, u).host.clock = h.clock
<1> DEFINE y == StopService(h, u)
<1>1. y.host \in GoodHost /\ y.host.clock = h.clock
  BY StopGood, ClockStop DEF Answer
<1>2. Then(y, LAMBDA k : StartService(k, u)).host.clock = h.clock
  <2> HIDE DEF y
  <2>1. QED
    BY <1>1, ClockStart DEF Then
<1>3. \A enabled \in BOOLEAN : EnableService(h, u, enabled).host.clock = h.clock
  <2>1. ASSUME NEW enabled \in BOOLEAN PROVE EnableService(h, u, enabled).host.clock = h.clock
    <3>1. EnableService(h, u, enabled).host = [h EXCEPT !.services[u].enabled = enabled]
      BY DEF EnableService, Did
    <3>2. QED
      BY <3>1 DEF GoodHost, Host
  <2>2. QED
    BY <2>1
<1>4. QED
  BY <1>2, <1>3, ClockStart, ClockStop DEF Unit, Refused, Did

LEMMA ClockSignal ==
  ASSUME NEW h \in GoodHost, NEW pid, NEW root
  PROVE  SignalProcess(h, pid, root).host.clock = h.clock
<1> DEFINE hit == {u \in DOMAIN h.procs : h.procs[u] = pid}
           x == StopAll(h, hit)
<1>1. h \in Host
  BY DEF GoodHost
<1>2. hit \in SUBSET Units
  BY <1>1, HostType
<1>3. x \in Host
  BY <1>2, StopAllFacts
<1>4. x.clock = h.clock
  BY <1>1 DEF StopAll, Host
<1>5. SignalProcess(h, pid, root) \in {Refused(h), Did(Rebuild(x), TRUE)}
  BY DEF SignalProcess
<1> HIDE DEF x
<1>6. Rebuild(x).clock = h.clock
  BY <1>3, <1>4, RebuildKeeps DEF SameBut
<1>7. QED
  BY <1>5, <1>6 DEF Refused, Did

LEMMA LaterSystemctl ==
  ASSUME NEW g \in GoodHost, NEW h \in GoodHost, NEW d, Later(g, h, d),
         NEW c, c.units \in Seq(Units),
         c.verb \in {"start", "stop", "restart", "enable", "disable"}
  PROVE  /\ LaterAnswer(Systemctl(g, c), Systemctl(h, c), d)
         /\ Systemctl(h, c).host.clock = h.clock
<1> DEFINE n == Len(c.units)
<1>1. PICK p \in [0 .. n -> Answer] :
        /\ p[0] = Did(g, TRUE)
        /\ \A i \in 1 .. n : p[i] = IF p[i - 1].ok THEN Unit(p[i - 1].host, c, c.units[i]) ELSE p[i - 1]
        /\ Systemctl(g, c) = p[n]
  BY SystemctlMade
<1>2. PICK m \in [0 .. n -> Answer] :
        /\ m[0] = Did(h, TRUE)
        /\ \A i \in 1 .. n : m[i] = IF m[i - 1].ok THEN Unit(m[i - 1].host, c, c.units[i]) ELSE m[i - 1]
        /\ Systemctl(h, c) = m[n]
  BY SystemctlMade
<1>3. n \in Nat /\ \A i \in 1 .. n : c.units[i] \in Units
  OBVIOUS
<1> DEFINE T == {i \in 0 .. n : LaterAnswer(p[i], m[i], d) /\ m[i].host.clock = h.clock}
<1> HIDE DEF n
<1>4. 0 \in T
  <2>1. LaterAnswer(Did(g, TRUE), Did(h, TRUE), d)
    BY LaterRefused
  <2>2. Did(h, TRUE).host = h
    BY DEF Did
  <2>3. LaterAnswer(p[0], m[0], d) /\ m[0].host = h
    BY <1>1, <1>2, <2>1, <2>2
  <2>4. QED
    BY <1>3, <2>3
<1>5. ASSUME NEW i \in 1 .. n, i - 1 \in T PROVE i \in T
  <2> DEFINE x == p[i - 1]
             y == m[i - 1]
             u == c.units[i]
  <2>1. i - 1 \in 0 .. n /\ i \in 0 .. n /\ u \in Units
    BY <1>3
  <2>2. LaterAnswer(x, y, d) /\ x \in Answer /\ y \in Answer /\ y.host.clock = h.clock
    BY <1>5, <2>1
  <2>3. /\ p[i] = IF x.ok THEN Unit(x.host, c, u) ELSE x
        /\ m[i] = IF y.ok THEN Unit(y.host, c, u) ELSE y
    BY <1>1, <1>2
  <2> HIDE DEF x, y, u
  <2>4. x.host \in GoodHost /\ y.host \in GoodHost /\ Later(x.host, y.host, d) /\ (x.ok <=> y.ok)
    BY <2>2 DEF Answer, LaterAnswer
  <2>5. /\ LaterAnswer(Unit(x.host, c, u), Unit(y.host, c, u), d)
        /\ Unit(y.host, c, u).host.clock = y.host.clock
    BY <2>1, <2>4, LaterUnit, ClockUnit
  <2>6. LaterAnswer(p[i], m[i], d) /\ m[i].host.clock = h.clock
    BY <2>2, <2>3, <2>4, <2>5
  <2>7. QED
    BY <2>1, <2>6
<1>6. \A i \in 1 .. n : i - 1 \in T => i \in T
  BY <1>5
<1> HIDE DEF T
<1>7. n \in T
  <2>1. \A i \in 0 .. n : i \in T
    BY <1>3, <1>4, <1>6, Climb
  <2>2. n \in 0 .. n
    BY <1>3
  <2>3. QED
    BY <2>1, <2>2
<1>8. QED
  BY <1>1, <1>2, <1>7 DEF T

LEMMA LaterKill ==
  ASSUME NEW g \in GoodHost, NEW h \in GoodHost, NEW d, Later(g, h, d),
         NEW c, c.pids \in Seq(Nat), c.root \in BOOLEAN
  PROVE  LaterAnswer(Kill(g, c), Kill(h, c), d) /\ Kill(h, c).host.clock = h.clock
<1> DEFINE n == Len(c.pids)
<1>1. PICK p \in [0 .. n -> Answer] :
        /\ p[0] = Did(g, TRUE)
        /\ \A i \in 1 .. n : p[i] = IF p[i - 1].ok THEN SignalProcess(p[i - 1].host, c.pids[i], c.root) ELSE p[i - 1]
        /\ Kill(g, c) = p[n]
  BY KillMade
<1>2. PICK m \in [0 .. n -> Answer] :
        /\ m[0] = Did(h, TRUE)
        /\ \A i \in 1 .. n : m[i] = IF m[i - 1].ok THEN SignalProcess(m[i - 1].host, c.pids[i], c.root) ELSE m[i - 1]
        /\ Kill(h, c) = m[n]
  BY KillMade
<1>3. n \in Nat
  OBVIOUS
<1> DEFINE T == {i \in 0 .. n : LaterAnswer(p[i], m[i], d) /\ m[i].host.clock = h.clock}
<1> HIDE DEF n
<1>4. 0 \in T
  <2>1. LaterAnswer(Did(g, TRUE), Did(h, TRUE), d)
    BY LaterRefused
  <2>2. Did(h, TRUE).host = h
    BY DEF Did
  <2>3. LaterAnswer(p[0], m[0], d) /\ m[0].host = h
    BY <1>1, <1>2, <2>1, <2>2
  <2>4. QED
    BY <1>3, <2>3
<1>5. ASSUME NEW i \in 1 .. n, i - 1 \in T PROVE i \in T
  <2> DEFINE x == p[i - 1]
             y == m[i - 1]
             pid == c.pids[i]
  <2>1. i - 1 \in 0 .. n /\ i \in 0 .. n
    BY <1>3
  <2>2. LaterAnswer(x, y, d) /\ x \in Answer /\ y \in Answer /\ y.host.clock = h.clock
    BY <1>5, <2>1
  <2>3. /\ p[i] = IF x.ok THEN SignalProcess(x.host, pid, c.root) ELSE x
        /\ m[i] = IF y.ok THEN SignalProcess(y.host, pid, c.root) ELSE y
    BY <1>1, <1>2
  <2> HIDE DEF x, y, pid
  <2>4. x.host \in GoodHost /\ y.host \in GoodHost /\ Later(x.host, y.host, d) /\ (x.ok <=> y.ok)
    BY <2>2 DEF Answer, LaterAnswer
  <2>5. /\ LaterAnswer(SignalProcess(x.host, pid, c.root), SignalProcess(y.host, pid, c.root), d)
        /\ SignalProcess(y.host, pid, c.root).host.clock = y.host.clock
    BY <2>1, <2>4, LaterSignal, ClockSignal
  <2>6. LaterAnswer(p[i], m[i], d) /\ m[i].host.clock = h.clock
    BY <2>2, <2>3, <2>4, <2>5
  <2>7. QED
    BY <2>1, <2>6
<1>6. \A i \in 1 .. n : i - 1 \in T => i \in T
  BY <1>5
<1> HIDE DEF T
<1>7. n \in T
  <2>1. \A i \in 0 .. n : i \in T
    BY <1>3, <1>4, <1>6, Climb
  <2>2. n \in 0 .. n
    BY <1>3
  <2>3. QED
    BY <2>1, <2>2
<1>8. QED
  BY <1>1, <1>2, <1>7 DEF T

LEMMA LaterKillAll ==
  ASSUME NEW g \in GoodHost, NEW h \in GoodHost, NEW d, Later(g, h, d), NEW c
  PROVE  LaterAnswer(KillAll(g, c), KillAll(h, c), d) /\ KillAll(h, c).host.clock = h.clock
<1>1. g.procs = h.procs
  BY DEF Later
<1>2. CASE c.unit \in DOMAIN h.procs
  BY <1>1, <1>2, LaterSignal, ClockSignal DEF KillAll
<1>3. CASE c.unit \notin DOMAIN h.procs
  BY <1>1, <1>3, LaterRefused DEF KillAll, Refused, Did
<1>4. QED
  BY <1>2, <1>3

\* The other commands set one field.
LEMMA LaterFields ==
  ASSUME NEW g \in GoodHost, NEW h \in GoodHost, NEW d, Later(g, h, d), NEW c
  PROVE  /\ LaterAnswer(AllowFirewall(g, c), AllowFirewall(h, c), d)
         /\ AllowFirewall(h, c).host.clock = h.clock
         /\ LaterAnswer(SetEnforce(g, c), SetEnforce(h, c), d)
         /\ SetEnforce(h, c).host.clock = h.clock
         /\ LaterAnswer(Edit(g, c), Edit(h, c), d)
         /\ Edit(h, c).host.clock = h.clock
         /\ LaterAnswer(Curl(g), Curl(h), d)
         /\ Curl(h).host.clock = h.clock
<1>1. g \in Host /\ h \in Host
  BY DEF GoodHost
<1>2. LaterAnswer(Refused(g), Refused(h), d) /\ Refused(h).host.clock = h.clock
  BY LaterRefused DEF Refused, Did
<1>3. ASSUME NEW x \in Host, NEW y \in Host, Later(x, y, d), y.clock = h.clock
      PROVE  LaterAnswer(Did(x, TRUE), Did(y, TRUE), d) /\ Did(y, TRUE).host.clock = h.clock
  BY <1>3, LaterRefused DEF Did
<1>4. LaterAnswer(AllowFirewall(g, c), AllowFirewall(h, c), d) /\ AllowFirewall(h, c).host.clock = h.clock
  <2> DEFINE x == [g EXCEPT !.web = TRUE]
             y == [h EXCEPT !.web = TRUE]
  <2>1. x \in Host /\ y \in Host /\ Later(x, y, d) /\ y.clock = h.clock
    BY <1>1 DEF Later, Host
  <2>2. /\ AllowFirewall(g, c) = IF c.root /\ pkg.zone THEN Did(x, TRUE) ELSE Refused(g)
        /\ AllowFirewall(h, c) = IF c.root /\ pkg.zone THEN Did(y, TRUE) ELSE Refused(h)
    BY DEF AllowFirewall
  <2> HIDE DEF x, y
  <2>3. QED
    BY <1>2, <1>3, <2>1, <2>2
<1>5. LaterAnswer(SetEnforce(g, c), SetEnforce(h, c), d) /\ SetEnforce(h, c).host.clock = h.clock
  <2> DEFINE x == [g EXCEPT !.selinux = c.mode]
             y == [h EXCEPT !.selinux = c.mode]
  <2>1. Later(x, y, d) /\ y.clock = h.clock
    BY <1>1 DEF Later, Host
  <2>2. /\ SetEnforce(g, c) = IF c.root THEN Did(x, TRUE) ELSE Refused(g)
        /\ SetEnforce(h, c) = IF c.root THEN Did(y, TRUE) ELSE Refused(h)
    BY DEF SetEnforce
  <2> HIDE DEF x, y
  <2>3. LaterAnswer(Did(x, TRUE), Did(y, TRUE), d) /\ Did(y, TRUE).host.clock = h.clock
    BY <2>1, LaterRefused DEF Did
  <2>4. QED
    BY <1>2, <2>2, <2>3
<1>6. LaterAnswer(Edit(g, c), Edit(h, c), d) /\ Edit(h, c).host.clock = h.clock
  <2> DEFINE x == [g EXCEPT !.conf = c.good]
             y == [h EXCEPT !.conf = c.good]
  <2>1. Later(x, y, d) /\ y.clock = h.clock
    BY <1>1 DEF Later, Host
  <2>2. /\ Edit(g, c) = IF c.root THEN Did(x, TRUE) ELSE Refused(g)
        /\ Edit(h, c) = IF c.root THEN Did(y, TRUE) ELSE Refused(h)
    BY DEF Edit
  <2> HIDE DEF x, y
  <2>3. LaterAnswer(Did(x, TRUE), Did(y, TRUE), d) /\ Did(y, TRUE).host.clock = h.clock
    BY <2>1, LaterRefused DEF Did
  <2>4. QED
    BY <1>2, <2>2, <2>3
<1>7. LaterAnswer(Curl(g), Curl(h), d) /\ Curl(h).host.clock = h.clock
  <2>1. g.http = h.http
    BY DEF Later
  <2>2. LaterAnswer(Did(g, h.http # 0 /\ h.http < 400), Did(h, h.http # 0 /\ h.http < 400), d)
    BY LaterRefused
  <2>3. QED
    BY <2>1, <2>2 DEF Curl, Did
<1>8. QED
  BY <1>4, <1>5, <1>6, <1>7

LEMMA LaterApply ==
  ASSUME NEW g \in GoodHost, NEW h \in GoodHost, NEW d \in Int, Later(g, h, d), pkg \in Packages
  PROVE  /\ Later(Advance(Apply(g)), Advance(Apply(h)), d)
         /\ Advance(Apply(h)).clock = h.clock + 1
<1>1. g \in Host /\ h \in Host
  BY DEF GoodHost
<1>2. pkg.when.op = "all"
  BY LabAssumption
<1>3. Evaluate(g, pkg.when) <=> Evaluate(h, pkg.when)
  BY <1>2, LaterEvaluate
<1>4. Later(Apply(g), Apply(h), d) /\ Apply(g) \in Host /\ Apply(h) \in Host /\ Apply(h).clock = h.clock
  <2>1. Apply(g) \in Host /\ Apply(h) \in Host
    BY ApplyGood DEF GoodHost
  <2>2. Later(Apply(g), Apply(h), d) /\ Apply(h).clock = h.clock
    BY <1>1, <1>3 DEF Apply, Later, Host
  <2>3. QED
    BY <2>1, <2>2
<1> DEFINE x == Apply(g)
           y == Apply(h)
<1> HIDE DEF x, y
<1>5. Later(x, y, d) /\ x \in Host /\ y \in Host /\ y.clock = h.clock
  BY <1>4 DEF x, y
<1>6. /\ x.clock \in Int /\ y.clock \in Int
      /\ Advance(x) = [x EXCEPT !.clock = x.clock + 1] /\ Advance(y) = [y EXCEPT !.clock = y.clock + 1]
  BY <1>5, HostType DEF Advance
<1>7. Later(Advance(x), Advance(y), d) /\ Advance(y).clock = h.clock + 1
  <2>1. x.clock + 1 = y.clock + 1 + d
    BY <1>5, <1>6 DEF Later
  <2>2. QED
    BY <1>5, <1>6, <2>1 DEF Later, Host
<1>8. QED
  BY <1>7 DEF x, y

LEMMA LaterNewState ==
  ASSUME pkg \in Packages, NEW t \in Int, NEW d \in Int
  PROVE  Later(NewState(t + d), NewState(t), d)
<1> DEFINE h == [services |-> pkg.services, procs |-> <<>>, web |-> pkg.web, ports |-> {}, http |-> 0,
                 conf |-> pkg.conf, selinux |-> pkg.selinux, clock |-> t]
           g == [services |-> pkg.services, procs |-> <<>>, web |-> pkg.web, ports |-> {}, http |-> 0,
                 conf |-> pkg.conf, selinux |-> pkg.selinux, clock |-> t + d]
<1>1. <<>> \in UNION {[D -> Nat] : D \in SUBSET Units}
  <2>1. <<>> \in [{} -> Nat]
    OBVIOUS
  <2>2. QED
    BY <2>1
<1>2. g \in Host /\ h \in Host
  <2>1. ASSUME NEW x \in Int
        PROVE  [services |-> pkg.services, procs |-> <<>>, web |-> pkg.web, ports |-> {}, http |-> 0,
                conf |-> pkg.conf, selinux |-> pkg.selinux, clock |-> x] \in Host
    BY <1>1, LabAssumption DEF Host
  <2>2. t + d \in Int
    OBVIOUS
  <2>3. QED
    BY <2>1, <2>2
<1>3. Later(g, h, d)
  BY DEF Later
<1>4. NewState(t) = Rebuild(Refresh(h, Httpd)) /\ NewState(t + d) = Rebuild(Refresh(g, Httpd))
  BY DEF NewState
<1> HIDE DEF g, h
<1>5. ASSUME NEW k \in Host PROVE Refresh(k, Httpd) \in Host
  <2>1. k.ports \union {"80"} \in SUBSET {"80", "80/tcp"}
    BY HostType
  <2> DEFINE prt == k.ports \union {"80"}
  <2>2. Refresh(k, Httpd) \in {k, [k EXCEPT !.ports = prt]}
    BY DEF Refresh
  <2> HIDE DEF prt
  <2>3. [k EXCEPT !.ports = prt] \in Host
    BY <2>1 DEF Host, prt
  <2>4. QED
    BY <2>2, <2>3
<1>6. Later(Refresh(g, Httpd), Refresh(h, Httpd), d) /\ Refresh(g, Httpd) \in Host /\ Refresh(h, Httpd) \in Host
  BY <1>2, <1>3, <1>5, LaterRefresh
<1>7. QED
  BY <1>4, <1>6, LaterRebuild

-----------------------------------------------------------------------------
\* A session that began at another time

\* a is b, all times d seconds later; the evidence is not compared.
Alike(a, b, d) ==
  /\ Later(a.host, b.host, d) /\ Later(a.initial, b.initial, d)
  /\ a.hints = b.hints /\ a.hintCost = b.hintCost /\ a.answers = b.answers
  /\ a.started = b.started + d
  /\ a.submittedAt = IF b.submittedAt = Never THEN Never ELSE b.submittedAt + d

\* No time is before the start, and the start is after Never.
Timely(x) ==
  /\ Never < x.started /\ x.started <= x.host.clock /\ x.initial.clock = x.started
  /\ x.submittedAt = Never \/ x.started <= x.submittedAt

AlikeOutcome(x, y, d) == (x.ok <=> y.ok) /\ Alike(x.s, y.s, d) /\ Timely(y.s)

LEMMA AlikeOnHost ==
  ASSUME NEW a \in Session, NEW b \in Session, NEW d \in Int, Alike(a, b, d), Timely(b),
         NEW r, NEW q, LaterAnswer(r, q, d), q.host.clock = b.host.clock
  PROVE  AlikeOutcome(OnHost(a, r), OnHost(b, q), d)
<1> DEFINE x == [a EXCEPT !.host = r.host]
           y == [b EXCEPT !.host = q.host]
<1>1. /\ x.host = r.host /\ x.initial = a.initial /\ x.hints = a.hints /\ x.hintCost = a.hintCost
      /\ x.answers = a.answers /\ x.started = a.started /\ x.submittedAt = a.submittedAt
  BY DEF Session
<1>2. /\ y.host = q.host /\ y.initial = b.initial /\ y.hints = b.hints /\ y.hintCost = b.hintCost
      /\ y.answers = b.answers /\ y.started = b.started /\ y.submittedAt = b.submittedAt
  BY DEF Session
<1>3. OnHost(a, r) = Ended(x, r.ok) /\ OnHost(b, q) = Ended(y, q.ok)
  BY DEF OnHost
<1> HIDE DEF x, y
<1>4. Later(r.host, q.host, d) /\ (r.ok <=> q.ok)
  BY DEF LaterAnswer
<1>5. Alike(x, y, d)
  BY <1>1, <1>2, <1>4 DEF Alike
<1>6. Timely(y)
  BY <1>2 DEF Timely
<1>7. QED
  BY <1>3, <1>4, <1>5, <1>6 DEF AlikeOutcome, Ended

\* Times are compared with the start only.
LEMMA AlikeHint ==
  ASSUME NEW a \in Session, NEW b \in Session, NEW d \in Int, Alike(a, b, d), Timely(b),
         NEW c
  PROVE  AlikeOutcome(Hint(a, c), Hint(b, c), d)
<1>1. a.host.clock - a.started = b.host.clock - b.started
  <2>1. a.host.clock \in Int /\ b.host.clock \in Int
    BY HostType DEF Session, GoodHost
  <2>2. a.started \in Int /\ b.started \in Int
    BY DEF Session
  <2>3. a.host.clock = b.host.clock + d /\ a.started = b.started + d
    BY DEF Alike, Later
  <2>4. QED
    BY <2>1, <2>2, <2>3
<1> DEFINE read == b.hints \union {c.id}
           cost == b.hintCost + pkg.hints[c.id].cost
           x == [a EXCEPT !.hints = read, !.hintCost = cost]
           y == [b EXCEPT !.hints = read, !.hintCost = cost]
           late == b.host.clock - b.started < pkg.hints[c.id].after
<1>2. /\ Hint(a, c) = IF c.id \notin DOMAIN pkg.hints THEN Ended(a, FALSE)
                      ELSE IF c.id \in b.hints THEN Ended(a, TRUE)
                      ELSE IF late THEN Ended(a, FALSE) ELSE Ended(x, TRUE)
      /\ Hint(b, c) = IF c.id \notin DOMAIN pkg.hints THEN Ended(b, FALSE)
                      ELSE IF c.id \in b.hints THEN Ended(b, TRUE)
                      ELSE IF late THEN Ended(b, FALSE) ELSE Ended(y, TRUE)
  BY <1>1 DEF Hint, Alike
<1> HIDE DEF read, cost, late
<1>3. /\ x.host = a.host /\ x.initial = a.initial /\ x.hints = read /\ x.hintCost = cost
      /\ x.answers = a.answers /\ x.started = a.started /\ x.submittedAt = a.submittedAt
  BY DEF Session
<1>4. /\ y.host = b.host /\ y.initial = b.initial /\ y.hints = read /\ y.hintCost = cost
      /\ y.answers = b.answers /\ y.started = b.started /\ y.submittedAt = b.submittedAt
  BY DEF Session
<1> HIDE DEF x, y
<1>5. Alike(x, y, d) /\ Timely(y)
  BY <1>3, <1>4 DEF Alike, Timely
<1>6. \A ok : AlikeOutcome(Ended(a, ok), Ended(b, ok), d) /\ AlikeOutcome(Ended(x, ok), Ended(y, ok), d)
  BY <1>5 DEF AlikeOutcome, Ended
<1>7. QED
  BY <1>2, <1>6

LEMMA AlikeReset ==
  ASSUME NEW a \in Session, NEW b \in Session, NEW d \in Int, Alike(a, b, d), Timely(b)
  PROVE  AlikeOutcome(Ended(LabReset(a), TRUE), Ended(LabReset(b), TRUE), d)
<1> DEFINE x == LabReset(a)
           y == LabReset(b)
<1>1. /\ x.host = a.initial /\ x.initial = a.initial /\ x.hints = {} /\ x.hintCost = 0
      /\ x.answers = a.answers /\ x.started = a.started /\ x.submittedAt = a.submittedAt
  BY DEF Session, LabReset
<1>2. /\ y.host = b.initial /\ y.initial = b.initial /\ y.hints = {} /\ y.hintCost = 0
      /\ y.answers = b.answers /\ y.started = b.started /\ y.submittedAt = b.submittedAt
  BY DEF Session, LabReset
<1> HIDE DEF x, y
<1>3. b.started \in Int
  BY DEF Session
<1>4. Alike(x, y, d) /\ Timely(y)
  BY <1>1, <1>2, <1>3 DEF Alike, Timely
<1>5. QED
  BY <1>4 DEF AlikeOutcome, Ended, x, y

LEMMA AlikeAnswer ==
  ASSUME NEW a \in Session, NEW b \in Session, NEW d \in Int, Alike(a, b, d), Timely(b), NEW k
  PROVE  AlikeOutcome(Ended([a EXCEPT !.answers = k], TRUE), Ended([b EXCEPT !.answers = k], TRUE), d)
<1> DEFINE x == [a EXCEPT !.answers = k]
           y == [b EXCEPT !.answers = k]
<1>1. /\ x.host = a.host /\ x.initial = a.initial /\ x.hints = a.hints /\ x.hintCost = a.hintCost
      /\ x.answers = k /\ x.started = a.started /\ x.submittedAt = a.submittedAt
  BY DEF Session
<1>2. /\ y.host = b.host /\ y.initial = b.initial /\ y.hints = b.hints /\ y.hintCost = b.hintCost
      /\ y.answers = k /\ y.started = b.started /\ y.submittedAt = b.submittedAt
  BY DEF Session
<1> HIDE DEF x, y
<1>3. Alike(x, y, d) /\ Timely(y)
  BY <1>1, <1>2 DEF Alike, Timely
<1>4. QED
  BY <1>3 DEF AlikeOutcome, Ended, x, y

LEMMA AlikeSubmit ==
  ASSUME NEW a \in Session, NEW b \in Session, NEW d \in Int, Alike(a, b, d), Timely(b)
  PROVE  AlikeOutcome(Ended([a EXCEPT !.submittedAt = a.host.clock], TRUE),
                      Ended([b EXCEPT !.submittedAt = b.host.clock], TRUE), d)
<1> DEFINE x == [a EXCEPT !.submittedAt = a.host.clock]
           y == [b EXCEPT !.submittedAt = b.host.clock]
<1>1. /\ x.host = a.host /\ x.initial = a.initial /\ x.hints = a.hints /\ x.hintCost = a.hintCost
      /\ x.answers = a.answers /\ x.started = a.started /\ x.submittedAt = a.host.clock
  BY DEF Session
<1>2. /\ y.host = b.host /\ y.initial = b.initial /\ y.hints = b.hints /\ y.hintCost = b.hintCost
      /\ y.answers = b.answers /\ y.started = b.started /\ y.submittedAt = b.host.clock
  BY DEF Session
<1> HIDE DEF x, y
<1>3. a.host.clock = b.host.clock + d
  BY DEF Alike, Later
<1>4. b.host.clock # Never
  <2>1. b.host.clock \in Int /\ b.started \in Int
    BY HostType DEF Session, GoodHost
  <2>2. QED
    BY <2>1 DEF Timely, Never
<1>5. Alike(x, y, d)
  BY <1>1, <1>2, <1>3, <1>4 DEF Alike
<1>6. Timely(y)
  BY <1>2 DEF Timely
<1>7. QED
  BY <1>5, <1>6 DEF AlikeOutcome, Ended, x, y

LEMMA AlikeExecute ==
  ASSUME NEW a \in Session, NEW b \in Session, NEW d \in Int, Alike(a, b, d), Timely(b),
         NEW c \in LabCommand
  PROVE  AlikeOutcome(Execute(a, c), Execute(b, c), d)
<1> DEFINE g == a.host
           h == b.host
<1>1. g \in GoodHost /\ h \in GoodHost /\ Later(g, h, d)
  BY DEF Session, Alike
<1> HIDE DEF g, h
<1>2. CASE c.kind = "systemctl"
  <2>1. c.units \in Seq(Units) /\ c.verb \in {"start", "stop", "restart", "enable", "disable"}
    BY <1>2 DEF LabCommand
  <2>2. LaterAnswer(Systemctl(g, c), Systemctl(h, c), d) /\ Systemctl(h, c).host.clock = h.clock
    BY <1>1, <2>1, LaterSystemctl
  <2>3. AlikeOutcome(OnHost(a, Systemctl(g, c)), OnHost(b, Systemctl(h, c)), d)
    BY <2>2, AlikeOnHost DEF h
  <2>4. QED
    BY <1>2, <2>3 DEF Execute, g, h
<1>3. CASE c.kind = "kill"
  <2>1. c.pids \in Seq(Nat) /\ c.root \in BOOLEAN
    BY <1>3 DEF LabCommand
  <2>2. LaterAnswer(Kill(g, c), Kill(h, c), d) /\ Kill(h, c).host.clock = h.clock
    BY <1>1, <2>1, LaterKill
  <2>3. AlikeOutcome(OnHost(a, Kill(g, c)), OnHost(b, Kill(h, c)), d)
    BY <2>2, AlikeOnHost DEF h
  <2>4. QED
    BY <1>3, <2>3 DEF Execute, g, h
<1>4. CASE c.kind = "killall"
  <2>1. LaterAnswer(KillAll(g, c), KillAll(h, c), d) /\ KillAll(h, c).host.clock = h.clock
    BY <1>1, LaterKillAll
  <2>2. AlikeOutcome(OnHost(a, KillAll(g, c)), OnHost(b, KillAll(h, c)), d)
    BY <2>1, AlikeOnHost DEF h
  <2>3. QED
    BY <1>4, <2>2 DEF Execute, g, h
<1>5. CASE c.kind = "firewall"
  <2>1. AlikeOutcome(OnHost(a, AllowFirewall(g, c)), OnHost(b, AllowFirewall(h, c)), d)
    BY <1>1, LaterFields, AlikeOnHost DEF h
  <2>2. QED
    BY <1>5, <2>1 DEF Execute, g, h
<1>6. CASE c.kind = "setenforce"
  <2>1. AlikeOutcome(OnHost(a, SetEnforce(g, c)), OnHost(b, SetEnforce(h, c)), d)
    BY <1>1, LaterFields, AlikeOnHost DEF h
  <2>2. QED
    BY <1>6, <2>1 DEF Execute, g, h
<1>7. CASE c.kind = "curl"
  <2>1. AlikeOutcome(OnHost(a, Curl(g)), OnHost(b, Curl(h)), d)
    BY <1>1, LaterFields, AlikeOnHost DEF h
  <2>2. QED
    BY <1>7, <2>1 DEF Execute, g, h
<1>8. CASE c.kind = "edit"
  <2>1. AlikeOutcome(OnHost(a, Edit(g, c)), OnHost(b, Edit(h, c)), d)
    BY <1>1, LaterFields, AlikeOnHost DEF h
  <2>2. QED
    BY <1>8, <2>1 DEF Execute, g, h
<1>9. CASE c.kind = "hint"
  BY <1>9, AlikeHint DEF Execute
<1>10. CASE c.kind = "answer"
  <2> DEFINE k == IF b.answers < 2 THEN b.answers + 1 ELSE 2
  <2>1. AlikeOutcome(Ended([a EXCEPT !.answers = k], TRUE), Ended([b EXCEPT !.answers = k], TRUE), d)
    BY AlikeAnswer
  <2>2. a.answers = b.answers
    BY DEF Alike
  <2>3. QED
    BY <1>10, <2>1, <2>2 DEF Execute
<1>11. CASE c.kind = "reset"
  BY <1>11, AlikeReset DEF Execute
<1>12. CASE c.kind = "submit"
  BY <1>12, AlikeSubmit DEF Execute
<1>13. c.kind \in {"systemctl", "kill", "killall", "firewall", "setenforce", "curl", "edit", "hint",
                  "answer", "reset", "submit"}
  BY DEF LabCommand
<1>14. QED
  BY <1>2, <1>3, <1>4, <1>5, <1>6, <1>7, <1>8, <1>9, <1>10, <1>11, <1>12, <1>13

LEMMA AlikeStatements ==
  ASSUME NEW a \in Session, NEW b \in Session, NEW d \in Int, Alike(a, b, d), Timely(b),
         pkg \in Packages, NEW line \in LabLine
  PROVE  LET x == Over(Statement, [s |-> a, stopped |-> FALSE], line.statements).s
             y == Over(Statement, [s |-> b, stopped |-> FALSE], line.statements).s
         IN  Alike(x, y, d) /\ Timely(y)
<1> DEFINE n == Len(line.statements)
           fa == [s |-> a, stopped |-> FALSE]
           fb == [s |-> b, stopped |-> FALSE]
<1>1. PICK p \in [0 .. n -> Progress] :
        /\ p[0] = fa
        /\ \A i \in 1 .. n : p[i] = Statement(p[i - 1], line.statements[i])
        /\ Over(Statement, fa, line.statements) = p[n]
  BY StatementsMade
<1>2. PICK m \in [0 .. n -> Progress] :
        /\ m[0] = fb
        /\ \A i \in 1 .. n : m[i] = Statement(m[i - 1], line.statements[i])
        /\ Over(Statement, fb, line.statements) = m[n]
  BY StatementsMade
<1>3. n \in Nat /\ \A i \in 1 .. n : line.statements[i] \in LabStatement
  <2>1. line.statements \in Seq(LabStatement)
    BY LineStatements
  <2>2. QED
    BY <2>1
<1> DEFINE Fits(i) == (p[i].stopped <=> m[i].stopped) /\ Alike(p[i].s, m[i].s, d) /\ Timely(m[i].s)
           T == {i \in 0 .. n : Fits(i)}
<1> HIDE DEF n
<1>4. 0 \in T
  <2>1. p[0].s = a /\ m[0].s = b /\ ~p[0].stopped /\ ~m[0].stopped
    BY <1>1, <1>2
  <2>2. Fits(0)
    BY <2>1
  <2>3. QED
    BY <1>3, <2>2
<1>5. ASSUME NEW i \in 1 .. n, i - 1 \in T PROVE i \in T
  <2> DEFINE x == p[i - 1]
             y == m[i - 1]
             st == line.statements[i]
  <2>1. i - 1 \in 0 .. n /\ i \in 0 .. n /\ st \in LabStatement
    BY <1>3
  <2>2. (x.stopped <=> y.stopped) /\ Alike(x.s, y.s, d) /\ Timely(y.s) /\ x \in Progress /\ y \in Progress
    BY <1>5, <2>1
  <2>3. p[i] = Statement(x, st) /\ m[i] = Statement(y, st)
    BY <1>1, <1>2
  <2> HIDE DEF x, y, st
  <2>4. x.s \in Session /\ y.s \in Session /\ st.cmd \in LabCommand
    BY <2>1, <2>2 DEF Progress, LabStatement
  <2>5. AlikeOutcome(Execute(x.s, st.cmd), Execute(y.s, st.cmd), d)
    BY <2>2, <2>4, AlikeExecute
  <2>6. CASE y.stopped \/ st.op = "||"
    <3>1. p[i] = x /\ m[i] = y
      BY <2>2, <2>3, <2>6 DEF Statement
    <3>2. Fits(i)
      BY <2>2, <3>1
    <3>3. QED
      BY <2>1, <3>2
  <2>7. CASE ~(y.stopped \/ st.op = "||")
    <3> DEFINE v == Execute(x.s, st.cmd)
               w == Execute(y.s, st.cmd)
    <3>1. p[i] = [s |-> v.s, stopped |-> ~v.ok] /\ m[i] = [s |-> w.s, stopped |-> ~w.ok]
      BY <2>2, <2>3, <2>7 DEF Statement
    <3>2. (v.ok <=> w.ok) /\ Alike(v.s, w.s, d) /\ Timely(w.s)
      BY <2>5 DEF AlikeOutcome
    <3> HIDE DEF v, w
    <3>3. p[i].s = v.s /\ m[i].s = w.s /\ p[i].stopped = ~v.ok /\ m[i].stopped = ~w.ok
      BY <3>1
    <3>4. p[i].stopped <=> m[i].stopped
      BY <3>2, <3>3
    <3>5. Fits(i)
      BY <3>2, <3>3, <3>4
    <3>6. QED
      BY <2>1, <3>5
  <2>8. QED
    BY <2>6, <2>7
<1>6. \A i \in 1 .. n : i - 1 \in T => i \in T
  BY <1>5
<1> HIDE DEF T
<1>7. n \in T
  <2>1. \A i \in 0 .. n : i \in T
    BY <1>3, <1>4, <1>6, Climb
  <2>2. n \in 0 .. n
    BY <1>3
  <2>3. QED
    BY <2>1, <2>2
<1>8. Alike(p[n].s, m[n].s, d) /\ Timely(m[n].s)
  BY <1>7 DEF T
<1>9. QED
  BY <1>1, <1>2, <1>8

LEMMA AlikeRan ==
  ASSUME NEW a \in Session, NEW b \in Session, NEW d \in Int, Alike(a, b, d), Timely(b),
         pkg \in Packages, NEW line \in LabLine
  PROVE  Alike(Ran(a, line), Ran(b, line), d) /\ Timely(Ran(b, line))
<1>1. CASE ~line.parsed
  BY <1>1 DEF Ran
<1>2. CASE line.parsed
  <2> DEFINE x == Over(Statement, [s |-> a, stopped |-> FALSE], line.statements).s
             y == Over(Statement, [s |-> b, stopped |-> FALSE], line.statements).s
  <2>1. Alike(x, y, d) /\ Timely(y)
    BY AlikeStatements
  <2>2. x \in Session /\ y \in Session
    BY StatementsGood
  <2>3. Ran(a, line) = [x EXCEPT !.host = Advance(Apply(x.host))]
        /\ Ran(b, line) = [y EXCEPT !.host = Advance(Apply(y.host))]
    BY <1>2 DEF Ran
  <2> HIDE DEF x, y
  <2> DEFINE g == Advance(Apply(x.host))
             h == Advance(Apply(y.host))
             v == [x EXCEPT !.host = g]
             w == [y EXCEPT !.host = h]
  <2>4. x.host \in GoodHost /\ y.host \in GoodHost /\ Later(x.host, y.host, d)
    BY <2>1, <2>2 DEF Session, Alike
  <2>5. Later(g, h, d) /\ h.clock = y.host.clock + 1
    BY <2>4, LaterApply
  <2> HIDE DEF g, h
  <2>6. /\ v.host = g /\ v.initial = x.initial /\ v.hints = x.hints /\ v.hintCost = x.hintCost
        /\ v.answers = x.answers /\ v.started = x.started /\ v.submittedAt = x.submittedAt
    BY <2>2 DEF Session
  <2>7. /\ w.host = h /\ w.initial = y.initial /\ w.hints = y.hints /\ w.hintCost = y.hintCost
        /\ w.answers = y.answers /\ w.started = y.started /\ w.submittedAt = y.submittedAt
    BY <2>2 DEF Session
  <2> HIDE DEF v, w
  <2>8. Alike(v, w, d)
    BY <2>1, <2>5, <2>6, <2>7 DEF Alike
  <2>9. y.started <= h.clock
    <3>1. y.started \in Int /\ y.host.clock \in Int /\ y.started <= y.host.clock
      BY <2>1, <2>2, <2>4, HostType DEF Session, GoodHost, Timely
    <3>2. QED
      BY <2>5, <3>1
  <2>10. Timely(w)
    BY <2>1, <2>7, <2>9 DEF Timely
  <2>11. QED
    BY <2>3, <2>8, <2>10 DEF v, w, g, h
<1>3. QED
  BY <1>1, <1>2

\* A line keeps two sessions alike, and its event is not before the start.
LEMMA AlikeLine ==
  ASSUME NEW a \in Session, NEW b \in Session, NEW d \in Int, Alike(a, b, d), Timely(b),
         pkg \in Packages, NEW line \in LabLine
  PROVE  /\ Alike(RunLine(a, line), RunLine(b, line), d)
         /\ Timely(RunLine(b, line))
         /\ b.started <= Ran(b, line).host.clock
<1> DEFINE x == Ran(a, line)
           y == Ran(b, line)
<1>1. x \in Session /\ y \in Session /\ Fixed(y, b)
  BY RanGood
<1>2. Alike(x, y, d) /\ Timely(y)
  BY AlikeRan
<1>3. RunLine(a, line) = RecordEvent(x, line) /\ RunLine(b, line) = RecordEvent(y, line)
  BY RunLineRecords
<1> HIDE DEF x, y
<1> DEFINE v == RecordEvent(x, line)
           w == RecordEvent(y, line)
<1>4. /\ v.host = x.host /\ v.initial = x.initial /\ v.hints = x.hints /\ v.hintCost = x.hintCost
      /\ v.answers = x.answers /\ v.started = x.started /\ v.submittedAt = x.submittedAt
  BY <1>1 DEF Session, RecordEvent
<1>5. /\ w.host = y.host /\ w.initial = y.initial /\ w.hints = y.hints /\ w.hintCost = y.hintCost
      /\ w.answers = y.answers /\ w.started = y.started /\ w.submittedAt = y.submittedAt
  BY <1>1 DEF Session, RecordEvent
<1> HIDE DEF v, w
<1>6. Alike(v, w, d) /\ Timely(w)
  BY <1>2, <1>4, <1>5 DEF Alike, Timely
<1>7. b.started <= y.host.clock
  BY <1>1, <1>2 DEF Timely, Fixed
<1>8. QED
  BY <1>3, <1>6, <1>7 DEF v, w, y

LEMMA RerunEmpty ==
  ASSUME NEW seed \in Int, pkg \in Packages
  PROVE  Rerun(seed, <<>>) = NewSession(seed)
<1> DEFINE none == <<>>
<1>1. none \in Seq(Event) /\ Len(none) = 0
  OBVIOUS
<1> HIDE DEF none
<1>2. PICK m \in [0 .. Len(none) -> Session] : m[0] = NewSession(seed) /\ Rerun(seed, none) = m[Len(none)]
  BY <1>1, RerunMade
<1>3. QED
  BY <1>1, <1>2 DEF none

LEMMA RerunAppend ==
  ASSUME NEW seed \in Int, pkg \in Packages, NEW q \in Seq(Event), NEW e \in Event
  PROVE  Rerun(seed, Append(q, e)) = RunLine(Rerun(seed, q), e.line)
<1> DEFINE n == Len(q)
           r == Append(q, e)
<1>1. r \in Seq(Event) /\ Len(r) = n + 1 /\ r[n + 1] = e /\ n \in Nat /\ \A i \in 1 .. n : r[i] = q[i]
  OBVIOUS
<1>2. PICK p \in [0 .. n -> Session] :
        /\ p[0] = NewSession(seed)
        /\ \A i \in 1 .. n : p[i] = RunLine(p[i - 1], q[i].line)
        /\ Rerun(seed, q) = p[n]
  BY RerunMade
<1> HIDE DEF r
<1>3. PICK m \in [0 .. Len(r) -> Session] :
        /\ m[0] = NewSession(seed)
        /\ \A i \in 1 .. Len(r) : m[i] = RunLine(m[i - 1], r[i].line)
        /\ Rerun(seed, r) = m[Len(r)]
  BY <1>1, RerunMade
<1> HIDE DEF n
<1> DEFINE T == {i \in 0 .. n : m[i] = p[i]}
<1>4. 0 \in T
  BY <1>1, <1>2, <1>3
<1>5. ASSUME NEW i \in 1 .. n, i - 1 \in T PROVE i \in T
  <2>1. i \in 0 .. n /\ i \in 1 .. n + 1 /\ i \in 1 .. Len(r)
    BY <1>1
  <2>2. m[i] = RunLine(m[i - 1], r[i].line) /\ p[i] = RunLine(p[i - 1], q[i].line)
    BY <1>2, <1>3, <2>1
  <2>3. m[i - 1] = p[i - 1] /\ r[i] = q[i]
    BY <1>1, <1>5
  <2>4. QED
    BY <2>1, <2>2, <2>3
<1>6. \A i \in 1 .. n : i - 1 \in T => i \in T
  BY <1>5
<1> HIDE DEF T
<1>7. m[n] = p[n]
  <2>1. \A i \in 0 .. n : i \in T
    BY <1>1, <1>4, <1>6, Climb
  <2>2. n \in 0 .. n
    BY <1>1
  <2>3. n \in T
    BY <2>1, <2>2
  <2>4. QED
    BY <2>3 DEF T
<1>8. n + 1 \in 1 .. Len(r) /\ (n + 1) - 1 = n
  BY <1>1
<1>9. m[n + 1] = RunLine(m[n], r[n + 1].line)
  <2>1. m[n + 1] = RunLine(m[(n + 1) - 1], r[n + 1].line)
    BY <1>3, <1>8
  <2>2. QED
    BY <1>8, <2>1
<1>10. QED
  BY <1>1, <1>2, <1>3, <1>7, <1>9 DEF r

LEMMA RerunSession ==
  ASSUME NEW seed \in Int, pkg \in Packages, NEW q \in Seq(Event)
  PROVE  Rerun(seed, q) \in Session
  BY RerunGood

LEMMA NewAlike ==
  ASSUME pkg \in Packages, NEW t \in Int, NEW d \in Int, Never < t
  PROVE  Alike(NewSession(t + d), NewSession(t), d) /\ Timely(NewSession(t))
<1>1. Later(NewState(t + d), NewState(t), d)
  BY LaterNewState
<1>2. NewState(t).clock = t
  BY NewStateClock
<1>3. Alike(NewSession(t + d), NewSession(t), d)
  BY <1>1 DEF NewSession, Alike
<1>4. Timely(NewSession(t))
  BY <1>2 DEF NewSession, Timely
<1>5. QED
  BY <1>3, <1>4

-----------------------------------------------------------------------------
\* The package does not change, and with it nothing that reads it

LEMMA StartFrame ==
  ASSUME pkg' = pkg, NEW CONSTANT h, NEW CONSTANT u
  PROVE  StartService(h, u)' = StartService(h, u)
  BY DEF StartService

LEMMA UnitFrame ==
  ASSUME pkg' = pkg, NEW CONSTANT h, NEW CONSTANT c, NEW CONSTANT u
  PROVE  Unit(h, c, u)' = Unit(h, c, u)
<1> DEFINE y == StopService(h, u)
<1>1. StartService(h, u)' = StartService(h, u)
  BY StartFrame
<1>2. StartService(y.host, u)' = StartService(y.host, u)
  BY StartFrame
<1>3. CASE c.verb = "restart"
  BY <1>2, <1>3 DEF Unit, Then
<1>4. CASE c.verb # "restart"
  BY <1>1, <1>4 DEF Unit, Then
<1>5. QED
  BY <1>3, <1>4

LEMMA SystemctlFrame ==
  ASSUME pkg' = pkg, NEW CONSTANT h, NEW CONSTANT c
  PROVE  Systemctl(h, c)' = Systemctl(h, c)
<1> DEFINE n == Len(c.units)
           F(m) == [i \in 0 .. n |-> IF i = 0 THEN Did(h, TRUE)
                      ELSE IF m[i - 1].ok THEN Unit(m[i - 1].host, c, c.units[i]) ELSE m[i - 1]]
           Made == CHOOSE m : m = F(m)
<1>1. \A x, u : Unit(x, c, u)' = Unit(x, c, u)
  BY UnitFrame
<1>2. ASSUME NEW CONSTANT m PROVE F(m)' = F(m)
  BY <1>1
<1>3. \A m : F(m)' = F(m)
  BY <1>2
<1> HIDE DEF F
<1>4. Made' = Made
  BY <1>3, Zenon
<1> HIDE DEF Made
<1>5. Systemctl(h, c) = Made[n]
  BY DEF Systemctl, Over, Then, Made, F
<1>6. Systemctl(h, c)' = (Made')[n]
  BY DEF Systemctl, Over, Then, Made, F
<1>7. QED
  BY <1>4, <1>5, <1>6

LEMMA FirewallFrame ==
  ASSUME pkg' = pkg, NEW CONSTANT h, NEW CONSTANT c
  PROVE  AllowFirewall(h, c)' = AllowFirewall(h, c)
  BY DEF AllowFirewall

LEMMA ApplyFrame ==
  ASSUME pkg' = pkg, NEW CONSTANT h
  PROVE  Apply(h)' = Apply(h)
  BY DEF Apply

LEMMA HintFrame ==
  ASSUME pkg' = pkg, NEW CONSTANT sess, NEW CONSTANT c
  PROVE  Hint(sess, c)' = Hint(sess, c)
  BY DEF Hint

LEMMA ExecuteFrame ==
  ASSUME pkg' = pkg, NEW CONSTANT sess, NEW CONSTANT c
  PROVE  Execute(sess, c)' = Execute(sess, c)
<1> DEFINE h == sess.host
<1>1. /\ Systemctl(h, c)' = Systemctl(h, c) /\ AllowFirewall(h, c)' = AllowFirewall(h, c)
      /\ Hint(sess, c)' = Hint(sess, c)
  BY SystemctlFrame, FirewallFrame, HintFrame
<1>2. QED
  BY <1>1 DEF Execute

LEMMA StatementFrame ==
  ASSUME pkg' = pkg, NEW CONSTANT acc, NEW CONSTANT st
  PROVE  Statement(acc, st)' = Statement(acc, st)
<1> DEFINE x == acc.s
           c == st.cmd
<1>1. Execute(x, c)' = Execute(x, c)
  BY ExecuteFrame
<1>2. QED
  BY <1>1 DEF Statement

LEMMA StatementsFrame ==
  ASSUME pkg' = pkg, NEW CONSTANT base, NEW CONSTANT seq
  PROVE  Over(Statement, base, seq)' = Over(Statement, base, seq)
<1> DEFINE n == Len(seq)
           F(m) == [i \in 0 .. n |-> IF i = 0 THEN base ELSE Statement(m[i - 1], seq[i])]
           Made == CHOOSE m : m = F(m)
<1>1. \A x, y : Statement(x, y)' = Statement(x, y)
  BY StatementFrame
<1>2. ASSUME NEW CONSTANT m PROVE F(m)' = F(m)
  BY <1>1
<1>3. \A m : F(m)' = F(m)
  BY <1>2
<1> HIDE DEF F
<1>4. Made' = Made
  BY <1>3, Zenon
<1> HIDE DEF Made
<1>5. Over(Statement, base, seq) = Made[n]
  BY DEF Over, Made, F
<1>6. Over(Statement, base, seq)' = (Made')[n]
  BY DEF Over, Made, F
<1>7. QED
  BY <1>4, <1>5, <1>6

LEMMA RanFrame ==
  ASSUME pkg' = pkg, NEW CONSTANT sess, NEW CONSTANT line
  PROVE  RunLine(sess, line)' = RunLine(sess, line)
<1> DEFINE base == [s |-> sess, stopped |-> FALSE]
           seq == line.statements
           ran == Over(Statement, base, seq).s
           ruled == [ran EXCEPT !.host = Advance(Apply(@))]
<1>1. ran' = ran
  BY StatementsFrame
<1>2. RunLine(sess, line) = IF ~line.parsed THEN RecordEvent(sess, line) ELSE RecordEvent(ruled, line)
  BY DEF RunLine
<1>3. RunLine(sess, line)' = IF ~line.parsed THEN RecordEvent(sess, line) ELSE RecordEvent(ruled', line)
  BY DEF RunLine
<1>4. \A x : Apply(x)' = Apply(x)
  BY ApplyFrame
<1>5. \A x : [x EXCEPT !.host = Advance(Apply(@))]' = [x EXCEPT !.host = Advance(Apply(@))]
  BY <1>4
<1>6. ruled' = ruled
  BY <1>1, <1>5
<1>7. QED
  BY <1>2, <1>3, <1>6

LEMMA NewSessionFrame ==
  ASSUME pkg' = pkg, NEW CONSTANT seed
  PROVE  NewSession(seed)' = NewSession(seed)
<1>1. NewState(seed)' = NewState(seed)
  BY DEF NewState
<1>2. QED
  BY <1>1 DEF NewSession

LEMMA RerunFrame ==
  ASSUME pkg' = pkg, NEW CONSTANT seed, NEW CONSTANT events
  PROVE  Rerun(seed, events)' = Rerun(seed, events)
<1> DEFINE n == Len(events)
           base == NewSession(seed)
           F(m) == [i \in 0 .. n |-> IF i = 0 THEN base ELSE RunLine(m[i - 1], events[i].line)]
           Made == CHOOSE m : m = F(m)
<1>1. \A x, y : RunLine(x, y)' = RunLine(x, y)
  BY RanFrame
<1>2. base' = base
  BY NewSessionFrame
<1>3. ASSUME NEW CONSTANT m PROVE F(m)' = F(m)
  BY <1>1, <1>2
<1>4. \A m : F(m)' = F(m)
  BY <1>3
<1> HIDE DEF F
<1>5. Made' = Made
  BY <1>4, Zenon
<1> HIDE DEF Made
<1>6. Rerun(seed, events) = Made[n]
  BY DEF Rerun, Over, Made, F
<1>7. Rerun(seed, events)' = (Made')[n]
  BY DEF Rerun, Over, Made, F
<1>8. QED
  BY <1>5, <1>6, <1>7

-----------------------------------------------------------------------------
\* The evidence is the session

(* Whatever start is assumed, the replayed evidence is the session, all    *)
(* times moved by as much as the start; and no event is before the start.  *)
Reproduced == \A seed \in Int : Alike(Rerun(seed, s.chain), s, seed - s.started)

ReplayInv ==
  /\ LabInv
  /\ Timely(s)
  /\ Seed - MaxDrift <= s.started
  /\ s.chain # <<>> => s.started <= s.chain[1].time
  /\ Reproduced

LEMMA StartAfterNever ==
  ASSUME ReplayInv
  PROVE  StartOf(s.chain) \in Int /\ Never < StartOf(s.chain)
<1>1. s.chain \in Seq(Event) /\ s.started \in Int
  BY DEF ReplayInv, LabInv, Session
<1>2. StartOf(s.chain) \in Int
  BY <1>1, StartOfType
<1>3. CASE s.chain = <<>>
  BY <1>3, LabAssumption DEF StartOf, Never
<1>4. CASE s.chain # <<>>
  <2>1. s.chain[1] \in Event
    BY <1>1, <1>4
  <2>2. s.chain[1].time \in Int /\ StartOf(s.chain) = s.chain[1].time - 1
    BY <1>4, <2>1 DEF Event, StartOf
  <2>3. Seed - MaxDrift <= s.started /\ s.started <= s.chain[1].time
    BY <1>4 DEF ReplayInv
  <2>4. QED
    BY <1>1, <2>2, <2>3, LabAssumption DEF Never
<1>5. QED
  BY <1>2, <1>3, <1>4

LEMMA ReplayStarts == LabInit => ReplayInv
<1> SUFFICES ASSUME LabInit PROVE ReplayInv
  OBVIOUS
<1>1. pkg \in Packages /\ s = NewSession(Seed) /\ Seed \in Int /\ MaxDrift \in Nat /\ Never < Seed
  BY LabAssumption DEF LabInit, Never
<1>2. LabInv
  BY InitKeeps
<1>3. s.chain = <<>> /\ s.started = Seed
  BY <1>1 DEF NewSession
<1>4. ASSUME NEW seed \in Int PROVE Alike(Rerun(seed, s.chain), s, seed - s.started)
  <2> DEFINE d == seed - Seed
  <2>1. d \in Int /\ Seed + d = seed
    BY <1>1
  <2>2. Alike(NewSession(Seed + d), NewSession(Seed), d)
    BY <1>1, <2>1, NewAlike
  <2>3. QED
    BY <1>1, <1>3, <2>1, <2>2, RerunEmpty
<1>5. Timely(s)
  <2>1. 0 \in Int
    OBVIOUS
  <2>2. QED
    BY <1>1, <2>1, NewAlike
<1>6. Seed - MaxDrift <= s.started
  BY <1>1, <1>3
<1>7. QED
  BY <1>2, <1>3, <1>4, <1>5, <1>6 DEF ReplayInv, Reproduced

LEMMA LineReproduces ==
  ASSUME ReplayInv, NEW line \in LabLine, Enter(line), LabInv'
  PROVE  ReplayInv'
<1>1. pkg \in Packages /\ s \in Session /\ s' = RunLine(s, line) /\ pkg' = pkg /\ Timely(s)
  BY DEF ReplayInv, LabInv, Enter
<1> DEFINE r == RunLine(s, line)
           e == [line |-> line, time |-> Ran(s, line).host.clock]
<1>2. r.chain = Append(s.chain, e) /\ r.started = s.started
  BY <1>1, RunLineGood
<1>3. e \in Event /\ s.chain \in Seq(Event) /\ s.started \in Int
  <2>1. Ran(s, line).host.clock \in Int
    BY <1>1, RanGood, HostType DEF Session, GoodHost
  <2>2. QED
    BY <1>1, <2>1 DEF Event, Session
<1>4. ASSUME NEW seed \in Int
      PROVE  /\ Alike(Rerun(seed, r.chain), r, seed - r.started)
             /\ Timely(r) /\ s.started <= e.time
  <2> DEFINE x == Rerun(seed, s.chain)
             d == seed - s.started
  <2>1. x \in Session /\ d \in Int
    BY <1>1, <1>3, RerunSession
  <2>2. Alike(x, s, d)
    BY DEF ReplayInv, Reproduced
  <2>3. Rerun(seed, r.chain) = RunLine(x, e.line) /\ e.line = line
    BY <1>1, <1>2, <1>3, RerunAppend
  <2> HIDE DEF x, d
  <2>4. Alike(RunLine(x, line), RunLine(s, line), d) /\ Timely(RunLine(s, line))
        /\ s.started <= Ran(s, line).host.clock
    BY <1>1, <2>1, <2>2, AlikeLine
  <2>5. QED
    BY <1>2, <2>3, <2>4 DEF d
<1>5. 0 \in Int
  OBVIOUS
<1>6. Timely(r) /\ s.started <= e.time
  BY <1>4, <1>5
<1> HIDE DEF r, e
<1>7. r.chain # <<>> => r.started <= r.chain[1].time
  <2>1. CASE s.chain = <<>>
    <3>1. r.chain[1] = e
      BY <1>2, <1>3, <2>1
    <3>2. QED
      BY <1>2, <1>6, <3>1
  <2>2. CASE s.chain # <<>>
    <3>1. r.chain[1] = s.chain[1]
      BY <1>2, <1>3, <2>2
    <3>2. QED
      BY <1>2, <2>2, <3>1 DEF ReplayInv
  <2>3. QED
    BY <2>1, <2>2
<1>8. s' = r
  BY <1>1 DEF r
<1>9. Reproduced'
  <2>1. ASSUME NEW CONSTANT seed \in Int PROVE Alike(Rerun(seed, s.chain), s, seed - s.started)'
    <3>1. \A q : Rerun(seed, q)' = Rerun(seed, q)
      BY <1>1, RerunFrame
    <3>2. Rerun(seed, s.chain)' = Rerun(seed, r.chain)
      BY <1>8, <3>1
    <3>3. QED
      BY <1>4, <1>8, <3>2
  <2>2. QED
    BY <2>1 DEF Reproduced
<1>10. Seed - MaxDrift <= r.started
  BY <1>2 DEF ReplayInv
<1>11. QED
  BY <1>6, <1>7, <1>8, <1>9, <1>10 DEF ReplayInv

LEMMA RestartReproduces ==
  ASSUME ReplayInv, Restart, LabInv'
  PROVE  ReplayInv'
<1>1. pkg \in Packages /\ s \in Session /\ s.initial = NewState(s.started) /\ pkg' = pkg /\ Timely(s)
  BY DEF ReplayInv, LabInv, Restart
<1> DEFINE t == s.started
<1>2. t \in Int /\ Never < t /\ s.initial.clock = t /\ Seed - MaxDrift <= t
  BY <1>1 DEF Session, Timely, ReplayInv
<1> HIDE DEF t
<1>3. s' = NewSession(t)
  <2>1. s' = [s EXCEPT !.host = s.initial, !.chain = <<>>, !.hints = {}, !.hintCost = 0,
                      !.answers = 0, !.submittedAt = Never, !.started = t]
    BY <1>2 DEF Restart
  <2>2. s' = [host |-> s.initial, initial |-> s.initial, chain |-> <<>>, hints |-> {}, hintCost |-> 0,
              answers |-> 0, submittedAt |-> Never, started |-> t]
    BY <1>1, <2>1 DEF Session
  <2>3. QED
    BY <1>1, <2>2 DEF NewSession, t
<1> DEFINE r == NewSession(t)
<1>4. r.chain = <<>> /\ r.started = t
  BY DEF NewSession
<1>5. ASSUME NEW seed \in Int PROVE Alike(Rerun(seed, <<>>), r, seed - t) /\ Timely(r)
  <2> DEFINE d == seed - t
  <2>1. d \in Int /\ t + d = seed
    BY <1>2
  <2>2. Alike(NewSession(t + d), NewSession(t), d) /\ Timely(r)
    BY <1>1, <1>2, <2>1, NewAlike
  <2>3. QED
    BY <1>1, <2>1, <2>2, RerunEmpty
<1>6. 0 \in Int
  OBVIOUS
<1>7. Timely(r)
  BY <1>5, <1>6
<1> HIDE DEF r
<1>8. s' = r
  BY <1>3 DEF r
<1>9. Reproduced'
  <2>1. ASSUME NEW CONSTANT seed \in Int PROVE Alike(Rerun(seed, s.chain), s, seed - s.started)'
    <3>1. \A q : Rerun(seed, q)' = Rerun(seed, q)
      BY <1>1, RerunFrame
    <3>2. Rerun(seed, s.chain)' = Rerun(seed, <<>>)
      BY <1>4, <1>8, <3>1
    <3>3. QED
      BY <1>4, <1>5, <1>8, <3>2
  <2>2. QED
    BY <2>1 DEF Reproduced
<1>10. QED
  BY <1>2, <1>4, <1>7, <1>8, <1>9 DEF ReplayInv

\* Sessions alike to one are alike.
LEMMA AlikeBoth ==
  ASSUME NEW a \in Session, NEW b \in Session, NEW c \in Session, NEW d \in Int, NEW e \in Int,
         Alike(a, b, d), Alike(c, b, e), Timely(b), Never < b.started + e
  PROVE  Alike(a, c, d - e) /\ Timely(c)
<1>1. ASSUME NEW x \in Session
      PROVE  x.host.clock \in Int /\ x.initial.clock \in Int /\ x.started \in Int /\ x.submittedAt \in Int
  BY HostType DEF Session, GoodHost
<1>2. /\ a.host.clock \in Int /\ a.initial.clock \in Int /\ a.started \in Int /\ a.submittedAt \in Int
      /\ b.host.clock \in Int /\ b.initial.clock \in Int /\ b.started \in Int /\ b.submittedAt \in Int
      /\ c.host.clock \in Int /\ c.initial.clock \in Int /\ c.started \in Int /\ c.submittedAt \in Int
      /\ Never \in Int
  BY <1>1 DEF Never
<1>3. Later(a.host, c.host, d - e)
  BY <1>2 DEF Alike, Later
<1>4. Later(a.initial, c.initial, d - e)
  BY <1>2 DEF Alike, Later
<1>5. /\ c.started = b.started + e /\ c.host.clock = b.host.clock + e /\ c.initial.clock = b.initial.clock + e
      /\ a.started = b.started + d
      /\ a.submittedAt = IF b.submittedAt = Never THEN Never ELSE b.submittedAt + d
      /\ c.submittedAt = IF b.submittedAt = Never THEN Never ELSE b.submittedAt + e
  BY DEF Alike, Later
<1>6. /\ Never < b.started /\ b.started <= b.host.clock /\ b.initial.clock = b.started
      /\ b.submittedAt = Never \/ b.started <= b.submittedAt
  BY DEF Timely
<1>7. a.started = c.started + (d - e)
  BY <1>2, <1>5
<1>8. a.submittedAt = IF c.submittedAt = Never THEN Never ELSE c.submittedAt + (d - e)
  BY <1>2, <1>5, <1>6
<1>9. Timely(c)
  BY <1>2, <1>5, <1>6 DEF Timely
<1>10. QED
  BY <1>3, <1>4, <1>7, <1>8, <1>9 DEF Alike

\* The replay of a session is alike to it.
LEMMA ReplayAlike ==
  ASSUME ReplayInv
  PROVE  LET t == StartOf(s.chain) IN
         /\ t \in Int /\ Never < t
         /\ Replay(s.chain) \in Session /\ Replay(s.chain).chain = s.chain /\ Replay(s.chain).started = t
         /\ Alike(Replay(s.chain), s, t - s.started)
<1> DEFINE t == StartOf(s.chain)
           ran == Rerun(t, s.chain)
           x == Replay(s.chain)
<1>1. pkg \in Packages /\ s \in Session /\ s.chain \in Seq(Event)
  BY DEF ReplayInv, LabInv, Session
<1>2. t \in Int /\ Never < t
  BY StartAfterNever
<1>3. x \in Session /\ x.chain = s.chain /\ x.started = t
  BY <1>1, ReplayGood
<1>4. ran \in Session /\ Alike(ran, s, t - s.started)
  BY <1>1, <1>2, RerunSession DEF ReplayInv, Reproduced
<1>5. x = [ran EXCEPT !.chain = s.chain]
  BY DEF Replay
<1> HIDE DEF ran, x
<1>6. /\ x.host = ran.host /\ x.initial = ran.initial /\ x.hints = ran.hints /\ x.hintCost = ran.hintCost
      /\ x.answers = ran.answers /\ x.started = ran.started /\ x.submittedAt = ran.submittedAt
  BY <1>4, <1>5 DEF Session
<1>7. Alike(x, s, t - s.started)
  BY <1>4, <1>6 DEF Alike
<1>8. QED
  BY <1>2, <1>3, <1>7 DEF x

LEMMA RecoverReproduces ==
  ASSUME ReplayInv, RecoverSession, LabInv'
  PROVE  ReplayInv'
<1> DEFINE t == StartOf(s.chain)
           r == Replay(s.chain)
<1>1. pkg \in Packages /\ s \in Session /\ s.chain \in Seq(Event) /\ Timely(s) /\ s.started \in Int
      /\ s' = r /\ pkg' = pkg /\ Seed - MaxDrift <= s'.started
  BY DEF ReplayInv, LabInv, Session, RecoverSession
<1>2. /\ t \in Int /\ Never < t /\ r \in Session /\ r.chain = s.chain /\ r.started = t
      /\ Alike(r, s, t - s.started)
  BY ReplayAlike
<1> HIDE DEF r
<1>3. s.chain # <<>> => t <= s.chain[1].time
  <2>1. CASE s.chain # <<>>
    <3>1. s.chain[1] \in Event
      BY <1>1, <2>1
    <3>2. s.chain[1].time \in Int /\ t = s.chain[1].time - 1
      BY <2>1, <3>1 DEF Event, StartOf
    <3>3. QED
      BY <3>2
  <2>2. QED
    BY <2>1
<1> HIDE DEF t
<1>4. ASSUME NEW seed \in Int PROVE Alike(Rerun(seed, s.chain), r, seed - t) /\ Timely(r)
  <2> DEFINE x == Rerun(seed, s.chain)
             d == seed - s.started
             e == t - s.started
  <2>1. x \in Session /\ d \in Int /\ e \in Int /\ d - e = seed - t /\ s.started + e = t
    BY <1>1, <1>2, RerunSession
  <2>2. Alike(x, s, d)
    BY DEF ReplayInv, Reproduced
  <2>3. Alike(r, s, e)
    BY <1>2
  <2> HIDE DEF x, d, e
  <2>4. Alike(x, r, d - e) /\ Timely(r)
    BY <1>1, <1>2, <2>1, <2>2, <2>3, AlikeBoth
  <2>5. QED
    BY <2>1, <2>4 DEF x
<1>5. 0 \in Int
  OBVIOUS
<1>6. Timely(r)
  BY <1>4, <1>5
<1>7. Reproduced'
  <2>1. ASSUME NEW CONSTANT seed \in Int PROVE Alike(Rerun(seed, s.chain), s, seed - s.started)'
    <3>1. \A q : Rerun(seed, q)' = Rerun(seed, q)
      BY <1>1, RerunFrame
    <3>2. Rerun(seed, s.chain)' = Rerun(seed, s.chain)
      BY <1>1, <1>2, <3>1
    <3>3. QED
      BY <1>1, <1>2, <1>4, <3>2
  <2>2. QED
    BY <2>1 DEF Reproduced
<1>8. QED
  BY <1>1, <1>2, <1>3, <1>6, <1>7 DEF ReplayInv

LEMMA ReplayKeeps == ReplayInv /\ [LabNext]_labVars => ReplayInv'
<1> SUFFICES ASSUME ReplayInv, [LabNext]_labVars PROVE ReplayInv'
  OBVIOUS
<1>1. LabInv /\ LabInv'
  BY StepKeeps DEF ReplayInv
<1>2. ASSUME UNCHANGED labVars PROVE ReplayInv'
  <2>1. s' = s /\ pkg' = pkg
    BY <1>2 DEF labVars
  <2>2. Reproduced'
    <3>1. ASSUME NEW CONSTANT seed \in Int PROVE Alike(Rerun(seed, s.chain), s, seed - s.started)'
      <4>1. \A q : Rerun(seed, q)' = Rerun(seed, q)
        BY <2>1, RerunFrame
      <4>2. Rerun(seed, s.chain)' = Rerun(seed, s.chain)
        BY <2>1, <4>1
      <4>3. Alike(Rerun(seed, s.chain), s, seed - s.started)
        BY DEF ReplayInv, Reproduced
      <4>4. QED
        BY <2>1, <4>2, <4>3
    <3>2. QED
      BY <3>1 DEF Reproduced
  <2>3. QED
    BY <1>1, <2>1, <2>2 DEF ReplayInv
<1>3. QED
  BY <1>1, <1>2, StepKinds, LineReproduces, RestartReproduces, RecoverReproduces

(* A session recovered from its evidence is the session it was, all times  *)
(* counted from its start, whatever was entered, restarted and recovered   *)
(* before and whatever start the recovery has to assume.                   *)
THEOREM ReplayAlwaysReproduces == LabSpec => []ReplayReproduces
<1>1. ASSUME NEW a \in Session, NEW b \in Session, NEW d \in Int,
             Alike(a, b, d), Timely(b), Never < a.started, a.chain = b.chain
      PROVE  Relative(a) = Relative(b)
  <2>1. ASSUME NEW x \in Session
        PROVE  /\ x.host \in Host /\ x.initial \in Host /\ x.started \in Int /\ x.submittedAt \in Int
               /\ x.host.clock \in Int /\ x.initial.clock \in Int
    BY HostType DEF Session, GoodHost
  <2> DEFINE From(x) ==
        [host |-> [x.host EXCEPT !.clock = x.host.clock - x.started],
         initial |-> [x.initial EXCEPT !.clock = x.initial.clock - x.started],
         chain |-> x.chain, hints |-> x.hints, hintCost |-> x.hintCost, answers |-> x.answers,
         submittedAt |-> IF x.submittedAt = Never THEN x.submittedAt ELSE x.submittedAt - x.started,
         started |-> 0]
  <2>2. ASSUME NEW x \in Session PROVE Relative(x) = From(x)
    <3> DEFINE v == [x.host EXCEPT !.clock = x.host.clock - x.started]
               w == [x.initial EXCEPT !.clock = x.initial.clock - x.started]
               k == IF x.submittedAt = Never THEN x.submittedAt ELSE x.submittedAt - x.started
               y == [x EXCEPT !.host = v]
    <3>1. y.initial = x.initial
      BY DEF Session
    <3>2. Relative(x) = [[[[x EXCEPT !.host = v] EXCEPT
                            !.initial = [y.initial EXCEPT !.clock = x.initial.clock - x.started]] EXCEPT
                            !.started = 0] EXCEPT !.submittedAt = k]
      BY DEF Relative
    <3>3. Relative(x) = [x EXCEPT !.host = v, !.initial = w, !.started = 0, !.submittedAt = k]
      BY <3>1, <3>2
    <3> HIDE DEF v, w, k
    <3>4. Relative(x) = [host |-> v, initial |-> w, chain |-> x.chain, hints |-> x.hints,
                         hintCost |-> x.hintCost, answers |-> x.answers, submittedAt |-> k, started |-> 0]
      BY <3>3 DEF Session
    <3>5. QED
      BY <3>4 DEF v, w, k
  <2>3. ASSUME NEW g \in Host, NEW h \in Host, NEW t \in Int, Later(g, h, d)
        PROVE  [g EXCEPT !.clock = g.clock - (t + d)] = [h EXCEPT !.clock = h.clock - t]
    <3>1. g.clock \in Int /\ h.clock \in Int
      BY HostType
    <3>2. g.clock - (t + d) = h.clock - t
      BY <2>3, <3>1 DEF Later
    <3>3. QED
      BY <2>3, <3>2 DEF Later, Host
  <2>4. Later(a.host, b.host, d) /\ Later(a.initial, b.initial, d) /\ a.started = b.started + d
    BY <1>1 DEF Alike
  <2>5. /\ [a.host EXCEPT !.clock = a.host.clock - a.started] = [b.host EXCEPT !.clock = b.host.clock - b.started]
        /\ [a.initial EXCEPT !.clock = a.initial.clock - a.started]
             = [b.initial EXCEPT !.clock = b.initial.clock - b.started]
    <3> DEFINE t == b.started
    <3>1. t \in Int /\ a.host \in Host /\ b.host \in Host /\ a.initial \in Host /\ b.initial \in Host
      BY <2>1
    <3> HIDE DEF t
    <3>2. /\ [a.host EXCEPT !.clock = a.host.clock - (t + d)] = [b.host EXCEPT !.clock = b.host.clock - t]
          /\ [a.initial EXCEPT !.clock = a.initial.clock - (t + d)] = [b.initial EXCEPT !.clock = b.initial.clock - t]
      BY <2>3, <2>4, <3>1
    <3>3. QED
      BY <2>4, <3>2 DEF t
  <2>6. (IF a.submittedAt = Never THEN a.submittedAt ELSE a.submittedAt - a.started)
          = (IF b.submittedAt = Never THEN b.submittedAt ELSE b.submittedAt - b.started)
    <3>1. /\ a.started \in Int /\ a.submittedAt \in Int /\ b.started \in Int /\ b.submittedAt \in Int
          /\ Never \in Int
      BY <2>1 DEF Never
    <3>2. /\ a.started = b.started + d
          /\ a.submittedAt = IF b.submittedAt = Never THEN Never ELSE b.submittedAt + d
          /\ b.submittedAt = Never \/ b.started <= b.submittedAt
      BY <1>1 DEF Alike, Timely
    <3>3. QED
      BY <1>1, <3>1, <3>2
  <2>7. From(a) = From(b)
    BY <1>1, <2>5, <2>6 DEF Alike
  <2>8. QED
    BY <2>2, <2>7
<1>2. ReplayInv => ReplayReproduces
  <2> SUFFICES ASSUME ReplayInv PROVE ReplayReproduces
    OBVIOUS
  <2> DEFINE t == StartOf(s.chain)
             x == Replay(s.chain)
             d == t - s.started
  <2>1. /\ t \in Int /\ Never < t /\ x \in Session /\ x.chain = s.chain /\ x.started = t
        /\ Alike(x, s, d)
    BY ReplayAlike
  <2>2. s \in Session /\ s.started \in Int /\ Timely(s)
    BY DEF ReplayInv, LabInv, Session
  <2>3. d \in Int
    BY <2>1, <2>2
  <2> HIDE DEF t, x, d
  <2>4. Relative(x) = Relative(s)
    BY <1>1, <2>1, <2>2, <2>3
  <2>5. QED
    BY <2>4 DEF ReplayReproduces, x
<1>3. LabSpec => []ReplayInv
  BY ReplayStarts, ReplayKeeps, PTL DEF LabSpec
<1>4. QED
  BY <1>2, <1>3, PTL
-----------------------------------------------------------------------------
\* The score

\* The partial sums of a sequence of integers.
LEMMA SumMade ==
  ASSUME NEW n \in Nat, NEW a \in [1 .. n -> Int], Len(a) = n
  PROVE  \E t \in [0 .. n -> Int] :
           t[0] = 0 /\ (\A i \in 1 .. n : t[i] = t[i - 1] + a[i]) /\ Sum(a) = t[n]
<1> DEFINE Is(m) == m = [i \in 0 .. n |-> IF i = 0 THEN 0 ELSE m[i - 1] + a[i]]
           g == [i \in 1 .. n |-> [x \in Int |-> x + a[i]]]
           made == CHOOSE m : Is(m)
<1>1. g \in [1 .. n -> [Int -> Int]] /\ \A i \in 1 .. n : \A x \in Int : g[i][x] = x + a[i]
  OBVIOUS
<1> HIDE DEF g
<1>2. PICK f : Goes(f, Int, 0, n, g)
  <2>1. 0 \in Int
    OBVIOUS
  <2>2. QED
    BY <1>1, <2>1, GoesOn
<1>3. f \in [0 .. n -> Int] /\ f[0] = 0 /\ \A i \in 1 .. n : f[i] = f[i - 1] + a[i]
  <2>1. \A i \in 1 .. n : i - 1 \in 0 .. n
    OBVIOUS
  <2>2. QED
    BY <1>1, <1>2, <2>1 DEF Goes
<1>4. Is(f)
  <2>1. \A i \in 0 .. n : f[i] = IF i = 0 THEN 0 ELSE f[i - 1] + a[i]
    <3>1. \A i \in 0 .. n : i = 0 \/ i \in 1 .. n
      OBVIOUS
    <3>2. QED
      BY <1>3, <3>1
  <2>2. QED
    BY <1>3, <2>1
<1>5. Is(made)
  BY <1>4
<1>6. Sum(a) = made[n]
  BY DEF Sum, Over
<1> HIDE DEF made
<1>7. made[0] = 0 /\ \A i \in 1 .. n : made[i] = made[i - 1] + a[i]
  <2>1. \A i \in 0 .. n : made[i] = IF i = 0 THEN 0 ELSE made[i - 1] + a[i]
    BY <1>5
  <2>2. 0 \in 0 .. n /\ \A i \in 1 .. n : i \in 0 .. n /\ i # 0
    OBVIOUS
  <2>3. QED
    BY <2>1, <2>2
<1>8. \A i \in 0 .. n : made[i] \in Int
  <2> DEFINE T == {i \in 0 .. n : made[i] \in Int}
  <2>1. 0 \in T /\ \A i \in 1 .. n : i - 1 \in T => i \in T
    BY <1>7
  <2> HIDE DEF T
  <2>2. \A i \in 0 .. n : i \in T
    BY <2>1, Climb
  <2>3. QED
    BY <2>2 DEF T
<1>9. made \in [0 .. n -> Int]
  BY <1>5, <1>8
<1>10. QED
  BY <1>6, <1>7, <1>9

\* A sum of zeros.
LEMMA SumZero ==
  ASSUME NEW n \in Nat, NEW a \in [1 .. n -> Int], Len(a) = n, \A i \in 1 .. n : a[i] = 0
  PROVE  Sum(a) = 0
<1>1. PICK t \in [0 .. n -> Int] :
        t[0] = 0 /\ (\A i \in 1 .. n : t[i] = t[i - 1] + a[i]) /\ Sum(a) = t[n]
  BY SumMade
<1> DEFINE T == {i \in 0 .. n : t[i] = 0}
<1>2. 0 \in T /\ \A i \in 1 .. n : i - 1 \in T => i \in T
  BY <1>1
<1> HIDE DEF T
<1>3. n \in T
  <2>1. \A i \in 0 .. n : i \in T
    BY <1>2, Climb
  <2>2. QED
    BY <2>1
<1>4. QED
  BY <1>1, <1>3 DEF T

\* One number more or less moves the sum by as much.
LEMMA SumChange ==
  ASSUME NEW n \in Nat, NEW a \in [1 .. n -> Int], NEW b \in [1 .. n -> Int], Len(a) = n, Len(b) = n,
         NEW k \in 1 .. n, \A i \in 1 .. n : i # k => b[i] = a[i]
  PROVE  Sum(b) = Sum(a) + (b[k] - a[k])
<1>1. PICK t \in [0 .. n -> Int] :
        t[0] = 0 /\ (\A i \in 1 .. n : t[i] = t[i - 1] + a[i]) /\ Sum(a) = t[n]
  BY SumMade
<1>2. PICK w \in [0 .. n -> Int] :
        w[0] = 0 /\ (\A i \in 1 .. n : w[i] = w[i - 1] + b[i]) /\ Sum(b) = w[n]
  BY SumMade
<1> DEFINE d == b[k] - a[k]
           T == {i \in 0 .. n : w[i] = t[i] + (IF k <= i THEN d ELSE 0)}
<1>3. d \in Int /\ b[k] = a[k] + d
  OBVIOUS
<1> HIDE DEF d
<1>4. 0 \in T
  BY <1>1, <1>2
<1>5. ASSUME NEW i \in 1 .. n, i - 1 \in T PROVE i \in T
  <2>1. t[i - 1] \in Int /\ w[i - 1] \in Int /\ a[i] \in Int /\ b[i] \in Int
    BY <1>1, <1>2
  <2>2. t[i] = t[i - 1] + a[i] /\ w[i] = w[i - 1] + b[i]
    BY <1>1, <1>2
  <2>3. w[i - 1] = t[i - 1] + (IF k <= i - 1 THEN d ELSE 0)
    BY <1>5
  <2>4. w[i] = t[i] + (IF k <= i THEN d ELSE 0)
    <3>1. CASE i = k
      <4>1. ~(k <= i - 1) /\ k <= i /\ b[i] = a[i] + d
        BY <1>3, <3>1
      <4>2. w[i - 1] = t[i - 1]
        BY <2>1, <2>3, <4>1
      <4> DEFINE p == t[i - 1]
                 x == a[i]
      <4>3. p \in Int /\ x \in Int /\ d \in Int /\ t[i] = p + x /\ w[i] = p + (x + d)
        BY <1>3, <2>1, <2>2, <4>1, <4>2
      <4> HIDE DEF p, x
      <4>4. w[i] = t[i] + d
        BY <4>3
      <4>5. QED
        BY <4>1, <4>4
    <3>2. CASE k < i
      <4>1. b[i] = a[i] /\ k <= i - 1 /\ k <= i
        BY <3>2
      <4>2. w[i - 1] = t[i - 1] + d
        BY <2>3, <4>1
      <4>3. QED
        BY <1>3, <2>1, <2>2, <4>1, <4>2
    <3>3. CASE i < k
      BY <1>3, <2>1, <2>2, <2>3, <3>3
    <3>4. QED
      BY <3>1, <3>2, <3>3
  <2>5. QED
    BY <2>4
<1>6. \A i \in 1 .. n : i - 1 \in T => i \in T
  BY <1>5
<1> HIDE DEF T
<1>7. n \in T
  <2>1. \A i \in 0 .. n : i \in T
    BY <1>4, <1>6, Climb
  <2>2. QED
    BY <2>1
<1>8. QED
  BY <1>1, <1>2, <1>7 DEF T, d

\* What is nowhere more has no larger sum, and is less by the lack at any place.
LEMMA SumLess ==
  ASSUME NEW n \in Nat, NEW a \in [1 .. n -> Int], NEW b \in [1 .. n -> Int], Len(a) = n, Len(b) = n,
         \A i \in 1 .. n : a[i] <= b[i]
  PROVE  /\ Sum(a) \in Int /\ Sum(b) \in Int /\ Sum(a) <= Sum(b)
         /\ \A k \in 1 .. n : Sum(a) + (b[k] - a[k]) <= Sum(b)
<1>1. PICK t \in [0 .. n -> Int] :
        t[0] = 0 /\ (\A i \in 1 .. n : t[i] = t[i - 1] + a[i]) /\ Sum(a) = t[n]
  BY SumMade
<1>2. PICK w \in [0 .. n -> Int] :
        w[0] = 0 /\ (\A i \in 1 .. n : w[i] = w[i - 1] + b[i]) /\ Sum(b) = w[n]
  BY SumMade
<1> DEFINE T == {i \in 0 .. n : t[i] <= w[i] /\ \A k \in 1 .. i : t[i] + (b[k] - a[k]) <= w[i]}
<1>3. 0 \in T
  BY <1>1, <1>2
<1>4. ASSUME NEW i \in 1 .. n, i - 1 \in T PROVE i \in T
  <2>1. t[i - 1] \in Int /\ w[i - 1] \in Int /\ a[i] \in Int /\ b[i] \in Int /\ a[i] <= b[i]
    BY <1>1, <1>2
  <2>2. t[i] = t[i - 1] + a[i] /\ w[i] = w[i - 1] + b[i]
    BY <1>1, <1>2
  <2>3. t[i - 1] <= w[i - 1] /\ \A k \in 1 .. i - 1 : t[i - 1] + (b[k] - a[k]) <= w[i - 1]
    BY <1>4
  <2>4. ASSUME NEW k \in 1 .. i PROVE t[i] + (b[k] - a[k]) <= w[i]
    <3>1. CASE k = i
      <4> DEFINE p == t[i - 1]
                 q == w[i - 1]
                 x == a[i]
                 y == b[i]
      <4>1. p \in Int /\ q \in Int /\ x \in Int /\ y \in Int /\ p <= q /\ t[i] = p + x /\ w[i] = q + y
        BY <2>1, <2>2, <2>3
      <4> HIDE DEF p, q, x, y
      <4>2. t[i] + (y - x) <= w[i]
        BY <4>1
      <4>3. QED
        BY <3>1, <4>2 DEF x, y
    <3>2. CASE k # i
      <4> DEFINE e == b[k] - a[k]
      <4>1. k \in 1 .. i - 1 /\ e \in Int
        BY <3>2
      <4>2. t[i - 1] + e <= w[i - 1]
        BY <2>3, <4>1
      <4> HIDE DEF e
      <4>3. t[i] + e <= w[i]
        <5> DEFINE p == t[i - 1]
                   q == w[i - 1]
                   x == a[i]
                   y == b[i]
        <5>1. p \in Int /\ q \in Int /\ x \in Int /\ y \in Int /\ x <= y
          BY <2>1
        <5>2. t[i] = p + x /\ w[i] = q + y /\ p + e <= q
          BY <2>2, <4>2
        <5> HIDE DEF p, q, x, y
        <5>3. QED
          BY <4>1, <5>1, <5>2
      <4>4. QED
        BY <4>3 DEF e
    <3>3. QED
      BY <3>1, <3>2
  <2>5. t[i] <= w[i]
    BY <2>1, <2>2, <2>3
  <2>6. QED
    BY <2>4, <2>5
<1>5. \A i \in 1 .. n : i - 1 \in T => i \in T
  BY <1>4
<1> HIDE DEF T
<1>6. n \in T
  <2>1. \A i \in 0 .. n : i \in T
    BY <1>3, <1>5, Climb
  <2>2. QED
    BY <2>1
<1>7. QED
  BY <1>1, <1>2, <1>6 DEF T

LEMMA NumbersLength ==
  ASSUME NEW n \in Nat, NEW a \in [1 .. n -> Int]
  PROVE  Len(a) = n
<1>1. a \in Seq(Int)
  OBVIOUS
<1>2. DOMAIN a = 1 .. n /\ DOMAIN a = 1 .. Len(a) /\ Len(a) \in Nat
  BY <1>1
<1>3. QED
  BY <1>2

\* What the hints cost that count as read.
Price(hints) == [i \in DOMAIN pkg.hints |-> IF i \in hints THEN pkg.hints[i].cost ELSE 0]
Paid(sess) == sess.hintCost = Sum(Price(sess.hints))

LEMMA PriceType ==
  ASSUME pkg \in Packages, NEW hints
  PROVE  LET n == Len(pkg.hints) IN
         /\ n \in Nat /\ DOMAIN pkg.hints = 1 .. n
         /\ Price(hints) \in [1 .. n -> Int] /\ Len(Price(hints)) = n
         /\ \A i \in 1 .. n : Price(hints)[i] >= 0 /\ (i \in hints => Price(hints)[i] > 0)
<1> DEFINE n == Len(pkg.hints)
<1>1. pkg.hints \in Seq([cost : Nat, after : Nat]) /\ \A i \in DOMAIN pkg.hints : pkg.hints[i].cost > 0
  BY LabAssumption
<1>2. n \in Nat /\ DOMAIN pkg.hints = 1 .. n
  BY <1>1
<1>3. \A i \in 1 .. n : pkg.hints[i].cost \in Nat /\ pkg.hints[i].cost > 0
  BY <1>1, <1>2, CostType
<1> HIDE DEF n
<1>4. Price(hints) \in [1 .. n -> Int]
  BY <1>2, <1>3 DEF Price
<1>5. Len(Price(hints)) = n
  BY <1>2, <1>4, NumbersLength
<1>6. \A i \in 1 .. n : Price(hints)[i] >= 0 /\ (i \in hints => Price(hints)[i] > 0)
  BY <1>2, <1>3 DEF Price
<1>7. QED
  BY <1>2, <1>4, <1>5, <1>6 DEF n

LEMMA NothingPaid ==
  ASSUME pkg \in Packages
  PROVE  Sum(Price({})) = 0
<1> DEFINE n == Len(pkg.hints)
           p == Price({})
<1>1. n \in Nat /\ DOMAIN pkg.hints = 1 .. n /\ p \in [1 .. n -> Int] /\ Len(p) = n
  BY PriceType
<1>2. \A i \in 1 .. n : p[i] = 0
  BY <1>1 DEF Price
<1> HIDE DEF n, p
<1>3. Sum(p) = 0
  BY <1>1, <1>2, SumZero
<1>4. QED
  BY <1>3 DEF p

LEMMA HintPaid ==
  ASSUME NEW sess \in Session, pkg \in Packages, NEW c, Paid(sess)
  PROVE  Paid(Hint(sess, c).s)
<1> DEFINE read == sess.hints \union {c.id}
           cost == sess.hintCost + pkg.hints[c.id].cost
           g == [sess EXCEPT !.hints = read, !.hintCost = cost]
<1>1. CASE c.id \in DOMAIN pkg.hints /\ c.id \notin sess.hints
  <2> DEFINE n == Len(pkg.hints)
             a == Price(sess.hints)
             b == Price(read)
             k == c.id
  <2>1. /\ n \in Nat /\ DOMAIN pkg.hints = 1 .. n
        /\ a \in [1 .. n -> Int] /\ b \in [1 .. n -> Int] /\ Len(a) = n /\ Len(b) = n
    BY PriceType
  <2>2. k \in 1 .. n /\ a[k] = 0 /\ b[k] = pkg.hints[k].cost
    BY <1>1, <2>1 DEF Price
  <2>3. \A i \in 1 .. n : i # k => b[i] = a[i]
    BY <2>1 DEF Price
  <2>4. sess.hintCost = Sum(a) /\ sess.hintCost \in Nat
    BY DEF Paid, Session
  <2>5. g.hints = read /\ g.hintCost = cost
    BY DEF Session
  <2>6. cost = sess.hintCost + b[k]
    BY <2>2
  <2> HIDE DEF n, a, b, k, cost
  <2>7. Sum(b) = Sum(a) + (b[k] - a[k])
    BY <2>1, <2>2, <2>3, SumChange
  <2>8. b[k] \in Int
    BY <2>1, <2>2
  <2>9. cost = Sum(b)
    BY <2>2, <2>4, <2>6, <2>7, <2>8
  <2>10. Paid(g)
    BY <2>5, <2>9 DEF Paid, b
  <2>11. Hint(sess, c).s = g \/ Hint(sess, c).s = sess
    BY DEF Hint, Ended, cost
  <2>12. QED
    BY <2>10, <2>11
<1>2. CASE ~(c.id \in DOMAIN pkg.hints /\ c.id \notin sess.hints)
  BY <1>2 DEF Hint, Ended
<1>3. QED
  BY <1>1, <1>2

\* A command keeps the count, be it the reset.
LEMMA ExecutePaid ==
  ASSUME NEW sess \in Session, pkg \in Packages, NEW c \in LabCommand, Paid(sess)
  PROVE  Paid(Execute(sess, c).s)
<1>1. c.kind \in {"systemctl", "kill", "killall", "firewall", "setenforce", "curl", "edit", "hint",
                 "answer", "reset", "submit"}
  BY DEF LabCommand
<1>2. \A r : Paid(OnHost(sess, r).s)
  BY DEF Session, OnHost, Ended, Paid
<1>3. Paid(Hint(sess, c).s)
  BY HintPaid
<1>4. Paid(LabReset(sess))
  <2>1. LabReset(sess).hints = {} /\ LabReset(sess).hintCost = 0
    BY DEF Session, LabReset
  <2>2. QED
    BY <2>1, NothingPaid DEF Paid
<1>5. Paid([sess EXCEPT !.answers = IF @ < 2 THEN @ + 1 ELSE 2])
  BY DEF Session, Paid
<1>6. Paid([sess EXCEPT !.submittedAt = sess.host.clock])
  BY DEF Session, Paid
<1>7. QED
  BY <1>1, <1>2, <1>3, <1>4, <1>5, <1>6 DEF Execute, Ended

LEMMA StatementsPaid ==
  ASSUME NEW sess \in Session, pkg \in Packages, NEW line \in LabLine, Paid(sess)
  PROVE  Paid(Over(Statement, [s |-> sess, stopped |-> FALSE], line.statements).s)
<1> DEFINE n == Len(line.statements)
           first == [s |-> sess, stopped |-> FALSE]
<1>1. PICK m \in [0 .. n -> Progress] :
        /\ m[0] = first
        /\ \A i \in 1 .. n : m[i] = Statement(m[i - 1], line.statements[i])
        /\ Over(Statement, first, line.statements) = m[n]
  BY StatementsMade
<1>2. line.statements \in Seq(LabStatement)
  BY LineStatements
<1>3. n \in Nat /\ \A i \in 1 .. n : line.statements[i].cmd \in LabCommand
  <2>1. n \in Nat /\ \A i \in 1 .. n : line.statements[i] \in LabStatement
    BY <1>2
  <2>2. QED
    BY <2>1 DEF LabStatement
<1> DEFINE T == {i \in 0 .. n : Paid(m[i].s)}
<1> HIDE DEF n
<1>4. 0 \in T
  BY <1>1, <1>3 DEF Paid
<1>5. ASSUME NEW i \in 1 .. n, i - 1 \in T PROVE i \in T
  <2> DEFINE x == m[i - 1].s
             c == line.statements[i].cmd
  <2>1. m[i - 1] \in Progress
    BY <1>1, <1>3
  <2>2. x \in Session /\ c \in LabCommand /\ Paid(x)
    BY <1>3, <1>5, <2>1 DEF Progress
  <2>3. m[i].s = x \/ m[i].s = Execute(x, c).s
    <3>1. m[i] = Statement(m[i - 1], line.statements[i])
      BY <1>1
    <3>2. QED
      BY <3>1 DEF Statement
  <2> HIDE DEF x, c
  <2>4. Paid(Execute(x, c).s)
    BY <2>2, ExecutePaid
  <2>5. Paid(m[i].s)
    BY <2>2, <2>3, <2>4
  <2>6. QED
    BY <2>5
<1>6. \A i \in 1 .. n : i - 1 \in T => i \in T
  BY <1>5
<1> HIDE DEF T
<1>7. \A i \in 0 .. n : i \in T
  BY <1>3, <1>4, <1>6, Climb
<1>8. n \in 0 .. n
  BY <1>3
<1>9. QED
  BY <1>1, <1>7, <1>8 DEF T

LEMMA RunLinePaid ==
  ASSUME NEW sess \in Session, pkg \in Packages, NEW line \in LabLine, Paid(sess)
  PROVE  Paid(RunLine(sess, line))
<1> DEFINE r == Ran(sess, line)
           e == [line |-> line, time |-> r.host.clock]
           ran == Over(Statement, [s |-> sess, stopped |-> FALSE], line.statements).s
<1>1. r \in Session
  BY RanGood
<1>2. RunLine(sess, line) = [r EXCEPT !.chain = Append(r.chain, e)]
  BY RunLineRecords DEF RecordEvent
<1>3. ran \in Session /\ Paid(ran)
  BY StatementsGood, StatementsPaid
<1>4. r = sess \/ r = [ran EXCEPT !.host = Advance(Apply(ran.host))]
  BY DEF Ran
<1> HIDE DEF ran
<1>5. Paid(r)
  BY <1>3, <1>4 DEF Paid, Session
<1> HIDE DEF r, e
<1>6. QED
  BY <1>1, <1>2, <1>5 DEF Paid, Session

LEMMA NewSessionPaid ==
  ASSUME pkg \in Packages, NEW seed
  PROVE  Paid(NewSession(seed))
<1>1. NewSession(seed).hints = {} /\ NewSession(seed).hintCost = 0
  BY DEF NewSession
<1>2. QED
  BY <1>1, NothingPaid DEF Paid

LEMMA RerunPaid ==
  ASSUME NEW seed \in Int, pkg \in Packages, NEW events \in Seq(Event)
  PROVE  Paid(Rerun(seed, events))
<1> DEFINE n == Len(events)
           start == NewSession(seed)
<1>1. PICK m \in [0 .. n -> Session] :
        /\ m[0] = start
        /\ \A i \in 1 .. n : m[i] = RunLine(m[i - 1], events[i].line)
        /\ Rerun(seed, events) = m[n]
  BY RerunMade
<1>2. n \in Nat /\ \A i \in 1 .. n : events[i] \in Event
  OBVIOUS
<1>3. Paid(start)
  BY NewSessionPaid
<1> DEFINE T == {i \in 0 .. n : Paid(m[i])}
<1> HIDE DEF n, start
<1>4. 0 \in T
  BY <1>1, <1>2, <1>3
<1>5. ASSUME NEW i \in 1 .. n, i - 1 \in T PROVE i \in T
  <2> DEFINE x == m[i - 1]
             l == events[i].line
  <2>1. x \in Session /\ l \in LabLine /\ Paid(x)
    BY <1>1, <1>2, <1>5 DEF Event
  <2>2. m[i] = RunLine(x, l)
    BY <1>1
  <2> HIDE DEF x, l
  <2>3. Paid(m[i])
    BY <2>1, <2>2, RunLinePaid
  <2>4. QED
    BY <2>3
<1>6. \A i \in 1 .. n : i - 1 \in T => i \in T
  BY <1>5
<1> HIDE DEF T
<1>7. \A i \in 0 .. n : i \in T
  BY <1>2, <1>4, <1>6, Climb
<1>8. n \in 0 .. n
  BY <1>2
<1>9. QED
  BY <1>1, <1>7, <1>8 DEF T

\* The cost is right after every step.
LEMMA StepPays ==
  ASSUME LabInv, Paid(s), [LabNext]_labVars
  PROVE  Paid(s)'
<1>1. pkg \in Packages /\ s \in Session
  BY DEF LabInv
<1>2. ASSUME NEW x, Paid(x), pkg' = pkg, s' = x PROVE Paid(s)'
  BY <1>2 DEF Paid, Price
<1>3. ASSUME NEW line \in LabLine, Enter(line) PROVE Paid(s)'
  BY <1>1, <1>2, <1>3, RunLinePaid DEF Enter
<1>4. CASE Restart
  <2>1. pkg' = pkg /\ s'.hints = {} /\ s'.hintCost = 0
    BY <1>1, <1>4 DEF Restart, Session
  <2>2. Paid(s')
    BY <1>1, <2>1, NothingPaid DEF Paid
  <2>3. QED
    BY <1>2, <2>1, <2>2
<1>5. CASE RecoverSession
  <2> DEFINE seed == StartOf(s.chain)
             ran == Rerun(seed, s.chain)
  <2>1. s.chain \in Seq(Event)
    BY <1>1 DEF Session
  <2>2. seed \in Int
    BY <2>1, StartOfType
  <2>3. ran \in Session /\ Paid(ran)
    BY <1>1, <2>1, <2>2, RerunGood, RerunPaid
  <2>4. s' = [ran EXCEPT !.chain = s.chain] /\ pkg' = pkg
    BY <1>5 DEF RecoverSession, Replay
  <2> HIDE DEF ran
  <2>5. Paid([ran EXCEPT !.chain = s.chain])
    BY <2>3 DEF Paid, Session
  <2>6. QED
    BY <1>2, <2>4, <2>5
<1>6. CASE UNCHANGED labVars
  BY <1>2, <1>6 DEF labVars
<1>7. QED
  BY <1>3, <1>4, <1>5, <1>6, StepKinds

\* What a package is worth, and what it forbids.
LEMMA PointsType ==
  ASSUME pkg \in Packages, NEW h
  PROVE  LET n == Len(pkg.objectives)
             worth == [i \in DOMAIN pkg.objectives |-> pkg.objectives[i].points]
         IN /\ n \in Nat /\ DOMAIN pkg.objectives = 1 .. n
            /\ Earned(h) \in [1 .. n -> Int] /\ Len(Earned(h)) = n
            /\ worth \in [1 .. n -> Int] /\ Len(worth) = n
            /\ \A i \in 1 .. n : Earned(h)[i] <= worth[i]
<1> DEFINE n == Len(pkg.objectives)
           worth == [i \in DOMAIN pkg.objectives |-> pkg.objectives[i].points]
<1>1. n \in Nat /\ DOMAIN pkg.objectives = 1 .. n /\ \A i \in 1 .. n : pkg.objectives[i].points \in Nat
  BY LabAssumption
<1> HIDE DEF n
<1>2. Earned(h) \in [1 .. n -> Int] /\ worth \in [1 .. n -> Int]
  BY <1>1 DEF Earned
<1>3. \A i \in 1 .. n : Earned(h)[i] <= worth[i]
  BY <1>1 DEF Earned
<1> HIDE DEF worth
<1>4. Len(Earned(h)) = n /\ Len(worth) = n
  BY <1>1, <1>2, NumbersLength
<1>5. QED
  BY <1>1, <1>2, <1>3, <1>4 DEF n, worth

LEMMA PenaltiesType ==
  ASSUME pkg \in Packages, NEW h
  PROVE  LET n == Len(pkg.guardrails) IN
         /\ n \in Nat /\ DOMAIN pkg.guardrails = 1 .. n
         /\ Penalties(h) \in [1 .. n -> Int] /\ Len(Penalties(h)) = n
         /\ \A i \in 1 .. n : Penalties(h)[i] <= 0
<1> DEFINE n == Len(pkg.guardrails)
<1>1. /\ n \in Nat /\ DOMAIN pkg.guardrails = 1 .. n
      /\ \A i \in 1 .. n : pkg.guardrails[i].points \in Int /\ pkg.guardrails[i].points < 0
  BY LabAssumption
<1> HIDE DEF n
<1>2. Penalties(h) \in [1 .. n -> Int]
  BY <1>1 DEF Penalties
<1>3. \A i \in 1 .. n : Penalties(h)[i] <= 0
  BY <1>1 DEF Penalties
<1>4. Len(Penalties(h)) = n
  BY <1>1, <1>2, NumbersLength
<1>5. QED
  BY <1>1, <1>2, <1>3, <1>4 DEF n

LEMMA TriggeredCosts ==
  ASSUME pkg \in Packages, NEW h, NEW i \in DOMAIN pkg.guardrails, Evaluate(h, pkg.guardrails[i].when)
  PROVE  Penalties(h)[i] < 0
<1>1. pkg.guardrails[i].points < 0
  BY LabAssumption
<1>2. QED
  BY <1>1 DEF Penalties

\* An objective that is worth something and earned has its condition met.
LEMMA EarnedMeans ==
  ASSUME pkg \in Packages, NEW h, NEW c, NEW i \in DOMAIN pkg.objectives,
         pkg.objectives[i].points \in Nat, pkg.objectives[i].points > 0,
         pkg.objectives[i].checks.op = "all", c \in pkg.objectives[i].checks.of,
         Earned(h)[i] = pkg.objectives[i].points
  PROVE  Holds(h, c)
<1>1. Evaluate(h, pkg.objectives[i].checks)
  BY DEF Earned
<1>2. QED
  BY <1>1 DEF Evaluate

LEMMA FullScoreMeans ==
  ASSUME pkg \in Packages, s \in Session, Paid(s)
  PROVE  FullScoreIsEarned
<1> DEFINE worth == [i \in DOMAIN pkg.objectives |-> pkg.objectives[i].points]
           earned == Earned(s.host)
           penalties == Penalties(s.host)
           price == Price(s.hints)
           m == Len(pkg.objectives)
           g == Len(pkg.guardrails)
           n == Len(pkg.hints)
<1>1. /\ m \in Nat /\ DOMAIN pkg.objectives = 1 .. m
      /\ earned \in [1 .. m -> Int] /\ Len(earned) = m
      /\ worth \in [1 .. m -> Int] /\ Len(worth) = m
      /\ \A i \in 1 .. m : earned[i] <= worth[i]
  BY PointsType
<1>2. /\ g \in Nat /\ DOMAIN pkg.guardrails = 1 .. g
      /\ penalties \in [1 .. g -> Int] /\ Len(penalties) = g
      /\ \A i \in 1 .. g : penalties[i] <= 0
  BY PenaltiesType
<1>3. /\ n \in Nat /\ DOMAIN pkg.hints = 1 .. n
      /\ price \in [1 .. n -> Int] /\ Len(price) = n
      /\ \A i \in 1 .. n : price[i] >= 0 /\ (i \in s.hints => price[i] > 0)
  BY PriceType
<1>4. /\ worth = [i \in DOMAIN pkg.objectives |-> pkg.objectives[i].points]
      /\ s.hintCost = Sum(price) /\ price = [i \in DOMAIN pkg.hints |-> IF i \in s.hints THEN pkg.hints[i].cost ELSE 0]
      /\ Score(s.host, s.hintCost) = Sum(earned) + Sum(penalties) - s.hintCost
  BY DEF Paid, Price, Score
<1>5. s.hints \subseteq 1 .. n /\ s.host \in GoodHost
  BY <1>3 DEF Session
<1>6. \A i \in DOMAIN pkg.objectives : worth[i] = pkg.objectives[i].points /\ earned[i] = Earned(s.host)[i]
  OBVIOUS
<1> HIDE DEF worth, earned, penalties, price, m, g, n
<1>7. /\ Sum(earned) \in Int /\ Sum(worth) \in Int /\ Sum(earned) <= Sum(worth)
      /\ \A k \in 1 .. m : Sum(earned) + (worth[k] - earned[k]) <= Sum(worth)
  BY <1>1, SumLess
<1>8. /\ Sum(penalties) \in Int /\ Sum(penalties) <= 0
      /\ \A k \in 1 .. g : Sum(penalties) + (0 - penalties[k]) <= 0
  <2> DEFINE none == [i \in 1 .. g |-> 0]
  <2>1. none \in [1 .. g -> Int] /\ \A i \in 1 .. g : none[i] = 0
    OBVIOUS
  <2> HIDE DEF none
  <2>2. Len(none) = g
    BY <1>2, <2>1, NumbersLength
  <2>3. Sum(none) = 0
    BY <1>2, <2>1, <2>2, SumZero
  <2>4. \A i \in 1 .. g : penalties[i] <= none[i]
    BY <1>2, <2>1
  <2>5. /\ Sum(penalties) \in Int /\ Sum(penalties) <= Sum(none)
        /\ \A k \in 1 .. g : Sum(penalties) + (none[k] - penalties[k]) <= Sum(none)
    BY <1>2, <2>1, <2>2, <2>4, SumLess
  <2>6. QED
    BY <2>1, <2>3, <2>5
<1>9. /\ Sum(price) \in Int /\ 0 <= Sum(price)
      /\ \A k \in 1 .. n : price[k] <= Sum(price)
  <2> DEFINE none == [i \in 1 .. n |-> 0]
  <2>1. none \in [1 .. n -> Int] /\ \A i \in 1 .. n : none[i] = 0
    OBVIOUS
  <2> HIDE DEF none
  <2>2. Len(none) = n
    BY <1>3, <2>1, NumbersLength
  <2>3. Sum(none) = 0
    BY <1>3, <2>1, <2>2, SumZero
  <2>4. \A i \in 1 .. n : none[i] <= price[i]
    BY <1>3, <2>1
  <2>5. /\ Sum(price) \in Int /\ Sum(none) <= Sum(price)
        /\ \A k \in 1 .. n : Sum(none) + (price[k] - none[k]) <= Sum(price)
    BY <1>3, <2>1, <2>2, <2>4, SumLess
  <2>6. \A k \in 1 .. n : price[k] \in Int /\ none[k] = 0
    BY <1>3, <2>1
  <2>7. QED
    BY <2>3, <2>5, <2>6
<1>10. ASSUME Score(s.host, s.hintCost) >= Sum(worth)
       PROVE  /\ s.hints = {}
              /\ \A i \in DOMAIN pkg.guardrails : ~Evaluate(s.host, pkg.guardrails[i].when)
              /\ s.host.web /\ Httpd \in Running(s.host)
  <2>1. Sum(earned) = Sum(worth) /\ Sum(penalties) = 0 /\ Sum(price) = 0
    BY <1>4, <1>7, <1>8, <1>9, <1>10
  <2>2. s.hints = {}
    <3>1. \A k \in 1 .. n : k \notin s.hints
      BY <1>3, <1>9, <2>1
    <3>2. QED
      BY <1>5, <3>1
  <2>3. ASSUME NEW k \in DOMAIN pkg.guardrails PROVE ~Evaluate(s.host, pkg.guardrails[k].when)
    <3>1. k \in 1 .. g /\ penalties[k] \in Int /\ 0 <= penalties[k]
      BY <1>2, <1>8, <2>1
    <3>2. ~(Penalties(s.host)[k] < 0)
      BY <3>1 DEF penalties
    <3>3. QED
      BY <3>2, TriggeredCosts
  <2>4. \A k \in 1 .. m : earned[k] = worth[k]
    BY <1>1, <1>7, <2>1
  <2>5. ASSUME NEW c \in {[type |-> "serviceRunning", name |-> Httpd], [type |-> "httpStatus", status |-> 200]}
        PROVE  Holds(s.host, c)
    <3>1. PICK i \in DOMAIN pkg.objectives :
            /\ pkg.objectives[i].points > 0 /\ pkg.objectives[i].checks.op = "all"
            /\ c \in pkg.objectives[i].checks.of
      BY <2>5, LabAssumption
    <3>2. pkg.objectives[i].points \in Nat
      BY <3>1, LabAssumption
    <3>3. Earned(s.host)[i] = pkg.objectives[i].points
      BY <1>1, <1>6, <2>4, <3>1
    <3>4. QED
      BY <3>1, <3>2, <3>3, EarnedMeans
  <2>6. Httpd \in Running(s.host)
    <3>1. Holds(s.host, [type |-> "serviceRunning", name |-> Httpd])
      BY <2>5
    <3>2. QED
      BY <3>1 DEF Holds
  <2>7. s.host.http = 200
    <3>1. Holds(s.host, [type |-> "httpStatus", status |-> 200])
      BY <2>5
    <3>2. QED
      BY <3>1 DEF Holds
  <2>8. s.host.web
    BY <1>5, <2>7 DEF GoodHost, PortsAgree
  <2>9. QED
    BY <1>2, <2>2, <2>3, <2>6, <2>8
<1>11. QED
  BY <1>4, <1>10 DEF FullScoreIsEarned

(* The full score is only given to a repaired web server with no guardrail *)
(* triggered and no hint read, after any lines, resets, restarts and       *)
(* recoveries, for any packages shaped like the core scenarios; the cost   *)
(* in the score is that of the hints that count as read (scoring.go:28,    *)
(* session.go:273).                                                        *)
THEOREM FullScoreAlwaysEarned == LabSpec => []FullScoreIsEarned
<1>1. LabInit => Paid(s)
  <2> SUFFICES ASSUME LabInit PROVE Paid(s)
    OBVIOUS
  <2>1. pkg \in Packages /\ s = NewSession(Seed)
    BY DEF LabInit
  <2>2. QED
    BY <2>1, NewSessionPaid
<1>2. LabInv /\ Paid(s) /\ [LabNext]_labVars => Paid(s)'
  BY StepPays
<1>3. LabInv /\ Paid(s) => FullScoreIsEarned
  BY FullScoreMeans DEF LabInv
<1>4. QED
  BY <1>1, <1>2, <1>3, LabInvHolds, PTL DEF LabSpec

=============================================================================
