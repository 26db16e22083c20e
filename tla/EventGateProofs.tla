-------------------------- MODULE EventGateProofs ---------------------------
(***************************************************************************)
(* Proofs about EventGate, for any number of teams, sessions, handlers and *)
(* organizers, any limits and any number of crashes.                       *)
(***************************************************************************)
EXTENDS EventGate, FiniteSetTheorems, TLAPS

-----------------------------------------------------------------------------
\* Type correctness

Creating == {"saveRow", "saveMeta"}
Serving  == {"gate", "submit", "work", "row", "seen", "meta"}

\* A request that is under way has a team, or the session it found.
Shape(j) ==
  /\ j.pc = "admit" => j.team \in Teams
  /\ j.pc \in Creating => j.team \in Teams /\ j.id \in Ids
  /\ j.pc \in Serving => j.id \in Ids

JobInv == job \in [Handlers -> Job] /\ \A h \in Handlers : Shape(job[h])

\* TypeOK is not inductive: the handlers index the maps by their request.  Its
\* conjuncts are taken apart by what the provers are good at.
Flags == up \in BOOLEAN /\ manualClose \in BOOLEAN /\ storedClose \in BOOLEAN

Maps ==
  /\ now \in Time \ {0}
  /\ mu \in Handlers \union {None}
  /\ sessions \in [Ids -> Teams \union {None}]
  /\ activity \in [Ids -> Time]
  /\ rows \in [Ids -> Teams \union {None}]
  /\ meta \in [Ids -> Time]
  /\ terminals \in SUBSET Ids
  /\ order \in [Organizers -> {"none", "close", "reopen"}]
  /\ known \in SUBSET Ids
  /\ used \in [Ids -> Time]
  /\ late \in Nat /\ crashes \in Nat

TypeInv == Flags /\ Maps /\ JobInv

LEMMA IdleType == Idle \in Job /\ Shape(Idle)
  BY DEF Idle, Job, Shape, Creating, Serving, Time

\* A request moves to another label and keeps what it knows.
LEMMA MoveType ==
  ASSUME NEW j \in Job,
         NEW label \in {"saveMeta", "submit", "work", "row", "seen", "meta"}
  PROVE  [j EXCEPT !.pc = label] \in Job
  BY DEF Job

LEMMA JobStep ==
  ASSUME JobInv, NEW h \in Handlers, NEW r \in Job, Shape(r),
         job' = [job EXCEPT ![h] = r]
  PROVE  JobInv'
  BY DEF JobInv

LEMMA DoneStep ==
  ASSUME JobInv, NEW h \in Handlers, Done(h)
  PROVE  JobInv'
  BY IdleType, JobStep DEF Done

LEMMA LateType ==
  ASSUME late \in Nat
  PROVE  LateAfterWork \in Nat
  BY DEF LateAfterWork

LEMMA TypeInit == Init => TypeInv
<1> SUFFICES ASSUME Init PROVE TypeInv
  OBVIOUS
<1>1. JobInv
  BY IdleType DEF Init, JobInv
<1>2. up \in BOOLEAN /\ manualClose \in BOOLEAN /\ storedClose \in BOOLEAN
  BY Zenon DEF Init
<1>3. QED
  BY <1>1, <1>2 DEF Init, TypeInv, Flags, Maps, Time

LEMMA TypeStep == TypeInv /\ [Next]_vars => TypeInv'
<1> SUFFICES ASSUME TypeInv, [Next]_vars
             PROVE  TypeInv'
  OBVIOUS
<1> USE DEF TypeInv
<1>a. Flags /\ Maps /\ JobInv
  OBVIOUS
<1>0. now \in Nat \ {0}
  BY <1>a DEF Maps, Time
<1>b. \A h \in Handlers : job[h] \in Job /\ Shape(job[h])
  BY <1>a DEF JobInv
<1>c. LateAfterWork \in Nat
  BY <1>a, LateType DEF Maps
<1>1. ASSUME NEW h \in Handlers, NEW t \in Teams, CreateCheck(h, t)
      PROVE  TypeInv'
  <2> DEFINE r == [Idle EXCEPT !.pc = "admit", !.team = t]
  <2>1. r \in Job /\ Shape(r)
    BY <1>0 DEF Job, Idle, Kinds, Shape, Creating, Serving, Time
  <2>2. JobInv'
    BY <1>1, <1>a, <2>1, JobStep DEF CreateCheck
  <2>3. QED
    BY <1>1, <1>a, <2>2 DEF CreateCheck, memory, tables, history, Flags, Maps, Time
<1>2. ASSUME NEW h \in Handlers, CreateExisting(h)
      PROVE  TypeInv'
  <2>1. JobInv'
    BY <1>2, <1>a, DoneStep DEF CreateExisting
  <2>2. QED
    BY <1>2, <1>a, <2>1 DEF CreateExisting, memory, tables, history, Flags, Maps, Time, Live
<1>3. ASSUME NEW h \in Handlers, CreateRefused(h)
      PROVE  TypeInv'
  <2>1. JobInv'
    BY <1>3, <1>a, DoneStep DEF CreateRefused
  <2>2. QED
    BY <1>3, <1>a, <2>1 DEF CreateRefused, memory, tables, history, Flags, Maps, Time
<1>4. ASSUME NEW h \in Handlers, NEW i \in Ids, CreateSession(h, i)
      PROVE  TypeInv'
  <2> DEFINE r == [job[h] EXCEPT !.pc = "saveRow", !.id = i]
  <2>1. job[h].team \in Teams
    BY <1>4, <1>b DEF CreateSession, At, Shape
  <2>2. r \in Job /\ r.team = job[h].team /\ r.id = i /\ r.pc = "saveRow"
    BY <1>b DEF Job
  <2>3. Shape(r)
    BY <2>1, <2>2 DEF Shape, Creating, Serving
  <2>4. JobInv'
    BY <1>4, <1>a, <2>2, <2>3, JobStep DEF CreateSession
  <2>5. QED
    BY <1>4, <1>a, <1>c, <2>1, <2>4 DEF CreateSession, memory, tables, history, Flags, Maps, Time
<1>5. ASSUME NEW h \in Handlers, CreateSaveRow(h)
      PROVE  TypeInv'
  <2> DEFINE r == [job[h] EXCEPT !.pc = "saveMeta"]
  <2>1. r \in Job
    BY <1>b, MoveType
  <2>2. Shape(r)
    BY <1>5, <1>b DEF CreateSaveRow, At, Shape, Job, Creating, Serving
  <2>3. JobInv'
    BY <1>5, <1>a, <2>1, <2>2, JobStep DEF CreateSaveRow, Goto
  <2>4. QED
    BY <1>5, <1>a, <1>b, <2>3 DEF CreateSaveRow, memory, tables, history, Flags, Maps, Time, At, Shape, Creating
<1>6. ASSUME NEW h \in Handlers, CreateSaveMeta(h)
      PROVE  TypeInv'
  <2>1. JobInv'
    BY <1>6, <1>a, DoneStep DEF CreateSaveMeta
  <2>2. QED
    BY <1>6, <1>a, <1>b, <2>1 DEF CreateSaveMeta, memory, tables, history, Flags, Maps, Time, At, Shape, Creating
<1>7. ASSUME NEW h \in Handlers, CreateFails(h)
      PROVE  TypeInv'
  <2>1. JobInv'
    BY <1>7, <1>a, DoneStep DEF CreateFails
  <2>2. QED
    BY <1>7, <1>a, <2>1 DEF CreateFails, memory, tables, history, Flags, Maps, Time
<1>8. ASSUME NEW h \in Handlers, NEW i \in Ids, NEW kind \in Kinds, Touch(h, i, kind)
      PROVE  TypeInv'
  <2> DEFINE r == [Idle EXCEPT !.pc = "gate", !.id = i, !.kind = kind, !.arrived = now]
  <2>1. r \in Job /\ Shape(r)
    BY <1>0 DEF Job, Idle, Kinds, Shape, Creating, Serving, Time
  <2>2. JobInv'
    BY <1>8, <1>a, <2>1, JobStep DEF Touch
  <2>3. QED
    BY <1>8, <1>a, <2>2 DEF Touch, memory, tables, history, Flags, Maps, Time
<1>9. ASSUME NEW h \in Handlers, Gate(h)
      PROVE  TypeInv'
  <2>1. CASE Done(h)
    <3>1. JobInv'
      BY <2>1, <1>a, DoneStep
    <3>2. QED
      BY <1>9, <1>a, <1>b, <3>1 DEF Gate, At, Shape, Serving, memory, tables, history, Flags, Maps, Time
  <2>2. ASSUME NEW label \in {"submit", "work"}, Goto(h, label), UNCHANGED terminals
        PROVE  TypeInv'
    <3> DEFINE r == [job[h] EXCEPT !.pc = label]
    <3>1. r \in Job
      BY <1>b, MoveType
    <3>2. Shape(r)
      BY <1>9, <1>b DEF Gate, At, Shape, Job, Creating, Serving
    <3>3. JobInv'
      BY <2>2, <1>a, <3>1, <3>2, JobStep DEF Goto
    <3>4. QED
      BY <1>9, <2>2, <1>a, <3>3 DEF Gate, memory, tables, history, Flags, Maps, Time
  <2>3. QED
    BY <1>9, <2>1, <2>2 DEF Gate
<1>10. ASSUME NEW h \in Handlers, SubmitGate(h)
      PROVE  TypeInv'
  <2>1. CASE Done(h)
    <3>1. JobInv'
      BY <2>1, <1>a, DoneStep
    <3>2. QED
      BY <1>10, <1>a, <3>1 DEF SubmitGate, memory, tables, history, Flags, Maps, Time
  <2>2. CASE Goto(h, "work")
    <3> DEFINE r == [job[h] EXCEPT !.pc = "work"]
    <3>1. r \in Job
      BY <1>b, MoveType
    <3>2. Shape(r)
      BY <1>10, <1>b DEF SubmitGate, At, Shape, Job, Creating, Serving
    <3>3. JobInv'
      BY <2>2, <1>a, <3>1, <3>2, JobStep DEF Goto
    <3>4. QED
      BY <1>10, <1>a, <3>3 DEF SubmitGate, memory, tables, history, Flags, Maps, Time
  <2>3. QED
    BY <1>10, <2>1, <2>2 DEF SubmitGate
<1>11. ASSUME NEW h \in Handlers, Work(h)
      PROVE  TypeInv'
  <2> DEFINE r == [job[h] EXCEPT !.pc = "row"]
  <2>1. r \in Job
    BY <1>b, MoveType
  <2>2. Shape(r)
    BY <1>11, <1>b DEF Work, At, Shape, Job, Creating, Serving
  <2>3. JobInv'
    BY <1>11, <1>a, <2>1, <2>2, JobStep DEF Work, Goto
  <2>4. QED
    BY <1>11, <1>a, <1>c, <2>3 DEF Work, memory, tables, history, Flags, Maps, Time
<1>12. ASSUME NEW h \in Handlers, NEW i \in Ids, JudgeSession(h, i)
      PROVE  TypeInv'
  <2> DEFINE r == [Idle EXCEPT !.pc = "row", !.id = i, !.kind = "judge"]
  <2>1. r \in Job /\ Shape(r)
    BY <1>0 DEF Job, Idle, Kinds, Shape, Creating, Serving, Time
  <2>2. JobInv'
    BY <1>12, <1>a, <2>1, JobStep DEF JudgeSession
  <2>3. QED
    BY <1>12, <1>a, <2>2 DEF JudgeSession, memory, tables, history, Flags, Maps, Time
<1>13. ASSUME NEW h \in Handlers, PersistRow(h)
      PROVE  TypeInv'
  <2> DEFINE r == [job[h] EXCEPT !.pc = "seen"]
  <2>1. r \in Job
    BY <1>b, MoveType
  <2>2. Shape(r)
    BY <1>13, <1>b DEF PersistRow, At, Shape, Job, Creating, Serving
  <2>3. JobInv'
    BY <1>13, <1>a, <2>1, <2>2, JobStep DEF PersistRow, Goto
  <2>4. QED
    BY <1>13, <1>a, <1>b, <2>3 DEF PersistRow, memory, tables, history, Flags, Maps, Time, At, Shape, Serving
<1>14. ASSUME NEW h \in Handlers, PersistSeen(h)
      PROVE  TypeInv'
  <2> DEFINE seen == activity[job[h].id]
             t == IF seen = 0 THEN now ELSE seen
             r == [job[h] EXCEPT !.pc = "meta", !.seen = t]
  <2>1. job[h].id \in Ids
    BY <1>14, <1>b DEF PersistSeen, At, Shape, Serving
  <2>2. t \in Time
    BY <1>a, <2>1 DEF Maps, Time
  <2>3. r \in Job /\ Shape(r)
    BY <1>b, <2>1, <2>2 DEF Job, Shape, Creating, Serving
  <2>4. JobInv'
    BY <1>14, <1>a, <2>3, JobStep DEF PersistSeen
  <2>5. QED
    BY <1>14, <1>a, <2>4 DEF PersistSeen, memory, tables, history, Flags, Maps, Time
<1>15. ASSUME NEW h \in Handlers, PersistMeta(h)
      PROVE  TypeInv'
  <2>1. JobInv'
    BY <1>15, <1>a, DoneStep DEF PersistMeta
  <2>2. QED
    BY <1>15, <1>a, <1>b, <2>1 DEF PersistMeta, memory, tables, history, Flags, Maps, Time, Latest, Job
<1>16. ASSUME NEW h \in Handlers, PersistFails(h)
      PROVE  TypeInv'
  <2>1. JobInv'
    BY <1>16, <1>a, DoneStep DEF PersistFails
  <2>2. QED
    BY <1>16, <1>a, <2>1 DEF PersistFails, memory, tables, history, Flags, Maps, Time
<1>17. ASSUME NEW i \in Ids, TerminalInput(i)
      PROVE  TypeInv'
  BY <1>17, <1>a, <1>c DEF TerminalInput, JobInv, memory, tables, history, Flags, Maps, Time
<1>18. ASSUME NEW i \in Ids, TerminalEnd(i)
      PROVE  TypeInv'
  BY <1>18, <1>a, <1>c DEF TerminalEnd, JobInv, memory, tables, history, Flags, Maps, Time
<1>19. ASSUME NEW o \in Organizers, NEW what \in {"close", "reopen"}, OrganizerSet(o, what)
      PROVE  TypeInv'
  <2>1. manualClose' \in BOOLEAN
    BY <1>19 DEF OrganizerSet
  <2>2. order' \in [Organizers -> {"none", "close", "reopen"}]
    BY <1>19, <1>a DEF OrganizerSet, Maps
  <2>3. late' \in Nat
    BY <1>19, <1>a DEF OrganizerSet, Maps
  <2>4. QED
    BY <1>19, <1>a, <2>1, <2>2, <2>3 DEF OrganizerSet, JobInv, memory, tables, history, Flags, Maps, Time
<1>20. ASSUME NEW o \in Organizers, OrganizerStore(o)
      PROVE  TypeInv'
  <2>1. storedClose' \in BOOLEAN
    BY <1>20, <1>a DEF OrganizerStore, Flags
  <2>2. order' \in [Organizers -> {"none", "close", "reopen"}]
    BY <1>20, <1>a DEF OrganizerStore, Maps
  <2>3. QED
    BY <1>20, <1>a, <2>1, <2>2 DEF OrganizerStore, JobInv, memory, tables, history, Flags, Maps, Time
<1>21. ASSUME Tick
      PROVE  TypeInv'
  BY <1>21, <1>a DEF Tick, JobInv, memory, tables, history, Flags, Maps, Time
<1>22. ASSUME Crash
      PROVE  TypeInv'
  <2>1. JobInv'
    BY <1>22, IdleType DEF Crash, JobInv
  <2>2. up' \in BOOLEAN /\ manualClose' \in BOOLEAN
    BY <1>22, Zenon DEF Crash
  <2>3. QED
    BY <1>22, <1>a, <2>1, <2>2 DEF Crash, memory, tables, history, Flags, Maps, Time
<1>23. ASSUME Recover
      PROVE  TypeInv'
  <2>1. up' \in BOOLEAN /\ manualClose' \in BOOLEAN
    <3>1. up' \in BOOLEAN
      BY <1>23, Zenon DEF Recover
    <3>2. manualClose' \in BOOLEAN
      BY <1>23, <1>a DEF Recover, Flags
    <3>3. QED  BY <3>1, <3>2
  <2>2. activity' \in [Ids -> Time] /\ late' \in Nat
    BY <1>23, <1>a DEF Recover, Maps, Time
  <2>3. QED
    BY <1>23, <1>a, <2>1, <2>2 DEF Recover, JobInv, memory, tables, history, Flags, Maps, Time
<1>24. ASSUME UNCHANGED vars
      PROVE  TypeInv'
  BY <1>24, <1>a DEF vars, JobInv, memory, tables, history, Flags, Maps, Time
<1>25. QED
  BY <1>1, <1>2, <1>3, <1>4, <1>5, <1>6, <1>7, <1>8, <1>9, <1>10, <1>11, <1>12, <1>13, <1>14, <1>15, <1>16, <1>17, <1>18, <1>19, <1>20, <1>21, <1>22, <1>23, <1>24 DEF Next, Continue

\* Every variable of the gate keeps its type: a handler never looks up a
\* session it did not find, and the clock never stands at Go's zero time.
THEOREM TypeCorrect == Spec => []TypeOK
<1>1. TypeInv => TypeOK
  BY DEF TypeInv, Flags, Maps, JobInv, TypeOK
<1>2. QED
  BY TypeInit, TypeStep, <1>1, PTL DEF Spec

-----------------------------------------------------------------------------
\* Admission: one session per team, and no more than the limit

\* What has to be true of the server's map, and of the table as well.
Good(table) ==
  /\ \A i, j \in Ids : table[i] # None /\ table[i] = table[j] => i = j
  /\ IsFiniteSet(Live(table))
  /\ MaxConcurrent > 0 => Cardinality(Live(table)) <= MaxConcurrent

\* A request refers to a session that is in the map.
Found(j) ==
  /\ j.pc \in Creating => sessions[j.id] = j.team
  /\ j.pc \in Serving => sessions[j.id] # None

FoundInv == \A h \in Handlers : Found(job[h])

\* A server that is down serves nothing.
DownInv == ~up => \A h \in Handlers : job[h] = Idle

AdmissionInv == Good(sessions) /\ Good(rows) /\ StoredIsServed /\ FoundInv /\ DownInv

LEMMA IdleFound == Found(Idle)
  BY DEF Found, Idle, Creating, Serving

LEMMA FoundStep ==
  ASSUME JobInv, FoundInv, NEW h \in Handlers, NEW r, Found(r),
         job' = [job EXCEPT ![h] = r], sessions' = sessions
  PROVE  FoundInv'
<1>1. \A g \in Handlers : Found(job'[g])
  BY DEF FoundInv, JobInv
<1>2. QED
  BY <1>1 DEF FoundInv, Found

LEMMA DoneFound ==
  ASSUME JobInv, FoundInv, NEW h \in Handlers, Done(h), sessions' = sessions
  PROVE  FoundInv'
  BY IdleFound, FoundStep DEF Done

\* A table that holds some of the map's sessions is as good as the map.
LEMMA Contained ==
  ASSUME NEW map, NEW table, Good(map),
         \A i \in Live(table) : map[i] = table[i]
  PROVE  Good(table)
<1>1. Live(table) \subseteq Live(map)
  BY DEF Live
<1>2. IsFiniteSet(Live(map))
  BY DEF Good
<1>3. /\ IsFiniteSet(Live(table))
      /\ Cardinality(Live(table)) <= Cardinality(Live(map))
  BY <1>1, <1>2, FS_Subset
<1>4. Cardinality(Live(table)) \in Nat /\ Cardinality(Live(map)) \in Nat
  BY <1>2, <1>3, FS_CardinalityType
<1>5. MaxConcurrent > 0 => Cardinality(Live(table)) <= MaxConcurrent
  BY <1>3, <1>4, GateAssumption DEF Good
<1>6. \A i, j \in Ids : table[i] # None /\ table[i] = table[j] => i = j
  BY DEF Good, Live
<1>7. QED
  BY <1>3, <1>5, <1>6 DEF Good

\* createSession puts a team without a session at a place not yet used.
LEMMA Admitted ==
  ASSUME NEW map \in [Ids -> Teams \union {None}], Good(map),
         NEW i \in Ids, map[i] = None,
         NEW t \in Teams, \A j \in Live(map) : map[j] # t,
         ~(MaxConcurrent > 0 /\ Cardinality(Live(map)) >= MaxConcurrent)
  PROVE  Good([map EXCEPT ![i] = t])
<1> DEFINE new == [map EXCEPT ![i] = t]
<1>1. t # None
  BY GateAssumption
<1>2. Live(new) = Live(map) \union {i} /\ i \notin Live(map)
  BY <1>1 DEF Live
<1>3. IsFiniteSet(Live(map))
  BY DEF Good
<1>4. /\ IsFiniteSet(Live(new))
      /\ Cardinality(Live(new)) = Cardinality(Live(map)) + 1
  <2>1. /\ IsFiniteSet(Live(map) \union {i})
        /\ Cardinality(Live(map) \union {i}) =
             IF i \in Live(map) THEN Cardinality(Live(map)) ELSE Cardinality(Live(map)) + 1
    BY <1>3, FS_AddElement, Zenon
  <2>2. QED
    BY <1>2, <2>1
<1>5. Cardinality(Live(map)) \in Nat
  BY <1>3, FS_CardinalityType
<1>6. MaxConcurrent > 0 => Cardinality(Live(new)) <= MaxConcurrent
  BY <1>4, <1>5, GateAssumption
<1>7. \A j, k \in Ids : new[j] # None /\ new[j] = new[k] => j = k
  BY <1>1 DEF Good, Live
<1>8. QED
  BY <1>4, <1>6, <1>7 DEF Good

\* The table gains, or has already, the row of a session in the map.
LEMMA RowStored ==
  ASSUME AdmissionInv, rows \in [Ids -> Teams \union {None}], NEW i \in Ids,
         sessions[i] # None, up, up' = up, sessions' = sessions,
         rows' = [rows EXCEPT ![i] = sessions[i]]
  PROVE  Good(sessions)' /\ Good(rows)' /\ StoredIsServed'
<1>1. Good(sessions')
  BY DEF AdmissionInv
<1>2. \A j \in Live(rows') : sessions'[j] = rows'[j]
  BY DEF AdmissionInv, StoredIsServed, Live
<1>3. Good(rows')
  BY <1>1, <1>2, Contained
<1>4. StoredIsServed'
  BY <1>2 DEF StoredIsServed, Live
<1>5. QED
  BY <1>1, <1>3, <1>4 DEF Good, Live

LEMMA AdmissionInit == Init => AdmissionInv
<1> SUFFICES ASSUME Init PROVE AdmissionInv
  OBVIOUS
<1>1. Live(sessions) = {} /\ Live(rows) = {}
  BY DEF Init, Live
<1>2. IsFiniteSet({}) /\ Cardinality({}) = 0
  BY FS_EmptySet
<1>3. Good(sessions) /\ Good(rows)
  BY <1>1, <1>2, GateAssumption DEF Init, Good
<1>4. FoundInv
  BY IdleFound DEF Init, FoundInv
<1>5. QED
  BY <1>1, <1>3, <1>4 DEF Init, AdmissionInv, StoredIsServed, DownInv

\* Most steps leave the map and the table as they are.
LEMMA AdmissionFrame ==
  ASSUME AdmissionInv, UNCHANGED <<up, sessions, rows>>, FoundInv', DownInv'
  PROVE  AdmissionInv'
  BY DEF AdmissionInv, Good, StoredIsServed, Live

LEMMA AdmissionStep == TypeInv /\ AdmissionInv /\ [Next]_vars => AdmissionInv'
<1> SUFFICES ASSUME TypeInv, AdmissionInv, [Next]_vars
             PROVE  AdmissionInv'
  OBVIOUS
<1>a. Maps /\ JobInv /\ FoundInv /\ DownInv
  BY DEF TypeInv, AdmissionInv
<1>b. \A h \in Handlers : job[h] \in Job /\ Shape(job[h]) /\ Found(job[h])
  BY <1>a DEF JobInv, FoundInv
<1>1. ASSUME NEW h \in Handlers, NEW t \in Teams, CreateCheck(h, t)
      PROVE  AdmissionInv'
  <2> DEFINE r == [Idle EXCEPT !.pc = "admit", !.team = t]
  <2>1. up /\ UNCHANGED <<up, sessions, rows>>
    BY <1>1 DEF CreateCheck, At, memory, tables
  <2>2. Found(r)
    BY <1>a DEF Found, Idle, Creating, Serving
  <2>3. FoundInv'
    BY <1>1, <1>a, <2>1, <2>2, FoundStep DEF CreateCheck
  <2>4. QED
    BY <2>1, <2>3, AdmissionFrame DEF DownInv
<1>2. ASSUME NEW h \in Handlers, CreateExisting(h)
      PROVE  AdmissionInv'
  <2>1. up /\ UNCHANGED <<up, sessions, rows>>
    BY <1>2 DEF CreateExisting, memory, tables, At
  <2>2. FoundInv'
    BY <1>2, <1>a, <2>1, DoneFound DEF CreateExisting
  <2>3. QED
    BY <2>1, <2>2, AdmissionFrame DEF DownInv
<1>3. ASSUME NEW h \in Handlers, CreateRefused(h)
      PROVE  AdmissionInv'
  <2>1. up /\ UNCHANGED <<up, sessions, rows>>
    BY <1>3 DEF CreateRefused, memory, tables, At
  <2>2. FoundInv'
    BY <1>3, <1>a, <2>1, DoneFound DEF CreateRefused
  <2>3. QED
    BY <2>1, <2>2, AdmissionFrame DEF DownInv
<1>4. ASSUME NEW h \in Handlers, NEW i \in Ids, CreateSession(h, i)
      PROVE  AdmissionInv'
  <2> DEFINE t == job[h].team
             r == [job[h] EXCEPT !.pc = "saveRow", !.id = i]
  <2>1. t \in Teams /\ t # None
    BY <1>4, <1>b, GateAssumption DEF CreateSession, At, Shape
  <2>2. sessions[i] = None /\ rows[i] = None
    BY <1>4 DEF CreateSession, Unused
  <2>3. sessions' = [sessions EXCEPT ![i] = t] /\ UNCHANGED <<up, rows>> /\ up
    BY <1>4 DEF CreateSession, At, tables
  <2>4. sessions \in [Ids -> Teams \union {None}] /\ Good(sessions)
    BY <1>a DEF Maps, AdmissionInv
  <2>5. /\ \A j \in Live(sessions) : sessions[j] # t
        /\ ~(MaxConcurrent > 0 /\ Cardinality(Live(sessions)) >= MaxConcurrent)
    BY <1>4 DEF CreateSession, HasSession, Full
  <2>6. Good(sessions')
    BY <2>1, <2>2, <2>3, <2>4, <2>5, Admitted
  <2>7. StoredIsServed'
    BY <2>2, <2>3, <2>4 DEF AdmissionInv, StoredIsServed, Live
  <2>8. ASSUME NEW g \in Handlers
        PROVE  /\ job'[g].pc \in Creating => sessions'[job'[g].id] = job'[g].team
               /\ job'[g].pc \in Serving => sessions'[job'[g].id] # None
    <3>1. CASE g # h
      <4>1. job'[g] = job[g]
        BY <1>4, <1>a, <3>1 DEF CreateSession, JobInv
      <4>2. job[g].pc \in Creating \union Serving => job[g].id \in Ids /\ job[g].id # i
        <5>1. job[g].pc \in Creating => job[g].id \in Ids /\ sessions[job[g].id] # None
          BY <1>b, GateAssumption DEF Found, Shape
        <5>2. job[g].pc \in Serving => job[g].id \in Ids /\ sessions[job[g].id] # None
          BY <1>b DEF Found, Shape
        <5>3. QED
          BY <5>1, <5>2, <2>2
      <4>3. QED
        BY <4>1, <4>2, <1>b, <2>3, <2>4 DEF Found
    <3>2. CASE g = h
      <4>1. job'[h] = r
        BY <1>4, <1>a DEF CreateSession, JobInv
      <4>2. r.pc = "saveRow" /\ r.id = i /\ r.team = t
        BY <1>b DEF Job
      <4>3. QED
        BY <3>2, <4>1, <4>2, <2>3, <2>4 DEF Creating, Serving
    <3>3. QED
      BY <3>1, <3>2
  <2>9. FoundInv'
    BY <2>8 DEF FoundInv, Found
  <2>10. QED
    BY <2>3, <2>6, <2>7, <2>9 DEF AdmissionInv, DownInv, Good, Live
<1>5. ASSUME NEW h \in Handlers, CreateSaveRow(h)
      PROVE  AdmissionInv'
  <2> DEFINE r == [job[h] EXCEPT !.pc = "saveMeta"]
             i == job[h].id
  <2>1. up /\ UNCHANGED <<up, sessions>> /\ i \in Ids /\ sessions[i] # None
    BY <1>5, <1>b, GateAssumption DEF CreateSaveRow, At, memory, Shape, Found, Creating
  <2>2. rows' = [rows EXCEPT ![i] = sessions[i]]
    BY <1>5, <1>b DEF CreateSaveRow, At, Found, Creating
  <2>3. rows \in [Ids -> Teams \union {None}]
    BY <1>a DEF Maps
  <2>4. Good(sessions)' /\ Good(rows)' /\ StoredIsServed'
    BY <2>1, <2>2, <2>3, RowStored
  <2>5. Found(r)
    BY <1>5, <1>b, <2>1 DEF CreateSaveRow, At, Job, Found, Creating, Serving
  <2>6. FoundInv'
    BY <1>5, <1>a, <2>1, <2>5, FoundStep DEF CreateSaveRow, Goto
  <2>7. QED
    BY <2>1, <2>4, <2>6 DEF AdmissionInv, DownInv
<1>6. ASSUME NEW h \in Handlers, CreateSaveMeta(h)
      PROVE  AdmissionInv'
  <2>1. up /\ UNCHANGED <<up, sessions, rows>>
    BY <1>6 DEF CreateSaveMeta, memory, At
  <2>2. FoundInv'
    BY <1>6, <1>a, <2>1, DoneFound DEF CreateSaveMeta
  <2>3. QED
    BY <2>1, <2>2, AdmissionFrame DEF DownInv
<1>7. ASSUME NEW h \in Handlers, CreateFails(h)
      PROVE  AdmissionInv'
  <2>1. up /\ UNCHANGED <<up, sessions, rows>>
    BY <1>7 DEF CreateFails, memory, tables, At
  <2>2. FoundInv'
    BY <1>7, <1>a, <2>1, DoneFound DEF CreateFails
  <2>3. QED
    BY <2>1, <2>2, AdmissionFrame DEF DownInv
<1>8. ASSUME NEW h \in Handlers, NEW i \in Ids, NEW kind \in Kinds, Touch(h, i, kind)
      PROVE  AdmissionInv'
  <2> DEFINE r == [Idle EXCEPT !.pc = "gate", !.id = i, !.kind = kind, !.arrived = now]
  <2>1. up /\ UNCHANGED <<up, sessions, rows>>
    BY <1>8 DEF Touch, Free, tables
  <2>2. Found(r)
    BY <1>8 DEF Touch, Found, Idle, Creating, Serving
  <2>3. FoundInv'
    BY <1>8, <1>a, <2>1, <2>2, FoundStep DEF Touch
  <2>4. QED
    BY <2>1, <2>3, AdmissionFrame DEF DownInv
<1>9. ASSUME NEW h \in Handlers, Gate(h)
      PROVE  AdmissionInv'
  <2>1. up /\ UNCHANGED <<up, sessions, rows>>
    BY <1>9 DEF Gate, At, memory, tables
  <2>2. CASE Goto(h, "submit")
    <3> DEFINE r == [job[h] EXCEPT !.pc = "submit"]
    <3>1. Found(r)
      BY <1>9, <1>b DEF Gate, At, Job, Found, Creating, Serving
    <3>2. FoundInv'
      BY <2>2, <1>a, <2>1, <3>1, FoundStep DEF Goto
    <3>3. QED
      BY <2>1, <3>2, AdmissionFrame DEF DownInv
  <2>3. CASE Goto(h, "work")
    <3> DEFINE r == [job[h] EXCEPT !.pc = "work"]
    <3>1. Found(r)
      BY <1>9, <1>b DEF Gate, At, Job, Found, Creating, Serving
    <3>2. FoundInv'
      BY <2>3, <1>a, <2>1, <3>1, FoundStep DEF Goto
    <3>3. QED
      BY <2>1, <3>2, AdmissionFrame DEF DownInv
  <2>4. CASE Done(h)
    BY <2>1, <2>4, <1>a, DoneFound, AdmissionFrame DEF DownInv
  <2>5. QED
    BY <1>9, <2>2, <2>3, <2>4 DEF Gate
<1>10. ASSUME NEW h \in Handlers, SubmitGate(h)
      PROVE  AdmissionInv'
  <2>1. up /\ UNCHANGED <<up, sessions, rows>>
    BY <1>10 DEF SubmitGate, At, memory, tables
  <2>2. CASE Goto(h, "work")
    <3> DEFINE r == [job[h] EXCEPT !.pc = "work"]
    <3>1. Found(r)
      BY <1>10, <1>b DEF SubmitGate, At, Job, Found, Creating, Serving
    <3>2. FoundInv'
      BY <2>2, <1>a, <2>1, <3>1, FoundStep DEF Goto
    <3>3. QED
      BY <2>1, <3>2, AdmissionFrame DEF DownInv
  <2>3. CASE Done(h)
    BY <2>1, <2>3, <1>a, DoneFound, AdmissionFrame DEF DownInv
  <2>4. QED
    BY <1>10, <2>2, <2>3 DEF SubmitGate
<1>11. ASSUME NEW h \in Handlers, Work(h)
      PROVE  AdmissionInv'
  <2> DEFINE r == [job[h] EXCEPT !.pc = "row"]
  <2>1. up /\ UNCHANGED <<up, sessions, rows>>
    BY <1>11 DEF Work, At, memory, tables
  <2>2. Found(r)
    BY <1>11, <1>b DEF Work, At, Job, Found, Creating, Serving
  <2>3. FoundInv'
    BY <1>11, <1>a, <2>1, <2>2, FoundStep DEF Work, Goto
  <2>4. QED
    BY <2>1, <2>3, AdmissionFrame DEF DownInv
<1>12. ASSUME NEW h \in Handlers, NEW i \in Ids, JudgeSession(h, i)
      PROVE  AdmissionInv'
  <2> DEFINE r == [Idle EXCEPT !.pc = "row", !.id = i, !.kind = "judge"]
  <2>1. up /\ UNCHANGED <<up, sessions, rows>>
    BY <1>12 DEF JudgeSession, Free, memory, tables
  <2>2. Found(r)
    BY <1>12 DEF JudgeSession, Found, Idle, Creating, Serving
  <2>3. FoundInv'
    BY <1>12, <1>a, <2>1, <2>2, FoundStep DEF JudgeSession
  <2>4. QED
    BY <2>1, <2>3, AdmissionFrame DEF DownInv
<1>13. ASSUME NEW h \in Handlers, PersistRow(h)
      PROVE  AdmissionInv'
  <2> DEFINE r == [job[h] EXCEPT !.pc = "seen"]
             i == job[h].id
  <2>1. up /\ UNCHANGED <<up, sessions>> /\ i \in Ids /\ sessions[i] # None
    BY <1>13, <1>b, GateAssumption DEF PersistRow, At, memory, Shape, Found, Serving
  <2>2. rows' = [rows EXCEPT ![i] = sessions[i]]
    BY <1>13, <1>b DEF PersistRow, At, Found, Serving
  <2>3. rows \in [Ids -> Teams \union {None}]
    BY <1>a DEF Maps
  <2>4. Good(sessions)' /\ Good(rows)' /\ StoredIsServed'
    BY <2>1, <2>2, <2>3, RowStored
  <2>5. Found(r)
    BY <1>13, <1>b, <2>1 DEF PersistRow, At, Job, Found, Creating, Serving
  <2>6. FoundInv'
    BY <1>13, <1>a, <2>1, <2>5, FoundStep DEF PersistRow, Goto
  <2>7. QED
    BY <2>1, <2>4, <2>6 DEF AdmissionInv, DownInv
<1>14. ASSUME NEW h \in Handlers, PersistSeen(h)
      PROVE  AdmissionInv'
  <2> DEFINE seen == activity[job[h].id]
             r == [job[h] EXCEPT !.pc = "meta", !.seen = IF seen = 0 THEN now ELSE seen]
  <2>1. up /\ UNCHANGED <<up, sessions, rows>>
    BY <1>14 DEF PersistSeen, At, memory, tables
  <2>2. Found(r)
    BY <1>14, <1>b DEF PersistSeen, At, Job, Found, Creating, Serving
  <2>3. FoundInv'
    BY <1>14, <1>a, <2>1, <2>2, FoundStep DEF PersistSeen
  <2>4. QED
    BY <2>1, <2>3, AdmissionFrame DEF DownInv
<1>15. ASSUME NEW h \in Handlers, PersistMeta(h)
      PROVE  AdmissionInv'
  <2>1. up /\ UNCHANGED <<up, sessions, rows>>
    BY <1>15 DEF PersistMeta, memory, At
  <2>2. FoundInv'
    BY <1>15, <1>a, <2>1, DoneFound DEF PersistMeta
  <2>3. QED
    BY <2>1, <2>2, AdmissionFrame DEF DownInv
<1>16. ASSUME NEW h \in Handlers, PersistFails(h)
      PROVE  AdmissionInv'
  <2>1. up /\ UNCHANGED <<up, sessions, rows>>
    BY <1>16 DEF PersistFails, memory, tables, At
  <2>2. FoundInv'
    BY <1>16, <1>a, <2>1, DoneFound DEF PersistFails
  <2>3. QED
    BY <2>1, <2>2, AdmissionFrame DEF DownInv
<1>17. ASSUME NEW i \in Ids, TerminalInput(i)
      PROVE  AdmissionInv'
  <2>1. UNCHANGED <<up, sessions, rows, job>>
    BY <1>17 DEF TerminalInput, memory, tables
  <2>2. QED
    BY <1>a, <2>1, AdmissionFrame DEF FoundInv, Found, DownInv
<1>18. ASSUME NEW i \in Ids, TerminalEnd(i)
      PROVE  AdmissionInv'
  <2>1. UNCHANGED <<up, sessions, rows, job>>
    BY <1>18 DEF TerminalEnd, memory, tables
  <2>2. QED
    BY <1>a, <2>1, AdmissionFrame DEF FoundInv, Found, DownInv
<1>19. ASSUME NEW o \in Organizers, NEW what \in {"close", "reopen"}, OrganizerSet(o, what)
      PROVE  AdmissionInv'
  <2>1. UNCHANGED <<up, sessions, rows, job>>
    BY <1>19 DEF OrganizerSet, tables
  <2>2. QED
    BY <1>a, <2>1, AdmissionFrame DEF FoundInv, Found, DownInv
<1>20. ASSUME NEW o \in Organizers, OrganizerStore(o)
      PROVE  AdmissionInv'
  <2>1. UNCHANGED <<up, sessions, rows, job>>
    BY <1>20 DEF OrganizerStore, memory
  <2>2. QED
    BY <1>a, <2>1, AdmissionFrame DEF FoundInv, Found, DownInv
<1>21. ASSUME Tick
      PROVE  AdmissionInv'
  <2>1. UNCHANGED <<up, sessions, rows, job>>
    BY <1>21 DEF Tick, memory, tables
  <2>2. QED
    BY <1>a, <2>1, AdmissionFrame DEF FoundInv, Found, DownInv
<1>22. ASSUME Crash
      PROVE  AdmissionInv'
  <2>1. UNCHANGED rows /\ ~up' /\ \A h \in Handlers : job'[h] = Idle
    BY <1>22 DEF Crash, tables
  <2>2. \A i \in Live(sessions') : FALSE
    BY <1>22 DEF Crash, Live
  <2>3. Good(sessions')
    BY <2>2, Contained DEF AdmissionInv
  <2>4. FoundInv'
    BY <2>1 DEF FoundInv, Found, Idle, Creating, Serving
  <2>5. QED
    BY <2>1, <2>3, <2>4 DEF AdmissionInv, Good, Live, StoredIsServed, DownInv
<1>23. ASSUME Recover
      PROVE  AdmissionInv'
  <2>1. sessions' = rows /\ UNCHANGED <<rows, job>> /\ up'
    BY <1>23 DEF Recover, tables
  <2>2. \A h \in Handlers : job[h] = Idle
    BY <1>23, <1>a DEF Recover, DownInv
  <2>3. FoundInv'
    BY <2>1, <2>2 DEF FoundInv, Found, Idle, Creating, Serving
  <2>4. QED
    BY <2>1, <2>3 DEF AdmissionInv, Good, Live, StoredIsServed, DownInv
<1>24. ASSUME UNCHANGED vars
      PROVE  AdmissionInv'
  <2>1. UNCHANGED <<up, sessions, rows, job>>
    BY <1>24 DEF vars, memory, tables
  <2>2. QED
    BY <1>a, <2>1, AdmissionFrame DEF FoundInv, Found, DownInv
<1>25. QED
  BY <1>1, <1>2, <1>3, <1>4, <1>5, <1>6, <1>7, <1>8, <1>9, <1>10, <1>11, <1>12, <1>13, <1>14, <1>15, <1>16, <1>17, <1>18, <1>19, <1>20, <1>21, <1>22, <1>23, <1>24 DEF Next, Continue

LEMMA Admission == Spec => [](TypeInv /\ AdmissionInv)
<1>1. Init => TypeInv /\ AdmissionInv
  BY TypeInit, AdmissionInit
<1>2. TypeInv /\ AdmissionInv /\ [Next]_vars => TypeInv' /\ AdmissionInv'
  BY TypeStep, AdmissionStep
<1>3. QED
  BY <1>1, <1>2, PTL DEF Spec

\* createSession gives a team one session, whoever races and whatever fails,
\* and recovery never serves two.
THEOREM AlwaysOneSessionPerTeam == Spec => []OneSessionPerTeam
<1>1. AdmissionInv => OneSessionPerTeam
  BY DEF AdmissionInv, Good, OneSessionPerTeam
<1>2. QED
  BY <1>1, Admission, PTL

\* MaxConcurrent bounds the sessions served and the sessions stored.
THEOREM AlwaysSessionLimit == Spec => []SessionLimit
<1>1. AdmissionInv => SessionLimit
  BY DEF AdmissionInv, Good, SessionLimit
<1>2. QED
  BY <1>1, Admission, PTL

\* A running server serves every session it has stored to its team.
THEOREM AlwaysStoredIsServed == Spec => []StoredIsServed
<1>1. AdmissionInv => StoredIsServed
  BY DEF AdmissionInv
<1>2. QED
  BY <1>1, Admission, PTL

-----------------------------------------------------------------------------
\* Expiry: stored activity is never newer than the server's own

\* One session's times.  Its row is older than its session_meta.
Times(i) ==
  /\ activity[i] <= now /\ meta[i] <= now
  /\ meta[i] # 0 => rows[i] # None
  /\ up => meta[i] <= activity[i] /\ (sessions[i] # None => activity[i] # 0)

\* What a request holds is not newer than the server's own time.
Held(j) ==
  /\ j.pc \in {"saveMeta", "seen", "meta"} => rows[j.id] # None
  /\ j.pc = "meta" => j.seen <= activity[j.id]

TimesInv == \A i \in Ids : Times(i)
HeldInv  == \A h \in Handlers : Held(job[h])

ExpiryInv == TimesInv /\ HeldInv

\* Rows stay and activity grows, so what the other requests hold stays old.
LEMMA HeldStep ==
  ASSUME Maps, Maps', JobInv, HeldInv,
         \A i \in Ids : /\ rows[i] # None => rows'[i] # None
                        /\ activity[i] <= activity'[i],
         NEW h \in Handlers, NEW r, job' = [job EXCEPT ![h] = r],
         r.pc \in {"saveMeta", "seen", "meta"} => rows'[r.id] # None,
         r.pc = "meta" => r.seen <= activity'[r.id]
  PROVE  HeldInv'
<1>1. job'[h] = r
  BY DEF JobInv
<1>2. ASSUME NEW g \in Handlers \ {h}
      PROVE  /\ job'[g].pc \in {"saveMeta", "seen", "meta"} => rows'[job'[g].id] # None
             /\ job'[g].pc = "meta" => job'[g].seen <= activity'[job'[g].id]
  <2>1. job'[g] = job[g] /\ Shape(job[g]) /\ Held(job[g]) /\ job[g].seen \in Nat
    BY DEF JobInv, HeldInv, Job, Time
  <2>2. CASE job[g].pc \in {"saveMeta", "seen", "meta"}
    <3>1. job[g].id \in Ids
      BY <2>1, <2>2 DEF Shape, Creating, Serving
    <3>2. activity[job[g].id] \in Nat /\ activity'[job[g].id] \in Nat
      BY <3>1 DEF Maps, Time
    <3>3. QED
      BY <2>1, <2>2, <3>1, <3>2 DEF Held
  <2>3. CASE job[g].pc \notin {"saveMeta", "seen", "meta"}
    BY <2>1, <2>3
  <2>4. QED
    BY <2>2, <2>3
<1>3. QED
  BY <1>1, <1>2 DEF HeldInv, Held

\* Most steps leave the times alone, and hold none.
LEMMA ExpiryFrame ==
  ASSUME Maps, Maps', JobInv, ExpiryInv,
         UNCHANGED <<up, now, sessions, activity, rows, meta>>,
         NEW h \in Handlers, NEW r, job' = [job EXCEPT ![h] = r],
         r.pc \notin {"saveMeta", "seen", "meta"}
  PROVE  ExpiryInv'
<1>1. \A i \in Ids : activity[i] <= activity'[i] /\ rows'[i] = rows[i]
  BY DEF Maps, Time
<1>2. HeldInv'
  BY <1>1, HeldStep DEF ExpiryInv
<1>3. TimesInv'
  BY DEF ExpiryInv, TimesInv, Times
<1>4. QED
  BY <1>2, <1>3 DEF ExpiryInv

LEMMA ExpiryInit == Init => ExpiryInv
<1> SUFFICES ASSUME Init PROVE ExpiryInv
  OBVIOUS
<1>1. TimesInv
  BY DEF Init, TimesInv, Times
<1>2. HeldInv
  BY DEF Init, HeldInv, Held, Idle
<1>3. QED
  BY <1>1, <1>2 DEF ExpiryInv

LEMMA ExpiryStep ==
  TypeInv /\ TypeInv' /\ AdmissionInv /\ ExpiryInv /\ [Next]_vars => ExpiryInv'
<1> SUFFICES ASSUME TypeInv, TypeInv', AdmissionInv, ExpiryInv, [Next]_vars
             PROVE  ExpiryInv'
  OBVIOUS
<1>a. /\ Maps /\ Maps' /\ JobInv /\ FoundInv /\ DownInv
      /\ TimesInv /\ HeldInv /\ StoredIsServed
  BY DEF TypeInv, AdmissionInv, ExpiryInv
<1>b. \A h \in Handlers : job[h] \in Job /\ Shape(job[h]) /\ Found(job[h]) /\ Held(job[h])
  BY <1>a DEF JobInv, FoundInv, HeldInv
<1>c. \A i \in Ids : /\ activity[i] \in Nat /\ activity'[i] \in Nat
                     /\ meta[i] \in Nat /\ meta'[i] \in Nat
  BY <1>a DEF Maps, Time
<1>d. now \in Nat \ {0} /\ now' \in Nat \ {0}
  BY <1>a DEF Maps, Time
<1>e. \A i \in Ids : Times(i)
  BY <1>a DEF TimesInv
<1>1. ASSUME NEW h \in Handlers, NEW t \in Teams, CreateCheck(h, t)
      PROVE  ExpiryInv'
  <2> DEFINE r == [Idle EXCEPT !.pc = "admit", !.team = t]
  <2>1. job' = [job EXCEPT ![h] = r] /\ UNCHANGED <<up, now, sessions, activity, rows, meta>>
    BY <1>1 DEF CreateCheck, memory, tables
  <2>2. r.pc \notin {"saveMeta", "seen", "meta"}
    BY DEF Idle
  <2>3. QED
    BY <1>a, <2>1, <2>2, ExpiryFrame DEF ExpiryInv
<1>2. ASSUME NEW h \in Handlers, CreateExisting(h)
      PROVE  ExpiryInv'
  <2> DEFINE r == Idle
  <2>1. job' = [job EXCEPT ![h] = r] /\ UNCHANGED <<up, now, sessions, activity, rows, meta>>
    BY <1>2 DEF CreateExisting, memory, tables, Done
  <2>2. r.pc \notin {"saveMeta", "seen", "meta"}
    BY DEF Idle
  <2>3. QED
    BY <1>a, <2>1, <2>2, ExpiryFrame DEF ExpiryInv
<1>3. ASSUME NEW h \in Handlers, CreateRefused(h)
      PROVE  ExpiryInv'
  <2> DEFINE r == Idle
  <2>1. job' = [job EXCEPT ![h] = r] /\ UNCHANGED <<up, now, sessions, activity, rows, meta>>
    BY <1>3 DEF CreateRefused, memory, tables, Done
  <2>2. r.pc \notin {"saveMeta", "seen", "meta"}
    BY DEF Idle
  <2>3. QED
    BY <1>a, <2>1, <2>2, ExpiryFrame DEF ExpiryInv
<1>4. ASSUME NEW h \in Handlers, NEW i \in Ids, CreateSession(h, i)
      PROVE  ExpiryInv'
  <2> DEFINE r == [job[h] EXCEPT !.pc = "saveRow", !.id = i]
  <2>1. /\ job' = [job EXCEPT ![h] = r] /\ UNCHANGED <<up, now, rows, meta>>
        /\ activity' = [activity EXCEPT ![i] = now]
        /\ \A j \in Ids : j # i => sessions'[j] = sessions[j]
    BY <1>4, <1>a DEF CreateSession, tables, Maps
  <2>2. \A j \in Ids : activity'[j] = IF j = i THEN now ELSE activity[j]
    BY <2>1, <1>a DEF Maps
  <2>3. \A j \in Ids : activity[j] <= activity'[j] /\ rows'[j] = rows[j]
    BY <2>1, <2>2, <1>c, <1>d, <1>e DEF Times
  <2>4. r.pc \notin {"saveMeta", "seen", "meta"}
    BY <1>b DEF Job
  <2>5. HeldInv'
    BY <1>a, <2>1, <2>3, <2>4, HeldStep
  <2>6. TimesInv'
    BY <1>c, <1>d, <1>e, <2>1, <2>2 DEF TimesInv, Times
  <2>7. QED
    BY <2>5, <2>6 DEF ExpiryInv
<1>5. ASSUME NEW h \in Handlers, CreateSaveRow(h)
      PROVE  ExpiryInv'
  <2> DEFINE r == [job[h] EXCEPT !.pc = "saveMeta"]
             i == job[h].id
  <2>1. i \in Ids /\ sessions[i] # None
    BY <1>5, <1>b, GateAssumption DEF CreateSaveRow, At, Shape, Found, Creating
  <2>2. /\ job' = [job EXCEPT ![h] = r] /\ UNCHANGED <<up, now, sessions, activity, meta>>
        /\ rows' = [rows EXCEPT ![i] = sessions[i]]
    BY <1>5, <1>b DEF CreateSaveRow, At, Goto, memory, Found, Creating
  <2>3. \A j \in Ids : rows'[j] = IF j = i THEN sessions[i] ELSE rows[j]
    BY <2>2, <1>a DEF Maps
  <2>4. r.pc = "saveMeta" /\ r.id = i
    BY <1>b DEF Job
  <2>5. \A j \in Ids : activity[j] <= activity'[j] /\ (rows[j] # None => rows'[j] # None)
    BY <2>1, <2>2, <2>3, <1>c
  <2>6. HeldInv'
    BY <1>a, <2>1, <2>2, <2>3, <2>4, <2>5, HeldStep
  <2>7. TimesInv'
    BY <1>e, <2>1, <2>2, <2>3 DEF TimesInv, Times
  <2>8. QED
    BY <2>6, <2>7 DEF ExpiryInv
<1>6. ASSUME NEW h \in Handlers, CreateSaveMeta(h)
      PROVE  ExpiryInv'
  <2> DEFINE i == job[h].id
             t == activity[job[h].id]
  <2>1. up /\ i \in Ids /\ rows[i] # None /\ t \in Nat /\ t <= activity[i]
    <3>1. up /\ job[h].pc = "saveMeta"
      BY <1>6 DEF CreateSaveMeta, At
    <3>2. i \in Ids
      BY <1>b, <3>1 DEF Shape, Creating
    <3>3. QED
      BY <1>b, <1>c, <3>1, <3>2 DEF Held, Job, Time
  <2>2. /\ job' = [job EXCEPT ![h] = Idle] /\ UNCHANGED <<up, now, sessions, activity, rows>>
        /\ meta' = [meta EXCEPT ![i] = t]
    BY <1>6 DEF CreateSaveMeta, Done, memory
  <2>3. \A j \in Ids : meta'[j] = IF j = i THEN t ELSE meta[j]
    BY <2>2, <1>a DEF Maps
  <2>4. \A j \in Ids : activity[j] <= activity'[j] /\ rows'[j] = rows[j]
    BY <2>2, <1>c
  <2>5. HeldInv'
    BY <1>a, <2>2, <2>4, HeldStep DEF Idle
  <2>6. TimesInv'
    BY <1>c, <1>d, <1>e, <2>1, <2>2, <2>3 DEF TimesInv, Times
  <2>7. QED
    BY <2>5, <2>6 DEF ExpiryInv
<1>7. ASSUME NEW h \in Handlers, CreateFails(h)
      PROVE  ExpiryInv'
  <2> DEFINE r == Idle
  <2>1. job' = [job EXCEPT ![h] = r] /\ UNCHANGED <<up, now, sessions, activity, rows, meta>>
    BY <1>7 DEF CreateFails, memory, tables, Done
  <2>2. r.pc \notin {"saveMeta", "seen", "meta"}
    BY DEF Idle
  <2>3. QED
    BY <1>a, <2>1, <2>2, ExpiryFrame DEF ExpiryInv
<1>8. ASSUME NEW h \in Handlers, NEW i \in Ids, NEW kind \in Kinds, Touch(h, i, kind)
      PROVE  ExpiryInv'
  <2> DEFINE r == [Idle EXCEPT !.pc = "gate", !.id = i, !.kind = kind, !.arrived = now]
  <2>1. /\ job' = [job EXCEPT ![h] = r] /\ UNCHANGED <<up, now, rows, meta>>
        /\ activity' = [activity EXCEPT ![i] = now]
        /\ \A j \in Ids : j # i => sessions'[j] = sessions[j]
    BY <1>8, <1>a DEF Touch, tables, Maps
  <2>2. \A j \in Ids : activity'[j] = IF j = i THEN now ELSE activity[j]
    BY <2>1, <1>a DEF Maps
  <2>3. \A j \in Ids : activity[j] <= activity'[j] /\ rows'[j] = rows[j]
    BY <2>1, <2>2, <1>c, <1>d, <1>e DEF Times
  <2>4. r.pc \notin {"saveMeta", "seen", "meta"}
    BY DEF Idle
  <2>5. HeldInv'
    BY <1>a, <2>1, <2>3, <2>4, HeldStep
  <2>6. TimesInv'
    BY <1>c, <1>d, <1>e, <2>1, <2>2 DEF TimesInv, Times
  <2>7. QED
    BY <2>5, <2>6 DEF ExpiryInv
<1>9. ASSUME NEW h \in Handlers, Gate(h)
      PROVE  ExpiryInv'
  <2>1. UNCHANGED <<up, now, sessions, activity, rows, meta>>
    BY <1>9 DEF Gate, memory, tables
  <2>2. CASE Goto(h, "submit")
    <3>1. [job[h] EXCEPT !.pc = "submit"].pc = "submit"
      BY <1>b DEF Job
    <3>2. QED
      BY <2>2, <1>a, <2>1, <3>1, ExpiryFrame DEF Goto, ExpiryInv
  <2>3. CASE Goto(h, "work")
    <3>1. [job[h] EXCEPT !.pc = "work"].pc = "work"
      BY <1>b DEF Job
    <3>2. QED
      BY <2>3, <1>a, <2>1, <3>1, ExpiryFrame DEF Goto, ExpiryInv
  <2>4. CASE Done(h)
    BY <2>4, <1>a, <2>1, ExpiryFrame DEF Done, Idle, ExpiryInv
  <2>5. QED
    BY <1>9, <2>2, <2>3, <2>4 DEF Gate
<1>10. ASSUME NEW h \in Handlers, SubmitGate(h)
      PROVE  ExpiryInv'
  <2>1. UNCHANGED <<up, now, sessions, activity, rows, meta>>
    BY <1>10 DEF SubmitGate, memory, tables
  <2>2. CASE Goto(h, "work")
    <3>1. [job[h] EXCEPT !.pc = "work"].pc = "work"
      BY <1>b DEF Job
    <3>2. QED
      BY <2>2, <1>a, <2>1, <3>1, ExpiryFrame DEF Goto, ExpiryInv
  <2>3. CASE Done(h)
    BY <2>3, <1>a, <2>1, ExpiryFrame DEF Done, Idle, ExpiryInv
  <2>4. QED
    BY <1>10, <2>2, <2>3 DEF SubmitGate
<1>11. ASSUME NEW h \in Handlers, Work(h)
      PROVE  ExpiryInv'
  <2> DEFINE r == [job[h] EXCEPT !.pc = "row"]
  <2>1. job' = [job EXCEPT ![h] = r] /\ UNCHANGED <<up, now, sessions, activity, rows, meta>>
    BY <1>11 DEF Work, memory, tables, Goto
  <2>2. r.pc \notin {"saveMeta", "seen", "meta"}
    BY <1>b DEF Job
  <2>3. QED
    BY <1>a, <2>1, <2>2, ExpiryFrame DEF ExpiryInv
<1>12. ASSUME NEW h \in Handlers, NEW i \in Ids, JudgeSession(h, i)
      PROVE  ExpiryInv'
  <2> DEFINE r == [Idle EXCEPT !.pc = "row", !.id = i, !.kind = "judge"]
  <2>1. job' = [job EXCEPT ![h] = r] /\ UNCHANGED <<up, now, sessions, activity, rows, meta>>
    BY <1>12 DEF JudgeSession, memory, tables
  <2>2. r.pc \notin {"saveMeta", "seen", "meta"}
    BY DEF Idle
  <2>3. QED
    BY <1>a, <2>1, <2>2, ExpiryFrame DEF ExpiryInv
<1>13. ASSUME NEW h \in Handlers, PersistRow(h)
      PROVE  ExpiryInv'
  <2> DEFINE r == [job[h] EXCEPT !.pc = "seen"]
             i == job[h].id
  <2>1. i \in Ids /\ sessions[i] # None
    BY <1>13, <1>b, GateAssumption DEF PersistRow, At, Shape, Found, Serving
  <2>2. /\ job' = [job EXCEPT ![h] = r] /\ UNCHANGED <<up, now, sessions, activity, meta>>
        /\ rows' = [rows EXCEPT ![i] = sessions[i]]
    BY <1>13, <1>b DEF PersistRow, At, Goto, memory, Found, Serving
  <2>3. \A j \in Ids : rows'[j] = IF j = i THEN sessions[i] ELSE rows[j]
    BY <2>2, <1>a DEF Maps
  <2>4. r.pc = "seen" /\ r.id = i
    BY <1>b DEF Job
  <2>5. \A j \in Ids : activity[j] <= activity'[j] /\ (rows[j] # None => rows'[j] # None)
    BY <2>1, <2>2, <2>3, <1>c
  <2>6. HeldInv'
    BY <1>a, <2>1, <2>2, <2>3, <2>4, <2>5, HeldStep
  <2>7. TimesInv'
    BY <1>e, <2>1, <2>2, <2>3 DEF TimesInv, Times
  <2>8. QED
    BY <2>6, <2>7 DEF ExpiryInv
<1>14. ASSUME NEW h \in Handlers, PersistSeen(h)
      PROVE  ExpiryInv'
  <2> DEFINE i == job[h].id
             t == IF activity[i] = 0 THEN now ELSE activity[i]
             r == [job[h] EXCEPT !.pc = "meta", !.seen = t]
  <2>1. up /\ i \in Ids /\ sessions[i] # None /\ rows[i] # None
    BY <1>14, <1>b DEF PersistSeen, At, Shape, Found, Held, Serving
  <2>2. t = activity[i]
    BY <1>e, <2>1 DEF Times
  <2>3. r.pc = "meta" /\ r.id = i /\ r.seen = t
    BY <1>b DEF Job
  <2>4. job' = [job EXCEPT ![h] = r] /\ UNCHANGED <<up, now, sessions, activity, rows, meta>>
    BY <1>14 DEF PersistSeen, memory, tables
  <2>5. \A j \in Ids : activity[j] <= activity'[j] /\ rows'[j] = rows[j]
    BY <2>4, <1>c
  <2>6. HeldInv'
    <3>1. rows'[r.id] # None /\ r.seen <= activity'[r.id]
      BY <2>1, <2>2, <2>3, <2>4, <1>c
    <3>2. QED
      BY <1>a, <2>4, <2>5, <3>1, HeldStep
  <2>7. TimesInv'
    BY <1>e, <2>4 DEF TimesInv, Times
  <2>8. QED
    BY <2>6, <2>7 DEF ExpiryInv
<1>15. ASSUME NEW h \in Handlers, PersistMeta(h)
      PROVE  ExpiryInv'
  <2> DEFINE i == job[h].id
             t == job[h].seen
  <2>1. up /\ i \in Ids /\ rows[i] # None /\ t \in Nat /\ t <= activity[i]
    <3>1. up /\ job[h].pc = "meta"
      BY <1>15 DEF PersistMeta, At
    <3>2. i \in Ids
      BY <1>b, <3>1 DEF Shape, Serving
    <3>3. QED
      BY <1>b, <1>c, <3>1, <3>2 DEF Held, Job, Time
  <2>2. /\ job' = [job EXCEPT ![h] = Idle] /\ UNCHANGED <<up, now, sessions, activity, rows>>
        /\ meta' = [meta EXCEPT ![i] = t]
    BY <1>15 DEF PersistMeta, Done, memory
  <2>3. \A j \in Ids : meta'[j] = IF j = i THEN t ELSE meta[j]
    BY <2>2, <1>a DEF Maps
  <2>4. \A j \in Ids : activity[j] <= activity'[j] /\ rows'[j] = rows[j]
    BY <2>2, <1>c
  <2>5. HeldInv'
    BY <1>a, <2>2, <2>4, HeldStep DEF Idle
  <2>6. TimesInv'
    BY <1>c, <1>d, <1>e, <2>1, <2>2, <2>3 DEF TimesInv, Times
  <2>7. QED
    BY <2>5, <2>6 DEF ExpiryInv
<1>16. ASSUME NEW h \in Handlers, PersistFails(h)
      PROVE  ExpiryInv'
  <2> DEFINE r == Idle
  <2>1. job' = [job EXCEPT ![h] = r] /\ UNCHANGED <<up, now, sessions, activity, rows, meta>>
    BY <1>16 DEF PersistFails, memory, tables, Done
  <2>2. r.pc \notin {"saveMeta", "seen", "meta"}
    BY DEF Idle
  <2>3. QED
    BY <1>a, <2>1, <2>2, ExpiryFrame DEF ExpiryInv
<1>17. ASSUME NEW i \in Ids, TerminalInput(i)
      PROVE  ExpiryInv'
  <2>1. UNCHANGED <<up, now, sessions, activity, rows, meta, job>>
    BY <1>17 DEF TerminalInput, memory, tables
  <2>2. QED
    BY <1>a, <2>1 DEF ExpiryInv, TimesInv, Times, HeldInv, Held
<1>18. ASSUME NEW i \in Ids, TerminalEnd(i)
      PROVE  ExpiryInv'
  <2>1. UNCHANGED <<up, now, sessions, activity, rows, meta, job>>
    BY <1>18 DEF TerminalEnd, memory, tables
  <2>2. QED
    BY <1>a, <2>1 DEF ExpiryInv, TimesInv, Times, HeldInv, Held
<1>19. ASSUME NEW o \in Organizers, NEW what \in {"close", "reopen"}, OrganizerSet(o, what)
      PROVE  ExpiryInv'
  <2>1. UNCHANGED <<up, now, sessions, activity, rows, meta, job>>
    BY <1>19 DEF OrganizerSet, tables
  <2>2. QED
    BY <1>a, <2>1 DEF ExpiryInv, TimesInv, Times, HeldInv, Held
<1>20. ASSUME NEW o \in Organizers, OrganizerStore(o)
      PROVE  ExpiryInv'
  <2>1. UNCHANGED <<up, now, sessions, activity, rows, meta, job>>
    BY <1>20 DEF OrganizerStore, memory
  <2>2. QED
    BY <1>a, <2>1 DEF ExpiryInv, TimesInv, Times, HeldInv, Held
<1>21. ASSUME Tick
      PROVE  ExpiryInv'
  <2>1. now' = now + 1 /\ UNCHANGED <<up, sessions, activity, rows, meta, job>>
    BY <1>21 DEF Tick, memory, tables
  <2>2. TimesInv'
    BY <1>c, <1>d, <1>e, <2>1 DEF TimesInv, Times
  <2>3. HeldInv'
    BY <1>a, <2>1 DEF HeldInv, Held
  <2>4. QED
    BY <2>2, <2>3 DEF ExpiryInv
<1>22. ASSUME Crash
      PROVE  ExpiryInv'
  <2>1. /\ ~up' /\ UNCHANGED <<now, rows, meta>>
        /\ \A i \in Ids : activity'[i] = 0
        /\ \A h \in Handlers : job'[h] = Idle
    BY <1>22 DEF Crash, tables
  <2>2. TimesInv'
    BY <1>d, <1>e, <2>1 DEF TimesInv, Times
  <2>3. HeldInv'
    BY <2>1 DEF HeldInv, Held, Idle
  <2>4. QED
    BY <2>2, <2>3 DEF ExpiryInv
<1>23. ASSUME Recover
      PROVE  ExpiryInv'
  <2>1. /\ up' /\ sessions' = rows /\ UNCHANGED <<now, rows, meta, job>>
        /\ \A i \in Ids : activity'[i] = IF rows[i] = None THEN 0
                                        ELSE IF meta[i] = 0 THEN now ELSE meta[i]
    BY <1>23 DEF Recover, tables
  <2>2. \A h \in Handlers : job'[h] = Idle
    BY <1>23, <1>a, <2>1 DEF Recover, DownInv
  <2>3. TimesInv'
    BY <1>c, <1>d, <1>e, <2>1 DEF TimesInv, Times
  <2>4. HeldInv'
    BY <2>2 DEF HeldInv, Held, Idle
  <2>5. QED
    BY <2>3, <2>4 DEF ExpiryInv
<1>24. ASSUME UNCHANGED vars
      PROVE  ExpiryInv'
  <2>1. UNCHANGED <<up, now, sessions, activity, rows, meta, job>>
    BY <1>24 DEF vars, memory, tables
  <2>2. QED
    BY <1>a, <2>1 DEF ExpiryInv, TimesInv, Times, HeldInv, Held
<1>25. QED
  BY <1>1, <1>2, <1>3, <1>4, <1>5, <1>6, <1>7, <1>8, <1>9, <1>10, <1>11, <1>12, <1>13, <1>14, <1>15, <1>16, <1>17, <1>18, <1>19, <1>20, <1>21, <1>22, <1>23, <1>24 DEF Next, Continue

\* One session in one step: an expired one is not used later than it was.
NotRevived(i) ==
  /\ Exists(i) /\ ~Undated(i)
  /\ IdleTimeout > 0 /\ now - LastUse(i) > IdleTimeout
  => (LastUse(i))' <= LastUse(i)

LEMMA ExpiryKept ==
  TypeInv /\ TypeInv' /\ AdmissionInv /\ ExpiryInv /\ [Next]_vars
    => \A i \in Ids : NotRevived(i)
<1> SUFFICES ASSUME TypeInv, TypeInv', AdmissionInv, ExpiryInv, [Next]_vars,
                    NEW i \in Ids, Exists(i), ~Undated(i), IdleTimeout > 0,
                    now - LastUse(i) > IdleTimeout
             PROVE  (LastUse(i))' <= LastUse(i)
  BY DEF NotRevived
<1>a. Maps /\ Maps' /\ Times(i)
  BY DEF TypeInv, ExpiryInv, TimesInv
<1>b. activity[i] \in Nat /\ activity'[i] \in Nat /\ meta[i] \in Nat /\ meta'[i] \in Nat
  BY <1>a DEF Maps, Time
<1>c. (up => sessions[i] # None) /\ (~up => rows[i] # None /\ meta[i] # 0)
  BY DEF Exists, Undated
<1>1. CASE Crash
  BY <1>1, <1>a, <1>b DEF Crash, LastUse, Times, tables
<1>2. CASE Recover
  BY <1>2, <1>b, <1>c DEF Recover, LastUse, tables
<1>3. ASSUME NEW h \in Handlers, NEW j \in Ids, NEW kind \in Kinds, Touch(h, j, kind)
      PROVE  (LastUse(i))' <= LastUse(i)
  <2>1. up /\ up' = up /\ activity' = [activity EXCEPT ![j] = now] /\ ~Expired(j)
    BY <1>3 DEF Touch, Free
  <2>2. j # i
    BY <2>1 DEF Expired, LastUse
  <2>3. QED
    BY <1>a, <1>b, <2>1, <2>2 DEF LastUse, Maps
<1>4. ASSUME NEW h \in Handlers, NEW j \in Ids, CreateSession(h, j)
      PROVE  (LastUse(i))' <= LastUse(i)
  <2>1. up /\ up' = up /\ activity' = [activity EXCEPT ![j] = now] /\ sessions[j] = None
    BY <1>4 DEF CreateSession, Free, Unused
  <2>2. QED
    BY <1>a, <1>b, <1>c, <2>1 DEF LastUse, Maps
<1>5. ASSUME up, up' = up, activity' = activity
      PROVE  (LastUse(i))' <= LastUse(i)
  BY <1>5, <1>b DEF LastUse
<1>6. CASE Tick \/ UNCHANGED vars
  BY <1>6, <1>b DEF Tick, vars, memory, tables, LastUse
<1>7. ASSUME NEW h \in Handlers, Continue(h)
      PROVE  \/ up /\ up' = up /\ activity' = activity
             \/ \E j \in Ids : CreateSession(h, j)
  BY <1>7 DEF Continue, CreateExisting, CreateRefused, CreateSaveRow, CreateSaveMeta,
     Gate, SubmitGate, Work, PersistRow, PersistSeen, PersistMeta, At, memory
<1>8. ASSUME NEW h \in Handlers, CreateFails(h) \/ PersistFails(h)
      PROVE  up /\ up' = up /\ activity' = activity
  BY <1>8 DEF CreateFails, PersistFails, At, memory
<1>9. ASSUME NEW h \in Handlers,
             \/ \E t \in Teams : CreateCheck(h, t)
             \/ \E j \in Ids : JudgeSession(h, j)
      PROVE  up /\ up' = up /\ activity' = activity
  BY <1>9 DEF CreateCheck, JudgeSession, At, memory
<1>10. ASSUME \/ \E j \in Ids : TerminalInput(j) \/ TerminalEnd(j)
              \/ \E o \in Organizers :
                   \/ \E what \in {"close", "reopen"} : OrganizerSet(o, what)
                   \/ OrganizerStore(o)
       PROVE  up /\ up' = up /\ activity' = activity
  BY <1>10 DEF TerminalInput, TerminalEnd, OrganizerSet, OrganizerStore, Free, memory
<1>11. QED
  BY <1>1, <1>2, <1>3, <1>4, <1>5, <1>6, <1>7, <1>8, <1>9, <1>10 DEF Next

\* A session that was idle too long stays expired, whatever requests, stale
\* saves, failing statements and restarts follow, unless the next start finds
\* it undated: then, and only then, a start counts it as used just now.
THEOREM ExpiryNeverUndone == Spec => ExpiryIsFinal
<1>1. Init => TypeInv /\ AdmissionInv /\ ExpiryInv
  BY TypeInit, AdmissionInit, ExpiryInit
<1>2. TypeInv /\ AdmissionInv /\ ExpiryInv /\ [Next]_vars
        => TypeInv' /\ AdmissionInv' /\ ExpiryInv'
  BY TypeStep, AdmissionStep, ExpiryStep
<1>3. TypeInv /\ AdmissionInv /\ ExpiryInv /\ [Next]_vars
        => [\A i \in Ids :
              /\ Exists(i) /\ ~Undated(i)
              /\ IdleTimeout > 0 /\ now - LastUse(i) > IdleTimeout
              => (LastUse(i))' <= LastUse(i)]_vars
  BY TypeStep, ExpiryKept DEF NotRevived
<1>4. QED
  BY <1>1, <1>2, <1>3, PTL DEF Spec, ExpiryIsFinal
-----------------------------------------------------------------------------
\* While no statement fails: what a team was told is in the table

\* createSession keeps the mutex until its rows are written, so that a session
\* without a row is the one being created.
MutexInv ==
  /\ ~up => mu = None
  /\ \A h \in Handlers : job[h].pc \in Creating => mu = h
  /\ \A i \in Ids : sessions[i] # None /\ rows[i] = None =>
       \E h \in Handlers : mu = h /\ job[h].pc = "saveRow" /\ job[h].id = i

\* Most requests move without the mutex.
LEMMA MutexMove ==
  ASSUME JobInv, MutexInv, KnownIsStored, UNCHANGED <<up, mu, sessions, rows, known>>,
         NEW h \in Handlers, NEW r, job' = [job EXCEPT ![h] = r],
         job[h].pc \notin Creating, r.pc \notin Creating
  PROVE  MutexInv' /\ KnownIsStored'
<1>1. \A g \in Handlers : job'[g] = IF g = h THEN r ELSE job[g]
  BY DEF JobInv
<1>2. QED
  BY <1>1 DEF MutexInv, KnownIsStored, Creating

LEMMA MutexStep ==
  ASSUME ~StoreMayFail, TypeInv, AdmissionInv, MutexInv, KnownIsStored, [Next]_vars
  PROVE  MutexInv' /\ KnownIsStored'
<1>a. Maps /\ JobInv
  BY DEF TypeInv
<1>b. \A h \in Handlers : job[h] \in Job /\ Shape(job[h]) /\ Found(job[h])
  BY DEF TypeInv, JobInv, AdmissionInv, FoundInv
<1>c. None \notin Handlers
  BY GateAssumption
<1>1. ASSUME NEW h \in Handlers, NEW t \in Teams, CreateCheck(h, t)
      PROVE  MutexInv' /\ KnownIsStored'
  <2> DEFINE r == [Idle EXCEPT !.pc = "admit", !.team = t]
  <2>1. /\ UNCHANGED <<up, mu, sessions, rows, known>> /\ job[h].pc \notin Creating
        /\ job' = [job EXCEPT ![h] = r]
    BY <1>1 DEF CreateCheck, At, memory, tables, history, Creating
  <2>2. r.pc \notin Creating
    BY DEF Idle, Creating
  <2>3. QED
    BY <1>a, <2>1, <2>2, MutexMove
<1>2. ASSUME NEW h \in Handlers, CreateRefused(h)
      PROVE  MutexInv' /\ KnownIsStored'
  <2> DEFINE r == Idle
  <2>1. /\ UNCHANGED <<up, mu, sessions, rows, known>> /\ job[h].pc \notin Creating
        /\ job' = [job EXCEPT ![h] = r]
    BY <1>2 DEF CreateRefused, At, memory, tables, history, Creating, Done
  <2>2. r.pc \notin Creating
    BY DEF Idle, Creating
  <2>3. QED
    BY <1>a, <2>1, <2>2, MutexMove
<1>3. ASSUME NEW h \in Handlers, NEW i \in Ids, NEW kind \in Kinds, Touch(h, i, kind)
      PROVE  MutexInv' /\ KnownIsStored'
  <2> DEFINE r == [Idle EXCEPT !.pc = "gate", !.id = i, !.kind = kind, !.arrived = now]
  <2>1. /\ UNCHANGED <<up, mu, sessions, rows, known>> /\ job[h].pc \notin Creating
        /\ job' = [job EXCEPT ![h] = r]
    BY <1>3 DEF Touch, At, memory, tables, history, Creating
  <2>2. r.pc \notin Creating
    BY DEF Idle, Creating
  <2>3. QED
    BY <1>a, <2>1, <2>2, MutexMove
<1>4. ASSUME NEW h \in Handlers, NEW i \in Ids, JudgeSession(h, i)
      PROVE  MutexInv' /\ KnownIsStored'
  <2> DEFINE r == [Idle EXCEPT !.pc = "row", !.id = i, !.kind = "judge"]
  <2>1. /\ UNCHANGED <<up, mu, sessions, rows, known>> /\ job[h].pc \notin Creating
        /\ job' = [job EXCEPT ![h] = r]
    BY <1>4 DEF JudgeSession, At, memory, tables, history, Creating
  <2>2. r.pc \notin Creating
    BY DEF Idle, Creating
  <2>3. QED
    BY <1>a, <2>1, <2>2, MutexMove
<1>5. ASSUME NEW h \in Handlers, Work(h)
      PROVE  MutexInv' /\ KnownIsStored'
  <2> DEFINE r == [job[h] EXCEPT !.pc = "row"]
  <2>1. /\ UNCHANGED <<up, mu, sessions, rows, known>> /\ job[h].pc \notin Creating
        /\ job' = [job EXCEPT ![h] = r]
    BY <1>5 DEF Work, At, memory, tables, history, Creating, Goto
  <2>2. r.pc \notin Creating
    BY <1>b DEF Job, Creating
  <2>3. QED
    BY <1>a, <2>1, <2>2, MutexMove
<1>6. ASSUME NEW h \in Handlers, PersistSeen(h)
      PROVE  MutexInv' /\ KnownIsStored'
  <2> DEFINE r == [job[h] EXCEPT !.pc = "meta",
                            !.seen = IF activity[job[h].id] = 0 THEN now ELSE activity[job[h].id]]
  <2>1. /\ UNCHANGED <<up, mu, sessions, rows, known>> /\ job[h].pc \notin Creating
        /\ job' = [job EXCEPT ![h] = r]
    BY <1>6 DEF PersistSeen, At, memory, tables, history, Creating
  <2>2. r.pc \notin Creating
    BY <1>b DEF Job, Creating
  <2>3. QED
    BY <1>a, <2>1, <2>2, MutexMove
<1>7. ASSUME NEW h \in Handlers, PersistMeta(h)
      PROVE  MutexInv' /\ KnownIsStored'
  <2> DEFINE r == Idle
  <2>1. /\ UNCHANGED <<up, mu, sessions, rows, known>> /\ job[h].pc \notin Creating
        /\ job' = [job EXCEPT ![h] = r]
    BY <1>7 DEF PersistMeta, At, memory, tables, history, Creating, Done
  <2>2. r.pc \notin Creating
    BY DEF Idle, Creating
  <2>3. QED
    BY <1>a, <2>1, <2>2, MutexMove
<1>8. ASSUME NEW h \in Handlers, Gate(h)
      PROVE  MutexInv' /\ KnownIsStored'
  <2>1. UNCHANGED <<up, mu, sessions, rows, known>> /\ job[h].pc \notin Creating
    BY <1>8 DEF Gate, At, memory, tables, history, Creating
  <2>2. \A label \in {"submit", "work"} : [job[h] EXCEPT !.pc = label].pc \notin Creating
    BY <1>b DEF Job, Creating
  <2>3. Done(h) => MutexInv' /\ KnownIsStored'
    BY <1>a, <2>1, MutexMove DEF Done, Idle, Creating
  <2>4. Goto(h, "submit") \/ Goto(h, "work") => MutexInv' /\ KnownIsStored'
    BY <1>a, <2>1, <2>2, MutexMove DEF Goto
  <2>5. QED
    BY <1>8, <2>3, <2>4 DEF Gate
<1>9. ASSUME NEW h \in Handlers, SubmitGate(h)
      PROVE  MutexInv' /\ KnownIsStored'
  <2>1. UNCHANGED <<up, mu, sessions, rows, known>> /\ job[h].pc \notin Creating
    BY <1>9 DEF SubmitGate, At, memory, tables, history, Creating
  <2>2. \A label \in {"submit", "work"} : [job[h] EXCEPT !.pc = label].pc \notin Creating
    BY <1>b DEF Job, Creating
  <2>3. Done(h) => MutexInv' /\ KnownIsStored'
    BY <1>a, <2>1, MutexMove DEF Done, Idle, Creating
  <2>4. Goto(h, "submit") \/ Goto(h, "work") => MutexInv' /\ KnownIsStored'
    BY <1>a, <2>1, <2>2, MutexMove DEF Goto
  <2>5. QED
    BY <1>9, <2>3, <2>4 DEF SubmitGate
<1>10. ASSUME NEW h \in Handlers, CreateExisting(h)
      PROVE  MutexInv' /\ KnownIsStored'
  <2>1. /\ UNCHANGED <<up, mu, sessions, rows>> /\ mu = None /\ job' = [job EXCEPT ![h] = Idle]
        /\ \E i \in Live(sessions) : known' = known \union {i}
    BY <1>10 DEF CreateExisting, At, Free, memory, tables, Done
  <2>2. \A i \in Live(sessions) : rows[i] # None
    BY <1>c, <2>1 DEF MutexInv, Live
  <2>3. KnownIsStored'
    BY <2>1, <2>2 DEF KnownIsStored
  <2>4. \A g \in Handlers : \/ job'[g].pc = job[g].pc /\ job'[g].id = job[g].id
                            \/ job'[g].pc = "idle"
    BY <1>a, <2>1 DEF JobInv, Idle
  <2>5. MutexInv'
    BY <1>c, <2>1, <2>2, <2>4 DEF MutexInv, Creating, Live
  <2>6. QED
    BY <2>3, <2>5
<1>11. ASSUME NEW h \in Handlers, NEW i \in Ids, CreateSession(h, i)
      PROVE  MutexInv' /\ KnownIsStored'
  <2> DEFINE r == [job[h] EXCEPT !.pc = "saveRow", !.id = i]
  <2>1. /\ UNCHANGED <<up, rows, known>> /\ up /\ mu = None /\ mu' = h /\ job' = [job EXCEPT ![h] = r]
        /\ sessions' = [sessions EXCEPT ![i] = job[h].team]
    BY <1>11 DEF CreateSession, Free, tables
  <2>2. r.pc = "saveRow" /\ r.id = i
    BY <1>b DEF Job
  <2>3. \A g \in Handlers : job'[g] = IF g = h THEN r ELSE job[g]
    BY <1>a, <2>1 DEF JobInv
  <2>4. \A g \in Handlers : job'[g].pc \in Creating => mu' = g
    BY <1>c, <2>1, <2>3 DEF MutexInv
  <2>5. job'[h].pc = "saveRow" /\ job'[h].id = i
    BY <2>2, <2>3
  <2>6. \A j \in Ids \ {i} : sessions'[j] = sessions[j]
    BY <1>a, <2>1 DEF Maps
  <2>7. \A j \in Ids : sessions'[j] # None /\ rows'[j] = None => j = i
    BY <1>c, <2>1, <2>6 DEF MutexInv
  <2>8. QED
    BY <2>1, <2>4, <2>5, <2>7 DEF MutexInv, KnownIsStored
<1>12. ASSUME NEW h \in Handlers, CreateSaveRow(h)
      PROVE  MutexInv' /\ KnownIsStored'
  <2> DEFINE r == [job[h] EXCEPT !.pc = "saveMeta"]
             i == job[h].id
  <2>1. /\ UNCHANGED <<up, mu, sessions, known>> /\ up /\ job[h].pc = "saveRow"
        /\ job' = [job EXCEPT ![h] = r] /\ rows' = [rows EXCEPT ![i] = job[h].team]
    BY <1>12 DEF CreateSaveRow, At, Goto, memory, history
  <2>2. i \in Ids /\ job[h].team \in Teams /\ mu = h /\ None \notin Teams
    BY <1>b, <2>1, GateAssumption DEF Shape, Creating, MutexInv
  <2>3. rows'[i] # None /\ \A j \in Ids \ {i} : rows'[j] = rows[j]
    BY <1>a, <2>1, <2>2 DEF Maps
  <2>4. \A g \in Handlers : job'[g] = IF g = h THEN r ELSE job[g]
    BY <1>a, <2>1 DEF JobInv
  <2>5. \A g \in Handlers : job'[g].pc \in Creating => mu' = g
    BY <2>1, <2>2, <2>4 DEF MutexInv
  <2>6. \A j \in Ids : sessions[j] # None /\ rows[j] = None => j = i
    BY <2>2 DEF MutexInv
  <2>7. KnownIsStored'
    BY <1>a, <2>1, <2>3 DEF KnownIsStored, Maps
  <2>8. QED
    BY <2>1, <2>3, <2>5, <2>6, <2>7 DEF MutexInv
<1>13. ASSUME NEW h \in Handlers, CreateSaveMeta(h)
      PROVE  MutexInv' /\ KnownIsStored'
  <2> DEFINE i == job[h].id
  <2>1. /\ UNCHANGED <<up, sessions, rows>> /\ up /\ job[h].pc = "saveMeta" /\ mu' = None
        /\ job' = [job EXCEPT ![h] = Idle] /\ known' = known \union {i}
    BY <1>13 DEF CreateSaveMeta, At, Done, memory
  <2>2. i \in Ids /\ mu = h /\ sessions[i] # None
    BY <1>b, <2>1, GateAssumption DEF Shape, Found, Creating, MutexInv
  <2>3. \A j \in Ids : sessions[j] # None => rows[j] # None
    BY <2>1, <2>2 DEF MutexInv
  <2>4. \A g \in Handlers : job'[g].pc \notin Creating
    BY <1>a, <2>1, <2>2 DEF MutexInv, JobInv, Idle, Creating
  <2>5. KnownIsStored'
    BY <2>1, <2>2, <2>3 DEF KnownIsStored
  <2>6. QED
    BY <2>1, <2>3, <2>4, <2>5 DEF MutexInv
<1>14. ASSUME NEW h \in Handlers, PersistRow(h)
      PROVE  MutexInv' /\ KnownIsStored'
  <2> DEFINE r == [job[h] EXCEPT !.pc = "seen"]
             i == job[h].id
  <2>1. /\ UNCHANGED <<up, mu, sessions, known>> /\ up /\ job[h].pc = "row"
        /\ job' = [job EXCEPT ![h] = r] /\ rows' = [rows EXCEPT ![i] = sessions[i]]
    BY <1>14 DEF PersistRow, At, Goto, memory, history
  <2>2. i \in Ids /\ sessions[i] # None
    BY <1>b, <2>1 DEF Shape, Found, Serving
  <2>3. \A j \in Ids : rows[j] # None => rows'[j] # None
    BY <1>a, <2>1, <2>2 DEF Maps
  <2>4. \A g \in Handlers : job'[g] = IF g = h THEN r ELSE job[g]
    BY <1>a, <2>1 DEF JobInv
  <2>5. r.pc = "seen"
    BY <1>b DEF Job
  <2>6. KnownIsStored'
    BY <1>a, <2>1, <2>3 DEF KnownIsStored, Maps
  <2>7. \A g \in Handlers : job'[g].pc \in Creating => mu' = g
    BY <2>1, <2>4, <2>5 DEF MutexInv, Creating
  <2>8. \A j \in Ids : sessions'[j] # None /\ rows'[j] = None =>
          \E g \in Handlers : mu' = g /\ job'[g].pc = "saveRow" /\ job'[g].id = j
    BY <2>1, <2>3, <2>4 DEF MutexInv
  <2>9. QED
    BY <2>1, <2>6, <2>7, <2>8 DEF MutexInv
<1>15. ASSUME NEW h \in Handlers, CreateFails(h) \/ PersistFails(h)
      PROVE  FALSE
  BY <1>15 DEF CreateFails, PersistFails
<1>16. ASSUME UNCHANGED <<up, mu, sessions, rows, known, job>>
      PROVE  MutexInv' /\ KnownIsStored'
  BY <1>16 DEF MutexInv, KnownIsStored
<1>17. CASE Crash
  <2>1. /\ ~up' /\ mu' = None /\ UNCHANGED <<rows, known>> /\ \A h \in Handlers : job'[h] = Idle
        /\ \A i \in Ids : sessions'[i] = None
    BY <1>17 DEF Crash, tables, history
  <2>2. QED
    BY <2>1 DEF MutexInv, KnownIsStored, Idle, Creating
<1>18. CASE Recover
  <2>1. /\ ~up /\ sessions' = rows /\ UNCHANGED <<mu, rows, known, job>>
    BY <1>18 DEF Recover, tables
  <2>2. up'
    BY <1>18 DEF Recover
  <2>3. QED
    BY <2>1, <2>2 DEF MutexInv, KnownIsStored
<1>19. ASSUME NEW i \in Ids, TerminalInput(i) \/ TerminalEnd(i)
      PROVE  UNCHANGED <<up, mu, sessions, rows, known, job>>
  BY <1>19 DEF TerminalInput, TerminalEnd, memory, tables, history
<1>20. ASSUME NEW o \in Organizers,
             (\E what \in {"close", "reopen"} : OrganizerSet(o, what)) \/ OrganizerStore(o)
      PROVE  UNCHANGED <<up, mu, sessions, rows, known, job>>
  BY <1>20 DEF OrganizerSet, OrganizerStore, memory, tables, history
<1>21. CASE Tick \/ UNCHANGED vars
  BY <1>16, <1>21 DEF Tick, vars, memory, tables, history
<1>22. QED
  BY <1>1, <1>2, <1>3, <1>4, <1>5, <1>6, <1>7, <1>8, <1>9, <1>10, <1>11, <1>12, <1>13, <1>14, <1>15, <1>16, <1>17, <1>18, <1>19, <1>20, <1>21
  DEF Next, Continue

\* A team is never told an identifier that the table does not have, unless a
\* statement fails: createSession answers after its rows are written, and the
\* mutex hides the session until then.
THEOREM KnownAlwaysStored == ASSUME ~StoreMayFail PROVE Spec => []KnownIsStored
<1>1. Init => TypeInv /\ AdmissionInv /\ MutexInv /\ KnownIsStored
  <2>1. Init => MutexInv /\ KnownIsStored
    BY DEF Init, MutexInv, KnownIsStored, Idle, Creating
  <2>2. QED
    BY <2>1, TypeInit, AdmissionInit
<1>2. TypeInv /\ AdmissionInv /\ MutexInv /\ KnownIsStored /\ [Next]_vars
        => (TypeInv /\ AdmissionInv /\ MutexInv /\ KnownIsStored)'
  BY TypeStep, AdmissionStep, MutexStep
<1>3. QED
  BY <1>1, <1>2, PTL DEF Spec
-----------------------------------------------------------------------------
\* Late work

\* Requests that will work, or make a session, without asking for the status.
Pending == {h \in Handlers : job[h].pc \in {"admit", "work"}}

\* Every piece of late work used up a request that was past the gate.  When
\* the event is not closed no work is late.
LateInv ==
  /\ terminals = {} /\ \A h \in Handlers : job[h].kind # "terminal"
  /\ late + Cardinality(Pending) <= Cardinality(Handlers)
  /\ up /\ Status # "closed" => late = 0

LEMMA HandlerCounts ==
  ASSUME NEW S \in SUBSET Handlers
  PROVE  /\ IsFiniteSet(S) /\ Cardinality(S) \in Nat /\ Cardinality(Handlers) \in Nat
         /\ Cardinality(S) <= Cardinality(Handlers)
         /\ \A h \in S : Cardinality(S \ {h}) = Cardinality(S) - 1
<1>1. IsFiniteSet(Handlers)
  BY GateAssumption
<1>2. IsFiniteSet(S) /\ Cardinality(S) <= Cardinality(Handlers)
  BY <1>1, FS_Subset
<1>3. QED
  BY <1>1, <1>2, FS_CardinalityType, FS_RemoveElement

\* A step that leaves the work and the status alone, and no request further.
LEMMA LateFrame ==
  ASSUME LateInv, late \in Nat, UNCHANGED <<late, terminals>>, up' => up,
         up' /\ Status' # "closed" => Status # "closed",
         Pending' \subseteq Pending, \A h \in Handlers : job'[h].kind # "terminal"
  PROVE  LateInv'
<1>1. Cardinality(Pending') <= Cardinality(Pending)
  <2>1. Pending \in SUBSET Handlers
    BY DEF Pending
  <2>2. IsFiniteSet(Pending)
    BY <2>1, HandlerCounts
  <2>3. QED
    BY <2>2, FS_Subset
<1>2. Cardinality(Pending) \in Nat /\ Cardinality(Pending') \in Nat /\ Cardinality(Handlers) \in Nat
  BY HandlerCounts DEF Pending
<1>3. QED
  BY <1>1, <1>2 DEF LateInv

\* A request moves on without asking, or before it has asked.
LEMMA LateMove ==
  ASSUME JobInv, LateInv, late \in Nat,
         UNCHANGED <<up, now, manualClose, late, terminals>>,
         NEW h \in Handlers, NEW r, job' = [job EXCEPT ![h] = r],
         r.kind # "terminal", r.pc \notin {"admit", "work"}
  PROVE  LateInv'
<1>1. \A g \in Handlers : job'[g] = IF g = h THEN r ELSE job[g]
  BY DEF JobInv
<1>2. Status' = Status
  BY DEF Status, StatusWith
<1>3. Pending' \subseteq Pending
  BY <1>1 DEF Pending
<1>4. \A g \in Handlers : job'[g].kind # "terminal"
  BY <1>1 DEF LateInv
<1>5. QED
  BY <1>2, <1>3, <1>4, LateFrame

\* A request is let through by a status that is not closed.
LEMMA LateAsked ==
  ASSUME JobInv, LateInv, up, Status # "closed",
         UNCHANGED <<up, now, manualClose, late, terminals>>,
         NEW h \in Handlers, NEW r, job' = [job EXCEPT ![h] = r], r.kind # "terminal"
  PROVE  LateInv'
<1>1. \A g \in Handlers : job'[g].kind # "terminal"
  BY DEF JobInv, LateInv
<1>2. late' = 0
  BY DEF LateInv
<1>3. Cardinality(Pending') \in Nat /\ Cardinality(Pending') <= Cardinality(Handlers)
  BY HandlerCounts DEF Pending
<1>4. QED
  BY <1>1, <1>2, <1>3 DEF LateInv

\* A request that was past the gate does its piece of work.
LEMMA LateWork ==
  ASSUME JobInv, LateInv, late \in Nat, up, late' = LateAfterWork,
         UNCHANGED <<up, now, manualClose, terminals>>,
         NEW h \in Handlers, NEW r, job' = [job EXCEPT ![h] = r],
         h \in Pending, r.kind # "terminal", r.pc \notin {"admit", "work"}
  PROVE  LateInv'
<1>1. \A g \in Handlers : job'[g] = IF g = h THEN r ELSE job[g]
  BY DEF JobInv
<1>2. Pending' = Pending \ {h}
  BY <1>1 DEF Pending
<1>3. Pending \in SUBSET Handlers
  BY DEF Pending
<1>4. Cardinality(Pending') = Cardinality(Pending) - 1 /\ Cardinality(Pending) \in Nat
  BY <1>2, <1>3, HandlerCounts
<1>5. Cardinality(Handlers) \in Nat
  BY <1>3, HandlerCounts
<1>6. late' <= late + 1 /\ late' \in Nat
  BY DEF LateAfterWork
<1>7. Status' = Status /\ (Status # "closed" => late' = late)
  BY DEF Status, StatusWith, LateAfterWork
<1>8. \A g \in Handlers : job'[g].kind # "terminal"
  BY <1>1 DEF LateInv
<1>9. late' + Cardinality(Pending') <= Cardinality(Handlers)
  BY <1>4, <1>5, <1>6 DEF LateInv
<1>10. QED
  BY <1>7, <1>8, <1>9 DEF LateInv

LEMMA LateStep ==
  ASSUME ~Terminals, TypeInv, TypeInv', LateInv, [Next]_vars
  PROVE  LateInv'
<1>a. Maps /\ JobInv /\ late \in Nat /\ late' \in Nat
  BY DEF TypeInv, Maps
<1>b. \A h \in Handlers : job[h] \in Job /\ job[h].kind # "terminal"
  BY <1>a DEF JobInv, LateInv
<1>c. Idle.kind # "terminal" /\ Idle.pc \notin {"admit", "work"}
  BY DEF Idle
<1>1. ASSUME NEW h \in Handlers, CreateExisting(h)
      PROVE  LateInv'
  <2> DEFINE r == Idle
  <2>1. UNCHANGED <<up, now, manualClose, late, terminals>> /\ job' = [job EXCEPT ![h] = r]
    BY <1>1 DEF CreateExisting, memory, tables, history, Done
  <2>2. r.kind # "terminal" /\ r.pc \notin {"admit", "work"}
    BY DEF Idle
  <2>3. QED
    BY <1>a, <2>1, <2>2, LateMove
<1>2. ASSUME NEW h \in Handlers, CreateRefused(h)
      PROVE  LateInv'
  <2> DEFINE r == Idle
  <2>1. UNCHANGED <<up, now, manualClose, late, terminals>> /\ job' = [job EXCEPT ![h] = r]
    BY <1>2 DEF CreateRefused, memory, tables, history, Done
  <2>2. r.kind # "terminal" /\ r.pc \notin {"admit", "work"}
    BY DEF Idle
  <2>3. QED
    BY <1>a, <2>1, <2>2, LateMove
<1>3. ASSUME NEW h \in Handlers, CreateSaveRow(h)
      PROVE  LateInv'
  <2> DEFINE r == [job[h] EXCEPT !.pc = "saveMeta"]
  <2>1. UNCHANGED <<up, now, manualClose, late, terminals>> /\ job' = [job EXCEPT ![h] = r]
    BY <1>3 DEF CreateSaveRow, memory, tables, history, Goto
  <2>2. r.kind # "terminal" /\ r.pc \notin {"admit", "work"}
    BY <1>b DEF Job
  <2>3. QED
    BY <1>a, <2>1, <2>2, LateMove
<1>4. ASSUME NEW h \in Handlers, CreateSaveMeta(h)
      PROVE  LateInv'
  <2> DEFINE r == Idle
  <2>1. UNCHANGED <<up, now, manualClose, late, terminals>> /\ job' = [job EXCEPT ![h] = r]
    BY <1>4 DEF CreateSaveMeta, memory, tables, history, Done
  <2>2. r.kind # "terminal" /\ r.pc \notin {"admit", "work"}
    BY DEF Idle
  <2>3. QED
    BY <1>a, <2>1, <2>2, LateMove
<1>5. ASSUME NEW h \in Handlers, CreateFails(h)
      PROVE  LateInv'
  <2> DEFINE r == Idle
  <2>1. UNCHANGED <<up, now, manualClose, late, terminals>> /\ job' = [job EXCEPT ![h] = r]
    BY <1>5 DEF CreateFails, memory, tables, history, Done
  <2>2. r.kind # "terminal" /\ r.pc \notin {"admit", "work"}
    BY DEF Idle
  <2>3. QED
    BY <1>a, <2>1, <2>2, LateMove
<1>6. ASSUME NEW h \in Handlers, NEW i \in Ids, NEW kind \in Kinds, Touch(h, i, kind)
      PROVE  LateInv'
  <2> DEFINE r == [Idle EXCEPT !.pc = "gate", !.id = i, !.kind = kind, !.arrived = now]
  <2>1. UNCHANGED <<up, now, manualClose, late, terminals>> /\ job' = [job EXCEPT ![h] = r]
    BY <1>6 DEF Touch, memory, tables, history
  <2>2. r.kind # "terminal" /\ r.pc \notin {"admit", "work"}
    BY <1>6 DEF Touch, Idle
  <2>3. QED
    BY <1>a, <2>1, <2>2, LateMove
<1>7. ASSUME NEW h \in Handlers, NEW i \in Ids, JudgeSession(h, i)
      PROVE  LateInv'
  <2> DEFINE r == [Idle EXCEPT !.pc = "row", !.id = i, !.kind = "judge"]
  <2>1. UNCHANGED <<up, now, manualClose, late, terminals>> /\ job' = [job EXCEPT ![h] = r]
    BY <1>7 DEF JudgeSession, memory, tables, history
  <2>2. r.kind # "terminal" /\ r.pc \notin {"admit", "work"}
    BY DEF Idle
  <2>3. QED
    BY <1>a, <2>1, <2>2, LateMove
<1>8. ASSUME NEW h \in Handlers, PersistRow(h)
      PROVE  LateInv'
  <2> DEFINE r == [job[h] EXCEPT !.pc = "seen"]
  <2>1. UNCHANGED <<up, now, manualClose, late, terminals>> /\ job' = [job EXCEPT ![h] = r]
    BY <1>8 DEF PersistRow, memory, tables, history, Goto
  <2>2. r.kind # "terminal" /\ r.pc \notin {"admit", "work"}
    BY <1>b DEF Job
  <2>3. QED
    BY <1>a, <2>1, <2>2, LateMove
<1>9. ASSUME NEW h \in Handlers, PersistSeen(h)
      PROVE  LateInv'
  <2> DEFINE r == [job[h] EXCEPT !.pc = "meta",
                            !.seen = IF activity[job[h].id] = 0 THEN now ELSE activity[job[h].id]]
  <2>1. UNCHANGED <<up, now, manualClose, late, terminals>> /\ job' = [job EXCEPT ![h] = r]
    BY <1>9 DEF PersistSeen, memory, tables, history
  <2>2. r.kind # "terminal" /\ r.pc \notin {"admit", "work"}
    BY <1>b DEF Job
  <2>3. QED
    BY <1>a, <2>1, <2>2, LateMove
<1>10. ASSUME NEW h \in Handlers, PersistMeta(h)
      PROVE  LateInv'
  <2> DEFINE r == Idle
  <2>1. UNCHANGED <<up, now, manualClose, late, terminals>> /\ job' = [job EXCEPT ![h] = r]
    BY <1>10 DEF PersistMeta, memory, tables, history, Done
  <2>2. r.kind # "terminal" /\ r.pc \notin {"admit", "work"}
    BY DEF Idle
  <2>3. QED
    BY <1>a, <2>1, <2>2, LateMove
<1>11. ASSUME NEW h \in Handlers, PersistFails(h)
      PROVE  LateInv'
  <2> DEFINE r == Idle
  <2>1. UNCHANGED <<up, now, manualClose, late, terminals>> /\ job' = [job EXCEPT ![h] = r]
    BY <1>11 DEF PersistFails, memory, tables, history, Done
  <2>2. r.kind # "terminal" /\ r.pc \notin {"admit", "work"}
    BY DEF Idle
  <2>3. QED
    BY <1>a, <2>1, <2>2, LateMove
<1>12. ASSUME NEW h \in Handlers, NEW t \in Teams, CreateCheck(h, t)
      PROVE  LateInv'
  <2> DEFINE r == [Idle EXCEPT !.pc = "admit", !.team = t]
  <2>1. /\ UNCHANGED <<up, now, manualClose, late, terminals>> /\ job' = [job EXCEPT ![h] = r]
        /\ up /\ Status # "closed"
    BY <1>12 DEF CreateCheck, Free, memory, history
  <2>2. r.kind # "terminal"
    BY DEF Idle
  <2>3. QED
    BY <1>a, <2>1, <2>2, LateAsked
<1>13. ASSUME NEW h \in Handlers, Gate(h)
      PROVE  LateInv'
  <2>1. up /\ UNCHANGED <<up, now, manualClose, late, terminals>>
    BY <1>13, <1>b DEF Gate, Free, memory, history
  <2>2. \A label \in {"submit", "work"} : [job[h] EXCEPT !.pc = label].kind # "terminal"
    BY <1>b DEF Job
  <2>3. Done(h) => LateInv'
    BY <1>a, <1>c, <2>1, LateMove DEF Done
  <2>4. (Goto(h, "submit") \/ Goto(h, "work")) /\ Status # "closed" => LateInv'
    BY <1>a, <2>1, <2>2, LateAsked DEF Goto
  <2>5. QED
    BY <1>13, <2>3, <2>4 DEF Gate
<1>14. ASSUME NEW h \in Handlers, SubmitGate(h)
      PROVE  LateInv'
  <2>1. up /\ UNCHANGED <<up, now, manualClose, late, terminals>>
    BY <1>14 DEF SubmitGate, Free, memory, history
  <2>2. [job[h] EXCEPT !.pc = "work"].kind # "terminal"
    BY <1>b DEF Job
  <2>3. Done(h) => LateInv'
    BY <1>a, <1>c, <2>1, LateMove DEF Done
  <2>4. Goto(h, "work") /\ Status # "closed" => LateInv'
    BY <1>a, <2>1, <2>2, LateAsked DEF Goto
  <2>5. QED
    BY <1>14, <2>3, <2>4 DEF SubmitGate
<1>15. ASSUME NEW h \in Handlers, NEW i \in Ids, CreateSession(h, i)
      PROVE  LateInv'
  <2> DEFINE r == [job[h] EXCEPT !.pc = "saveRow", !.id = i]
  <2>1. /\ UNCHANGED <<up, now, manualClose, terminals>> /\ late' = LateAfterWork /\ up
        /\ job' = [job EXCEPT ![h] = r] /\ h \in Pending
    BY <1>15 DEF CreateSession, At, Pending
  <2>2. r.kind # "terminal" /\ r.pc \notin {"admit", "work"}
    BY <1>b DEF Job
  <2>3. QED
    BY <1>a, <2>1, <2>2, LateWork
<1>16. ASSUME NEW h \in Handlers, Work(h)
      PROVE  LateInv'
  <2> DEFINE r == [job[h] EXCEPT !.pc = "row"]
  <2>1. /\ UNCHANGED <<up, now, manualClose, terminals>> /\ late' = LateAfterWork /\ up
        /\ job' = [job EXCEPT ![h] = r] /\ h \in Pending
    BY <1>16 DEF Work, At, Goto, memory, Pending
  <2>2. r.kind # "terminal" /\ r.pc \notin {"admit", "work"}
    BY <1>b DEF Job
  <2>3. QED
    BY <1>a, <2>1, <2>2, LateWork
<1>17. ASSUME NEW i \in Ids, TerminalInput(i) \/ TerminalEnd(i)
      PROVE  FALSE
  BY <1>17 DEF TerminalInput, TerminalEnd, LateInv
<1>18. ASSUME NEW o \in Organizers, NEW what \in {"close", "reopen"}, OrganizerSet(o, what)
      PROVE  LateInv'
  <2>1. /\ UNCHANGED <<up, now, terminals, job>> /\ manualClose' = (what = "close")
        /\ late' = IF StatusWith(what = "close") = "closed" THEN late ELSE 0
    BY <1>18 DEF OrganizerSet
  <2>2. Status' = StatusWith(what = "close")
    BY <2>1 DEF Status, StatusWith
  <2>3. Pending' = Pending /\ Cardinality(Pending) \in Nat /\ Cardinality(Handlers) \in Nat
    BY <2>1, HandlerCounts DEF Pending
  <2>4. late' <= late
    BY <1>a, <2>1
  <2>5. QED
    BY <1>a, <2>1, <2>2, <2>3, <2>4 DEF LateInv
<1>19. ASSUME NEW o \in Organizers, OrganizerStore(o)
      PROVE  LateInv'
  <2>1. UNCHANGED <<up, now, manualClose, late, terminals, job>>
    BY <1>19 DEF OrganizerStore, memory, history
  <2>2. QED
    BY <2>1 DEF LateInv, Status, StatusWith, Pending
<1>20. CASE Tick
  <2>1. now' = now + 1 /\ now \in Nat /\ UNCHANGED <<up, manualClose, late, terminals, job>>
    BY <1>20, <1>a DEF Tick, memory, history, Maps, Time
  <2>2. Status' # "closed" => Status # "closed"
    BY <2>1, GateAssumption DEF Status, StatusWith
  <2>3. QED
    BY <2>1, <2>2 DEF LateInv, Pending
<1>21. CASE Crash
  <2>1. ~up' /\ late' = late /\ terminals' = {} /\ \A h \in Handlers : job'[h] = Idle
    BY <1>21 DEF Crash, history
  <2>2. Pending' \subseteq Pending /\ \A h \in Handlers : job'[h].kind # "terminal"
    BY <2>1 DEF Pending, Idle
  <2>3. QED
    BY <1>a, <2>1, <2>2, LateFrame DEF LateInv
<1>22. CASE Recover
  <2>1. /\ UNCHANGED <<now, terminals, job>> /\ manualClose' = storedClose
        /\ late' = IF StatusWith(storedClose) = "closed" THEN late ELSE 0
    BY <1>22 DEF Recover
  <2>2. Status' = StatusWith(storedClose)
    BY <2>1 DEF Status, StatusWith
  <2>3. Pending' = Pending /\ Cardinality(Pending) \in Nat /\ Cardinality(Handlers) \in Nat
    BY <2>1, HandlerCounts DEF Pending
  <2>4. late' <= late
    BY <1>a, <2>1
  <2>5. QED
    BY <1>a, <2>1, <2>2, <2>3, <2>4 DEF LateInv
<1>23. CASE UNCHANGED vars
  BY <1>23 DEF vars, memory, history, LateInv, Status, StatusWith, Pending
<1>24. QED
  BY <1>1, <1>2, <1>3, <1>4, <1>5, <1>6, <1>7, <1>8, <1>9, <1>10, <1>11, <1>12, <1>13, <1>14, <1>15, <1>16, <1>17, <1>18, <1>19, <1>20, <1>21, <1>22, <1>23
  DEF Next, Continue

\* Without terminals, what is still done after the event closed is bounded by
\* the number of requests that can be under way at once: one piece of work for
\* each that was let through, whatever fails, crashes or is reopened.
THEOREM LateWorkAlwaysBounded == ASSUME ~Terminals PROVE Spec => []LateWorkBounded
<1>1. Init => TypeInv /\ LateInv
  <2>1. ASSUME Init PROVE LateInv
    <3>1. Pending = {} /\ late = 0 /\ terminals = {}
      BY <2>1 DEF Init, Pending, Idle
    <3>2. Cardinality(Pending) = 0 /\ Cardinality(Handlers) \in Nat
      BY <3>1, FS_EmptySet, HandlerCounts
    <3>3. QED
      BY <2>1, <3>1, <3>2 DEF Init, LateInv, Idle
  <2>2. QED
    BY <2>1, TypeInit
<1>2. TypeInv /\ LateInv /\ [Next]_vars => (TypeInv /\ LateInv)'
  BY TypeStep, LateStep
<1>3. TypeInv /\ LateInv => LateWorkBounded
  BY HandlerCounts DEF TypeInv, Maps, LateInv, LateWorkBounded, Pending
<1>4. QED
  BY <1>1, <1>2, <1>3, PTL DEF Spec
-----------------------------------------------------------------------------
\* One request at a time, and no terminal

\* One handler serves participants' requests.
Single(h) == Handlers = {h} /\ ~Terminals

\* What was answered is on record, in the table and on the server.
Answered(i) == used[i] <= meta[i] /\ (up => used[i] <= activity[i])

\* What the request carries is not older than what it answers for.
Carried(j) ==
  /\ j.pc \in Serving => j.arrived <= activity[j.id]
  /\ j.pc = "meta" => j.arrived <= j.seen /\ used[j.id] <= j.seen

UseInv(h) ==
  /\ terminals = {} /\ job[h].kind # "terminal"
  /\ Carried(job[h])
  /\ \A i \in Ids : Answered(i)

\* A request moves on and no time changes.
LEMMA UseMove ==
  ASSUME NEW h \in Handlers, JobInv, UseInv(h),
         UNCHANGED <<up, activity, meta, used, terminals>>,
         NEW r, job' = [job EXCEPT ![h] = r], r.kind # "terminal", Carried(r)
  PROVE  UseInv(h)'
<1>1. job'[h] = r
  BY DEF JobInv
<1>2. QED
  BY <1>1 DEF UseInv, Carried, Answered

LEMMA UseStep ==
  ASSUME NEW h \in Handlers, Single(h), TypeInv, TypeInv', AdmissionInv, ExpiryInv, UseInv(h),
         [Next]_vars
  PROVE  UseInv(h)'
<1>a. /\ Maps /\ JobInv
      /\ job[h] \in Job /\ Shape(job[h]) /\ Found(job[h]) /\ Held(job[h]) /\ Carried(job[h])
  BY DEF TypeInv, JobInv, AdmissionInv, FoundInv, ExpiryInv, HeldInv, UseInv
<1>b. /\ \A i \in Ids : /\ activity[i] \in Nat /\ meta[i] \in Nat /\ used[i] \in Nat
                        /\ Times(i) /\ Answered(i)
      /\ now \in Nat \ {0} /\ job[h].arrived \in Nat /\ job[h].seen \in Nat
  BY <1>a DEF Maps, Time, Job, ExpiryInv, TimesInv, UseInv
<1>c. Idle.kind # "terminal" /\ Carried(Idle)
  BY DEF Idle, Carried, Serving
<1>d. \A g \in Handlers : g = h
  BY DEF Single
<1>e. job[h].kind # "terminal" /\ terminals = {}
  BY DEF UseInv
<1>1. ASSUME NEW t \in Teams, CreateCheck(h, t)
      PROVE  UseInv(h)'
  <2> DEFINE r == [Idle EXCEPT !.pc = "admit", !.team = t]
  <2>1. UNCHANGED <<up, activity, meta, used, terminals>> /\ job' = [job EXCEPT ![h] = r]
    BY <1>1 DEF CreateCheck, memory, tables, history
  <2>2. r.kind # "terminal" /\ Carried(r)
    BY DEF Idle, Carried, Serving
  <2>3. QED
    BY <1>a, <2>1, <2>2, UseMove
<1>2. ASSUME CreateExisting(h)
      PROVE  UseInv(h)'
  <2> DEFINE r == Idle
  <2>1. UNCHANGED <<up, activity, meta, used, terminals>> /\ job' = [job EXCEPT ![h] = r]
    BY <1>2 DEF CreateExisting, memory, tables, history, Done
  <2>2. r.kind # "terminal" /\ Carried(r)
    BY <1>c
  <2>3. QED
    BY <1>a, <2>1, <2>2, UseMove
<1>3. ASSUME CreateRefused(h)
      PROVE  UseInv(h)'
  <2> DEFINE r == Idle
  <2>1. UNCHANGED <<up, activity, meta, used, terminals>> /\ job' = [job EXCEPT ![h] = r]
    BY <1>3 DEF CreateRefused, memory, tables, history, Done
  <2>2. r.kind # "terminal" /\ Carried(r)
    BY <1>c
  <2>3. QED
    BY <1>a, <2>1, <2>2, UseMove
<1>4. ASSUME CreateSaveRow(h)
      PROVE  UseInv(h)'
  <2> DEFINE r == [job[h] EXCEPT !.pc = "saveMeta"]
  <2>1. UNCHANGED <<up, activity, meta, used, terminals>> /\ job' = [job EXCEPT ![h] = r]
    BY <1>4 DEF CreateSaveRow, memory, tables, history, Goto
  <2>2. r.kind # "terminal" /\ Carried(r)
    BY <1>a, <1>e DEF Job, Carried, Serving
  <2>3. QED
    BY <1>a, <2>1, <2>2, UseMove
<1>5. ASSUME CreateFails(h)
      PROVE  UseInv(h)'
  <2> DEFINE r == Idle
  <2>1. UNCHANGED <<up, activity, meta, used, terminals>> /\ job' = [job EXCEPT ![h] = r]
    BY <1>5 DEF CreateFails, memory, tables, history, Done
  <2>2. r.kind # "terminal" /\ Carried(r)
    BY <1>c
  <2>3. QED
    BY <1>a, <2>1, <2>2, UseMove
<1>6. ASSUME PersistFails(h)
      PROVE  UseInv(h)'
  <2> DEFINE r == Idle
  <2>1. UNCHANGED <<up, activity, meta, used, terminals>> /\ job' = [job EXCEPT ![h] = r]
    BY <1>6 DEF PersistFails, memory, tables, history, Done
  <2>2. r.kind # "terminal" /\ Carried(r)
    BY <1>c
  <2>3. QED
    BY <1>a, <2>1, <2>2, UseMove
<1>7. ASSUME SubmitGate(h)
      PROVE  UseInv(h)'
  <2>1. UNCHANGED <<up, activity, meta, used, terminals>> /\ job[h].pc = "submit"
    BY <1>7, <1>e DEF SubmitGate, At, memory, tables, history
  <2>2. \A label \in {"submit", "work"} :
          LET r == [job[h] EXCEPT !.pc = label] IN r.kind # "terminal" /\ Carried(r)
    BY <1>a, <1>e, <2>1 DEF Job, Carried, Serving
  <2>3. Done(h) => UseInv(h)'
    BY <1>a, <1>c, <2>1, UseMove DEF Done
  <2>4. Goto(h, "submit") \/ Goto(h, "work") => UseInv(h)'
    BY <1>a, <2>1, <2>2, UseMove DEF Goto
  <2>5. QED
    BY <1>7, <2>3, <2>4 DEF SubmitGate
<1>8. ASSUME Gate(h)
      PROVE  UseInv(h)'
  <2>1. UNCHANGED <<up, activity, meta, used, terminals>> /\ job[h].pc = "gate"
    BY <1>8, <1>e DEF Gate, At, memory, tables, history
  <2>2. \A label \in {"submit", "work"} :
          LET r == [job[h] EXCEPT !.pc = label] IN r.kind # "terminal" /\ Carried(r)
    BY <1>a, <1>e, <2>1 DEF Job, Carried, Serving
  <2>3. Done(h) => UseInv(h)'
    BY <1>a, <1>c, <2>1, UseMove DEF Done
  <2>4. Goto(h, "submit") \/ Goto(h, "work") => UseInv(h)'
    BY <1>a, <2>1, <2>2, UseMove DEF Goto
  <2>5. QED
    BY <1>8, <2>3, <2>4 DEF Gate
<1>9. ASSUME Work(h)
      PROVE  UseInv(h)'
  <2> DEFINE r == [job[h] EXCEPT !.pc = "row"]
  <2>1. /\ UNCHANGED <<up, activity, meta, used, terminals>> /\ job' = [job EXCEPT ![h] = r]
        /\ job[h].pc = "work"
    BY <1>9 DEF Work, At, Goto, memory, tables, history
  <2>2. r.kind # "terminal" /\ Carried(r)
    BY <1>a, <1>e, <2>1 DEF Job, Carried, Serving
  <2>3. QED
    BY <1>a, <2>1, <2>2, UseMove
<1>10. ASSUME PersistRow(h)
      PROVE  UseInv(h)'
  <2> DEFINE r == [job[h] EXCEPT !.pc = "seen"]
  <2>1. /\ UNCHANGED <<up, activity, meta, used, terminals>> /\ job' = [job EXCEPT ![h] = r]
        /\ job[h].pc = "row"
    BY <1>10 DEF PersistRow, At, Goto, memory, tables, history
  <2>2. r.kind # "terminal" /\ Carried(r)
    BY <1>a, <1>e, <2>1 DEF Job, Carried, Serving
  <2>3. QED
    BY <1>a, <2>1, <2>2, UseMove
<1>11. ASSUME NEW i \in Ids, JudgeSession(h, i)
      PROVE  UseInv(h)'
  <2> DEFINE r == [Idle EXCEPT !.pc = "row", !.id = i, !.kind = "judge"]
  <2>1. UNCHANGED <<up, activity, meta, used, terminals>> /\ job' = [job EXCEPT ![h] = r]
    BY <1>11 DEF JudgeSession, memory, tables, history
  <2>2. r.kind = "judge" /\ r.pc = "row" /\ r.id = i /\ r.arrived = 0
    BY DEF Idle
  <2>3. Carried(r)
    BY <1>b, <2>2 DEF Carried
  <2>4. QED
    BY <1>a, <2>1, <2>2, <2>3, UseMove
<1>12. ASSUME PersistSeen(h)
      PROVE  UseInv(h)'
  <2> DEFINE i == job[h].id
             t == IF activity[i] = 0 THEN now ELSE activity[i]
             r == [job[h] EXCEPT !.pc = "meta", !.seen = t]
  <2>1. /\ UNCHANGED <<up, activity, meta, used, terminals>> /\ job' = [job EXCEPT ![h] = r]
        /\ up /\ job[h].pc = "seen"
    BY <1>12 DEF PersistSeen, At, memory, tables, history
  <2>2. i \in Ids /\ sessions[i] # None
    BY <1>a, <2>1 DEF Shape, Found, Serving
  <2>3. t = activity[i] /\ job[h].arrived <= t /\ used[i] <= t
    BY <1>a, <1>b, <2>1, <2>2 DEF Times, Carried, Serving, Answered
  <2>4. r.kind = job[h].kind /\ r.pc = "meta" /\ r.id = i /\ r.arrived = job[h].arrived /\ r.seen = t
    BY <1>a DEF Job
  <2>5. Carried(r)
    BY <2>3, <2>4 DEF Carried
  <2>6. QED
    BY <1>a, <1>e, <2>1, <2>4, <2>5, UseMove
<1>13. ASSUME NEW i \in Ids, NEW kind \in Kinds, Touch(h, i, kind)
      PROVE  UseInv(h)'
  <2> DEFINE r == [Idle EXCEPT !.pc = "gate", !.id = i, !.kind = kind, !.arrived = now]
  <2>1. /\ UNCHANGED <<up, meta, used, terminals>> /\ job' = [job EXCEPT ![h] = r]
        /\ activity' = [activity EXCEPT ![i] = now] /\ kind # "terminal"
    BY <1>13 DEF Touch, tables, history, Single
  <2>2. r.kind = kind /\ r.pc = "gate" /\ r.id = i /\ r.arrived = now
    BY DEF Idle
  <2>3. \A j \in Ids : activity'[j] = IF j = i THEN now ELSE activity[j]
    BY <1>a, <2>1 DEF Maps
  <2>4. \A j \in Ids : Answered(j)'
    BY <1>b, <2>1, <2>3 DEF Answered, Times
  <2>5. job'[h] = r
    BY <1>a, <2>1 DEF JobInv
  <2>6. Carried(job[h])'
    BY <1>b, <2>2, <2>3, <2>5 DEF Carried
  <2>7. QED
    BY <1>e, <2>1, <2>2, <2>4, <2>5, <2>6 DEF UseInv
<1>14. ASSUME NEW i \in Ids, CreateSession(h, i)
      PROVE  UseInv(h)'
  <2> DEFINE r == [job[h] EXCEPT !.pc = "saveRow", !.id = i]
  <2>1. /\ UNCHANGED <<up, meta, used, terminals>> /\ job' = [job EXCEPT ![h] = r]
        /\ activity' = [activity EXCEPT ![i] = now]
    BY <1>14 DEF CreateSession, tables
  <2>2. r.kind = job[h].kind /\ r.pc = "saveRow"
    BY <1>a DEF Job
  <2>3. \A j \in Ids : activity'[j] = IF j = i THEN now ELSE activity[j]
    BY <1>a, <2>1 DEF Maps
  <2>4. \A j \in Ids : Answered(j)'
    BY <1>b, <2>1, <2>3 DEF Answered, Times
  <2>5. job'[h] = r
    BY <1>a, <2>1 DEF JobInv
  <2>6. Carried(job[h])'
    BY <2>2, <2>5 DEF Carried, Serving
  <2>7. QED
    BY <1>e, <2>1, <2>2, <2>4, <2>5, <2>6 DEF UseInv
<1>15. ASSUME CreateSaveMeta(h)
      PROVE  UseInv(h)'
  <2> DEFINE i == job[h].id
  <2>1. /\ UNCHANGED <<up, activity, used, terminals>> /\ job' = [job EXCEPT ![h] = Idle]
        /\ meta' = [meta EXCEPT ![i] = activity[i]] /\ up /\ job[h].pc = "saveMeta"
    BY <1>15 DEF CreateSaveMeta, At, Done, memory
  <2>2. \A j \in Ids : meta'[j] = IF j = i THEN activity[i] ELSE meta[j]
    BY <1>a, <2>1 DEF Maps
  <2>3. \A j \in Ids : Answered(j)'
    BY <1>b, <2>1, <2>2 DEF Answered
  <2>4. job'[h] = Idle
    BY <1>a, <2>1 DEF JobInv
  <2>5. QED
    BY <1>e, <2>1, <2>3, <2>4 DEF UseInv, Idle, Carried, Serving
<1>16. ASSUME PersistMeta(h)
      PROVE  UseInv(h)'
  <2> DEFINE i == job[h].id
             t == job[h].seen
             u == Latest(used[i], job[h].arrived)
  <2>1. /\ UNCHANGED <<up, activity, terminals>> /\ job' = [job EXCEPT ![h] = Idle]
        /\ meta' = [meta EXCEPT ![i] = t] /\ used' = [used EXCEPT ![i] = u]
        /\ up /\ job[h].pc = "meta"
    BY <1>16 DEF PersistMeta, At, Done, memory
  <2>2. i \in Ids /\ t <= activity[i] /\ job[h].arrived <= t /\ used[i] <= t
    BY <1>a, <2>1 DEF Shape, Serving, Held, Carried
  <2>3. u <= t /\ u <= activity[i]
    BY <1>b, <2>2 DEF Latest
  <2>4. \A j \in Ids : /\ meta'[j] = IF j = i THEN t ELSE meta[j]
                       /\ used'[j] = IF j = i THEN u ELSE used[j]
    BY <1>a, <2>1 DEF Maps
  <2>5. \A j \in Ids : Answered(j)'
    BY <1>b, <2>1, <2>3, <2>4 DEF Answered
  <2>6. job'[h] = Idle
    BY <1>a, <2>1 DEF JobInv
  <2>7. QED
    BY <1>e, <2>1, <2>5, <2>6 DEF UseInv, Idle, Carried, Serving
<1>17. ASSUME NEW i \in Ids, TerminalInput(i) \/ TerminalEnd(i)
      PROVE  FALSE
  BY <1>17, <1>e DEF TerminalInput, TerminalEnd
<1>18. ASSUME UNCHANGED <<up, activity, meta, used, terminals, job>>
      PROVE  UseInv(h)'
  BY <1>18 DEF UseInv, Answered, Carried
<1>19. ASSUME NEW o \in Organizers,
             (\E what \in {"close", "reopen"} : OrganizerSet(o, what)) \/ OrganizerStore(o)
      PROVE  UNCHANGED <<up, activity, meta, used, terminals, job>>
  BY <1>19 DEF OrganizerSet, OrganizerStore, memory, tables, history
<1>20. CASE Tick \/ UNCHANGED vars
  BY <1>18, <1>20 DEF Tick, vars, memory, tables, history
<1>21. CASE Crash
  <2>1. ~up' /\ terminals' = {} /\ job'[h] = Idle /\ UNCHANGED <<meta, used>>
    BY <1>21 DEF Crash, tables, history
  <2>2. \A i \in Ids : Answered(i)'
    BY <1>b, <2>1 DEF Answered
  <2>3. QED
    BY <2>1, <2>2 DEF UseInv, Idle, Carried, Serving
<1>22. CASE Recover
  <2>1. /\ ~up /\ UNCHANGED <<meta, used, terminals, job>>
        /\ activity' = [i \in Ids |-> IF rows[i] = None THEN 0
                                      ELSE IF meta[i] = 0 THEN now ELSE meta[i]]
    BY <1>22 DEF Recover, tables
  <2>2. job[h] = Idle
    BY <2>1 DEF AdmissionInv, DownInv
  <2>3. \A i \in Ids : Answered(i)'
    BY <1>b, <2>1 DEF Answered, Times
  <2>4. QED
    BY <1>e, <2>1, <2>2, <2>3 DEF UseInv, Idle, Carried, Serving
<1>23. QED
  BY <1>d, <1>1, <1>2, <1>3, <1>4, <1>5, <1>6, <1>7, <1>8, <1>9, <1>10, <1>11, <1>12, <1>13, <1>14, <1>15, <1>16, <1>17, <1>18, <1>19, <1>20, <1>21, <1>22
  DEF Next, Continue

\* A participant who makes one request at a time and uses no terminal is never
\* cut off as inactive within the idle time of work that was answered, also
\* after a crash: what PersistMeta stores is never older than that work.
THEOREM ActiveAlwaysServed ==
  ASSUME NEW h \in Handlers, Single(h) PROVE Spec => []ActiveIsServed
<1> DEFINE Inv == TypeInv /\ AdmissionInv /\ ExpiryInv /\ UseInv(h)
<1>1. Init => Inv
  <2>1. Init => UseInv(h)
    BY DEF Init, UseInv, Answered, Carried, Idle, Serving
  <2>2. QED
    BY <2>1, TypeInit, AdmissionInit, ExpiryInit
<1>2. Inv /\ [Next]_vars => Inv'
  BY TypeStep, AdmissionStep, ExpiryStep, UseStep
<1>3. Inv => ActiveIsServed
  <2> SUFFICES ASSUME Inv, up, NEW i \in Ids, now - used[i] <= IdleTimeout
               PROVE  ~Expired(i)
    BY DEF ActiveIsServed, Live
  <2>1. used[i] <= activity[i]
    BY DEF UseInv, Answered
  <2>2. used[i] \in Nat /\ activity[i] \in Nat /\ now \in Nat /\ IdleTimeout \in Nat
    BY GateAssumption DEF TypeInv, Maps, Time
  <2>3. QED
    BY <2>1, <2>2 DEF Expired
<1>4. QED
  BY <1>1, <1>2, <1>3, PTL DEF Spec

-----------------------------------------------------------------------------
\* One organizer and a store that works: the stored flag

\* The flag of the order under way is set and not stored yet.
FlagInv(o) ==
  /\ ~up => order[o] = "none"
  /\ up /\ order[o] = "none" => manualClose = storedClose
  /\ up /\ order[o] # "none" => manualClose = (order[o] = "close")

LEMMA FlagStep ==
  ASSUME NEW o \in Organizers, Organizers = {o}, ~StoreMayFail, TypeInv, FlagInv(o), [Next]_vars
  PROVE  FlagInv(o)'
<1>a. order \in [Organizers -> {"none", "close", "reopen"}]
  BY DEF TypeInv, Maps
<1>1. ASSUME NEW what \in {"close", "reopen"}, OrganizerSet(o, what)
      PROVE  FlagInv(o)'
  BY <1>1, <1>a DEF OrganizerSet, Free, FlagInv
<1>2. ASSUME OrganizerStore(o)
      PROVE  FlagInv(o)'
  BY <1>2, <1>a DEF OrganizerStore, FlagInv, memory
<1>3. CASE Crash
  BY <1>3 DEF Crash, FlagInv
<1>4. CASE Recover
  BY <1>4 DEF Recover, FlagInv, tables
<1>5. ASSUME UNCHANGED <<up, order, manualClose, storedClose>>
      PROVE  FlagInv(o)'
  BY <1>5 DEF FlagInv
<1>6. ASSUME NEW h \in Handlers, Continue(h)
      PROVE  UNCHANGED <<up, order, manualClose, storedClose>>
  BY <1>6 DEF Continue, CreateExisting, CreateRefused, CreateSession, CreateSaveRow, CreateSaveMeta,
     Gate, SubmitGate, Work, PersistRow, PersistSeen, PersistMeta, memory, tables
<1>7. ASSUME NEW h \in Handlers,
             \/ \E t \in Teams : CreateCheck(h, t)
             \/ \E i \in Ids : JudgeSession(h, i)
             \/ \E i \in Ids : \E kind \in Kinds : Touch(h, i, kind)
             \/ CreateFails(h) \/ PersistFails(h)
      PROVE  UNCHANGED <<up, order, manualClose, storedClose>>
  BY <1>7 DEF CreateCheck, JudgeSession, Touch, CreateFails, PersistFails, memory, tables
<1>8. ASSUME (\E i \in Ids : TerminalInput(i) \/ TerminalEnd(i)) \/ Tick \/ UNCHANGED vars
      PROVE  UNCHANGED <<up, order, manualClose, storedClose>>
  BY <1>8 DEF TerminalInput, TerminalEnd, Tick, vars, memory, tables
<1>9. QED
  BY <1>1, <1>2, <1>3, <1>4, <1>5, <1>6, <1>7, <1>8 DEF Next

\* With one organizer and no failing statement, what the table says of the
\* event is what the server does, through crashes, whenever no order is under
\* way.
THEOREM ClosedAlwaysAgrees ==
  ASSUME NEW o \in Organizers, Organizers = {o}, ~StoreMayFail
  PROVE  Spec => []ClosedAgrees
<1>1. Init => TypeInv /\ FlagInv(o)
  <2>1. Init => FlagInv(o)
    BY DEF Init, FlagInv
  <2>2. QED
    BY <2>1, TypeInit
<1>2. TypeInv /\ FlagInv(o) /\ [Next]_vars => (TypeInv /\ FlagInv(o))'
  BY TypeStep, FlagStep
<1>3. FlagInv(o) => ClosedAgrees
  BY DEF FlagInv, ClosedAgrees
<1>4. QED
  BY <1>1, <1>2, <1>3, PTL DEF Spec
=============================================================================
