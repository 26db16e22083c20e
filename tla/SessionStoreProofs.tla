------------------------- MODULE SessionStoreProofs -------------------------
(***************************************************************************)
(* Proofs about SessionStore, for any number of handlers, commands, events *)
(* and crashes.                                                            *)
(***************************************************************************)
EXTENDS SessionStore, TLAPS

-----------------------------------------------------------------------------
\* Facts about events, that is, about prefixes of a log

LEMMA EventType ==
  ASSUME NEW log \in Seq(Commands), NEW n \in 0 .. Len(log)
  PROVE  /\ EventAt(log, n) \in Seq(Commands)
         /\ Len(EventAt(log, n)) = n
         /\ \A i \in 1 .. n : EventAt(log, n)[i] = log[i]
  BY DEF EventAt

LEMMA EventOfEvent ==
  ASSUME NEW log \in Seq(Commands), NEW n \in 0 .. Len(log), NEW k \in 0 .. n
  PROVE  EventAt(EventAt(log, n), k) = EventAt(log, k)
  BY DEF EventAt

LEMMA EventOfAppend ==
  ASSUME NEW log \in Seq(Commands), NEW c \in Commands, NEW n \in 0 .. Len(log)
  PROVE  EventAt(Append(log, c), n) = EventAt(log, n)
  BY DEF EventAt

LEMMA EventWhole ==
  ASSUME NEW log \in Seq(Commands)
  PROVE  EventAt(log, Len(log)) = log
  BY DEF EventAt

LEMMA EventEmpty ==
  ASSUME NEW log \in Seq(Commands)
  PROVE  EventAt(log, 0) = <<>>
  BY DEF EventAt

-----------------------------------------------------------------------------
\* Type correctness

\* A table of finitely many rows has one with the highest sequence.
HasLast(table) == table # {} => \E r \in table : \A q \in table : Len(q) <= Len(r)

\* The loop of persistSession stays inside its copy of the chain.
InLoop(j) == j.pc = "evidence" => j.next <= Len(j.snap)

JobInv == job \in [Handlers -> Job] /\ \A h \in Handlers : InLoop(job[h])

\* TypeOK is not inductive: the loop indexes its copy, and Recover picks the
\* last row.
TypeInv == TypeOK /\ HasLast(rows) /\ JobInv

LEMMA LoadedType ==
  ASSUME NEW table \in SUBSET Event, HasLast(table)
  PROVE  /\ Loaded(table) \in Seq(Commands)
         /\ table # {} => Loaded(table) \in table
         /\ \A q \in table : Len(q) <= Len(Loaded(table))
  BY DEF Loaded, LastRow, Event, HasLast

LEMMA UpsertType ==
  ASSUME NEW table \in SUBSET Event, NEW event \in Event, HasLast(table)
  PROVE  /\ Upsert(table, event) \in SUBSET Event
         /\ HasLast(Upsert(table, event))
<1>1. Upsert(table, event) \in SUBSET Event
  BY DEF Upsert
<1>2. HasLast(Upsert(table, event))
  <2>1. CASE \A q \in table : Len(q) <= Len(event)
    BY <2>1 DEF HasLast, Upsert, Event
  <2>2. CASE \E q \in table : Len(q) > Len(event)
    <3>1. PICK r \in table : \A q \in table : Len(q) <= Len(r)
      BY <2>2 DEF HasLast
    <3>2. r \in Upsert(table, event) /\ Len(event) <= Len(r)
      BY <3>1, <2>2 DEF Upsert, Event
    <3>3. QED  BY <3>1, <3>2 DEF HasLast, Upsert
  <2>3. \A q \in table : Len(q) \in Nat
    BY DEF Event
  <2>4. Len(event) \in Nat
    BY DEF Event
  <2>5. QED  BY <2>1, <2>2, <2>3, <2>4
<1>3. QED  BY <1>1, <1>2

LEMMA EmptyLog == <<>> \in Seq(Commands)
  OBVIOUS

LEMMA IdleType == Idle \in Job
  BY ConstantsAssumption DEF Idle, Job, Labels, Scores, NoJudge

LEMMA JobAt ==
  ASSUME NEW j \in Job, NEW label \in Labels
  PROVE  /\ \A n \in Nat : [j EXCEPT !.pc = label, !.own = n] \in Job
         /\ \A log \in Seq(Commands), n \in Nat \ {0} :
              [j EXCEPT !.pc = label, !.snap = log, !.next = n] \in Job
  BY DEF Job

LEMMA JobStep ==
  ASSUME JobInv, NEW h \in Handlers, NEW r \in Job, InLoop(r),
         job' = [job EXCEPT ![h] = r]
  PROVE  JobInv'
  BY DEF JobInv

LEMMA TypeInit == Init => TypeInv
<1> SUFFICES ASSUME Init PROVE TypeInv
  OBVIOUS
<1>1. FreshMeta \in Meta
  BY DEF FreshMeta, Meta, NoJudge
<1>2. JobInv
  BY IdleType DEF Init, JobInv, InLoop, Idle
<1>3. HasLast(rows)
  BY DEF Init, HasLast
<1>4. up \in BOOLEAN /\ submitted \in BOOLEAN /\ marked \in BOOLEAN
  BY Zenon DEF Init
<1>5. stamp \in {"unset", "virtual", "wall", "created"}
  BY DEF Init
<1>6. chain \in Seq(Commands) /\ rows \in SUBSET Event
  BY EmptyLog DEF Init
<1>7. judge \in Scores \union {NoJudge} /\ restarts \in Nat
  BY DEF Init
<1>8. QED
  BY <1>1, <1>2, <1>3, <1>4, <1>5, <1>6, <1>7 DEF Init, TypeInv, TypeOK, JobInv

LEMMA TypeStep == TypeInv /\ [Next]_vars => TypeInv'
<1> SUFFICES ASSUME TypeInv, [Next]_vars
             PROVE  TypeInv'
  OBVIOUS
<1> USE ConstantsAssumption
<1>a. TypeOK /\ HasLast(rows) /\ JobInv
  BY DEF TypeInv
<1>b. \A h \in Handlers : job[h] \in Job
  BY <1>a DEF JobInv
<1>e. /\ <<>> \in Seq(Commands)
      /\ chain \in Seq(Commands) /\ Len(chain) \in Nat
      /\ chain # <<>> => Len(chain) >= 1
  BY <1>a, EmptyLog DEF TypeOK
<1>f. Len(chain) + 1 \in Nat
  BY <1>e
<1>g. {"report", "restarts", "evidence"} \subseteq Labels /\ 1 \in Nat \ {0}
  BY DEF Labels, FallibleLabels
<1>c. Idle \in Job /\ InLoop(Idle)
  BY IdleType DEF Idle, InLoop
<1>1. ASSUME NEW h \in Handlers, NEW c \in Commands, Command(h, c)
      PROVE  TypeInv'
  <2> DEFINE r == [Idle EXCEPT !.op = "command", !.pc = "report", !.own = Len(chain) + 1]
  <2>1. r \in Job /\ InLoop(r)
    <3>1. [Idle EXCEPT !.op = "command"] \in Job
      BY <1>c DEF Job, Idle
    <3>2. [[Idle EXCEPT !.op = "command"] EXCEPT !.pc = "report", !.own = Len(chain) + 1] \in Job
      BY <1>f, <1>g, <3>1, JobAt
    <3>3. QED
      BY <3>2 DEF Idle, InLoop
  <2>2. job' = [job EXCEPT ![h] = r]
    BY <1>1 DEF Command
  <2>3. JobInv'
    BY <1>a, <2>1, <2>2, JobStep
  <2>4. QED
    BY <1>1, <1>a, <2>3 DEF Command, AppendLine, tables, history, TypeInv, TypeOK, JobInv
<1>2. ASSUME NEW h \in Handlers, NEW score \in 0 .. (JudgeMaximum + 1), Judge(h, score)
      PROVE  TypeInv'
  <2> DEFINE r == [Idle EXCEPT !.op = "judge", !.pc = "report"]
  <2>1. r \in Job /\ InLoop(r)
    BY <1>2, <1>a, <1>b, <1>c DEF Job, Labels, FallibleLabels, InLoop, Idle
  <2>2. job' = [job EXCEPT ![h] = r]
    BY <1>2 DEF Judge
  <2>3. JobInv'
    BY <1>a, <2>1, <2>2, JobStep
  <2>4. QED
    BY <1>2, <1>a, <2>3 DEF Judge, tables, history, TypeInv, TypeOK, JobInv
<1>3. ASSUME NEW h \in Handlers, SubmitCheck(h)
      PROVE  TypeInv'
  <2> DEFINE r == [Idle EXCEPT !.op = "submit", !.pc = "run"]
  <2>1. r \in Job /\ InLoop(r)
    BY <1>3, <1>a, <1>b, <1>c DEF Job, Labels, FallibleLabels, InLoop, Idle
  <2>2. job' = [job EXCEPT ![h] = r]
    BY <1>3 DEF SubmitCheck
  <2>3. JobInv'
    BY <1>a, <2>1, <2>2, JobStep
  <2>4. QED
    BY <1>3, <1>a, <2>3 DEF SubmitCheck, memory, tables, history, TypeInv, TypeOK, JobInv
<1>4. ASSUME NEW h \in Handlers, RestartCheck(h)
      PROVE  TypeInv'
  <2> DEFINE r == [Idle EXCEPT !.op = "restart", !.pc = "count"]
  <2>1. r \in Job /\ InLoop(r)
    BY <1>4, <1>a, <1>b, <1>c DEF Job, Labels, FallibleLabels, InLoop, Idle
  <2>2. job' = [job EXCEPT ![h] = r]
    BY <1>4 DEF RestartCheck
  <2>3. JobInv'
    BY <1>a, <2>1, <2>2, JobStep
  <2>4. QED
    BY <1>4, <1>a, <2>3 DEF RestartCheck, memory, tables, history, TypeInv, TypeOK, JobInv
<1>5. ASSUME NEW h \in Handlers, SubmitRun(h)
      PROVE  TypeInv'
  <2> DEFINE r == [job[h] EXCEPT !.pc = "report", !.own = Len(chain) + 1]
  <2>1. r \in Job /\ InLoop(r)
    <3>1. r \in Job
      BY <1>b, <1>f, <1>g, JobAt
    <3>2. QED
      BY <1>b, <3>1 DEF InLoop, Job
  <2>2. job' = [job EXCEPT ![h] = r]
    BY <1>5 DEF SubmitRun
  <2>3. JobInv'
    BY <1>a, <2>1, <2>2, JobStep
  <2>4. QED
    BY <1>5, <1>a, <2>3 DEF SubmitRun, AppendLine, tables, history, TypeInv, TypeOK, JobInv
<1>6. ASSUME NEW h \in Handlers, RestartCount(h)
      PROVE  TypeInv'
  <2> DEFINE r == IF MaxRestarts > 0 /\ restarts >= MaxRestarts THEN Idle
                 ELSE [job[h] EXCEPT !.pc = "reset"]
  <2>1. r \in Job /\ InLoop(r)
    BY <1>6, <1>a, <1>b, <1>c DEF Job, Labels, FallibleLabels, InLoop
  <2>2. job' = [job EXCEPT ![h] = r]
    BY <1>6 DEF RestartCount, Goto
  <2>3. JobInv'
    BY <1>a, <2>1, <2>2, JobStep
  <2>4. QED
    BY <1>6, <1>a, <2>3 DEF RestartCount, tables, history, TypeInv, TypeOK, JobInv
<1>7. ASSUME NEW h \in Handlers, RestartReset(h)
     PROVE  TypeInv'
  <2>1. JobInv'
    <3> DEFINE r(g) == [job[g] EXCEPT !.own = 0, !.pc = IF g = h THEN "clear" ELSE @]
    <3>1. "clear" \in Labels /\ 0 \in Nat
      BY DEF Labels, FallibleLabels
    <3>2. ASSUME NEW g \in Handlers PROVE r(g) \in Job /\ InLoop(r(g))
      BY <1>a, <1>b, <3>1 DEF JobInv, InLoop, Job
    <3>3. job' = [g \in Handlers |-> r(g)]
      BY <1>7 DEF RestartReset
    <3>4. QED
      BY <3>2, <3>3 DEF JobInv
  <2>2. submitted' \in BOOLEAN
    BY <1>7, Zenon DEF RestartReset
  <2>3. stamp' \in {"unset", "virtual", "wall", "created"} /\ chain' \in Seq(Commands)
    BY <1>7, <1>e DEF RestartReset
  <2>4. judge' \in Scores \union {NoJudge}
    BY <1>7 DEF RestartReset
  <2>7. acked' = 0 /\ resets' = resets + 1 /\ resets \in Nat
    BY <1>7, <1>a DEF RestartReset, TypeOK
  <2>5. UNCHANGED <<up, restarts, tables, crashes>>
    BY <1>7 DEF RestartReset
  <2>6. QED
    BY <1>a, <2>1, <2>2, <2>3, <2>4, <2>5, <2>7 DEF tables, TypeInv, TypeOK, JobInv
<1>8. ASSUME NEW h \in Handlers, RestartClear(h)
      PROVE  TypeInv'
  <2> DEFINE r == [job[h] EXCEPT !.pc = "report"]
  <2>1. r \in Job /\ InLoop(r)
    BY <1>8, <1>a, <1>b, <1>c DEF Job, Labels, FallibleLabels, InLoop
  <2>2. job' = [job EXCEPT ![h] = r]
    BY <1>8 DEF RestartClear, Goto
  <2>3. JobInv'
    BY <1>a, <2>1, <2>2, JobStep
  <2>4. QED
    BY <1>8, <1>a, <2>3 DEF RestartClear, HasLast, memory, history, TypeInv, TypeOK, JobInv
<1>9. ASSUME NEW h \in Handlers, PersistReport(h)
      PROVE  TypeInv'
  <2> DEFINE r == [job[h] EXCEPT !.pc = "snapshot", !.judge = judge]
  <2>1. r \in Job /\ InLoop(r)
    BY <1>9, <1>a, <1>b, <1>c DEF Job, Labels, FallibleLabels, InLoop, TypeOK
  <2>2. job' = [job EXCEPT ![h] = r]
    BY <1>9 DEF PersistReport
  <2>3. JobInv'
    BY <1>a, <2>1, <2>2, JobStep
  <2>4. QED
    BY <1>9, <1>a, <2>3 DEF PersistReport, memory, tables, history, TypeInv, TypeOK, JobInv
<1>10. ASSUME NEW h \in Handlers, PersistSnapshot(h)
       PROVE  TypeInv'
  <2> DEFINE r == [job[h] EXCEPT !.pc = IF chain = <<>> THEN "restarts" ELSE "evidence",
                            !.snap = chain, !.next = 1]
  <2>1. r \in Job /\ InLoop(r)
    <3>1. [job[h] EXCEPT !.pc = "restarts", !.snap = chain, !.next = 1] \in Job
      BY <1>b, <1>e, <1>g, JobAt
    <3>2. [job[h] EXCEPT !.pc = "evidence", !.snap = chain, !.next = 1] \in Job
      BY <1>b, <1>e, <1>g, JobAt
    <3>3. QED
      BY <1>b, <1>e, <3>1, <3>2 DEF InLoop, Job
  <2>2. job' = [job EXCEPT ![h] = r]
    BY <1>10 DEF PersistSnapshot
  <2>3. JobInv'
    BY <1>a, <2>1, <2>2, JobStep
  <2>4. QED
    BY <1>10, <1>a, <2>3 DEF PersistSnapshot, memory, tables, history, TypeInv, TypeOK, JobInv
<1>11. ASSUME NEW h \in Handlers, PersistEvent(h)
      PROVE  TypeInv'
  <2> DEFINE n == job[h].next
             r == IF n < Len(job[h].snap)
                    THEN [job[h] EXCEPT !.next = n + 1]
                    ELSE [job[h] EXCEPT !.next = 1, !.snap = <<>>, !.pc = "restarts"]
  <2>1. job[h].snap \in Seq(Commands) /\ n \in 1 .. Len(job[h].snap)
    BY <1>11, <1>a, <1>b DEF PersistEvent, At, JobInv, InLoop, Job
  <2>2. EventAt(job[h].snap, n) \in Event
    BY <2>1, EventType DEF Event
  <2>3. rows' \in SUBSET Event /\ HasLast(rows')
    BY <1>11, <1>a, <2>2, UpsertType DEF PersistEvent, TypeOK
  <2>4. r \in Job /\ InLoop(r)
    <3>1. CASE n < Len(job[h].snap)
      <4>1. n + 1 \in Nat \ {0} /\ n + 1 <= Len(job[h].snap)
        BY <2>1, <3>1
      <4>2. [job[h] EXCEPT !.next = n + 1] \in Job
        BY <1>b, <4>1 DEF Job
      <4>3. QED
        BY <1>b, <3>1, <4>1, <4>2 DEF Job, InLoop
    <3>2. CASE ~(n < Len(job[h].snap))
      <4>1. [job[h] EXCEPT !.pc = "restarts", !.snap = <<>>, !.next = 1] \in Job
        BY <1>b, <1>e, <1>g, JobAt
      <4>2. QED
        BY <1>b, <3>2, <4>1 DEF Job, InLoop
    <3>3. QED
      BY <3>1, <3>2
  <2>5. job' = [job EXCEPT ![h] = r]
    BY <1>11 DEF PersistEvent
  <2>6. JobInv'
    BY <1>a, <2>4, <2>5, JobStep
  <2>7. QED
    BY <1>11, <1>a, <2>3, <2>6 DEF PersistEvent, memory, history, TypeInv, TypeOK, JobInv
<1>12. ASSUME NEW h \in Handlers, PersistRestarts(h)
       PROVE  TypeInv'
  <2> DEFINE r == [job[h] EXCEPT !.pc = "submitted", !.restarts = restarts]
  <2>1. r \in Job /\ InLoop(r)
    BY <1>12, <1>a, <1>b, <1>c DEF Job, Labels, FallibleLabels, InLoop, TypeOK
  <2>2. job' = [job EXCEPT ![h] = r]
    BY <1>12 DEF PersistRestarts
  <2>3. JobInv'
    BY <1>a, <2>1, <2>2, JobStep
  <2>4. QED
    BY <1>12, <1>a, <2>3 DEF PersistRestarts, memory, tables, history, TypeInv, TypeOK, JobInv
<1>13. ASSUME NEW h \in Handlers, PersistSubmitted(h)
       PROVE  TypeInv'
  <2> DEFINE r == [job[h] EXCEPT !.pc = "meta", !.submitted = submitted]
  <2>1. r \in Job /\ InLoop(r)
    BY <1>13, <1>a, <1>b, <1>c DEF Job, Labels, FallibleLabels, InLoop, TypeOK
  <2>2. job' = [job EXCEPT ![h] = r]
    BY <1>13 DEF PersistSubmitted
  <2>3. JobInv'
    BY <1>a, <2>1, <2>2, JobStep
  <2>4. QED
    BY <1>13, <1>a, <2>3 DEF PersistSubmitted, memory, tables, history, TypeInv, TypeOK, JobInv
<1>14. ASSUME NEW h \in Handlers, PersistMeta(h)
      PROVE  TypeInv'
  <2> DEFINE r == IF job[h].op = "submit"
                    THEN [Idle EXCEPT !.op = "submit", !.pc = "bundle", !.own = job[h].own]
                    ELSE Idle
  <2>1. meta' \in Meta
    BY <1>14, <1>b DEF PersistMeta, Meta, Job
  <2>2. r \in Job /\ InLoop(r)
    BY <1>b, <1>c DEF Idle, Job, Labels, FallibleLabels, InLoop
  <2>3. job' = [job EXCEPT ![h] = r]
    BY <1>14 DEF PersistMeta, Answer
  <2>4. JobInv'
    BY <1>a, <2>2, <2>3, JobStep
  <2>5. acked' \in Nat /\ resets' = resets /\ crashes' = crashes
    BY <1>14, <1>a, <1>b DEF PersistMeta, Answer, Job, TypeOK, history
  <2>6. QED
    BY <1>14, <1>a, <2>1, <2>4, <2>5 DEF PersistMeta, memory, TypeInv, TypeOK, JobInv
<1>15. ASSUME NEW h \in Handlers, SubmitBundle(h)
       PROVE  TypeInv'
  <2> DEFINE r == [job[h] EXCEPT !.pc = "model"]
  <2>1. r \in Job /\ InLoop(r)
    BY <1>15, <1>a, <1>b, <1>c DEF Job, Labels, FallibleLabels, InLoop
  <2>2. job' = [job EXCEPT ![h] = r]
    BY <1>15 DEF SubmitBundle, Goto
  <2>3. JobInv'
    BY <1>a, <2>1, <2>2, JobStep
  <2>4. QED
    BY <1>15, <1>a, <2>3 DEF SubmitBundle, memory, history, TypeInv, TypeOK, JobInv
<1>16. ASSUME NEW h \in Handlers, SubmitModel(h)
       PROVE  TypeInv'
  <2> DEFINE r == [job[h] EXCEPT !.pc = "insert", !.snap = chain]
  <2>1. r \in Job /\ InLoop(r)
    BY <1>16, <1>a, <1>b, <1>c DEF Job, Labels, FallibleLabels, InLoop, TypeOK
  <2>2. job' = [job EXCEPT ![h] = r]
    BY <1>16 DEF SubmitModel
  <2>3. JobInv'
    BY <1>a, <2>1, <2>2, JobStep
  <2>4. QED
    BY <1>16, <1>a, <2>3 DEF SubmitModel, memory, tables, history, TypeInv, TypeOK, JobInv
<1>17. ASSUME NEW h \in Handlers, SubmitInsert(h)
       PROVE  TypeInv'
  <2> DEFINE r == IF submission = None THEN [job[h] EXCEPT !.pc = "mark", !.snap = <<>>] ELSE Idle
  <2>1. r \in Job /\ InLoop(r)
    <3>1. "mark" \in Labels /\ "mark" # "evidence"
      BY DEF Labels
    <3>2. [job[h] EXCEPT !.pc = "mark", !.snap = <<>>] \in Job
      BY <1>b, <1>e, <3>1 DEF Job
    <3>3. QED
      BY <1>b, <1>c, <3>1, <3>2 DEF InLoop, Job
  <2>2. job' = [job EXCEPT ![h] = r]
    BY <1>17 DEF SubmitInsert
  <2>3. JobInv'
    BY <1>a, <2>1, <2>2, JobStep
  <2>4. job[h].snap \in Seq(Commands)
    BY <1>b DEF Job
  <2>5. QED
    BY <1>17, <1>a, <2>3, <2>4 DEF SubmitInsert, memory, history, TypeInv, TypeOK, JobInv
<1>18. ASSUME NEW h \in Handlers, SubmitMark(h)
      PROVE  TypeInv'
  <2>1. JobInv'
    BY <1>18, <1>a, <1>c, JobStep DEF SubmitMark, Answer
  <2>2. acked' \in Nat /\ resets' = resets /\ crashes' = crashes
    BY <1>18, <1>a, <1>b DEF SubmitMark, Answer, Job, TypeOK
  <2>3. QED
    BY <1>18, <1>a, <2>1, <2>2 DEF SubmitMark, memory, TypeInv, TypeOK, JobInv
<1>19. ASSUME NEW h \in Handlers, StoreFails(h)
      PROVE  TypeInv'
  <2>1. JobInv'
    BY <1>19, <1>a, <1>c, JobStep DEF StoreFails
  <2>2. QED
    BY <1>19, <1>a, <2>1 DEF StoreFails, memory, tables, history, TypeInv, TypeOK, JobInv
<1>20. ASSUME NEW c \in Commands, TerminalInput(c)
      PROVE  TypeInv'
  BY <1>20, <1>a DEF TerminalInput, AppendLine, tables, history, TypeInv, TypeOK, JobInv
<1>21. CASE Export
  BY <1>21, <1>a DEF Export, memory, history, TypeInv, TypeOK, JobInv
<1>22. CASE Crash
  <2>1. JobInv'
    BY <1>22, <1>c DEF Crash, JobInv
  <2>2. up' \in BOOLEAN /\ submitted' \in BOOLEAN
    BY <1>22, Zenon DEF Crash
  <2>3. stamp' \in {"unset", "virtual", "wall", "created"} /\ chain' \in Seq(Commands)
    BY <1>22, <1>e DEF Crash
  <2>4. judge' \in Scores \union {NoJudge} /\ restarts' \in Nat /\ crashes' \in Nat
    BY <1>22, <1>a DEF Crash, TypeOK
  <2>5. UNCHANGED <<tables, acked, resets>>
    BY <1>22 DEF Crash
  <2>6. QED
    BY <1>a, <2>1, <2>2, <2>3, <2>4, <2>5 DEF tables, TypeInv, TypeOK, JobInv
<1>23. CASE Recover
  <2>1. Loaded(rows) \in Seq(Commands)
    BY <1>a, LoadedType DEF TypeOK
  <2>2. QED
    BY <1>23, <1>a, <2>1 DEF Recover, tables, history, Meta, TypeInv, TypeOK, JobInv
<1>24. CASE UNCHANGED vars
  BY <1>24, <1>a DEF vars, memory, tables, history, TypeInv, TypeOK, JobInv
<1>25. QED
  BY <1>1, <1>2, <1>3, <1>4, <1>5, <1>6, <1>7, <1>8, <1>9, <1>10, <1>11, <1>12,
     <1>13, <1>14, <1>15, <1>16, <1>17, <1>18, <1>19, <1>20, <1>21, <1>22, <1>23, <1>24
  DEF Next, Continue

\* Every variable keeps its type, with restarts and crashes, for any number
\* of handlers and any length of the evidence chain.
THEOREM TypeCorrect == Spec => []TypeOK
<1>1. TypeInv => TypeOK
  BY DEF TypeInv
<1>2. QED
  BY <1>1, TypeInit, TypeStep, PTL DEF Spec

-----------------------------------------------------------------------------
\* Durability in an event that forbids restarts

\* The first d events of a log, as rows.
FirstRows(log, d) == {EventAt(log, i) : i \in 1 .. d}

Durably == Len(Loaded(rows))

\* What a request has done so far: its copy is a prefix of the chain, the
\* rows before the one it writes next are there, and once past the loop its
\* own command is durable.
WriterInv(j, log, d) ==
  /\ j.pc \notin {"count", "reset", "clear"}
  /\ j.own <= Len(log)
  /\ j.pc = "evidence" =>
       /\ Len(j.snap) <= Len(log) /\ j.snap = EventAt(log, Len(j.snap))
       /\ j.own <= Len(j.snap)
       /\ j.next <= Len(j.snap) /\ j.next <= d + 1
  /\ j.pc \in {"restarts", "submitted", "meta", "bundle", "model", "insert", "mark"} =>
       j.own <= d

\* The rows are the first events of the chain, with no gap and nothing stale.
LogInv ==
  /\ up => Durably <= Len(chain) /\ rows = FirstRows(chain, Durably)
  /\ ~up => rows = FirstRows(Loaded(rows), Durably) /\ job = [h \in Handlers |-> Idle]
  /\ acked <= Durably
  /\ \A h \in Handlers : WriterInv(job[h], chain, Durably)

DurableInv == TypeInv /\ LogInv

LEMMA FirstRowsLoaded ==
  ASSUME NEW log \in Seq(Commands), NEW d \in 0 .. Len(log)
  PROVE  /\ FirstRows(log, d) \in SUBSET Event
         /\ Loaded(FirstRows(log, d)) = EventAt(log, d)
<1> DEFINE table == FirstRows(log, d)
<1>1. \A i \in 1 .. d : EventAt(log, i) \in Event /\ Len(EventAt(log, i)) = i
  BY EventType DEF Event
<1>2. table \in SUBSET Event
  BY <1>1 DEF FirstRows
<1>3. CASE d = 0
  BY <1>2, <1>3, EventEmpty DEF FirstRows, Loaded
<1>4. CASE d > 0
  <2>1. EventAt(log, d) \in table
    BY <1>4 DEF FirstRows
  <2>2. \A q \in table : Len(q) <= d
    BY <1>1 DEF FirstRows
  <2>3. \A r \in table : (\A q \in table : Len(q) <= Len(r)) => r = EventAt(log, d)
    <3> SUFFICES ASSUME NEW i \in 1 .. d, \A q \in table : Len(q) <= Len(EventAt(log, i))
                 PROVE  EventAt(log, i) = EventAt(log, d)
      BY DEF FirstRows
    <3>1. d <= i
      BY <1>1, <1>4, <2>1
    <3>2. QED
      BY <3>1
  <2>4. \A q \in table : Len(q) <= Len(EventAt(log, d))
    BY <1>1, <1>4, <2>2
  <2>5. QED
    BY <1>2, <2>1, <2>3, <2>4 DEF Loaded, LastRow
<1>5. QED
  BY <1>2, <1>3, <1>4

\* Such rows pass Chain.Restore.
LEMMA FirstRowsVerify ==
  ASSUME NEW log \in Seq(Commands), NEW d \in 0 .. Len(log)
  PROVE  Verifies(FirstRows(log, d))
<1>1. \A i \in 1 .. d : Len(EventAt(log, i)) = i
  BY EventType
<1>2. \A i \in 1 .. d : i > 1 => EventAt(EventAt(log, i), i - 1) = EventAt(log, i - 1)
  BY EventOfEvent
<1>3. QED
  BY <1>1, <1>2 DEF Verifies, FirstRows

\* Appending to the log leaves the rows of its first events alone.
LEMMA FirstRowsAppend ==
  ASSUME NEW log \in Seq(Commands), NEW c \in Commands, NEW d \in 0 .. Len(log)
  PROVE  FirstRows(Append(log, c), d) = FirstRows(log, d)
<1>1. \A i \in 1 .. d : EventAt(Append(log, c), i) = EventAt(log, i)
  BY EventOfAppend
<1>2. QED
  BY <1>1 DEF FirstRows

\* Writing one of these rows again changes nothing, writing the next one
\* makes the rows one longer.
LEMMA FirstRowsUpsert ==
  ASSUME NEW log \in Seq(Commands), NEW d \in 0 .. Len(log),
         NEW n \in 1 .. Len(log), n <= d + 1
  PROVE  Upsert(FirstRows(log, d), EventAt(log, n))
           = FirstRows(log, IF n <= d THEN d ELSE n)
<1>1. \A i \in 1 .. Len(log) : Len(EventAt(log, i)) = i
  BY EventType
<1>2. CASE n <= d
  BY <1>1, <1>2 DEF Upsert, FirstRows
<1>3. CASE n > d
  BY <1>1, <1>3 DEF Upsert, FirstRows
<1>4. QED
  BY <1>2, <1>3

\* The rows of a prefix of the log are rows of the log.
LEMMA FirstRowsOfEvent ==
  ASSUME NEW log \in Seq(Commands), NEW d \in 0 .. Len(log)
  PROVE  FirstRows(EventAt(log, d), d) = FirstRows(log, d)
<1>1. \A i \in 1 .. d : EventAt(EventAt(log, d), i) = EventAt(log, i)
  BY EventOfEvent
<1>2. QED
  BY <1>1 DEF FirstRows

\* A request keeps its invariant while others append commands and rows.
LEMMA WriterGrows ==
  ASSUME NEW j \in Job, NEW log \in Seq(Commands), NEW d \in 0 .. Len(log),
         NEW c \in Commands, WriterInv(j, log, d)
  PROVE  WriterInv(j, Append(log, c), d)
<1>1. Len(Append(log, c)) = Len(log) + 1
  OBVIOUS
<1>2. j.pc = "evidence" => EventAt(Append(log, c), Len(j.snap)) = EventAt(log, Len(j.snap))
  BY EventOfAppend DEF WriterInv, Job
<1>3. QED
  BY <1>1, <1>2 DEF WriterInv, Job

LEMMA WriterSaved ==
  ASSUME NEW j \in Job, NEW log \in Seq(Commands), NEW d \in Nat, NEW e \in Nat, d <= e,
         WriterInv(j, log, d)
  PROVE  WriterInv(j, log, e)
  BY DEF WriterInv, Job

LEMMA WriterIdle ==
  ASSUME NEW log \in Seq(Commands), NEW d \in Nat
  PROVE  WriterInv(Idle, log, d)
  BY DEF WriterInv, Idle

\* A step of one request that leaves the log, the rows and the promises alone.
LEMMA RequestStep ==
  ASSUME JobInv, LogInv, up, NEW h \in Handlers, NEW r \in Job,
         WriterInv(r, chain, Durably), job' = [job EXCEPT ![h] = r],
         UNCHANGED <<up, chain, rows, acked>>
  PROVE  LogInv'
<1>1. Durably' = Durably
  BY DEF Durably
<1>2. \A g \in Handlers : WriterInv(job'[g], chain, Durably)
  BY DEF LogInv, JobInv
<1>3. QED
  BY <1>1, <1>2 DEF LogInv

\* A step that appends a command, and moves one request if any.
LEMMA AppendStep ==
  ASSUME TypeInv, LogInv, up, NEW c \in Commands, chain' = Append(chain, c),
         UNCHANGED <<up, rows, acked>>,
         \A g \in Handlers : job'[g] = job[g] \/ WriterInv(job'[g], chain', Durably)
  PROVE  LogInv'
<1>1. chain \in Seq(Commands) /\ Durably \in 0 .. Len(chain) /\ Durably' = Durably
  BY LoadedType DEF TypeInv, TypeOK, LogInv, Durably
<1>2. Durably <= Len(chain') /\ rows' = FirstRows(chain', Durably)
  BY <1>1, FirstRowsAppend DEF LogInv
<1>3. \A g \in Handlers : WriterInv(job[g], chain', Durably)
  BY <1>1, WriterGrows DEF LogInv, TypeInv, JobInv
<1>4. \A g \in Handlers : WriterInv(job'[g], chain', Durably)
  BY <1>3
<1>5. QED
  BY <1>1, <1>2, <1>4 DEF LogInv

\* A request answers, and what it promises is durable.
LEMMA AnswerStep ==
  ASSUME TypeInv, LogInv, up, NEW h \in Handlers, Answer(h),
         job[h].own <= Durably, UNCHANGED <<up, chain, rows>>
  PROVE  LogInv'
<1>1. chain \in Seq(Commands) /\ Durably \in Nat /\ Durably' = Durably
  BY LoadedType DEF TypeInv, TypeOK, LogInv, Durably
<1>2. \A g \in Handlers : WriterInv(job'[g], chain, Durably)
  BY <1>1, WriterIdle DEF Answer, LogInv, TypeInv, JobInv
<1>3. acked' <= Durably
  BY DEF Answer, LogInv
<1>4. QED
  BY <1>1, <1>2, <1>3 DEF LogInv

LEMMA LogInit == Init => LogInv
<1> SUFFICES ASSUME Init PROVE LogInv
  OBVIOUS
<1>1. Durably = 0 /\ FirstRows(chain, 0) = {}
  BY DEF Init, Durably, Loaded, FirstRows
<1>2. \A h \in Handlers : WriterInv(job[h], chain, 0)
  BY WriterIdle, EmptyLog DEF Init
<1>3. QED
  BY <1>1, <1>2 DEF Init, LogInv

LEMMA LogStep ==
  ASSUME ~AllowRestart, TypeInv, LogInv, [Next]_vars
  PROVE  LogInv'
<1> USE ConstantsAssumption
<1>a. /\ chain \in Seq(Commands) /\ Len(chain) \in Nat
      /\ rows \in SUBSET Event /\ HasLast(rows)
      /\ Durably \in Nat /\ Loaded(rows) \in Seq(Commands)
      /\ acked \in Nat
  BY LoadedType DEF TypeInv, TypeOK, Durably
<1>b. /\ JobInv
      /\ \A h \in Handlers : job[h] \in Job /\ WriterInv(job[h], chain, Durably)
  BY DEF TypeInv, JobInv, LogInv
<1>c. JobInv'
  BY TypeStep DEF TypeInv
<1>d. WriterInv(Idle, chain, Durably)
  BY <1>a, WriterIdle
<1>1. ASSUME NEW h \in Handlers, NEW score \in 0 .. (JudgeMaximum + 1), Judge(h, score)
      PROVE  LogInv'
  <2> DEFINE r == [Idle EXCEPT !.op = "judge", !.pc = "report"]
  <2>1. job' = [job EXCEPT ![h] = r] /\ up /\ UNCHANGED <<up, chain, rows, acked>>
    BY <1>1 DEF Judge, At, tables, history
  <2>2. r \in Job
    BY <1>c, <2>1, <1>b DEF JobInv
  <2>3. WriterInv(r, chain, Durably)
    BY <1>1, <1>a, <1>b, <1>d DEF Judge, At, WriterInv, Job, Idle
  <2>4. QED
    BY <1>b, <2>1, <2>2, <2>3, RequestStep
<1>2. ASSUME NEW h \in Handlers, SubmitCheck(h)
      PROVE  LogInv'
  <2> DEFINE r == [Idle EXCEPT !.op = "submit", !.pc = "run"]
  <2>1. job' = [job EXCEPT ![h] = r] /\ up /\ UNCHANGED <<up, chain, rows, acked>>
    BY <1>2 DEF SubmitCheck, At, memory, tables, history
  <2>2. r \in Job
    BY <1>c, <2>1, <1>b DEF JobInv
  <2>3. WriterInv(r, chain, Durably)
    BY <1>2, <1>a, <1>b, <1>d DEF SubmitCheck, At, WriterInv, Job, Idle
  <2>4. QED
    BY <1>b, <2>1, <2>2, <2>3, RequestStep
<1>3. ASSUME NEW h \in Handlers, PersistReport(h)
      PROVE  LogInv'
  <2> DEFINE r == [job[h] EXCEPT !.pc = "snapshot", !.judge = judge]
  <2>1. job' = [job EXCEPT ![h] = r] /\ up /\ UNCHANGED <<up, chain, rows, acked>>
    BY <1>3 DEF PersistReport, At, memory, tables, history
  <2>2. r \in Job
    BY <1>c, <2>1, <1>b DEF JobInv
  <2>3. WriterInv(r, chain, Durably)
    BY <1>3, <1>a, <1>b, <1>d DEF PersistReport, At, WriterInv, Job
  <2>4. QED
    BY <1>b, <2>1, <2>2, <2>3, RequestStep
<1>4. ASSUME NEW h \in Handlers, PersistSnapshot(h)
     PROVE  LogInv'
  <2> DEFINE r == [job[h] EXCEPT !.pc = IF chain = <<>> THEN "restarts" ELSE "evidence",
                                !.snap = chain, !.next = 1]
  <2>1. job' = [job EXCEPT ![h] = r] /\ up /\ UNCHANGED <<up, chain, rows, acked>>
    BY <1>4 DEF PersistSnapshot, At, memory, tables, history
  <2>2. r \in Job
    BY <1>c, <2>1, <1>b DEF JobInv
  <2>3. CASE chain = <<>>
    <3>1. job[h].own <= 0
      BY <1>b, <2>3 DEF WriterInv
    <3>2. r.own = job[h].own /\ r.pc = "restarts"
      BY <1>b, <2>3 DEF Job
    <3>3. job[h].own \in Nat
      BY <1>b DEF Job
    <3>4. WriterInv(r, chain, Durably)
      BY <1>a, <2>3, <3>1, <3>2, <3>3 DEF WriterInv
    <3>5. QED
      BY <1>b, <2>1, <2>2, <3>4, RequestStep
  <2>4. CASE chain # <<>>
    <3>1. r.own = job[h].own /\ r.pc = "evidence" /\ r.snap = chain /\ r.next = 1
      BY <1>b, <2>4 DEF Job
    <3>2. chain = EventAt(chain, Len(chain)) /\ Len(chain) >= 1
      BY <1>a, <2>4, EventWhole
    <3>3. job[h].own <= Len(chain)
      BY <1>b DEF WriterInv
    <3>4. WriterInv(r, chain, Durably)
      BY <1>a, <3>1, <3>2, <3>3 DEF WriterInv
    <3>5. QED
      BY <1>b, <2>1, <2>2, <3>4, RequestStep
  <2>5. QED
    BY <2>3, <2>4
<1>5. ASSUME NEW h \in Handlers, PersistRestarts(h)
      PROVE  LogInv'
  <2> DEFINE r == [job[h] EXCEPT !.pc = "submitted", !.restarts = restarts]
  <2>1. job' = [job EXCEPT ![h] = r] /\ up /\ UNCHANGED <<up, chain, rows, acked>>
    BY <1>5 DEF PersistRestarts, At, memory, tables, history
  <2>2. r \in Job
    BY <1>c, <2>1, <1>b DEF JobInv
  <2>3. WriterInv(r, chain, Durably)
    BY <1>5, <1>a, <1>b, <1>d DEF PersistRestarts, At, WriterInv, Job
  <2>4. QED
    BY <1>b, <2>1, <2>2, <2>3, RequestStep
<1>6. ASSUME NEW h \in Handlers, PersistSubmitted(h)
      PROVE  LogInv'
  <2> DEFINE r == [job[h] EXCEPT !.pc = "meta", !.submitted = submitted]
  <2>1. job' = [job EXCEPT ![h] = r] /\ up /\ UNCHANGED <<up, chain, rows, acked>>
    BY <1>6 DEF PersistSubmitted, At, memory, tables, history
  <2>2. r \in Job
    BY <1>c, <2>1, <1>b DEF JobInv
  <2>3. WriterInv(r, chain, Durably)
    BY <1>6, <1>a, <1>b, <1>d DEF PersistSubmitted, At, WriterInv, Job
  <2>4. QED
    BY <1>b, <2>1, <2>2, <2>3, RequestStep
<1>7. ASSUME NEW h \in Handlers, SubmitBundle(h)
      PROVE  LogInv'
  <2> DEFINE r == [job[h] EXCEPT !.pc = "model"]
  <2>1. job' = [job EXCEPT ![h] = r] /\ up /\ UNCHANGED <<up, chain, rows, acked>>
    BY <1>7 DEF SubmitBundle, At, Goto, memory, history
  <2>2. r \in Job
    BY <1>c, <2>1, <1>b DEF JobInv
  <2>3. WriterInv(r, chain, Durably)
    BY <1>7, <1>a, <1>b, <1>d DEF SubmitBundle, At, WriterInv, Job
  <2>4. QED
    BY <1>b, <2>1, <2>2, <2>3, RequestStep
<1>8. ASSUME NEW h \in Handlers, SubmitModel(h)
      PROVE  LogInv'
  <2> DEFINE r == [job[h] EXCEPT !.pc = "insert", !.snap = chain]
  <2>1. job' = [job EXCEPT ![h] = r] /\ up /\ UNCHANGED <<up, chain, rows, acked>>
    BY <1>8 DEF SubmitModel, At, memory, tables, history
  <2>2. r \in Job
    BY <1>c, <2>1, <1>b DEF JobInv
  <2>3. WriterInv(r, chain, Durably)
    BY <1>8, <1>a, <1>b, <1>d DEF SubmitModel, At, WriterInv, Job
  <2>4. QED
    BY <1>b, <2>1, <2>2, <2>3, RequestStep
<1>9. ASSUME NEW h \in Handlers, SubmitInsert(h)
      PROVE  LogInv'
  <2> DEFINE r == IF submission = None THEN [job[h] EXCEPT !.pc = "mark", !.snap = <<>>] ELSE Idle
  <2>1. job' = [job EXCEPT ![h] = r] /\ up /\ UNCHANGED <<up, chain, rows, acked>>
    BY <1>9 DEF SubmitInsert, At, memory, history
  <2>2. r \in Job
    BY <1>c, <2>1, <1>b DEF JobInv
  <2>3. WriterInv(r, chain, Durably)
    BY <1>9, <1>a, <1>b, <1>d DEF SubmitInsert, At, WriterInv, Job
  <2>4. QED
    BY <1>b, <2>1, <2>2, <2>3, RequestStep
<1>10. ASSUME NEW h \in Handlers, StoreFails(h)
       PROVE  LogInv'
  <2> DEFINE r == Idle
  <2>1. job' = [job EXCEPT ![h] = r] /\ up /\ UNCHANGED <<up, chain, rows, acked>>
    BY <1>10 DEF StoreFails, At, memory, tables, history
  <2>2. r \in Job
    BY <1>c, <2>1, <1>b DEF JobInv
  <2>3. WriterInv(r, chain, Durably)
    BY <1>10, <1>a, <1>b, <1>d DEF StoreFails, At, WriterInv, Job
  <2>4. QED
    BY <1>b, <2>1, <2>2, <2>3, RequestStep
<1>11. ASSUME NEW h \in Handlers, NEW c \in Commands, Command(h, c)
      PROVE  LogInv'
  <2> DEFINE r == [Idle EXCEPT !.op = "command", !.pc = "report", !.own = Len(chain) + 1]
  <2>1. /\ job' = [job EXCEPT ![h] = r] /\ up /\ chain' = Append(chain, c)
        /\ UNCHANGED <<up, rows, acked>>
    BY <1>11 DEF Command, At, AppendLine, tables, history
  <2>2. r.pc = "report" /\ r.own = Len(chain) + 1
    BY DEF Idle
  <2>3. Len(chain') = Len(chain) + 1
    BY <1>a, <2>1
  <2>4. WriterInv(r, chain', Durably)
    BY <1>a, <2>2, <2>3 DEF WriterInv
  <2>5. \A g \in Handlers : job'[g] = job[g] \/ WriterInv(job'[g], chain', Durably)
    BY <1>b, <2>1, <2>4 DEF JobInv
  <2>6. QED
    BY <2>1, <2>5, AppendStep
<1>12. ASSUME NEW h \in Handlers, SubmitRun(h)
      PROVE  LogInv'
  <2> DEFINE r == [job[h] EXCEPT !.pc = "report", !.own = Len(chain) + 1]
  <2>1. /\ job' = [job EXCEPT ![h] = r] /\ up /\ chain' = Append(chain, Submit)
        /\ UNCHANGED <<up, rows, acked>>
    BY <1>12 DEF SubmitRun, At, AppendLine, tables, history
  <2>2. r.pc = "report" /\ r.own = Len(chain) + 1
    BY <1>b DEF Job
  <2>3. Len(chain') = Len(chain) + 1
    BY <1>a, <2>1
  <2>4. WriterInv(r, chain', Durably)
    BY <1>a, <2>2, <2>3 DEF WriterInv
  <2>5. \A g \in Handlers : job'[g] = job[g] \/ WriterInv(job'[g], chain', Durably)
    BY <1>b, <2>1, <2>4 DEF JobInv
  <2>6. QED
    BY <2>1, <2>5, AppendStep
<1>13. ASSUME NEW c \in Commands, TerminalInput(c)
      PROVE  LogInv'
  BY <1>13, AppendStep DEF TerminalInput, AppendLine, tables, history
<1>14. ASSUME NEW h \in Handlers, PersistEvent(h)
      PROVE  LogInv'
  <2> DEFINE n == job[h].next
             d == Durably
             e == IF n <= d THEN d ELSE n
             r == IF n < Len(job[h].snap)
                    THEN [job[h] EXCEPT !.next = n + 1]
                    ELSE [job[h] EXCEPT !.next = 1, !.snap = <<>>, !.pc = "restarts"]
  <2>1. up /\ job' = [job EXCEPT ![h] = r] /\ UNCHANGED <<up, chain, acked>>
    BY <1>14 DEF PersistEvent, At, memory, history
  <2>2. /\ job[h].pc = "evidence" /\ job[h].snap \in Seq(Commands)
        /\ n \in 1 .. Len(job[h].snap) /\ n <= d + 1 /\ job[h].own \in Nat
    BY <1>14, <1>b DEF PersistEvent, At, WriterInv, Job
  <2>3. /\ Len(job[h].snap) <= Len(chain) /\ job[h].snap = EventAt(chain, Len(job[h].snap))
        /\ job[h].own <= Len(job[h].snap)
    BY <1>b, <2>2 DEF WriterInv
  <2>4. EventAt(job[h].snap, n) = EventAt(chain, n)
    BY <1>a, <2>2, <2>3, EventOfEvent
  <2>5. d \in 0 .. Len(chain) /\ rows = FirstRows(chain, d)
    BY <1>a, <2>1 DEF LogInv
  <2>6. e \in 0 .. Len(chain) /\ d <= e /\ n <= e
    BY <1>a, <2>2, <2>3, <2>5
  <2>7. rows' = FirstRows(chain, e)
    <3>1. rows' = Upsert(FirstRows(chain, d), EventAt(chain, n))
      BY <1>14, <2>4, <2>5 DEF PersistEvent
    <3>2. QED
      BY <1>a, <2>2, <2>3, <2>5, <3>1, FirstRowsUpsert
  <2>8. Durably' = e
    BY <1>a, <2>1, <2>6, <2>7, FirstRowsLoaded, EventType DEF Durably
  <2>9. \A g \in Handlers : WriterInv(job[g], chain, e)
    BY <1>a, <1>b, <2>6, WriterSaved
  <2>10. WriterInv(r, chain, e)
    <3>1. CASE n < Len(job[h].snap)
      <4>1. r.pc = "evidence" /\ r.own = job[h].own /\ r.snap = job[h].snap /\ r.next = n + 1
        BY <1>b, <2>2, <3>1 DEF Job
      <4>2. n + 1 <= Len(job[h].snap) /\ n + 1 <= e + 1
        BY <2>2, <2>6, <3>1
      <4>4. r.next <= Len(r.snap) /\ r.next <= e + 1
        BY <4>1, <4>2
      <4>5. r.own <= Len(chain)
        BY <1>b, <4>1 DEF WriterInv
      <4>3. QED
        BY <2>3, <4>1, <4>4, <4>5 DEF WriterInv
    <3>2. CASE ~(n < Len(job[h].snap))
      <4>1. r.pc = "restarts" /\ r.own = job[h].own
        BY <1>b, <3>2 DEF Job
      <4>2. n = Len(job[h].snap)
        BY <2>2, <3>2
      <4>3. job[h].own <= e
        BY <2>2, <2>3, <2>6, <4>2
      <4>4. job[h].own <= Len(chain)
        BY <1>b DEF WriterInv
      <4>5. QED
        BY <4>1, <4>3, <4>4 DEF WriterInv
    <3>3. QED
      BY <3>1, <3>2
  <2>11. \A g \in Handlers : WriterInv(job'[g], chain, e)
    BY <1>b, <2>1, <2>9, <2>10 DEF JobInv
  <2>12. acked <= e
    BY <1>a, <2>6 DEF LogInv
  <2>13. QED
    BY <2>1, <2>6, <2>7, <2>8, <2>11, <2>12 DEF LogInv
<1>15. ASSUME NEW h \in Handlers, PersistMeta(h)
      PROVE  LogInv'
  <2>1. up /\ UNCHANGED <<up, chain, rows>> /\ job[h].pc = "meta"
    BY <1>15 DEF PersistMeta, At, memory
  <2>2. job[h].own <= Durably
    BY <1>b, <2>1 DEF WriterInv
  <2>3. CASE job[h].op = "submit"
    <3> DEFINE r == [Idle EXCEPT !.op = "submit", !.pc = "bundle", !.own = job[h].own]
    <3>1. job' = [job EXCEPT ![h] = r] /\ acked' = acked
      BY <1>15, <2>3 DEF PersistMeta, history
    <3>2. r \in Job
      BY <1>b, <1>c, <3>1 DEF JobInv
    <3>3. r.pc = "bundle" /\ r.own = job[h].own
      BY DEF Idle
    <3>4. WriterInv(r, chain, Durably)
      BY <1>b, <2>2, <3>3 DEF WriterInv
    <3>5. QED
      BY <1>b, <2>1, <3>1, <3>2, <3>4, RequestStep
  <2>4. CASE job[h].op # "submit"
    BY <1>15, <2>1, <2>2, <2>4, AnswerStep DEF PersistMeta
  <2>5. QED
    BY <2>3, <2>4
<1>16. ASSUME NEW h \in Handlers, SubmitMark(h)
      PROVE  LogInv'
  <2>1. up /\ UNCHANGED <<up, chain, rows>> /\ job[h].pc = "mark" /\ Answer(h)
    BY <1>16 DEF SubmitMark, At, memory
  <2>2. job[h].own <= Durably
    BY <1>b, <2>1 DEF WriterInv
  <2>3. QED
    BY <2>1, <2>2, AnswerStep
<1>17. ASSUME NEW h \in Handlers,
                RestartCheck(h) \/ RestartCount(h) \/ RestartReset(h) \/ RestartClear(h)
      PROVE  FALSE
  BY <1>17, <1>b DEF RestartCheck, RestartCount, RestartReset, RestartClear, At, WriterInv
<1>18. CASE Export \/ UNCHANGED vars
  <2>1. UNCHANGED <<up, chain, rows, acked, job>>
    BY <1>18 DEF Export, vars, memory, tables, history
  <2>2. Durably' = Durably
    BY <2>1 DEF Durably
  <2>3. QED
    BY <2>1, <2>2 DEF LogInv
<1>19. CASE Crash
  <2>1. up /\ ~up' /\ job' = [h \in Handlers |-> Idle] /\ chain' = <<>>
    BY <1>19 DEF Crash
  <2>2. UNCHANGED <<rows, acked>> /\ Durably' = Durably /\ Loaded(rows)' = Loaded(rows)
    BY <1>19 DEF Crash, tables, Durably
  <2>3. Durably \in 0 .. Len(chain) /\ rows = FirstRows(chain, Durably)
    BY <1>a, <2>1 DEF LogInv
  <2>4. Loaded(rows) = EventAt(chain, Durably)
    BY <1>a, <2>3, FirstRowsLoaded
  <2>5. rows = FirstRows(Loaded(rows), Durably)
    BY <1>a, <2>3, <2>4, FirstRowsOfEvent
  <2>6. \A h \in Handlers : WriterInv(job'[h], chain', Durably)
    BY <1>a, <2>1, EmptyLog, WriterIdle
  <2>7. QED
    BY <2>1, <2>2, <2>5, <2>6 DEF LogInv
<1>20. CASE Recover
  <2>1. ~up /\ up' /\ chain' = Loaded(rows) /\ UNCHANGED <<rows, job, acked>>
    BY <1>20 DEF Recover, tables, history
  <2>2. Durably' = Durably /\ Durably = Len(chain')
    BY <2>1 DEF Durably
  <2>3. rows' = FirstRows(chain', Durably) /\ job' = [h \in Handlers |-> Idle]
    BY <2>1 DEF LogInv
  <2>4. \A h \in Handlers : WriterInv(job'[h], chain', Durably)
    BY <1>a, <2>1, <2>3, WriterIdle
  <2>5. acked' <= Durably' /\ Durably' <= Len(chain')
    BY <1>a, <2>1, <2>2 DEF LogInv
  <2>6. QED
    BY <2>1, <2>2, <2>3, <2>4, <2>5 DEF LogInv
<1>21. QED
  BY <1>1, <1>2, <1>3, <1>4, <1>5, <1>6, <1>7, <1>8, <1>9, <1>10,
     <1>11, <1>12, <1>13, <1>14, <1>15, <1>16, <1>17, <1>18, <1>19, <1>20
  DEF Next, Continue

LEMMA DurableCorrect == ASSUME ~AllowRestart PROVE Spec => []DurableInv
<1>1. Init => DurableInv
  BY TypeInit, LogInit DEF DurableInv
<1>2. DurableInv /\ [Next]_vars => DurableInv'
  BY TypeStep, LogStep DEF DurableInv
<1>3. QED
  BY <1>1, <1>2, PTL DEF Spec

\* In an event that forbids restarts the server can start again after a
\* crash at any moment, however many handlers and terminals race.
THEOREM AlwaysRecoverable == ASSUME ~AllowRestart PROVE Spec => []Recoverable
<1>1. DurableInv => Recoverable
  <2> SUFFICES ASSUME DurableInv PROVE Recoverable
    OBVIOUS
  <2> DEFINE log == IF up THEN chain ELSE Loaded(rows)
  <2>1. log \in Seq(Commands) /\ Durably \in 0 .. Len(log) /\ rows = FirstRows(log, Durably)
    BY LoadedType DEF DurableInv, TypeInv, TypeOK, LogInv, Durably
  <2>2. QED
    BY <2>1, FirstRowsVerify DEF Recoverable
<1>2. QED
  BY <1>1, DurableCorrect, PTL

\* In such an event every acknowledged command is on disk, at its place.
THEOREM AlwaysAckedDurable == ASSUME ~AllowRestart PROVE Spec => []AckedDurable
<1>1. DurableInv => AckedDurable
  <2> SUFFICES ASSUME DurableInv PROVE AckedDurable
    OBVIOUS
  <2>1. acked \in Nat /\ acked <= Durably
    BY DEF DurableInv, TypeInv, TypeOK, LogInv
  <2>2. ASSUME up PROVE EventAt(chain, acked) = EventAt(Loaded(rows), acked)
    <3>1. chain \in Seq(Commands) /\ Durably \in 0 .. Len(chain)
      BY <2>2, LoadedType DEF DurableInv, TypeInv, TypeOK, LogInv, Durably
    <3>2. Loaded(rows) = EventAt(chain, Durably)
      BY <2>2, <3>1, FirstRowsLoaded DEF DurableInv, LogInv
    <3>3. QED
      BY <2>1, <3>1, <3>2, EventOfEvent
  <2>3. QED
    BY <2>1, <2>2 DEF AckedDurable, Durably
<1>2. QED
  BY <1>1, DurableCorrect, PTL

\* A stored submission stays as it is, whatever races, fails or crashes, and
\* whether or not the event allows restarts.
THEOREM SubmissionNeverReplaced == Spec => SubmissionKept
<1>1. [Next]_vars => [submission # None => submission' = submission]_vars
  <2> SUFFICES ASSUME Next, submission # None
               PROVE  submission' = submission
    OBVIOUS
  <2>1. ASSUME NEW h \in Handlers, Continue(h) PROVE submission' = submission
    BY <2>1 DEF Continue, SubmitRun, RestartCount, RestartReset, RestartClear, PersistReport,
         PersistSnapshot, PersistEvent, PersistRestarts, PersistSubmitted, PersistMeta,
         SubmitBundle, SubmitModel, SubmitInsert, SubmitMark, tables
  <2>2. ASSUME NEW h \in Handlers,
               \/ \E c \in Commands : Command(h, c)
               \/ \E score \in 0 .. (JudgeMaximum + 1) : Judge(h, score)
               \/ SubmitCheck(h) \/ RestartCheck(h) \/ StoreFails(h)
        PROVE  submission' = submission
    BY <2>2 DEF Command, Judge, SubmitCheck, RestartCheck, StoreFails, tables
  <2>3. ASSUME \/ \E c \in Commands : TerminalInput(c)
               \/ Export \/ Crash \/ Recover
        PROVE  submission' = submission
    BY <2>3 DEF TerminalInput, Export, Crash, Recover, tables
  <2>4. QED
    BY <2>1, <2>2, <2>3 DEF Next
<1>2. QED
  BY <1>1, PTL DEF Spec, SubmissionKept
-----------------------------------------------------------------------------
\* Refinement of DurableLog in an event that forbids restarts

\* The refinement mapping's log: memory while the server runs, else the rows.
Recorded == IF up THEN chain ELSE Loaded(rows)

\* What the mapping's variables are, by the invariant.
LEMMA MappedLog ==
  ASSUME DurableInv
  PROVE  /\ Recorded \in Seq(Commands) /\ Durably \in 0 .. Len(Recorded)
         /\ rows = FirstRows(Recorded, Durably)
         /\ Loaded(rows) = SubSeq(Recorded, 1, Durably)
<1>1. /\ Recorded \in Seq(Commands) /\ Durably \in 0 .. Len(Recorded)
      /\ rows = FirstRows(Recorded, Durably)
  BY LoadedType DEF DurableInv, TypeInv, TypeOK, LogInv, Durably, Recorded
<1>2. QED
  BY <1>1, FirstRowsLoaded DEF EventAt

\* A step that moves neither log, rows nor promises is a stutter.
LEMMA StutterStep ==
  ASSUME UNCHANGED <<up, chain, rows, acked>>
  PROVE  UNCHANGED Durable!vars
  BY DEF Durable!vars

\* AppendLine appends to the log and leaves what is durable alone.
LEMMA AcceptStep ==
  ASSUME up, NEW c \in Commands, chain' = Append(chain, c), UNCHANGED <<up, rows, acked>>
  PROVE  Durable!Accept
  BY DEF Durable!Accept

\* The handler's 200 promises a durable command, or nothing new.
LEMMA PromiseStep ==
  ASSUME DurableInv, up, NEW h \in Handlers, Answer(h), job[h].own <= Durably,
         UNCHANGED <<up, chain, rows>>
  PROVE  [Durable!Next]_(Durable!vars)
<1>1. acked \in Nat /\ Durably \in Nat /\ job[h].own \in Nat
  BY MappedLog DEF DurableInv, TypeInv, TypeOK, Job
<1>2. CASE job[h].own > acked
  <2>1. acked' \in (acked + 1) .. Durably
    BY <1>1, <1>2 DEF Answer
  <2>2. Durable!Promise
    BY <2>1 DEF Durable!Promise, Durably
  <2>3. QED
    BY <2>2 DEF Durable!Next
<1>3. CASE ~(job[h].own > acked)
  BY <1>3, StutterStep DEF Answer
<1>4. QED
  BY <1>2, <1>3

LEMMA RefineStep ==
  ASSUME ~AllowRestart, DurableInv, DurableInv', [Next]_vars
  PROVE  [Durable!Next]_(Durable!vars)
<1>a. /\ chain \in Seq(Commands) /\ acked \in Nat /\ JobInv
      /\ \A h \in Handlers : job[h] \in Job /\ WriterInv(job[h], chain, Durably)
  BY DEF DurableInv, TypeInv, TypeOK, JobInv, LogInv
<1>1. ASSUME NEW h \in Handlers,
             \/ \E score \in 0 .. (JudgeMaximum + 1) : Judge(h, score)
             \/ SubmitCheck(h) \/ StoreFails(h)
             \/ PersistReport(h) \/ PersistSnapshot(h) \/ PersistRestarts(h) \/ PersistSubmitted(h)
             \/ SubmitBundle(h) \/ SubmitModel(h) \/ SubmitInsert(h)
      PROVE  [Durable!Next]_(Durable!vars)
  <2>1. UNCHANGED <<up, chain, rows, acked>>
    BY <1>1 DEF Judge, SubmitCheck, StoreFails, PersistReport, PersistSnapshot, PersistRestarts,
         PersistSubmitted, SubmitBundle, SubmitModel, SubmitInsert, memory, tables, history
  <2>2. QED
    BY <2>1, StutterStep
<1>2. ASSUME NEW h \in Handlers, NEW c \in Commands, Command(h, c)
      PROVE  [Durable!Next]_(Durable!vars)
  BY <1>2, AcceptStep DEF Command, At, AppendLine, tables, history, Durable!Next
<1>3. ASSUME NEW h \in Handlers, SubmitRun(h)
      PROVE  [Durable!Next]_(Durable!vars)
  BY <1>3, ConstantsAssumption, AcceptStep DEF SubmitRun, At, AppendLine, tables, history, Durable!Next
<1>4. ASSUME NEW c \in Commands, TerminalInput(c)
      PROVE  [Durable!Next]_(Durable!vars)
  BY <1>4, AcceptStep DEF TerminalInput, AppendLine, tables, history, Durable!Next
<1>5. ASSUME NEW h \in Handlers, PersistEvent(h)
      PROVE  [Durable!Next]_(Durable!vars)
  <2> DEFINE n == job[h].next
             d == Durably
  <2>1. up /\ UNCHANGED <<up, chain, acked>> /\ job[h].pc = "evidence"
    BY <1>5 DEF PersistEvent, At, memory, history
  <2>2. /\ job[h].snap \in Seq(Commands) /\ n \in 1 .. Len(job[h].snap) /\ n <= d + 1
        /\ Len(job[h].snap) <= Len(chain) /\ job[h].snap = EventAt(chain, Len(job[h].snap))
    BY <1>a, <2>1 DEF WriterInv, Job
  <2>3. EventAt(job[h].snap, n) = EventAt(chain, n)
    BY <1>a, <2>2, EventOfEvent
  <2>4. d \in 0 .. Len(chain) /\ rows = FirstRows(chain, d)
    BY <2>1, MappedLog DEF Recorded
  <2>n. n \in 1 .. Len(chain)
    <3>1. n \in 1 .. Len(job[h].snap) /\ Len(job[h].snap) <= Len(chain)
      BY <2>2
    <3>2. job[h].snap \in Seq(Commands) /\ chain \in Seq(Commands)
      BY <1>a, <2>2
    <3> HIDE DEF n
    <3>3. Len(job[h].snap) \in Nat /\ Len(chain) \in Nat
      BY <3>2
    <3>4. QED
      BY <3>1, <3>3
  <2>5. rows' = FirstRows(chain, IF n <= d THEN d ELSE n)
    <3>1. rows' = Upsert(rows, EventAt(job[h].snap, n))
      BY <1>5 DEF PersistEvent
    <3> HIDE DEF n, d
    <3>2. Upsert(FirstRows(chain, d), EventAt(chain, n)) = FirstRows(chain, IF n <= d THEN d ELSE n)
      BY <1>a, <2>2, <2>4, <2>n, FirstRowsUpsert
    <3>3. QED
      BY <2>3, <2>4, <3>1, <3>2
  <2>6. CASE n <= d
    <3>1. rows' = rows
      BY <2>4, <2>5, <2>6
    <3>2. QED
      BY <2>1, <3>1, StutterStep
  <2>7. CASE ~(n <= d)
    <3>1. n = d + 1 /\ n \in 0 .. Len(chain)
      <4>1. chain \in Seq(Commands)
        BY <1>a
      <4>2. Len(chain) \in Nat
        BY <4>1
      <4>3. n <= d + 1
        BY <2>2
      <4>4. d \in 0 .. Len(chain)
        BY <2>4
      <4> HIDE DEF n, d
      <4>5. QED
        BY <2>7, <2>n, <4>2, <4>3, <4>4
    <3>2. Durably' = n
      <4>1. rows' = FirstRows(chain, n)
        BY <2>5, <2>7
      <4>2. Len(Loaded(FirstRows(chain, n))) = n
        <5> HIDE DEF n, d
        <5>1. Loaded(FirstRows(chain, n)) = EventAt(chain, n)
          BY <1>a, <3>1, FirstRowsLoaded
        <5>2. Len(EventAt(chain, n)) = n
          BY <1>a, <3>1, EventType
        <5>3. QED
          BY <5>1, <5>2
      <4>3. QED
        BY <4>1, <4>2 DEF Durably
    <3>3. Durable!Flush
      BY <2>1, <2>4, <3>1, <3>2 DEF Durable!Flush, Durably
    <3>4. QED
      BY <3>3 DEF Durable!Next
  <2>8. QED
    BY <2>6, <2>7
<1>6. ASSUME NEW h \in Handlers, PersistMeta(h)
      PROVE  [Durable!Next]_(Durable!vars)
  <2>1. up /\ UNCHANGED <<up, chain, rows>> /\ job[h].own <= Durably
    BY <1>6, <1>a DEF PersistMeta, At, memory, WriterInv
  <2>2. CASE job[h].op = "submit"
    BY <1>6, <2>1, <2>2, StutterStep DEF PersistMeta, history
  <2>3. CASE job[h].op # "submit"
    BY <1>6, <2>1, <2>3, PromiseStep DEF PersistMeta
  <2>4. QED
    BY <2>2, <2>3
<1>7. ASSUME NEW h \in Handlers, SubmitMark(h)
      PROVE  [Durable!Next]_(Durable!vars)
  <2>1. up /\ UNCHANGED <<up, chain, rows>> /\ job[h].own <= Durably /\ Answer(h)
    BY <1>7, <1>a DEF SubmitMark, At, memory, WriterInv
  <2>2. QED
    BY <2>1, PromiseStep
<1>8. ASSUME NEW h \in Handlers,
             RestartCheck(h) \/ RestartCount(h) \/ RestartReset(h) \/ RestartClear(h)
      PROVE  FALSE
  BY <1>8, <1>a DEF RestartCheck, RestartCount, RestartReset, RestartClear, At, WriterInv
<1>9. CASE Export \/ UNCHANGED vars
  BY <1>9, StutterStep DEF Export, vars, memory, tables, history
<1>10. CASE Crash
  <2>1. up /\ ~up' /\ UNCHANGED <<rows, acked>>
    BY <1>10 DEF Crash, tables
  <2>2. Loaded(rows) = SubSeq(chain, 1, Durably)
    BY <2>1, MappedLog DEF Recorded
  <2>3. Durable!Crash
    BY <1>10, <2>1, <2>2 DEF Crash, Durable!Crash, Durably
  <2>4. QED
    BY <2>3 DEF Durable!Next
<1>11. CASE Recover
  <2>1. ~up /\ up' /\ chain' = Loaded(rows) /\ UNCHANGED <<rows, acked>>
    BY <1>11 DEF Recover, tables, history
  <2>2. Durable!Recover
    BY <1>11, <2>1 DEF Recover, Durable!Recover
  <2>3. QED
    BY <2>2 DEF Durable!Next
<1>12. QED
  BY <1>1, <1>2, <1>3, <1>4, <1>5, <1>6, <1>7, <1>8, <1>9, <1>10, <1>11 DEF Next, Continue

\* In an event that forbids restarts the session is a log of which a crash
\* loses nothing that was made durable, and a participant is told only of
\* commands that were: SessionStore implements DurableLog, step by step,
\* for any number of handlers, terminals and crashes.
THEOREM RefinesDurableLog == ASSUME ~AllowRestart PROVE Spec => ImplementsDurableLog
<1>1. Init => Durable!Init
  BY DEF Init, Durable!Init, Loaded
<1>2. DurableInv /\ DurableInv' /\ [Next]_vars => [Durable!Next]_(Durable!vars)
  BY RefineStep
<1>3. QED
  BY <1>1, <1>2, DurableCorrect, PTL DEF Spec, ImplementsDurableLog, Durable!Spec
-----------------------------------------------------------------------------
\* One request at a time

\* One participant at one request, and no terminal.
Alone(h) == Handlers = {h} /\ ~Terminals

\* What is in memory is what Recover would rebuild from the tables.
Synced ==
  /\ chain = Loaded(rows)
  /\ submitted = (meta.submitted \/ ShowsSubmit(chain))
  /\ judge = meta.judge /\ restarts = meta.restarts

\* Where memory and tables stand at each step of the only request: they agree
\* outside persistSession, and what it has copied so far is still current.
CalmRequest(j) ==
  /\ ShowsSubmit(chain) => submitted
  /\ j.pc \in {"idle", "run", "count", "bundle", "model", "insert", "mark"} => Synced
  /\ j.pc \in {"run", "count", "reset"} => ~submitted
  /\ j.pc = "clear" => chain = <<>> /\ ~submitted
  /\ j.pc \in {"report", "snapshot", "evidence"} =>
       Durably <= Len(chain) /\ rows = FirstRows(chain, Durably)
  /\ j.pc = "evidence" => j.snap = chain /\ j.next <= Durably + 1
  /\ j.pc \in {"restarts", "submitted", "meta"} => chain = Loaded(rows)
  /\ j.pc \in {"snapshot", "evidence", "restarts", "submitted", "meta"} => j.judge = judge
  /\ j.pc \in {"submitted", "meta"} => j.restarts = restarts
  /\ j.pc = "meta" => j.submitted = submitted

\* The evidence a submission rests on, from "lab submit" to the stored row.
SubmitRequest(j) ==
  /\ submission # None => ShowsSubmit(chain)
  /\ j.op = "submit" /\ j.pc \notin {"idle", "run"} => ShowsSubmit(chain)
  /\ j.pc \in {"bundle", "model", "insert", "mark"} => j.op = "submit"
  /\ j.pc \in {"model", "insert"} => bundle # None /\ ShowsSubmit(bundle)
  /\ j.pc = "insert" => ShowsSubmit(j.snap)

CalmInv(h) ==
  /\ rows = FirstRows(Loaded(rows), Durably)
  /\ SubmissionBacked
  /\ IF up THEN CalmRequest(job[h]) /\ SubmitRequest(job[h]) ELSE job[h] = Idle

LEMMA ShowsOfAppend ==
  ASSUME NEW log \in Seq(Commands), NEW c \in Commands
  PROVE  ShowsSubmit(Append(log, c)) <=> ShowsSubmit(log) \/ c = Submit
<1>1. /\ Len(Append(log, c)) = Len(log) + 1 /\ Append(log, c)[Len(log) + 1] = c
      /\ \A i \in 1 .. Len(log) : Append(log, c)[i] = log[i]
  OBVIOUS
<1>2. DOMAIN log = 1 .. Len(log) /\ DOMAIN Append(log, c) = 1 .. Len(log) + 1
  OBVIOUS
<1>3. QED
  BY <1>1, <1>2 DEF ShowsSubmit

\* A longer prefix shows what a shorter one shows.
LEMMA ShowsOfEvent ==
  ASSUME NEW log \in Seq(Commands), NEW e \in 0 .. Len(log), NEW d \in 0 .. e,
         ShowsSubmit(EventAt(log, d))
  PROVE  ShowsSubmit(EventAt(log, e))
<1>1. /\ DOMAIN EventAt(log, d) = 1 .. d /\ DOMAIN EventAt(log, e) = 1 .. e
      /\ \A i \in 1 .. d : EventAt(log, d)[i] = log[i]
      /\ \A i \in 1 .. e : EventAt(log, e)[i] = log[i]
  BY DEF EventAt
<1>2. QED
  BY <1>1 DEF ShowsSubmit

\* A step that moves the request and nothing else.
LEMMA CalmMove ==
  ASSUME NEW h \in Handlers, CalmInv(h), up,
         CalmRequest(job'[h]), SubmitRequest(job'[h]),
         UNCHANGED <<up, chain, submitted, judge, restarts, rows, meta, submission, bundle>>
  PROVE  CalmInv(h)'
<1>1. Durably' = Durably
  BY DEF Durably
<1>2. CalmRequest(job[h])' /\ SubmitRequest(job[h])'
  BY <1>1 DEF CalmRequest, SubmitRequest, Synced
<1>3. QED
  BY <1>1, <1>2 DEF CalmInv, SubmissionBacked

\* A step that runs one line.
LEMMA CalmAppend ==
  ASSUME NEW h \in Handlers, TypeInv, CalmInv(h), up, Synced, NEW c \in Commands, AppendLine(c),
         job'[h].pc = "report", job'[h].op = "submit" => c = Submit,
         UNCHANGED <<up, rows, meta, submission, bundle>>
  PROVE  CalmInv(h)'
<1>1. /\ chain \in Seq(Commands) /\ chain' = Append(chain, c)
      /\ submitted' = (submitted \/ c = Submit)
      /\ Durably' = Durably /\ Durably = Len(chain) /\ rows = FirstRows(chain, Durably)
  BY DEF TypeInv, TypeOK, AppendLine, Durably, Synced, CalmInv
<1>2. ShowsSubmit(chain') <=> ShowsSubmit(chain) \/ c = Submit
  BY <1>1, ShowsOfAppend
<1>3. Durably' <= Len(chain') /\ rows' = FirstRows(chain', Durably')
  BY <1>1, FirstRowsAppend
<1>4. CalmRequest(job[h])'
  BY <1>1, <1>2, <1>3 DEF CalmRequest, CalmInv
<1>5. SubmitRequest(job[h])'
  BY <1>2 DEF SubmitRequest, CalmInv
<1>6. QED
  BY <1>1, <1>4, <1>5 DEF CalmInv, SubmissionBacked

LEMMA CalmInit == ASSUME NEW h \in Handlers PROVE Init => CalmInv(h)
<1> SUFFICES ASSUME Init PROVE CalmInv(h)
  OBVIOUS
<1>1. Loaded(rows) = <<>> /\ Durably = 0 /\ rows = {} /\ chain = <<>> /\ job[h] = Idle
  BY DEF Init, Loaded, Durably
<1>2. ~ShowsSubmit(chain)
  BY <1>1 DEF ShowsSubmit
<1>3. Synced
  BY <1>1, <1>2 DEF Init, Synced, FreshMeta
<1>4. QED
  BY <1>1, <1>2, <1>3 DEF Init, CalmInv, CalmRequest, SubmitRequest, SubmissionBacked, FirstRows, Idle
LEMMA CalmStep ==
  ASSUME NEW h \in Handlers, Alone(h), ~StoreMayFail, TypeInv, CalmInv(h), [Next]_vars
  PROVE  CalmInv(h)'
<1> USE ConstantsAssumption
<1>a. /\ chain \in Seq(Commands) /\ rows \in SUBSET Event /\ HasLast(rows)
      /\ Loaded(rows) \in Seq(Commands) /\ Durably \in Nat
      /\ job \in [Handlers -> Job] /\ job[h] \in Job /\ InLoop(job[h])
  BY LoadedType DEF TypeInv, TypeOK, JobInv, Durably
<1>b. up => CalmRequest(job[h]) /\ SubmitRequest(job[h])
  BY DEF CalmInv
<1>c. ~ShowsSubmit(<<>>)
  BY DEF ShowsSubmit
<1>1. CASE SubmitCheck(h)
  <2> DEFINE r == [Idle EXCEPT !.op = "submit", !.pc = "run"]
  <2>1. up /\ job' = [job EXCEPT ![h] = r]
        /\ UNCHANGED <<up, chain, submitted, judge, restarts, rows, meta, submission, bundle>>
    BY <1>1 DEF SubmitCheck, At, memory, tables
  <2>2. r.op = "submit" /\ r.pc = "run"
    BY <1>a DEF Job, Idle
  <2>3. job'[h] = r
    BY <1>a, <2>1
  <2>4. CalmRequest(job'[h]) /\ SubmitRequest(job'[h])
    BY <1>1, <1>b, <2>2, <2>3 DEF SubmitCheck, At, CalmRequest, SubmitRequest
  <2>5. QED
    BY <2>1, <2>4, CalmMove
<1>2. CASE RestartCheck(h)
  <2> DEFINE r == [Idle EXCEPT !.op = "restart", !.pc = "count"]
  <2>1. up /\ job' = [job EXCEPT ![h] = r]
        /\ UNCHANGED <<up, chain, submitted, judge, restarts, rows, meta, submission, bundle>>
    BY <1>2 DEF RestartCheck, At, memory, tables
  <2>2. r.op = "restart" /\ r.pc = "count"
    BY <1>a DEF Job, Idle
  <2>3. job'[h] = r
    BY <1>a, <2>1
  <2>4. CalmRequest(job'[h]) /\ SubmitRequest(job'[h])
    BY <1>2, <1>b, <2>2, <2>3 DEF RestartCheck, At, CalmRequest, SubmitRequest
  <2>5. QED
    BY <2>1, <2>4, CalmMove
<1>3. CASE PersistReport(h)
  <2> DEFINE r == [job[h] EXCEPT !.pc = "snapshot", !.judge = judge]
  <2>1. up /\ job' = [job EXCEPT ![h] = r]
        /\ UNCHANGED <<up, chain, submitted, judge, restarts, rows, meta, submission, bundle>>
    BY <1>3 DEF PersistReport, At, memory, tables
  <2>2. r.op = job[h].op /\ r.pc = "snapshot" /\ r.judge = judge
    BY <1>a DEF Job, Idle
  <2>3. job'[h] = r
    BY <1>a, <2>1
  <2>4. CalmRequest(job'[h]) /\ SubmitRequest(job'[h])
    BY <1>3, <1>b, <2>2, <2>3 DEF PersistReport, At, CalmRequest, SubmitRequest
  <2>5. QED
    BY <2>1, <2>4, CalmMove
<1>4. CASE PersistRestarts(h)
  <2> DEFINE r == [job[h] EXCEPT !.pc = "submitted", !.restarts = restarts]
  <2>1. up /\ job' = [job EXCEPT ![h] = r]
        /\ UNCHANGED <<up, chain, submitted, judge, restarts, rows, meta, submission, bundle>>
    BY <1>4 DEF PersistRestarts, At, memory, tables
  <2>2. /\ r.op = job[h].op /\ r.pc = "submitted" /\ r.judge = job[h].judge
        /\ r.restarts = restarts
    BY <1>a DEF Job, Idle
  <2>3. job'[h] = r
    BY <1>a, <2>1
  <2>4. CalmRequest(job'[h]) /\ SubmitRequest(job'[h])
    BY <1>4, <1>b, <2>2, <2>3 DEF PersistRestarts, At, CalmRequest, SubmitRequest
  <2>5. QED
    BY <2>1, <2>4, CalmMove
<1>5. CASE PersistSubmitted(h)
  <2> DEFINE r == [job[h] EXCEPT !.pc = "meta", !.submitted = submitted]
  <2>1. up /\ job' = [job EXCEPT ![h] = r]
        /\ UNCHANGED <<up, chain, submitted, judge, restarts, rows, meta, submission, bundle>>
    BY <1>5 DEF PersistSubmitted, At, memory, tables
  <2>2. /\ r.op = job[h].op /\ r.pc = "meta" /\ r.judge = job[h].judge
        /\ r.restarts = job[h].restarts /\ r.submitted = submitted
    BY <1>a DEF Job, Idle
  <2>3. job'[h] = r
    BY <1>a, <2>1
  <2>4. CalmRequest(job'[h]) /\ SubmitRequest(job'[h])
    BY <1>5, <1>b, <2>2, <2>3 DEF PersistSubmitted, At, CalmRequest, SubmitRequest
  <2>5. QED
    BY <2>1, <2>4, CalmMove
<1>6. CASE SubmitModel(h)
  <2> DEFINE r == [job[h] EXCEPT !.pc = "insert", !.snap = chain]
  <2>1. up /\ job' = [job EXCEPT ![h] = r]
        /\ UNCHANGED <<up, chain, submitted, judge, restarts, rows, meta, submission, bundle>>
    BY <1>6 DEF SubmitModel, At, memory, tables
  <2>2. r.op = job[h].op /\ r.pc = "insert" /\ r.snap = chain
    BY <1>a DEF Job, Idle
  <2>3. job'[h] = r
    BY <1>a, <2>1
  <2>4. CalmRequest(job'[h]) /\ SubmitRequest(job'[h])
    BY <1>6, <1>b, <2>2, <2>3 DEF SubmitModel, At, CalmRequest, SubmitRequest
  <2>5. QED
    BY <2>1, <2>4, CalmMove
<1>7. CASE PersistSnapshot(h)
  <2> DEFINE r == [job[h] EXCEPT !.pc = IF chain = <<>> THEN "restarts" ELSE "evidence",
                            !.snap = chain, !.next = 1]
  <2>1. up /\ job' = [job EXCEPT ![h] = r]
        /\ UNCHANGED <<up, chain, submitted, judge, restarts, rows, meta, submission, bundle>>
    BY <1>7 DEF PersistSnapshot, At, memory, tables
  <2>2. /\ r.op = job[h].op /\ r.pc = IF chain = <<>> THEN "restarts" ELSE "evidence"
        /\ r.judge = job[h].judge /\ r.snap = chain /\ r.next = 1
    BY <1>a DEF Job, Idle
  <2>3. job'[h] = r
    BY <1>a, <2>1
  <2>4. chain = <<>> => chain = Loaded(rows)
    <3>1. job[h].pc = "snapshot"
      BY <1>7 DEF PersistSnapshot, At
    <3>2. Durably <= Len(chain)
      BY <1>b, <2>1, <3>1 DEF CalmRequest
    <3>3. chain = <<>> => Len(Loaded(rows)) = 0
      BY <1>a, <3>2 DEF Durably
    <3>4. QED
      BY <1>a, <3>3
  <2>5. CalmRequest(job'[h])
    BY <1>7, <1>a, <1>b, <2>1, <2>2, <2>3, <2>4 DEF PersistSnapshot, At, CalmRequest
  <2>6. SubmitRequest(job'[h])
    BY <1>7, <1>b, <2>2, <2>3 DEF PersistSnapshot, At, SubmitRequest
  <2>7. QED
    BY <2>1, <2>5, <2>6, CalmMove
<1>8. CASE RestartCount(h)
  <2>1. up /\ job[h].pc = "count" /\ UNCHANGED <<up, chain, submitted, judge, rows, meta, submission, bundle>>
    BY <1>8 DEF RestartCount, At, tables
  <2>2. CASE MaxRestarts > 0 /\ restarts >= MaxRestarts
    <3>1. job'[h] = Idle /\ restarts' = restarts
      BY <1>8, <1>a, <2>2 DEF RestartCount
    <3>2. CalmRequest(job'[h]) /\ SubmitRequest(job'[h])
      BY <1>b, <2>1, <3>1 DEF Idle, CalmRequest, SubmitRequest
    <3>3. QED
      BY <2>1, <3>1, <3>2, CalmMove
  <2>3. CASE ~(MaxRestarts > 0 /\ restarts >= MaxRestarts)
    <3> DEFINE r == [job[h] EXCEPT !.pc = "reset"]
    <3>1. job' = [job EXCEPT ![h] = r]
      BY <1>8, <2>3 DEF RestartCount, Goto
    <3>2. r.op = job[h].op /\ r.pc = "reset"
      BY <1>a DEF Job
    <3>3. job'[h].op = job[h].op /\ job'[h].pc = "reset"
      BY <1>a, <3>1, <3>2
    <3>4. CalmRequest(job[h])' /\ SubmitRequest(job[h])'
      BY <1>b, <2>1, <3>3 DEF CalmRequest, SubmitRequest
    <3>5. QED
      BY <2>1, <3>4 DEF CalmInv, SubmissionBacked, Durably
  <2>4. QED
    BY <2>2, <2>3
<1>9. CASE \E c \in Commands : Command(h, c)
  <2>1. PICK c \in Commands : Command(h, c)
    BY <1>9
  <2> DEFINE r == [Idle EXCEPT !.op = "command", !.pc = "report", !.own = Len(chain) + 1]
  <2>2. /\ up /\ job[h].pc = "idle" /\ AppendLine(c) /\ job' = [job EXCEPT ![h] = r]
        /\ UNCHANGED <<up, rows, meta, submission, bundle>>
    BY <2>1 DEF Command, At, tables
  <2>3. r.op = "command" /\ r.pc = "report"
    BY DEF Idle
  <2>4. job'[h].op = "command" /\ job'[h].pc = "report" /\ Synced
    BY <1>a, <1>b, <2>2, <2>3 DEF CalmRequest
  <2>5. QED
    BY <2>2, <2>4, CalmAppend
<1>10. CASE SubmitRun(h)
  <2> DEFINE r == [job[h] EXCEPT !.pc = "report", !.own = Len(chain) + 1]
  <2>1. /\ up /\ job[h].pc = "run" /\ AppendLine(Submit) /\ job' = [job EXCEPT ![h] = r]
        /\ UNCHANGED <<up, rows, meta, submission, bundle>>
    BY <1>10 DEF SubmitRun, At, tables
  <2>2. r.pc = "report"
    BY <1>a DEF Job
  <2>3. job'[h].pc = "report" /\ Synced
    BY <1>a, <1>b, <2>1, <2>2 DEF CalmRequest
  <2>4. QED
    BY <2>1, <2>3, CalmAppend
<1>11. CASE \E score \in 0 .. (JudgeMaximum + 1) : Judge(h, score)
  <2> DEFINE r == [Idle EXCEPT !.op = "judge", !.pc = "report"]
  <2>1. /\ up /\ job[h].pc = "idle" /\ job' = [job EXCEPT ![h] = r]
        /\ UNCHANGED <<up, chain, submitted, restarts, rows, meta, submission, bundle>>
    BY <1>11 DEF Judge, At, tables
  <2>2. r.op = "judge" /\ r.pc = "report"
    BY DEF Idle
  <2>3. job'[h].op = "judge" /\ job'[h].pc = "report"
    BY <1>a, <2>1, <2>2
  <2>4. Durably <= Len(chain) /\ rows = FirstRows(chain, Durably) /\ Durably' = Durably
    BY <1>a, <1>b, <2>1 DEF CalmRequest, Synced, Durably, CalmInv
  <2>5. CalmRequest(job[h])' /\ SubmitRequest(job[h])'
    BY <1>b, <2>1, <2>3, <2>4 DEF CalmRequest, SubmitRequest
  <2>6. QED
    BY <2>1, <2>4, <2>5 DEF CalmInv, SubmissionBacked
<1>12. CASE RestartReset(h)
  <2>1. /\ up /\ job[h].pc = "reset" /\ chain' = <<>> /\ submitted' = FALSE
        /\ UNCHANGED <<up, rows, meta, submission, bundle>>
    BY <1>12 DEF RestartReset, At, tables
  <2>2. job'[h].pc = "clear" /\ job'[h].op = job[h].op
    BY <1>12, <1>a DEF RestartReset, Job
  <2>3. submission = None /\ job[h].op # "submit"
    BY <1>b, <2>1 DEF CalmRequest, SubmitRequest
  <2>4. CalmRequest(job[h])' /\ SubmitRequest(job[h])'
    BY <1>c, <2>1, <2>2, <2>3 DEF CalmRequest, SubmitRequest
  <2>5. QED
    BY <2>1, <2>4 DEF CalmInv, SubmissionBacked, Durably
<1>13. CASE RestartClear(h)
  <2> DEFINE r == [job[h] EXCEPT !.pc = "report"]
  <2>1. /\ up /\ job[h].pc = "clear" /\ rows' = {} /\ job' = [job EXCEPT ![h] = r]
        /\ UNCHANGED <<up, chain, submitted, judge, restarts, meta, submission, bundle>>
    BY <1>13 DEF RestartClear, At, Goto, memory
  <2>2. r.pc = "report" /\ r.op = job[h].op
    BY <1>a DEF Job
  <2>3. job'[h].pc = "report" /\ job'[h].op = job[h].op
    BY <1>a, <2>1, <2>2
  <2>4. chain = <<>> /\ submission = None /\ job[h].op # "submit"
    BY <1>b, <1>c, <2>1 DEF CalmRequest, SubmitRequest
  <2>5. Loaded(rows)' = <<>> /\ Durably' = 0 /\ FirstRows(<<>>, 0) = {}
    BY <2>1 DEF Loaded, Durably, FirstRows
  <2>6. CalmRequest(job[h])' /\ SubmitRequest(job[h])'
    BY <1>c, <2>1, <2>3, <2>4, <2>5 DEF CalmRequest, SubmitRequest
  <2>7. QED
    BY <2>1, <2>4, <2>5, <2>6 DEF CalmInv, SubmissionBacked
<1>14. CASE PersistEvent(h)
  <2> DEFINE k == job[h].next
             d == Durably
             e == IF k <= d THEN d ELSE k
             r == IF k < Len(job[h].snap)
                    THEN [job[h] EXCEPT !.next = k + 1]
                    ELSE [job[h] EXCEPT !.next = 1, !.snap = <<>>, !.pc = "restarts"]
  <2>1. /\ up /\ job[h].pc = "evidence" /\ job' = [job EXCEPT ![h] = r]
        /\ rows' = Upsert(rows, EventAt(job[h].snap, k))
        /\ UNCHANGED <<up, chain, submitted, judge, restarts, meta, submission, bundle>>
    BY <1>14 DEF PersistEvent, At, memory
  <2>2. job[h].snap = chain /\ k \in 1 .. Len(chain) /\ k <= d + 1
    BY <1>a, <1>b, <2>1 DEF CalmRequest, InLoop, Job
  <2>3. d \in 0 .. Len(chain) /\ rows = FirstRows(chain, d)
    BY <1>a, <1>b, <2>1 DEF CalmRequest
  <2>4. e \in 0 .. Len(chain) /\ d \in 0 .. e /\ k <= e
    BY <1>a, <2>2, <2>3
  <2>5. rows' = FirstRows(chain, e)
    BY <1>a, <2>1, <2>2, <2>3, FirstRowsUpsert
  <2>6. Loaded(rows)' = EventAt(chain, e) /\ Durably' = e
    BY <1>a, <2>4, <2>5, FirstRowsLoaded, EventType DEF Durably
  <2>7. rows' = FirstRows(Loaded(rows)', Durably')
    BY <1>a, <2>4, <2>5, <2>6, FirstRowsOfEvent
  <2>8. ShowsSubmit(Loaded(rows)) => ShowsSubmit(Loaded(rows)')
    BY <1>a, <2>3, <2>4, <2>6, FirstRowsLoaded, ShowsOfEvent
  <2>9. CalmRequest(job[h])' /\ SubmitRequest(job[h])'
    <3>1. CASE k < Len(chain)
      <4>1. /\ r.pc = "evidence" /\ r.op = job[h].op /\ r.judge = job[h].judge
            /\ r.snap = job[h].snap /\ r.next = k + 1
        BY <1>a, <2>1, <2>2, <3>1 DEF Job
      <4>2. /\ job'[h].pc = "evidence" /\ job'[h].op = job[h].op /\ job'[h].judge = job[h].judge
            /\ job'[h].snap = chain /\ job'[h].next = k + 1
        BY <1>a, <2>1, <2>2, <4>1
      <4>3. k + 1 <= e + 1 /\ e <= Len(chain)
        BY <2>2, <2>4
      <4>4. QED
        BY <1>b, <2>1, <2>5, <2>6, <4>2, <4>3 DEF CalmRequest, SubmitRequest
    <3>2. CASE ~(k < Len(chain))
      <4>1. r.pc = "restarts" /\ r.op = job[h].op /\ r.judge = job[h].judge
        BY <1>a, <2>2, <3>2 DEF Job
      <4>2. job'[h].pc = "restarts" /\ job'[h].op = job[h].op /\ job'[h].judge = job[h].judge
        BY <1>a, <2>1, <4>1
      <4>3. e = Len(chain)
        BY <1>a, <2>2, <2>4, <3>2
      <4>4. chain = Loaded(rows)'
        BY <1>a, <2>6, <4>3, EventWhole
      <4>5. QED
        BY <1>b, <2>1, <4>2, <4>4 DEF CalmRequest, SubmitRequest
    <3>3. QED
      BY <3>1, <3>2
  <2>10. QED
    BY <2>1, <2>7, <2>8, <2>9 DEF CalmInv, SubmissionBacked
<1>15. CASE PersistMeta(h)
  <2>1. /\ up /\ job[h].pc = "meta"
        /\ meta' = [restarts |-> job[h].restarts, judge |-> job[h].judge, submitted |-> job[h].submitted]
        /\ UNCHANGED <<up, chain, submitted, judge, restarts, rows, submission, bundle>>
    BY <1>15 DEF PersistMeta, At, memory
  <2>a. /\ chain = Loaded(rows) /\ job[h].judge = judge /\ job[h].restarts = restarts
        /\ job[h].submitted = submitted /\ (ShowsSubmit(chain) => submitted)
    BY <1>b, <2>1 DEF CalmRequest
  <2>b. meta'.judge = judge /\ meta'.restarts = restarts /\ meta'.submitted = submitted
    BY <2>1, <2>a
  <2>c. submitted = (submitted \/ ShowsSubmit(chain))
    BY <2>a, Zenon DEF TypeInv, TypeOK
  <2>2. Synced'
    BY <2>1, <2>a, <2>b, <2>c DEF Synced
  <2>3. CASE job[h].op = "submit"
    <3> DEFINE r == [Idle EXCEPT !.op = "submit", !.pc = "bundle", !.own = job[h].own]
    <3>1. job' = [job EXCEPT ![h] = r]
      BY <1>15, <2>3 DEF PersistMeta
    <3>2. r.op = "submit" /\ r.pc = "bundle"
      BY DEF Idle
    <3>3. job'[h].op = "submit" /\ job'[h].pc = "bundle"
      BY <1>a, <3>1, <3>2
    <3>4. CalmRequest(job[h])' /\ SubmitRequest(job[h])'
      BY <1>b, <2>1, <2>2, <2>3, <3>3 DEF CalmRequest, SubmitRequest
    <3>5. QED
      BY <2>1, <3>4 DEF CalmInv, SubmissionBacked, Durably
  <2>4. CASE job[h].op # "submit"
    <3>1. job'[h] = Idle
      BY <1>15, <1>a, <2>4 DEF PersistMeta, Answer
    <3>2. CalmRequest(job[h])' /\ SubmitRequest(job[h])'
      BY <1>b, <2>1, <2>2, <3>1 DEF CalmRequest, SubmitRequest, Idle
    <3>3. QED
      BY <2>1, <3>2 DEF CalmInv, SubmissionBacked, Durably
  <2>5. QED
    BY <2>3, <2>4
<1>16. CASE SubmitBundle(h)
  <2> DEFINE r == [job[h] EXCEPT !.pc = "model"]
  <2>1. /\ up /\ job[h].pc = "bundle" /\ bundle' = chain /\ job' = [job EXCEPT ![h] = r]
        /\ UNCHANGED <<up, chain, submitted, judge, restarts, rows, meta, submission>>
    BY <1>16 DEF SubmitBundle, At, Goto, memory
  <2>2. r.pc = "model" /\ r.op = job[h].op
    BY <1>a DEF Job
  <2>3. job'[h].pc = "model" /\ job'[h].op = job[h].op
    BY <1>a, <2>1, <2>2
  <2>4. Synced /\ ShowsSubmit(chain) /\ job[h].op = "submit"
    BY <1>b, <2>1 DEF CalmRequest, SubmitRequest
  <2>5. bundle' # None /\ ShowsSubmit(bundle')
    BY <1>a, <2>1, <2>4
  <2>6. Synced'
    BY <2>1, <2>4 DEF Synced
  <2>7. CalmRequest(job[h])' /\ SubmitRequest(job[h])'
    BY <1>b, <2>1, <2>3, <2>4, <2>5, <2>6 DEF CalmRequest, SubmitRequest
  <2>8. QED
    BY <2>1, <2>5, <2>7 DEF CalmInv, SubmissionBacked, Durably
<1>17. CASE SubmitInsert(h)
  <2>1. /\ up /\ job[h].pc = "insert"
        /\ UNCHANGED <<up, chain, submitted, judge, restarts, rows, meta, bundle>>
    BY <1>17 DEF SubmitInsert, At, memory
  <2>2. /\ Synced /\ ShowsSubmit(chain) /\ ShowsSubmit(job[h].snap) /\ job[h].op = "submit"
        /\ bundle # None /\ ShowsSubmit(bundle)
    BY <1>b, <2>1 DEF CalmRequest, SubmitRequest
  <2>3. Synced'
    BY <2>1, <2>2 DEF Synced
  <2>4. CASE submission = None
    <3> DEFINE r == [job[h] EXCEPT !.pc = "mark", !.snap = <<>>]
    <3>1. submission' = job[h].snap /\ job' = [job EXCEPT ![h] = r]
      BY <1>17, <2>4 DEF SubmitInsert
    <3>2. r.pc = "mark" /\ r.op = job[h].op
      BY <1>a DEF Job
    <3>3. job'[h].pc = "mark" /\ job'[h].op = job[h].op
      BY <1>a, <3>1, <3>2
    <3>4. CalmRequest(job[h])' /\ SubmitRequest(job[h])'
      BY <1>b, <2>1, <2>2, <2>3, <3>3 DEF CalmRequest, SubmitRequest
    <3>5. SubmissionBacked'
      BY <2>1, <2>2, <3>1 DEF SubmissionBacked, Synced
    <3>6. QED
      BY <2>1, <3>4, <3>5 DEF CalmInv, Durably
  <2>5. CASE submission # None
    <3>1. job'[h] = Idle /\ submission' = submission
      BY <1>17, <1>a, <2>5 DEF SubmitInsert
    <3>2. CalmRequest(job'[h]) /\ SubmitRequest(job'[h])
      BY <1>b, <2>1, <2>2, <3>1 DEF CalmRequest, SubmitRequest, Idle
    <3>3. QED
      BY <2>1, <3>1, <3>2, CalmMove
  <2>6. QED
    BY <2>4, <2>5
<1>18. CASE SubmitMark(h)
  <2>1. /\ up /\ job[h].pc = "mark" /\ job'[h] = Idle
        /\ UNCHANGED <<up, chain, submitted, judge, restarts, rows, meta, submission, bundle>>
    BY <1>18, <1>a DEF SubmitMark, Answer, At, memory
  <2>2. CalmRequest(job'[h]) /\ SubmitRequest(job'[h])
    BY <1>b, <2>1 DEF CalmRequest, SubmitRequest, Idle
  <2>3. QED
    BY <2>1, <2>2, CalmMove
<1>19. CASE Export
  <2>1. /\ up /\ bundle' = chain
        /\ UNCHANGED <<up, chain, submitted, judge, restarts, rows, meta, submission, job>>
    BY <1>19 DEF Export, memory
  <2>2. bundle' # None
    BY <1>a, <2>1
  <2>3. Synced => Synced'
    BY <2>1 DEF Synced
  <2>4. CalmRequest(job[h])'
    BY <1>b, <2>1, <2>3 DEF CalmRequest, Durably
  <2>5. SubmitRequest(job[h])'
    BY <1>b, <2>1, <2>2 DEF SubmitRequest
  <2>6. SubmissionBacked'
    BY <1>b, <2>1, <2>2 DEF SubmitRequest, SubmissionBacked, CalmInv
  <2>7. QED
    BY <2>1, <2>4, <2>5, <2>6 DEF CalmInv, Durably
<1>20. CASE Crash
  <2>1. ~up' /\ job'[h] = Idle /\ UNCHANGED <<rows, submission, bundle>>
    BY <1>20 DEF Crash, tables
  <2>2. QED
    BY <2>1 DEF CalmInv, SubmissionBacked, Durably
<1>21. CASE Recover
  <2>1. /\ ~up /\ up' /\ chain' = Loaded(rows) /\ judge' = meta.judge /\ restarts' = meta.restarts
        /\ submitted' = (meta.submitted \/ ShowsSubmit(Loaded(rows)))
        /\ UNCHANGED <<rows, meta, submission, bundle, job>>
    BY <1>21 DEF Recover, tables
  <2>2. job[h] = Idle
    BY <2>1 DEF CalmInv
  <2>3. Synced' /\ (submission # None => ShowsSubmit(chain'))
    BY <2>1 DEF Synced, CalmInv, SubmissionBacked
  <2>4. CalmRequest(job[h])'
    <3>1. ShowsSubmit(chain') => submitted'
      BY <2>1
    <3>2. QED
      BY <2>1, <2>2, <2>3, <3>1 DEF CalmRequest, Idle
  <2>5. SubmitRequest(job[h])'
    BY <2>1, <2>2, <2>3 DEF SubmitRequest, Idle
  <2>6. QED
    BY <2>1, <2>4, <2>5 DEF CalmInv, SubmissionBacked, Durably
<1>22. CASE StoreFails(h) \/ (\E c \in Commands : TerminalInput(c))
  BY <1>22 DEF StoreFails, TerminalInput, Alone
<1>23. CASE UNCHANGED vars
  BY <1>23 DEF vars, memory, tables, CalmInv, CalmRequest, SubmitRequest, Synced, SubmissionBacked, Durably
<1>24. QED
  BY <1>1, <1>2, <1>3, <1>4, <1>5, <1>6, <1>7, <1>8, <1>9, <1>10, <1>11, <1>12, <1>13, <1>14, <1>15, <1>16, <1>17, <1>18, <1>19, <1>20, <1>21, <1>22, <1>23
  DEF Next, Continue, Alone

LEMMA CalmCorrect ==
  ASSUME NEW h \in Handlers, Alone(h), ~StoreMayFail
  PROVE  Spec => [](TypeInv /\ CalmInv(h))
<1>1. Init => TypeInv /\ CalmInv(h)
  BY TypeInit, CalmInit
<1>2. TypeInv /\ CalmInv(h) /\ [Next]_vars => (TypeInv /\ CalmInv(h))'
  BY TypeStep, CalmStep
<1>3. QED
  BY <1>1, <1>2, PTL DEF Spec

\* With one participant, one request at a time and a store that works, a crash
\* between two requests loses nothing at all: the evidence, the submission, the
\* judge's score and the count of restarts are what Recover would rebuild.
THEOREM CalmLosesNothing ==
  ASSUME NEW h \in Handlers, Alone(h), ~StoreMayFail PROVE Spec => []LosesNothing
<1>1. CalmInv(h) => LosesNothing
  BY DEF CalmInv, CalmRequest, LosesNothing, Quiet, Synced
<1>2. QED
  BY <1>1, CalmCorrect, PTL
=============================================================================
