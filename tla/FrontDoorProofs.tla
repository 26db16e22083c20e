---------------------------- MODULE FrontDoorProofs -------------------------
(***************************************************************************)
(* Theorems of the four modules of the front door: Access, RateLimiter,    *)
(* TerminalProtocol and ShellParser, for any number of teams, clients and  *)
(* connections and for lines of any length.                                *)
(***************************************************************************)
EXTENDS Access, RateLimiter, TerminalProtocol, ShellParser, LoopProofs,
        FiniteSetTheorems, SequenceTheorems, TLAPS

-----------------------------------------------------------------------------
(***************************************************************************)
(* Access: any number of teams and of requests, and any bounds on tokens,  *)
(* links, time and crashes.                                                *)
(***************************************************************************)

Names == Teams \union {NewTeam, Organizer}
FileKeys  == Names \union {Link}

-----------------------------------------------------------------------------
\* Files

\* A file with the link tokens drawn so far.
GoodFile(f, n) ==
  /\ DOMAIN f \subseteq FileKeys
  /\ \A k \in DOMAIN f : /\ k = Link => f[k].secret \in 0 .. n
                         /\ k # Link => f[k].secret = k
                         /\ f[k].legacy \in BOOLEAN

\* With replaces one record, or adds it.
LEMMA WithGood ==
  ASSUME NEW n \in Nat, NEW f, GoodFile(f, n), NEW key \in FileKeys, NEW secret,
         key = Link => secret \in 0 .. n, key # Link => secret = key
  PROVE  GoodFile(With(f, key, Record(secret)), n)
<1> DEFINE record == Record(secret)
<1>1. record.secret = secret /\ record.legacy = FALSE
  BY DEF Record
<1> HIDE DEF record
<1>2. /\ DOMAIN With(f, key, record) = DOMAIN f \union {key}
      /\ With(f, key, record)[key] = record
      /\ \A k \in DOMAIN f \ {key} : With(f, key, record)[k] = f[k]
  BY DEF With
<1>3. GoodFile(With(f, key, record), n)
  BY <1>1, <1>2 DEF GoodFile
<1> QED  BY <1>3 DEF record

LEMMA GoodLater ==
  ASSUME NEW n \in Nat, NEW f, GoodFile(f, n)
  PROVE  GoodFile(f, n + 1)
  BY DEF GoodFile
-----------------------------------------------------------------------------
\* Type correctness

Labels == {"idle", "link", "verify", "issue", "rotate"}
Job    == [pc : Labels, who : Names \union {None}, link : Nat, family : Nat]
Token  == [owner : Names, expires : Int, used : BOOLEAN, family : Nat \ {0}]

\* A request that is under way is somebody's; only a refresh has a family, and
\* what it does next is to issue.  n links were drawn, m tokens issued.
Shape(j, n, m) ==
  /\ j.pc # "idle" => j.who \in Names
  /\ j.link <= n /\ j.family <= m
  /\ j.family # 0 => j.pc = "issue"

Flags == /\ memErr \in BOOLEAN /\ keyOk \in BOOLEAN /\ up \in BOOLEAN
         /\ overlap \in BOOLEAN /\ torn \in BOOLEAN /\ loadFailed \in BOOLEAN

FilesInv ==
  /\ links \in Nat /\ revoked \subseteq 0 .. links
  /\ GoodFile(disk, links) /\ GoodFile(mem, links)
  /\ gen # None => GoodFile(gen, links)

TokensInv ==
  /\ now \in Nat /\ crashes \in 0 .. MaxCrashes
  /\ tokens \in Seq(Token)
  /\ \A t \in DOMAIN tokens : tokens[t].family <= t
  /\ cut \subseteq DOMAIN tokens

JobInv == /\ job \in [Handlers -> Job]
          /\ \A h \in Handlers : Shape(job[h], links, Len(tokens))

AccessInv == Flags /\ FilesInv /\ TokensInv /\ JobInv

LEMMA Constants ==
  /\ Link \notin Names /\ AccessLife \in Nat /\ RefreshLife \in Nat
  /\ WriteMayFail \in BOOLEAN /\ LoadMayFail \in BOOLEAN /\ MaxCrashes \in Nat
  BY AccessAssumption DEF Names

\* Every request reads and writes the file in this way.
FileStep(f, outcome) ==
  /\ disk' = IF outcome = "failed" THEN disk ELSE f
  /\ mem' = IF outcome = "saved" THEN f ELSE mem
  /\ torn' = (torn \/ outcome = "torn")

\* What a logon does to the file: nothing, or the record is written anew.
Upgrade(key, secret) ==
  \/ disk' = disk /\ mem' = mem /\ torn' = torn
  \/ /\ ~memErr /\ Verify(mem, key, secret)
     /\ \E outcome \in Outcomes : FileStep(With(mem, key, Record(secret)), outcome)

LEMMA VerifyEffect ==
  ASSUME NEW h \in Handlers, NEW key, NEW secret, NEW next,
         VerifyCredential(h, key, secret, next)
  PROVE  (End(h) \/ Goto(h, next)) /\ memErr' = memErr /\ Upgrade(key, secret)
<1>1. CASE memErr \/ ~Verify(mem, key, secret)
  BY <1>1 DEF VerifyCredential, file, Upgrade
<1>2. CASE ~(memErr \/ ~Verify(mem, key, secret)) /\ ~NeedsUpgrade(mem[key])
  BY <1>2 DEF VerifyCredential, file, Upgrade
<1>3. CASE ~(memErr \/ ~Verify(mem, key, secret)) /\ NeedsUpgrade(mem[key])
  <2> DEFINE f == With(mem, key, Record(secret))
  <2>1. PICK outcome \in Outcomes :
          /\ Save(f, outcome)
          /\ IF outcome = "saved" THEN mem' = f /\ Goto(h, next) ELSE UNCHANGED mem /\ End(h)
          /\ UNCHANGED memErr
    BY <1>3 DEF VerifyCredential
  <2> HIDE DEF f
  <2>2. FileStep(f, outcome) /\ (End(h) \/ Goto(h, next)) /\ memErr' = memErr
    BY <2>1 DEF Save, FileStep
  <2>3. Upgrade(key, secret)
    BY <1>3, <2>2 DEF Upgrade, f
  <2> QED  BY <2>2, <2>3
<1> QED  BY <1>1, <1>2, <1>3

LEMMA RotateEffect ==
  ASSUME NEW h \in Handlers, RotateLinkToken(h)
  PROVE  \E outcome \in Outcomes :
           /\ FileStep(With(mem, Link, Record(job[h].link)), outcome)
           /\ IF outcome = "saved"
              THEN memErr' = FALSE /\ revoked' = revoked \union {mem[Link].secret : k \in DOMAIN mem \intersect {Link}}
              ELSE memErr' = memErr /\ revoked' = revoked
<1> DEFINE f == With(mem, Link, Record(job[h].link))
<1>1. PICK outcome \in Outcomes :
        /\ Save(f, outcome)
        /\ IF outcome = "saved"
           THEN mem' = f /\ revoked' = revoked \union {mem[Link].secret : k \in DOMAIN mem \intersect {Link}} /\ memErr' = FALSE
           ELSE UNCHANGED <<mem, memErr, revoked>>
  BY DEF RotateLinkToken
<1> HIDE DEF f
<1>2. FileStep(f, outcome)
  BY <1>1 DEF Save, FileStep
<1> QED  BY <1>1, <1>2 DEF f

LEMMA IdleType ==
  /\ Idle \in Job /\ \A n, m \in Nat : Shape(Idle, n, m)
  /\ Idle.pc = "idle" /\ Idle.family = 0 /\ Idle.link = 0
  BY DEF Idle, Doing, Job, Labels, Shape

\* A request starts: a logon, a logon with a link, a rotation, a refresh.
LEMMA DoingType ==
  ASSUME NEW pc \in Labels, NEW who \in Names, NEW link \in Nat, NEW family \in Nat,
         NEW n \in Nat, NEW m \in Nat,
         link <= n, family <= m, family # 0 => pc = "issue"
  PROVE  Doing(pc, who, link, family) \in Job /\ Shape(Doing(pc, who, link, family), n, m)
  BY DEF Doing, Job, Shape

\* The counters that bound what a request may hold only grow.
Grows == /\ links \in Nat /\ links' \in Nat /\ links <= links'
         /\ Len(tokens) \in Nat /\ Len(tokens') \in Nat /\ Len(tokens) <= Len(tokens')

LEMMA GrowsSame ==
  ASSUME links \in Nat, Len(tokens) \in Nat, links' = links, tokens' = tokens
  PROVE  Grows
<1>1. Len(tokens') = Len(tokens)
  OBVIOUS
<1> QED  BY <1>1 DEF Grows

LEMMA JobStep ==
  ASSUME JobInv, NEW h \in Handlers, NEW r \in Job, job' = [job EXCEPT ![h] = r],
         Grows, Shape(r, links', Len(tokens'))
  PROVE  JobInv'
<1>1. job' \in [Handlers -> Job]
  BY DEF JobInv
<1>2. ASSUME NEW g \in Handlers PROVE Shape(job'[g], links', Len(tokens'))
  <2>1. CASE g = h
    BY <2>1 DEF JobInv
  <2>2. CASE g # h
    <3>1. job'[g] = job[g] /\ Shape(job[g], links, Len(tokens)) /\ job[g] \in Job
      BY <2>2 DEF JobInv
    <3> QED  BY <3>1 DEF Shape, Job, Grows
  <2> QED  BY <2>1, <2>2
<1> QED  BY <1>1, <1>2 DEF JobInv

LEMMA EndStep ==
  ASSUME JobInv, NEW h \in Handlers, End(h), Grows
  PROVE  JobInv'
<1>1. Shape(Idle, links', Len(tokens'))
  BY IdleType DEF Grows
<1> QED  BY <1>1, IdleType, JobStep DEF End

\* A request goes on to a step at which it has no family, or to issue.
LEMMA GotoStep ==
  ASSUME JobInv, NEW h \in Handlers, NEW pc \in {"verify", "issue"}, Goto(h, pc),
         job[h].pc # "idle", job[h].family = 0, links \in Nat, links' = links,
         Len(tokens) \in Nat, tokens' = tokens
  PROVE  JobInv'
<1> DEFINE r == [job[h] EXCEPT !.pc = pc]
<1>1. job[h] \in Job /\ Shape(job[h], links, Len(tokens))
  BY DEF JobInv
<1>2. r \in Job /\ Shape(r, links, Len(tokens))
  BY <1>1 DEF Job, Labels, Shape
<1>3. job' = [job EXCEPT ![h] = r]
  BY DEF Goto
<1> HIDE DEF r
<1>4. Grows
  BY GrowsSame
<1>5. Shape(r, links', Len(tokens'))
  BY <1>2
<1> QED  BY <1>2, <1>3, <1>4, <1>5, JobStep

LEMMA FileStepGood ==
  ASSUME FilesInv, links' = links, NEW f, GoodFile(f, links),
         NEW outcome, FileStep(f, outcome)
  PROVE  GoodFile(disk', links') /\ GoodFile(mem', links')
  BY DEF FileStep, FilesInv

LEMMA VerifyType ==
  ASSUME AccessInv, NEW h \in Handlers, NEW key \in FileKeys, NEW secret, NEW next \in {"verify", "issue"},
         key = Link => secret \in 0 .. links, key # Link => secret = key,
         job[h].pc # "idle", job[h].family = 0,
         VerifyCredential(h, key, secret, next),
         UNCHANGED <<keyOk, up, now, tokens, organizerUntil, links, gen, revoked, cut, overlap, loadFailed, crashes>>
  PROVE  AccessInv'
<1>1. (End(h) \/ Goto(h, next)) /\ memErr' = memErr /\ Upgrade(key, secret)
  BY VerifyEffect
<1>2. links \in Nat /\ Len(tokens) \in Nat /\ JobInv
  BY DEF AccessInv, FilesInv, TokensInv
<1>3. JobInv'
  <2>1. Grows
    BY <1>2, GrowsSame
  <2> QED  BY <1>1, <1>2, <2>1, EndStep, GotoStep
<1>4. TokensInv'
  BY DEF AccessInv, TokensInv
<1>5. GoodFile(disk', links') /\ GoodFile(mem', links') /\ torn' \in BOOLEAN
  <2>1. CASE disk' = disk /\ mem' = mem /\ torn' = torn
    BY <2>1 DEF AccessInv, FilesInv, Flags
  <2>2. CASE \E outcome \in Outcomes : FileStep(With(mem, key, Record(secret)), outcome)
    <3> DEFINE f == With(mem, key, Record(secret))
    <3>1. PICK outcome \in Outcomes : FileStep(f, outcome)
      BY <2>2
    <3>2. GoodFile(mem, links)
      BY DEF AccessInv, FilesInv
    <3>3. GoodFile(f, links)
      BY <1>2, <3>2, WithGood
    <3> HIDE DEF f
    <3>4. GoodFile(disk', links') /\ GoodFile(mem', links')
      BY <3>1, <3>3, FileStepGood DEF AccessInv
    <3>5. torn' \in BOOLEAN
      BY <3>1 DEF FileStep
    <3> QED  BY <3>4, <3>5
  <2> QED  BY <1>1, <2>1, <2>2 DEF Upgrade
<1>6. Flags' /\ FilesInv'
  BY <1>1, <1>5 DEF AccessInv, Flags, FilesInv
<1> QED  BY <1>3, <1>4, <1>6 DEF AccessInv
LEMMA AccessInitially == Init => AccessInv
<1> SUFFICES ASSUME Init PROVE AccessInv
  OBVIOUS
<1>1. PICK legacy \in [Teams \union {Organizer} -> BOOLEAN] :
        disk = With([k \in Teams \union {Organizer} |-> [secret |-> k, legacy |-> legacy[k]]],
                    Link, Record(0))
  BY DEF Init
<1> DEFINE f == [k \in Teams \union {Organizer} |-> [secret |-> k, legacy |-> legacy[k]]]
<1>2. GoodFile(f, 0)
  BY Constants DEF GoodFile, FileKeys, Names
<1> HIDE DEF f
<1>3. Link \in FileKeys /\ 0 \in 0 .. 0 /\ 0 \in Nat
  BY DEF FileKeys
<1>4. GoodFile(With(f, Link, Record(0)), 0)
  BY <1>2, <1>3, WithGood
<1>5. GoodFile(disk, 0)
  BY <1>1, <1>4 DEF f
<1>6. FilesInv
  BY <1>5 DEF Init, FilesInv
<1>7. tokens = <<>> /\ links = 0 /\ Len(tokens) = 0
  BY DEF Init
<1>8. JobInv
  BY <1>7, IdleType DEF Init, JobInv
<1>9. TokensInv
  BY <1>7, Constants DEF Init, TokensInv
<1>10. Flags
  BY DEF Init, Flags
<1> QED  BY <1>6, <1>8, <1>9, <1>10 DEF AccessInv

LEMMA AccessStep == AccessInv /\ [Next]_vars => AccessInv'
<1> SUFFICES ASSUME AccessInv, [Next]_vars PROVE AccessInv'
  OBVIOUS
<1> USE Constants
<1>0. /\ Flags /\ FilesInv /\ TokensInv /\ JobInv
      /\ links \in Nat /\ Len(tokens) \in Nat /\ tokens \in Seq(Token)
  BY DEF AccessInv, FilesInv, TokensInv
<1>1. ASSUME NEW h \in Handlers, NEW who \in Teams \union {NewTeam, Organizer}, Login(h, who)
      PROVE  AccessInv'
  <2> DEFINE r == Doing("verify", who, 0, 0)
  <2>0. who \in Names /\ "verify" \in Labels
    BY DEF Names, Labels
  <2>1. r \in Job /\ Shape(r, links, Len(tokens))
    BY <1>0, <2>0, DoingType
  <2>2. job' = [job EXCEPT ![h] = r] /\ UNCHANGED <<links, tokens>>
    BY <1>1 DEF Login, Begin
  <2> HIDE DEF r
  <2>3. Shape(r, links', Len(tokens')) /\ Grows
    BY <1>0, <2>1, <2>2, GrowsSame
  <2>4. JobInv'
    BY <1>0, <2>1, <2>2, <2>3, JobStep
  <2>5. Flags' /\ FilesInv' /\ TokensInv'
    BY <1>0, <1>1 DEF Login, Flags, FilesInv, TokensInv, file, history
  <2> QED  BY <2>4, <2>5 DEF AccessInv
<1>2. ASSUME NEW h \in Handlers, NEW who \in Teams, NEW link \in 0 .. links, LinkLogin(h, who, link)
      PROVE  AccessInv'
  <2> DEFINE r == Doing("link", who, link, 0)
  <2>0. who \in Names /\ "link" \in Labels /\ link \in Nat /\ link <= links
    BY <1>0 DEF Names, Labels
  <2>1. r \in Job /\ Shape(r, links, Len(tokens))
    BY <1>0, <2>0, DoingType
  <2>2. job' = [job EXCEPT ![h] = r] /\ UNCHANGED <<links, tokens>>
    BY <1>2 DEF LinkLogin, Begin
  <2> HIDE DEF r
  <2>3. Shape(r, links', Len(tokens')) /\ Grows
    BY <1>0, <2>1, <2>2, GrowsSame
  <2>4. JobInv'
    BY <1>0, <2>1, <2>2, <2>3, JobStep
  <2>5. Flags' /\ FilesInv' /\ TokensInv'
    BY <1>0, <1>2 DEF LinkLogin, Flags, FilesInv, TokensInv, file, history
  <2> QED  BY <2>4, <2>5 DEF AccessInv
<1>3. ASSUME NEW h \in Handlers, VerifyLink(h) PROVE AccessInv'
  <2>1. /\ job[h].pc = "link" /\ VerifyCredential(h, Link, job[h].link, "verify")
        /\ UNCHANGED <<keyOk, up, now, tokens, organizerUntil, links, gen, revoked, cut, overlap, loadFailed, crashes>>
    BY <1>3 DEF VerifyLink, At
  <2>2. job[h] \in Job /\ Shape(job[h], links, Len(tokens))
    BY <1>0 DEF JobInv
  <2>3. job[h].link \in 0 .. links /\ job[h].family = 0 /\ Link \in FileKeys
    BY <1>0, <2>1, <2>2 DEF Job, Shape, FileKeys
  <2> QED  BY <2>1, <2>3, VerifyType
<1>4. ASSUME NEW h \in Handlers, VerifyWho(h) PROVE AccessInv'
  <2>1. /\ job[h].pc = "verify" /\ VerifyCredential(h, job[h].who, job[h].who, "issue")
        /\ UNCHANGED <<keyOk, up, now, tokens, organizerUntil, links, gen, revoked, cut, overlap, loadFailed, crashes>>
    BY <1>4 DEF VerifyWho, At
  <2>2. job[h] \in Job /\ Shape(job[h], links, Len(tokens))
    BY <1>0 DEF JobInv
  <2>3. job[h].who \in FileKeys /\ job[h].who # Link /\ job[h].family = 0
    BY <1>0, <2>1, <2>2 DEF Job, Shape, FileKeys
  <2> QED  BY <2>1, <2>3, VerifyType
<1>5. ASSUME NEW h \in Handlers, IssueTokens(h) PROVE AccessInv'
  <2> DEFINE t == [owner |-> job[h].who, expires |-> now + RefreshLife, used |-> FALSE,
                   family |-> IF job[h].family = 0 THEN Len(tokens) + 1 ELSE job[h].family]
  <2>1. job[h] \in Job /\ Shape(job[h], links, Len(tokens)) /\ job[h].pc = "issue" /\ now \in Nat
    BY <1>0, <1>5 DEF JobInv, IssueTokens, At, TokensInv
  <2>2. t \in Token /\ t.family <= Len(tokens) + 1
    BY <1>0, <2>1 DEF Token, Job, Shape
  <2>3. tokens' = Append(tokens, t) /\ End(h) /\ UNCHANGED <<links, now, crashes, cut>>
    BY <1>5 DEF IssueTokens, history
  <2> HIDE DEF t
  <2>4. /\ tokens' \in Seq(Token) /\ Len(tokens') = Len(tokens) + 1
        /\ \A u \in DOMAIN tokens : tokens'[u] = tokens[u]
        /\ tokens'[Len(tokens) + 1] = t
    BY <1>0, <2>2, <2>3
  <2>5. TokensInv'
    BY <1>0, <2>2, <2>3, <2>4 DEF TokensInv
  <2>6. JobInv'
    BY <1>0, <2>3, <2>4, EndStep DEF Grows
  <2>7. Flags' /\ FilesInv'
    BY <1>0, <1>5 DEF IssueTokens, Flags, FilesInv, file, history
  <2> QED  BY <2>5, <2>6, <2>7 DEF AccessInv
<1>6. ASSUME NEW h \in Handlers, IssueFails(h) PROVE AccessInv'
  <2>1. job[h] \in Job /\ Shape(job[h], links, Len(tokens))
    BY <1>0 DEF JobInv
  <2>2. End(h) /\ UNCHANGED <<links, tokens, now, crashes>> /\ cut' = cut \union ({job[h].family} \ {0})
    BY <1>6 DEF IssueFails
  <2>3. JobInv'
    BY <1>0, <2>2, EndStep, GrowsSame
  <2>4. {job[h].family} \ {0} \subseteq DOMAIN tokens
    BY <1>0, <2>1 DEF Job, Shape
  <2>5. TokensInv'
    BY <1>0, <2>2, <2>4 DEF TokensInv
  <2>6. Flags' /\ FilesInv'
    BY <1>0, <1>6 DEF IssueFails, Flags, FilesInv, file
  <2> QED  BY <2>3, <2>5, <2>6 DEF AccessInv
<1>7. ASSUME NEW h \in Handlers, NEW t \in DOMAIN tokens, RotateRefreshToken(h, t) PROVE AccessInv'
  <2> DEFINE r == Doing("issue", tokens[t].owner, 0, tokens[t].family)
  <2>1. tokens[t] \in Token /\ tokens[t].family <= t /\ t \in 1 .. Len(tokens)
    BY <1>0 DEF TokensInv
  <2>11. /\ tokens[t].owner \in Names /\ tokens[t].family \in Nat
         /\ tokens[t].family <= Len(tokens) /\ "issue" \in Labels
    BY <1>0, <2>1 DEF Token, Labels
  <2>12. links \in Nat /\ Len(tokens) \in Nat /\ 0 \in Nat /\ 0 <= links
    BY <1>0 DEF FilesInv, TokensInv
  <2>2. r \in Job /\ Shape(r, links, Len(tokens))
    BY <2>11, <2>12, DoingType
  <2>3. /\ job' = [job EXCEPT ![h] = r] /\ UNCHANGED <<links, now, crashes, cut>>
        /\ tokens' = [tokens EXCEPT ![t].used = TRUE]
    BY <1>7 DEF RotateRefreshToken, history, Begin
  <2> HIDE DEF r
  <2>4. /\ tokens' \in Seq(Token) /\ Len(tokens') = Len(tokens)
        /\ \A u \in DOMAIN tokens : tokens'[u].family = tokens[u].family
    <3>1. [tokens[t] EXCEPT !.used = TRUE] \in Token
      BY <2>1 DEF Token
    <3>2. tokens' = [tokens EXCEPT ![t] = [tokens[t] EXCEPT !.used = TRUE]]
      BY <2>3
    <3>3. tokens' \in Seq(Token) /\ Len(tokens') = Len(tokens)
      BY <1>0, <2>1, <3>1, <3>2
    <3>4. ASSUME NEW u \in DOMAIN tokens PROVE tokens'[u].family = tokens[u].family
      BY <1>0, <2>1, <3>2 DEF Token
    <3> QED  BY <3>3, <3>4
  <2>5. Shape(r, links', Len(tokens')) /\ Grows
    BY <1>0, <2>2, <2>3, <2>4 DEF Grows
  <2>6. JobInv'
    BY <1>0, <2>2, <2>3, <2>4, <2>5, JobStep
  <2>7. TokensInv'
    BY <1>0, <2>3, <2>4 DEF TokensInv
  <2>8. Flags' /\ FilesInv'
    BY <1>0, <1>7 DEF RotateRefreshToken, Flags, FilesInv, file, history
  <2> QED  BY <2>6, <2>7, <2>8 DEF AccessInv
<1>8. ASSUME NEW h \in Handlers, AskRotation(h) PROVE AccessInv'
  <2> DEFINE r == Doing("rotate", Organizer, links', 0)
  <2>1. /\ links' = links + 1 /\ links' \in Nat /\ Organizer \in Names /\ "rotate" \in Labels
        /\ job' = [job EXCEPT ![h] = r] /\ UNCHANGED <<tokens, now, crashes, cut>>
    BY <1>0, <1>8 DEF AskRotation, history, Names, Labels, Begin
  <2>2. r \in Job /\ Shape(r, links', Len(tokens))
    BY <1>0, <2>1, DoingType
  <2> HIDE DEF r
  <2>3. Grows /\ Shape(r, links', Len(tokens'))
    BY <1>0, <2>1, <2>2 DEF Grows
  <2>4. JobInv'
    BY <1>0, <2>1, <2>2, <2>3, JobStep
  <2>5. TokensInv'
    BY <1>0, <2>1 DEF TokensInv
  <2>6. /\ UNCHANGED <<disk, mem, gen, revoked>> /\ Flags'
    BY <1>0, <1>8 DEF AskRotation, Flags, file, history
  <2>7. FilesInv'
    BY <1>0, <2>1, <2>6, GoodLater DEF FilesInv
  <2> QED  BY <2>4, <2>5, <2>6, <2>7 DEF AccessInv
<1>9. ASSUME NEW h \in Handlers, RotateLinkToken(h) PROVE AccessInv'
  <2> DEFINE f == With(mem, Link, Record(job[h].link))
  <2>1. PICK outcome \in Outcomes :
          /\ FileStep(f, outcome)
          /\ IF outcome = "saved"
             THEN memErr' = FALSE /\ revoked' = revoked \union {mem[Link].secret : k \in DOMAIN mem \intersect {Link}}
             ELSE memErr' = memErr /\ revoked' = revoked
    BY <1>9, RotateEffect
  <2>2. End(h) /\ UNCHANGED <<keyOk, up, now, tokens, organizerUntil, links, gen, cut, overlap, loadFailed, crashes>>
    BY <1>9 DEF RotateLinkToken
  <2>3. job[h] \in Job /\ Shape(job[h], links, Len(tokens)) /\ Link \in FileKeys /\ GoodFile(mem, links)
    BY <1>0 DEF JobInv, FileKeys, FilesInv
  <2>4. job[h].link \in 0 .. links
    BY <1>0, <2>3 DEF Job, Shape
  <2>5. GoodFile(f, links)
    BY <1>0, <2>3, <2>4, WithGood
  <2> HIDE DEF f
  <2>6. GoodFile(disk', links') /\ GoodFile(mem', links')
    BY <1>0, <2>1, <2>2, <2>5, FileStepGood
  <2>7. revoked' \subseteq 0 .. links
    <3>1. revoked \subseteq 0 .. links
      BY <1>0 DEF FilesInv
    <3>2. {mem[Link].secret : k \in DOMAIN mem \intersect {Link}} \subseteq 0 .. links
      BY <2>3 DEF GoodFile
    <3> QED  BY <2>1, <3>1, <3>2
  <2>8. FilesInv'
    BY <1>0, <2>2, <2>6, <2>7 DEF FilesInv
  <2>9. Flags'
    BY <1>0, <2>1, <2>2 DEF Flags, FileStep
  <2>10. JobInv'
    BY <1>0, <2>2, EndStep, GrowsSame
  <2>11. TokensInv'
    BY <1>0, <2>2 DEF TokensInv
  <2> QED  BY <2>8, <2>9, <2>10, <2>11 DEF AccessInv
<1>10. ASSUME GenerateLoad PROVE AccessInv'
  <2>1. /\ gen' = With(disk, NewTeam, Record(NewTeam)) /\ overlap' = (overlap \/ up)
        /\ UNCHANGED <<disk, mem, memErr, keyOk, up, now, tokens, links, job, revoked, cut, torn, loadFailed, crashes>>
    BY <1>10 DEF GenerateLoad, file
  <2>2. GoodFile(disk, links) /\ NewTeam \in FileKeys /\ NewTeam # Link
    BY <1>0 DEF FilesInv, FileKeys, Names
  <2>3. GoodFile(gen', links)
    BY <1>0, <2>1, <2>2, WithGood
  <2>4. FilesInv' /\ Flags'
    BY <1>0, <2>1, <2>3 DEF FilesInv, Flags
  <2>5. TokensInv' /\ JobInv'
    BY <1>0, <2>1 DEF TokensInv, JobInv
  <2> QED  BY <2>4, <2>5 DEF AccessInv
<1>11. ASSUME GenerateSave PROVE AccessInv'
  <2>1. /\ gen # None /\ disk' \in {gen, disk} /\ gen' = None
        /\ UNCHANGED <<mem, memErr, keyOk, up, now, tokens, links, job, revoked, cut, overlap, torn, loadFailed, crashes>>
    BY <1>11 DEF GenerateSave, history
  <2>2. FilesInv' /\ Flags'
    BY <1>0, <2>1 DEF FilesInv, Flags
  <2>3. TokensInv' /\ JobInv'
    BY <1>0, <2>1 DEF TokensInv, JobInv
  <2> QED  BY <2>2, <2>3 DEF AccessInv
<1>12. ASSUME Tick PROVE AccessInv'
  BY <1>0, <1>12 DEF AccessInv, Tick, file, history, Flags, FilesInv, TokensInv, JobInv
<1>13. ASSUME Crash PROVE AccessInv'
  <2>1. /\ up' = FALSE /\ crashes' = crashes + 1 /\ crashes < MaxCrashes
        /\ job' = [h \in Handlers |-> Idle]
        /\ cut' = cut \union ({job[h].family : h \in Handlers} \ {0})
        /\ UNCHANGED <<disk, mem, memErr, keyOk, now, tokens, links, gen, revoked, overlap, torn, loadFailed>>
    BY <1>13 DEF Crash, file
  <2>2. JobInv'
    BY <1>0, <2>1, IdleType DEF JobInv
  <2>3. {job[h].family : h \in Handlers} \ {0} \subseteq DOMAIN tokens
    BY <1>0 DEF JobInv, Job, Shape
  <2>4. TokensInv'
    BY <1>0, <2>1, <2>3 DEF TokensInv
  <2>5. Flags' /\ FilesInv'
    BY <1>0, <2>1 DEF Flags, FilesInv
  <2> QED  BY <2>2, <2>4, <2>5 DEF AccessInv
<1>14. ASSUME New PROVE AccessInv'
  <2>1. /\ up' = TRUE /\ torn' = FALSE /\ keyOk' \in {TRUE, ~LoadMayFail} /\ overlap' = (overlap \/ gen # None)
        /\ \/ mem' = disk /\ memErr' = ~EnsureValid(disk) /\ loadFailed' = loadFailed
           \/ mem' = <<>> /\ memErr' = TRUE /\ loadFailed' = TRUE
        /\ UNCHANGED <<disk, now, tokens, links, job, gen, revoked, cut, crashes>>
    BY <1>14 DEF New
  <2>2. JobInv' /\ TokensInv'
    BY <1>0, <2>1 DEF JobInv, TokensInv
  <2>3. GoodFile(<<>>, links)
    BY DEF GoodFile
  <2>4. FilesInv'
    BY <1>0, <2>1, <2>3 DEF FilesInv
  <2>5. Flags'
    <3>1. memErr' \in BOOLEAN
      BY <2>1
    <3> QED  BY <1>0, <2>1, <3>1 DEF Flags
  <2> QED  BY <2>2, <2>4, <2>5 DEF AccessInv
<1>15. CASE UNCHANGED vars
  BY <1>0, <1>15 DEF AccessInv, vars, file, history, Flags, FilesInv, TokensInv, JobInv
<1> QED
  BY <1>1, <1>2, <1>3, <1>4, <1>5, <1>6, <1>7, <1>8, <1>9, <1>10, <1>11, <1>12, <1>13, <1>14, <1>15
     DEF Next

LEMMA AccessAlways == Spec => []AccessInv
<1>1. Init => AccessInv
  BY AccessInitially
<1>2. AccessInv /\ [Next]_vars => AccessInv'
  BY AccessStep
<1> QED  BY <1>1, <1>2, PTL DEF Spec

\* Every variable keeps its type.
THEOREM TypesKept == Spec => []TypeOK
<1>1. AccessInv => TypeOK
  <2> SUFFICES ASSUME AccessInv PROVE TypeOK
    OBVIOUS
  <2>1. \A f \in {disk, mem} \union ({gen} \ {None}) :
          /\ DOMAIN f \subseteq Teams \union {NewTeam, Organizer, Link}
          /\ \A k \in DOMAIN f : IF k = Link THEN f[k].secret \in 0 .. links ELSE f[k].secret = k
    BY DEF AccessInv, FilesInv, GoodFile, FileKeys, Names
  <2>2. {memErr, keyOk, up, overlap, torn, loadFailed} \subseteq BOOLEAN
    BY DEF AccessInv, Flags
  <2>3. \A t \in DOMAIN tokens : tokens[t].family \in 1 .. t /\ tokens[t].used \in BOOLEAN
    <3> TAKE t \in DOMAIN tokens
    <3>1. tokens[t] \in Token /\ tokens[t].family <= t /\ t \in Nat
      BY DEF AccessInv, TokensInv
    <3> QED  BY <3>1 DEF Token
  <2>4. \A h \in Handlers :
          /\ job[h].pc \in {"idle", "link", "verify", "issue", "rotate"}
          /\ job[h].family \in {0} \union DOMAIN tokens /\ job[h].link \in 0 .. links
    <3> TAKE h \in Handlers
    <3>1. job[h] \in Job /\ Shape(job[h], links, Len(tokens)) /\ links \in Nat /\ tokens \in Seq(Token)
      BY DEF AccessInv, JobInv, FilesInv, TokensInv
    <3> QED  BY <3>1 DEF Job, Labels, Shape
  <2>5. revoked \subseteq 0 .. links /\ cut \subseteq DOMAIN tokens /\ crashes \in 0 .. MaxCrashes
    BY DEF AccessInv, FilesInv, TokensInv
  <2> QED  BY <2>1, <2>2, <2>3, <2>4, <2>5 DEF TypeOK
<1> QED  BY <1>1, AccessAlways, PTL
-----------------------------------------------------------------------------
\* Refresh tokens

\* What OneUsableToken and ClientKeepsToken say of each token: the usable token
\* of a family is unique, nobody who refreshes has a rival, neither is there
\* beside the other, and one of them is unless the family was cut.
TokenInv ==
  /\ \A t, u \in DOMAIN tokens :
       tokens[t].family = tokens[u].family /\ ~tokens[t].used /\ ~tokens[u].used => t = u
  /\ \A h, g \in Handlers : job[h].family # 0 /\ job[h].family = job[g].family => h = g
  /\ \A t \in DOMAIN tokens, h \in Handlers :
       job[h].family = tokens[t].family => tokens[t].used
  /\ \A t \in DOMAIN tokens :
       \/ tokens[t].family \in cut
       \/ \E h \in Handlers : job[h].family = tokens[t].family
       \/ \E u \in DOMAIN tokens : tokens[u].family = tokens[t].family /\ ~tokens[u].used

\* Whatever moves no token and gives or takes no family.
LEMMA TokenFrame ==
  ASSUME TokenInv, tokens' = tokens, cut' = cut,
         \A h \in Handlers : job'[h].family = job[h].family
  PROVE  TokenInv'
  BY DEF TokenInv

LEMMA DoingFamily ==
  ASSUME NEW pc, NEW who, NEW link, NEW family
  PROVE  Doing(pc, who, link, family).family = family
  BY DEF Doing

LEMMA VerifyFamily ==
  ASSUME JobInv, NEW h \in Handlers, job[h].family = 0, NEW key, NEW secret, NEW next,
         VerifyCredential(h, key, secret, next)
  PROVE  \A g \in Handlers : job'[g].family = job[g].family
<1> TAKE g \in Handlers
<1>1. End(h) \/ Goto(h, next)
  BY VerifyEffect
<1>2. CASE End(h)
  BY <1>2, IdleType DEF End, JobInv
<1>3. CASE Goto(h, next)
  BY <1>3 DEF Goto, JobInv, Job
<1> QED  BY <1>1, <1>2, <1>3

LEMMA TokenStep == AccessInv /\ AccessInv' /\ TokenInv /\ [Next]_vars => TokenInv'
<1> SUFFICES ASSUME AccessInv, AccessInv', TokenInv, [Next]_vars PROVE TokenInv'
  OBVIOUS
<1>0. /\ JobInv /\ tokens \in Seq(Token) /\ Len(tokens) \in Nat
      /\ \A h \in Handlers : /\ job[h] \in Job /\ Shape(job[h], links, Len(tokens))
                             /\ job[h].family \in Nat /\ job[h].family <= Len(tokens)
                             /\ job[h].family # 0 => job[h].pc = "issue"
      /\ \A t \in DOMAIN tokens : /\ tokens[t] \in Token /\ tokens[t].family \in Nat \ {0}
                                  /\ tokens[t].family <= t /\ t \in 1 .. Len(tokens)
  <2>1. JobInv /\ tokens \in Seq(Token) /\ Len(tokens) \in Nat
    BY DEF AccessInv, TokensInv
  <2>2. ASSUME NEW h \in Handlers
        PROVE  /\ job[h] \in Job /\ Shape(job[h], links, Len(tokens))
               /\ job[h].family \in Nat /\ job[h].family <= Len(tokens)
               /\ job[h].family # 0 => job[h].pc = "issue"
    <3>1. job[h] \in Job /\ Shape(job[h], links, Len(tokens))
      BY <2>1 DEF JobInv
    <3> QED  BY <3>1 DEF Shape, Job
  <2>3. ASSUME NEW t \in DOMAIN tokens
        PROVE  /\ tokens[t] \in Token /\ tokens[t].family \in Nat \ {0}
               /\ tokens[t].family <= t /\ t \in 1 .. Len(tokens)
    <3>1. tokens[t] \in Token /\ tokens[t].family <= t /\ t \in 1 .. Len(tokens)
      BY <2>1 DEF AccessInv, TokensInv
    <3> QED  BY <3>1 DEF Token
  <2> QED  BY <2>1, <2>2, <2>3
<1>a. ASSUME NEW h \in Handlers, job[h].family = 0, NEW r, r.family = 0,
             job' = [job EXCEPT ![h] = r], tokens' = tokens, cut' = cut
      PROVE  TokenInv'
  <2>1. \A g \in Handlers : job'[g].family = job[g].family
    BY <1>0, <1>a DEF JobInv
  <2> QED  BY <1>a, <2>1, TokenFrame
<1>1. ASSUME NEW h \in Handlers, NEW who \in Teams \union {NewTeam, Organizer}, Login(h, who)
      PROVE  TokenInv'
  <2> DEFINE r == Doing("verify", who, 0, 0)
  <2>1. r.family = 0
    BY DoingFamily
  <2>2. job[h].pc = "idle" /\ job' = [job EXCEPT ![h] = r] /\ tokens' = tokens /\ cut' = cut
    BY <1>1 DEF Login, Begin, At, history
  <2> HIDE DEF r
  <2> QED  BY <1>0, <1>a, <2>1, <2>2
<1>2. ASSUME NEW h \in Handlers, NEW who \in Teams, NEW link \in 0 .. links, LinkLogin(h, who, link)
      PROVE  TokenInv'
  <2> DEFINE r == Doing("link", who, link, 0)
  <2>1. r.family = 0
    BY DoingFamily
  <2>2. job[h].pc = "idle" /\ job' = [job EXCEPT ![h] = r] /\ tokens' = tokens /\ cut' = cut
    BY <1>2 DEF LinkLogin, Begin, At, history
  <2> HIDE DEF r
  <2> QED  BY <1>0, <1>a, <2>1, <2>2
<1>3. ASSUME NEW h \in Handlers, VerifyLink(h) PROVE TokenInv'
  <2>1. job[h].family = 0 /\ tokens' = tokens /\ cut' = cut
    BY <1>0, <1>3 DEF VerifyLink, At
  <2>2. \A g \in Handlers : job'[g].family = job[g].family
    BY <1>0, <1>3, <2>1, VerifyFamily DEF VerifyLink
  <2> QED  BY <2>1, <2>2, TokenFrame
<1>4. ASSUME NEW h \in Handlers, VerifyWho(h) PROVE TokenInv'
  <2>1. job[h].family = 0 /\ tokens' = tokens /\ cut' = cut
    BY <1>0, <1>4 DEF VerifyWho, At
  <2>2. \A g \in Handlers : job'[g].family = job[g].family
    BY <1>0, <1>4, <2>1, VerifyFamily DEF VerifyWho
  <2> QED  BY <2>1, <2>2, TokenFrame
<1>5. ASSUME NEW h \in Handlers, IssueTokens(h) PROVE TokenInv'
  <2> DEFINE f == IF job[h].family = 0 THEN Len(tokens) + 1 ELSE job[h].family
             new == Len(tokens) + 1
             t0 == [owner |-> job[h].who, expires |-> now + RefreshLife, used |-> FALSE, family |-> f]
  <2>1. tokens' = Append(tokens, t0) /\ job' = [job EXCEPT ![h] = Idle] /\ cut' = cut
    BY <1>5 DEF IssueTokens, history, End
  <2>2. t0.family = f /\ t0.used = FALSE
    OBVIOUS
  <2> HIDE DEF t0
  <2>3. /\ DOMAIN tokens' = DOMAIN tokens \union {new} /\ tokens'[new] = t0
        /\ \A t \in DOMAIN tokens : tokens'[t] = tokens[t]
        /\ new \notin DOMAIN tokens
    BY <1>0, <2>1
  <2>4. job'[h].family = 0 /\ \A g \in Handlers \ {h} : job'[g] = job[g]
    BY <1>0, <2>1, IdleType DEF JobInv
  \* The family is a new one, or the one this request alone refreshes.
  <2>5. \A t \in DOMAIN tokens : tokens[t].family = f => tokens[t].used
    BY <1>0 DEF TokenInv
  <2>6. \A g \in Handlers \ {h} : job[g].family # f
    BY <1>0 DEF TokenInv
  <2>61. f \in Nat \ {0} /\ (job[h].family # 0 => f = job[h].family)
    BY <1>0
  <2> HIDE DEF f, new
  <2>7. /\ \A t, u \in DOMAIN tokens' :
             tokens'[t].family = tokens'[u].family /\ ~tokens'[t].used /\ ~tokens'[u].used => t = u
        /\ \A g, k \in Handlers : job'[g].family # 0 /\ job'[g].family = job'[k].family => g = k
    BY <2>2, <2>3, <2>4, <2>5 DEF TokenInv
  <2>8. \A t \in DOMAIN tokens', g \in Handlers : job'[g].family = tokens'[t].family => tokens'[t].used
    BY <1>0, <2>2, <2>3, <2>4, <2>6, <2>61 DEF TokenInv
  <2>9. ASSUME NEW t \in DOMAIN tokens'
        PROVE  \/ tokens'[t].family \in cut'
               \/ \E g \in Handlers : job'[g].family = tokens'[t].family
               \/ \E u \in DOMAIN tokens' : tokens'[u].family = tokens'[t].family /\ ~tokens'[u].used
    <3>1. CASE tokens'[t].family = f
      BY <2>2, <2>3, <3>1
    <3>2. CASE tokens'[t].family # f
      <4>1. t \in DOMAIN tokens /\ tokens'[t] = tokens[t] /\ job[h].family # tokens[t].family
        BY <1>0, <2>2, <2>3, <2>61, <3>2
      <4>2. CASE \E u \in DOMAIN tokens : tokens[u].family = tokens[t].family /\ ~tokens[u].used
        BY <2>3, <4>1, <4>2
      <4>3. CASE \E g \in Handlers : job[g].family = tokens[t].family
        BY <2>4, <4>1, <4>3
      <4> QED  BY <2>1, <4>1, <4>2, <4>3 DEF TokenInv
    <3> QED  BY <3>1, <3>2
  <2> QED  BY <2>7, <2>8, <2>9 DEF TokenInv
<1>6. ASSUME NEW h \in Handlers, IssueFails(h) PROVE TokenInv'
  <2>1. tokens' = tokens /\ job' = [job EXCEPT ![h] = Idle] /\ cut' = cut \union ({job[h].family} \ {0})
    BY <1>6 DEF IssueFails, End
  <2>2. job'[h].family = 0 /\ \A g \in Handlers \ {h} : job'[g] = job[g]
    BY <1>0, <2>1, IdleType DEF JobInv
  <2> QED  BY <1>0, <2>1, <2>2 DEF TokenInv
<1>7. ASSUME NEW h \in Handlers, NEW t \in DOMAIN tokens, RotateRefreshToken(h, t) PROVE TokenInv'
  <2> DEFINE f == tokens[t].family
             r == Doing("issue", tokens[t].owner, 0, f)
  <2>1. /\ tokens' = [tokens EXCEPT ![t].used = TRUE] /\ job' = [job EXCEPT ![h] = r]
        /\ cut' = cut /\ ~tokens[t].used
    BY <1>7 DEF RotateRefreshToken, history, Begin, Usable
  <2>2. r.family = f
    BY DoingFamily
  <2> HIDE DEF r
  <2>3. /\ DOMAIN tokens' = DOMAIN tokens /\ tokens'[t].used = TRUE /\ tokens'[t].family = f
        /\ \A u \in DOMAIN tokens \ {t} : tokens'[u] = tokens[u]
    BY <1>0, <2>1 DEF Token
  <2>4. job'[h].family = f /\ \A g \in Handlers \ {h} : job'[g] = job[g]
    BY <1>0, <2>1, <2>2 DEF JobInv
  <2>5. \A g \in Handlers : job[g].family # f
    BY <2>1 DEF TokenInv
  <2>6. \A u \in DOMAIN tokens \ {t} : tokens[u].family = f => tokens[u].used
    BY <2>1 DEF TokenInv
  <2>7. f # 0 /\ job[h].family = 0
    BY <1>0, <1>7 DEF RotateRefreshToken, At
  <2>8. \A u \in DOMAIN tokens' : tokens'[u].family = tokens[u].family /\ (~tokens'[u].used => ~tokens[u].used)
    BY <2>3
  <2>9. \A k, u \in DOMAIN tokens' :
          tokens'[k].family = tokens'[u].family /\ ~tokens'[k].used /\ ~tokens'[u].used => k = u
    BY <2>3, <2>8 DEF TokenInv
  <2>10. \A g, k \in Handlers : job'[g].family # 0 /\ job'[g].family = job'[k].family => g = k
    BY <2>4, <2>5 DEF TokenInv
  <2>11. \A u \in DOMAIN tokens', g \in Handlers : job'[g].family = tokens'[u].family => tokens'[u].used
    BY <2>3, <2>4, <2>6 DEF TokenInv
  <2>12. ASSUME NEW u \in DOMAIN tokens'
         PROVE  \/ tokens'[u].family \in cut'
                \/ \E g \in Handlers : job'[g].family = tokens'[u].family
                \/ \E k \in DOMAIN tokens' : tokens'[k].family = tokens'[u].family /\ ~tokens'[k].used
    <3>1. CASE tokens[u].family = f
      BY <2>3, <2>4, <2>8, <3>1
    <3>2. CASE tokens[u].family # f
      <4>0. u \in DOMAIN tokens /\ tokens'[u].family = tokens[u].family
        BY <2>3, <2>8
      <4>1. CASE \E k \in DOMAIN tokens : tokens[k].family = tokens[u].family /\ ~tokens[k].used
        BY <2>3, <3>2, <4>0, <4>1
      <4>2. CASE \E g \in Handlers : job[g].family = tokens[u].family
        <5>1. PICK g \in Handlers : job[g].family = tokens[u].family
          BY <4>2
        <5>2. g # h
          BY <1>0, <2>7, <4>0, <5>1
        <5> QED  BY <2>4, <4>0, <5>1, <5>2
      <4> QED  BY <2>1, <4>0, <4>1, <4>2 DEF TokenInv
    <3> QED  BY <3>1, <3>2
  <2> QED  BY <2>9, <2>10, <2>11, <2>12 DEF TokenInv
<1>8. ASSUME NEW h \in Handlers, AskRotation(h) PROVE TokenInv'
  <2> DEFINE r == Doing("rotate", Organizer, links', 0)
  <2>1. r.family = 0
    BY DoingFamily
  <2>2. job[h].pc = "idle" /\ job' = [job EXCEPT ![h] = r] /\ tokens' = tokens /\ cut' = cut
    BY <1>8 DEF AskRotation, Begin, At, history
  <2> HIDE DEF r
  <2> QED  BY <1>0, <1>a, <2>1, <2>2
<1>9. ASSUME NEW h \in Handlers, RotateLinkToken(h) PROVE TokenInv'
  BY <1>0, <1>9, <1>a, IdleType DEF RotateLinkToken, End, At
<1>10. ASSUME GenerateLoad PROVE TokenInv'
  BY <1>10, TokenFrame DEF GenerateLoad
<1>11. ASSUME GenerateSave PROVE TokenInv'
  BY <1>11, TokenFrame DEF GenerateSave, history
<1>12. ASSUME Tick PROVE TokenInv'
  BY <1>12, TokenFrame DEF Tick, history
<1>13. ASSUME Crash PROVE TokenInv'
  <2>1. /\ tokens' = tokens /\ job' = [h \in Handlers |-> Idle]
        /\ cut' = cut \union ({job[h].family : h \in Handlers} \ {0})
    BY <1>13 DEF Crash
  <2>2. \A h \in Handlers : job'[h].family = 0
    BY <2>1, IdleType
  <2> QED  BY <1>0, <2>1, <2>2 DEF TokenInv
<1>14. ASSUME New PROVE TokenInv'
  BY <1>14, TokenFrame DEF New
<1>15. CASE UNCHANGED vars
  BY <1>15, TokenFrame DEF vars, history
<1> QED
  BY <1>1, <1>2, <1>3, <1>4, <1>5, <1>6, <1>7, <1>8, <1>9, <1>10, <1>11, <1>12, <1>13, <1>14, <1>15
     DEF Next

LEMMA TokensCorrect == Spec => []TokenInv
<1>1. Init => TokenInv
  <2> SUFFICES ASSUME Init PROVE TokenInv
    OBVIOUS
  <2>1. DOMAIN tokens = {} /\ \A h \in Handlers : job[h].family = 0
    BY IdleType DEF Init
  <2> QED  BY <2>1 DEF TokenInv
<1>2. AccessInv /\ AccessInv' /\ TokenInv /\ [Next]_vars => TokenInv'
  BY TokenStep
<1> QED  BY <1>1, <1>2, AccessAlways, PTL DEF Spec

LEMMA AtMostOne ==
  ASSUME NEW S, \A x, y \in S : x = y
  PROVE  Cardinality(S) <= 1 /\ Cardinality(S) \in Nat /\ (S = {} => Cardinality(S) = 0)
<1>1. CASE S = {}
  BY <1>1, FS_EmptySet
<1>2. CASE S # {}
  <2>1. PICK x : S = {x}
    BY <1>2
  <2> QED  BY <2>1, FS_Singleton
<1> QED  BY <1>1, <1>2

\* A logon and the refreshes that follow it never have two usable tokens, nor
\* one beside a refresh that will issue another, for any number of requests
\* that present the same token (store.go:101, server.go:454).
THEOREM TokenTradedOnce == Spec => []OneUsableToken
<1>1. AccessInv /\ TokenInv => OneUsableToken
  <2> SUFFICES ASSUME AccessInv, TokenInv, NEW f \in DOMAIN tokens
               PROVE  Cardinality(Unspent(f)) + Cardinality(Refreshing(f)) <= 1
    BY DEF OneUsableToken
  <2>1. f # 0
    BY DEF AccessInv, TokensInv
  <2>2. \A x, y \in Unspent(f) : x = y
    BY DEF Unspent, Family, TokenInv
  <2>3. \A x, y \in Refreshing(f) : x = y
    BY <2>1 DEF Refreshing, TokenInv
  <2>4. Unspent(f) = {} \/ Refreshing(f) = {}
    BY DEF Unspent, Refreshing, Family, TokenInv
  <2> QED  BY <2>2, <2>3, <2>4, AtMostOne
<1> QED  BY <1>1, AccessAlways, TokensCorrect, PTL

\* A client keeps a token to go on with, or its refresh is under way, unless
\* the statement after the rotation failed or the server died (server.go:477).
THEOREM ClientAlwaysKeepsToken == Spec => []ClientKeepsToken
<1>1. TokenInv => ClientKeepsToken
  BY DEF TokenInv, ClientKeepsToken, Refreshing, Unspent, Family
<1> QED  BY <1>1, TokensCorrect, PTL
-----------------------------------------------------------------------------
\* The credential file and the server's copy

NotRevoked(f) == Link \in DOMAIN f => f[Link].secret \notin revoked

\* While generate works alone: it adds its team to the file that is there.
NewFileAlone == gen # None => ~up /\ gen = With(disk, NewTeam, Record(NewTeam))

\* A rotation that is under way installs a link of its own, which nobody had.
Rotating ==
  /\ NotRevoked(mem) /\ NotRevoked(disk)
  /\ \A h \in Handlers : job[h].pc = "rotate" =>
       /\ job[h].link \notin revoked
       /\ Link \in DOMAIN mem => mem[Link].secret # job[h].link
       /\ \A g \in Handlers : job[g].pc = "rotate" /\ job[g].link = job[h].link => g = h

\* Memory and file agree, unless a save tore them apart or the start failed.
Together ==
  /\ ~up => \A h \in Handlers : job[h].pc = "idle"
  /\ up /\ ~torn /\ (memErr => ~loadFailed) => mem = disk
  /\ ~loadFailed => Link \in DOMAIN disk /\ (up => DOMAIN mem = DOMAIN disk)

LinkInv == ~overlap => NewFileAlone /\ Rotating /\ Together

\* What CredentialsKept says of a step.
Kept == \A k \in DOMAIN disk : k \in DOMAIN disk' /\ (disk'[k].legacy => disk[k].legacy \/ torn)

\* A legacy record that is written anew keeps its place and its secret.
LEMMA UpgradeFile ==
  ASSUME NEW key, NEW secret, Verify(mem, key, secret)
  PROVE  /\ DOMAIN With(mem, key, Record(secret)) = DOMAIN mem
         /\ \A k \in DOMAIN mem :
              /\ With(mem, key, Record(secret))[k].secret = mem[k].secret
              /\ With(mem, key, Record(secret))[k].legacy => mem[k].legacy
<1> DEFINE record == Record(secret)
<1>1. record.secret = secret /\ record.legacy = FALSE /\ key \in DOMAIN mem /\ mem[key].secret = secret
  BY DEF Record, Verify
<1> HIDE DEF record
<1>2. /\ DOMAIN With(mem, key, record) = DOMAIN mem
      /\ \A k \in DOMAIN mem : With(mem, key, record)[k] = IF k = key THEN record ELSE mem[k]
  BY <1>1 DEF With
<1>3. \A k \in DOMAIN mem : /\ With(mem, key, record)[k].secret = mem[k].secret
                            /\ With(mem, key, record)[k].legacy => mem[k].legacy
  BY <1>1, <1>2
<1> QED  BY <1>2, <1>3 DEF record

\* No rotation starts, and what memory and file have for Link is as before.
LEMMA RotatingFrame ==
  ASSUME Rotating, NotRevoked(mem)', NotRevoked(disk)', revoked' = revoked,
         \A h \in Handlers : job'[h].pc = "rotate" => job'[h] = job[h],
         \/ Link \in DOMAIN mem' => Link \in DOMAIN mem /\ mem'[Link].secret = mem[Link].secret
         \/ \A h \in Handlers : job'[h].pc # "rotate"
  PROVE  Rotating'
  BY DEF Rotating

LEMMA UpgradeStep ==
  ASSUME Rotating, Together, up, NEW key, NEW secret, Upgrade(key, secret),
         \A h \in Handlers : job'[h].pc = "rotate" => job'[h] = job[h],
         UNCHANGED <<up, memErr, revoked, loadFailed>>, torn \in BOOLEAN
  PROVE  Rotating' /\ Together' /\ (~loadFailed => Kept)
<1>1. CASE disk' = disk /\ mem' = mem /\ torn' = torn
  <2>1. NotRevoked(mem)' /\ NotRevoked(disk)' /\ revoked' = revoked
    BY <1>1 DEF Rotating, NotRevoked
  <2>2. Rotating'
    BY <1>1, <2>1, RotatingFrame
  <2>3. Together'
    BY <1>1 DEF Together
  <2>4. Kept
    BY <1>1 DEF Kept
  <2> QED  BY <2>2, <2>3, <2>4
<1>2. ASSUME ~memErr, Verify(mem, key, secret),
             NEW outcome \in Outcomes, FileStep(With(mem, key, Record(secret)), outcome)
      PROVE  Rotating' /\ Together' /\ (~loadFailed => Kept)
  <2> DEFINE f == With(mem, key, Record(secret))
  <2>1. /\ DOMAIN f = DOMAIN mem
        /\ \A k \in DOMAIN mem : f[k].secret = mem[k].secret /\ (f[k].legacy => mem[k].legacy)
    BY <1>2, UpgradeFile
  <2>2. /\ disk' = IF outcome = "failed" THEN disk ELSE f
        /\ mem' = IF outcome = "saved" THEN f ELSE mem
        /\ torn' = (torn \/ outcome = "torn")
    BY <1>2 DEF FileStep
  <2> HIDE DEF f
  <2>3. NotRevoked(mem)' /\ NotRevoked(disk)' /\ revoked' = revoked
    BY <2>1, <2>2 DEF Rotating, NotRevoked
  <2>4. Link \in DOMAIN mem' => Link \in DOMAIN mem /\ mem'[Link].secret = mem[Link].secret
    BY <2>1, <2>2
  <2>5. Rotating'
    BY <2>3, <2>4, RotatingFrame
  <2>7. up' /\ ~torn' /\ (memErr' => ~loadFailed') => mem' = disk'
    BY <2>2 DEF Together, Outcomes
  <2>8. ~loadFailed' => Link \in DOMAIN disk' /\ (up' => DOMAIN mem' = DOMAIN disk')
    BY <2>1, <2>2 DEF Together
  <2>9. Together'
    BY <2>7, <2>8 DEF Together
  <2>10. ~loadFailed => Kept
    <3> SUFFICES ASSUME ~loadFailed, NEW k \in DOMAIN disk
                 PROVE  k \in DOMAIN disk' /\ (disk'[k].legacy => disk[k].legacy \/ torn)
      BY DEF Kept
    <3>1. k \in DOMAIN mem /\ (torn \/ mem = disk)
      BY <1>2 DEF Together
    <3>2. disk' = disk \/ disk' = f
      BY <2>2
    <3>3. CASE disk' = disk
      BY <3>3
    <3>4. CASE disk' = f
      BY <2>1, <3>1, <3>4
    <3> QED  BY <3>2, <3>3, <3>4
  <2> QED  BY <2>5, <2>9, <2>10
<1> QED  BY <1>1, <1>2 DEF Upgrade

\* A rotation that is saved replaces the link; one that is not changes the
\* file at most.
LEMMA RotateStep ==
  ASSUME AccessInv, Rotating, Together, up, NEW h \in Handlers, RotateLinkToken(h)
  PROVE  Rotating' /\ Together' /\ (~loadFailed => Kept)
<1> DEFINE record == Record(job[h].link)
           f == With(mem, Link, record)
<1>1. PICK outcome \in Outcomes :
        /\ FileStep(f, outcome)
        /\ IF outcome = "saved"
           THEN memErr' = FALSE /\ revoked' = revoked \union {mem[Link].secret : k \in DOMAIN mem \intersect {Link}}
           ELSE memErr' = memErr /\ revoked' = revoked
  BY RotateEffect
<1>2. record.secret = job[h].link /\ record.legacy = FALSE
  BY DEF Record
<1> HIDE DEF record
<1>3. /\ DOMAIN f = DOMAIN mem \union {Link} /\ f[Link] = record
      /\ \A k \in DOMAIN mem \ {Link} : f[k] = mem[k]
  BY DEF With
<1> HIDE DEF f
<1>4. /\ disk' = IF outcome = "failed" THEN disk ELSE f
      /\ mem' = IF outcome = "saved" THEN f ELSE mem
      /\ torn' = (torn \/ outcome = "torn")
  BY <1>1 DEF FileStep
<1>5. /\ job[h].pc = "rotate" /\ UNCHANGED <<up, loadFailed>>
      /\ \A g \in Handlers : job'[g].pc = "rotate" => g # h /\ job'[g] = job[g]
  BY IdleType DEF RotateLinkToken, At, End, AccessInv, JobInv
<1>6. /\ job[h].link \notin revoked /\ (Link \in DOMAIN mem => mem[Link].secret # job[h].link)
      /\ \A g \in Handlers : job[g].pc = "rotate" /\ g # h => job[g].link # job[h].link
  BY <1>5 DEF Rotating
<1>7. Rotating'
  <2>1. CASE outcome = "saved"
    <3>1. /\ mem' = f /\ disk' = f
          /\ \A x : x \in revoked' <=> x \in revoked \/ (Link \in DOMAIN mem /\ x = mem[Link].secret)
      BY <1>1, <1>4, <2>1
    <3>2. NotRevoked(mem)' /\ NotRevoked(disk)'
      BY <1>2, <1>3, <1>6, <3>1 DEF NotRevoked
    <3>3. ASSUME NEW g \in Handlers, job'[g].pc = "rotate"
          PROVE  /\ job'[g].link \notin revoked' /\ mem'[Link].secret # job'[g].link
                 /\ \A k \in Handlers : job'[k].pc = "rotate" /\ job'[k].link = job'[g].link => k = g
      <4>1. job'[g] = job[g] /\ g # h /\ job[g].pc = "rotate"
        BY <1>5, <3>3
      <4>2. job[g].link \notin revoked /\ (Link \in DOMAIN mem => mem[Link].secret # job[g].link)
        BY <4>1 DEF Rotating
      <4>3. \A k \in Handlers : job'[k].pc = "rotate" /\ job'[k].link = job'[g].link => k = g
        BY <1>5, <4>1 DEF Rotating
      <4> QED  BY <1>2, <1>3, <1>6, <3>1, <4>1, <4>2, <4>3
    <3> QED  BY <3>2, <3>3 DEF Rotating
  <2>2. CASE outcome # "saved"
    <3>1. mem' = mem /\ revoked' = revoked /\ (disk' = disk \/ disk' = f)
      BY <1>1, <1>4, <2>2
    <3>2. NotRevoked(mem)' /\ NotRevoked(disk)'
      BY <1>2, <1>3, <1>6, <3>1 DEF NotRevoked, Rotating
    <3> QED  BY <1>5, <3>1, <3>2, RotatingFrame
  <2> QED  BY <2>1, <2>2
<1>8. Together'
  <2>1. up' /\ ~torn' /\ (memErr' => ~loadFailed') => mem' = disk'
    BY <1>1, <1>4, <1>5 DEF Together, Outcomes
  <2>2. ~loadFailed' => Link \in DOMAIN disk' /\ (up' => DOMAIN mem' = DOMAIN disk')
    BY <1>3, <1>4, <1>5 DEF Together
  <2> QED  BY <1>5, <2>1, <2>2 DEF Together
<1>9. ~loadFailed => Kept
  <2> SUFFICES ASSUME ~loadFailed, NEW k \in DOMAIN disk
               PROVE  k \in DOMAIN disk' /\ (disk'[k].legacy => disk[k].legacy \/ torn)
    BY DEF Kept
  <2>1. k \in DOMAIN mem /\ (torn \/ mem = disk)
    BY DEF Together
  <2>2. CASE disk' = disk
    BY <2>2
  <2>3. CASE disk' = f
    <3>1. CASE k = Link
      BY <1>2, <1>3, <2>3, <3>1
    <3>2. CASE k # Link
      BY <1>3, <2>1, <2>3, <3>2
    <3> QED  BY <3>1, <3>2
  <2> QED  BY <1>4, <2>2, <2>3
<1> QED  BY <1>7, <1>8, <1>9
\* A step that leaves the files alone and starts no rotation.
LEMMA LinkFrame ==
  ASSUME LinkInv, UNCHANGED <<disk, mem, memErr, up, gen, revoked, overlap, torn, loadFailed>>,
         \A h \in Handlers : job'[h].pc = "rotate" => job'[h] = job[h],
         up \/ \A h \in Handlers : job'[h].pc = "idle"
  PROVE  LinkInv' /\ Kept
<1>1. Kept
  BY DEF Kept
<1>2. ASSUME ~overlap PROVE NewFileAlone' /\ Rotating' /\ Together'
  <2>1. NewFileAlone /\ Rotating /\ Together
    BY <1>2 DEF LinkInv
  <2>2. NotRevoked(mem)' /\ NotRevoked(disk)'
    BY <2>1 DEF Rotating, NotRevoked
  <2>3. Rotating'
    BY <2>1, <2>2, RotatingFrame
  <2>4. NewFileAlone' /\ Together'
    BY <2>1 DEF NewFileAlone, Together
  <2> QED  BY <2>3, <2>4
<1> QED  BY <1>1, <1>2 DEF LinkInv

LEMMA LinkStep ==
  AccessInv /\ LinkInv /\ [Next]_vars => LinkInv' /\ (~overlap' /\ ~loadFailed' => Kept)
<1> SUFFICES ASSUME AccessInv, LinkInv, [Next]_vars
             PROVE  LinkInv' /\ (~overlap' /\ ~loadFailed' => Kept)
  OBVIOUS
<1> DEFINE Goal == LinkInv' /\ (~overlap' /\ ~loadFailed' => Kept)
<1>0. /\ job \in [Handlers -> Job] /\ torn \in BOOLEAN
      /\ \A h \in Handlers : job[h].link <= links
      /\ links \in Nat /\ revoked \subseteq 0 .. links /\ GoodFile(mem, links)
  BY DEF AccessInv, Flags, JobInv, Shape, FilesInv
<1>a. ASSUME NEW h \in Handlers, NEW r, r.pc # "rotate", job' = [job EXCEPT ![h] = r]
      PROVE  \A g \in Handlers : job'[g].pc = "rotate" => job'[g] = job[g]
  BY <1>0, <1>a
<1>b. ASSUME NEW h \in Handlers, NEW key, NEW secret, NEW next \in {"verify", "issue"},
             VerifyCredential(h, key, secret, next), up,
             UNCHANGED <<up, gen, revoked, overlap, loadFailed>>
      PROVE  Goal
  <2>1. (End(h) \/ Goto(h, next)) /\ memErr' = memErr /\ Upgrade(key, secret)
    BY <1>b, VerifyEffect
  <2>2. \A g \in Handlers : job'[g].pc = "rotate" => job'[g] = job[g]
    <3>1. CASE End(h)
      BY <1>a, <3>1, IdleType DEF End
    <3>2. CASE Goto(h, next)
      <4>1. [job[h] EXCEPT !.pc = next].pc = next
        BY <1>0 DEF Job
      <4> QED  BY <1>a, <1>b, <3>2, <4>1 DEF Goto
    <3> QED  BY <2>1, <3>1, <3>2
  <2>3. ASSUME ~overlap PROVE NewFileAlone' /\ Rotating' /\ Together' /\ (~loadFailed => Kept)
    <3>1. NewFileAlone /\ Rotating /\ Together
      BY <2>3 DEF LinkInv
    <3>2. Rotating' /\ Together' /\ (~loadFailed => Kept)
      BY <1>0, <1>b, <2>1, <2>2, <3>1, UpgradeStep
    <3>3. NewFileAlone'
      BY <1>b, <3>1 DEF NewFileAlone
    <3> QED  BY <3>2, <3>3
  <2> QED  BY <1>b, <2>3 DEF LinkInv
<1>1. ASSUME NEW h \in Handlers, NEW who \in Teams \union {NewTeam, Organizer}, Login(h, who)
      PROVE  Goal
  <2>1. Doing("verify", who, 0, 0).pc = "verify"
    BY DEF Doing
  <2>2. up /\ UNCHANGED <<disk, mem, memErr, up, gen, revoked, overlap, torn, loadFailed>>
    BY <1>1 DEF Login, At, file, history
  <2>3. \A g \in Handlers : job'[g].pc = "rotate" => job'[g] = job[g]
    BY <1>1, <1>a, <2>1 DEF Login, Begin
  <2> QED  BY <2>2, <2>3, LinkFrame
<1>2. ASSUME NEW h \in Handlers, NEW who \in Teams, NEW link \in 0 .. links, LinkLogin(h, who, link)
      PROVE  Goal
  <2>1. Doing("link", who, link, 0).pc = "link"
    BY DEF Doing
  <2>2. up /\ UNCHANGED <<disk, mem, memErr, up, gen, revoked, overlap, torn, loadFailed>>
    BY <1>2 DEF LinkLogin, At, file, history
  <2>3. \A g \in Handlers : job'[g].pc = "rotate" => job'[g] = job[g]
    BY <1>2, <1>a, <2>1 DEF LinkLogin, Begin
  <2> QED  BY <2>2, <2>3, LinkFrame
<1>3. ASSUME NEW h \in Handlers, VerifyLink(h) PROVE Goal
  BY <1>3, <1>b DEF VerifyLink, At
<1>4. ASSUME NEW h \in Handlers, VerifyWho(h) PROVE Goal
  BY <1>4, <1>b DEF VerifyWho, At
<1>5. ASSUME NEW h \in Handlers, IssueTokens(h) PROVE Goal
  <2>1. up /\ End(h) /\ UNCHANGED <<disk, mem, memErr, up, gen, revoked, overlap, torn, loadFailed>>
    BY <1>5 DEF IssueTokens, At, file, history
  <2>2. \A g \in Handlers : job'[g].pc = "rotate" => job'[g] = job[g]
    BY <1>a, <2>1, IdleType DEF End
  <2> QED  BY <2>1, <2>2, LinkFrame
<1>6. ASSUME NEW h \in Handlers, IssueFails(h) PROVE Goal
  <2>1. up /\ End(h) /\ UNCHANGED <<disk, mem, memErr, up, gen, revoked, overlap, torn, loadFailed>>
    BY <1>6 DEF IssueFails, At, file
  <2>2. \A g \in Handlers : job'[g].pc = "rotate" => job'[g] = job[g]
    BY <1>a, <2>1, IdleType DEF End
  <2> QED  BY <2>1, <2>2, LinkFrame
<1>7. ASSUME NEW h \in Handlers, NEW t \in DOMAIN tokens, RotateRefreshToken(h, t) PROVE Goal
  <2>1. Doing("issue", tokens[t].owner, 0, tokens[t].family).pc = "issue"
    BY DEF Doing
  <2>2. up /\ UNCHANGED <<disk, mem, memErr, up, gen, revoked, overlap, torn, loadFailed>>
    BY <1>7 DEF RotateRefreshToken, At, file, history
  <2>3. \A g \in Handlers : job'[g].pc = "rotate" => job'[g] = job[g]
    BY <1>7, <1>a, <2>1 DEF RotateRefreshToken, Begin
  <2> QED  BY <2>2, <2>3, LinkFrame
<1>8. ASSUME NEW h \in Handlers, AskRotation(h) PROVE Goal
  <2> DEFINE r == Doing("rotate", Organizer, links', 0)
  <2>1. r.pc = "rotate" /\ r.link = links'
    BY DEF Doing
  <2>2. /\ up /\ links' = links + 1 /\ job' = [job EXCEPT ![h] = r]
        /\ UNCHANGED <<disk, mem, memErr, up, gen, revoked, overlap, torn, loadFailed>>
    BY <1>8 DEF AskRotation, At, Begin, file, history
  <2> HIDE DEF r
  <2>3. job'[h] = r /\ \A g \in Handlers \ {h} : job'[g] = job[g]
    BY <1>0, <2>2
  <2>4. Kept
    BY <2>2 DEF Kept
  \* The link that was drawn is newer than all that are known.
  <2>5. /\ r.link \notin revoked /\ (Link \in DOMAIN mem => mem[Link].secret # r.link)
        /\ \A g \in Handlers : job[g].link # r.link
    <3>1. r.link = links + 1
      BY <2>1, <2>2
    <3>2. Link \in DOMAIN mem => mem[Link].secret \in 0 .. links
      BY <1>0 DEF GoodFile
    <3>3. ASSUME NEW g \in Handlers PROVE job[g].link # links + 1
      <4>1. job[g].link \in Nat /\ job[g].link <= links
        BY <1>0 DEF Job
      <4> QED  BY <1>0, <4>1
    <3> QED  BY <1>0, <3>1, <3>2, <3>3
  <2>6. ASSUME ~overlap PROVE NewFileAlone' /\ Rotating' /\ Together'
    <3>1. NewFileAlone /\ Rotating /\ Together
      BY <2>6 DEF LinkInv
    <3>2. NotRevoked(mem)' /\ NotRevoked(disk)'
      BY <2>2, <3>1 DEF Rotating, NotRevoked
    <3>3. ASSUME NEW g \in Handlers, job'[g].pc = "rotate"
          PROVE  /\ job'[g].link \notin revoked' /\ (Link \in DOMAIN mem' => mem'[Link].secret # job'[g].link)
                 /\ \A k \in Handlers : job'[k].pc = "rotate" /\ job'[k].link = job'[g].link => k = g
      <4>1. CASE g = h
        BY <2>2, <2>3, <2>5, <4>1
      <4>2. CASE g # h
        BY <2>2, <2>3, <2>5, <3>1, <3>3, <4>2 DEF Rotating
      <4> QED  BY <4>1, <4>2
    <3>4. Rotating'
      BY <3>2, <3>3 DEF Rotating
    <3>5. NewFileAlone' /\ Together'
      BY <2>2, <3>1 DEF NewFileAlone, Together
    <3> QED  BY <3>4, <3>5
  <2> QED  BY <2>2, <2>4, <2>6 DEF LinkInv
<1>9. ASSUME NEW h \in Handlers, RotateLinkToken(h) PROVE Goal
  <2>1. up /\ UNCHANGED <<up, gen, overlap, loadFailed>>
    BY <1>9 DEF RotateLinkToken, At
  <2>2. ASSUME ~overlap PROVE NewFileAlone' /\ Rotating' /\ Together' /\ (~loadFailed => Kept)
    <3>1. NewFileAlone /\ Rotating /\ Together
      BY <2>2 DEF LinkInv
    <3>2. Rotating' /\ Together' /\ (~loadFailed => Kept)
      BY <1>9, <2>1, <3>1, RotateStep
    <3>3. NewFileAlone'
      BY <2>1, <3>1 DEF NewFileAlone
    <3> QED  BY <3>2, <3>3
  <2> QED  BY <2>1, <2>2 DEF LinkInv
<1>10. ASSUME GenerateLoad PROVE Goal
  <2>1. /\ gen' = With(disk, NewTeam, Record(NewTeam)) /\ overlap' = (overlap \/ up)
        /\ UNCHANGED <<disk, mem, memErr, up, job, revoked, torn, loadFailed>>
    BY <1>10 DEF GenerateLoad, file
  <2>2. Kept
    BY <2>1 DEF Kept
  <2>3. ASSUME ~overlap' PROVE NewFileAlone' /\ Rotating' /\ Together'
    <3>1. ~overlap /\ ~up /\ NewFileAlone /\ Rotating /\ Together
      BY <2>1, <2>3 DEF LinkInv
    <3>2. NewFileAlone'
      BY <2>1, <3>1 DEF NewFileAlone
    <3>3. Rotating' /\ Together'
      BY <2>1, <3>1 DEF Rotating, NotRevoked, Together
    <3> QED  BY <3>2, <3>3
  <2> QED  BY <2>2, <2>3 DEF LinkInv
<1>11. ASSUME GenerateSave PROVE Goal
  <2>1. /\ gen # None /\ (disk' = gen \/ disk' = disk) /\ gen' = None
        /\ UNCHANGED <<mem, memErr, up, job, revoked, overlap, torn, loadFailed>>
    BY <1>11 DEF GenerateSave, history
  <2>2. ASSUME ~overlap PROVE NewFileAlone' /\ Rotating' /\ Together' /\ (~loadFailed => Kept)
    <3> DEFINE record == Record(NewTeam)
    <3>1. NewFileAlone /\ Rotating /\ Together /\ ~up /\ gen = With(disk, NewTeam, record)
      BY <2>1, <2>2 DEF LinkInv, NewFileAlone
    <3>2. record.legacy = FALSE /\ NewTeam # Link
      BY Constants DEF Record, Names
    <3> HIDE DEF record
    <3>3. /\ DOMAIN gen = DOMAIN disk \union {NewTeam} /\ gen[NewTeam] = record
          /\ \A k \in DOMAIN disk \ {NewTeam} : gen[k] = disk[k]
      BY <3>1 DEF With
    <3>4. NotRevoked(mem)' /\ NotRevoked(disk)'
      BY <2>1, <3>1, <3>2, <3>3 DEF Rotating, NotRevoked
    <3>5. Rotating'
      BY <2>1, <3>1, <3>4, RotatingFrame
    <3>6. Together' /\ NewFileAlone'
      BY <2>1, <3>1, <3>3 DEF Together, NewFileAlone
    <3>7. Kept
      <4> SUFFICES ASSUME NEW k \in DOMAIN disk
                   PROVE  k \in DOMAIN disk' /\ (disk'[k].legacy => disk[k].legacy \/ torn)
        BY DEF Kept
      <4>1. CASE disk' = disk
        BY <4>1
      <4>2. CASE disk' = gen /\ k = NewTeam
        BY <3>2, <3>3, <4>2
      <4>3. CASE disk' = gen /\ k # NewTeam
        BY <3>3, <4>3
      <4> QED  BY <2>1, <4>1, <4>2, <4>3
    <3> QED  BY <3>5, <3>6, <3>7
  <2> QED  BY <2>1, <2>2 DEF LinkInv
<1>12. ASSUME Tick PROVE Goal
  <2>1. UNCHANGED <<disk, mem, memErr, up, gen, revoked, overlap, torn, loadFailed, job>>
    BY <1>12 DEF Tick, file, history
  <2>2. overlap \/ up \/ \A h \in Handlers : job'[h].pc = "idle"
    BY <2>1 DEF LinkInv, Together
  <2>3. CASE overlap
    BY <2>1, <2>3 DEF LinkInv
  <2> QED  BY <2>1, <2>2, <2>3, LinkFrame
<1>13. ASSUME Crash PROVE Goal
  <2>1. /\ up /\ up' = FALSE /\ job' = [h \in Handlers |-> Idle]
        /\ UNCHANGED <<disk, mem, memErr, gen, revoked, overlap, torn, loadFailed>>
    BY <1>13 DEF Crash, file
  <2>2. \A h \in Handlers : job'[h].pc = "idle"
    BY <2>1, IdleType
  <2>3. Kept
    BY <2>1 DEF Kept
  <2>4. ASSUME ~overlap PROVE NewFileAlone' /\ Rotating' /\ Together'
    <3>1. NewFileAlone /\ Rotating /\ Together
      BY <2>4 DEF LinkInv
    <3>2. Rotating'
      BY <2>1, <2>2, <3>1 DEF Rotating, NotRevoked
    <3>3. NewFileAlone' /\ Together'
      BY <2>1, <2>2, <3>1 DEF NewFileAlone, Together
    <3> QED  BY <3>2, <3>3
  <2> QED  BY <2>1, <2>3, <2>4 DEF LinkInv
<1>14. ASSUME New PROVE Goal
  <2>1. /\ ~up /\ up' = TRUE /\ torn' = FALSE /\ overlap' = (overlap \/ gen # None)
        /\ \/ mem' = disk /\ loadFailed' = loadFailed
           \/ mem' = <<>> /\ memErr' = TRUE /\ loadFailed' = TRUE
        /\ UNCHANGED <<disk, job, gen, revoked>>
    BY <1>14 DEF New
  <2>2. Kept
    BY <2>1 DEF Kept
  <2>3. ASSUME ~overlap' PROVE NewFileAlone' /\ Rotating' /\ Together'
    <3>1. ~overlap /\ gen = None /\ NewFileAlone /\ Rotating /\ Together
      BY <2>1, <2>3 DEF LinkInv
    <3>2. \A h \in Handlers : job'[h].pc = "idle"
      BY <2>1, <3>1 DEF Together
    <3>3. NotRevoked(mem)' /\ NotRevoked(disk)'
      BY <2>1, <3>1 DEF Rotating, NotRevoked
    <3>4. Rotating'
      BY <3>2, <3>3 DEF Rotating
    <3>5. NewFileAlone' /\ Together'
      BY <2>1, <3>1, <3>2 DEF NewFileAlone, Together
    <3> QED  BY <3>4, <3>5
  <2> QED  BY <2>2, <2>3 DEF LinkInv
<1>15. CASE UNCHANGED vars
  <2>1. UNCHANGED <<disk, mem, memErr, up, gen, revoked, overlap, torn, loadFailed, job>>
    BY <1>15 DEF vars, file, history
  <2>2. overlap \/ up \/ \A h \in Handlers : job'[h].pc = "idle"
    BY <2>1 DEF LinkInv, Together
  <2>3. CASE overlap
    BY <2>1, <2>3 DEF LinkInv
  <2> QED  BY <2>1, <2>2, <2>3, LinkFrame
<1> QED
  BY <1>1, <1>2, <1>3, <1>4, <1>5, <1>6, <1>7, <1>8, <1>9, <1>10, <1>11, <1>12, <1>13, <1>14, <1>15
     DEF Next

LEMMA LinkInit == Init => LinkInv
<1> SUFFICES ASSUME Init PROVE LinkInv
  OBVIOUS
<1>1. PICK legacy \in [Teams \union {Organizer} -> BOOLEAN] :
        disk = With([k \in Teams \union {Organizer} |-> [secret |-> k, legacy |-> legacy[k]]],
                    Link, Record(0))
  BY DEF Init
<1>2. Link \in DOMAIN disk
  BY <1>1 DEF With
<1>3. mem = disk /\ revoked = {} /\ gen = None /\ up = TRUE
      /\ \A h \in Handlers : job[h].pc = "idle"
  BY IdleType DEF Init
<1> QED  BY <1>2, <1>3 DEF LinkInv, NewFileAlone, Rotating, NotRevoked, Together

LEMMA LinkCorrect == Spec => []LinkInv
<1>1. AccessInv /\ LinkInv /\ [Next]_vars => LinkInv'
  BY LinkStep
<1> QED  BY <1>1, LinkInit, AccessAlways, PTL DEF Spec

\* What logons are checked against is what a restart would read, and a replaced
\* link token is never accepted again (server.go:424, :643).
THEOREM LinkAlwaysCurrent == Spec => []LinkIsCurrent
<1>1. AccessInv /\ LinkInv => LinkIsCurrent
  BY DEF LinkInv, LinkIsCurrent, Rotating, NotRevoked, Together, AccessInv, Flags
<1> QED  BY <1>1, AccessAlways, LinkCorrect, PTL

\* No write of the file drops a record, or brings a legacy one back after a
\* save that was confirmed (server.go:415, :643, main.go:303).
THEOREM CredentialsAlwaysKept == Spec => CredentialsKept
<1> DEFINE Step == ~overlap' /\ ~loadFailed' =>
                     \A k \in DOMAIN disk : k \in DOMAIN disk' /\ (disk'[k].legacy => disk[k].legacy \/ torn)
<1>1. AccessInv /\ LinkInv /\ [Next]_vars => [Step]_vars
  BY LinkStep DEF Kept
<1> QED  BY <1>1, AccessAlways, LinkCorrect, PTL DEF Spec, CredentialsKept

-----------------------------------------------------------------------------
(***************************************************************************)
(* RateLimiter.  What a key was let through so far is a sequence; the last *)
(* of it belongs to its window, if it has one.  Before the window, a       *)
(* minute that is not over holds the requests of one window, and of one    *)
(* more for each late request.  What is known of a key with and without an *)
(* entry is an operator on values, and a lemma says how a sweep, a new     *)
(* window and one more request lead from one to the other; the invariant   *)
(* puts them together.                                                     *)
(***************************************************************************)

Passed == [now : Nat, at : Nat, late : BOOLEAN]

\* The first m requests of s: those in the minute from t, and the late ones
\* around it.
Near(s, m, t)  == {i \in 1 .. m : s[i].now >= t /\ s[i].now < t + Minute}
Tardy(s, m, t) == {i \in 1 .. m : s[i].late /\ s[i].now > t - Minute /\ s[i].now < t + Minute}

Within(s, m, t, limit, windows) ==
  Cardinality(Near(s, m, t)) <= limit * (windows + Cardinality(Tardy(s, m, t)))

Fair(s, m, limit) == \A t \in Int : Within(s, m, t, limit, 2)

\* The first m requests have times up to l, and few of them are in a minute
\* that goes on after l.
Forgotten(s, m, l, limit) ==
  /\ \A i \in 1 .. m : s[i].now <= l
  /\ \A t \in Int : t > l - Minute => Within(s, m, t, limit, 1)

\* The window since w counts those after the first m: they read the clock
\* before it was over, came in after it began, and are late if they read the
\* clock before that.  It was opened in time or by a late request.
Opened(s, m, w, b) ==
  /\ \A i \in m + 1 .. Len(s) : /\ s[i].now < w + Minute /\ s[i].at >= w
                                /\ s[i].now < w => s[i].late
  /\ m < Len(s) /\ b > w => s[m + 1].late /\ s[m + 1].now = w

Counted(s, w, n, l, limit) ==
  /\ w \in 0 .. l /\ n \in 1 .. limit + 1
  /\ \E m \in 0 .. Len(s), b \in 0 .. l :
       /\ Len(s) = m + (IF n <= limit THEN n ELSE limit)
       /\ Fair(s, m, limit) /\ Forgotten(s, m, b, limit)
       /\ Opened(s, m, w, b)

KeyInv(k) ==
  /\ k \notin DOMAIN rate => /\ Fair(admitted[k], Len(admitted[k]), Limit[k])
                             /\ Forgotten(admitted[k], Len(admitted[k]), latest, Limit[k])
  /\ k \in DOMAIN rate =>
       Counted(admitted[k], rate[k].started, rate[k].count, latest, Limit[k])

RateInv ==
  /\ clock \in Nat /\ latest \in 0 .. clock /\ lates \in 0 .. MaxLate
  /\ admitted \in [Keys -> Seq(Passed)]
  /\ rate = [k \in DOMAIN rate |-> rate[k]]
  /\ DOMAIN rate \subseteq Keys /\ IsFiniteSet(DOMAIN rate)
  /\ Cardinality(DOMAIN rate) <= Capacity
  /\ \A k \in DOMAIN rate : rate[k] \in [started : Nat, count : Nat]
  /\ \A k \in Keys : KeyInv(k)

-----------------------------------------------------------------------------
\* Counting windows.

LEMMA MoreWindows ==
  ASSUME NEW limit \in Nat, NEW x \in Nat, NEW y \in Nat, NEW a \in Int, a <= limit * x, x <= y
  PROVE  a <= limit * y
<1>1. PICK d \in Nat : y = x + d
  <2>1. y - x \in Nat /\ y = x + (y - x)
    OBVIOUS
  <2> QED  BY <2>1
<1>2. limit * y = limit * x + limit * d
  BY <1>1
<1>3. limit * d >= 0
  OBVIOUS
<1>4. limit * x \in Int /\ limit * d \in Int /\ limit * y \in Int
  OBVIOUS
<1> QED  BY <1>2, <1>3, <1>4

LEMMA OneWindowMore ==
  ASSUME NEW limit \in Nat, NEW x \in Nat, NEW y \in Nat, NEW a \in Nat, NEW c \in Nat, NEW e \in Nat,
         a <= limit * x, c <= limit, e <= a + c, x + 1 <= y
  PROVE  e <= limit * y
<1>1. limit * (x + 1) = limit * x + limit
  OBVIOUS
<1>2. limit * x \in Int /\ limit * (x + 1) \in Int
  OBVIOUS
<1>3. e <= limit * (x + 1)
  BY <1>1, <1>2
<1>4. x + 1 \in Nat
  OBVIOUS
<1> QED  BY <1>3, <1>4, MoreWindows

-----------------------------------------------------------------------------
\* Counting requests.

LEMMA PlacesFinite ==
  ASSUME NEW s, NEW m \in Nat, NEW t \in Int
  PROVE  /\ IsFiniteSet(Near(s, m, t)) /\ Cardinality(Near(s, m, t)) \in Nat
         /\ IsFiniteSet(Tardy(s, m, t)) /\ Cardinality(Tardy(s, m, t)) \in Nat
<1>1. IsFiniteSet(1 .. m)
  BY FS_Interval
<1>2. Near(s, m, t) \subseteq 1 .. m /\ Tardy(s, m, t) \subseteq 1 .. m
  BY DEF Near, Tardy
<1> QED
  BY <1>1, <1>2, FS_Subset, FS_CardinalityType

\* What holds of the first m is not changed by what is appended.
LEMMA SameStart ==
  ASSUME NEW s, NEW u, NEW m \in Nat, \A i \in 1 .. m : u[i] = s[i],
         NEW l, NEW limit
  PROVE  /\ Fair(s, m, limit) => Fair(u, m, limit)
         /\ Forgotten(s, m, l, limit) => Forgotten(u, m, l, limit)
<1>1. \A t : Near(u, m, t) = Near(s, m, t) /\ Tardy(u, m, t) = Tardy(s, m, t)
  BY DEF Near, Tardy
<1>2. \A t, windows : Within(s, m, t, limit, windows) => Within(u, m, t, limit, windows)
  BY <1>1 DEF Within
<1> QED
  BY <1>2 DEF Fair, Forgotten

LEMMA MoreTardy ==
  ASSUME NEW s \in Seq(Passed), NEW m \in 0 .. Len(s), NEW t \in Int
  PROVE  /\ Cardinality(Tardy(s, m, t)) <= Cardinality(Tardy(s, Len(s), t))
         /\ \A i \in m + 1 .. Len(s) : i \in Tardy(s, Len(s), t) =>
              Cardinality(Tardy(s, m, t)) + 1 <= Cardinality(Tardy(s, Len(s), t))
<1>1. m \in Nat /\ Len(s) \in Nat /\ m <= Len(s)
  OBVIOUS
<1>2. Tardy(s, m, t) \subseteq Tardy(s, Len(s), t)
  BY <1>1 DEF Tardy
<1>3. IsFiniteSet(Tardy(s, Len(s), t)) /\ IsFiniteSet(Tardy(s, m, t))
      /\ Cardinality(Tardy(s, m, t)) \in Nat
  BY <1>1, PlacesFinite
<1>4. Cardinality(Tardy(s, m, t)) <= Cardinality(Tardy(s, Len(s), t))
  BY <1>2, <1>3, FS_Subset
<1>5. ASSUME NEW i \in m + 1 .. Len(s), i \in Tardy(s, Len(s), t)
      PROVE  Cardinality(Tardy(s, m, t)) + 1 <= Cardinality(Tardy(s, Len(s), t))
  <2>1. i \notin Tardy(s, m, t)
    BY <1>1 DEF Tardy
  <2>2. Tardy(s, m, t) \union {i} \subseteq Tardy(s, Len(s), t)
    BY <1>2, <1>5
  <2>3. Cardinality(Tardy(s, m, t) \union {i}) = Cardinality(Tardy(s, m, t)) + 1
    BY <1>3, <2>1, FS_AddElement
  <2>4. Cardinality(Tardy(s, m, t) \union {i}) <= Cardinality(Tardy(s, Len(s), t))
    BY <1>3, <2>2, FS_Subset
  <2> QED
    BY <2>3, <2>4
<1> QED
  BY <1>4, <1>5

\* The requests after the first m add at most their number, and nothing to a
\* minute that none of them is in.
LEMMA MoreNear ==
  ASSUME NEW s \in Seq(Passed), NEW m \in 0 .. Len(s), NEW t \in Int
  PROVE  /\ Cardinality(Near(s, Len(s), t)) <= Cardinality(Near(s, m, t)) + (Len(s) - m)
         /\ Near(s, Len(s), t) \intersect (m + 1 .. Len(s)) = {} =>
              Cardinality(Near(s, Len(s), t)) = Cardinality(Near(s, m, t))
<1>1. m \in Nat /\ Len(s) \in Nat /\ m <= Len(s)
  OBVIOUS
<1>2. Near(s, Len(s), t) \subseteq Near(s, m, t) \union (m + 1 .. Len(s))
  BY <1>1 DEF Near
<1>3. /\ IsFiniteSet(Near(s, m, t)) /\ Cardinality(Near(s, m, t)) \in Nat
      /\ IsFiniteSet(Near(s, Len(s), t)) /\ Cardinality(Near(s, Len(s), t)) \in Nat
  BY <1>1, PlacesFinite
<1>4. IsFiniteSet(m + 1 .. Len(s)) /\ Cardinality(m + 1 .. Len(s)) = Len(s) - m
  <2>1. m + 1 \in Int /\ Len(s) \in Int
    BY <1>1
  <2>2. /\ IsFiniteSet(m + 1 .. Len(s))
        /\ Cardinality(m + 1 .. Len(s)) = IF m + 1 > Len(s) THEN 0 ELSE Len(s) - (m + 1) + 1
    BY <2>1, FS_Interval
  <2> QED
    BY <1>1, <2>2
<1>5. /\ IsFiniteSet(Near(s, m, t) \union (m + 1 .. Len(s)))
      /\ Cardinality(Near(s, m, t) \union (m + 1 .. Len(s))) <= Cardinality(Near(s, m, t)) + (Len(s) - m)
  <2>1. Near(s, m, t) \intersect (m + 1 .. Len(s)) = {}
    BY <1>1 DEF Near
  <2>2. Cardinality(Near(s, m, t) \intersect (m + 1 .. Len(s))) = 0
    BY <2>1, FS_EmptySet
  <2> DEFINE A == Near(s, m, t)
             B == m + 1 .. Len(s)
  <2>3. IsFiniteSet(A) /\ IsFiniteSet(B) /\ Cardinality(A \intersect B) = 0
    BY <1>3, <1>4, <2>2
  <2>4. Cardinality(A) \in Nat /\ Cardinality(B) = Len(s) - m
    BY <1>3, <1>4
  <2> HIDE DEF A, B
  <2>5. /\ IsFiniteSet(A \union B)
        /\ Cardinality(A \union B) = Cardinality(A) + Cardinality(B) - Cardinality(A \intersect B)
    BY <2>3, FS_Union
  <2>6. Cardinality(A \union B) <= Cardinality(A) + (Len(s) - m)
    BY <1>1, <2>3, <2>4, <2>5
  <2> QED
    BY <2>5, <2>6 DEF A, B
<1>6. Cardinality(Near(s, Len(s), t)) <= Cardinality(Near(s, m, t) \union (m + 1 .. Len(s)))
  BY <1>2, <1>5, FS_Subset
<1>7. Cardinality(Near(s, m, t) \union (m + 1 .. Len(s))) \in Nat
  BY <1>5, FS_CardinalityType
<1>8. ASSUME Near(s, Len(s), t) \intersect (m + 1 .. Len(s)) = {}
      PROVE  Near(s, Len(s), t) = Near(s, m, t)
  <2>1. Near(s, m, t) \subseteq Near(s, Len(s), t)
    BY <1>1 DEF Near
  <2>2. \A i \in Near(s, m, t) \union (m + 1 .. Len(s)) : i \in Near(s, Len(s), t) => i \in Near(s, m, t)
    BY <1>8
  <2> QED
    BY <1>2, <2>1, <2>2
<1> QED
  BY <1>1, <1>3, <1>5, <1>6, <1>7, <1>8

-----------------------------------------------------------------------------
\* How one key goes from forgotten to counted and back.

\* A minute a window has a request in: the window brings a late request of its
\* own, or it was opened in time and the minute goes on after that.
LEMMA WindowAdds ==
  ASSUME NEW s \in Seq(Passed), NEW m \in 0 .. Len(s), NEW w \in Nat, NEW b \in Nat,
         Opened(s, m, w, b), NEW t \in Int,
         NEW x \in m + 1 .. Len(s), x \in Near(s, Len(s), t)
  PROVE  \/ Cardinality(Tardy(s, m, t)) + 1 <= Cardinality(Tardy(s, Len(s), t))
         \/ b <= w /\ t > w - Minute
<1> USE RateAssumption
<1>1. m \in Nat /\ Len(s) \in Nat /\ m < Len(s) /\ m + 1 \in m + 1 .. Len(s)
  OBVIOUS
<1>2. \A i \in m + 1 .. Len(s) : i \in 1 .. Len(s) /\ s[i] \in Passed
  BY <1>1
<1>3. s[x].now \in Nat /\ s[x].now >= t /\ s[x].now < t + Minute /\ s[x].now < w + Minute
      /\ (s[x].now < w => s[x].late)
  BY <1>2 DEF Near, Opened, Passed
<1>4. CASE s[x].late
  <2>1. x \in Tardy(s, Len(s), t)
    BY <1>2, <1>3, <1>4 DEF Tardy
  <2> QED
    BY <2>1, MoreTardy
<1>5. CASE ~s[x].late /\ b <= w
  BY <1>3, <1>5
<1>6. CASE ~s[x].late /\ ~(b <= w)
  <2>1. s[m + 1].late /\ s[m + 1].now = w
    BY <1>1, <1>6 DEF Opened
  <2>2. w > t - Minute /\ w < t + Minute
    BY <1>3, <1>6
  <2>3. m + 1 \in Tardy(s, Len(s), t)
    BY <1>1, <1>2, <2>1, <2>2 DEF Tardy
  <2> QED
    BY <1>1, <2>3, MoreTardy
<1> QED
  BY <1>4, <1>5, <1>6

LEMMA CountedIsFair ==
  ASSUME NEW s \in Seq(Passed), NEW w \in Nat, NEW n \in Nat, NEW l \in Nat, NEW limit \in Nat,
         Counted(s, w, n, l, limit)
  PROVE  Fair(s, Len(s), limit)
<1>1. PICK m \in 0 .. Len(s), b \in 0 .. l :
        /\ Len(s) = m + (IF n <= limit THEN n ELSE limit)
        /\ Fair(s, m, limit) /\ Forgotten(s, m, b, limit) /\ Opened(s, m, w, b)
  BY DEF Counted
<1>2. /\ m \in Nat /\ b \in Nat /\ Len(s) \in Nat /\ Len(s) - m \in Nat /\ Len(s) - m <= limit
      /\ Opened(s, m, w, b)
  BY <1>1
<1> SUFFICES ASSUME NEW t \in Int PROVE Within(s, Len(s), t, limit, 2)
  BY DEF Fair
<1> DEFINE near == Cardinality(Near(s, Len(s), t))
           before == Cardinality(Near(s, m, t))
           late == Cardinality(Tardy(s, Len(s), t))
           lateBefore == Cardinality(Tardy(s, m, t))
           added == Len(s) - m
<1>3. /\ near \in Nat /\ before \in Nat /\ late \in Nat /\ lateBefore \in Nat
      /\ added \in Nat /\ added <= limit
  BY <1>2, PlacesFinite
<1>4. near <= before + added /\ lateBefore <= late
  BY MoreNear, MoreTardy
<1>5. before <= limit * (2 + lateBefore)
  BY <1>1 DEF Fair, Within
<1>6. CASE Near(s, Len(s), t) \intersect (m + 1 .. Len(s)) = {}
  <2>1. near = before
    BY <1>6, MoreNear
  <2> HIDE DEF near, before, late, lateBefore
  <2>2. 2 + lateBefore \in Nat /\ 2 + late \in Nat /\ 2 + lateBefore <= 2 + late
    BY <1>3, <1>4
  <2>3. near <= limit * (2 + late)
    BY <1>3, <1>5, <2>1, <2>2, MoreWindows
  <2> QED
    BY <2>3 DEF near, late, Within
<1>7. CASE lateBefore + 1 <= late
  <2> HIDE DEF near, before, late, lateBefore, added
  <2>3. 2 + lateBefore \in Nat /\ 2 + late \in Nat /\ (2 + lateBefore) + 1 <= 2 + late
    BY <1>3, <1>7
  <2>4. near <= limit * (2 + late)
    BY <1>2, <1>3, <1>4, <1>5, <2>3, OneWindowMore
  <2> QED
    BY <2>4 DEF near, late, Within
<1>8. CASE b <= w /\ t > w - Minute
  <2>1. t > b - Minute
    BY <1>2, <1>8, RateAssumption
  <2>2. before <= limit * (1 + lateBefore)
    BY <1>1, <2>1 DEF Forgotten, Within
  <2> HIDE DEF near, before, late, lateBefore, added
  <2>3. 1 + lateBefore \in Nat /\ 2 + late \in Nat /\ (1 + lateBefore) + 1 <= 2 + late
    BY <1>3, <1>4
  <2>4. near <= limit * (2 + late)
    BY <1>2, <1>3, <1>4, <2>2, <2>3, OneWindowMore
  <2> QED
    BY <2>4 DEF near, late, Within
<1> QED
  <2>1. ASSUME Near(s, Len(s), t) \intersect (m + 1 .. Len(s)) # {}
        PROVE  lateBefore + 1 <= late \/ (b <= w /\ t > w - Minute)
    <3>1. PICK x \in m + 1 .. Len(s) : x \in Near(s, Len(s), t)
      BY <2>1
    <3>2. m \in 0 .. Len(s) /\ b \in Nat /\ Opened(s, m, w, b)
      BY <1>2
    <3> QED
      BY <3>1, <3>2, WindowAdds
  <2> QED
    BY <1>6, <1>7, <1>8, <2>1

\* A window a minute old: its key may be forgotten, or get a new one.
LEMMA WindowEnds ==
  ASSUME NEW s \in Seq(Passed), NEW w \in Nat, NEW n \in Nat, NEW l \in Nat, NEW limit \in Nat,
         NEW h \in Nat, Counted(s, w, n, l, limit), l <= h, h - w >= Minute
  PROVE  Forgotten(s, Len(s), h, limit)
<1> USE RateAssumption
<1>1. PICK m \in 0 .. Len(s), b \in 0 .. l :
        /\ Len(s) = m + (IF n <= limit THEN n ELSE limit)
        /\ Fair(s, m, limit) /\ Forgotten(s, m, b, limit) /\ Opened(s, m, w, b)
  BY DEF Counted
<1>2. /\ m \in Nat /\ b \in Nat /\ Len(s) \in Nat /\ Len(s) - m \in Nat /\ Len(s) - m <= limit
      /\ b <= h /\ Opened(s, m, w, b)
  BY <1>1
<1>9. ASSUME NEW i \in 1 .. Len(s) PROVE s[i].now <= h
  <2>0. s[i] \in Passed
    OBVIOUS
  <2>1. s[i].now \in Nat
    BY <2>0 DEF Passed
  <2>2. CASE i \in 1 .. m
    <3>1. s[i].now <= b
      BY <1>1, <2>2 DEF Forgotten
    <3> QED
      BY <1>2, <2>1, <3>1
  <2>3. CASE i \in m + 1 .. Len(s)
    BY <1>1, <2>1, <2>3 DEF Opened
  <2>4. i \in 1 .. m \/ i \in m + 1 .. Len(s)
    BY <1>2
  <2> QED
    BY <2>2, <2>3, <2>4
<1> SUFFICES ASSUME NEW t \in Int, t > h - Minute PROVE Within(s, Len(s), t, limit, 1)
  BY <1>9 DEF Forgotten
<1> DEFINE near == Cardinality(Near(s, Len(s), t))
           before == Cardinality(Near(s, m, t))
           late == Cardinality(Tardy(s, Len(s), t))
           lateBefore == Cardinality(Tardy(s, m, t))
           added == Len(s) - m
<1>3. /\ near \in Nat /\ before \in Nat /\ late \in Nat /\ lateBefore \in Nat
      /\ added \in Nat /\ added <= limit
  BY <1>2, PlacesFinite
<1>4. near <= before + added /\ lateBefore <= late
  BY MoreNear, MoreTardy
<1>5. before <= limit * (1 + lateBefore)
  <2>1. t > b - Minute
    BY <1>2
  <2> QED
    BY <1>1, <2>1 DEF Forgotten, Within
<1>6. CASE Near(s, Len(s), t) \intersect (m + 1 .. Len(s)) = {}
  <2>1. near = before
    BY <1>6, MoreNear
  <2> HIDE DEF near, before, late, lateBefore
  <2>2. 1 + lateBefore \in Nat /\ 1 + late \in Nat /\ 1 + lateBefore <= 1 + late
    BY <1>3, <1>4
  <2>3. near <= limit * (1 + late)
    BY <1>3, <1>5, <2>1, <2>2, MoreWindows
  <2> QED
    BY <2>3 DEF near, late, Within
<1>7. CASE lateBefore + 1 <= late
  <2> HIDE DEF near, before, late, lateBefore, added
  <2>3. 1 + lateBefore \in Nat /\ 1 + late \in Nat /\ (1 + lateBefore) + 1 <= 1 + late
    BY <1>3, <1>7
  <2>4. near <= limit * (1 + late)
    BY <1>2, <1>3, <1>4, <1>5, <2>3, OneWindowMore
  <2> QED
    BY <2>4 DEF near, late, Within
\* The minute begins after all there was before the window.
<1>8. CASE b <= w
  <2>1. Near(s, m, t) = {}
    <3>1. \A i \in 1 .. m : s[i] \in Passed
      BY <1>2
    <3>2. \A i \in 1 .. m : s[i].now <= b /\ s[i].now \in Nat
      BY <1>1, <3>1 DEF Forgotten, Passed
    <3>3. t > b
      BY <1>2, <1>8
    <3>4. \A i \in 1 .. m : ~(s[i].now >= t)
      BY <1>2, <3>2, <3>3
    <3> QED
      BY <3>4 DEF Near
  <2>2. before = 0
    BY <2>1, FS_EmptySet
  <2> HIDE DEF near, before, late, lateBefore, added
  <2>3. near <= limit
    BY <1>3, <1>4, <2>2
  <2>4. 1 \in Nat /\ 1 + late \in Nat /\ 1 <= 1 + late /\ near <= limit * 1
    BY <1>3, <2>3
  <2>5. near <= limit * (1 + late)
    BY <1>3, <2>4, MoreWindows
  <2> QED
    BY <2>5 DEF near, late, Within
<1> QED
  <2>1. ASSUME Near(s, Len(s), t) \intersect (m + 1 .. Len(s)) # {}
        PROVE  lateBefore + 1 <= late \/ b <= w
    <3>1. PICK x \in m + 1 .. Len(s) : x \in Near(s, Len(s), t)
      BY <2>1
    <3> QED
      BY <1>2, <3>1, WindowAdds
  <2> QED
    BY <1>6, <1>7, <1>8, <2>1

\* A later request may come in.
LEMMA LaterLatest ==
  ASSUME NEW s, NEW limit, NEW m, NEW l \in Nat, NEW h \in Nat, l <= h
  PROVE  /\ Forgotten(s, m, l, limit) /\ (\A i \in 1 .. m : s[i].now \in Nat)
              => Forgotten(s, m, h, limit)
         /\ \A w, n : Counted(s, w, n, l, limit) => Counted(s, w, n, h, limit)
<1> USE RateAssumption
<1>1. 0 .. l \subseteq 0 .. h
  OBVIOUS
<1>2. ASSUME NEW w, NEW n, Counted(s, w, n, l, limit) PROVE Counted(s, w, n, h, limit)
  BY <1>1, <1>2 DEF Counted
<1>3. ASSUME Forgotten(s, m, l, limit), \A i \in 1 .. m : s[i].now \in Nat
      PROVE  Forgotten(s, m, h, limit)
  <2>1. \A i \in 1 .. m : s[i].now <= h
    BY <1>3 DEF Forgotten
  <2>2. \A t \in Int : t > h - Minute => t > l - Minute
    OBVIOUS
  <2> QED
    BY <1>3, <2>1, <2>2 DEF Forgotten
<1> QED
  BY <1>2, <1>3

LEMMA PassedFacts ==
  ASSUME NEW s \in Seq(Passed), NEW e \in Passed
  PROVE  /\ Append(s, e) \in Seq(Passed) /\ Len(s) \in Nat
         /\ Len(Append(s, e)) = Len(s) + 1 /\ Append(s, e)[Len(s) + 1] = e
         /\ \A i \in 1 .. Len(s) : Append(s, e)[i] = s[i] /\ s[i] \in Passed /\ s[i].now \in Nat
<1>1. \A i \in 1 .. Len(s) : s[i] \in Passed
  OBVIOUS
<1>2. \A i \in 1 .. Len(s) : s[i].now \in Nat
  BY <1>1 DEF Passed
<1>3. /\ Append(s, e) \in Seq(Passed) /\ Len(s) \in Nat
      /\ Len(Append(s, e)) = Len(s) + 1 /\ Append(s, e)[Len(s) + 1] = e
      /\ \A i \in 1 .. Len(s) : Append(s, e)[i] = s[i]
  OBVIOUS
<1> QED
  BY <1>1, <1>2, <1>3

\* The first request of a window, in time or late.
LEMMA WindowOpens ==
  ASSUME NEW s \in Seq(Passed), NEW x \in Nat, NEW c \in Nat, NEW l \in Nat, NEW h \in Nat,
         NEW limit \in Nat, NEW late \in BOOLEAN,
         x <= c, x <= h, h > x => late, Fair(s, Len(s), limit), Forgotten(s, Len(s), h, limit)
  PROVE  /\ 1 <= limit => Counted(Append(s, [now |-> x, at |-> c, late |-> late]), x, 1, h, limit)
         /\ ~(1 <= limit) => Counted(s, x, 1, h, limit)
<1> USE RateAssumption
<1> DEFINE e == [now |-> x, at |-> c, late |-> late]
           u == Append(s, e)
<1>1. e \in Passed /\ e.now = x /\ e.at = c /\ e.late = late
  BY DEF Passed
<1> HIDE DEF e
<1>2. /\ u \in Seq(Passed) /\ Len(s) \in Nat /\ Len(u) = Len(s) + 1 /\ u[Len(s) + 1] = e
      /\ \A i \in 1 .. Len(s) : u[i] = s[i]
  BY <1>1, PassedFacts
<1> HIDE DEF u
<1>3. Len(s) \in 0 .. Len(u) /\ Len(s) \in 0 .. Len(s) /\ h \in 0 .. h /\ x \in 0 .. h
  BY <1>2
<1>4. CASE 1 <= limit
  <2>1. Fair(u, Len(s), limit) /\ Forgotten(u, Len(s), h, limit)
    BY <1>2, SameStart
  <2>2. \A i \in Len(s) + 1 .. Len(u) : i = Len(s) + 1
    BY <1>2
  <2>3. Opened(u, Len(s), x, h)
    BY <1>1, <1>2, <2>2 DEF Opened
  <2>4. 1 \in 1 .. limit + 1 /\ Len(u) = Len(s) + (IF 1 <= limit THEN 1 ELSE limit)
    BY <1>2, <1>4
  <2>5. Counted(u, x, 1, h, limit)
    BY <1>3, <2>1, <2>3, <2>4 DEF Counted
  <2> QED
    BY <1>4, <2>5 DEF u, e
<1>5. CASE ~(1 <= limit)
  <2>1. 1 \in 1 .. limit + 1 /\ Len(s) = Len(s) + (IF 1 <= limit THEN 1 ELSE limit)
    BY <1>2, <1>5
  <2>2. Opened(s, Len(s), x, h)
    BY <1>2 DEF Opened
  <2> QED
    BY <1>3, <1>5, <2>1, <2>2 DEF Counted
<1> QED
  BY <1>4, <1>5

\* A later request of the window: let through and counted, or refused.
LEMMA WindowCounts ==
  ASSUME NEW s \in Seq(Passed), NEW x \in Nat, NEW c \in Nat, NEW l \in Nat, NEW h \in Nat,
         NEW limit \in Nat, NEW late \in BOOLEAN, NEW w \in Nat, NEW n \in Nat,
         Counted(s, w, n, l, limit), x - w < Minute, x < l => late, l <= c, l <= h
  PROVE  /\ n + 1 <= limit =>
              Counted(Append(s, [now |-> x, at |-> c, late |-> late]), w, n + 1, h, limit)
         /\ n = limit => Counted(s, w, n + 1, h, limit)
         /\ n > limit => Counted(s, w, n, h, limit)
<1> USE RateAssumption
<1> DEFINE e == [now |-> x, at |-> c, late |-> late]
           u == Append(s, e)
<1>1. e \in Passed /\ e.now = x /\ e.at = c /\ e.late = late
  BY DEF Passed
<1> HIDE DEF e
<1>2. /\ u \in Seq(Passed) /\ Len(s) \in Nat /\ Len(u) = Len(s) + 1 /\ u[Len(s) + 1] = e
      /\ \A i \in 1 .. Len(s) : u[i] = s[i]
  BY <1>1, PassedFacts
<1> HIDE DEF u
<1>3. w \in 0 .. l /\ n \in 1 .. limit + 1
  BY DEF Counted
<1>4. PICK m \in 0 .. Len(s), b \in 0 .. l :
        /\ Len(s) = m + (IF n <= limit THEN n ELSE limit)
        /\ Fair(s, m, limit) /\ Forgotten(s, m, b, limit) /\ Opened(s, m, w, b)
  BY DEF Counted
<1>5. m \in Nat /\ b \in 0 .. h /\ m \in 0 .. Len(u) /\ w \in 0 .. h
  BY <1>2, <1>3, <1>4
<1>6. ASSUME n + 1 <= limit PROVE Counted(u, w, n + 1, h, limit)
  <2>9. m <= Len(s)
    BY <1>2, <1>4
  <2>1. \A i \in 1 .. m : u[i] = s[i]
    <3>1. \A i \in 1 .. m : i \in 1 .. Len(s)
      BY <1>2, <1>5, <2>9
    <3> QED
      BY <1>2, <3>1
  <2>2. Fair(u, m, limit) /\ Forgotten(u, m, b, limit)
    BY <1>4, <1>5, <2>1, SameStart
  <2>8. Len(s) = m + n /\ n >= 1
    BY <1>3, <1>4, <1>6
  <2>3. m + 1 \in 1 .. Len(s) /\ m < Len(s) /\ u[m + 1] = s[m + 1]
    BY <1>2, <1>5, <2>8
  <2>4. ASSUME NEW i \in m + 1 .. Len(u)
        PROVE  /\ u[i].now < w + Minute /\ u[i].at >= w
               /\ u[i].now < w => u[i].late
    <3>1. CASE i = Len(s) + 1
      <4>1. u[i].now = x /\ u[i].at = c /\ u[i].late = late
        BY <1>1, <1>2, <3>1
      <4>2. w \in Nat /\ w <= l /\ Minute \in Nat
        BY <1>3
      <4>3. x < w + Minute /\ c >= w /\ (x < w => late)
        BY <4>2
      <4> QED
        BY <4>1, <4>3
    <3>2. CASE i \in m + 1 .. Len(s)
      <4>2. i \in 1 .. Len(s)
        BY <1>2, <1>5, <3>2
      <4>1. u[i] = s[i]
        BY <1>2, <4>2
      <4> QED
        BY <1>4, <3>2, <4>1 DEF Opened
    <3> QED
      BY <1>2, <1>5, <3>1, <3>2
  <2>5. b > w => u[m + 1].late /\ u[m + 1].now = w
    BY <1>4, <2>3 DEF Opened
  <2>6. Opened(u, m, w, b)
    BY <2>4, <2>5 DEF Opened
  <2>7. /\ n + 1 \in 1 .. limit + 1
        /\ Len(u) = m + (IF n + 1 <= limit THEN n + 1 ELSE limit)
    BY <1>2, <1>3, <1>4, <1>5, <1>6
  <2> QED
    BY <1>5, <2>2, <2>6, <2>7 DEF Counted
<1>7. ASSUME n = limit PROVE Counted(s, w, n + 1, h, limit)
  <2>1. n + 1 \in 1 .. limit + 1 /\ Len(s) = m + (IF n + 1 <= limit THEN n + 1 ELSE limit)
    BY <1>3, <1>4, <1>7
  <2> QED
    BY <1>4, <1>5, <2>1 DEF Counted
<1>8. ASSUME n > limit PROVE Counted(s, w, n, h, limit)
  BY <1>3, <1>4, <1>5 DEF Counted
<1> QED
  BY <1>6, <1>7, <1>8 DEF u, e

-----------------------------------------------------------------------------
\* The table.

\* What a sweep leaves is an entry of the table; what it takes is a minute old.
LEMMA SweepFacts ==
  ASSUME RateInv, NEW x \in Nat
  PROVE  /\ Swept(x) = [c \in DOMAIN Swept(x) |-> rate[c]]
         /\ DOMAIN Swept(x) \subseteq DOMAIN rate
         /\ \A c \in DOMAIN Swept(x) : Swept(x)[c] = rate[c]
         /\ \A c \in DOMAIN rate : c \notin DOMAIN Swept(x) => Elapsed(rate[c], x)
         /\ IsFiniteSet(DOMAIN Swept(x))
         /\ Cardinality(DOMAIN Swept(x)) \in Nat
         /\ Cardinality(DOMAIN Swept(x)) <= Capacity
         /\ Cardinality(DOMAIN rate) > SweepAbove =>
              DOMAIN Swept(x) = {c \in DOMAIN rate : ~Elapsed(rate[c], x)}
<1> USE RateAssumption
<1>1. /\ Swept(x) = [c \in DOMAIN Swept(x) |-> rate[c]]
      /\ DOMAIN Swept(x) \subseteq DOMAIN rate
      /\ \A c \in DOMAIN rate : c \notin DOMAIN Swept(x) => Elapsed(rate[c], x)
      /\ Cardinality(DOMAIN rate) > SweepAbove =>
              DOMAIN Swept(x) = {c \in DOMAIN rate : ~Elapsed(rate[c], x)}
  <2>0. rate = [c \in DOMAIN rate |-> rate[c]]
    BY DEF RateInv
  <2>1. CASE Cardinality(DOMAIN rate) > SweepAbove
    <3>1. Swept(x) = [c \in {d \in DOMAIN rate : ~Elapsed(rate[d], x)} |-> rate[c]]
      BY <2>1 DEF Swept
    <3> QED
      BY <3>1
  <2>2. CASE ~(Cardinality(DOMAIN rate) > SweepAbove)
    <3>1. Swept(x) = rate
      BY <2>2 DEF Swept
    <3> QED
      BY <3>1, <2>0, <2>2
  <2> QED
    BY <2>1, <2>2
<1>2. IsFiniteSet(DOMAIN rate) /\ Cardinality(DOMAIN rate) <= Capacity
  BY DEF RateInv
<1>3. /\ IsFiniteSet(DOMAIN Swept(x)) /\ Cardinality(DOMAIN Swept(x)) <= Cardinality(DOMAIN rate)
  BY <1>1, <1>2, FS_Subset
<1>4. Cardinality(DOMAIN Swept(x)) \in Nat /\ Cardinality(DOMAIN rate) \in Nat
  BY <1>2, <1>3, FS_CardinalityType
<1>5. Cardinality(DOMAIN Swept(x)) <= Capacity
  BY <1>2, <1>3, <1>4
<1>6. \A c \in DOMAIN Swept(x) : Swept(x)[c] = rate[c]
  BY <1>1
<1> QED
  BY <1>1, <1>3, <1>4, <1>5, <1>6

\* The invariant of one key, in parts.
LEMMA KeyFacts ==
  ASSUME RateInv, NEW k \in Keys
  PROVE  /\ admitted[k] \in Seq(Passed) /\ Len(admitted[k]) \in Nat /\ Limit[k] \in Nat
         /\ clock \in Nat /\ latest \in Nat /\ latest <= clock
         /\ \A i \in 1 .. Len(admitted[k]) : admitted[k][i].now \in Nat
         /\ Fair(admitted[k], Len(admitted[k]), Limit[k])
         /\ k \notin DOMAIN rate =>
              Forgotten(admitted[k], Len(admitted[k]), latest, Limit[k])
         /\ k \in DOMAIN rate =>
              /\ rate[k].started \in Nat /\ rate[k].count \in Nat
              /\ rate[k] \in [started : Nat, count : Nat]
              /\ Counted(admitted[k], rate[k].started, rate[k].count, latest, Limit[k])
<1>1. /\ admitted[k] \in Seq(Passed) /\ Limit[k] \in Nat
      /\ clock \in Nat /\ latest \in Nat /\ latest <= clock /\ KeyInv(k)
  BY RateAssumption DEF RateInv
<1>2. Len(admitted[k]) \in Nat /\ \A i \in 1 .. Len(admitted[k]) : admitted[k][i] \in Passed
  BY <1>1
<1>3. \A i \in 1 .. Len(admitted[k]) : admitted[k][i].now \in Nat
  BY <1>2 DEF Passed
<1>4. CASE k \in DOMAIN rate
  <2>1. rate[k] \in [started : Nat, count : Nat]
    BY <1>4 DEF RateInv
  <2>2. Counted(admitted[k], rate[k].started, rate[k].count, latest, Limit[k])
    BY <1>1, <1>4 DEF KeyInv
  <2>3. Fair(admitted[k], Len(admitted[k]), Limit[k])
    BY <1>1, <2>1, <2>2, CountedIsFair
  <2> QED
    BY <1>1, <1>2, <1>3, <1>4, <2>1, <2>2, <2>3
<1>5. CASE k \notin DOMAIN rate
  BY <1>1, <1>2, <1>3, <1>5 DEF KeyInv
<1> QED
  BY <1>4, <1>5

\* Whatever the sweep took, or is over, may be forgotten once x came in.
LEMMA SweptKey ==
  ASSUME RateInv, NEW k \in Keys, NEW x \in Nat, NEW h \in Nat, latest <= h, x <= h,
         k \in DOMAIN Swept(x) => Elapsed(Swept(x)[k], x)
  PROVE  Forgotten(admitted[k], Len(admitted[k]), h, Limit[k])
<1> USE RateAssumption
<1>1. /\ admitted[k] \in Seq(Passed) /\ Len(admitted[k]) \in Nat /\ Limit[k] \in Nat /\ latest \in Nat
      /\ \A i \in 1 .. Len(admitted[k]) : admitted[k][i].now \in Nat
  BY KeyFacts
<1>2. CASE k \notin DOMAIN rate
  <2>1. Forgotten(admitted[k], Len(admitted[k]), latest, Limit[k])
    BY <1>2, KeyFacts
  <2> QED
    BY <1>1, <2>1, LaterLatest
<1>3. CASE k \in DOMAIN rate
  <2>1. Elapsed(rate[k], x)
    <3>1. k \in DOMAIN Swept(x) => Swept(x)[k] = rate[k]
      BY SweepFacts
    <3>2. k \notin DOMAIN Swept(x) => Elapsed(rate[k], x)
      BY <1>3, SweepFacts
    <3> QED
      BY <3>1, <3>2
  <2>2. /\ rate[k].started \in Nat /\ rate[k].count \in Nat
        /\ Counted(admitted[k], rate[k].started, rate[k].count, latest, Limit[k])
    BY <1>3, KeyFacts
  <2>3. h - rate[k].started >= Minute
    BY <2>1, <2>2 DEF Elapsed
  <2> QED
    BY <1>1, <2>2, <2>3, WindowEnds
<1> QED
  BY <1>2, <1>3

\* The window of the request, and what is let through, of the key that asks.
LEMMA AskingKey ==
  ASSUME RateInv, NEW k \in Keys, NEW x \in 0 .. clock, ~RefusesNew(k, x), NEW h \in Nat,
         h = IF Late(x) THEN latest ELSE x
  PROVE  LET s == IF Allowed(k, x)
                  THEN Append(admitted[k], [now |-> x, at |-> clock, late |-> Late(x)])
                  ELSE admitted[k]
         IN  /\ s \in Seq(Passed)
             /\ Window(k, x) \in [started : Nat, count : Nat]
             /\ Counted(s, Window(k, x).started, Window(k, x).count, h, Limit[k])
<1> USE RateAssumption
<1> DEFINE e == [now |-> x, at |-> clock, late |-> Late(x)]
<1>1. /\ admitted[k] \in Seq(Passed) /\ clock \in Nat /\ latest \in Nat /\ latest <= clock
      /\ Limit[k] \in Nat /\ Fair(admitted[k], Len(admitted[k]), Limit[k])
  BY KeyFacts
<1>2. x \in Nat /\ x <= clock /\ Late(x) \in BOOLEAN /\ latest <= h /\ x <= h
      /\ (h > x => Late(x)) /\ (x < latest => Late(x))
  BY <1>1 DEF Late
<1>3. e \in Passed
  BY <1>1, <1>2 DEF Passed
<1>4. Append(admitted[k], e) \in Seq(Passed)
  BY <1>1, <1>3, PassedFacts
<1>5. Allowed(k, x) <=> Window(k, x).count <= Limit[k]
  BY DEF Allowed
<1>6. CASE k \notin DOMAIN Swept(x) \/ Elapsed(Swept(x)[k], x)
  <2>1. Window(k, x) = [started |-> x, count |-> 1]
    BY <1>6 DEF Window
  <2>2. Forgotten(admitted[k], Len(admitted[k]), h, Limit[k])
    BY <1>2, <1>6, SweptKey
  <2>3. /\ 1 <= Limit[k] => Counted(Append(admitted[k], e), x, 1, h, Limit[k])
        /\ ~(1 <= Limit[k]) => Counted(admitted[k], x, 1, h, Limit[k])
    BY <1>1, <1>2, <2>2, WindowOpens
  <2>4. /\ Window(k, x).started = x /\ Window(k, x).count = 1
        /\ Window(k, x) \in [started : Nat, count : Nat]
    BY <2>1, <1>2
  <2> HIDE DEF e
  <2>5. CASE 1 <= Limit[k]
    <3>1. Allowed(k, x)
      BY <1>5, <2>4, <2>5
    <3>2. Counted(Append(admitted[k], e), x, 1, h, Limit[k])
      BY <2>3, <2>5
    <3> QED
      BY <1>4, <2>4, <3>1, <3>2 DEF e
  <2>6. CASE ~(1 <= Limit[k])
    <3>1. ~Allowed(k, x)
      BY <1>5, <2>4, <2>6
    <3>2. Counted(admitted[k], x, 1, h, Limit[k]) /\ admitted[k] \in Seq(Passed)
      BY <1>1, <2>3, <2>6
    <3> QED
      BY <2>4, <3>1, <3>2
  <2> QED
    BY <2>5, <2>6
<1>7. CASE ~(k \notin DOMAIN Swept(x) \/ Elapsed(Swept(x)[k], x))
  <2>1. k \in DOMAIN rate /\ Swept(x)[k] = rate[k]
    BY <1>2, <1>7, SweepFacts
  <2>2. /\ rate[k] \in [started : Nat, count : Nat]
        /\ Counted(admitted[k], rate[k].started, rate[k].count, latest, Limit[k])
    BY <2>1, KeyFacts
  <2>3. PICK w \in Nat, n \in Nat : rate[k] = [started |-> w, count |-> n]
    BY <2>2
  <2>4. Window(k, x) = [started |-> w, count |-> IF n > Limit[k] THEN n ELSE n + 1]
    <3>1. Window(k, x) = [rate[k] EXCEPT !.count = IF @ > Limit[k] THEN @ ELSE @ + 1]
      BY <1>7, <2>1 DEF Window
    <3> QED
      BY <3>1, <2>3
  <2>5. Counted(admitted[k], w, n, latest, Limit[k]) /\ x - w < Minute
    <3>1. ~(x - w >= Minute)
      BY <1>7, <2>1, <2>3 DEF Elapsed
    <3> QED
      BY <1>2, <2>2, <2>3, <3>1
  <2>6. n \in 1 .. Limit[k] + 1
    BY <2>5 DEF Counted
  <2>7. /\ n + 1 <= Limit[k] => Counted(Append(admitted[k], e), w, n + 1, h, Limit[k])
        /\ n = Limit[k] => Counted(admitted[k], w, n + 1, h, Limit[k])
        /\ n > Limit[k] => Counted(admitted[k], w, n, h, Limit[k])
    BY <1>1, <1>2, <2>5, WindowCounts
  <2> HIDE DEF e
  <2>8. CASE n + 1 <= Limit[k]
    <3>1. Window(k, x).started = w /\ Window(k, x).count = n + 1 /\ Allowed(k, x)
      BY <1>1, <1>5, <2>4, <2>8
    <3>2. Window(k, x) \in [started : Nat, count : Nat]
      BY <1>1, <2>4, <2>8
    <3>3. Counted(Append(admitted[k], e), w, n + 1, h, Limit[k])
      BY <2>7, <2>8
    <3> QED
      BY <1>4, <3>1, <3>2, <3>3 DEF e
  <2>9. CASE n = Limit[k]
    <3>1. Window(k, x).started = w /\ Window(k, x).count = n + 1 /\ ~Allowed(k, x)
      BY <1>1, <1>5, <2>4, <2>9
    <3>2. Window(k, x) \in [started : Nat, count : Nat]
      BY <1>1, <2>4, <2>9
    <3>3. Counted(admitted[k], w, n + 1, h, Limit[k])
      BY <2>7, <2>9
    <3> QED
      BY <1>1, <3>1, <3>2, <3>3
  <2>10. CASE n > Limit[k]
    <3>1. Window(k, x).started = w /\ Window(k, x).count = n /\ ~Allowed(k, x)
      BY <1>1, <1>5, <2>4, <2>10
    <3>2. Window(k, x) \in [started : Nat, count : Nat]
      BY <1>1, <2>4, <2>10
    <3>3. Counted(admitted[k], w, n, h, Limit[k])
      BY <2>7, <2>10
    <3> QED
      BY <1>1, <3>1, <3>2, <3>3
  <2> QED
    BY <1>1, <2>6, <2>8, <2>9, <2>10
<1> QED
  BY <1>6, <1>7

\* A key the sweep took, or that had no entry, is forgotten; any other keeps
\* its window.
LEMMA OtherKey ==
  ASSUME RateInv, NEW c \in Keys, NEW x \in Nat, NEW h \in Nat, latest <= h, x <= h
  PROVE  /\ Fair(admitted[c], Len(admitted[c]), Limit[c])
         /\ c \notin DOMAIN Swept(x) => Forgotten(admitted[c], Len(admitted[c]), h, Limit[c])
         /\ c \in DOMAIN Swept(x) =>
              /\ Swept(x)[c] = rate[c]
              /\ Counted(admitted[c], rate[c].started, rate[c].count, h, Limit[c])
<1>1. c \in DOMAIN Swept(x) => Swept(x)[c] = rate[c] /\ c \in DOMAIN rate
  BY SweepFacts
<1>2. c \notin DOMAIN Swept(x) => Forgotten(admitted[c], Len(admitted[c]), h, Limit[c])
  BY SweptKey
<1>3. c \in DOMAIN Swept(x) => Counted(admitted[c], rate[c].started, rate[c].count, latest, Limit[c])
  BY <1>1, KeyFacts
<1>4. latest \in Nat /\ Fair(admitted[c], Len(admitted[c]), Limit[c])
  BY KeyFacts
<1> QED
  BY <1>1, <1>2, <1>3, <1>4, LaterLatest

-----------------------------------------------------------------------------
\* The invariant.

LEMMA RateInitially == RateInit => RateInv
<1> USE RateAssumption
<1> SUFFICES ASSUME RateInit PROVE RateInv
  OBVIOUS
<1>1. /\ rate = <<>> /\ clock = 0 /\ latest = 0 /\ lates = 0 /\ admitted = [k \in Keys |-> <<>>]
  BY DEF RateInit
<1>2. DOMAIN rate = {} /\ rate = [k \in DOMAIN rate |-> rate[k]]
  BY <1>1
<1>3. IsFiniteSet(DOMAIN rate) /\ Cardinality(DOMAIN rate) = 0
  BY <1>2, FS_EmptySet
<1>4. admitted \in [Keys -> Seq(Passed)]
  BY <1>1
<1>5. ASSUME NEW k \in Keys PROVE KeyInv(k)
  <2>1. admitted[k] = <<>> /\ Len(admitted[k]) = 0 /\ Limit[k] \in Nat
    BY <1>1
  <2>2. \A t : Near(admitted[k], 0, t) = {} /\ Tardy(admitted[k], 0, t) = {}
    BY DEF Near, Tardy
  <2>3. Cardinality({}) = 0
    BY FS_EmptySet
  <2>4. \A windows \in Nat : 0 <= Limit[k] * (windows + 0)
    BY <2>1
  <2>5. \A t : Within(admitted[k], 0, t, Limit[k], 1) /\ Within(admitted[k], 0, t, Limit[k], 2)
    BY <2>2, <2>3, <2>4 DEF Within
  <2>6. Fair(admitted[k], 0, Limit[k]) /\ Forgotten(admitted[k], 0, latest, Limit[k])
    BY <2>5 DEF Fair, Forgotten
  <2> QED
    BY <1>2, <2>1, <2>6 DEF KeyInv
<1> QED
  BY <1>1, <1>2, <1>3, <1>4, <1>5 DEF RateInv

LEMMA PassKeeps == RateInv /\ Pass => RateInv'
<1> SUFFICES ASSUME RateInv, Pass PROVE RateInv'
  OBVIOUS
<1>1. /\ clock \in Nat /\ clock' = clock + 1
      /\ rate' = rate /\ admitted' = admitted /\ latest' = latest /\ lates' = lates
  BY DEF RateInv, Pass
<1>2. ASSUME NEW k \in Keys PROVE KeyInv(k)'
  <2>1. KeyInv(k)
    BY DEF RateInv
  <2> QED
    BY <1>1, <2>1 DEF KeyInv
<1> QED
  BY <1>1, <1>2 DEF RateInv

\* The history a request leaves.
LEMMA RequestHistory ==
  ASSUME RateInv, NEW k \in Keys, NEW x \in 0 .. clock, Request(k, x)
  PROVE  /\ clock' = clock /\ latest' = (IF Late(x) THEN latest ELSE x)
         /\ latest' \in Nat /\ latest' \in 0 .. clock' /\ latest <= latest' /\ x <= latest'
         /\ x \in Nat /\ lates' \in 0 .. MaxLate
BY RateAssumption DEF RateInv, Request, Late

LEMMA RefusalKeeps ==
  ASSUME RateInv, NEW k \in Keys, NEW x \in 0 .. clock, Request(k, x), RefusesNew(k, x)
  PROVE  RateInv'
<1>1. rate' = Swept(x) /\ admitted' = admitted
  BY DEF Request, Allowed
<1>0. /\ latest' \in Nat /\ latest <= latest' /\ x <= latest' /\ x \in Nat
      /\ clock' = clock /\ latest' \in 0 .. clock' /\ lates' \in 0 .. MaxLate
  BY RequestHistory
<1>2. /\ rate' = [c \in DOMAIN rate' |-> rate'[c]] /\ DOMAIN rate' \subseteq DOMAIN rate
      /\ \A c \in DOMAIN rate' : rate'[c] = rate[c]
      /\ IsFiniteSet(DOMAIN rate') /\ Cardinality(DOMAIN rate') <= Capacity
  <2>1. /\ Swept(x) = [c \in DOMAIN Swept(x) |-> rate[c]] /\ DOMAIN Swept(x) \subseteq DOMAIN rate
        /\ IsFiniteSet(DOMAIN Swept(x)) /\ Cardinality(DOMAIN Swept(x)) <= Capacity
    BY <1>0, SweepFacts
  <2>2. \A c \in DOMAIN Swept(x) : Swept(x)[c] = rate[c]
    BY <2>1
  <2>3. Swept(x) = [c \in DOMAIN Swept(x) |-> Swept(x)[c]]
    BY <2>1, <2>2
  <2> QED
    BY <1>1, <2>1, <2>2, <2>3
<1>3. ASSUME NEW c \in Keys PROVE KeyInv(c)'
  <2>1. /\ Fair(admitted[c], Len(admitted[c]), Limit[c])
        /\ c \notin DOMAIN rate' => Forgotten(admitted[c], Len(admitted[c]), latest', Limit[c])
        /\ c \in DOMAIN rate' =>
              Counted(admitted[c], rate'[c].started, rate'[c].count, latest', Limit[c])
    BY <1>0, <1>1, <1>2, OtherKey
  <2> QED
    BY <1>1, <2>1 DEF KeyInv
<1> QED
  BY <1>0, <1>1, <1>2, <1>3 DEF RateInv

LEMMA CountingKeeps ==
  ASSUME RateInv, NEW k \in Keys, NEW x \in 0 .. clock, Request(k, x), ~RefusesNew(k, x)
  PROVE  RateInv'
<1> USE RateAssumption
<1> DEFINE s == IF Allowed(k, x)
                THEN Append(admitted[k], [now |-> x, at |-> clock, late |-> Late(x)])
                ELSE admitted[k]
<1>0. /\ latest' \in Nat /\ latest <= latest' /\ x <= latest' /\ x \in Nat
      /\ clock' = clock /\ latest' \in 0 .. clock' /\ lates' \in 0 .. MaxLate
      /\ latest' = (IF Late(x) THEN latest ELSE x)
  BY RequestHistory
<1>1. /\ s \in Seq(Passed)
      /\ Window(k, x) \in [started : Nat, count : Nat]
      /\ Counted(s, Window(k, x).started, Window(k, x).count, latest', Limit[k])
  BY <1>0, AskingKey
<1>2. rate' = [c \in DOMAIN Swept(x) \union {k} |-> IF c = k THEN Window(k, x) ELSE Swept(x)[c]]
  BY DEF Request
<1>3. admitted \in [Keys -> Seq(Passed)] /\ clock \in Nat
  BY DEF RateInv
<1>4. admitted' = [admitted EXCEPT ![k] = s]
  BY <1>3 DEF Request
<1> HIDE DEF s
<1>5. admitted' \in [Keys -> Seq(Passed)] /\ admitted'[k] = s
      /\ \A c \in Keys : c # k => admitted'[c] = admitted[c]
  BY <1>1, <1>3, <1>4
<1>6. /\ DOMAIN Swept(x) \subseteq DOMAIN rate /\ DOMAIN rate \subseteq Keys
      /\ IsFiniteSet(DOMAIN Swept(x)) /\ Cardinality(DOMAIN Swept(x)) \in Nat
      /\ Cardinality(DOMAIN Swept(x)) <= Capacity
      /\ \A c \in DOMAIN Swept(x) : Swept(x)[c] = rate[c] /\ rate[c] \in [started : Nat, count : Nat]
  <2>1. /\ Swept(x) = [c \in DOMAIN Swept(x) |-> rate[c]] /\ DOMAIN Swept(x) \subseteq DOMAIN rate
        /\ IsFiniteSet(DOMAIN Swept(x)) /\ Cardinality(DOMAIN Swept(x)) \in Nat
        /\ Cardinality(DOMAIN Swept(x)) <= Capacity
    BY <1>0, SweepFacts
  <2>2. \A c \in DOMAIN Swept(x) : Swept(x)[c] = rate[c]
    BY <2>1
  <2>3. DOMAIN rate \subseteq Keys /\ \A c \in DOMAIN rate : rate[c] \in [started : Nat, count : Nat]
    BY DEF RateInv
  <2> QED
    BY <2>1, <2>2, <2>3
<1>7. /\ DOMAIN rate' = DOMAIN Swept(x) \union {k} /\ rate'[k] = Window(k, x)
      /\ rate' = [c \in DOMAIN rate' |-> rate'[c]]
      /\ \A c \in DOMAIN Swept(x) : c # k => rate'[c] = rate[c]
  BY <1>2, <1>6
<1>8. IsFiniteSet(DOMAIN rate') /\ Cardinality(DOMAIN rate') <= Capacity
  <2>1. CASE k \in DOMAIN Swept(x)
    <3>1. DOMAIN rate' = DOMAIN Swept(x)
      BY <1>7, <2>1
    <3> QED
      BY <3>1, <1>6
  <2>2. CASE k \notin DOMAIN Swept(x)
    <3>1. ~(Cardinality(DOMAIN Swept(x)) >= Capacity)
      BY <2>2 DEF RefusesNew
    <3>2. /\ IsFiniteSet(DOMAIN Swept(x) \union {k})
          /\ Cardinality(DOMAIN Swept(x) \union {k}) = Cardinality(DOMAIN Swept(x)) + 1
      BY <1>6, <2>2, FS_AddElement
    <3> QED
      BY <1>6, <1>7, <3>1, <3>2
  <2> QED
    BY <2>1, <2>2
<1>9. \A c \in DOMAIN rate' : c \in Keys /\ rate'[c] \in [started : Nat, count : Nat]
  BY <1>1, <1>6, <1>7
<1>10. ASSUME NEW c \in Keys PROVE KeyInv(c)'
  <2>1. CASE c = k
    <3>1. /\ c \in DOMAIN rate'
          /\ Counted(admitted'[c], rate'[c].started, rate'[c].count, latest', Limit[c])
      BY <1>1, <1>5, <1>7, <2>1
    <3> QED
      BY <3>1 DEF KeyInv
  <2>2. CASE c # k
    <3>1. /\ Fair(admitted[c], Len(admitted[c]), Limit[c])
          /\ c \notin DOMAIN rate' => Forgotten(admitted[c], Len(admitted[c]), latest', Limit[c])
          /\ c \in DOMAIN rate' =>
               Counted(admitted[c], rate'[c].started, rate'[c].count, latest', Limit[c])
      BY <1>0, <1>7, <2>2, OtherKey
    <3> QED
      BY <1>5, <2>2, <3>1 DEF KeyInv
  <2> QED
    BY <2>1, <2>2
<1> QED
  BY <1>0, <1>3, <1>5, <1>7, <1>8, <1>9, <1>10 DEF RateInv

LEMMA RateAlways == RateSpec => []RateInv
<1>1. RateInv /\ [RateNext]_rateVars => RateInv'
  <2> SUFFICES ASSUME RateInv, [RateNext]_rateVars PROVE RateInv'
    OBVIOUS
  <2>1. CASE Pass
    BY <2>1, PassKeeps
  <2>2. ASSUME NEW k \in Keys, NEW x \in 0 .. clock, Request(k, x) PROVE RateInv'
    BY <2>2, RefusalKeeps, CountingKeeps
  <2>3. CASE UNCHANGED rateVars
    BY <2>3 DEF rateVars, RateInv, KeyInv
  <2> QED
    BY <2>1, <2>2, <2>3 DEF RateNext
<1> QED
  BY <1>1, RateInitially, PTL DEF RateSpec

-----------------------------------------------------------------------------
\* The table holds entries of known keys only, each counting from one to one
\* above its limit, from a time a request read (allowRequest of server.go).
THEOREM RateTypesKept == RateSpec => []RateTypeOK
<1>1. RateInv => RateTypeOK
  BY DEF RateInv, RateTypeOK, KeyInv, Counted
<1> QED
  BY <1>1, RateAlways, PTL

Since(s, t) == {i \in DOMAIN s : s[i].at > t}

LEMMA SinceFinite ==
  ASSUME NEW s \in Seq(Passed), NEW t
  PROVE  IsFiniteSet(Since(s, t)) /\ Cardinality(Since(s, t)) \in Nat
<1>1. DOMAIN s = 1 .. Len(s) /\ Len(s) \in Nat
  OBVIOUS
<1>2. IsFiniteSet(DOMAIN s)
  BY <1>1, FS_Interval
<1>3. IsFiniteSet(Since(s, t))
  BY <1>2, FS_Subset DEF Since
<1> QED
  BY <1>3, FS_CardinalityType

\* The requests of a window came in after it began.
LEMMA WindowCameIn ==
  ASSUME NEW s \in Seq(Passed), NEW w \in Nat, NEW n \in Nat, NEW l \in Nat, NEW limit \in Nat,
         Counted(s, w, n, l, limit), n >= limit, NEW t \in Int, t < w
  PROVE  Cardinality(Since(s, t)) >= limit
<1>1. PICK m \in 0 .. Len(s), b \in 0 .. l :
        /\ Len(s) = m + (IF n <= limit THEN n ELSE limit)
        /\ Fair(s, m, limit) /\ Forgotten(s, m, b, limit) /\ Opened(s, m, w, b)
  BY DEF Counted
<1>2. m \in Nat /\ Len(s) \in Nat /\ Len(s) = m + limit /\ DOMAIN s = 1 .. Len(s)
  BY <1>1
<1>3. \A i \in 1 .. Len(s) : s[i].at \in Nat
  <2>1. \A i \in 1 .. Len(s) : s[i] \in Passed
    BY <1>2
  <2> QED
    BY <2>1 DEF Passed
<1>4. m + 1 .. Len(s) \subseteq Since(s, t)
  <2>1. ASSUME NEW i \in m + 1 .. Len(s) PROVE i \in DOMAIN s /\ s[i].at > t
    <3>1. i \in 1 .. Len(s) /\ s[i].at >= w
      BY <1>1, <1>2 DEF Opened
    <3> QED
      BY <1>2, <1>3, <3>1
  <2> QED
    BY <2>1 DEF Since
<1>5. Cardinality(m + 1 .. Len(s)) = limit
  <2>1. m + 1 \in Int /\ Len(s) \in Int
    BY <1>2
  <2>2. Cardinality(m + 1 .. Len(s)) = IF m + 1 > Len(s) THEN 0 ELSE Len(s) - (m + 1) + 1
    BY <2>1, FS_Interval
  <2> QED
    BY <1>2, <2>2
<1>6. IsFiniteSet(Since(s, t)) /\ Cardinality(Since(s, t)) \in Nat
  BY SinceFinite
<1>7. Cardinality(m + 1 .. Len(s)) <= Cardinality(Since(s, t))
  BY <1>4, <1>6, FS_Subset
<1> QED
  BY <1>5, <1>6, <1>7

\* Why a request is refused.
LEMMA RefusedFor ==
  ASSUME RateInv, NEW k \in Keys, NEW x \in 0 .. clock, ~Allowed(k, x)
  PROVE  \/ Cardinality(Since(admitted[k], x - Minute)) >= Limit[k]
         \/ /\ k \notin DOMAIN rate
            /\ Cardinality({c \in DOMAIN rate : ~Elapsed(rate[c], x)}) >= Capacity
<1> USE RateAssumption
<1>1. admitted[k] \in Seq(Passed) /\ clock \in Nat /\ latest \in Nat /\ Limit[k] \in Nat
  BY KeyFacts
<1>0. x \in Nat /\ x - Minute \in Int
  BY <1>1
<1>2. CASE RefusesNew(k, x)
  <2>1. k \notin DOMAIN Swept(x) /\ Cardinality(DOMAIN Swept(x)) >= Capacity
    BY <1>2 DEF RefusesNew
  <2>2. /\ DOMAIN Swept(x) \subseteq DOMAIN rate
        /\ Cardinality(DOMAIN Swept(x)) \in Nat
        /\ Cardinality(DOMAIN rate) > SweepAbove =>
              DOMAIN Swept(x) = {c \in DOMAIN rate : ~Elapsed(rate[c], x)}
    BY <1>0, SweepFacts
  <2>3. /\ IsFiniteSet(DOMAIN rate) /\ Cardinality(DOMAIN rate) <= Capacity
        /\ Cardinality(DOMAIN rate) \in Nat
    BY FS_CardinalityType DEF RateInv
  <2>4. Cardinality(DOMAIN Swept(x)) <= Cardinality(DOMAIN rate)
    BY <2>2, <2>3, FS_Subset
  <2>5. Cardinality({c \in DOMAIN rate : ~Elapsed(rate[c], x)}) >= Capacity
    BY <2>1, <2>2, <2>3, <2>4
  <2>6. DOMAIN Swept(x) = DOMAIN rate
    <3>1. Cardinality(DOMAIN Swept(x)) = Cardinality(DOMAIN rate)
      BY <2>1, <2>2, <2>3, <2>4
    <3> QED
      BY <3>1, <2>2, <2>3, FS_Subset
  <2> QED
    BY <2>1, <2>5, <2>6
<1>3. CASE ~RefusesNew(k, x)
  <2>1. ~(Window(k, x).count <= Limit[k])
    BY <1>3 DEF Allowed
  <2>2. CASE k \notin DOMAIN Swept(x) \/ Elapsed(Swept(x)[k], x)
    <3>1. Window(k, x) = [started |-> x, count |-> 1]
      BY <2>2 DEF Window
    <3>2. Limit[k] = 0
      BY <1>1, <2>1, <3>1
    <3>3. Cardinality(Since(admitted[k], x - Minute)) \in Nat
      BY <1>1, SinceFinite
    <3>4. Cardinality(Since(admitted[k], x - Minute)) >= 0
      BY <3>3
    <3> QED
      BY <3>2, <3>4
  <2>3. CASE ~(k \notin DOMAIN Swept(x) \/ Elapsed(Swept(x)[k], x))
    <3>1. k \in DOMAIN rate /\ Swept(x)[k] = rate[k]
      BY <1>0, <2>3, SweepFacts
    <3>2. /\ rate[k] \in [started : Nat, count : Nat]
          /\ Counted(admitted[k], rate[k].started, rate[k].count, latest, Limit[k])
      BY <3>1, KeyFacts
    <3>3. PICK w \in Nat, n \in Nat : rate[k] = [started |-> w, count |-> n]
      BY <3>2
    <3>4. Window(k, x) = [rate[k] EXCEPT !.count = IF @ > Limit[k] THEN @ ELSE @ + 1]
      BY <2>3, <3>1 DEF Window
    <3>5. n >= Limit[k]
      BY <1>1, <2>1, <3>3, <3>4
    <3>6. x - Minute < w
      <4>1. ~(x - w >= Minute)
        BY <2>3, <3>1, <3>3 DEF Elapsed
      <4> QED
        BY <1>0, <3>3, <4>1
    <3>7. Counted(admitted[k], w, n, latest, Limit[k])
      BY <3>2, <3>3
    <3>8. Cardinality(Since(admitted[k], x - Minute)) >= Limit[k]
      BY <1>0, <1>1, <3>5, <3>6, <3>7, WindowCameIn
    <3> QED
      BY <3>8
  <2> QED
    BY <2>2, <2>3
<1> QED
  BY <1>2, <1>3

\* For any limits, any number of keys and any table size, and however many
\* requests wait for the mutex with whatever times: no minute holds more of a
\* key's requests than two windows' worth and one more for each of its late
\* requests around it, the table stays in its bound, and a request is refused
\* only once its key's limit was let through since a minute before, or for want
\* of room.
THEOREM LimiterAlwaysFair == RateSpec => []LimiterIsFair
<1>1. RateInv => LimiterIsFair
  <2> SUFFICES ASSUME RateInv PROVE LimiterIsFair
    OBVIOUS
  <2>1. ASSUME NEW k \in Keys, NEW t \in 0 .. clock
        PROVE  Cardinality(InMinute(k, t)) <= Limit[k] * (2 + Cardinality(LateAround(k, t)))
    <3>1. /\ admitted[k] \in Seq(Passed) /\ clock \in Nat
          /\ Fair(admitted[k], Len(admitted[k]), Limit[k])
      BY KeyFacts
    <3>2. DOMAIN admitted[k] = 1 .. Len(admitted[k]) /\ t \in Int
      BY <3>1
    <3>3. /\ InMinute(k, t) = Near(admitted[k], Len(admitted[k]), t)
          /\ LateAround(k, t) = Tardy(admitted[k], Len(admitted[k]), t)
      BY <3>2 DEF InMinute, LateAround, Near, Tardy
    <3> QED
      BY <3>1, <3>2, <3>3 DEF Fair, Within
  <2>2. Cardinality(DOMAIN rate) <= Capacity
    BY DEF RateInv
  <2>3. ASSUME NEW k \in Keys, NEW x \in 0 .. clock, ~Allowed(k, x)
        PROVE  \/ Cardinality(CameAfter(k, x - Minute)) >= Limit[k]
               \/ /\ k \notin DOMAIN rate
                  /\ Cardinality({c \in DOMAIN rate : ~Elapsed(rate[c], x)}) >= Capacity
    BY <2>3, RefusedFor DEF CameAfter, Since
  <2> QED
    BY <2>1, <2>2, <2>3 DEF LimiterIsFair
<1> QED
  BY <1>1, RateAlways, PTL

-----------------------------------------------------------------------------
(***************************************************************************)
(* TerminalProtocol.  A connection first greets: the resume                *)
(* frame is the first in its inbox and nothing has been sent to it.  Then  *)
(* it is going: every event of the log is told by what the client has      *)
(* seen, what others recorded meanwhile, the frames under way and the line *)
(* whose answer is due; and the cursor of every frame under way by what    *)
(* comes before it.  That order is what makes a cursor mean "all up to     *)
(* here".                                                                  *)
(***************************************************************************)

Inputs  == [type : {"resume", "input", "ack"}, cursor : Nat]
Outputs == [type : {"output", "replay", "ack", "error"}, cursor : Nat, shows : SUBSET Nat]

TerminalTypeInv ==
  /\ recorded \in Nat /\ restarts \in Nat
  /\ log \in Seq(Nat) /\ \A i \in DOMAIN log : log[i] \in 1 .. recorded
  /\ term \in [Terminals -> [open : BOOLEAN, sequence : Nat, pc : {"read", "report"}, ran : Nat]]
  /\ inbox \in [Terminals -> Seq(Inputs)]
  /\ outbox \in [Terminals -> Seq(Outputs)]
  /\ client \in [Terminals -> [cursor : Nat, seen : SUBSET Nat]]
  /\ unshown \in [Terminals -> SUBSET Nat]

\* What is shown was recorded, and a connection that is down has no frames.
Shown(t) ==
  /\ client[t].seen \subseteq 1 .. recorded
  /\ \A j \in DOMAIN outbox[t] : outbox[t][j].shows \subseteq 1 .. recorded
  /\ term[t].pc = "report" => term[t].ran \in 1 .. recorded
  /\ ~term[t].open => inbox[t] = <<>> /\ outbox[t] = <<>>

\* Until a restart nobody names an event the session has not had.
Behind(t) ==
  restarts = 0 =>
    /\ term[t].sequence <= Len(log) /\ client[t].cursor <= Len(log)
    /\ \A j \in DOMAIN outbox[t] : outbox[t][j].cursor <= Len(log)
    /\ term[t].pc = "report" => log # <<>>

\* The event is seen, or shown by one of the first j frames.
Reaches(event, seen, frames, j) ==
  event \in seen \/ \E k \in 1 .. j : event \in frames[k].shows

\* The first c events of events are.
Told(c, events, seen, frames, j) ==
  \A i \in 1 .. c : i \in DOMAIN events /\ Reaches(events[i], seen, frames, j)

Greeting(in, out, me) ==
  /\ in # <<>> /\ in[1].type = "resume" /\ in[1].cursor = me.cursor
  /\ \A i \in DOMAIN in : i > 1 => in[i].type # "resume"
  /\ out = <<>>

\* The event whose report is due.
Due(it) == IF it.pc = "report" THEN {it.ran} ELSE {}

Going(events, due, in, out, me) ==
  /\ \A i \in DOMAIN in : in[i].type # "resume"
  /\ Told(Len(events), events, me.seen \union due, out, Len(out))
  /\ \A j \in DOMAIN out : Told(out[j].cursor, events, me.seen, out, j)

\* What holds of a terminal until the session is restarted.
InOrder(events, it, in, out, me) ==
  /\ Told(me.cursor, events, me.seen, <<>>, 0)
  /\ it.open =>
       /\ it.sequence <= Len(events)
       /\ \/ Greeting(in, out, me) /\ it.pc = "read"
          \/ Going(events, Due(it), in, out, me)

\* The client, with what it cannot have been shown counted as seen.
Me(t) == [cursor |-> client[t].cursor, seen |-> client[t].seen \union unshown[t]]
Ordered(t) == InOrder(log, term[t], inbox[t], outbox[t], Me(t))

TerminalInv ==
  /\ TerminalTypeInv
  /\ \A t \in Terminals : Shown(t) /\ Behind(t) /\ (restarts = 0 => Ordered(t))

-----------------------------------------------------------------------------
\* Sequences of frames and of events.

LEMMA HeadTailFacts ==
  ASSUME NEW S, NEW s \in Seq(S), s # <<>>
  PROVE  /\ Len(s) \in Nat /\ Len(s) >= 1 /\ DOMAIN s = 1 .. Len(s)
         /\ Head(s) = s[1] /\ s[1] \in S /\ 1 \in DOMAIN s
         /\ Tail(s) \in Seq(S) /\ Len(Tail(s)) = Len(s) - 1
         /\ DOMAIN Tail(s) = 1 .. Len(s) - 1
         /\ \A i \in 1 .. Len(s) - 1 : Tail(s)[i] = s[i + 1] /\ i + 1 \in DOMAIN s
OBVIOUS

LEMMA AppendFacts ==
  ASSUME NEW S, NEW s \in Seq(S), NEW e \in S
  PROVE  /\ Len(s) \in Nat /\ DOMAIN s = 1 .. Len(s)
         /\ Append(s, e) \in Seq(S) /\ Len(Append(s, e)) = Len(s) + 1
         /\ DOMAIN Append(s, e) = 1 .. Len(s) + 1
         /\ Append(s, e)[Len(s) + 1] = e
         /\ \A i \in 1 .. Len(s) : Append(s, e)[i] = s[i]
OBVIOUS

LEMMA ConcatFacts ==
  ASSUME NEW S, NEW s \in Seq(S), NEW r \in Seq(S)
  PROVE  /\ Len(s) \in Nat /\ DOMAIN s = 1 .. Len(s)
         /\ Len(r) \in Nat /\ DOMAIN r = 1 .. Len(r)
         /\ s \o r \in Seq(S) /\ Len(s \o r) = Len(s) + Len(r)
         /\ DOMAIN (s \o r) = 1 .. Len(s) + Len(r)
         /\ \A i \in 1 .. Len(s) : (s \o r)[i] = s[i]
         /\ \A i \in 1 .. Len(r) : (s \o r)[Len(s) + i] = r[i]
OBVIOUS

LEMMA OneFacts ==
  ASSUME NEW S, NEW e \in S
  PROVE  <<e>> \in Seq(S) /\ Len(<<e>>) = 1 /\ DOMAIN <<e>> = {1} /\ <<e>>[1] = e /\ <<e>> # <<>>
OBVIOUS

LEMMA LenFacts ==
  ASSUME NEW S, NEW s \in Seq(S)
  PROVE  /\ Len(s) \in Nat /\ DOMAIN s = 1 .. Len(s) /\ \A i \in DOMAIN s : s[i] \in S
         /\ s = <<>> <=> Len(s) = 0
OBVIOUS

LEMMA Between ==
  ASSUME NEW i \in Nat, NEW b \in Nat, i >= 1, i <= b
  PROVE  i \in 1 .. b
OBVIOUS

LEMMA FunctionFacts ==
  ASSUME NEW S, NEW n \in Nat, NEW f, f = [i \in 1 .. n |-> f[i]], \A i \in 1 .. n : f[i] \in S
  PROVE  f \in Seq(S) /\ Len(f) = n
OBVIOUS

LEMMA OutputFacts ==
  ASSUME NEW out \in Seq(Outputs)
  PROVE  \A j \in DOMAIN out : out[j].cursor \in Nat /\ out[j].shows \subseteq Nat
<1>1. \A j \in DOMAIN out : out[j] \in Outputs
  BY LenFacts
<1> QED
  BY <1>1 DEF Outputs

\* The frames of a resume: an event each, then the acknowledgment.
Answer(events, from, sequence) ==
  (IF from < Len(events)
   THEN [i \in 1 .. Len(events) - from |->
           [type |-> "replay", cursor |-> from + i, shows |-> {events[from + i]}]]
   ELSE <<>>) \o <<[type |-> "ack", cursor |-> sequence, shows |-> {}]>>

\* After r's first n frames, which show the events from one on, an empty one.
IsAnswer(r, n, events, from, sequence) ==
  /\ r \in Seq(Outputs) /\ Len(r) = n + 1 /\ DOMAIN r = 1 .. n + 1
  /\ \A i \in 1 .. n : /\ from + i \in DOMAIN events
                       /\ r[i].cursor = from + i /\ r[i].shows = {events[from + i]}
  /\ r[n + 1].cursor = sequence /\ r[n + 1].shows = {}

LEMMA AnswerFacts ==
  ASSUME NEW events \in Seq(Nat), NEW from \in Nat, NEW sequence \in Nat,
         NEW n \in Nat, from < Len(events) => from + n = Len(events),
         ~(from < Len(events)) => n = 0
  PROVE  IsAnswer(Answer(events, from, sequence), n, events, from, sequence)
<1> DEFINE head == IF from < Len(events)
                   THEN [i \in 1 .. Len(events) - from |->
                           [type |-> "replay", cursor |-> from + i, shows |-> {events[from + i]}]]
                   ELSE <<>>
           ack  == [type |-> "ack", cursor |-> sequence, shows |-> {}]
<1>1. Len(events) \in Nat /\ DOMAIN events = 1 .. Len(events) /\ \A i \in DOMAIN events : events[i] \in Nat
  BY LenFacts
<1>3. \A i \in 1 .. n : from + i \in DOMAIN events
  <2> TAKE i \in 1 .. n
  <2>1. i \in Nat /\ i >= 1 /\ i <= n /\ n > 0
    OBVIOUS
  <2>2. from + n = Len(events)
    BY <2>1
  <2>3. from + i >= 1 /\ from + i <= Len(events) /\ from + i \in Nat
    BY <2>1, <2>2
  <2>4. from + i \in 1 .. Len(events)
    <3>1. Len(events) \in Nat
      BY <1>1
    <3> QED
      BY <2>3, <3>1, Between
  <2> QED
    BY <1>1, <2>4, Zenon
<1>4. \A i \in 1 .. n : [type |-> "replay", cursor |-> from + i, shows |-> {events[from + i]}] \in Outputs
  <2> TAKE i \in 1 .. n
  <2>1. from + i \in Nat
    OBVIOUS
  <2>2. events[from + i] \in Nat
    BY <1>1, <1>3
  <2> QED
    BY <2>1, <2>2 DEF Outputs
<1>5. head = [i \in 1 .. n |-> [type |-> "replay", cursor |-> from + i, shows |-> {events[from + i]}]]
  <2>1. CASE from < Len(events)
    <3>1. n = Len(events) - from
      BY <1>1, <2>1
    <3> QED
      BY <2>1, <3>1
  <2>2. CASE ~(from < Len(events))
    <3>1. n = 0 /\ 1 .. n = {} /\ head = <<>>
      BY <2>2
    <3> QED
      BY <3>1
  <2> QED
    BY <2>1, <2>2
<1>6. ack \in Outputs
  BY DEF Outputs
<1> HIDE DEF head, ack
<1>7. head \in Seq(Outputs) /\ Len(head) = n
  <2>1. head = [i \in 1 .. n |-> head[i]]
    BY <1>5
  <2>2. \A i \in 1 .. n : head[i] \in Outputs
    BY <1>4, <1>5
  <2> QED
    BY <2>1, <2>2, FunctionFacts
<1>8. \A i \in 1 .. n : head[i].cursor = from + i /\ head[i].shows = {events[from + i]}
  BY <1>5
<1>9. Answer(events, from, sequence) = head \o <<ack>>
  BY DEF Answer, head, ack
<1>10. <<ack>> \in Seq(Outputs) /\ Len(<<ack>>) = 1 /\ <<ack>>[1] = ack
  BY <1>6, OneFacts
<1>11. /\ head \o <<ack>> \in Seq(Outputs) /\ Len(head \o <<ack>>) = n + 1
       /\ DOMAIN (head \o <<ack>>) = 1 .. n + 1
       /\ \A i \in 1 .. n : (head \o <<ack>>)[i] = head[i]
       /\ \A i \in 1 .. 1 : (head \o <<ack>>)[n + i] = <<ack>>[i]
  BY <1>7, <1>10, ConcatFacts
<1>12. (head \o <<ack>>)[n + 1] = ack
  BY <1>10, <1>11
<1>13. ack.cursor = sequence /\ ack.shows = {}
  BY DEF ack
<1> QED
  BY <1>3, <1>8, <1>9, <1>11, <1>12, <1>13 DEF IsAnswer

LEMMA AnswerIs ==
  ASSUME NEW events \in Seq(Nat), NEW from \in Nat, NEW sequence \in Nat
  PROVE  /\ Answer(events, from, sequence) \in Seq(Outputs)
         /\ \E n \in Nat : IsAnswer(Answer(events, from, sequence), n, events, from, sequence)
<1>1. Len(events) \in Nat
  BY LenFacts
<1>2. PICK n \in Nat : /\ from < Len(events) => from + n = Len(events)
                       /\ ~(from < Len(events)) => n = 0
  <2>1. CASE from < Len(events)
    <3>1. Len(events) - from \in Nat /\ from + (Len(events) - from) = Len(events)
      BY <1>1, <2>1
    <3> QED
      BY <2>1, <3>1
  <2>2. CASE ~(from < Len(events))
    BY <2>2
  <2> QED
    BY <2>1, <2>2
<1>3. IsAnswer(Answer(events, from, sequence), n, events, from, sequence)
  BY <1>2, AnswerFacts
<1> QED
  BY <1>3 DEF IsAnswer

-----------------------------------------------------------------------------
\* What is told stays told.

LEMMA MoreFrames ==
  ASSUME NEW events, NEW seen, NEW S, NEW out \in Seq(S), NEW r \in Seq(S),
         NEW c \in Nat, NEW j \in 0 .. Len(out), NEW k \in Nat, j <= k,
         Told(c, events, seen, out, j)
  PROVE  Told(c, events, seen, out \o r, k)
<1>1. \A i \in 1 .. Len(out) : (out \o r)[i] = out[i]
  BY ConcatFacts
<1>2. Len(out) \in Nat
  OBVIOUS
<1>3. \A i \in 1 .. j : i \in 1 .. k /\ (out \o r)[i] = out[i]
  BY <1>1, <1>2
<1>4. ASSUME NEW e, Reaches(e, seen, out, j) PROVE Reaches(e, seen, out \o r, k)
  BY <1>3, <1>4 DEF Reaches
<1> QED
  BY <1>4 DEF Told

LEMMA MoreEvents ==
  ASSUME NEW events \in Seq(Nat), NEW e \in Nat, NEW seen, NEW out, NEW j,
         NEW c \in Nat, Told(c, events, seen, out, j)
  PROVE  Told(c, Append(events, e), seen, out, j)
<1>1. /\ DOMAIN events = 1 .. Len(events) /\ Len(events) \in Nat
      /\ DOMAIN Append(events, e) = 1 .. Len(events) + 1
      /\ \A i \in 1 .. Len(events) : Append(events, e)[i] = events[i]
  BY AppendFacts
<1>2. \A i \in DOMAIN events : i \in DOMAIN Append(events, e) /\ Append(events, e)[i] = events[i]
  BY <1>1
<1> QED
  BY <1>2 DEF Told

LEMMA FrameSeen ==
  ASSUME NEW events, NEW seen, NEW out \in Seq(Outputs), out # <<>>,
         NEW c \in Nat, NEW j \in 0 .. Len(Tail(out)), NEW k \in 0 .. Len(out), k <= j + 1,
         Told(c, events, seen, out, k)
  PROVE  Told(c, events, seen \union Head(out).shows, Tail(out), j)
<1>1. /\ Len(out) \in Nat /\ Head(out) = out[1] /\ Len(Tail(out)) = Len(out) - 1
      /\ \A i \in 1 .. Len(out) - 1 : Tail(out)[i] = out[i + 1]
  BY HeadTailFacts
<1>2. ASSUME NEW e, Reaches(e, seen, out, k)
      PROVE  Reaches(e, seen \union Head(out).shows, Tail(out), j)
  <2>1. CASE e \in seen
    BY <2>1 DEF Reaches
  <2>2. ASSUME NEW i \in 1 .. k, e \in out[i].shows
        PROVE  Reaches(e, seen \union Head(out).shows, Tail(out), j)
    <3>1. CASE i = 1
      BY <1>1, <2>2, <3>1 DEF Reaches
    <3>2. CASE i # 1
      <4>1. i - 1 \in 1 .. j /\ i - 1 \in 1 .. Len(out) - 1 /\ (i - 1) + 1 = i
        BY <1>1, <3>2
      <4>2. Tail(out)[i - 1] = out[i]
        BY <1>1, <4>1
      <4> QED
        BY <2>2, <4>1, <4>2 DEF Reaches
    <3> QED
      BY <3>1, <3>2
  <2> QED
    BY <1>2, <2>1, <2>2 DEF Reaches
<1> QED
  BY <1>2 DEF Told

-----------------------------------------------------------------------------
\* What each step does to a terminal that is alone, as values.

\* Fewer events are told as well, and more may be seen.
LEMMA Fewer ==
  ASSUME NEW events, NEW seen, NEW all, NEW frames, NEW j, NEW c \in Nat, NEW d \in Nat, d <= c,
         seen \subseteq all, Told(c, events, seen, frames, j)
  PROVE  Told(d, events, all, frames, j)
<1>1. \A i \in 1 .. d : i \in 1 .. c
  OBVIOUS
<1>2. \A e : Reaches(e, seen, frames, j) => Reaches(e, all, frames, j)
  BY DEF Reaches
<1> QED
  BY <1>1, <1>2 DEF Told

LEMMA LastOrBefore ==
  ASSUME NEW a \in Nat, NEW b \in Nat, a + 1 = b
  PROVE  \A i \in 1 .. b : i \in 1 .. a \/ i = b
OBVIOUS

LEMMA OrderedConnects ==
  ASSUME NEW events, NEW it, NEW in, NEW out, NEW me, NEW old, NEW oldIn,
         InOrder(events, old, oldIn, out, me),
         it.pc = "read", it.sequence <= Len(events), out = <<>>,
         in = <<[type |-> "resume", cursor |-> me.cursor]>>
  PROVE  InOrder(events, it, in, out, me)
<1>1. in # <<>> /\ in[1].type = "resume" /\ in[1].cursor = me.cursor /\ DOMAIN in = {1}
  OBVIOUS
<1>2. Greeting(in, out, me)
  BY <1>1 DEF Greeting
<1> QED
  BY <1>2 DEF InOrder

LEMMA OrderedSends ==
  ASSUME NEW events, NEW it, NEW in \in Seq(Inputs), NEW out, NEW me, NEW m \in Inputs,
         InOrder(events, it, in, out, me), m.type # "resume"
  PROVE  InOrder(events, it, Append(in, m), out, me)
<1>1. /\ Len(in) \in Nat /\ DOMAIN in = 1 .. Len(in) /\ DOMAIN Append(in, m) = 1 .. Len(in) + 1
      /\ Append(in, m)[Len(in) + 1] = m
      /\ \A i \in 1 .. Len(in) : Append(in, m)[i] = in[i]
      /\ Append(in, m) \in Seq(Inputs) /\ Len(Append(in, m)) = Len(in) + 1
  BY AppendFacts
<1>2. \A i \in DOMAIN Append(in, m) : i = Len(in) + 1 \/ (i \in DOMAIN in /\ Append(in, m)[i] = in[i])
  BY <1>1
<1>3. ASSUME Greeting(in, out, me) PROVE Greeting(Append(in, m), out, me)
  <2>1. in # <<>> /\ in[1].type = "resume" /\ in[1].cursor = me.cursor
    BY <1>3 DEF Greeting
  <2>2. 1 \in 1 .. Len(in)
    BY <1>1, <2>1, LenFacts
  <2>3. Append(in, m)[1] = in[1] /\ Append(in, m) # <<>>
    BY <1>1, <2>2, LenFacts
  <2> QED
    BY <1>1, <1>2, <1>3, <2>1, <2>3 DEF Greeting
<1>4. ASSUME Going(events, Due(it), in, out, me)
      PROVE  Going(events, Due(it), Append(in, m), out, me)
  BY <1>1, <1>2, <1>4 DEF Going
<1> QED
  BY <1>3, <1>4 DEF InOrder

LEMMA OrderedReceives ==
  ASSUME NEW events \in Seq(Nat), NEW it, NEW in, NEW out \in Seq(Outputs), NEW me, NEW me2,
         InOrder(events, it, in, out, me), it.open, out # <<>>, me.cursor \in Nat,
         me2.cursor = (IF Head(out).cursor > me.cursor THEN Head(out).cursor ELSE me.cursor),
         me2.seen = me.seen \union Head(out).shows
  PROVE  InOrder(events, it, in, Tail(out), me2)
<1>1. /\ Len(out) \in Nat /\ Len(out) >= 1 /\ Head(out) = out[1] /\ out[1] \in Outputs
      /\ 1 \in DOMAIN out /\ Len(Tail(out)) = Len(out) - 1 /\ DOMAIN out = 1 .. Len(out)
      /\ DOMAIN Tail(out) = 1 .. Len(out) - 1 /\ Tail(out) \in Seq(Outputs)
      /\ \A i \in 1 .. Len(out) - 1 : Tail(out)[i] = out[i + 1] /\ i + 1 \in DOMAIN out
  BY HeadTailFacts
<1>2. \A j \in DOMAIN out : out[j].cursor \in Nat
  BY OutputFacts
<1>3. Going(events, Due(it), in, out, me) /\ it.sequence <= Len(events)
  BY DEF InOrder, Greeting
<1>4. Told(me2.cursor, events, me2.seen, <<>>, 0)
  <2>1. Told(Head(out).cursor, events, me.seen, out, 1)
    BY <1>1, <1>3 DEF Going
  <2>2. Told(Head(out).cursor, events, me2.seen, Tail(out), 0)
    <3>1. 0 \in 0 .. Len(Tail(out)) /\ 1 \in 0 .. Len(out) /\ 1 <= 0 + 1
      BY <1>1
    <3>2. Head(out).cursor \in Nat
      BY <1>1, <1>2
    <3> QED
      BY <2>1, <3>1, <3>2, FrameSeen
  <2>3. Told(me.cursor, events, me.seen, <<>>, 0)
    BY DEF InOrder
  <2>4. \A frames : \A e : Reaches(e, me2.seen, frames, 0) <=> e \in me2.seen
    BY DEF Reaches
  <2>5. \A e : Reaches(e, me.seen, <<>>, 0) => e \in me2.seen
    BY DEF Reaches
  <2> QED
    BY <2>2, <2>3, <2>4, <2>5 DEF Told
<1>5. Told(Len(events), events, me2.seen \union Due(it), Tail(out), Len(Tail(out)))
  <2>1. Told(Len(events), events, me.seen \union Due(it), out, Len(out))
    BY <1>3 DEF Going
  <2>2. Len(Tail(out)) \in 0 .. Len(Tail(out)) /\ Len(out) \in 0 .. Len(out) /\ Len(out) <= Len(Tail(out)) + 1
    BY <1>1
  <2>3. Len(events) \in Nat
    BY LenFacts
  <2>4. Told(Len(events), events, (me.seen \union Due(it)) \union Head(out).shows,
             Tail(out), Len(Tail(out)))
    BY <2>1, <2>2, <2>3, FrameSeen
  <2>5. me2.seen \union Due(it) = (me.seen \union Due(it)) \union Head(out).shows
    OBVIOUS
  <2> QED
    BY <2>4, <2>5
<1>6. ASSUME NEW j \in DOMAIN Tail(out)
      PROVE  Told(Tail(out)[j].cursor, events, me2.seen, Tail(out), j)
  <2>1. Tail(out)[j] = out[j + 1] /\ j + 1 \in DOMAIN out /\ out[j + 1].cursor \in Nat
    BY <1>1, <1>2
  <2>2. Told(out[j + 1].cursor, events, me.seen, out, j + 1)
    BY <1>3, <2>1 DEF Going
  <2>3. PICK c, k : c = out[j + 1].cursor /\ k = j + 1
    OBVIOUS
  <2>4. j \in 0 .. Len(Tail(out)) /\ k \in 0 .. Len(out) /\ k <= j + 1
    BY <1>1, <2>3
  <2>5. c \in Nat /\ Told(c, events, me.seen, out, k)
    BY <2>1, <2>2, <2>3
  <2>6. Told(c, events, me.seen \union Head(out).shows, Tail(out), j)
    BY <2>4, <2>5, FrameSeen
  <2> QED
    BY <2>1, <2>3, <2>6
<1>7. Going(events, Due(it), in, Tail(out), me2)
  BY <1>3, <1>5, <1>6 DEF Going
<1> QED
  BY <1>3, <1>4, <1>7 DEF InOrder

LEMMA OrderedBreaks ==
  ASSUME NEW events, NEW it, NEW in, NEW out, NEW me, NEW it2, NEW in2, NEW out2,
         InOrder(events, it, in, out, me), ~it2.open
  PROVE  InOrder(events, it2, in2, out2, me)
BY DEF InOrder

\* A longer log, whose last event is told by what the client has got to know
\* meanwhile or by the line whose answer is due.
LEMMA GoingLonger ==
  ASSUME NEW events \in Seq(Nat), NEW e \in Nat, NEW due, NEW due2, NEW in, NEW in2,
         NEW out \in Seq(Outputs), NEW me, NEW me2,
         Going(events, due, in, out, me), \A i \in DOMAIN in2 : in2[i].type # "resume",
         me.seen \subseteq me2.seen, due \subseteq due2, e \in me2.seen \union due2
  PROVE  Going(Append(events, e), due2, in2, out, me2)
<1>1. /\ Len(events) \in Nat /\ Len(events) + 1 \in Nat /\ Len(Append(events, e)) = Len(events) + 1
      /\ DOMAIN Append(events, e) = 1 .. Len(events) + 1
      /\ Append(events, e)[Len(events) + 1] = e
  BY AppendFacts
<1>2. Len(out) \in Nat /\ DOMAIN out = 1 .. Len(out) /\ \A j \in DOMAIN out : out[j].cursor \in Nat
  BY LenFacts, OutputFacts
<1>3. Told(Len(events), Append(events, e), me2.seen \union due2, out, Len(out))
  <2>1. Told(Len(events), Append(events, e), me.seen \union due, out, Len(out))
    BY <1>1, MoreEvents DEF Going
  <2>2. me.seen \union due \subseteq me2.seen \union due2 /\ Len(events) <= Len(events)
    BY <1>1
  <2> QED
    BY <1>1, <2>1, <2>2, Fewer
<1>4. Reaches(Append(events, e)[Len(events) + 1], me2.seen \union due2, out, Len(out))
  BY <1>1 DEF Reaches
<1>5. Told(Len(events) + 1, Append(events, e), me2.seen \union due2, out, Len(out))
  <2>1. \A i \in 1 .. Len(events) + 1 : i \in DOMAIN Append(events, e)
    BY <1>1
  <2>2. \A i \in 1 .. Len(events) + 1 : i \in 1 .. Len(events) \/ i = Len(events) + 1
    BY <1>1, LastOrBefore
  <2> QED
    BY <1>3, <1>4, <2>1, <2>2, Zenon DEF Told
<1>6. ASSUME NEW j \in DOMAIN out PROVE Told(out[j].cursor, Append(events, e), me2.seen, out, j)
  <2>1. out[j].cursor \in Nat /\ out[j].cursor <= out[j].cursor
    BY <1>2
  <2>2. Told(out[j].cursor, events, me.seen, out, j)
    BY DEF Going
  <2>3. Told(out[j].cursor, Append(events, e), me.seen, out, j)
    BY <2>1, <2>2, MoreEvents
  <2> QED
    BY <2>1, <2>3, Fewer
<1> QED
  BY <1>1, <1>5, <1>6 DEF Going

\* What is greeted or down takes no notice of a longer log.
LEMMA NotGoingLonger ==
  ASSUME NEW events \in Seq(Nat), NEW e \in Nat, NEW it, NEW in, NEW out, NEW me,
         InOrder(events, it, in, out, me), me.cursor \in Nat, it.sequence \in Nat,
         it.open => \E i \in DOMAIN in : in[i].type = "resume"
  PROVE  InOrder(Append(events, e), it, in, out, me)
<1>1. Len(events) \in Nat /\ Len(Append(events, e)) = Len(events) + 1
  BY AppendFacts
<1>2. Told(me.cursor, Append(events, e), me.seen, <<>>, 0)
  BY MoreEvents DEF InOrder
<1>3. it.open => it.sequence <= Len(Append(events, e)) /\ Greeting(in, out, me) /\ it.pc = "read"
  BY <1>1 DEF InOrder, Going
<1> QED
  BY <1>2, <1>3 DEF InOrder

\* Others record an event, which a terminal that follows cannot learn of.
LEMMA OrderedLonger ==
  ASSUME NEW events \in Seq(Nat), NEW e \in Nat, NEW it, NEW in \in Seq(Inputs), NEW out \in Seq(Outputs),
         NEW me, NEW me2,
         InOrder(events, it, in, out, me), me.cursor \in Nat, it.sequence \in Nat,
         me2.cursor = me.cursor,
         IF it.open /\ \A i \in DOMAIN in : in[i].type # "resume"
         THEN me2.seen = me.seen \union {e} ELSE me2 = me
  PROVE  InOrder(Append(events, e), it, in, out, me2)
<1>1. CASE it.open /\ \A i \in DOMAIN in : in[i].type # "resume"
  <2>1. Going(events, Due(it), in, out, me) /\ it.sequence <= Len(events)
    <3>1. in # <<>> => 1 \in DOMAIN in
      BY HeadTailFacts
    <3> QED
      BY <1>1, <3>1 DEF InOrder, Greeting
  <2>2. Len(events) \in Nat /\ Len(Append(events, e)) = Len(events) + 1
    BY AppendFacts
  <2>3. Going(Append(events, e), Due(it), in, out, me2)
    BY <1>1, <2>1, GoingLonger
  <2>4. Told(me.cursor, Append(events, e), me.seen, <<>>, 0) /\ me.cursor <= me.cursor
    BY MoreEvents DEF InOrder
  <2>5. Told(me2.cursor, Append(events, e), me2.seen, <<>>, 0)
    BY <1>1, <2>4, Fewer
  <2> QED
    BY <2>1, <2>2, <2>3, <2>5 DEF InOrder
<1>2. CASE ~(it.open /\ \A i \in DOMAIN in : in[i].type # "resume")
  <2>1. it.open => \E i \in DOMAIN in : in[i].type = "resume"
    BY <1>2
  <2> QED
    BY <1>2, <2>1, NotGoingLonger
<1> QED
  BY <1>1, <1>2

LEMMA OrderedRuns ==
  ASSUME NEW events \in Seq(Nat), NEW e \in Nat, NEW it, NEW it2, NEW in \in Seq(Inputs),
         NEW out \in Seq(Outputs), NEW me,
         InOrder(events, it, in, out, me), it.open, it.pc = "read", in # <<>>,
         in[1].type = "input", it.sequence \in Nat, me.cursor \in Nat,
         it2.pc = "report", it2.sequence = it.sequence, it2.ran = e
  PROVE  InOrder(Append(events, e), it2, Tail(in), out, me)
<1>1. /\ 1 \in DOMAIN in /\ DOMAIN in = 1 .. Len(in)
      /\ DOMAIN Tail(in) = 1 .. Len(in) - 1
      /\ \A i \in 1 .. Len(in) - 1 : Tail(in)[i] = in[i + 1] /\ i + 1 \in DOMAIN in
  BY HeadTailFacts
<1>2. Going(events, {}, in, out, me) /\ it.sequence <= Len(events)
  BY DEF InOrder, Greeting, Due
<1>3. Told(me.cursor, Append(events, e), me.seen, <<>>, 0)
  BY MoreEvents DEF InOrder
<1>4. \A i \in DOMAIN Tail(in) : Tail(in)[i].type # "resume"
  BY <1>1, <1>2 DEF Going
<1>5. e \in me.seen \union Due(it2) /\ {} \subseteq Due(it2) /\ me.seen \subseteq me.seen
  BY DEF Due
<1>6. Going(Append(events, e), Due(it2), Tail(in), out, me)
  <2>1. PICK rest, none, due2, me2 :
          rest = Tail(in) /\ none = {} /\ due2 = Due(it2) /\ me2 = me
    OBVIOUS
  <2>2. /\ \A i \in DOMAIN rest : rest[i].type # "resume"
        /\ Going(events, none, in, out, me) /\ none \subseteq due2
        /\ e \in me2.seen \union due2 /\ me.seen \subseteq me2.seen
    BY <1>2, <1>4, <1>5, <2>1
  <2>3. Going(Append(events, e), due2, rest, out, me2)
    BY <2>2, GoingLonger
  <2> QED
    BY <2>1, <2>3
<1>7. Len(events) \in Nat /\ Len(Append(events, e)) = Len(events) + 1
  BY AppendFacts
<1> QED
  BY <1>2, <1>3, <1>6, <1>7 DEF InOrder

\* One more frame, which shows what was due and names an event that all of
\* them tell.
LEMMA GoingSends ==
  ASSUME NEW events \in Seq(Nat), NEW due, NEW in, NEW in2,
         NEW out \in Seq(Outputs), NEW me, NEW f \in Outputs,
         Going(events, due, in, out, me),
         \A i \in DOMAIN in2 : in2[i].type # "resume",
         f.cursor <= Len(events), due \subseteq f.shows
  PROVE  Going(events, {}, in2, out \o <<f>>, me)
<1>1. <<f>> \in Seq(Outputs) /\ Len(<<f>>) = 1 /\ <<f>>[1] = f /\ f.cursor \in Nat
  BY OneFacts DEF Outputs
<1>2. /\ Len(out) \in Nat /\ DOMAIN out = 1 .. Len(out) /\ Len(out \o <<f>>) = Len(out) + 1
      /\ DOMAIN (out \o <<f>>) = 1 .. Len(out) + 1
      /\ \A i \in 1 .. Len(out) : (out \o <<f>>)[i] = out[i]
      /\ \A i \in 1 .. 1 : (out \o <<f>>)[Len(out) + i] = <<f>>[i]
  BY <1>1, ConcatFacts
<1>3. (out \o <<f>>)[Len(out) + 1] = f
  BY <1>1, <1>2
<1>4. Told(Len(events), events, me.seen, out \o <<f>>, Len(out) + 1)
  <2>1. Told(Len(events), events, me.seen \union due, out, Len(out)) /\ Len(events) \in Nat
    BY LenFacts DEF Going
  <2>2. \A i \in 1 .. Len(out) : i \in 1 .. Len(out) + 1
    BY <1>2
  <2>3. Len(out) + 1 \in 1 .. Len(out) + 1
    BY <1>2
  <2>4. ASSUME NEW e, Reaches(e, me.seen \union due, out, Len(out))
        PROVE  Reaches(e, me.seen, out \o <<f>>, Len(out) + 1)
    <3>1. CASE e \in due
      BY <1>3, <2>3, <3>1 DEF Reaches
    <3>2. CASE e \notin due
      BY <1>2, <2>2, <2>4, <3>2 DEF Reaches
    <3> QED
      BY <3>1, <3>2
  <2> QED
    BY <2>1, <2>4 DEF Told
<1>5. ASSUME NEW j \in DOMAIN (out \o <<f>>)
      PROVE  Told((out \o <<f>>)[j].cursor, events, me.seen, out \o <<f>>, j)
  <2>1. CASE j = Len(out) + 1
    <3>1. Len(events) \in Nat /\ me.seen \subseteq me.seen
      BY LenFacts
    <3> QED
      BY <1>1, <1>3, <1>4, <2>1, <3>1, Fewer
  <2>2. CASE j # Len(out) + 1
    <3>1. j \in DOMAIN out /\ j \in 0 .. Len(out) /\ j \in Nat /\ j <= j /\ (out \o <<f>>)[j] = out[j]
      BY <1>2, <2>2
    <3>2. out[j].cursor \in Nat
      BY <3>1, OutputFacts
    <3>3. Told(out[j].cursor, events, me.seen, out, j)
      BY <3>1 DEF Going
    <3> QED
      BY <1>1, <3>1, <3>2, <3>3, MoreFrames
  <2> QED
    BY <2>1, <2>2
<1>6. me.seen \union {} = me.seen
  OBVIOUS
<1> QED
  BY <1>2, <1>4, <1>5, <1>6 DEF Going

LEMMA OrderedReports ==
  ASSUME NEW events \in Seq(Nat), NEW it, NEW it2, NEW in, NEW out \in Seq(Outputs), NEW me,
         NEW f \in Outputs,
         InOrder(events, it, in, out, me), it.open, it.pc = "report",
         it2.pc = "read", it2.sequence = Len(events),
         f.cursor = Len(events), f.shows = {it.ran}
  PROVE  InOrder(events, it2, in, out \o <<f>>, me)
<1>1. Going(events, {it.ran}, in, out, me) /\ Told(me.cursor, events, me.seen, <<>>, 0)
  BY DEF InOrder, Due
<1>2. Len(events) \in Nat /\ f.cursor <= Len(events) /\ it2.sequence <= Len(events)
  BY LenFacts
<1>3. \A i \in DOMAIN in : in[i].type # "resume"
  BY <1>1 DEF Going
<1>4. Going(events, {}, in, out \o <<f>>, me)
  BY <1>1, <1>2, <1>3, GoingSends
<1>5. Due(it2) = {}
  BY DEF Due
<1> QED
  BY <1>1, <1>2, <1>4, <1>5 DEF InOrder

LEMMA OrderedAcks ==
  ASSUME NEW events \in Seq(Nat), NEW it, NEW in \in Seq(Inputs), NEW out \in Seq(Outputs), NEW me,
         NEW f \in Outputs,
         InOrder(events, it, in, out, me), it.open, it.pc = "read",
         in # <<>>, in[1].type = "ack", f.cursor = it.sequence
  PROVE  InOrder(events, it, Tail(in), out \o <<f>>, me)
<1>1. /\ 1 \in DOMAIN in /\ DOMAIN in = 1 .. Len(in)
      /\ DOMAIN Tail(in) = 1 .. Len(in) - 1
      /\ \A i \in 1 .. Len(in) - 1 : Tail(in)[i] = in[i + 1] /\ i + 1 \in DOMAIN in
  BY HeadTailFacts
<1>2. Due(it) = {}
  BY DEF Due
<1>3. Going(events, {}, in, out, me) /\ it.sequence <= Len(events)
  BY <1>2 DEF InOrder, Greeting
<1>4. \A i \in DOMAIN Tail(in) : Tail(in)[i].type # "resume"
  BY <1>1, <1>3 DEF Going
<1>5. {} \subseteq f.shows /\ f.cursor <= Len(events)
  BY <1>3
<1>6. Going(events, {}, Tail(in), out \o <<f>>, me)
  <2>1. PICK rest, none : rest = Tail(in) /\ none = {}
    OBVIOUS
  <2>2. /\ \A i \in DOMAIN rest : rest[i].type # "resume"
        /\ Going(events, none, in, out, me) /\ none \subseteq f.shows
    BY <1>3, <1>4, <1>5, <2>1
  <2>3. Going(events, {}, rest, out \o <<f>>, me)
    BY <1>5, <2>2, GoingSends
  <2> QED
    BY <2>1, <2>3
<1> QED
  BY <1>2, <1>3, <1>6 DEF InOrder

LEMMA OrderedResumes ==
  ASSUME NEW events \in Seq(Nat), NEW it, NEW in \in Seq(Inputs), NEW out, NEW me,
         InOrder(events, it, in, out, me), it.open, it.pc = "read", it.sequence \in Nat,
         in # <<>>, in[1].type = "resume", me.cursor \in Nat
  PROVE  InOrder(events, it, Tail(in), out \o Answer(events, in[1].cursor, it.sequence), me)
<1> DEFINE from == in[1].cursor
           n    == Len(events) - from
           r    == Answer(events, from, it.sequence)
<1>1. /\ 1 \in DOMAIN in /\ DOMAIN in = 1 .. Len(in)
      /\ DOMAIN Tail(in) = 1 .. Len(in) - 1
      /\ \A i \in 1 .. Len(in) - 1 : Tail(in)[i] = in[i + 1] /\ i + 1 \in DOMAIN in
  BY HeadTailFacts
<1>2. Greeting(in, out, me) /\ it.sequence <= Len(events) /\ Told(me.cursor, events, me.seen, <<>>, 0)
  BY <1>1 DEF InOrder, Going
<1>3. from = me.cursor /\ from \in Nat /\ out = <<>>
  BY <1>2 DEF Greeting
<1>4. Len(events) \in Nat /\ DOMAIN events = 1 .. Len(events)
  BY LenFacts
<1>5. \A i \in DOMAIN Tail(in) : Tail(in)[i].type # "resume"
  <2>1. \A i \in DOMAIN Tail(in) : i + 1 > 1 /\ i + 1 \in DOMAIN in /\ Tail(in)[i] = in[i + 1]
    BY <1>1, LenFacts
  <2> QED
    BY <1>2, <2>1 DEF Greeting
<1>6. \A i \in 1 .. from : i \in DOMAIN events /\ events[i] \in me.seen
  BY <1>2, <1>3 DEF Told, Reaches
<1>8. /\ n \in Nat /\ from + n = Len(events)
      /\ from < Len(events) => from + n = Len(events)
      /\ ~(from < Len(events)) => n = 0
  <2>1. from <= Len(events)
    BY <1>3, <1>4, <1>6
  <2> QED
    BY <1>3, <1>4, <2>1
<1> HIDE DEF n, from
<1> HIDE DEF r
<1>14. IsAnswer(r, n, events, from, it.sequence)
  BY <1>3, <1>8, AnswerFacts DEF r
<1>7. /\ r \in Seq(Outputs) /\ n \in Nat /\ Len(r) = n + 1 /\ DOMAIN r = 1 .. n + 1
      /\ \A i \in 1 .. n : /\ from + i \in DOMAIN events
                           /\ r[i].cursor = from + i /\ r[i].shows = {events[from + i]}
      /\ r[n + 1].cursor = it.sequence /\ r[n + 1].shows = {}
  BY <1>8, <1>14 DEF IsAnswer
<1>9. out \o r = r
  BY <1>3, <1>7
<1>10. ASSUME NEW j \in 0 .. n, NEW k \in Nat, j <= k PROVE Told(from + j, events, me.seen, r, k)
  <2>1. ASSUME NEW i \in 1 .. from + j PROVE i \in DOMAIN events /\ Reaches(events[i], me.seen, r, k)
    <3>1. CASE i <= from
      BY <1>3, <1>6, <2>1, <3>1 DEF Reaches
    <3>2. CASE ~(i <= from)
      <4>1. i - from \in 1 .. n /\ i - from \in 1 .. k /\ from + (i - from) = i
        <5>1. i \in Int /\ i <= from + j /\ i > from /\ j \in Int /\ j <= n /\ n \in Int /\ from \in Int
          BY <1>3, <1>7, <1>10, <3>2
        <5> QED
          BY <5>1, <1>10
      <4>2. i \in DOMAIN events /\ events[i] \in r[i - from].shows
        BY <1>7, <4>1
      <4> QED
        BY <4>1, <4>2 DEF Reaches
    <3> QED
      BY <3>1, <3>2
  <2> QED
    BY <2>1 DEF Told
<1>15. ASSUME NEW k \in Nat, n <= k PROVE Told(Len(events), events, me.seen, r, k)
  <2>1. n \in 0 .. n
    BY <1>7
  <2> QED
    BY <1>8, <1>10, <1>15, <2>1
<1>11. ASSUME NEW j \in DOMAIN r PROVE Told(r[j].cursor, events, me.seen, r, j)
  <2>1. CASE j \in 1 .. n
    <3>1. j \in 0 .. n /\ j \in Nat /\ j <= j /\ r[j].cursor = from + j
      BY <1>7, <2>1
    <3> QED
      BY <3>1, <1>10
  <2>2. CASE j = n + 1
    <3>1. j \in Nat /\ n <= j
      BY <1>7, <2>2
    <3>2. r[j].cursor \in Nat /\ r[j].cursor <= Len(events) /\ me.seen \subseteq me.seen
      BY <1>2, <1>7, <2>2
    <3> QED
      BY <1>4, <3>1, <3>2, <1>15, Fewer
  <2> QED
    BY <1>7, <2>1, <2>2
<1>12. Told(Len(events), events, me.seen, r, Len(r))
  <2>1. Len(r) \in Nat /\ n <= Len(r)
    BY <1>7
  <2> QED
    BY <2>1, <1>15
<1>16. Due(it) = {} /\ me.seen \union {} = me.seen
  BY DEF Due
<1>13. Going(events, Due(it), Tail(in), out \o r, me)
  BY <1>5, <1>9, <1>11, <1>12, <1>16 DEF Going
<1> QED
  BY <1>2, <1>13 DEF InOrder, r, from

-----------------------------------------------------------------------------
\* What each step changes.

Apart(t) ==
  \A u \in Terminals : u # t =>
    /\ term'[u] = term[u] /\ inbox'[u] = inbox[u]
    /\ outbox'[u] = outbox[u] /\ client'[u] = client[u]

LEMMA TermFacts ==
  ASSUME TerminalTypeInv, NEW t \in Terminals
  PROVE  /\ inbox[t] \in Seq(Inputs) /\ outbox[t] \in Seq(Outputs)
         /\ client[t].cursor \in Nat /\ client[t].seen \subseteq Nat
         /\ term[t].sequence \in Nat /\ term[t].pc \in {"read", "report"} /\ term[t].ran \in Nat
         /\ log \in Seq(Nat) /\ Len(log) \in Nat /\ recorded \in Nat /\ restarts \in Nat
BY LenFacts DEF TerminalTypeInv

\* The goroutine, the frames and the client of one terminal take new values.
LEMMA TypeKept ==
  ASSUME TerminalTypeInv, NEW t \in Terminals,
         term' \in [Terminals -> [open : BOOLEAN, sequence : Nat, pc : {"read", "report"}, ran : Nat]],
         NEW in \in Seq(Inputs), inbox' = [inbox EXCEPT ![t] = in],
         NEW out \in Seq(Outputs), outbox' = [outbox EXCEPT ![t] = out],
         client' \in [Terminals -> [cursor : Nat, seen : SUBSET Nat]],
         UNCHANGED <<log, recorded, unshown, restarts>>
  PROVE  TerminalTypeInv'
<1>1. inbox' \in [Terminals -> Seq(Inputs)] /\ outbox' \in [Terminals -> Seq(Outputs)]
  BY DEF TerminalTypeInv
<1> QED
  BY <1>1 DEF TerminalTypeInv

LEMMA ConnectFields ==
  ASSUME TerminalTypeInv, NEW t \in Terminals, Connect(t)
  PROVE  /\ TerminalTypeInv' /\ Apart(t)
         /\ ~term[t].open /\ term'[t].open
         /\ term'[t].sequence = Len(log) /\ term'[t].pc = "read"
         /\ inbox'[t] = <<[type |-> "resume", cursor |-> client[t].cursor]>>
         /\ outbox'[t] = outbox[t] /\ client'[t] = client[t]
         /\ UNCHANGED <<log, recorded, unshown, restarts>>
<1> DEFINE it == [Closed EXCEPT !.open = TRUE, !.sequence = Len(log)]
           m  == [type |-> "resume", cursor |-> client[t].cursor]
<1>2. term' = [term EXCEPT ![t] = it]
  BY DEF Connect
<1>1. Closed \in [open : BOOLEAN, sequence : Nat, pc : {"read", "report"}, ran : Nat]
  BY DEF Closed
<1>3. it \in [open : BOOLEAN, sequence : Nat, pc : {"read", "report"}, ran : Nat]
  BY <1>1, TermFacts
<1>4. it.open /\ it.sequence = Len(log) /\ it.pc = "read"
  BY DEF Closed
<1>5. m \in Inputs
  BY TermFacts DEF Inputs
<1> HIDE DEF it, m
<1>6. <<m>> \in Seq(Inputs)
  BY <1>5, OneFacts
<1>7. inbox' = [inbox EXCEPT ![t] = <<m>>]
  BY DEF Connect, m
<1>8. UNCHANGED <<log, recorded, outbox, client, unshown, restarts>> /\ ~term[t].open
  BY DEF Connect
<1>9. /\ term \in [Terminals -> [open : BOOLEAN, sequence : Nat, pc : {"read", "report"}, ran : Nat]]
      /\ DOMAIN inbox = Terminals /\ outbox' = [outbox EXCEPT ![t] = outbox[t]]
      /\ client' \in [Terminals -> [cursor : Nat, seen : SUBSET Nat]]
  BY <1>8 DEF TerminalTypeInv
<1>10. term' \in [Terminals -> [open : BOOLEAN, sequence : Nat, pc : {"read", "report"}, ran : Nat]]
  BY <1>2, <1>3, <1>9
<1>11. TerminalTypeInv'
  BY <1>6, <1>7, <1>8, <1>9, <1>10, TermFacts, TypeKept
<1>12. Apart(t) /\ term'[t] = it /\ inbox'[t] = <<m>>
  BY <1>2, <1>7, <1>8, <1>9 DEF Apart
<1> QED
  BY <1>4, <1>8, <1>11, <1>12 DEF m

LEMMA SendFields ==
  ASSUME TerminalTypeInv, NEW t \in Terminals, SendInput(t) \/ SendAck(t)
  PROVE  /\ TerminalTypeInv' /\ Apart(t) /\ term[t].open
         /\ \E m \in Inputs : m.type # "resume" /\ inbox'[t] = Append(inbox[t], m)
         /\ term'[t] = term[t] /\ outbox'[t] = outbox[t] /\ client'[t] = client[t]
         /\ UNCHANGED <<log, recorded, unshown, restarts>>
<1>1. PICK m \in Inputs : m.type # "resume" /\ inbox' = [inbox EXCEPT ![t] = Append(@, m)]
  <2>1. CASE SendInput(t)
    <3>1. [type |-> "input", cursor |-> 0] \in Inputs /\ [type |-> "input", cursor |-> 0].type # "resume"
      BY DEF Inputs
    <3> QED
      BY <2>1, <3>1 DEF SendInput
  <2>2. CASE SendAck(t)
    <3>1. /\ [type |-> "ack", cursor |-> client[t].cursor] \in Inputs
          /\ [type |-> "ack", cursor |-> client[t].cursor].type # "resume"
      BY TermFacts DEF Inputs
    <3> QED
      BY <2>2, <3>1 DEF SendAck
  <2> QED
    BY <2>1, <2>2
<1>2. UNCHANGED <<log, recorded, term, outbox, client, unshown, restarts>> /\ term[t].open
  BY DEF SendInput, SendAck
<1>3. Append(inbox[t], m) \in Seq(Inputs)
  BY TermFacts, AppendFacts
<1>4. inbox' = [inbox EXCEPT ![t] = Append(inbox[t], m)]
  BY <1>1
<1>5. /\ term' \in [Terminals -> [open : BOOLEAN, sequence : Nat, pc : {"read", "report"}, ran : Nat]]
      /\ DOMAIN inbox = Terminals /\ outbox' = [outbox EXCEPT ![t] = outbox[t]]
      /\ client' \in [Terminals -> [cursor : Nat, seen : SUBSET Nat]]
  BY <1>2 DEF TerminalTypeInv
<1>6. TerminalTypeInv'
  BY <1>2, <1>3, <1>4, <1>5, TermFacts, TypeKept
<1>7. Apart(t) /\ inbox'[t] = Append(inbox[t], m)
  BY <1>2, <1>4, <1>5 DEF Apart
<1> QED
  BY <1>1, <1>2, <1>6, <1>7

LEMMA ReceiveFields ==
  ASSUME TerminalTypeInv, NEW t \in Terminals, Receive(t)
  PROVE  /\ TerminalTypeInv' /\ Apart(t) /\ term[t].open /\ outbox[t] # <<>>
         /\ outbox'[t] = Tail(outbox[t]) /\ term'[t] = term[t] /\ inbox'[t] = inbox[t]
         /\ client'[t].cursor = (IF Head(outbox[t]).cursor > client[t].cursor
                                 THEN Head(outbox[t]).cursor ELSE client[t].cursor)
         /\ client'[t].seen = client[t].seen \union Head(outbox[t]).shows
         /\ UNCHANGED <<log, recorded, unshown, restarts>>
<1>1. UNCHANGED <<log, recorded, term, inbox, unshown, restarts>> /\ term[t].open /\ outbox[t] # <<>>
  BY DEF Receive
<1>2. Head(outbox[t]) \in Outputs /\ Tail(outbox[t]) \in Seq(Outputs)
  BY <1>1, TermFacts, HeadTailFacts
<1>3. PICK f \in Outputs : f = Head(outbox[t])
  BY <1>2
<1>4. f.cursor \in Nat /\ f.shows \subseteq Nat
  BY DEF Outputs
<1>5. client \in [Terminals -> [cursor : Nat, seen : SUBSET Nat]]
  BY DEF TerminalTypeInv
<1>6. client' = [client EXCEPT ![t].cursor = IF f.cursor > @ THEN f.cursor ELSE @,
                               ![t].seen = @ \union f.shows]
  BY <1>3 DEF Receive
<1>9. client' \in [Terminals -> [cursor : Nat, seen : SUBSET Nat]]
  BY <1>4, <1>5, <1>6
<1>10. outbox' = [outbox EXCEPT ![t] = Tail(outbox[t])]
  BY DEF Receive
<1>11. /\ term' \in [Terminals -> [open : BOOLEAN, sequence : Nat, pc : {"read", "report"}, ran : Nat]]
       /\ DOMAIN outbox = Terminals /\ inbox' = [inbox EXCEPT ![t] = inbox[t]]
  BY <1>1 DEF TerminalTypeInv
<1>12. TerminalTypeInv'
  BY <1>1, <1>2, <1>9, <1>10, <1>11, TermFacts, TypeKept
<1>13. Apart(t) /\ outbox'[t] = Tail(outbox[t])
  BY <1>1, <1>5, <1>6, <1>10, <1>11 DEF Apart
<1>14. /\ client'[t].cursor = (IF f.cursor > client[t].cursor THEN f.cursor ELSE client[t].cursor)
       /\ client'[t].seen = client[t].seen \union f.shows
  BY <1>5, <1>6
<1> QED
  BY <1>1, <1>3, <1>12, <1>13, <1>14

LEMMA BreakFields ==
  ASSUME TerminalTypeInv, NEW t \in Terminals, Break(t)
  PROVE  /\ TerminalTypeInv' /\ Apart(t)
         /\ ~term'[t].open /\ term'[t].sequence = 0 /\ term'[t].pc = "read"
         /\ inbox'[t] = <<>> /\ outbox'[t] = <<>> /\ client'[t] = client[t]
         /\ UNCHANGED <<log, recorded, unshown, restarts>>
<1>1. /\ UNCHANGED <<log, recorded, client, unshown, restarts>>
      /\ term' = [term EXCEPT ![t] = Closed]
      /\ inbox' = [inbox EXCEPT ![t] = <<>>] /\ outbox' = [outbox EXCEPT ![t] = <<>>]
  BY DEF Break
<1>2. /\ Closed \in [open : BOOLEAN, sequence : Nat, pc : {"read", "report"}, ran : Nat]
      /\ ~Closed.open /\ Closed.sequence = 0 /\ Closed.pc = "read"
  BY DEF Closed
<1>3. /\ term \in [Terminals -> [open : BOOLEAN, sequence : Nat, pc : {"read", "report"}, ran : Nat]]
      /\ DOMAIN inbox = Terminals /\ DOMAIN outbox = Terminals
      /\ client' \in [Terminals -> [cursor : Nat, seen : SUBSET Nat]]
  BY <1>1 DEF TerminalTypeInv
<1>4. term' \in [Terminals -> [open : BOOLEAN, sequence : Nat, pc : {"read", "report"}, ran : Nat]]
  BY <1>1, <1>2, <1>3
<1>5. <<>> \in Seq(Inputs) /\ <<>> \in Seq(Outputs)
  OBVIOUS
<1>6. TerminalTypeInv'
  BY <1>1, <1>3, <1>4, <1>5, TypeKept
<1>7. Apart(t) /\ term'[t] = Closed /\ inbox'[t] = <<>> /\ outbox'[t] = <<>>
  BY <1>1, <1>3 DEF Apart
<1> QED
  BY <1>1, <1>2, <1>6, <1>7

\* A frame is taken, and answered with frames.
LEMMA AnswerFields ==
  ASSUME TerminalTypeInv, NEW t \in Terminals, NEW r \in Seq(Outputs),
         term[t].open, term[t].pc = "read", inbox[t] # <<>>,
         Took(t), outbox' = [outbox EXCEPT ![t] = @ \o r],
         UNCHANGED <<log, recorded, term, client, unshown, restarts>>
  PROVE  /\ TerminalTypeInv' /\ Apart(t)
         /\ inbox'[t] = Tail(inbox[t]) /\ outbox'[t] = outbox[t] \o r
         /\ term'[t] = term[t] /\ client'[t] = client[t]
<1>1. Tail(inbox[t]) \in Seq(Inputs) /\ outbox[t] \o r \in Seq(Outputs)
  BY TermFacts, HeadTailFacts, ConcatFacts
<1>2. /\ inbox' = [inbox EXCEPT ![t] = Tail(inbox[t])]
      /\ outbox' = [outbox EXCEPT ![t] = outbox[t] \o r]
  BY DEF Took
<1>3. /\ term' \in [Terminals -> [open : BOOLEAN, sequence : Nat, pc : {"read", "report"}, ran : Nat]]
      /\ DOMAIN inbox = Terminals /\ DOMAIN outbox = Terminals
      /\ client' \in [Terminals -> [cursor : Nat, seen : SUBSET Nat]]
  BY DEF TerminalTypeInv
<1>4. TerminalTypeInv'
  BY <1>1, <1>2, <1>3, TypeKept
<1>5. Apart(t) /\ inbox'[t] = Tail(inbox[t]) /\ outbox'[t] = outbox[t] \o r
  BY <1>2, <1>3 DEF Apart
<1> QED
  BY <1>4, <1>5

LEMMA ResumeFields ==
  ASSUME TerminalTypeInv, NEW t \in Terminals, Resume(t)
  PROVE  /\ TerminalTypeInv' /\ Apart(t)
         /\ term[t].open /\ term[t].pc = "read" /\ inbox[t] # <<>> /\ inbox[t][1].type = "resume"
         /\ inbox'[t] = Tail(inbox[t])
         /\ outbox'[t] = outbox[t] \o Answer(log, inbox[t][1].cursor, term[t].sequence)
         /\ term'[t] = term[t] /\ client'[t] = client[t]
         /\ UNCHANGED <<log, recorded, unshown, restarts>>
<1>1. /\ term[t].open /\ term[t].pc = "read" /\ inbox[t] # <<>> /\ Head(inbox[t]).type = "resume"
      /\ Took(t) /\ UNCHANGED <<log, recorded, term, client, unshown, restarts>>
  BY DEF Resume, Reads
<1>2. Head(inbox[t]) = inbox[t][1] /\ inbox[t][1] \in Inputs
  BY <1>1, TermFacts, HeadTailFacts
<1>3. outbox' = [outbox EXCEPT ![t] = @ \o Answer(log, inbox[t][1].cursor, term[t].sequence)]
  BY <1>2 DEF Resume, Sent, Replay, Answer
<1>4. inbox[t][1].cursor \in Nat
  BY <1>2 DEF Inputs
<1>5. Answer(log, inbox[t][1].cursor, term[t].sequence) \in Seq(Outputs)
  BY <1>4, TermFacts, AnswerIs
<1> QED
  BY <1>1, <1>2, <1>3, <1>5, AnswerFields

LEMMA AckFields ==
  ASSUME TerminalTypeInv, NEW t \in Terminals, Ack(t)
  PROVE  /\ TerminalTypeInv' /\ Apart(t)
         /\ term[t].open /\ term[t].pc = "read" /\ inbox[t] # <<>> /\ inbox[t][1].type = "ack"
         /\ inbox'[t] = Tail(inbox[t])
         /\ \E f \in Outputs : /\ f.cursor = term[t].sequence /\ f.shows = {}
                               /\ outbox'[t] = outbox[t] \o <<f>>
         /\ term'[t] = term[t] /\ client'[t] = client[t]
         /\ UNCHANGED <<log, recorded, unshown, restarts>>
<1>1. /\ term[t].open /\ term[t].pc = "read" /\ inbox[t] # <<>> /\ Head(inbox[t]).type = "ack"
      /\ Took(t) /\ UNCHANGED <<log, recorded, term, client, unshown, restarts>>
  BY DEF Ack, Reads
<1>2. Head(inbox[t]) = inbox[t][1]
  BY <1>1, TermFacts, HeadTailFacts
<1>3. PICK f : /\ f = [type |-> IF Head(inbox[t]).cursor > term[t].sequence THEN "error" ELSE "ack",
                       cursor |-> term[t].sequence, shows |-> {}]
               /\ outbox' = [outbox EXCEPT ![t] = @ \o <<f>>]
  BY DEF Ack, Sent
<1>4. f \in Outputs /\ f.cursor = term[t].sequence /\ f.shows = {}
  BY <1>3, TermFacts DEF Outputs
<1>5. <<f>> \in Seq(Outputs)
  BY <1>4, OneFacts
<1> QED
  BY <1>1, <1>2, <1>3, <1>4, <1>5, AnswerFields

LEMMA ReportFields ==
  ASSUME TerminalTypeInv, NEW t \in Terminals, ReportInput(t)
  PROVE  LET q == IF log = <<>> THEN term[t].sequence + 1 ELSE Len(log)
         IN  /\ TerminalTypeInv' /\ Apart(t)
             /\ term[t].open /\ term[t].pc = "report"
             /\ term'[t].open /\ term'[t].pc = "read" /\ term'[t].sequence = q
             /\ \E f \in Outputs : /\ f.cursor = q /\ f.shows = {term[t].ran}
                                   /\ outbox'[t] = outbox[t] \o <<f>>
             /\ inbox'[t] = inbox[t] /\ client'[t] = client[t]
             /\ UNCHANGED <<log, recorded, unshown, restarts>>
<1> DEFINE q == IF log = <<>> THEN term[t].sequence + 1 ELSE Len(log)
           f == [type |-> "output", cursor |-> q, shows |-> {term[t].ran}]
<1>1. /\ term[t].open /\ term[t].pc = "report"
      /\ UNCHANGED <<log, recorded, inbox, client, unshown, restarts>>
  BY DEF ReportInput
<1>2. q \in Nat
  BY TermFacts
<1>3. f \in Outputs /\ f.cursor = q /\ f.shows = {term[t].ran}
  BY <1>2, TermFacts DEF Outputs
<1>4. /\ term' = [term EXCEPT ![t].sequence = q, ![t].pc = "read"]
      /\ outbox' = [outbox EXCEPT ![t] = @ \o <<f>>]
  BY DEF ReportInput, Sent
<1> HIDE DEF q, f
<1>5. <<f>> \in Seq(Outputs)
  BY <1>3, OneFacts
<1>6. outbox[t] \o <<f>> \in Seq(Outputs) /\ outbox' = [outbox EXCEPT ![t] = outbox[t] \o <<f>>]
  BY <1>4, <1>5, TermFacts, ConcatFacts
<1>7. /\ term \in [Terminals -> [open : BOOLEAN, sequence : Nat, pc : {"read", "report"}, ran : Nat]]
      /\ DOMAIN outbox = Terminals /\ inbox' = [inbox EXCEPT ![t] = inbox[t]]
      /\ client' \in [Terminals -> [cursor : Nat, seen : SUBSET Nat]]
  BY <1>1 DEF TerminalTypeInv
<1>8. term' \in [Terminals -> [open : BOOLEAN, sequence : Nat, pc : {"read", "report"}, ran : Nat]]
  <2>1. [term[t] EXCEPT !.sequence = q, !.pc = "read"]
          \in [open : BOOLEAN, sequence : Nat, pc : {"read", "report"}, ran : Nat]
    BY <1>2, <1>7
  <2>2. term' = [term EXCEPT ![t] = [term[t] EXCEPT !.sequence = q, !.pc = "read"]]
    BY <1>4, <1>7
  <2>3. QED
    BY <1>7, <2>1, <2>2
<1>9. TerminalTypeInv'
  BY <1>1, <1>6, <1>7, <1>8, TermFacts, TypeKept
<1>10. /\ Apart(t) /\ term'[t].open = term[t].open /\ term'[t].pc = "read" /\ term'[t].sequence = q
       /\ outbox'[t] = outbox[t] \o <<f>>
  <2>1. Apart(t)
    BY <1>1, <1>4, <1>6, <1>7 DEF Apart
  <2>2. outbox'[t] = outbox[t] \o <<f>>
    BY <1>6, <1>7
  <2>3. term'[t].open = term[t].open /\ term'[t].pc = "read" /\ term'[t].sequence = q
    BY <1>4, <1>7
  <2>4. QED
    BY <2>1, <2>2, <2>3
<1> QED
  BY <1>1, <1>3, <1>9, <1>10 DEF q

LEMMA RecordFields ==
  ASSUME TerminalTypeInv, NEW writers, RecordEvent(writers)
  PROVE  /\ recorded' = recorded + 1 /\ recorded' \in Nat
         /\ log' = Append(log, recorded + 1) /\ log' \in Seq(Nat) /\ log' # <<>>
         /\ Len(log') = Len(log) + 1
         /\ \A i \in DOMAIN log' : log'[i] \in 1 .. recorded'
         /\ unshown' \in [Terminals -> SUBSET Nat]
         /\ \A u \in Terminals : unshown'[u] = IF u \notin writers /\ Follows(u)
                                             THEN unshown[u] \union {recorded + 1} ELSE unshown[u]
<1>1. /\ recorded' = recorded + 1 /\ log' = Append(log, recorded + 1)
      /\ unshown' = [u \in Terminals |-> IF u \notin writers /\ Follows(u)
                                         THEN unshown[u] \union {recorded + 1} ELSE unshown[u]]
  BY DEF RecordEvent
<1>2. /\ recorded \in Nat /\ recorded + 1 \in Nat /\ log \in Seq(Nat)
      /\ \A i \in DOMAIN log : log[i] \in 1 .. recorded
      /\ unshown \in [Terminals -> SUBSET Nat]
  BY DEF TerminalTypeInv
<1>3. /\ log' \in Seq(Nat) /\ DOMAIN log' = 1 .. Len(log) + 1 /\ Len(log') = Len(log) + 1
      /\ log'[Len(log) + 1] = recorded + 1
      /\ \A i \in 1 .. Len(log) : log'[i] = log[i]
      /\ DOMAIN log = 1 .. Len(log) /\ Len(log) \in Nat
  BY <1>1, <1>2, AppendFacts
<1>4. log' # <<>>
  BY <1>3, LenFacts
<1>5. \A i \in DOMAIN log' : log'[i] \in 1 .. recorded'
  <2>1. \A i \in DOMAIN log' : i = Len(log) + 1 \/ i \in DOMAIN log
    BY <1>3
  <2>2. \A i \in DOMAIN log' : log'[i] = recorded + 1 \/ log'[i] \in 1 .. recorded
    BY <1>2, <1>3, <2>1, Zenon
  <2> QED
    BY <1>1, <1>2, <2>2
<1>6. \A u \in Terminals : (IF u \notin writers /\ Follows(u)
                            THEN unshown[u] \union {recorded + 1} ELSE unshown[u]) \in SUBSET Nat
  BY <1>2
<1>7. unshown' \in [Terminals -> SUBSET Nat]
  BY <1>1, <1>6, Zenon
<1>8. \A u \in Terminals : unshown'[u] = IF u \notin writers /\ Follows(u)
                                        THEN unshown[u] \union {recorded + 1} ELSE unshown[u]
  BY <1>1, Zenon
<1> QED
  BY <1>1, <1>2, <1>3, <1>4, <1>5, <1>7, <1>8

LEMMA RunFields ==
  ASSUME TerminalTypeInv, NEW t \in Terminals, RunInput(t)
  PROVE  /\ TerminalTypeInv' /\ Apart(t) /\ RecordEvent({t})
         /\ term[t].open /\ term[t].pc = "read" /\ inbox[t] # <<>> /\ inbox[t][1].type = "input"
         /\ inbox'[t] = Tail(inbox[t]) /\ outbox'[t] = outbox[t] /\ client'[t] = client[t]
         /\ term'[t].open /\ term'[t].pc = "report" /\ term'[t].sequence = term[t].sequence
         /\ term'[t].ran = recorded + 1 /\ restarts' = restarts
<1>1. /\ term[t].open /\ term[t].pc = "read" /\ inbox[t] # <<>> /\ Head(inbox[t]).type = "input"
      /\ inbox' = [inbox EXCEPT ![t] = Tail(inbox[t])] /\ RecordEvent({t})
      /\ UNCHANGED <<outbox, client, restarts>>
  BY DEF RunInput, Reads, Took
<1>2. Head(inbox[t]) = inbox[t][1] /\ Tail(inbox[t]) \in Seq(Inputs)
  BY <1>1, TermFacts, HeadTailFacts
<1>3. /\ recorded' = recorded + 1 /\ recorded' \in Nat /\ log' \in Seq(Nat)
      /\ \A i \in DOMAIN log' : log'[i] \in 1 .. recorded'
      /\ unshown' \in [Terminals -> SUBSET Nat]
  BY <1>1, RecordFields
<1>4. term' = [term EXCEPT ![t].pc = "report", ![t].ran = recorded + 1]
  BY <1>3 DEF RunInput
<1>7. /\ term \in [Terminals -> [open : BOOLEAN, sequence : Nat, pc : {"read", "report"}, ran : Nat]]
      /\ inbox \in [Terminals -> Seq(Inputs)] /\ outbox' \in [Terminals -> Seq(Outputs)]
      /\ client' \in [Terminals -> [cursor : Nat, seen : SUBSET Nat]]
      /\ recorded + 1 \in Nat /\ restarts' \in Nat
  BY <1>1, <1>3 DEF TerminalTypeInv
<1>8. term' \in [Terminals -> [open : BOOLEAN, sequence : Nat, pc : {"read", "report"}, ran : Nat]]
  <2>1. [term[t] EXCEPT !.pc = "report", !.ran = recorded + 1]
          \in [open : BOOLEAN, sequence : Nat, pc : {"read", "report"}, ran : Nat]
    BY <1>7
  <2>2. term' = [term EXCEPT ![t] = [term[t] EXCEPT !.pc = "report", !.ran = recorded + 1]]
    BY <1>4, <1>7
  <2>3. QED
    BY <1>7, <2>1, <2>2
<1>9. inbox' \in [Terminals -> Seq(Inputs)]
  BY <1>1, <1>2, <1>7
<1>11. TerminalTypeInv'
  BY <1>3, <1>7, <1>8, <1>9 DEF TerminalTypeInv
<1>12. /\ Apart(t) /\ term'[t].open = term[t].open /\ term'[t].pc = "report"
       /\ term'[t].sequence = term[t].sequence /\ term'[t].ran = recorded + 1
       /\ inbox'[t] = Tail(inbox[t])
  BY <1>1, <1>4, <1>7 DEF Apart
<1> QED
  BY <1>1, <1>2, <1>11, <1>12

-----------------------------------------------------------------------------
\* The invariant.

LEMMA TerminalInitially == TerminalInit => TerminalInv
<1> SUFFICES ASSUME TerminalInit PROVE TerminalInv
  OBVIOUS
<1>1. /\ log = <<>> /\ recorded = 0 /\ restarts = 0
      /\ term = [t \in Terminals |-> Closed]
      /\ inbox = [t \in Terminals |-> <<>>] /\ outbox = [t \in Terminals |-> <<>>]
      /\ client = [t \in Terminals |-> [cursor |-> 0, seen |-> {}]]
      /\ unshown = [t \in Terminals |-> {}]
  BY DEF TerminalInit
<1>2. /\ Closed \in [open : BOOLEAN, sequence : Nat, pc : {"read", "report"}, ran : Nat]
      /\ ~Closed.open /\ Closed.sequence = 0 /\ Closed.pc = "read"
  BY DEF Closed
<1>3. /\ <<>> \in Seq(Inputs) /\ <<>> \in Seq(Outputs) /\ <<>> \in Seq(Nat)
      /\ Len(<<>>) = 0 /\ DOMAIN <<>> = {}
  OBVIOUS
<1>4. unshown \in [Terminals -> SUBSET Nat]
  <2>1. {} \in SUBSET Nat
    OBVIOUS
  <2> QED
    BY <1>1, <2>1, Zenon
<1>5. TerminalTypeInv
  BY <1>1, <1>2, <1>3, <1>4 DEF TerminalTypeInv
<1>6. ASSUME NEW t \in Terminals PROVE Shown(t) /\ Behind(t) /\ Ordered(t)
  <2>1. /\ term[t] = Closed /\ inbox[t] = <<>> /\ outbox[t] = <<>>
        /\ client[t].cursor = 0 /\ client[t].seen = {}
    BY <1>1
  <2>2. Shown(t)
    BY <1>2, <1>3, <2>1 DEF Shown
  <2>3. Behind(t)
    BY <1>1, <1>2, <1>3, <2>1 DEF Behind
  <2>4. Told(0, log, Me(t).seen, <<>>, 0)
    BY DEF Told
  <2>5. Me(t).cursor = 0
    BY <2>1 DEF Me
  <2>6. Ordered(t)
    BY <1>2, <2>1, <2>4, <2>5 DEF Ordered, InOrder
  <2> QED
    BY <2>2, <2>3, <2>6
<1> QED
  BY <1>5, <1>6 DEF TerminalInv

\* A step of one terminal that neither writes nor restarts.
LEMMA OwnStep ==
  ASSUME TerminalInv, NEW t \in Terminals, TerminalTypeInv', Apart(t),
         UNCHANGED <<log, recorded, unshown, restarts>>,
         Shown(t)', Behind(t)', restarts = 0 /\ Ordered(t) => Ordered(t)'
  PROVE  TerminalInv'
<1>1. ASSUME NEW u \in Terminals, u # t
      PROVE  (Shown(u) /\ Behind(u) /\ (restarts = 0 => Ordered(u)))'
  <2>1. /\ term'[u] = term[u] /\ inbox'[u] = inbox[u]
        /\ outbox'[u] = outbox[u] /\ client'[u] = client[u]
    BY <1>1 DEF Apart
  <2>2. Shown(u)'
    BY <2>1 DEF TerminalInv, Shown
  <2>3. Behind(u)'
    BY <2>1 DEF TerminalInv, Behind
  <2>4. Ordered(u) => Ordered(u)'
    BY <2>1 DEF Ordered, Me
  <2> QED
    BY <2>2, <2>3, <2>4 DEF TerminalInv
<1>2. (restarts = 0 => Ordered(t))'
  BY DEF TerminalInv
<1> QED
  BY <1>1, <1>2 DEF TerminalInv

LEMMA TheTerminal ==
  ASSUME TerminalInv, NEW t \in Terminals
  PROVE  TerminalTypeInv /\ Shown(t) /\ Behind(t)
BY DEF TerminalInv

LEMMA ConnectKeeps ==
  ASSUME TerminalInv, NEW t \in Terminals, Connect(t)
  PROVE  TerminalInv'
<1>1. TerminalTypeInv /\ Shown(t) /\ Behind(t)
  BY TheTerminal
<1>2. /\ TerminalTypeInv' /\ Apart(t)
      /\ ~term[t].open /\ term'[t].open
      /\ term'[t].sequence = Len(log) /\ term'[t].pc = "read"
      /\ inbox'[t] = <<[type |-> "resume", cursor |-> client[t].cursor]>>
      /\ outbox'[t] = outbox[t] /\ client'[t] = client[t]
      /\ UNCHANGED <<log, recorded, unshown, restarts>>
  BY <1>1, ConnectFields
<1>3. outbox[t] = <<>>
  BY <1>1, <1>2 DEF Shown
<1>4. Shown(t)'
  BY <1>1, <1>2 DEF Shown
<1>5. Len(log) \in Nat
  BY <1>1, TermFacts
<1>6. Behind(t)'
  BY <1>1, <1>2, <1>5 DEF Behind
<1>7. ASSUME Ordered(t) PROVE Ordered(t)'
  <2>1. InOrder(log, term[t], inbox[t], outbox[t], Me(t)) /\ Me(t).cursor = client[t].cursor
    BY <1>7 DEF Ordered, Me
  <2>2. term'[t].sequence <= Len(log)
    BY <1>2, <1>5
  <2>3. InOrder(log, term'[t], inbox'[t], outbox[t], Me(t))
    BY <1>2, <1>3, <2>1, <2>2, OrderedConnects
  <2> QED
    BY <1>2, <2>3 DEF Ordered, Me
<1> QED
  BY <1>2, <1>4, <1>6, <1>7, OwnStep

LEMMA SendKeeps ==
  ASSUME TerminalInv, NEW t \in Terminals, SendInput(t) \/ SendAck(t)
  PROVE  TerminalInv'
<1>1. TerminalTypeInv /\ Shown(t) /\ Behind(t)
  BY TheTerminal
<1>2. /\ TerminalTypeInv' /\ Apart(t) /\ term[t].open
      /\ \E m \in Inputs : m.type # "resume" /\ inbox'[t] = Append(inbox[t], m)
      /\ term'[t] = term[t] /\ outbox'[t] = outbox[t] /\ client'[t] = client[t]
      /\ UNCHANGED <<log, recorded, unshown, restarts>>
  BY <1>1, SendFields
<1>3. PICK m \in Inputs : m.type # "resume" /\ inbox'[t] = Append(inbox[t], m)
  BY <1>2
<1>4. Shown(t)'
  BY <1>1, <1>2 DEF Shown
<1>5. Behind(t)'
  BY <1>1, <1>2 DEF Behind
<1>6. inbox[t] \in Seq(Inputs)
  BY <1>1, TermFacts
<1>7. ASSUME Ordered(t) PROVE Ordered(t)'
  <2>1. InOrder(log, term[t], Append(inbox[t], m), outbox[t], Me(t))
    BY <1>3, <1>6, <1>7, OrderedSends DEF Ordered
  <2> QED
    BY <1>2, <1>3, <2>1 DEF Ordered, Me
<1> QED
  BY <1>2, <1>4, <1>5, <1>7, OwnStep

LEMMA ReceiveKeeps ==
  ASSUME TerminalInv, NEW t \in Terminals, Receive(t)
  PROVE  TerminalInv'
<1>1. TerminalTypeInv /\ Shown(t) /\ Behind(t)
  BY TheTerminal
<1>2. /\ TerminalTypeInv' /\ Apart(t) /\ term[t].open /\ outbox[t] # <<>>
      /\ outbox'[t] = Tail(outbox[t]) /\ term'[t] = term[t] /\ inbox'[t] = inbox[t]
      /\ client'[t].cursor = (IF Head(outbox[t]).cursor > client[t].cursor
                              THEN Head(outbox[t]).cursor ELSE client[t].cursor)
      /\ client'[t].seen = client[t].seen \union Head(outbox[t]).shows
      /\ UNCHANGED <<log, recorded, unshown, restarts>>
  BY <1>1, ReceiveFields
<1>3. /\ Head(outbox[t]) = outbox[t][1] /\ 1 \in DOMAIN outbox[t]
      /\ DOMAIN Tail(outbox[t]) = 1 .. Len(outbox[t]) - 1
      /\ \A i \in 1 .. Len(outbox[t]) - 1 :
            Tail(outbox[t])[i] = outbox[t][i + 1] /\ i + 1 \in DOMAIN outbox[t]
  BY <1>1, <1>2, TermFacts, HeadTailFacts
<1>4. Shown(t)'
  <2>1. client'[t].seen \subseteq 1 .. recorded
    BY <1>1, <1>2, <1>3 DEF Shown
  <2>2. \A j \in DOMAIN outbox'[t] : outbox'[t][j].shows \subseteq 1 .. recorded
    BY <1>1, <1>2, <1>3 DEF Shown
  <2> QED
    BY <1>1, <1>2, <2>1, <2>2 DEF Shown
<1>5. Behind(t)'
  <2>1. ASSUME restarts = 0
        PROVE  /\ client'[t].cursor <= Len(log)
               /\ \A j \in DOMAIN outbox'[t] : outbox'[t][j].cursor <= Len(log)
    <3>1. /\ client[t].cursor <= Len(log)
          /\ \A j \in DOMAIN outbox[t] : outbox[t][j].cursor <= Len(log)
      BY <1>1, <2>1 DEF Behind
    <3> QED
      BY <1>2, <1>3, <3>1
  <2> QED
    BY <1>1, <1>2, <2>1 DEF Behind
<1>6. outbox[t] \in Seq(Outputs) /\ client[t].cursor \in Nat /\ log \in Seq(Nat)
  BY <1>1, TermFacts
<1>7. ASSUME Ordered(t) PROVE Ordered(t)'
  <2>1. InOrder(log, term[t], inbox[t], outbox[t], Me(t))
    BY <1>7 DEF Ordered
  <2>2. /\ Me(t)' = [cursor |-> client'[t].cursor, seen |-> client'[t].seen \union unshown[t]]
        /\ Me(t) = [cursor |-> client[t].cursor, seen |-> client[t].seen \union unshown[t]]
    BY <1>2 DEF Me
  <2>3. /\ Me(t).cursor \in Nat /\ Me(t).cursor = client[t].cursor
        /\ Me(t)'.cursor = (IF Head(outbox[t]).cursor > Me(t).cursor
                            THEN Head(outbox[t]).cursor ELSE Me(t).cursor)
        /\ Me(t)'.seen = Me(t).seen \union Head(outbox[t]).shows
    BY <1>2, <1>6, <2>2
  <2>4. PICK me2 : me2 = Me(t)'
    OBVIOUS
  <2>5. InOrder(log, term[t], inbox[t], Tail(outbox[t]), me2)
    BY <1>2, <1>6, <2>1, <2>3, <2>4, OrderedReceives
  <2>6. log' = log /\ term'[t] = term[t] /\ inbox'[t] = inbox[t] /\ outbox'[t] = Tail(outbox[t])
    BY <1>2
  <2> QED
    BY <2>4, <2>5, <2>6 DEF Ordered
<1> QED
  BY <1>2, <1>4, <1>5, <1>7, OwnStep

LEMMA BreakKeeps ==
  ASSUME TerminalInv, NEW t \in Terminals, Break(t)
  PROVE  TerminalInv'
<1>1. TerminalTypeInv /\ Shown(t) /\ Behind(t)
  BY TheTerminal
<1>2. /\ TerminalTypeInv' /\ Apart(t)
      /\ ~term'[t].open /\ term'[t].sequence = 0 /\ term'[t].pc = "read"
      /\ inbox'[t] = <<>> /\ outbox'[t] = <<>> /\ client'[t] = client[t]
      /\ UNCHANGED <<log, recorded, unshown, restarts>>
  BY <1>1, BreakFields
<1>3. DOMAIN <<>> = {} /\ Len(log) \in Nat
  BY <1>1, TermFacts
<1>4. Shown(t)'
  BY <1>1, <1>2, <1>3 DEF Shown
<1>5. Behind(t)'
  BY <1>1, <1>2, <1>3 DEF Behind
<1>6. ASSUME Ordered(t) PROVE Ordered(t)'
  <2>1. InOrder(log, term'[t], inbox'[t], outbox'[t], Me(t))
    BY <1>2, <1>6, OrderedBreaks DEF Ordered
  <2> QED
    BY <1>2, <2>1 DEF Ordered, Me
<1> QED
  BY <1>2, <1>4, <1>5, <1>6, OwnStep

\* A frame more, of what was recorded and no later than the log.
LEMMA FramesMore ==
  ASSUME NEW out \in Seq(Outputs), NEW r \in Seq(Outputs), NEW all, NEW last \in Nat,
         \A j \in DOMAIN out : out[j].shows \subseteq all,
         \A j \in DOMAIN r : r[j].shows \subseteq all
  PROVE  /\ \A j \in DOMAIN (out \o r) : (out \o r)[j].shows \subseteq all
         /\ (\A j \in DOMAIN out : out[j].cursor <= last) /\ (\A j \in DOMAIN r : r[j].cursor <= last)
              => \A j \in DOMAIN (out \o r) : (out \o r)[j].cursor <= last
<1>1. /\ Len(out) \in Nat /\ DOMAIN out = 1 .. Len(out) /\ Len(r) \in Nat /\ DOMAIN r = 1 .. Len(r)
      /\ DOMAIN (out \o r) = 1 .. Len(out) + Len(r)
      /\ \A i \in 1 .. Len(out) : (out \o r)[i] = out[i]
      /\ \A i \in 1 .. Len(r) : (out \o r)[Len(out) + i] = r[i]
  BY ConcatFacts
<1>2. ASSUME NEW j \in DOMAIN (out \o r)
      PROVE  \/ j \in DOMAIN out /\ (out \o r)[j] = out[j]
             \/ \E i \in DOMAIN r : (out \o r)[j] = r[i]
  <2>1. CASE j <= Len(out)
    BY <1>1, <2>1
  <2>2. CASE ~(j <= Len(out))
    <3>1. j - Len(out) \in 1 .. Len(r) /\ Len(out) + (j - Len(out)) = j
      BY <1>1, <2>2
    <3> QED
      BY <1>1, <3>1
  <2> QED
    BY <2>1, <2>2
<1> QED
  BY <1>2

LEMMA ResumeKeeps ==
  ASSUME TerminalInv, NEW t \in Terminals, Resume(t)
  PROVE  TerminalInv'
<1> DEFINE from == inbox[t][1].cursor
           r    == Answer(log, from, term[t].sequence)
<1>1. TerminalTypeInv /\ Shown(t) /\ Behind(t)
  BY TheTerminal
<1>2. /\ TerminalTypeInv' /\ Apart(t)
      /\ term[t].open /\ term[t].pc = "read" /\ inbox[t] # <<>> /\ inbox[t][1].type = "resume"
      /\ inbox'[t] = Tail(inbox[t])
      /\ outbox'[t] = outbox[t] \o r
      /\ term'[t] = term[t] /\ client'[t] = client[t]
      /\ UNCHANGED <<log, recorded, unshown, restarts>>
  BY <1>1, ResumeFields
<1>3. /\ inbox[t] \in Seq(Inputs) /\ outbox[t] \in Seq(Outputs) /\ log \in Seq(Nat)
      /\ term[t].sequence \in Nat /\ client[t].cursor \in Nat /\ Len(log) \in Nat
      /\ DOMAIN log = 1 .. Len(log)
  BY <1>1, TermFacts, LenFacts
<1>4. from \in Nat
  <2>1. inbox[t][1] \in Inputs
    BY <1>2, <1>3, HeadTailFacts
  <2> QED
    BY <2>1 DEF Inputs
<1>5. r \in Seq(Outputs) /\ \E n \in Nat : IsAnswer(r, n, log, from, term[t].sequence)
  BY <1>3, <1>4, AnswerIs
<1>6. PICK n \in Nat : IsAnswer(r, n, log, from, term[t].sequence)
  BY <1>5
<1> HIDE DEF from, r
<1>7. ASSUME NEW j \in DOMAIN r
      PROVE  /\ r[j].shows \subseteq 1 .. recorded
             /\ term[t].sequence <= Len(log) => r[j].cursor <= Len(log)
  <2>1. CASE j \in 1 .. n
    <3>1. from + j \in DOMAIN log /\ r[j].cursor = from + j /\ r[j].shows = {log[from + j]}
      BY <1>6, <2>1 DEF IsAnswer
    <3>2. log[from + j] \in 1 .. recorded
      BY <1>1, <3>1 DEF TerminalTypeInv
    <3>3. from + j <= Len(log)
      BY <1>3, <3>1
    <3> QED
      BY <3>1, <3>2, <3>3
  <2>2. CASE j = n + 1
    BY <1>6, <2>2 DEF IsAnswer
  <2>3. j \in 1 .. n + 1
    BY <1>6 DEF IsAnswer
  <2> QED
    BY <2>1, <2>2, <2>3
<1>8. Shown(t)'
  <2>1. \A j \in DOMAIN outbox'[t] : outbox'[t][j].shows \subseteq 1 .. recorded
    BY <1>1, <1>2, <1>3, <1>5, <1>7, FramesMore DEF Shown
  <2> QED
    BY <1>1, <1>2, <2>1 DEF Shown
<1>9. Behind(t)'
  <2>1. ASSUME restarts = 0
        PROVE  \A j \in DOMAIN outbox'[t] : outbox'[t][j].cursor <= Len(log)
    <3>1. /\ \A j \in DOMAIN outbox[t] : outbox[t][j].cursor <= Len(log)
          /\ \A j \in DOMAIN r : r[j].cursor <= Len(log)
      BY <1>1, <1>7, <2>1 DEF Behind
    <3> QED
      BY <1>1, <1>2, <1>3, <1>5, <1>7, <3>1, FramesMore DEF Shown
  <2> QED
    BY <1>1, <1>2, <2>1 DEF Behind
<1>10. ASSUME Ordered(t) PROVE Ordered(t)'
  <2>1. InOrder(log, term[t], inbox[t], outbox[t], Me(t)) /\ Me(t).cursor \in Nat
    BY <1>3, <1>10 DEF Ordered, Me
  <2>2. InOrder(log, term[t], Tail(inbox[t]), outbox[t] \o r, Me(t))
    BY <1>2, <1>3, <2>1, OrderedResumes DEF r, from
  <2> QED
    BY <1>2, <2>2 DEF Ordered, Me
<1> QED
  BY <1>2, <1>8, <1>9, <1>10, OwnStep

LEMMA AckKeeps ==
  ASSUME TerminalInv, NEW t \in Terminals, Ack(t)
  PROVE  TerminalInv'
<1>1. TerminalTypeInv /\ Shown(t) /\ Behind(t)
  BY TheTerminal
<1>2. /\ TerminalTypeInv' /\ Apart(t)
      /\ term[t].open /\ term[t].pc = "read" /\ inbox[t] # <<>> /\ inbox[t][1].type = "ack"
      /\ inbox'[t] = Tail(inbox[t])
      /\ \E f \in Outputs : /\ f.cursor = term[t].sequence /\ f.shows = {}
                            /\ outbox'[t] = outbox[t] \o <<f>>
      /\ term'[t] = term[t] /\ client'[t] = client[t]
      /\ UNCHANGED <<log, recorded, unshown, restarts>>
  BY <1>1, AckFields
<1>3. PICK f \in Outputs : /\ f.cursor = term[t].sequence /\ f.shows = {}
                           /\ outbox'[t] = outbox[t] \o <<f>>
  BY <1>2
<1>4. /\ inbox[t] \in Seq(Inputs) /\ outbox[t] \in Seq(Outputs)
      /\ term[t].sequence \in Nat /\ Len(log) \in Nat /\ log \in Seq(Nat)
  BY <1>1, TermFacts
<1>5. <<f>> \in Seq(Outputs) /\ DOMAIN <<f>> = {1} /\ <<f>>[1] = f
  BY OneFacts
<1>6. \A j \in DOMAIN <<f>> : <<f>>[j].shows \subseteq 1 .. recorded /\ <<f>>[j].cursor = term[t].sequence
  BY <1>3, <1>5
<1>7. Shown(t)'
  <2>1. \A j \in DOMAIN outbox'[t] : outbox'[t][j].shows \subseteq 1 .. recorded
    BY <1>1, <1>3, <1>4, <1>5, <1>6, FramesMore DEF Shown
  <2> QED
    BY <1>1, <1>2, <2>1 DEF Shown
<1>8. Behind(t)'
  <2>1. ASSUME restarts = 0
        PROVE  \A j \in DOMAIN outbox'[t] : outbox'[t][j].cursor <= Len(log)
    <3>1. /\ \A j \in DOMAIN outbox[t] : outbox[t][j].cursor <= Len(log)
          /\ \A j \in DOMAIN <<f>> : <<f>>[j].cursor <= Len(log)
      BY <1>1, <1>6, <2>1 DEF Behind
    <3> QED
      BY <1>1, <1>3, <1>4, <1>5, <1>6, <3>1, FramesMore DEF Shown
  <2> QED
    BY <1>1, <1>2, <2>1 DEF Behind
<1>9. ASSUME Ordered(t) PROVE Ordered(t)'
  <2>1. InOrder(log, term[t], inbox[t], outbox[t], Me(t))
    BY <1>9 DEF Ordered
  <2>2. InOrder(log, term[t], Tail(inbox[t]), outbox[t] \o <<f>>, Me(t))
    BY <1>2, <1>3, <1>4, <2>1, OrderedAcks
  <2> QED
    BY <1>2, <1>3, <2>2 DEF Ordered, Me
<1> QED
  BY <1>2, <1>7, <1>8, <1>9, OwnStep

LEMMA ReportKeeps ==
  ASSUME TerminalInv, NEW t \in Terminals, ReportInput(t)
  PROVE  TerminalInv'
<1> DEFINE q == IF log = <<>> THEN term[t].sequence + 1 ELSE Len(log)
<1>1. TerminalTypeInv /\ Shown(t) /\ Behind(t)
  BY TheTerminal
<1>2. /\ TerminalTypeInv' /\ Apart(t)
      /\ term[t].open /\ term[t].pc = "report"
      /\ term'[t].open /\ term'[t].pc = "read" /\ term'[t].sequence = q
      /\ \E f \in Outputs : /\ f.cursor = q /\ f.shows = {term[t].ran}
                            /\ outbox'[t] = outbox[t] \o <<f>>
      /\ inbox'[t] = inbox[t] /\ client'[t] = client[t]
      /\ UNCHANGED <<log, recorded, unshown, restarts>>
  BY <1>1, ReportFields
<1>3. PICK f \in Outputs : /\ f.cursor = q /\ f.shows = {term[t].ran}
                           /\ outbox'[t] = outbox[t] \o <<f>>
  BY <1>2
<1>4. /\ outbox[t] \in Seq(Outputs) /\ term[t].sequence \in Nat /\ Len(log) \in Nat
      /\ log \in Seq(Nat)
  BY <1>1, TermFacts
<1>5. <<f>> \in Seq(Outputs) /\ DOMAIN <<f>> = {1} /\ <<f>>[1] = f
  BY OneFacts
<1>6. log # <<>> => q = Len(log)
  OBVIOUS
<1> HIDE DEF q
<1>7. \A j \in DOMAIN <<f>> : <<f>>[j].shows \subseteq 1 .. recorded /\ <<f>>[j].cursor = q
  BY <1>1, <1>2, <1>3, <1>5 DEF Shown
<1>8. Shown(t)'
  <2>1. \A j \in DOMAIN outbox'[t] : outbox'[t][j].shows \subseteq 1 .. recorded
    BY <1>1, <1>3, <1>4, <1>5, <1>7, FramesMore DEF Shown
  <2> QED
    BY <1>1, <1>2, <2>1 DEF Shown
<1>9. Behind(t)'
  <2>1. ASSUME restarts = 0
        PROVE  q = Len(log) /\ \A j \in DOMAIN outbox'[t] : outbox'[t][j].cursor <= Len(log)
    <3>1. /\ \A j \in DOMAIN outbox[t] : outbox[t][j].cursor <= Len(log)
          /\ q = Len(log)
      BY <1>1, <1>2, <1>6, <2>1 DEF Behind
    <3>2. \A j \in DOMAIN <<f>> : <<f>>[j].cursor <= Len(log)
      BY <1>4, <1>7, <3>1
    <3> QED
      BY <1>1, <1>3, <1>4, <1>5, <1>7, <3>1, <3>2, FramesMore DEF Shown
  <2>2. restarts = 0 => term'[t].sequence <= Len(log) /\ client'[t].cursor <= Len(log)
    <3>1. restarts = 0 => client[t].cursor <= Len(log)
      BY <1>1 DEF Behind
    <3> QED
      BY <1>2, <1>4, <2>1, <3>1
  <2>3. restarts' = restarts /\ log' = log /\ term'[t].pc = "read"
    BY <1>2
  <2> QED
    BY <2>1, <2>2, <2>3 DEF Behind
<1>10. ASSUME restarts = 0, Ordered(t) PROVE Ordered(t)'
  <2>1. InOrder(log, term[t], inbox[t], outbox[t], Me(t))
    BY <1>10 DEF Ordered
  <2>2. q = Len(log)
    BY <1>1, <1>2, <1>6, <1>10 DEF Behind
  <2>3. InOrder(log, term'[t], inbox[t], outbox[t] \o <<f>>, Me(t))
    BY <1>2, <1>3, <1>4, <2>1, <2>2, OrderedReports
  <2> QED
    BY <1>2, <1>3, <2>3 DEF Ordered, Me
<1> QED
  BY <1>2, <1>8, <1>9, <1>10, OwnStep

\* A terminal, when an event is recorded by another.
LEMMA OthersRecord ==
  ASSUME TerminalInv, NEW u \in Terminals, NEW writers, u \notin writers, RecordEvent(writers),
         restarts' = restarts, term'[u] = term[u], inbox'[u] = inbox[u],
         outbox'[u] = outbox[u], client'[u] = client[u]
  PROVE  (Shown(u) /\ Behind(u) /\ (restarts = 0 => Ordered(u)))'
<1>1. TerminalTypeInv /\ Shown(u) /\ Behind(u)
  BY TheTerminal
<1>2. /\ recorded' = recorded + 1 /\ log' = Append(log, recorded + 1) /\ log' # <<>>
      /\ Len(log') = Len(log) + 1
      /\ unshown'[u] = IF Follows(u) THEN unshown[u] \union {recorded + 1} ELSE unshown[u]
  BY <1>1, RecordFields
<1>3. /\ inbox[u] \in Seq(Inputs) /\ outbox[u] \in Seq(Outputs) /\ log \in Seq(Nat)
      /\ term[u].sequence \in Nat /\ client[u].cursor \in Nat
      /\ recorded \in Nat /\ recorded + 1 \in Nat /\ Len(log) \in Nat
      /\ \A j \in DOMAIN outbox[u] : outbox[u][j].cursor \in Nat
  BY <1>1, TermFacts, OutputFacts
<1>4. 1 .. recorded \subseteq 1 .. recorded'
  BY <1>2, <1>3
<1>5. Shown(u)'
  BY <1>1, <1>4 DEF Shown
<1>6. Behind(u)'
  <2>1. restarts' = 0 =>
          /\ term[u].sequence <= Len(log) /\ client[u].cursor <= Len(log)
          /\ \A j \in DOMAIN outbox[u] : outbox[u][j].cursor <= Len(log)
    BY <1>1 DEF Behind
  <2>2. restarts' = 0 =>
          /\ term[u].sequence <= Len(log') /\ client[u].cursor <= Len(log')
          /\ \A j \in DOMAIN outbox[u] : outbox[u][j].cursor <= Len(log')
    BY <1>2, <1>3, <2>1
  <2> QED
    BY <1>2, <2>2 DEF Behind
<1>7. ASSUME Ordered(u) PROVE Ordered(u)'
  <2>1. InOrder(log, term[u], inbox[u], outbox[u], Me(u)) /\ Me(u).cursor \in Nat
    BY <1>3, <1>7 DEF Ordered, Me
  <2>2. /\ Me(u)' = [cursor |-> client[u].cursor, seen |-> client[u].seen \union unshown'[u]]
        /\ Me(u) = [cursor |-> client[u].cursor, seen |-> client[u].seen \union unshown[u]]
    BY DEF Me
  <2>3. PICK me2 : me2 = Me(u)'
    OBVIOUS
  <2>4. me2.cursor = Me(u).cursor
    BY <2>2, <2>3
  <2>5. CASE Follows(u)
    <3>1. me2.seen = Me(u).seen \union {recorded + 1}
      BY <1>2, <2>2, <2>3, <2>5
    <3>2. InOrder(Append(log, recorded + 1), term[u], inbox[u], outbox[u], me2)
      BY <1>3, <2>1, <2>4, <2>5, <3>1, OrderedLonger DEF Follows
    <3> QED
      BY <1>2, <2>3, <3>2 DEF Ordered
  <2>6. CASE ~Follows(u)
    <3>1. me2 = Me(u)
      BY <1>2, <2>2, <2>3, <2>6
    <3>2. InOrder(Append(log, recorded + 1), term[u], inbox[u], outbox[u], me2)
      BY <1>3, <2>1, <2>4, <2>6, <3>1, OrderedLonger DEF Follows
    <3> QED
      BY <1>2, <2>3, <3>2 DEF Ordered
  <2> QED
    BY <2>5, <2>6
<1> QED
  BY <1>5, <1>6, <1>7 DEF TerminalInv

LEMMA ElsewhereKeeps == TerminalInv /\ RunElsewhere => TerminalInv'
<1> SUFFICES ASSUME TerminalInv, RunElsewhere PROVE TerminalInv'
  OBVIOUS
<1>1. RecordEvent({}) /\ UNCHANGED <<term, inbox, outbox, client, restarts>>
  BY DEF RunElsewhere
<1>2. TerminalTypeInv
  BY DEF TerminalInv
<1>3. /\ recorded' \in Nat /\ log' \in Seq(Nat)
      /\ \A i \in DOMAIN log' : log'[i] \in 1 .. recorded'
      /\ unshown' \in [Terminals -> SUBSET Nat]
  BY <1>1, <1>2, RecordFields
<1>4. TerminalTypeInv'
  BY <1>1, <1>2, <1>3 DEF TerminalTypeInv
<1>5. ASSUME NEW u \in Terminals PROVE (Shown(u) /\ Behind(u) /\ (restarts = 0 => Ordered(u)))'
  BY <1>1, OthersRecord
<1> QED
  BY <1>4, <1>5 DEF TerminalInv

LEMMA RunKeeps ==
  ASSUME TerminalInv, NEW t \in Terminals, RunInput(t)
  PROVE  TerminalInv'
<1>1. TerminalTypeInv /\ Shown(t) /\ Behind(t)
  BY TheTerminal
<1>2. /\ TerminalTypeInv' /\ Apart(t) /\ RecordEvent({t})
      /\ term[t].open /\ term[t].pc = "read" /\ inbox[t] # <<>> /\ inbox[t][1].type = "input"
      /\ inbox'[t] = Tail(inbox[t]) /\ outbox'[t] = outbox[t] /\ client'[t] = client[t]
      /\ term'[t].open /\ term'[t].pc = "report" /\ term'[t].sequence = term[t].sequence
      /\ term'[t].ran = recorded + 1 /\ restarts' = restarts
  BY <1>1, RunFields
<1>3. /\ inbox[t] \in Seq(Inputs) /\ outbox[t] \in Seq(Outputs) /\ log \in Seq(Nat)
      /\ term[t].sequence \in Nat /\ client[t].cursor \in Nat
      /\ recorded \in Nat /\ recorded + 1 \in Nat /\ Len(log) \in Nat
  BY <1>1, TermFacts
<1>4. /\ recorded' = recorded + 1 /\ log' = Append(log, recorded + 1) /\ log' # <<>>
      /\ Len(log') = Len(log) + 1 /\ unshown'[t] = unshown[t]
  BY <1>1, <1>2, RecordFields
<1>5. 1 .. recorded \subseteq 1 .. recorded' /\ recorded + 1 \in 1 .. recorded'
  BY <1>3, <1>4
<1>6. ASSUME NEW u \in Terminals, u # t
      PROVE  (Shown(u) /\ Behind(u) /\ (restarts = 0 => Ordered(u)))'
  <2>1. /\ term'[u] = term[u] /\ inbox'[u] = inbox[u]
        /\ outbox'[u] = outbox[u] /\ client'[u] = client[u]
    BY <1>2, <1>6 DEF Apart
  <2>2. u \notin {t}
    BY <1>6
  <2> QED
    BY <1>2, <2>1, <2>2, OthersRecord
<1>7. Shown(t)'
  BY <1>1, <1>2, <1>5 DEF Shown
<1>8. Behind(t)'
  <2>1. \A j \in DOMAIN outbox[t] : outbox[t][j].cursor \in Nat
    BY <1>3, OutputFacts
  <2>2. restarts' = 0 =>
          /\ term[t].sequence <= Len(log) /\ client[t].cursor <= Len(log)
          /\ \A j \in DOMAIN outbox[t] : outbox[t][j].cursor <= Len(log)
    BY <1>1, <1>2 DEF Behind
  <2>3. restarts' = 0 =>
          /\ term[t].sequence <= Len(log') /\ client[t].cursor <= Len(log')
          /\ \A j \in DOMAIN outbox[t] : outbox[t][j].cursor <= Len(log')
    BY <1>3, <1>4, <2>1, <2>2
  <2> QED
    BY <1>2, <1>4, <2>3 DEF Behind
<1>9. ASSUME Ordered(t) PROVE Ordered(t)'
  <2>1. InOrder(log, term[t], inbox[t], outbox[t], Me(t)) /\ Me(t).cursor \in Nat
    BY <1>3, <1>9 DEF Ordered, Me
  <2>2. InOrder(Append(log, recorded + 1), term'[t], Tail(inbox[t]), outbox[t], Me(t))
    BY <1>2, <1>3, <2>1, OrderedRuns
  <2> QED
    BY <1>2, <1>4, <2>2 DEF Ordered, Me
<1>10. (restarts = 0 => Ordered(t))'
  BY <1>2, <1>9 DEF TerminalInv
<1> QED
  BY <1>2, <1>6, <1>7, <1>8, <1>10 DEF TerminalInv

LEMMA RestartKeeps == TerminalInv /\ RestartSession => TerminalInv'
<1> SUFFICES ASSUME TerminalInv, RestartSession PROVE TerminalInv'
  OBVIOUS
<1>1. /\ log' = <<>> /\ restarts' = restarts + 1
      /\ UNCHANGED <<recorded, term, inbox, outbox, client, unshown>>
  BY DEF RestartSession
<1>2. TerminalTypeInv
  BY DEF TerminalInv
<1>3. restarts \in Nat /\ restarts' \in Nat /\ restarts' # 0
  BY <1>1, <1>2 DEF TerminalTypeInv
<1>5. log' \in Seq(Nat) /\ DOMAIN log' = {}
  BY <1>1
<1>6. TerminalTypeInv'
  BY <1>1, <1>2, <1>3, <1>5 DEF TerminalTypeInv
<1>7. ASSUME NEW t \in Terminals PROVE Shown(t)' /\ Behind(t)'
  BY <1>1, <1>3, TheTerminal DEF Shown, Behind
<1> QED
  BY <1>3, <1>6, <1>7 DEF TerminalInv

LEMMA TerminalAlways == TerminalSpec => []TerminalInv
<1>1. TerminalInv /\ [TerminalNext]_terminalVars => TerminalInv'
  <2> SUFFICES ASSUME TerminalInv, [TerminalNext]_terminalVars PROVE TerminalInv'
    OBVIOUS
  <2>1. ASSUME NEW t \in Terminals, \/ Connect(t) \/ SendInput(t) \/ SendAck(t) \/ Receive(t)
                                    \/ Break(t) \/ RunInput(t) \/ ReportInput(t) \/ Resume(t) \/ Ack(t)
        PROVE  TerminalInv'
    BY <2>1, ConnectKeeps, SendKeeps, ReceiveKeeps, BreakKeeps, RunKeeps, ReportKeeps,
       ResumeKeeps, AckKeeps
  <2>2. CASE RunElsewhere \/ RestartSession
    BY <2>2, ElsewhereKeeps, RestartKeeps
  <2>3. CASE UNCHANGED terminalVars
    BY <2>3 DEF terminalVars, TerminalInv, TerminalTypeInv, Shown, Behind, Ordered, Me
  <2> QED
    BY <2>1, <2>2, <2>3 DEF TerminalNext
<1> QED
  BY <1>1, TerminalInitially, PTL DEF TerminalSpec

-----------------------------------------------------------------------------
\* The timeline and the clients hold recorded events only, and a connection
\* that is down has no frames (terminal of server.go).
THEOREM TerminalTypesKept == TerminalSpec => []TerminalTypeOK
<1>1. TerminalInv => TerminalTypeOK
  <2> SUFFICES ASSUME TerminalInv PROVE TerminalTypeOK
    OBVIOUS
  <2>1. \A i \in DOMAIN log : log[i] \in 1 .. recorded
    BY DEF TerminalInv, TerminalTypeInv
  <2>2. ASSUME NEW t \in Terminals
        PROVE  /\ term[t].pc \in {"read", "report"} /\ client[t].seen \subseteq 1 .. recorded
               /\ ~term[t].open => inbox[t] = <<>> /\ outbox[t] = <<>>
    BY TheTerminal, TermFacts DEF Shown
  <2> QED
    BY <2>1, <2>2 DEF TerminalTypeOK
<1> QED
  BY <1>1, TerminalAlways, PTL

\* For any number of terminals, connections, frames under way and other
\* writers: until a restart, what a client's cursor stands for was shown to it,
\* but for the events that others recorded while the terminal was connected and
\* had resumed, its own earlier lines run late among them.
THEOREM NothingEverMissed == TerminalSpec => []NothingMissed
<1>1. TerminalInv => NothingMissed
  <2> SUFFICES ASSUME TerminalInv PROVE NothingMissed
    OBVIOUS
  <2>1. ASSUME restarts = 0, NEW t \in Terminals, NEW i \in 1 .. client[t].cursor
        PROVE  i \in DOMAIN log /\ log[i] \in client[t].seen \union unshown[t]
    <3>1. Ordered(t)
      BY <2>1 DEF TerminalInv
    <3>2. Told(Me(t).cursor, log, Me(t).seen, <<>>, 0)
      BY <3>1 DEF Ordered, InOrder
    <3>3. Me(t).cursor = client[t].cursor /\ Me(t).seen = client[t].seen \union unshown[t]
      BY DEF Me
    <3> QED
      BY <2>1, <3>2, <3>3 DEF Told, Reaches
  <2> QED
    BY <2>1 DEF NothingMissed
<1> QED
  BY <1>1, TerminalAlways, PTL

-----------------------------------------------------------------------------
(***************************************************************************)
(* ShellParser: any letters and operators, and lines of any length.        *)
(***************************************************************************)

Runes == Letters \union Quotable \union Punctuation \union {"1", "2", Single, Double, Backslash, " "}
Text == Seq(Runes)

-----------------------------------------------------------------------------
\* The parser and the grammar

Redirected == Seq([operator : Text, target : Text])
Parsed == [words : Seq(Text), redirections : Redirected]
Pipeline == [previous : Text, commands : Seq(Parsed)]
ParseState ==
  [statements : Seq(Pipeline), previous : Text, commands : Seq(Parsed), words : Seq(Text),
   redirections : Redirected, redirection : Text, refused : BOOLEAN]
Part == [op : Text, words : Seq(Text), redirections : Redirected]
ReadState == [segs : Seq(Part), last : Part, wants : Text]

LEMMA OperatorTokens ==
  /\ <<>> \in Text /\ Pipe \in Text /\ Pipe \notin Connectors /\ Pipe \notin Redirectors
  /\ Connectors \intersect Redirectors = {} /\ <<>> \notin Special
  BY DEF Text, Runes, Pipe, Connectors, Redirectors, OutErr, Punctuation, Special

LEMMA OneRune ==
  ASSUME NEW r \in Runes
  PROVE  <<r>> \in Text
<1>1. <<r>> \in Seq(Runes)
  OBVIOUS
<1>2. QED
  BY <1>1 DEF Text

LEMMA TwoRunes ==
  ASSUME NEW r \in Runes, NEW q \in Runes
  PROVE  <<r, q>> \in Text
<1>1. <<r, q>> \in Seq(Runes)
  OBVIOUS
<1>2. QED
  BY <1>1 DEF Text

LEMMA FourRunes ==
  ASSUME NEW a \in Runes, NEW b \in Runes, NEW c \in Runes, NEW d \in Runes
  PROVE  <<a, b, c, d>> \in Text
<1>1. <<a, b, c, d>> \in Seq(Runes)
  OBVIOUS
<1>2. QED
  BY <1>1 DEF Text

LEMMA SpecialTokens == Special \subseteq Text
<1>1. "|" \in Runes /\ ";" \in Runes /\ "&" \in Runes /\ ">" \in Runes /\ "<" \in Runes /\ "2" \in Runes /\ "1" \in Runes
  BY DEF Runes, Punctuation
<1>2. <<"|">> \in Text /\ <<";">> \in Text /\ <<">">> \in Text /\ <<"<">> \in Text
  BY <1>1, OneRune
<1>3. <<"|", "|">> \in Text /\ <<"&", "&">> \in Text /\ <<">", ">">> \in Text /\ <<"2", ">">> \in Text
  BY <1>1, TwoRunes
<1>4. <<"2", ">", "&", "1">> \in Text
  BY <1>1, FourRunes
<1>5. QED
  BY <1>2, <1>3, <1>4, Zenon DEF Special, Pipe, Connectors, Redirectors, OutErr

LEMMA NothingType == Nothing \in ParseState
  BY OperatorTokens DEF Nothing, ParseState, Redirected

LEMMA FlushCommandIs ==
  ASSUME NEW p \in ParseState, p.words # <<>>
  PROVE  LET q == FlushCommand(p)
             c == [words |-> p.words, redirections |-> p.redirections]
         IN /\ q \in ParseState /\ c \in Parsed
            /\ q.statements = p.statements /\ q.previous = p.previous /\ q.commands = Append(p.commands, c)
            /\ q.words = <<>> /\ q.redirections = <<>> /\ q.redirection = p.redirection
            /\ q.refused = p.refused
<1> DEFINE c == [words |-> p.words, redirections |-> p.redirections]
           cs == Append(p.commands, c)
           q == [p EXCEPT !.commands = cs, !.words = <<>>, !.redirections = <<>>]
<1>1. c \in Parsed
  BY DEF Parsed, ParseState
<1>2. FlushCommand(p) = q
  BY DEF FlushCommand
<1> HIDE DEF c
<1>3. cs \in Seq(Parsed) /\ <<>> \in Redirected /\ <<>> \in Seq(Text)
  BY <1>1 DEF ParseState, Redirected
<1> HIDE DEF cs
<1>4. /\ q \in ParseState
      /\ q.statements = p.statements /\ q.previous = p.previous /\ q.commands = cs
      /\ q.words = <<>> /\ q.redirections = <<>> /\ q.redirection = p.redirection
      /\ q.refused = p.refused
  BY <1>3 DEF ParseState
<1> HIDE DEF q
<1>5. QED
  BY <1>1, <1>2, <1>4 DEF c, cs

\* A pipeline that is not refused is a statement more.
LEMMA FlushPipelineIs ==
  ASSUME NEW p \in ParseState, p.words # <<>> \/ p.commands # <<>>
  PROVE  LET q == FlushPipeline(p)
             c == [words |-> p.words, redirections |-> p.redirections]
             st == [previous |-> p.previous,
                    commands |-> IF p.words = <<>> THEN p.commands ELSE Append(p.commands, c)]
         IN /\ q \in ParseState /\ st \in Pipeline
            /\ q.statements = Append(p.statements, st) /\ q.commands = <<>>
            /\ q.words = <<>> /\ q.redirections = (IF p.words = <<>> THEN p.redirections ELSE <<>>)
            /\ q.redirection = p.redirection /\ q.refused = p.refused
<1> DEFINE c == [words |-> p.words, redirections |-> p.redirections]
           r == IF p.words # <<>> THEN FlushCommand(p) ELSE p
           st == [previous |-> r.previous, commands |-> r.commands]
           sts == Append(r.statements, st)
           q == [r EXCEPT !.statements = sts, !.commands = <<>>]
<1>1. /\ r \in ParseState /\ c \in Parsed
      /\ r.statements = p.statements /\ r.previous = p.previous /\ r.words = <<>>
      /\ r.commands = (IF p.words = <<>> THEN p.commands ELSE Append(p.commands, c))
      /\ r.redirections = (IF p.words = <<>> THEN p.redirections ELSE <<>>)
      /\ r.redirection = p.redirection /\ r.refused = p.refused
  <2>1. CASE p.words = <<>>
    BY <2>1 DEF ParseState, Parsed
  <2>2. CASE p.words # <<>>
    BY <2>2, FlushCommandIs
  <2>3. QED
    BY <2>1, <2>2
<1>2. r.commands # <<>>
  <2>1. p.commands \in Seq(Parsed)
    BY DEF ParseState
  <2>2. Append(p.commands, c) # <<>>
    BY <1>1, <2>1
  <2>3. QED
    BY <1>1, <2>2
<1>3. FlushPipeline(p) = q
  BY <1>2 DEF FlushPipeline
<1> HIDE DEF c, r
<1>4. st \in Pipeline /\ r.statements \in Seq(Pipeline)
  BY <1>1 DEF Pipeline, ParseState
<1>5. sts \in Seq(Pipeline) /\ <<>> \in Seq(Parsed)
  BY <1>4
<1>6. sts = Append(p.statements, st)
  BY <1>1
<1> HIDE DEF sts
<1>7. /\ q \in ParseState /\ q.statements = sts /\ q.commands = <<>> /\ q.words = r.words
      /\ q.redirections = r.redirections /\ q.redirection = r.redirection /\ q.refused = r.refused
  BY <1>1, <1>5 DEF ParseState
<1> HIDE DEF q
<1>8. st = [previous |-> p.previous,
            commands |-> IF p.words = <<>> THEN p.commands ELSE Append(p.commands, c)]
  BY <1>1
<1> HIDE DEF st
<1>9. QED
  BY <1>1, <1>3, <1>4, <1>6, <1>7, <1>8 DEF c

LEMMA RefuseType ==
  ASSUME NEW p \in ParseState
  PROVE  [p EXCEPT !.refused = TRUE] \in ParseState
  BY DEF ParseState

LEMMA TakeType ==
  ASSUME NEW p \in ParseState, NEW t \in Text
  PROVE  Take(p, t) \in ParseState
<1>1. CASE p.refused
  BY <1>1 DEF Take
<1>2. CASE ~p.refused /\ p.redirection # <<>>
  <2> DEFINE r == [operator |-> p.redirection, target |-> t]
             rs == Append(p.redirections, r)
  <2>1. rs \in Redirected
    BY DEF ParseState, Redirected
  <2> HIDE DEF rs
  <2>2. [p EXCEPT !.redirections = rs, !.redirection = <<>>] \in ParseState
    BY <2>1, OperatorTokens DEF ParseState
  <2>3. QED
    BY <1>2, <2>2 DEF Take, rs
<1>3. CASE ~p.refused /\ p.redirection = <<>> /\ t = Pipe
  <2>1. FlushCommand(p) \in ParseState
    <3>1. CASE p.words = <<>>
      BY <3>1, RefuseType DEF FlushCommand
    <3>2. CASE p.words # <<>>
      BY <3>2, FlushCommandIs
    <3>3. QED
      BY <3>1, <3>2
  <2>2. QED
    BY <1>3, <2>1 DEF Take
<1>4. CASE ~p.refused /\ p.redirection = <<>> /\ t \in Connectors
  <2> DEFINE q == FlushPipeline(p)
  <2>1. q \in ParseState
    <3>1. CASE p.words = <<>> /\ p.commands = <<>>
      BY <3>1, RefuseType DEF FlushPipeline
    <3>2. CASE p.words # <<>> \/ p.commands # <<>>
      BY <3>2, FlushPipelineIs
    <3>3. QED
      BY <3>1, <3>2
  <2>2. Take(p, t) = [q EXCEPT !.previous = t]
    BY <1>4, OperatorTokens DEF Take
  <2> HIDE DEF q
  <2>3. QED
    BY <2>1, <2>2 DEF ParseState
<1>5. CASE ~p.refused /\ p.redirection = <<>> /\ t \in Redirectors
  <2>1. Take(p, t) = [p EXCEPT !.redirection = t]
    BY <1>5, OperatorTokens DEF Take
  <2>2. QED
    BY <2>1 DEF ParseState
<1>6. CASE ~p.refused /\ p.redirection = <<>> /\ t \notin Special
  <2>1. Take(p, t) = [p EXCEPT !.words = Append(p.words, t)]
    BY <1>6 DEF Take, Special
  <2>2. Append(p.words, t) \in Seq(Text)
    BY DEF ParseState
  <2>3. QED
    BY <2>1, <2>2 DEF ParseState
<1>7. QED
  BY <1>1, <1>2, <1>3, <1>4, <1>5, <1>6 DEF Special

LEMMA PutType ==
  ASSUME NEW acc \in ReadState, NEW t \in Text
  PROVE  Put(acc, t) \in ReadState
<1>1. acc.segs \in Seq(Part) /\ acc.last \in Part /\ acc.wants \in Text
  BY DEF ReadState
<1>2. CASE acc.wants # <<>>
  <2> DEFINE r == [operator |-> acc.wants, target |-> t]
             rs == Append(acc.last.redirections, r)
             last == [acc.last EXCEPT !.redirections = rs]
  <2>1. rs \in Redirected
    BY <1>1 DEF Part, Redirected
  <2> HIDE DEF rs
  <2>2. last \in Part
    BY <1>1, <2>1 DEF Part
  <2>3. Put(acc, t) = [acc EXCEPT !.last = last, !.wants = <<>>]
    BY <1>1, <1>2 DEF Put, ReadState, Part, rs
  <2> HIDE DEF last
  <2>4. QED
    BY <2>2, <2>3, OperatorTokens DEF ReadState
<1>3. CASE acc.wants = <<>> /\ t \in Redirectors
  <2>1. Put(acc, t) = [acc EXCEPT !.wants = t]
    BY <1>3 DEF Put
  <2>2. QED
    BY <2>1 DEF ReadState
<1>4. CASE acc.wants = <<>> /\ t \in Connectors \union {Pipe}
  <2> DEFINE segs == Append(acc.segs, acc.last)
             last == Segment(t)
  <2>1. last \in Part
    BY DEF Segment, Part, Redirected
  <2>2. segs \in Seq(Part)
    BY <1>1
  <2>3. Put(acc, t) = [acc EXCEPT !.segs = segs, !.last = last]
    BY <1>4, OperatorTokens DEF Put
  <2> HIDE DEF segs, last
  <2>4. QED
    BY <2>1, <2>2, <2>3 DEF ReadState
<1>5. CASE acc.wants = <<>> /\ t \notin Special
  <2> DEFINE ws == Append(acc.last.words, t)
             last == [acc.last EXCEPT !.words = ws]
  <2>1. ws \in Seq(Text)
    BY <1>1 DEF Part
  <2> HIDE DEF ws
  <2>2. last \in Part
    BY <1>1, <2>1 DEF Part
  <2>3. Put(acc, t) = [acc EXCEPT !.last = last]
    BY <1>1, <1>5 DEF Put, ReadState, Part, ws, Special
  <2> HIDE DEF last
  <2>4. QED
    BY <2>2, <2>3 DEF ReadState
<1>6. QED
  BY <1>2, <1>3, <1>4, <1>5 DEF Special

Unread == [segs |-> <<>>, last |-> Segment(<<>>), wants |-> <<>>]

LEMMA UnreadType == Unread \in ReadState
  BY OperatorTokens DEF Unread, Segment, ReadState, Part, Redirected

\* The parser and the grammar, token by token.
LEMMA TakeMade ==
  ASSUME NEW lexed \in Seq(Text)
  PROVE  \E m \in [0 .. Len(lexed) -> ParseState] :
           /\ m[0] = Nothing
           /\ \A i \in 1 .. Len(lexed) : m[i] = Take(m[i - 1], lexed[i])
           /\ Over(Take, Nothing, lexed) = m[Len(lexed)]
<1> DEFINE n == Len(lexed)
           base == Nothing
           Op(x, e) == Take(x, e)
           Is(m) == m = [i \in 0 .. n |-> IF i = 0 THEN base ELSE Op(m[i - 1], lexed[i])]
           made == CHOOSE m : Is(m)
           g == [i \in 1 .. n |-> [x \in ParseState |-> Op(x, lexed[i])]]
<1>1. n \in Nat /\ \A i \in 1 .. n : lexed[i] \in Text
  OBVIOUS
<1>2. base \in ParseState /\ \A i \in 1 .. n : \A x \in ParseState : Op(x, lexed[i]) \in ParseState
  BY <1>1, NothingType, TakeType
<1>3. Over(Take, Nothing, lexed) = made[n]
  BY DEF Over, n, Op
<1> HIDE DEF n, base, Op
<1>4. PICK f : Goes(f, ParseState, base, n, g)
  <2>1. g \in [1 .. n -> [ParseState -> ParseState]]
    BY <1>2
  <2> HIDE DEF g
  <2>2. QED
    BY <1>1, <1>2, <2>1, GoesOn
<1>5. Is(f)
  <2>1. f = [i \in 0 .. n |-> IF i = 0 THEN base ELSE g[i][f[i - 1]]]
    <3> HIDE DEF g
    <3>1. f = Stepped(base, n, g, f)
      BY <1>1, <1>4, GoesAsLoop, Zenon
    <3>2. QED
      BY <3>1 DEF Stepped
  <2>2. \A i \in 1 .. n : f[i - 1] \in ParseState
    BY <1>1, <1>4 DEF Goes
  <2>3. \A i \in 0 .. n : i # 0 => g[i][f[i - 1]] = Op(f[i - 1], lexed[i])
    BY <1>1, <2>2
  <2> HIDE DEF g
  <2>4. QED
    BY <2>1, <2>3
<1>6. Is(made)
  BY <1>5
<1> HIDE DEF made
<1>7. made[0] = base /\ made = [i \in 0 .. n |-> made[i]] /\ \A i \in 1 .. n : made[i] = Op(made[i - 1], lexed[i])
  <2>1. \A i \in 0 .. n : made[i] = IF i = 0 THEN base ELSE Op(made[i - 1], lexed[i])
    BY <1>6
  <2>2. 0 \in 0 .. n /\ \A i \in 1 .. n : i \in 0 .. n /\ i # 0
    BY <1>1
  <2>3. QED
    BY <1>6, <2>1, <2>2
<1>8. \A i \in 1 .. n : made[i - 1] \in ParseState => made[i] \in ParseState
  BY <1>2, <1>7
<1>9. made \in [0 .. n -> ParseState]
  BY <1>1, <1>2, <1>7, <1>8, LoopStays
<1>10. QED
  BY <1>3, <1>7, <1>9 DEF n, base, Op

LEMMA PutMade ==
  ASSUME NEW lexed \in Seq(Text)
  PROVE  \E m \in [0 .. Len(lexed) -> ReadState] :
           /\ m[0] = Unread
           /\ \A i \in 1 .. Len(lexed) : m[i] = Put(m[i - 1], lexed[i])
           /\ Segments(lexed) = m[Len(lexed)]
<1> DEFINE n == Len(lexed)
           base == Unread
           Op(x, e) == Put(x, e)
           Is(m) == m = [i \in 0 .. n |-> IF i = 0 THEN base ELSE Op(m[i - 1], lexed[i])]
           made == CHOOSE m : Is(m)
           g == [i \in 1 .. n |-> [x \in ReadState |-> Op(x, lexed[i])]]
<1>1. n \in Nat /\ \A i \in 1 .. n : lexed[i] \in Text
  OBVIOUS
<1>2. base \in ReadState /\ \A i \in 1 .. n : \A x \in ReadState : Op(x, lexed[i]) \in ReadState
  BY <1>1, UnreadType, PutType
<1>3. Segments(lexed) = made[n]
  BY DEF Segments, Unread, Over, n, Op
<1> HIDE DEF n, base, Op
<1>4. PICK f : Goes(f, ReadState, base, n, g)
  <2>1. g \in [1 .. n -> [ReadState -> ReadState]]
    BY <1>2
  <2> HIDE DEF g
  <2>2. QED
    BY <1>1, <1>2, <2>1, GoesOn
<1>5. Is(f)
  <2>1. f = [i \in 0 .. n |-> IF i = 0 THEN base ELSE g[i][f[i - 1]]]
    <3> HIDE DEF g
    <3>1. f = Stepped(base, n, g, f)
      BY <1>1, <1>4, GoesAsLoop, Zenon
    <3>2. QED
      BY <3>1 DEF Stepped
  <2>2. \A i \in 1 .. n : f[i - 1] \in ReadState
    BY <1>1, <1>4 DEF Goes
  <2>3. \A i \in 0 .. n : i # 0 => g[i][f[i - 1]] = Op(f[i - 1], lexed[i])
    BY <1>1, <2>2
  <2> HIDE DEF g
  <2>4. QED
    BY <2>1, <2>3
<1>6. Is(made)
  BY <1>5
<1> HIDE DEF made
<1>7. made[0] = base /\ made = [i \in 0 .. n |-> made[i]] /\ \A i \in 1 .. n : made[i] = Op(made[i - 1], lexed[i])
  <2>1. \A i \in 0 .. n : made[i] = IF i = 0 THEN base ELSE Op(made[i - 1], lexed[i])
    BY <1>6
  <2>2. 0 \in 0 .. n /\ \A i \in 1 .. n : i \in 0 .. n /\ i # 0
    BY <1>1
  <2>3. QED
    BY <1>6, <2>1, <2>2
<1>8. \A i \in 1 .. n : made[i - 1] \in ReadState => made[i] \in ReadState
  BY <1>2, <1>7
<1>9. made \in [0 .. n -> ReadState]
  BY <1>1, <1>2, <1>7, <1>8, LoopStays
<1>10. QED
  BY <1>3, <1>7, <1>9 DEF n, base, Op

-----------------------------------------------------------------------------
\* The commands of the statements, and the segments with words

LEMMA CommandsType ==
  ASSUME NEW st \in Pipeline
  PROVE  CommandsOf(st) \in Seq(Part)
<1> DEFINE n == Len(st.commands)
           e(j) == [op |-> IF j = 1 THEN st.previous ELSE Pipe,
                    words |-> st.commands[j].words, redirections |-> st.commands[j].redirections]
<1>1. st.commands \in Seq(Parsed) /\ st.previous \in Text
  BY DEF Pipeline
<1>2. n \in Nat /\ DOMAIN st.commands = 1 .. n /\ \A j \in 1 .. n : st.commands[j] \in Parsed
  BY <1>1
<1>3. \A j \in 1 .. n : e(j) \in Part
  BY <1>1, <1>2, OperatorTokens DEF Parsed, Part
<1>4. CommandsOf(st) = [j \in 1 .. n |-> e(j)]
  BY <1>2 DEF CommandsOf
<1> HIDE DEF n, e
<1>5. [j \in 1 .. n |-> e(j)] \in [1 .. n -> Part]
  BY <1>3
<1>6. QED
  BY <1>2, <1>4, <1>5

LEMMA ListedType ==
  ASSUME NEW acc \in Seq(Part), NEW st \in Pipeline
  PROVE  acc \o CommandsOf(st) \in Seq(Part)
  BY CommandsType, ConcatProperties

CarryState == [list : Seq(Part), held : Redirected]
Uncarried == [list |-> <<>>, held |-> <<>>]
CarriedAll(segs) == Over(Carry, Uncarried, segs)

LEMMA CarryIs ==
  ASSUME NEW acc \in CarryState, NEW g \in Part
  PROVE  /\ Carry(acc, g) \in CarryState /\ acc.list \in Seq(Part) /\ acc.held \in Redirected
         /\ g.words = <<>> => /\ Carry(acc, g).list = acc.list
                             /\ Carry(acc, g).held = acc.held \o g.redirections
         /\ g.words # <<>> => /\ Carry(acc, g).held = <<>>
                             /\ \E x \in Part : /\ x.op = g.op /\ x.words = g.words
                                               /\ x.redirections = acc.held \o g.redirections
                                               /\ Carry(acc, g).list = Append(acc.list, x)
<1>1. /\ acc.list \in Seq(Part) /\ acc.held \in Redirected
      /\ g.op \in Text /\ g.words \in Seq(Text) /\ g.redirections \in Redirected
  BY DEF CarryState, Part
<1>2. acc.held \o g.redirections \in Redirected
  BY <1>1, ConcatProperties DEF Redirected
<1>3. CASE g.words = <<>>
  <2>1. Carry(acc, g) = [acc EXCEPT !.held = acc.held \o g.redirections]
    BY <1>3 DEF Carry
  <2> QED
    BY <1>1, <1>2, <1>3, <2>1 DEF CarryState
<1>4. CASE g.words # <<>>
  <2> DEFINE x == [g EXCEPT !.redirections = acc.held \o g.redirections]
  <2>1. /\ x \in Part /\ x.op = g.op /\ x.words = g.words
        /\ x.redirections = acc.held \o g.redirections
    BY <1>2 DEF Part
  <2>2. Carry(acc, g) = [list |-> Append(acc.list, x), held |-> <<>>]
    BY <1>4 DEF Carry
  <2> HIDE DEF x
  <2>3. Append(acc.list, x) \in Seq(Part) /\ <<>> \in Redirected
    BY <1>1, <2>1 DEF Redirected
  <2> QED
    BY <1>1, <1>4, <2>1, <2>2, <2>3 DEF CarryState
<1> QED
  BY <1>3, <1>4

LEMMA UncarriedType == Uncarried \in CarryState
  BY DEF Uncarried, CarryState, Redirected

LEMMA NoParts == <<>> \in Seq(Part)
  OBVIOUS

LEMMA ListedMade ==
  ASSUME NEW sts \in Seq(Pipeline)
  PROVE  \E m \in [0 .. Len(sts) -> Seq(Part)] :
           /\ m[0] = <<>>
           /\ \A i \in 1 .. Len(sts) : m[i] = m[i - 1] \o CommandsOf(sts[i])
           /\ Listed(sts) = m[Len(sts)]
<1> DEFINE n == Len(sts)
           base == <<>>
           Op(x, e) == x \o CommandsOf(e)
           Is(m) == m = [i \in 0 .. n |-> IF i = 0 THEN base ELSE Op(m[i - 1], sts[i])]
           made == CHOOSE m : Is(m)
           g == [i \in 1 .. n |-> [x \in Seq(Part) |-> Op(x, sts[i])]]
<1>1. n \in Nat /\ \A i \in 1 .. n : sts[i] \in Pipeline
  OBVIOUS
<1>2. base \in Seq(Part) /\ \A i \in 1 .. n : \A x \in Seq(Part) : Op(x, sts[i]) \in Seq(Part)
  BY <1>1, NoParts, ListedType
<1>3. Listed(sts) = made[n]
  BY DEF Listed, Over, n, Op
<1> HIDE DEF n, base, Op
<1>4. PICK f : Goes(f, Seq(Part), base, n, g)
  <2>1. g \in [1 .. n -> [Seq(Part) -> Seq(Part)]]
    BY <1>2
  <2> HIDE DEF g
  <2>2. QED
    BY <1>1, <1>2, <2>1, GoesOn
<1>5. Is(f)
  <2>1. f = [i \in 0 .. n |-> IF i = 0 THEN base ELSE g[i][f[i - 1]]]
    <3> HIDE DEF g
    <3>1. f = Stepped(base, n, g, f)
      BY <1>1, <1>4, GoesAsLoop, Zenon
    <3>2. QED
      BY <3>1 DEF Stepped
  <2>2. \A i \in 1 .. n : f[i - 1] \in Seq(Part)
    BY <1>1, <1>4 DEF Goes
  <2>3. \A i \in 0 .. n : i # 0 => g[i][f[i - 1]] = Op(f[i - 1], sts[i])
    BY <1>1, <2>2
  <2> HIDE DEF g
  <2>4. QED
    BY <2>1, <2>3
<1>6. Is(made)
  BY <1>5
<1> HIDE DEF made
<1>7. made[0] = base /\ made = [i \in 0 .. n |-> made[i]] /\ \A i \in 1 .. n : made[i] = Op(made[i - 1], sts[i])
  <2>1. \A i \in 0 .. n : made[i] = IF i = 0 THEN base ELSE Op(made[i - 1], sts[i])
    BY <1>6
  <2>2. 0 \in 0 .. n /\ \A i \in 1 .. n : i \in 0 .. n /\ i # 0
    BY <1>1
  <2>3. QED
    BY <1>6, <2>1, <2>2
<1>8. \A i \in 1 .. n : made[i - 1] \in Seq(Part) => made[i] \in Seq(Part)
  BY <1>2, <1>7
<1>9. made \in [0 .. n -> Seq(Part)]
  BY <1>1, <1>2, <1>7, <1>8, LoopStays
<1>10. QED
  BY <1>3, <1>7, <1>9 DEF n, base, Op

LEMMA CarriedMade ==
  ASSUME NEW segs \in Seq(Part)
  PROVE  \E m \in [0 .. Len(segs) -> CarryState] :
           /\ m[0] = Uncarried
           /\ \A i \in 1 .. Len(segs) : m[i] = Carry(m[i - 1], segs[i])
           /\ CarriedAll(segs) = m[Len(segs)]
<1> DEFINE n == Len(segs)
           base == Uncarried
           Op(x, e) == Carry(x, e)
           Is(m) == m = [i \in 0 .. n |-> IF i = 0 THEN base ELSE Op(m[i - 1], segs[i])]
           made == CHOOSE m : Is(m)
           g == [i \in 1 .. n |-> [x \in CarryState |-> Op(x, segs[i])]]
<1>1. n \in Nat /\ \A i \in 1 .. n : segs[i] \in Part
  OBVIOUS
<1>2. base \in CarryState /\ \A i \in 1 .. n : \A x \in CarryState : Op(x, segs[i]) \in CarryState
  BY <1>1, UncarriedType, CarryIs
<1>3. CarriedAll(segs) = made[n]
  BY DEF CarriedAll, Over, n, Op
<1> HIDE DEF n, base, Op
<1>4. PICK f : Goes(f, CarryState, base, n, g)
  <2>1. g \in [1 .. n -> [CarryState -> CarryState]]
    BY <1>2
  <2> HIDE DEF g
  <2>2. QED
    BY <1>1, <1>2, <2>1, GoesOn
<1>5. Is(f)
  <2>1. f = [i \in 0 .. n |-> IF i = 0 THEN base ELSE g[i][f[i - 1]]]
    <3> HIDE DEF g
    <3>1. f = Stepped(base, n, g, f)
      BY <1>1, <1>4, GoesAsLoop, Zenon
    <3>2. QED
      BY <3>1 DEF Stepped
  <2>2. \A i \in 1 .. n : f[i - 1] \in CarryState
    BY <1>1, <1>4 DEF Goes
  <2>3. \A i \in 0 .. n : i # 0 => g[i][f[i - 1]] = Op(f[i - 1], segs[i])
    BY <1>1, <2>2
  <2> HIDE DEF g
  <2>4. QED
    BY <2>1, <2>3
<1>6. Is(made)
  BY <1>5
<1> HIDE DEF made
<1>7. made[0] = base /\ made = [i \in 0 .. n |-> made[i]] /\ \A i \in 1 .. n : made[i] = Op(made[i - 1], segs[i])
  <2>1. \A i \in 0 .. n : made[i] = IF i = 0 THEN base ELSE Op(made[i - 1], segs[i])
    BY <1>6
  <2>2. 0 \in 0 .. n /\ \A i \in 1 .. n : i \in 0 .. n /\ i # 0
    BY <1>1
  <2>3. QED
    BY <1>6, <2>1, <2>2
<1>8. \A i \in 1 .. n : made[i - 1] \in CarryState => made[i] \in CarryState
  BY <1>2, <1>7
<1>9. made \in [0 .. n -> CarryState]
  BY <1>1, <1>2, <1>7, <1>8, LoopStays
<1>10. QED
  BY <1>3, <1>7, <1>9 DEF n, base, Op

LEMMA ListedAppend ==
  ASSUME NEW sts \in Seq(Pipeline), NEW st \in Pipeline
  PROVE  Listed(sts) \in Seq(Part) /\ Listed(Append(sts, st)) = Listed(sts) \o CommandsOf(st)
<1> DEFINE n == Len(sts)
           more == Append(sts, st)
<1>1. PICK m \in [0 .. n -> Seq(Part)] :
        /\ m[0] = <<>>
        /\ \A i \in 1 .. n : m[i] = m[i - 1] \o CommandsOf(sts[i])
        /\ Listed(sts) = m[n]
  BY ListedMade
<1>2. n \in Nat /\ more \in Seq(Pipeline) /\ Len(more) = n + 1 /\ more[n + 1] = st
      /\ \A i \in 1 .. n : more[i] = sts[i]
  OBVIOUS
<1> HIDE DEF n, more
<1>3. PICK w \in [0 .. n + 1 -> Seq(Part)] :
        /\ w[0] = <<>>
        /\ \A i \in 1 .. n + 1 : w[i] = w[i - 1] \o CommandsOf(more[i])
        /\ Listed(more) = w[n + 1]
  BY <1>2, ListedMade
<1> DEFINE T == {i \in 0 .. n : w[i] = m[i]}
<1>4. 0 \in T
  BY <1>1, <1>2, <1>3
<1>5. ASSUME NEW i \in 1 .. n, i - 1 \in T PROVE i \in T
  <2>1. i \in 1 .. n + 1 /\ more[i] = sts[i] /\ w[i - 1] = m[i - 1]
    BY <1>2, <1>5
  <2>2. w[i] = m[i]
    BY <1>1, <1>3, <2>1
  <2>3. QED
    BY <2>2
<1>6. \A i \in 1 .. n : i - 1 \in T => i \in T
  BY <1>5
<1> HIDE DEF T
<1>7. \A i \in 0 .. n : i \in T
  BY <1>2, <1>4, <1>6, Climb
<1>8. n \in 0 .. n /\ n + 1 \in 1 .. n + 1 /\ (n + 1) - 1 = n
  BY <1>2
<1>9. w[n] = m[n]
  BY <1>7, <1>8 DEF T
<1>10. w[n + 1] = w[n] \o CommandsOf(st)
  BY <1>2, <1>3, <1>8
<1>11. Listed(sts) \in Seq(Part)
  BY <1>1, <1>8
<1>12. Listed(more) = Listed(sts) \o CommandsOf(st)
  BY <1>1, <1>3, <1>9, <1>10
<1>13. QED
  BY <1>11, <1>12 DEF more

LEMMA CarriedAppend ==
  ASSUME NEW segs \in Seq(Part), NEW g \in Part
  PROVE  CarriedAll(segs) \in CarryState /\ CarriedAll(Append(segs, g)) = Carry(CarriedAll(segs), g)
<1> DEFINE n == Len(segs)
           more == Append(segs, g)
<1>1. PICK m \in [0 .. n -> CarryState] :
        /\ m[0] = Uncarried
        /\ \A i \in 1 .. n : m[i] = Carry(m[i - 1], segs[i])
        /\ CarriedAll(segs) = m[n]
  BY CarriedMade
<1>2. n \in Nat /\ more \in Seq(Part) /\ Len(more) = n + 1 /\ more[n + 1] = g
      /\ \A i \in 1 .. n : more[i] = segs[i]
  OBVIOUS
<1> HIDE DEF n, more
<1>3. PICK w \in [0 .. n + 1 -> CarryState] :
        /\ w[0] = Uncarried
        /\ \A i \in 1 .. n + 1 : w[i] = Carry(w[i - 1], more[i])
        /\ CarriedAll(more) = w[n + 1]
  BY <1>2, CarriedMade
<1> DEFINE T == {i \in 0 .. n : w[i] = m[i]}
<1>4. 0 \in T
  BY <1>1, <1>2, <1>3
<1>5. ASSUME NEW i \in 1 .. n, i - 1 \in T PROVE i \in T
  <2>1. i \in 1 .. n + 1 /\ more[i] = segs[i] /\ w[i - 1] = m[i - 1]
    BY <1>2, <1>5
  <2>2. w[i] = m[i]
    BY <1>1, <1>3, <2>1
  <2>3. QED
    BY <2>2
<1>6. \A i \in 1 .. n : i - 1 \in T => i \in T
  BY <1>5
<1> HIDE DEF T
<1>7. \A i \in 0 .. n : i \in T
  BY <1>2, <1>4, <1>6, Climb
<1>8. n \in 0 .. n /\ n + 1 \in 1 .. n + 1 /\ (n + 1) - 1 = n
  BY <1>2
<1>9. w[n] = m[n]
  BY <1>7, <1>8 DEF T
<1>10. w[n + 1] = Carry(w[n], g)
  BY <1>2, <1>3, <1>8
<1>11. CarriedAll(segs) \in CarryState
  BY <1>1, <1>8
<1>12. CarriedAll(more) = Carry(CarriedAll(segs), g)
  BY <1>1, <1>3, <1>9, <1>10
<1>13. QED
  BY <1>11, <1>12 DEF more

LEMMA ListedEmpty == Listed(<<>>) = <<>>
<1>1. <<>> \in Seq(Pipeline) /\ Len(<<>>) = 0
  OBVIOUS
<1>2. QED
  BY <1>1, ListedMade

LEMMA CarriedEmpty == CarriedAll(<<>>) = Uncarried
<1>1. <<>> \in Seq(Part) /\ Len(<<>>) = 0
  OBVIOUS
<1>2. QED
  BY <1>1, CarriedMade

LEMMA CarriedIs == \A segs : Carried(segs) = CarriedAll(segs).list
  BY DEF Carried, CarriedAll, Uncarried

\* A command more of the pipeline.
LEMMA CommandsAppend ==
  ASSUME NEW v \in Text, NEW cs \in Seq(Parsed), NEW c \in Parsed
  PROVE  CommandsOf([previous |-> v, commands |-> Append(cs, c)]) =
           Append(CommandsOf([previous |-> v, commands |-> cs]),
                  [op |-> IF cs = <<>> THEN v ELSE Pipe, words |-> c.words, redirections |-> c.redirections])
<1> DEFINE n == Len(cs)
           more == Append(cs, c)
           x == [op |-> IF cs = <<>> THEN v ELSE Pipe, words |-> c.words, redirections |-> c.redirections]
           a == CommandsOf([previous |-> v, commands |-> cs])
           b == CommandsOf([previous |-> v, commands |-> more])
<1>1. n \in Nat /\ more \in Seq(Parsed) /\ Len(more) = n + 1 /\ more[n + 1] = c
      /\ (\A i \in 1 .. n : more[i] = cs[i]) /\ (cs = <<>> <=> n = 0) /\ DOMAIN cs = 1 .. n /\ DOMAIN more = 1 .. n + 1
  OBVIOUS
<1>2. [previous |-> v, commands |-> cs] \in Pipeline /\ [previous |-> v, commands |-> more] \in Pipeline
  BY <1>1 DEF Pipeline
<1>3. a \in Seq(Part) /\ b \in Seq(Part)
  BY <1>2, CommandsType
<1>4. /\ a = [j \in 1 .. n |-> [op |-> IF j = 1 THEN v ELSE Pipe, words |-> cs[j].words, redirections |-> cs[j].redirections]]
      /\ b = [j \in 1 .. n + 1 |-> [op |-> IF j = 1 THEN v ELSE Pipe, words |-> more[j].words, redirections |-> more[j].redirections]]
  BY <1>1 DEF CommandsOf
<1>5. x \in Part
  BY OperatorTokens DEF Parsed, Part
<1>6. x = [op |-> IF n + 1 = 1 THEN v ELSE Pipe, words |-> more[n + 1].words, redirections |-> more[n + 1].redirections]
  BY <1>1
<1> HIDE DEF x, n, more, a, b
<1>7. Len(a) = n /\ Len(b) = n + 1
  BY <1>1, <1>3, <1>4
<1>8. \A j \in 1 .. n : b[j] = a[j]
  BY <1>1, <1>4
<1>9. n + 1 \in 1 .. n + 1
  BY <1>1
<1>10. b[n + 1] = x
  BY <1>4, <1>6, <1>9
<1>11. Append(a, x) \in Seq(Part) /\ Len(Append(a, x)) = n + 1 /\ Append(a, x)[n + 1] = x
       /\ \A j \in 1 .. n : Append(a, x)[j] = a[j]
  BY <1>3, <1>5, <1>7
<1>12. \A j \in 1 .. n + 1 : b[j] = Append(a, x)[j]
  <2>1. \A j \in 1 .. n + 1 : j \in 1 .. n \/ j = n + 1
    BY <1>1
  <2>2. QED
    BY <1>8, <1>10, <1>11, <2>1
<1>13. b = Append(a, x)
  BY <1>3, <1>7, <1>11, <1>12, SeqEqual
<1>14. QED
  BY <1>13 DEF a, b, x, more

-----------------------------------------------------------------------------
\* The parser and the grammar step together

\* The commands taken so far, those of the pipeline under way included.
Commanded(p) ==
  Listed(p.statements) \o CommandsOf([previous |-> p.previous, commands |-> p.commands])

\* A segment before the last has no words where a command must be.
Broken(segs, last) ==
  \E i \in 1 .. Len(segs) :
    segs[i].words = <<>> /\ ~(segs[i].op = Pipe /\ Append(segs, last)[i + 1].op \in Connectors)

InStep(p, acc) ==
  /\ p.refused <=> Broken(acc.segs, acc.last)
  /\ ~p.refused =>
       /\ p.redirection = acc.wants /\ p.words = acc.last.words
       /\ p.commands = <<>> <=> acc.last.op # Pipe
       /\ p.commands = <<>> => p.previous = acc.last.op
       /\ Commanded(p) = Carried(acc.segs)
       /\ p.redirections = CarriedAll(acc.segs).held \o acc.last.redirections

LEMMA AppendConcat ==
  ASSUME NEW S, NEW a \in Seq(S), NEW b \in Seq(S), NEW x \in S
  PROVE  Append(a \o b, x) = a \o Append(b, x)
<1> DEFINE u == Append(a \o b, x)
           v == a \o Append(b, x)
<1>1. a \o b \in Seq(S) /\ Len(a \o b) = Len(a) + Len(b) /\ Append(b, x) \in Seq(S) /\ Len(Append(b, x)) = Len(b) + 1
      /\ Len(a) \in Nat /\ Len(b) \in Nat
  BY ConcatProperties
<1>2. u \in Seq(S) /\ v \in Seq(S) /\ Len(u) = Len(a) + Len(b) + 1 /\ Len(v) = Len(a) + Len(b) + 1
  BY <1>1, ConcatProperties
<1>3. ASSUME NEW i \in 1 .. Len(u) PROVE u[i] = v[i]
  <2> DEFINE w == Append(b, x)
  <2>0. w \in Seq(S) /\ Len(w) = Len(b) + 1 /\ i \in 1 .. Len(a) + Len(w)
    BY <1>1, <1>2
  <2> HIDE DEF w
  <2>1. v[i] = IF i <= Len(a) THEN a[i] ELSE w[i - Len(a)]
    <3>1. (a \o w)[i] = IF i <= Len(a) THEN a[i] ELSE w[i - Len(a)]
      BY <2>0, ConcatProperties
    <3>2. QED
      BY <3>1 DEF w
  <2> USE DEF w
  <2>2. CASE i <= Len(a)
    <3>1. (a \o b)[i] = a[i] /\ u[i] = (a \o b)[i]
      BY <1>1, <1>2, <2>2, ConcatProperties
    <3>2. QED
      BY <2>1, <2>2, <3>1
  <2>3. CASE Len(a) < i /\ i <= Len(a) + Len(b)
    <3>1. (a \o b)[i] = b[i - Len(a)] /\ u[i] = (a \o b)[i] /\ i - Len(a) \in 1 .. Len(b)
      BY <1>1, <1>2, <2>3, ConcatProperties
    <3>2. QED
      BY <1>1, <2>1, <2>3, <3>1
  <2>4. CASE i = Len(a) + Len(b) + 1
    <3>1. u[i] = x
      BY <1>1, <2>4
    <3>2. i - Len(a) = Len(b) + 1 /\ ~(i <= Len(a))
      BY <1>1, <2>4
    <3>3. QED
      BY <1>1, <2>1, <3>1, <3>2
  <2>5. QED
    BY <1>1, <1>2, <2>2, <2>3, <2>4
<1> HIDE DEF u, v
<1>4. u = v
  BY <1>2, <1>3, SeqEqual
<1>5. QED
  BY <1>4 DEF u, v

LEMMA BrokenSame ==
  ASSUME NEW segs \in Seq(Part), NEW last \in Part, NEW other \in Part, other.op = last.op
  PROVE  Broken(segs, other) <=> Broken(segs, last)
<1>1. \A i \in 1 .. Len(segs) : Append(segs, other)[i + 1].op = Append(segs, last)[i + 1].op
  <2>1. Len(segs) \in Nat /\ \A i \in 1 .. Len(segs) : i + 1 \in 1 .. Len(segs) \/ i + 1 = Len(segs) + 1
    OBVIOUS
  <2>2. QED
    BY <2>1
<1>2. QED
  BY <1>1 DEF Broken

LEMMA BrokenAppend ==
  ASSUME NEW segs \in Seq(Part), NEW last \in Part, NEW next \in Part
  PROVE  Broken(Append(segs, last), next) <=>
           Broken(segs, last) \/ (last.words = <<>> /\ ~(last.op = Pipe /\ next.op \in Connectors))
<1> DEFINE n == Len(segs)
           more == Append(segs, last)
           most == Append(more, next)
<1>1. n \in Nat /\ more \in Seq(Part) /\ Len(more) = n + 1 /\ more[n + 1] = last
      /\ \A i \in 1 .. n : more[i] = segs[i]
  OBVIOUS
<1>2. most[n + 2] = next /\ \A i \in 1 .. n + 1 : most[i] = more[i]
  BY <1>1
<1>3. Broken(segs, last) <=>
        \E i \in 1 .. n : segs[i].words = <<>> /\ ~(segs[i].op = Pipe /\ more[i + 1].op \in Connectors)
  BY DEF Broken
<1>4. Broken(more, next) <=>
        \E i \in 1 .. n + 1 : more[i].words = <<>> /\ ~(more[i].op = Pipe /\ most[i + 1].op \in Connectors)
  BY <1>1 DEF Broken
<1> HIDE DEF n, more, most
<1>5. \A i \in 1 .. n : i \in 1 .. n + 1 /\ i + 1 \in 1 .. n + 1
  BY <1>1
<1>6. n + 1 \in 1 .. n + 1 /\ (n + 1) + 1 = n + 2 /\ \A i \in 1 .. n + 1 : i \in 1 .. n \/ i = n + 1
  BY <1>1
<1>7. ASSUME Broken(segs, last) PROVE Broken(more, next)
  BY <1>1, <1>2, <1>3, <1>4, <1>5, <1>7
<1>8. ASSUME last.words = <<>>, ~(last.op = Pipe /\ next.op \in Connectors) PROVE Broken(more, next)
  <2>1. more[n + 1].words = <<>> /\ ~(more[n + 1].op = Pipe /\ most[(n + 1) + 1].op \in Connectors)
    BY <1>1, <1>2, <1>6, <1>8
  <2>2. QED
    BY <1>4, <1>6, <2>1
<1>9. ASSUME Broken(more, next)
      PROVE  Broken(segs, last) \/ (last.words = <<>> /\ ~(last.op = Pipe /\ next.op \in Connectors))
  <2>1. PICK i \in 1 .. n + 1 : more[i].words = <<>> /\ ~(more[i].op = Pipe /\ most[i + 1].op \in Connectors)
    BY <1>4, <1>9
  <2>2. CASE i \in 1 .. n
    BY <1>1, <1>2, <1>3, <1>5, <2>1, <2>2
  <2>3. CASE i = n + 1
    BY <1>1, <1>2, <1>6, <2>1, <2>3
  <2>4. QED
    BY <1>6, <2>2, <2>3
<1>10. QED
  BY <1>7, <1>8, <1>9 DEF more

LEMMA WordlessSame ==
  ASSUME NEW segs \in Seq(Part), NEW last \in Part, last.words = <<>>
  PROVE  Carried(Append(segs, last)) = Carried(segs)
<1>1. PICK was \in CarryState : was = CarriedAll(segs) /\ CarriedAll(Append(segs, last)) = Carry(was, last)
  BY CarriedAppend
<1>2. Carry(was, last).list = was.list
  BY CarryIs
<1>3. CarriedAll(Append(segs, last)).list = CarriedAll(segs).list
  BY <1>1, <1>2
<1> QED
  BY <1>3, CarriedIs

LEMMA SamePart ==
  ASSUME NEW a \in Part, NEW b \in Part, a.op = b.op, a.words = b.words, a.redirections = b.redirections
  PROVE  a = b
  BY DEF Part

\* What closes a command closes a segment.
LEMMA CommandDone ==
  ASSUME NEW p \in ParseState, NEW acc \in ReadState, InStep(p, acc), ~p.refused, p.words # <<>>
  PROVE  LET c == [words |-> p.words, redirections |-> p.redirections]
             done == Listed(p.statements) \o CommandsOf([previous |-> p.previous, commands |-> Append(p.commands, c)])
             segs == Append(acc.segs, acc.last)
         IN done = Carried(segs) /\ CarriedAll(segs).held = <<>>
<1> DEFINE c == [words |-> p.words, redirections |-> p.redirections]
           old == CommandsOf([previous |-> p.previous, commands |-> p.commands])
           new == CommandsOf([previous |-> p.previous, commands |-> Append(p.commands, c)])
           done == Listed(p.statements) \o new
           segs == Append(acc.segs, acc.last)
           x == [op |-> IF p.commands = <<>> THEN p.previous ELSE Pipe, words |-> c.words, redirections |-> c.redirections]
<1>1. /\ p.statements \in Seq(Pipeline) /\ p.previous \in Text /\ p.commands \in Seq(Parsed)
      /\ p.words \in Seq(Text) /\ p.redirections \in Redirected
      /\ acc.segs \in Seq(Part) /\ acc.last \in Part
  BY DEF ParseState, ReadState
<1>2. c \in Parsed /\ c.words = p.words /\ c.redirections = p.redirections
  BY <1>1 DEF Parsed
<1>3. new = Append(old, x)
  BY <1>1, <1>2, CommandsAppend
<1>4. /\ p.words = acc.last.words
      /\ p.commands = <<>> <=> acc.last.op # Pipe
      /\ p.commands = <<>> => p.previous = acc.last.op
      /\ Commanded(p) = Carried(acc.segs)
      /\ p.redirections = CarriedAll(acc.segs).held \o acc.last.redirections
  BY DEF InStep
<1>5. x \in Part /\ x.words = acc.last.words /\ x.op = acc.last.op /\ x.redirections = p.redirections
  BY <1>1, <1>2, <1>4, OperatorTokens DEF Part
<1>6. old \in Seq(Part)
  <2>1. [previous |-> p.previous, commands |-> p.commands] \in Pipeline
    BY <1>1 DEF Pipeline
  <2>2. QED
    BY <2>1, CommandsType
<1>7. Listed(p.statements) \in Seq(Part)
  <2>1. PICK m \in [0 .. Len(p.statements) -> Seq(Part)] : Listed(p.statements) = m[Len(p.statements)]
    BY <1>1, ListedMade
  <2>2. Len(p.statements) \in 0 .. Len(p.statements)
    BY <1>1
  <2>3. QED
    BY <2>1, <2>2
<1>8. Commanded(p) = Listed(p.statements) \o old
  BY DEF Commanded
<1> HIDE DEF c, old, new, x
<1>9. done = Append(Commanded(p), x) /\ Commanded(p) \in Seq(Part)
  BY <1>3, <1>5, <1>6, <1>7, <1>8, AppendConcat, ConcatProperties
<1>10. PICK y \in Part : /\ y.op = acc.last.op /\ y.words = acc.last.words
                        /\ y.redirections = CarriedAll(acc.segs).held \o acc.last.redirections
                        /\ CarriedAll(segs).list = Append(CarriedAll(acc.segs).list, y)
                        /\ CarriedAll(segs).held = <<>>
  <2>1. acc.last.words # <<>>
    BY <1>4
  <2>2. PICK was \in CarryState : was = CarriedAll(acc.segs) /\ CarriedAll(segs) = Carry(was, acc.last)
    BY <1>1, CarriedAppend
  <2>3. /\ Carry(was, acc.last).held = <<>>
        /\ \E y \in Part : /\ y.op = acc.last.op /\ y.words = acc.last.words
                            /\ y.redirections = was.held \o acc.last.redirections
                            /\ Carry(was, acc.last).list = Append(was.list, y)
    BY <1>1, <2>1, CarryIs
  <2> QED
    BY <2>2, <2>3
<1>11. x = y
  BY <1>4, <1>5, <1>10, SamePart
<1> HIDE DEF done, segs
<1>12. done = Carried(segs)
  BY <1>4, <1>9, <1>10, <1>11, CarriedIs
<1>13. QED
  BY <1>10, <1>12 DEF done, new, segs, c

LEMMA PutIs ==
  ASSUME NEW acc \in ReadState, NEW t \in Text
  PROVE  LET q == Put(acc, t) IN
         /\ acc.wants # <<>> =>
              /\ q.segs = acc.segs /\ q.last.op = acc.last.op /\ q.last.words = acc.last.words /\ q.wants = <<>>
              /\ q.last.redirections = Append(acc.last.redirections, [operator |-> acc.wants, target |-> t])
         /\ acc.wants = <<>> /\ t \in Redirectors =>
              q.segs = acc.segs /\ q.last = acc.last /\ q.wants = t
         /\ acc.wants = <<>> /\ t \in Connectors \union {Pipe} =>
              q.segs = Append(acc.segs, acc.last) /\ q.last = Segment(t) /\ q.wants = <<>>
         /\ acc.wants = <<>> /\ t \notin Special =>
              /\ q.segs = acc.segs /\ q.last.op = acc.last.op /\ q.last.words = Append(acc.last.words, t)
              /\ q.last.redirections = acc.last.redirections /\ q.wants = <<>>
<1>1. acc.segs \in Seq(Part) /\ acc.last \in Part /\ acc.wants \in Text
  BY DEF ReadState
<1>2. CASE acc.wants # <<>>
  BY <1>1, <1>2 DEF Put, ReadState, Part
<1>3. CASE acc.wants = <<>> /\ t \in Redirectors
  BY <1>3, OperatorTokens DEF Put, ReadState, Special
<1>4. CASE acc.wants = <<>> /\ t \in Connectors \union {Pipe}
  BY <1>4, OperatorTokens DEF Put, ReadState, Special
<1>5. CASE acc.wants = <<>> /\ t \notin Special
  BY <1>1, <1>5 DEF Put, ReadState, Part, Special
<1>6. QED
  BY <1>2, <1>3, <1>4, <1>5, OperatorTokens DEF Special

LEMMA TakeIs ==
  ASSUME NEW p \in ParseState, NEW t \in Text, ~p.refused,
         p.redirection # <<>> \/ t \in Redirectors \/ t \notin Special
  PROVE  LET q == Take(p, t) IN
         /\ q.statements = p.statements /\ q.previous = p.previous /\ q.commands = p.commands /\ ~q.refused
         /\ p.redirection # <<>> =>
              /\ q.words = p.words /\ q.redirection = <<>>
              /\ q.redirections = Append(p.redirections, [operator |-> p.redirection, target |-> t])
         /\ p.redirection = <<>> /\ t \in Redirectors =>
              q.words = p.words /\ q.redirections = p.redirections /\ q.redirection = t
         /\ p.redirection = <<>> /\ t \notin Special =>
              q.words = Append(p.words, t) /\ q.redirections = p.redirections /\ q.redirection = <<>>
<1>1. CASE p.redirection # <<>>
  BY <1>1 DEF Take, ParseState
<1>2. CASE p.redirection = <<>> /\ t \in Redirectors
  BY <1>2, OperatorTokens DEF Take, ParseState, Special
<1>3. CASE p.redirection = <<>> /\ t \notin Special
  BY <1>3, OperatorTokens DEF Take, ParseState, Special
<1>4. QED
  BY <1>1, <1>2, <1>3

\* What a refused line is refused for stays.
LEMMA BrokenStays ==
  ASSUME NEW acc \in ReadState, NEW t \in Text, Broken(acc.segs, acc.last)
  PROVE  Broken(Put(acc, t).segs, Put(acc, t).last)
<1> DEFINE q == Put(acc, t)
<1>1. acc.segs \in Seq(Part) /\ acc.last \in Part /\ q.segs \in Seq(Part) /\ q.last \in Part
  BY PutType DEF ReadState
<1>2. CASE q.segs = acc.segs /\ q.last.op = acc.last.op
  BY <1>1, <1>2, BrokenSame
<1>3. CASE q.segs = Append(acc.segs, acc.last)
  BY <1>1, <1>3, BrokenAppend
<1>4. QED
  BY <1>2, <1>3, PutIs DEF Special

LEMMA InStepTyped ==
  ASSUME NEW p \in ParseState, NEW acc \in ReadState
  PROVE  /\ p.statements \in Seq(Pipeline) /\ p.previous \in Text /\ p.commands \in Seq(Parsed)
         /\ p.words \in Seq(Text) /\ p.redirections \in Redirected /\ p.refused \in BOOLEAN
         /\ acc.segs \in Seq(Part) /\ acc.last \in Part
         /\ acc.last.op \in Text /\ acc.last.words \in Seq(Text) /\ acc.last.redirections \in Redirected
  BY DEF ParseState, ReadState, Part

\* A target, a redirection or a word: both go on with the command they are at.
LEMMA InStepWithin ==
  ASSUME NEW p \in ParseState, NEW acc \in ReadState, NEW t \in Text, InStep(p, acc), ~p.refused,
         p.redirection # <<>> \/ t \in Redirectors \/ t \notin Special
  PROVE  InStep(Take(p, t), Put(acc, t))
<1> DEFINE q == Take(p, t)
           r == Put(acc, t)
<1>1. /\ ~Broken(acc.segs, acc.last)
      /\ p.redirection = acc.wants /\ p.words = acc.last.words
      /\ p.commands = <<>> <=> acc.last.op # Pipe
      /\ p.commands = <<>> => p.previous = acc.last.op
      /\ Commanded(p) = Carried(acc.segs)
      /\ p.redirections = CarriedAll(acc.segs).held \o acc.last.redirections
  BY DEF InStep
<1>2. acc.segs \in Seq(Part) /\ acc.last \in Part /\ r.segs \in Seq(Part) /\ r.last \in Part
  BY PutType DEF ReadState
<1>3. /\ q.statements = p.statements /\ q.previous = p.previous /\ q.commands = p.commands /\ ~q.refused
      /\ r.segs = acc.segs /\ r.last.op = acc.last.op
  <2>1. q.statements = p.statements /\ q.previous = p.previous /\ q.commands = p.commands /\ ~q.refused
    BY TakeIs
  <2>2. r.segs = acc.segs /\ r.last.op = acc.last.op
    BY <1>1, PutIs
  <2>3. QED
    BY <2>1, <2>2
<1> DEFINE held == CarriedAll(acc.segs).held
<1>8. held \in Redirected
  BY <1>2, CarriedAppend, CarryIs
<1>9. /\ p.redirections = held \o acc.last.redirections /\ acc.last.redirections \in Redirected
      /\ acc.wants \in Text
  BY <1>1, InStepTyped DEF ReadState
<1> HIDE DEF held
<1>4. /\ q.redirection = r.wants /\ q.words = r.last.words
      /\ q.redirections = held \o r.last.redirections
  <2>1. CASE p.redirection # <<>>
    <3>1. /\ q.words = p.words /\ q.redirection = <<>>
          /\ q.redirections = Append(p.redirections, [operator |-> p.redirection, target |-> t])
      BY <2>1, TakeIs
    <3>2. /\ r.last.words = acc.last.words /\ r.wants = <<>>
          /\ r.last.redirections = Append(acc.last.redirections, [operator |-> acc.wants, target |-> t])
      BY <1>1, <2>1, PutIs
    <3>3. [operator |-> acc.wants, target |-> t] \in [operator : Text, target : Text]
      BY <1>9
    <3>4. Append(held \o acc.last.redirections, [operator |-> acc.wants, target |-> t])
            = held \o Append(acc.last.redirections, [operator |-> acc.wants, target |-> t])
      <4>0. PICK S : S = [operator : Text, target : Text]
        OBVIOUS
      <4>4. PICK s2 : s2 = acc.last.redirections
        OBVIOUS
      <4>5. PICK z : z = [operator |-> acc.wants, target |-> t]
        OBVIOUS
      <4>6. PICK s1 : s1 = held
        OBVIOUS
      <4>1. /\ S = [operator : Text, target : Text] /\ s2 = acc.last.redirections
            /\ z = [operator |-> acc.wants, target |-> t] /\ s1 = held
        BY <4>0, <4>4, <4>5, <4>6
      <4>2. s1 \in Seq(S) /\ s2 \in Seq(S) /\ z \in S
        BY <1>8, <1>9, <3>3, <4>1 DEF Redirected
      <4>3. Append(s1 \o s2, z) = s1 \o Append(s2, z)
        BY <4>2
      <4> QED
        BY <4>1, <4>3
    <3> HIDE DEF q, r
    <3>6. p.redirection = acc.wants /\ p.words = acc.last.words
      BY <1>1
    <3>7. q.redirections = held \o r.last.redirections
      BY <1>9, <3>1, <3>2, <3>4, <3>6
    <3>5. QED
      BY <3>1, <3>2, <3>6, <3>7
  <2>2. CASE p.redirection = <<>> /\ t \in Redirectors
    <3>1. q.words = p.words /\ q.redirections = p.redirections /\ q.redirection = t
      BY <2>2, TakeIs
    <3>2. r.last = acc.last /\ r.wants = t
      BY <1>1, <2>2, PutIs
    <3> HIDE DEF q, r
    <3>3. QED
      BY <1>1, <1>9, <3>1, <3>2
  <2>3. CASE p.redirection = <<>> /\ t \notin Special
    <3>1. q.words = Append(p.words, t) /\ q.redirections = p.redirections /\ q.redirection = <<>>
      BY <2>3, TakeIs
    <3>2. r.last.words = Append(acc.last.words, t) /\ r.last.redirections = acc.last.redirections /\ r.wants = <<>>
      BY <1>1, <2>3, PutIs
    <3> HIDE DEF q, r
    <3>3. QED
      BY <1>1, <1>9, <3>1, <3>2
  <2>4. QED
    BY <2>1, <2>2, <2>3
<1>5. Commanded(q) = Commanded(p)
  BY <1>3 DEF Commanded
<1>6. ~Broken(r.segs, r.last)
  BY <1>1, <1>2, <1>3, BrokenSame
<1> HIDE DEF q, r
<1>7. QED
  BY <1>1, <1>3, <1>4, <1>5, <1>6 DEF InStep, q, r, held

LEMMA NewSegment ==
  ASSUME NEW op \in Text
  PROVE  Segment(op) \in Part /\ Segment(op).op = op /\ Segment(op).words = <<>> /\ Segment(op).redirections = <<>>
  BY DEF Segment, Part, Redirected

LEMMA InStepPipe ==
  ASSUME NEW p \in ParseState, NEW acc \in ReadState, InStep(p, acc), ~p.refused, p.redirection = <<>>
  PROVE  InStep(Take(p, Pipe), Put(acc, Pipe))
<1> DEFINE q == Take(p, Pipe)
           r == Put(acc, Pipe)
           c == [words |-> p.words, redirections |-> p.redirections]
<1>1. ~Broken(acc.segs, acc.last) /\ acc.wants = <<>> /\ p.words = acc.last.words
  BY DEF InStep
<1>2. acc.segs \in Seq(Part) /\ acc.last \in Part /\ p.commands \in Seq(Parsed)
  BY InStepTyped
<1>3. r.segs = Append(acc.segs, acc.last) /\ r.last = Segment(Pipe) /\ r.wants = <<>>
  BY <1>1, OperatorTokens, PutIs
<1>4. r.last \in Part /\ r.last.op = Pipe /\ r.last.words = <<>> /\ r.last.redirections = <<>>
  BY <1>3, OperatorTokens, NewSegment
<1>5. q = FlushCommand(p)
  BY DEF Take
<1> HIDE DEF r, q
<1>6. Broken(r.segs, r.last) <=> acc.last.words = <<>>
  BY <1>1, <1>2, <1>3, <1>4, BrokenAppend, OperatorTokens
<1>7. CASE p.words = <<>>
  <2>1. q = [p EXCEPT !.refused = TRUE]
    BY <1>5, <1>7 DEF FlushCommand
  <2>2. q.refused
    BY <2>1 DEF ParseState
  <2>3. QED
    BY <1>1, <1>6, <1>7, <2>2 DEF InStep, q, r
<1>8. CASE p.words # <<>>
  <2>1. /\ c \in Parsed
        /\ q.statements = p.statements /\ q.previous = p.previous /\ q.commands = Append(p.commands, c)
        /\ q.words = <<>> /\ q.redirections = <<>> /\ q.redirection = p.redirection /\ q.refused = p.refused
    BY <1>5, <1>8, FlushCommandIs
  <2>2. Commanded(q) = Carried(r.segs) /\ CarriedAll(r.segs).held = <<>>
    <3>1. Commanded(q) = Listed(p.statements) \o CommandsOf([previous |-> p.previous, commands |-> Append(p.commands, c)])
      BY <2>1 DEF Commanded
    <3>2. QED
      BY <1>3, <1>8, <3>1, CommandDone
  <2>3. q.commands # <<>> /\ <<>> \o <<>> = <<>>
    BY <1>2, <2>1
  <2>4. QED
    BY <1>1, <1>3, <1>4, <1>6, <1>8, <2>1, <2>2, <2>3 DEF InStep, q, r
<1>9. QED
  BY <1>7, <1>8

LEMMA NoCommands ==
  ASSUME NEW v
  PROVE  CommandsOf([previous |-> v, commands |-> <<>>]) = <<>>
  BY DEF CommandsOf

\* The statements with the one that is finished are what was commanded with it.
LEMMA CommandedNext ==
  ASSUME NEW q \in ParseState, NEW sts \in Seq(Pipeline), NEW st \in Pipeline,
         q.statements = Append(sts, st), q.commands = <<>>
  PROVE  Commanded(q) = Listed(sts) \o CommandsOf(st)
<1>1. Listed(sts) \in Seq(Part) /\ Listed(Append(sts, st)) = Listed(sts) \o CommandsOf(st)
  BY ListedAppend
<1>2. Listed(sts) \o CommandsOf(st) \in Seq(Part)
  BY <1>1, CommandsType, ConcatProperties
<1>3. CommandsOf([previous |-> q.previous, commands |-> q.commands]) = <<>>
  BY NoCommands
<1>4. QED
  BY <1>1, <1>2, <1>3, ConcatEmptySeq DEF Commanded

LEMMA InStepConnector ==
  ASSUME NEW p \in ParseState, NEW acc \in ReadState, NEW t \in Connectors, t \in Text,
         InStep(p, acc), ~p.refused, p.redirection = <<>>
  PROVE  InStep(Take(p, t), Put(acc, t))
<1> DEFINE f == FlushPipeline(p)
           q == Take(p, t)
           r == Put(acc, t)
           c == [words |-> p.words, redirections |-> p.redirections]
<1>1. /\ ~Broken(acc.segs, acc.last) /\ acc.wants = <<>> /\ p.words = acc.last.words
      /\ p.commands = <<>> <=> acc.last.op # Pipe
      /\ p.commands = <<>> => p.previous = acc.last.op
      /\ Commanded(p) = Carried(acc.segs)
      /\ p.redirections = CarriedAll(acc.segs).held \o acc.last.redirections
  BY DEF InStep
<1>2. /\ acc.segs \in Seq(Part) /\ acc.last \in Part /\ p.statements \in Seq(Pipeline)
      /\ p.redirections \in Redirected
  BY InStepTyped
<1>3. r.segs = Append(acc.segs, acc.last) /\ r.last = Segment(t) /\ r.wants = <<>>
  BY <1>1, PutIs
<1>4. r.last \in Part /\ r.last.op = t /\ r.last.words = <<>> /\ r.last.redirections = <<>>
  BY <1>3, NewSegment
<1>5. q = [f EXCEPT !.previous = t]
  BY OperatorTokens DEF Take
<1>6. q \in ParseState
  BY TakeType
<1> HIDE DEF r, q, f
<1>7. Broken(r.segs, r.last) <=> acc.last.words = <<>> /\ acc.last.op # Pipe
  BY <1>1, <1>2, <1>3, <1>4, BrokenAppend
<1>8. CASE p.words = <<>> /\ p.commands = <<>>
  <2>1. f = [p EXCEPT !.refused = TRUE]
    BY <1>8 DEF FlushPipeline, f
  <2>2. q.refused
    BY <1>5, <2>1 DEF ParseState
  <2>3. QED
    BY <1>1, <1>7, <1>8, <2>2 DEF InStep, q, r
<1>9. CASE p.words # <<>> \/ p.commands # <<>>
  <2> DEFINE st == [previous |-> p.previous,
                    commands |-> IF p.words = <<>> THEN p.commands ELSE Append(p.commands, c)]
  <2>1. /\ f \in ParseState /\ st \in Pipeline
        /\ f.statements = Append(p.statements, st) /\ f.commands = <<>>
        /\ f.words = <<>> /\ f.redirections = (IF p.words = <<>> THEN p.redirections ELSE <<>>)
        /\ f.redirection = p.redirection /\ f.refused = p.refused
    BY <1>9, FlushPipelineIs DEF f
  <2>2. st = (IF p.words = <<>> THEN [previous |-> p.previous, commands |-> p.commands]
                                ELSE [previous |-> p.previous, commands |-> Append(p.commands, c)])
    OBVIOUS
  <2> HIDE DEF st
  <2>3. /\ q.statements = Append(p.statements, st) /\ q.commands = <<>> /\ q.previous = t
        /\ q.words = <<>> /\ q.redirections = (IF p.words = <<>> THEN p.redirections ELSE <<>>)
        /\ q.redirection = p.redirection /\ ~q.refused
    BY <1>5, <2>1 DEF ParseState
  <2>4. Commanded(q) = Listed(p.statements) \o CommandsOf(st)
    BY <1>2, <1>6, <2>1, <2>3, CommandedNext
  <2>5. ~Broken(r.segs, r.last)
    BY <1>1, <1>7, <1>9
  <2>6. Commanded(q) = Carried(r.segs) /\ q.redirections = CarriedAll(r.segs).held \o <<>>
    <3>1. CASE p.words # <<>>
      <4>1. Commanded(q) = Listed(p.statements) \o CommandsOf([previous |-> p.previous, commands |-> Append(p.commands, c)])
        BY <2>2, <2>4, <3>1
      <4>2. Commanded(q) = Carried(r.segs) /\ CarriedAll(r.segs).held = <<>>
        BY <1>3, <3>1, <4>1, CommandDone
      <4>3. <<>> \o <<>> = <<>>
        OBVIOUS
      <4>4. QED
        BY <2>3, <3>1, <4>2, <4>3
    <3>2. CASE p.words = <<>>
      <4>1. Commanded(q) = Commanded(p)
        BY <2>2, <2>4, <3>2 DEF Commanded
      <4>2. /\ CarriedAll(r.segs).list = CarriedAll(acc.segs).list
            /\ CarriedAll(r.segs).held = CarriedAll(acc.segs).held \o acc.last.redirections
        <5>1. PICK was \in CarryState : was = CarriedAll(acc.segs) /\ CarriedAll(r.segs) = Carry(was, acc.last)
          BY <1>2, <1>3, CarriedAppend
        <5>2. acc.last.words = <<>>
          BY <1>1, <3>2
        <5>3. /\ Carry(was, acc.last).list = was.list
              /\ Carry(was, acc.last).held = was.held \o acc.last.redirections
          BY <1>2, <5>2, CarryIs
        <5> QED
          BY <5>1, <5>3
      <4>3. p.redirections \o <<>> = p.redirections
        BY <1>2, ConcatEmptySeq DEF Redirected
      <4>4. QED
        BY <1>1, <2>3, <3>2, <4>1, <4>2, <4>3, CarriedIs
    <3>3. QED
      BY <3>1, <3>2
  <2>7. t # Pipe
    BY OperatorTokens
  <2>8. QED
    BY <1>3, <1>4, <2>3, <2>5, <2>6, <2>7 DEF InStep, q, r
<1>10. QED
  BY <1>8, <1>9

LEMMA InStepKept ==
  ASSUME NEW p \in ParseState, NEW acc \in ReadState, NEW t \in Text, InStep(p, acc)
  PROVE  InStep(Take(p, t), Put(acc, t))
<1>1. CASE p.refused
  <2>1. Take(p, t) = p
    BY <1>1 DEF Take
  <2>2. Broken(acc.segs, acc.last)
    BY <1>1 DEF InStep
  <2>3. Broken(Put(acc, t).segs, Put(acc, t).last)
    BY <2>2, BrokenStays
  <2>4. QED
    BY <1>1, <2>1, <2>3 DEF InStep
<1>2. CASE ~p.refused /\ (p.redirection # <<>> \/ t \in Redirectors \/ t \notin Special)
  BY <1>2, InStepWithin
<1>3. CASE ~p.refused /\ p.redirection = <<>> /\ t = Pipe
  BY <1>3, InStepPipe
<1>4. CASE ~p.refused /\ p.redirection = <<>> /\ t \in Connectors
  BY <1>4, InStepConnector
<1>5. QED
  BY <1>1, <1>2, <1>3, <1>4 DEF Special

LEMMA StartInStep == InStep(Nothing, Unread)
<1>1. /\ Unread.segs = <<>> /\ Unread.last = Segment(<<>>) /\ Unread.wants = <<>>
      /\ Unread.last.op = <<>> /\ Unread.last.words = <<>> /\ Unread.last.redirections = <<>>
  BY DEF Unread, Segment
<1>2. <<>> # Pipe
  BY OperatorTokens DEF Special
<1>3. Commanded(Nothing) = <<>> \o <<>>
  BY ListedEmpty, NoCommands DEF Commanded, Nothing
<1>4. <<>> \o <<>> = <<>>
  OBVIOUS
<1>5. Carried(Unread.segs) = <<>> /\ CarriedAll(Unread.segs).held = <<>>
  BY <1>1, CarriedEmpty, CarriedIs DEF Uncarried
<1>6. ~Broken(Unread.segs, Unread.last)
  BY <1>1 DEF Broken
<1>7. QED
  BY <1>1, <1>2, <1>3, <1>4, <1>5, <1>6 DEF InStep, Nothing

\* The parser and the grammar are in step at the end of a line.
LEMMA EndInStep ==
  ASSUME NEW lexed \in Seq(Text)
  PROVE  /\ Over(Take, Nothing, lexed) \in ParseState /\ Segments(lexed) \in ReadState
         /\ InStep(Over(Take, Nothing, lexed), Segments(lexed))
<1> DEFINE n == Len(lexed)
<1>1. n \in Nat /\ \A i \in 1 .. n : lexed[i] \in Text
  OBVIOUS
<1>2. PICK m \in [0 .. n -> ParseState] :
        m[0] = Nothing /\ (\A i \in 1 .. n : m[i] = Take(m[i - 1], lexed[i])) /\ Over(Take, Nothing, lexed) = m[n]
  BY TakeMade
<1>3. PICK r \in [0 .. n -> ReadState] :
        r[0] = Unread /\ (\A i \in 1 .. n : r[i] = Put(r[i - 1], lexed[i])) /\ Segments(lexed) = r[n]
  BY PutMade
<1> HIDE DEF n
<1> DEFINE T == {i \in 0 .. n : InStep(m[i], r[i])}
<1>4. 0 \in T
  BY <1>1, <1>2, <1>3, StartInStep
<1>5. ASSUME NEW i \in 1 .. n, i - 1 \in T PROVE i \in T
  <2>1. i \in 0 .. n /\ i - 1 \in 0 .. n /\ m[i - 1] \in ParseState /\ r[i - 1] \in ReadState /\ InStep(m[i - 1], r[i - 1])
    BY <1>1, <1>2, <1>3, <1>5
  <2>2. InStep(Take(m[i - 1], lexed[i]), Put(r[i - 1], lexed[i]))
    BY <1>1, <2>1, InStepKept
  <2>3. QED
    BY <1>2, <1>3, <2>1, <2>2
<1> HIDE DEF T
<1>6. \A i \in 0 .. n : i \in T
  BY <1>1, <1>4, <1>5, Climb
<1>7. n \in 0 .. n
  BY <1>1
<1>8. InStep(m[n], r[n])
  BY <1>6, <1>7 DEF T
<1>9. m[n] \in ParseState /\ r[n] \in ReadState
  BY <1>2, <1>3, <1>7
<1>10. QED
  BY <1>2, <1>3, <1>8, <1>9

\* What the last pipeline adds, when nothing was refused.
LEMMA LastPipeline ==
  ASSUME NEW p \in ParseState, NEW acc \in ReadState, InStep(p, acc)
  PROVE  LET q == IF p.words # <<>> \/ p.commands # <<>> THEN FlushPipeline(p) ELSE p
             segs == Append(acc.segs, acc.last)
         IN /\ q \in ParseState /\ q.refused = p.refused
            /\ ~p.refused => Listed(q.statements) = Carried(segs)
<1> DEFINE q == IF p.words # <<>> \/ p.commands # <<>> THEN FlushPipeline(p) ELSE p
           segs == Append(acc.segs, acc.last)
           c == [words |-> p.words, redirections |-> p.redirections]
           st == [previous |-> p.previous,
                  commands |-> IF p.words = <<>> THEN p.commands ELSE Append(p.commands, c)]
<1>1. acc.segs \in Seq(Part) /\ acc.last \in Part /\ p.statements \in Seq(Pipeline)
  BY InStepTyped
<1>2. CASE p.words = <<>> /\ p.commands = <<>>
  <2>1. q = p
    BY <1>2
  <2>2. ASSUME ~p.refused
        PROVE  Commanded(p) = Carried(acc.segs) /\ p.words = acc.last.words
    BY <2>2 DEF InStep
  <2>3. Listed(p.statements) \in Seq(Part)
    <3>1. PICK m \in [0 .. Len(p.statements) -> Seq(Part)] : Listed(p.statements) = m[Len(p.statements)]
      BY <1>1, ListedMade
    <3>2. Len(p.statements) \in 0 .. Len(p.statements)
      BY <1>1
    <3>3. QED
      BY <3>1, <3>2
  <2>4. Commanded(p) = Listed(p.statements)
    BY <1>2, <2>3, NoCommands, ConcatEmptySeq DEF Commanded
  <2>5. acc.last.words = <<>> => Carried(segs) = Carried(acc.segs)
    BY <1>1, WordlessSame
  <2> HIDE DEF q
  <2>6. QED
    BY <1>2, <2>1, <2>2, <2>4, <2>5 DEF q
<1>3. CASE p.words # <<>> \/ p.commands # <<>>
  <2>1. q = FlushPipeline(p)
    BY <1>3
  <2>2. st \in Pipeline /\ q \in ParseState /\ q.statements = Append(p.statements, st) /\ q.refused = p.refused
    BY <1>3, <2>1, FlushPipelineIs
  <2> HIDE DEF q
  <2>3. Listed(q.statements) = Listed(p.statements) \o CommandsOf(st)
    <3> HIDE DEF st
    <3>1. QED
      BY <1>1, <2>2, ListedAppend
  <2>4. CASE p.words # <<>>
    <3>1. Listed(q.statements) = Listed(p.statements) \o CommandsOf([previous |-> p.previous, commands |-> Append(p.commands, c)])
      BY <2>3, <2>4
    <3>2. ~p.refused => Listed(q.statements) = Carried(segs)
      <4>1. SUFFICES ASSUME ~p.refused
                     PROVE Listed(q.statements) = Carried(segs)
        OBVIOUS
      <4>2. QED
        BY <2>4, <3>1, <4>1, CommandDone
    <3>3. QED
      BY <2>2, <3>2 DEF q
  <2>5. CASE p.words = <<>>
    <3>1. Listed(q.statements) = Commanded(p)
      BY <2>3, <2>5 DEF Commanded
    <3>2. ~p.refused => Listed(q.statements) = Carried(segs)
      <4>1. SUFFICES ASSUME ~p.refused
                     PROVE Listed(q.statements) = Carried(segs)
        OBVIOUS
      <4>2. acc.last.words = <<>> /\ Commanded(p) = Carried(acc.segs)
        BY <2>5, <4>1 DEF InStep
      <4>3. Carried(segs) = Carried(acc.segs)
        BY <1>1, <4>2, WordlessSame
      <4>4. QED
        BY <3>1, <4>2, <4>3
    <3>3. QED
      BY <2>2, <3>2 DEF q
  <2>6. QED
    BY <2>4, <2>5
<1>4. QED
  BY <1>2, <1>3

\* The body of StructureKept, for any tokens.
KeptIn(lexed) ==
  LET parsed == Parse(lexed)
      read   == Segments(lexed)
      segs   == Append(read.segs, read.last)
      bare   == {i \in DOMAIN segs : segs[i].words = <<>>}
  IN /\ parsed.refused <=>
          \/ read.wants # <<>>
          \/ \E i \in bare \ {Len(segs)} : ~(segs[i].op = Pipe /\ segs[i + 1].op \in Connectors)
     /\ ~parsed.refused => Listed(parsed.statements) = Carried(segs)

LEMMA Structure ==
  ASSUME NEW lexed \in Seq(Text)
  PROVE  KeptIn(lexed)
<1> DEFINE p == Over(Take, Nothing, lexed)
           acc == Segments(lexed)
           q == IF p.words # <<>> \/ p.commands # <<>> THEN FlushPipeline(p) ELSE p
           parsed == Parse(lexed)
           n == Len(acc.segs)
           segs == Append(acc.segs, acc.last)
           bare == {i \in DOMAIN segs : segs[i].words = <<>>}
<1>1. p \in ParseState /\ acc \in ReadState /\ InStep(p, acc)
  BY EndInStep
<1>2. parsed = [q EXCEPT !.refused = @ \/ p.redirection # <<>>]
  BY DEF Parse
<1> HIDE DEF p, acc, parsed
<1>3. /\ q \in ParseState /\ q.refused = p.refused
      /\ ~p.refused => Listed(q.statements) = Carried(segs)
  BY <1>1, LastPipeline
<1> HIDE DEF q
<1>4. parsed.statements = q.statements /\ (parsed.refused <=> q.refused \/ p.redirection # <<>>)
  BY <1>2, <1>3 DEF ParseState
<1>5. acc.segs \in Seq(Part) /\ acc.last \in Part
  BY <1>1, InStepTyped
<1>6. /\ n \in Nat /\ DOMAIN segs = 1 .. n + 1 /\ Len(segs) = n + 1
      /\ \A i \in 1 .. n : segs[i] = acc.segs[i]
  BY <1>5
<1>7. parsed.refused <=> acc.wants # <<>> \/ Broken(acc.segs, acc.last)
  BY <1>1, <1>3, <1>4 DEF InStep
<1>8. Broken(acc.segs, acc.last) <=>
        \E i \in bare \ {Len(segs)} : ~(segs[i].op = Pipe /\ segs[i + 1].op \in Connectors)
  <2>1. bare \ {Len(segs)} = {i \in 1 .. n : acc.segs[i].words = <<>>}
    BY <1>6
  <2>2. Broken(acc.segs, acc.last) <=>
          \E i \in 1 .. n : acc.segs[i].words = <<>> /\ ~(acc.segs[i].op = Pipe /\ segs[i + 1].op \in Connectors)
    BY DEF Broken
  <2> HIDE DEF bare, segs, n
  <2>3. QED
    BY <1>6, <2>1, <2>2
<1> HIDE DEF bare, segs, n
<1>10. QED
  BY <1>3, <1>4, <1>7, <1>8 DEF KeptIn, parsed, acc, bare, segs

-----------------------------------------------------------------------------
\* normalizeOperators, place by place

PlaceState == [out : Seq(Text), skip : Nat]
Unplaced == [out |-> <<>>, skip |-> 0]

LEMMA UnplacedType == Unplaced \in PlaceState
  BY DEF Unplaced, PlaceState

LEMMA CombinedType ==
  ASSUME NEW op \in Combined
  PROVE  op \in Text /\ Len(op) \in Nat /\ Len(op) - 1 \in Nat
<1>1. op \in {<<"|", "|">>, <<"&", "&">>, <<"2", ">">>, <<">", ">">>, <<"2", ">", "&", "1">>}
  BY DEF Combined, OutErr
<1>2. op \in Special
  BY <1>1, Zenon DEF Special, Connectors, Redirectors, OutErr
<1>3. Len(op) \in {2, 4}
  BY <1>1
<1>4. QED
  BY <1>2, <1>3, SpecialTokens

LEMMA PlaceType ==
  ASSUME NEW lexed \in Seq(Text), NEW acc \in PlaceState, NEW i \in 1 .. Len(lexed)
  PROVE  Place(lexed, acc, i) \in PlaceState
<1>1. acc.out \in Seq(Text) /\ acc.skip \in Nat /\ lexed[i] \in Text
  BY DEF PlaceState
<1>2. CASE acc.skip > 0
  BY <1>1, <1>2 DEF Place, PlaceState
<1>3. CASE ~(acc.skip > 0) /\ Combines(lexed, i) = {}
  <2>1. Place(lexed, acc, i) = [acc EXCEPT !.out = Append(@, lexed[i])]
    BY <1>3 DEF Place
  <2>2. Append(acc.out, lexed[i]) \in Seq(Text)
    BY <1>1
  <2>3. QED
    BY <1>1, <2>1, <2>2 DEF PlaceState
<1>4. CASE ~(acc.skip > 0) /\ Combines(lexed, i) # {}
  <2> DEFINE op == CHOOSE op \in Combines(lexed, i) : TRUE
  <2>1. op \in Combined
    BY <1>4 DEF Combines
  <2>2. Place(lexed, acc, i) = [out |-> Append(acc.out, op), skip |-> Len(op) - 1]
    BY <1>4 DEF Place
  <2> HIDE DEF op
  <2>3. QED
    BY <1>1, <2>1, <2>2, CombinedType DEF PlaceState
<1>5. QED
  BY <1>2, <1>3, <1>4

LEMMA PlacedMade ==
  ASSUME NEW lexed \in Seq(Text), NEW places, places = [i \in 1 .. Len(lexed) |-> i]
  PROVE  \E m \in [0 .. Len(places) -> PlaceState] :
           /\ m[0] = Unplaced
           /\ \A i \in 1 .. Len(places) : m[i] = Place(lexed, m[i - 1], places[i])
           /\ Over(LAMBDA acc, i : Place(lexed, acc, i), Unplaced, places) = m[Len(places)]
<1> DEFINE n == Len(places)
           base == Unplaced
           Op(x, e) == Place(lexed, x, e)
           Is(m) == m = [i \in 0 .. n |-> IF i = 0 THEN base ELSE Op(m[i - 1], places[i])]
           made == CHOOSE m : Is(m)
           g == [i \in 1 .. n |-> [x \in PlaceState |-> Op(x, places[i])]]
<1>1. n \in Nat /\ \A i \in 1 .. n : places[i] \in 1 .. Len(lexed)
  OBVIOUS
<1>2. base \in PlaceState /\ \A i \in 1 .. n : \A x \in PlaceState : Op(x, places[i]) \in PlaceState
  BY <1>1, UnplacedType, PlaceType
<1>3. Over(LAMBDA acc, i : Place(lexed, acc, i), Unplaced, places) = made[n]
  BY DEF Over, n, Op
<1> HIDE DEF n, base, Op
<1>4. PICK f : Goes(f, PlaceState, base, n, g)
  <2>1. g \in [1 .. n -> [PlaceState -> PlaceState]]
    BY <1>2
  <2> HIDE DEF g
  <2>2. QED
    BY <1>1, <1>2, <2>1, GoesOn
<1>5. Is(f)
  <2>1. f = [i \in 0 .. n |-> IF i = 0 THEN base ELSE g[i][f[i - 1]]]
    <3> HIDE DEF g
    <3>1. f = Stepped(base, n, g, f)
      BY <1>1, <1>4, GoesAsLoop, Zenon
    <3>2. QED
      BY <3>1 DEF Stepped
  <2>2. \A i \in 1 .. n : f[i - 1] \in PlaceState
    BY <1>1, <1>4 DEF Goes
  <2>3. \A i \in 0 .. n : i # 0 => g[i][f[i - 1]] = Op(f[i - 1], places[i])
    BY <1>1, <2>2
  <2> HIDE DEF g
  <2>4. QED
    BY <2>1, <2>3
<1>6. Is(made)
  BY <1>5
<1> HIDE DEF made
<1>7. made[0] = base /\ made = [i \in 0 .. n |-> made[i]] /\ \A i \in 1 .. n : made[i] = Op(made[i - 1], places[i])
  <2>1. \A i \in 0 .. n : made[i] = IF i = 0 THEN base ELSE Op(made[i - 1], places[i])
    BY <1>6
  <2>2. 0 \in 0 .. n /\ \A i \in 1 .. n : i \in 0 .. n /\ i # 0
    BY <1>1
  <2>3. QED
    BY <1>6, <2>1, <2>2
<1>8. \A i \in 1 .. n : made[i - 1] \in PlaceState => made[i] \in PlaceState
  BY <1>2, <1>7
<1>9. made \in [0 .. n -> PlaceState]
  BY <1>1, <1>2, <1>7, <1>8, LoopStays
<1>10. QED
  BY <1>3, <1>7, <1>9 DEF n, base, Op

LEMMA PlaceMade ==
  ASSUME NEW lexed \in Seq(Text)
  PROVE  \E m \in [0 .. Len(lexed) -> PlaceState] :
           /\ m[0] = Unplaced
           /\ \A i \in 1 .. Len(lexed) : m[i] = Place(lexed, m[i - 1], i)
           /\ NormalizeOperators(lexed) = m[Len(lexed)].out
<1> DEFINE places == [i \in 1 .. Len(lexed) |-> i]
           end == Over(LAMBDA acc, i : Place(lexed, acc, i), Unplaced, places)
<1>1. NormalizeOperators(lexed) = end.out
  BY DEF NormalizeOperators, Unplaced
<1>2. Len(places) = Len(lexed) /\ \A i \in 1 .. Len(lexed) : places[i] = i
  OBVIOUS
<1> HIDE DEF end
<1>3. PICK m \in [0 .. Len(places) -> PlaceState] :
           /\ m[0] = Unplaced
           /\ \A i \in 1 .. Len(places) : m[i] = Place(lexed, m[i - 1], places[i])
           /\ end = m[Len(places)]
  BY PlacedMade DEF end
<1> HIDE DEF places
<1>4. QED
  BY <1>1, <1>2, <1>3

\* The tokens stay tokens.
LEMMA NormalizedType ==
  ASSUME NEW lexed \in Seq(Text)
  PROVE  NormalizeOperators(lexed) \in Seq(Text)
<1>1. PICK m \in [0 .. Len(lexed) -> PlaceState] : NormalizeOperators(lexed) = m[Len(lexed)].out
  BY PlaceMade
<1>2. Len(lexed) \in 0 .. Len(lexed)
  OBVIOUS
<1>3. QED
  BY <1>1, <1>2 DEF PlaceState

-----------------------------------------------------------------------------
\* A line lies in its tokens: a word is one of them, an operator as many as it has runes.

Written == {e \in [op : BOOLEAN, text : Text] : e.op => e.text \in Special}
Size(e) == IF e.op THEN Len(e.text) ELSE 1
Spelled(e, k) == IF e.op THEN <<e.text[k]>> ELSE e.text

\* at: how many tokens the first pieces take.
LaidAt(lexed, line, at) ==
  /\ at \in [0 .. Len(line) -> Nat] /\ at[0] = 0 /\ at[Len(line)] = Len(lexed)
  /\ \A j \in 1 .. Len(line) :
       /\ at[j] = at[j - 1] + Size(line[j])
       /\ \A k \in 1 .. Size(line[j]) : lexed[at[j - 1] + k] = Spelled(line[j], k)
Laid(lexed, line) == \E at : LaidAt(lexed, line, at)

LEMMA SizeIs ==
  ASSUME NEW e \in Written
  PROVE  /\ Size(e) \in Nat \ {0}
         /\ e.op => Size(e) = Len(e.text) /\ Len(e.text) \in {1, 2, 4}
         /\ ~e.op => Size(e) = 1
<1>1. CASE e.op
  <2>1. e.text \in {<<"|">>, <<";">>, <<"&", "&">>, <<"|", "|">>, <<">">>, <<">", ">">>, <<"<">>, <<"2", ">">>, <<"2", ">", "&", "1">>}
    BY <1>1 DEF Written, Special, Pipe, Connectors, Redirectors, OutErr
  <2>2. Len(e.text) \in {1, 2, 4}
    <3>1. e.text \in {<<"|">>, <<";">>, <<">">>, <<"<">>} => Len(e.text) = 1
      <4>1. Len(<<"|">>) = 1 /\ Len(<<";">>) = 1 /\ Len(<<">">>) = 1 /\ Len(<<"<">>) = 1
        OBVIOUS
      <4>2. QED
        BY <4>1, Zenon
    <3>2. e.text \in {<<"&", "&">>, <<"|", "|">>} => Len(e.text) = 2
      OBVIOUS
    <3>3. e.text \in {<<">", ">">>, <<"2", ">">>} => Len(e.text) = 2
      OBVIOUS
    <3>4. e.text = <<"2", ">", "&", "1">> => Len(e.text) = 4
      OBVIOUS
    <3>5. QED
      BY <2>1, <3>1, <3>2, <3>3, <3>4, Zenon
  <2>3. Size(e) = Len(e.text)
    BY <1>1 DEF Size
  <2> DEFINE length == Len(e.text)
  <2> HIDE DEF length
  <2>4. length \in {1, 2, 4} /\ Size(e) = length
    BY <2>2, <2>3 DEF length
  <2>5. length \in Nat \ {0}
    BY <2>4
  <2>6. QED
    BY <1>1, <2>4, <2>5, Zenon DEF length
<1>2. CASE ~e.op
  BY <1>2 DEF Size
<1>3. QED
  BY <1>1, <1>2

\* No piece ends after the tokens.
LEMMA LaidWithin ==
  ASSUME NEW lexed \in Seq(Text), NEW line \in Seq(Written), NEW at, LaidAt(lexed, line, at)
  PROVE  \A j \in 0 .. Len(line) : at[j] <= Len(lexed)
<1> DEFINE n == Len(line)
<1>1. n \in Nat /\ \A j \in 1 .. n : line[j] \in Written
  OBVIOUS
<1>2. at \in [0 .. n -> Nat] /\ at[0] = 0 /\ at[n] = Len(lexed)
  BY DEF LaidAt
<1>3. \A j \in 1 .. n : at[j] = at[j - 1] + Size(line[j])
  BY DEF LaidAt
<1> HIDE DEF n
<1> DEFINE T == {k \in 0 .. n : \A j \in 0 .. k : at[j] <= at[k]}
<1>4. 0 \in T
  BY <1>1, <1>2
<1>5. ASSUME NEW k \in 1 .. n, k - 1 \in T PROVE k \in T
  <2>1. k \in 0 .. n /\ k - 1 \in 0 .. n /\ at[k] \in Nat /\ at[k - 1] \in Nat /\ Size(line[k]) \in Nat
    <3>1. k \in 0 .. n /\ k - 1 \in 0 .. n
      BY <1>1
    <3>2. at[k] \in Nat /\ at[k - 1] \in Nat
      BY <1>2, <3>1
    <3>3. Size(line[k]) \in Nat
      BY <1>1, SizeIs
    <3>4. QED
      BY <3>1, <3>2, <3>3
  <2>2. at[k - 1] <= at[k]
    BY <1>3, <2>1
  <2>3. \A j \in 0 .. k : j = k \/ j \in 0 .. k - 1
    BY <2>1
  <2>4. \A j \in 0 .. k - 1 : at[j] <= at[k - 1] /\ at[j] \in Nat
    <3>1. \A j \in 0 .. k - 1 : j \in 0 .. n
      BY <1>1
    <3>2. QED
      BY <1>2, <1>5, <3>1
  <2>5. \A j \in 0 .. k : at[j] <= at[k]
    BY <2>1, <2>2, <2>3, <2>4
  <2>6. QED
    BY <2>1, <2>5
<1> HIDE DEF T
<1>6. \A k \in 0 .. n : k \in T
  BY <1>1, <1>4, <1>5, Climb
<1>7. n \in T
  BY <1>1, <1>6
<1>8. QED
  BY <1>2, <1>7 DEF T, n

\* A piece more is its tokens more.
Adds(lexed, all, e) ==
  /\ Len(all) = Len(lexed) + Size(e)
  /\ \A i \in 1 .. Len(lexed) : all[i] = lexed[i]
  /\ \A k \in 1 .. Size(e) : all[Len(lexed) + k] = Spelled(e, k)

LEMMA LaidMore ==
  ASSUME NEW lexed \in Seq(Text), NEW line \in Seq(Written), NEW e \in Written, NEW all \in Seq(Text),
         Laid(lexed, line), Adds(lexed, all, e)
  PROVE  Laid(all, Append(line, e))
<1> DEFINE n == Len(line)
           lon == Append(line, e)
<1>1. PICK at : LaidAt(lexed, line, at)
  BY DEF Laid
<1>2. n \in Nat /\ Len(lon) = n + 1 /\ lon[n + 1] = e /\ \A j \in 1 .. n : lon[j] = line[j] /\ line[j] \in Written
  OBVIOUS
<1>3. /\ Len(lexed) \in Nat /\ Len(all) = Len(lexed) + Size(e)
      /\ \A i \in 1 .. Len(lexed) : all[i] = lexed[i]
      /\ \A k \in 1 .. Size(e) : all[Len(lexed) + k] = Spelled(e, k)
  <2>1. Len(lexed) \in Nat
    OBVIOUS
  <2>2. QED
    BY <2>1, Zenon DEF Adds
<1> HIDE DEF n, lon
<1> DEFINE to == [j \in 0 .. n + 1 |-> IF j = n + 1 THEN Len(lexed) + Size(e) ELSE at[j]]
<1>4. at \in [0 .. n -> Nat] /\ at[0] = 0 /\ at[n] = Len(lexed)
  BY <1>1 DEF LaidAt, n
<1>5. \A j \in 1 .. n : at[j] = at[j - 1] + Size(line[j]) /\ \A k \in 1 .. Size(line[j]) : lexed[at[j - 1] + k] = Spelled(line[j], k)
  BY <1>1 DEF LaidAt, n
<1>6. Size(e) \in Nat
  BY SizeIs
<1>7. to[n + 1] = Len(lexed) + Size(e) /\ \A j \in 0 .. n : to[j] = at[j] /\ at[j] \in Nat
  BY <1>2, <1>4
<1>8. to \in [0 .. n + 1 -> Nat] /\ to[0] = 0
  BY <1>2, <1>3, <1>4, <1>6, <1>7
<1> HIDE DEF to
<1>9. \A j \in 0 .. n : at[j] <= Len(lexed)
  BY <1>1, LaidWithin DEF n
<1>10. ASSUME NEW j \in 1 .. n + 1
       PROVE  to[j] = to[j - 1] + Size(lon[j]) /\ \A k \in 1 .. Size(lon[j]) : all[to[j - 1] + k] = Spelled(lon[j], k)
  <2>1. CASE j = n + 1
    <3>1. lon[j] = e /\ to[j - 1] = Len(lexed) /\ to[j] = Len(lexed) + Size(e)
      BY <1>2, <1>4, <1>7, <2>1
    <3>2. QED
      BY <1>3, <3>1
  <2>2. CASE j \in 1 .. n
    <3>1. lon[j] = line[j] /\ to[j - 1] = at[j - 1] /\ to[j] = at[j] /\ at[j - 1] \in Nat /\ at[j] \in Nat /\ Size(line[j]) \in Nat
      BY <1>2, <1>7, <2>2, SizeIs
    <3>2. at[j] <= Len(lexed)
      BY <1>9, <2>2
    <3>3. \A k \in 1 .. Size(line[j]) : at[j - 1] + k \in 1 .. Len(lexed)
      BY <1>3, <1>5, <2>2, <3>1, <3>2
    <3>4. QED
      BY <1>3, <1>5, <2>2, <3>1, <3>3
  <2>3. QED
    BY <1>2, <2>1, <2>2
<1>11. LaidAt(all, lon, to)
  BY <1>2, <1>3, <1>7, <1>8, <1>10 DEF LaidAt
<1>12. QED
  BY <1>11 DEF Laid, lon

-----------------------------------------------------------------------------
\* What normalizeOperators finds at the first token of a piece

LEMMA SpellsTwo ==
  ASSUME NEW lexed \in Seq(Text), NEW i \in 1 .. Len(lexed), NEW a, NEW b
  PROVE  Spells(lexed, i, <<a, b>>) <=>
           i + 1 <= Len(lexed) /\ lexed[i] = <<a>> /\ lexed[i + 1] = <<b>>
<1> DEFINE op == <<a, b>>
<1>1. Len(op) = 2 /\ DOMAIN op = {1, 2} /\ op[1] = a /\ op[2] = b
  OBVIOUS
<1> HIDE DEF op
<1>2. i + 1 - 1 = i /\ i + 2 - 1 = i + 1
  OBVIOUS
<1>3. Spells(lexed, i, op) <=> i + 1 <= Len(lexed) /\ lexed[i] = <<a>> /\ lexed[i + 1] = <<b>>
  BY <1>1, <1>2 DEF Spells
<1>4. QED
  BY <1>3 DEF op

LEMMA SpellsFour ==
  ASSUME NEW lexed \in Seq(Text), NEW i \in 1 .. Len(lexed), NEW a, NEW b, NEW c, NEW d
  PROVE  Spells(lexed, i, <<a, b, c, d>>) <=>
           /\ i + 3 <= Len(lexed) /\ lexed[i] = <<a>> /\ lexed[i + 1] = <<b>>
           /\ lexed[i + 2] = <<c>> /\ lexed[i + 3] = <<d>>
<1> DEFINE op == <<a, b, c, d>>
<1>1. Len(op) = 4 /\ DOMAIN op = {1, 2, 3, 4} /\ op[1] = a /\ op[2] = b /\ op[3] = c /\ op[4] = d
  OBVIOUS
<1> HIDE DEF op
<1>2. i + 1 - 1 = i /\ i + 2 - 1 = i + 1 /\ i + 3 - 1 = i + 2 /\ i + 4 - 1 = i + 3
  OBVIOUS
<1>3. \A k \in {1, 2, 3, 4} : k = 1 \/ k = 2 \/ k = 3 \/ k = 4
  OBVIOUS
<1>4. Spells(lexed, i, op) <=>
        /\ i + 3 <= Len(lexed) /\ lexed[i] = <<a>> /\ lexed[i + 1] = <<b>>
        /\ lexed[i + 2] = <<c>> /\ lexed[i + 3] = <<d>>
  BY <1>1, <1>2, <1>3 DEF Spells
<1>5. QED
  BY <1>4 DEF op

Amp == <<"&">>
Two == <<"2">>
More == <<">">>
Less == <<"<">>
Semi == <<";">>

LEMMA AllDiffer ==
  /\ Pipe # Amp /\ Pipe # Two /\ Pipe # More /\ Pipe # Less /\ Pipe # Semi
  /\ Amp # Two /\ Amp # More /\ Amp # Less /\ Amp # Semi
  /\ Two # More /\ Two # Less /\ Two # Semi
  /\ More # Less /\ More # Semi /\ Less # Semi /\ Amp # <<"1">>
  BY DEF Pipe, Amp, Two, More, Less, Semi

Or == <<"|", "|">>
And == <<"&", "&">>
Add == <<">", ">">>
Err == <<"2", ">">>

LEMMA OperatorsDiffer ==
  /\ Or # And /\ Or # Add /\ Or # Err /\ And # Add /\ And # Err /\ Add # Err
  /\ OutErr # Or /\ OutErr # And /\ OutErr # Add /\ OutErr # Err
  BY DEF Or, And, Add, Err, OutErr

\* What the operators of two tokens and of four are spelled with.
LEMMA CombinesIs ==
  ASSUME NEW lexed \in Seq(Text), NEW i \in 1 .. Len(lexed)
  PROVE  LET two == i + 1 <= Len(lexed)
             err == i + 3 <= Len(lexed) /\ lexed[i] = Two /\ lexed[i + 1] = More
                      /\ lexed[i + 2] = Amp /\ lexed[i + 3] = <<"1">>
         IN /\ Combines(lexed, i) \subseteq {Or, And, Add, Err, OutErr}
            /\ Or \in Combines(lexed, i) <=> two /\ lexed[i] = Pipe /\ lexed[i + 1] = Pipe
            /\ And \in Combines(lexed, i) <=> two /\ lexed[i] = Amp /\ lexed[i + 1] = Amp
            /\ Add \in Combines(lexed, i) <=> two /\ lexed[i] = More /\ lexed[i + 1] = More
            /\ Err \in Combines(lexed, i) <=> two /\ lexed[i] = Two /\ lexed[i + 1] = More /\ ~err
            /\ OutErr \in Combines(lexed, i) <=> err
<1>1. Combined = {Or, And, Add, Err, OutErr}
  BY DEF Combined, Or, And, Add, Err
<1>2. /\ Spells(lexed, i, Or) <=> i + 1 <= Len(lexed) /\ lexed[i] = Pipe /\ lexed[i + 1] = Pipe
      /\ Spells(lexed, i, And) <=> i + 1 <= Len(lexed) /\ lexed[i] = Amp /\ lexed[i + 1] = Amp
      /\ Spells(lexed, i, Add) <=> i + 1 <= Len(lexed) /\ lexed[i] = More /\ lexed[i + 1] = More
      /\ Spells(lexed, i, Err) <=> i + 1 <= Len(lexed) /\ lexed[i] = Two /\ lexed[i + 1] = More
  BY SpellsTwo DEF Or, And, Add, Err, Pipe, Amp, More, Two
<1>3. Spells(lexed, i, OutErr) <=>
        i + 3 <= Len(lexed) /\ lexed[i] = Two /\ lexed[i + 1] = More /\ lexed[i + 2] = Amp /\ lexed[i + 3] = <<"1">>
  BY SpellsFour DEF OutErr, Two, More, Amp
<1>4. Combines(lexed, i) = {op \in {Or, And, Add, Err, OutErr} : Spells(lexed, i, op) /\ (op = Err => ~Spells(lexed, i, OutErr))}
  BY <1>1 DEF Combines, Err
<1>5. QED
  BY <1>2, <1>3, <1>4, OperatorsDiffer

PlainLine(line) ==
  /\ \A i \in DOMAIN line : ~line[i].op => line[i].text \notin Special \union {<<"&">>}
  /\ \A i \in 1 .. Len(line) - 1 : line[i + 1].op =>
       <<line[i].text, line[i + 1].text[1]>> \notin {<<<<"2">>, ">">>, <<Pipe, "|">>, <<<<">">>, ">">>}

\* An operator, and the tokens it is spelled with.
LEMMA OperatorIs ==
  ASSUME NEW e \in Written, e.op
  PROVE  \/ Size(e) = 1 /\ e.text \in {Pipe, Semi, More, Less} /\ Spelled(e, 1) = e.text
         \/ Size(e) = 2 /\ e.text = Or /\ Spelled(e, 1) = Pipe /\ Spelled(e, 2) = Pipe
         \/ Size(e) = 2 /\ e.text = And /\ Spelled(e, 1) = Amp /\ Spelled(e, 2) = Amp
         \/ Size(e) = 2 /\ e.text = Add /\ Spelled(e, 1) = More /\ Spelled(e, 2) = More
         \/ Size(e) = 2 /\ e.text = Err /\ Spelled(e, 1) = Two /\ Spelled(e, 2) = More
         \/ Size(e) = 4 /\ e.text = OutErr /\ Spelled(e, 1) = Two /\ Spelled(e, 2) = More
              /\ Spelled(e, 3) = Amp /\ Spelled(e, 4) = <<"1">>
<1>1. e.text \in {Pipe, Semi, More, Less, Or, And, Add, Err, OutErr}
  BY Zenon DEF Written, Special, Pipe, Connectors, Redirectors, Semi, More, Less, Or, And, Add, Err, OutErr
<1>2. Size(e) = Len(e.text) /\ \A k : Spelled(e, k) = <<e.text[k]>>
  BY DEF Size, Spelled
<1>3. CASE e.text \in {Pipe, Semi, More, Less}
  <2>1. Len(Pipe) = 1 /\ Len(Semi) = 1 /\ Len(More) = 1 /\ Len(Less) = 1
    BY DEF Pipe, Semi, More, Less
  <2>2. <<Pipe[1]>> = Pipe /\ <<Semi[1]>> = Semi /\ <<More[1]>> = More /\ <<Less[1]>> = Less
    BY DEF Pipe, Semi, More, Less
  <2>3. QED
    BY <1>2, <1>3, <2>1, <2>2, Zenon
<1>4. CASE e.text = Or
  BY <1>2, <1>4 DEF Or, Pipe
<1>5. CASE e.text = And
  BY <1>2, <1>5 DEF And, Amp
<1>6. CASE e.text = Add
  BY <1>2, <1>6 DEF Add, More
<1>7. CASE e.text = Err
  BY <1>2, <1>7 DEF Err, Two, More
<1>8. CASE e.text = OutErr
  BY <1>2, <1>8 DEF OutErr, Two, More, Amp
<1>9. QED
  BY <1>1, <1>3, <1>4, <1>5, <1>6, <1>7, <1>8, Zenon

\* What follows a piece of a plain line joins with none of its tokens.
LEMMA NextIs ==
  ASSUME NEW lexed \in Seq(Text), NEW line \in Seq(Written), NEW at, LaidAt(lexed, line, at), PlainLine(line),
         NEW j \in 1 .. Len(line), at[j] + 1 <= Len(lexed)
  PROVE  LET t == lexed[at[j] + 1] IN
         /\ line[j].text = Two => t # More
         /\ line[j].text = Pipe => t # Pipe
         /\ line[j].text = More => t # More
         /\ t = Amp => at[j] + 2 <= Len(lexed) /\ lexed[at[j] + 2] = Amp
<1> DEFINE n == Len(line)
           e == line[j]
           f == line[j + 1]
           t == lexed[at[j] + 1]
<1>1. n \in Nat /\ j \in 0 .. n /\ at[j] \in Nat /\ at[n] = Len(lexed)
  BY DEF LaidAt
<1>2. j + 1 \in 1 .. n
  BY <1>1
<1>3. f \in Written /\ j \in 1 .. n - 1 /\ (j + 1) - 1 = j
  BY <1>2
<1>4. at[j + 1] = at[j] + Size(f) /\ \A k \in 1 .. Size(f) : lexed[at[j] + k] = Spelled(f, k)
  BY <1>2, <1>3 DEF LaidAt
<1>5. at[j + 1] <= Len(lexed)
  BY <1>1, <1>2, LaidWithin
<1>6. Size(f) \in Nat \ {0} /\ 1 \in 1 .. Size(f)
  BY <1>3, SizeIs
<1>7. t = Spelled(f, 1)
  BY <1>4, <1>6
<1>8. ~f.op => f.text \notin Special /\ f.text # Amp
  <2>1. \A i \in DOMAIN line : ~line[i].op => line[i].text \notin Special \union {<<"&">>}
    BY DEF PlainLine
  <2>2. j + 1 \in DOMAIN line
    BY <1>2
  <2>3. QED
    BY <2>1, <2>2, Zenon DEF Amp
<1>9. f.op => ~(e.text = Two /\ f.text[1] = ">") /\ ~(e.text = Pipe /\ f.text[1] = "|") /\ ~(e.text = More /\ f.text[1] = ">")
  BY <1>3 DEF PlainLine, Two, More
<1> HIDE DEF n, e, f, t
<1>10. CASE ~f.op
  <2>1. t \notin Special /\ t # Amp
    BY <1>7, <1>8, <1>10 DEF Spelled
  <2>2. Pipe \in Special /\ More \in Special
    BY DEF Special, Redirectors, More
  <2>3. QED
    BY <2>1, <2>2 DEF t, e
<1>11. CASE f.op
  <2>1. t = <<f.text[1]>>
    BY <1>7, <1>11 DEF Spelled
  <2>2. (t = More => f.text[1] = ">") /\ (t = Pipe => f.text[1] = "|")
    BY <2>1 DEF More, Pipe
  <2>3. ASSUME t = Amp PROVE at[j] + 2 <= Len(lexed) /\ lexed[at[j] + 2] = Amp
    <3>1. Size(f) = 2 /\ Spelled(f, 2) = Amp
      BY <1>3, <1>7, <1>11, <2>3, OperatorIs, AllDiffer
    <3>2. QED
      BY <1>1, <1>4, <1>5, <3>1
  <2>4. QED
    BY <1>9, <1>11, <2>2, <2>3 DEF t, e
<1>12. QED
  BY <1>10, <1>11

\* At the first token of a piece normalizeOperators finds the piece.
LEMMA PieceFound ==
  ASSUME NEW lexed \in Seq(Text), NEW line \in Seq(Written), NEW at, LaidAt(lexed, line, at), PlainLine(line),
         NEW j \in 1 .. Len(line)
  PROVE  LET i == at[j - 1] + 1
             e == line[j]
         IN \/ Combines(lexed, i) = {e.text} /\ Size(e) = Len(e.text)
            \/ Combines(lexed, i) = {} /\ lexed[i] = e.text /\ Size(e) = 1
<1> DEFINE n == Len(line)
           i == at[j - 1] + 1
           e == line[j]
           found == Combines(lexed, i)
<1>1. n \in Nat /\ j - 1 \in 0 .. n /\ j \in 0 .. n /\ e \in Written
  OBVIOUS
<1>2. at[j - 1] \in Nat /\ at[j] \in Nat
  BY <1>1 DEF LaidAt
<1>3. at[j] = at[j - 1] + Size(e) /\ \A k \in 1 .. Size(e) : lexed[at[j - 1] + k] = Spelled(e, k)
  BY <1>1 DEF LaidAt
<1>4. Size(e) \in Nat \ {0} /\ at[j] <= Len(lexed)
  BY <1>1, SizeIs, LaidWithin
<1>5. i \in 1 .. Len(lexed)
  BY <1>2, <1>3, <1>4
<1> HIDE DEF n, e
<1> DEFINE two == i + 1 <= Len(lexed)
           err == i + 3 <= Len(lexed) /\ lexed[i] = Two /\ lexed[i + 1] = More
                      /\ lexed[i + 2] = Amp /\ lexed[i + 3] = <<"1">>
<1>6. /\ found \subseteq {Or, And, Add, Err, OutErr}
      /\ Or \in found <=> two /\ lexed[i] = Pipe /\ lexed[i + 1] = Pipe
      /\ And \in found <=> two /\ lexed[i] = Amp /\ lexed[i + 1] = Amp
      /\ Add \in found <=> two /\ lexed[i] = More /\ lexed[i + 1] = More
      /\ Err \in found <=> two /\ lexed[i] = Two /\ lexed[i + 1] = More /\ ~err
      /\ OutErr \in found <=> err
  BY <1>5, CombinesIs
<1>7. lexed[i] = Spelled(e, 1)
  BY <1>2, <1>3, <1>4
<1>8. at[j] + 1 <= Len(lexed) =>
        /\ e.text = Two => lexed[at[j] + 1] # More
        /\ e.text = Pipe => lexed[at[j] + 1] # Pipe
        /\ e.text = More => lexed[at[j] + 1] # More
        /\ lexed[at[j] + 1] = Amp => at[j] + 2 <= Len(lexed) /\ lexed[at[j] + 2] = Amp
  BY NextIs DEF e
<1>9. CASE ~e.op
  <2>1. Size(e) = 1 /\ lexed[i] = e.text /\ at[j] = i
    BY <1>1, <1>2, <1>3, <1>7, <1>9 DEF Size, Spelled
  <2>2. e.text \notin Special \union {Amp}
    BY <1>1, <1>9 DEF PlainLine, n, e, Amp
  <2>3. e.text # Pipe /\ e.text # Amp /\ e.text # More
    BY <2>2 DEF Special, Redirectors, More
  <2>4. (~two \/ lexed[i] # Two \/ lexed[i + 1] # More) /\ (err => two)
    BY <1>5, <1>8, <2>1
  <2> HIDE DEF i, found, two
  <2>5. found = {}
    BY <1>6, <2>1, <2>3, <2>4
  <2>6. QED
    BY <2>1, <2>5 DEF found, i, e
<1>10. CASE e.op /\ Size(e) = 1
  <2>1. e.text \in {Pipe, Semi, More, Less} /\ lexed[i] = e.text /\ at[j] = i
    BY <1>1, <1>2, <1>3, <1>7, <1>10, OperatorIs
  <2>2. (e.text = Pipe /\ two => lexed[i + 1] # Pipe) /\ (e.text = More /\ two => lexed[i + 1] # More)
    BY <1>8, <2>1
  <2> HIDE DEF i, found
  <2>3. found = {}
    BY <1>6, <2>1, <2>2, AllDiffer
  <2>4. QED
    BY <1>10, <2>1, <2>3 DEF found, i, e
<1>11. CASE e.op /\ Size(e) = 2
  <2>1. lexed[i + 1] = Spelled(e, 2) /\ i + 1 = at[j] /\ two
    <3>1. i + 1 = at[j]
      BY <1>2, <1>3, <1>11
    <3>2. lexed[at[j - 1] + 2] = Spelled(e, 2) /\ i + 1 = at[j - 1] + 2
      BY <1>2, <1>3, <1>11
    <3>3. QED
      BY <1>4, <3>1, <3>2
  <2>2. \/ e.text = Or /\ lexed[i] = Pipe /\ lexed[i + 1] = Pipe
        \/ e.text = And /\ lexed[i] = Amp /\ lexed[i + 1] = Amp
        \/ e.text = Add /\ lexed[i] = More /\ lexed[i + 1] = More
        \/ e.text = Err /\ lexed[i] = Two /\ lexed[i + 1] = More
    BY <1>1, <1>7, <1>11, <2>1, OperatorIs
  <2>3. ~err
    <3>1. SUFFICES ASSUME err PROVE FALSE
      OBVIOUS
    <3>2. at[j] + 1 = i + 2 /\ at[j] + 2 = i + 3 /\ at[j] + 1 <= Len(lexed)
      <4>1. i \in Nat /\ Len(lexed) \in Nat
        BY <1>2
      <4>2. i + 1 = at[j] /\ i + 3 <= Len(lexed)
        BY <2>1, <3>1
      <4> DEFINE length == Len(lexed)
                 first  == i
      <4> HIDE DEF length, first
      <4>3. first \in Nat /\ length \in Nat /\ first + 1 = at[j] /\ first + 3 <= length
        BY <4>1, <4>2, Zenon DEF length, first
      <4>4. at[j] + 1 = first + 2 /\ at[j] + 2 = first + 3 /\ at[j] + 1 <= length
        BY <4>3
      <4>5. QED
        BY <4>4, Zenon DEF length, first
    <3>3. lexed[i + 2] = Amp /\ lexed[i + 3] = <<"1">>
      BY <3>1
    <3>4. lexed[i + 3] = Amp
      BY <1>8, <3>2, <3>3
    <3>5. QED
      BY <3>3, <3>4, AllDiffer
  <2> HIDE DEF i, found, err
  <2>4. found = {e.text}
    BY <1>6, <2>1, <2>2, <2>3, AllDiffer, OperatorsDiffer
  <2>5. Size(e) = Len(e.text)
    BY <1>11 DEF Size
  <2>6. QED
    BY <2>4, <2>5 DEF found, i, e
<1>12. CASE e.op /\ Size(e) = 4
  <2>1. /\ lexed[i + 1] = Spelled(e, 2) /\ lexed[i + 2] = Spelled(e, 3) /\ lexed[i + 3] = Spelled(e, 4)
        /\ i + 3 <= Len(lexed) /\ two
    <3>1. i + 3 = at[j] /\ i + 1 = at[j - 1] + 2 /\ i + 2 = at[j - 1] + 3 /\ i + 3 = at[j - 1] + 4
      <4>1. at[j] = at[j - 1] + 4
        BY <1>3, <1>12
      <4>2. QED
        BY <1>2, <4>1
    <3>2. 2 \in 1 .. Size(e) /\ 3 \in 1 .. Size(e) /\ 4 \in 1 .. Size(e)
      BY <1>12
    <3>3. lexed[at[j - 1] + 2] = Spelled(e, 2) /\ lexed[at[j - 1] + 3] = Spelled(e, 3) /\ lexed[at[j - 1] + 4] = Spelled(e, 4)
      BY <1>3, <3>2, Zenon
    <3>4. i + 3 <= Len(lexed) /\ two
      <4>1. i \in Nat /\ Len(lexed) \in Nat /\ i + 3 <= Len(lexed)
        <5>1. Len(lexed) \in Nat
          OBVIOUS
        <5>2. i \in Nat /\ at[j] <= Len(lexed)
          BY <1>2, <1>4
        <5> DEFINE length == Len(lexed)
                   first  == i
        <5> HIDE DEF length, first
        <5>3. first \in Nat /\ length \in Nat /\ first + 3 <= length
          BY <5>1, <5>2, <3>1, Zenon DEF length, first
        <5>4. QED
          BY <5>3 DEF length, first
      <4>2. i + 1 <= Len(lexed)
        BY <4>1
      <4>3. QED
        BY <4>1, <4>2
    <3>5. QED
      BY <3>1, <3>3, <3>4
  <2>2. e.text = OutErr /\ lexed[i] = Two /\ lexed[i + 1] = More /\ lexed[i + 2] = Amp /\ lexed[i + 3] = <<"1">>
    BY <1>1, <1>7, <1>12, <2>1, OperatorIs
  <2>3. err
    BY <2>1, <2>2
  <2> HIDE DEF i, found, err
  <2>4. found = {e.text}
    BY <1>6, <2>2, <2>3, AllDiffer, OperatorsDiffer
  <2>5. Size(e) = Len(e.text)
    BY <1>12 DEF Size
  <2>6. QED
    BY <2>4, <2>5 DEF found, i, e
<1>13. QED
  BY <1>1, <1>9, <1>10, <1>11, <1>12, SizeIs

\* A line that is laid in its tokens and plain is what they combine to.
LEMMA NormalizedIsMeant ==
  ASSUME NEW lexed \in Seq(Text), NEW line \in Seq(Written), Laid(lexed, line), PlainLine(line)
  PROVE  NormalizeOperators(lexed) = [j \in DOMAIN line |-> line[j].text]
<1> DEFINE n == Len(line)
           l == Len(lexed)
           texts(j) == [k \in 1 .. j |-> line[k].text]
<1>1. PICK at : LaidAt(lexed, line, at)
  BY DEF Laid
<1>2. PICK m \in [0 .. l -> PlaceState] :
        /\ m[0] = Unplaced
        /\ \A i \in 1 .. l : m[i] = Place(lexed, m[i - 1], i)
        /\ NormalizeOperators(lexed) = m[l].out
  BY PlaceMade
<1>3. n \in Nat /\ l \in Nat /\ DOMAIN line = 1 .. n /\ \A j \in 1 .. n : line[j] \in Written /\ line[j].text \in Text
  BY DEF Written
<1>4. /\ at \in [0 .. n -> Nat] /\ at[0] = 0 /\ at[n] = l
      /\ \A j \in 1 .. n : at[j] = at[j - 1] + Size(line[j])
  BY <1>1 DEF LaidAt
<1>5. \A j \in 0 .. n : at[j] <= l /\ at[j] \in Nat
  BY <1>1, <1>4, LaidWithin
<1>6. \A j \in 1 .. n : Size(line[j]) \in Nat \ {0}
  BY <1>3, SizeIs
<1>7. \A j \in 0 .. n : at[j] = l => j = n
  <2>0. n \in Nat /\ l \in Nat
    BY <1>3
  <2>1. SUFFICES ASSUME NEW j \in 0 .. n, at[j] = l, j # n PROVE FALSE
    OBVIOUS
  <2> HIDE DEF n, l, texts
  <2>2. j + 1 \in 1 .. n /\ j + 1 \in 0 .. n /\ (j + 1) - 1 = j
    BY <2>0, <2>1
  <2>3. at[j + 1] = at[j] + Size(line[j + 1]) /\ at[j + 1] <= l /\ Size(line[j + 1]) \in Nat \ {0}
    BY <1>4, <1>5, <1>6, <2>2
  <2>4. QED
    BY <2>0, <2>1, <2>3
<1>8. \A j \in 0 .. n : texts(j) \in Seq(Text) /\ Len(texts(j)) = j
  <2>1. ASSUME NEW j \in 0 .. n PROVE texts(j) \in Seq(Text) /\ Len(texts(j)) = j
    <3>1. texts(j) \in [1 .. j -> Text]
      BY <1>3
    <3>2. j \in Nat
      BY <1>3
    <3>3. QED
      BY <3>1, <3>2
  <2>2. QED
    BY <2>1
<1>9. \A j \in 1 .. n : Append(texts(j - 1), line[j].text) = texts(j)
  <2>1. ASSUME NEW j \in 1 .. n PROVE Append(texts(j - 1), line[j].text) = texts(j)
    <3> DEFINE a == texts(j - 1)
               b == texts(j)
               x == line[j].text
    <3>1. j - 1 \in 0 .. n /\ j \in 0 .. n
      BY <1>3
    <3>2. a \in Seq(Text) /\ b \in Seq(Text) /\ Len(a) = j - 1 /\ Len(b) = j /\ x \in Text
      BY <1>3, <1>8, <3>1
    <3>3. (\A k \in 1 .. j - 1 : a[k] = line[k].text) /\ \A k \in 1 .. j : b[k] = line[k].text
      <4>1. a = [k \in 1 .. j - 1 |-> line[k].text] /\ b = [k \in 1 .. j |-> line[k].text]
        OBVIOUS
      <4> HIDE DEF a, b, texts
      <4>2. QED
        BY <4>1
    <3>4. j \in Nat /\ \A k \in 1 .. j : k = j \/ k \in 1 .. j - 1
      BY <1>3
    <3> HIDE DEF a, b, texts
    <3>5. \A k \in 1 .. j : Append(a, x)[k] = b[k]
      <4>1. (\A k \in 1 .. j - 1 : Append(a, x)[k] = a[k]) /\ Append(a, x)[j] = x
        <5> HIDE DEF x
        <5>1. (\A k \in 1 .. Len(a) : Append(a, x)[k] = a[k]) /\ Append(a, x)[Len(a) + 1] = x
          BY <3>2, AppendProperties
        <5>2. Len(a) = j - 1 /\ Len(a) + 1 = j
          BY <3>2, <3>4
        <5>3. QED
          BY <5>1, <5>2
      <4>2. j \in 1 .. j
        BY <3>4
      <4> HIDE DEF x
      <4>3. b[j] = x /\ \A k \in 1 .. j - 1 : a[k] = b[k]
        <5>1. b[j] = line[j].text
          BY <3>3, <4>2
        <5>2. ASSUME NEW k \in 1 .. j - 1 PROVE a[k] = b[k]
          BY <3>3, <3>4
        <5>3. QED
          BY <5>1, <5>2 DEF x
      <4>4. QED
        BY <3>4, <4>1, <4>3
    <3>6. Append(a, x) \in Seq(Text) /\ Len(Append(a, x)) = j
      BY <3>2, <3>4
    <3>7. Append(a, x) = b
      BY <3>2, <3>5, <3>6, SeqEqual
    <3>8. QED
      BY <3>7 DEF a, b, x
  <2>2. QED
    BY <2>1
<1>10. texts(0) = <<>> /\ texts(n) = [j \in DOMAIN line |-> line[j].text]
  BY <1>3
<1> HIDE DEF texts, n, l
<1> DEFINE T == {i \in 0 .. l : \E j \in 0 .. n : m[i].out = texts(j) /\ m[i].skip = at[j] - i}
<1>11. 0 \in T
  <2>1. m[0].out = texts(0) /\ m[0].skip = at[0] - 0
    BY <1>2, <1>4, <1>10 DEF Unplaced
  <2>2. 0 \in 0 .. n /\ 0 \in 0 .. l
    BY <1>3
  <2>3. QED
    BY <2>1, <2>2
<1>12. ASSUME NEW i \in 1 .. l, i - 1 \in T PROVE i \in T
  <2> DEFINE acc == m[i - 1]
  <2>1. PICK j \in 0 .. n : acc.out = texts(j) /\ acc.skip = at[j] - (i - 1)
    BY <1>12
  <2>2. m[i] = Place(lexed, acc, i) /\ acc \in PlaceState /\ i \in 0 .. l /\ at[j] \in Nat /\ i \in Nat
    BY <1>2, <1>3, <1>5
  <2> HIDE DEF acc
  <2>3. acc.out \in Seq(Text) /\ acc.skip \in Nat
    BY <2>2 DEF PlaceState
  <2>4. CASE acc.skip > 0
    <3>1. m[i] = [acc EXCEPT !.skip = @ - 1]
      BY <2>2, <2>4 DEF Place
    <3>2. m[i].out = acc.out /\ m[i].skip = acc.skip - 1
      BY <2>2, <3>1 DEF PlaceState
    <3>3. m[i].skip = at[j] - i
      BY <2>1, <2>2, <2>3, <3>2
    <3>4. QED
      BY <2>1, <2>2, <3>2, <3>3
  <2>5. CASE ~(acc.skip > 0)
    <3>1. at[j] + 1 = i /\ at[j] # l
      BY <1>3, <2>1, <2>2, <2>3, <2>5
    <3> DEFINE k == j + 1
               e == line[k]
    <3>2. k \in 1 .. n /\ k \in 0 .. n /\ k - 1 = j
      BY <1>3, <1>4, <3>1
    <3> HIDE DEF k
    <3>3. e \in Written /\ e.text \in Text /\ at[k] = at[j] + Size(e) /\ Append(texts(j), e.text) = texts(k)
      BY <1>3, <1>4, <1>9, <3>2
    <3>4. \/ Combines(lexed, i) = {e.text} /\ Size(e) = Len(e.text)
          \/ Combines(lexed, i) = {} /\ lexed[i] = e.text /\ Size(e) = 1
      <4>1. k \in 1 .. Len(line)
        BY <3>2 DEF n
      <4>2. \/ Combines(lexed, at[k - 1] + 1) = {line[k].text} /\ Size(line[k]) = Len(line[k].text)
            \/ Combines(lexed, at[k - 1] + 1) = {} /\ lexed[at[k - 1] + 1] = line[k].text /\ Size(line[k]) = 1
        BY <1>1, <4>1, PieceFound
      <4>3. at[k - 1] + 1 = i
        BY <3>1, <3>2
      <4>4. QED
        BY <4>2, <4>3
    <3> HIDE DEF e
    <3>5. CASE Combines(lexed, i) = {e.text} /\ Size(e) = Len(e.text)
      <4>1. (CHOOSE op \in Combines(lexed, i) : TRUE) = e.text /\ Combines(lexed, i) # {}
        BY <3>5
      <4>2. m[i] = [out |-> Append(acc.out, e.text), skip |-> Len(e.text) - 1]
        BY <2>2, <2>5, <4>1 DEF Place
      <4>3. m[i].out = texts(k) /\ m[i].skip = Len(e.text) - 1
        BY <2>1, <3>3, <4>2
      <4>4. m[i].skip = at[k] - i
        BY <2>2, <3>1, <3>3, <3>5, <4>3
      <4>5. QED
        BY <2>2, <3>2, <4>3, <4>4
    <3>6. CASE Combines(lexed, i) = {} /\ lexed[i] = e.text /\ Size(e) = 1
      <4>1. m[i] = [acc EXCEPT !.out = Append(@, e.text)]
        BY <2>2, <2>5, <3>6 DEF Place
      <4>2. m[i].out = texts(k) /\ m[i].skip = acc.skip
        BY <2>1, <2>2, <3>3, <4>1 DEF PlaceState
      <4>3. m[i].skip = at[k] - i
        BY <2>2, <2>3, <2>5, <3>1, <3>3, <3>6, <4>2
      <4>4. QED
        BY <2>2, <3>2, <4>2, <4>3
    <3>7. QED
      BY <3>4, <3>5, <3>6
  <2>6. QED
    BY <2>4, <2>5
<1> HIDE DEF T
<1>13. \A i \in 0 .. l : i \in T
  BY <1>3, <1>11, <1>12, Climb
<1>14. l \in T /\ l \in 0 .. l
  BY <1>3, <1>13
<1>15. PICK j \in 0 .. n : m[l].out = texts(j) /\ m[l].skip = at[j] - l
  BY <1>14 DEF T
<1>16. m[l].skip \in Nat
  BY <1>2, <1>14 DEF PlaceState
<1>17. j = n
  BY <1>3, <1>5, <1>7, <1>15, <1>16
<1>18. QED
  BY <1>2, <1>10, <1>15, <1>17

-----------------------------------------------------------------------------
\* The lexer

LexState ==
  [out : Seq(Text), word : Text, started : BOOLEAN, quote : {"", Single, Double}, escaped : BOOLEAN]

LEMMA FreshType == Fresh \in LexState
  BY OperatorTokens DEF Fresh, LexState

LEMMA FlushIs ==
  ASSUME NEW x \in LexState
  PROVE  LET y == Flush(x) IN
         /\ y \in LexState /\ y.quote = x.quote /\ y.escaped = x.escaped /\ ~y.started
         /\ y.out = (IF x.started THEN Append(x.out, x.word) ELSE x.out)
         /\ (x.word # <<>> => x.started) => y.word = <<>>
<1>1. x.out \in Seq(Text) /\ x.word \in Text /\ <<>> \in Text /\ x.started \in BOOLEAN
  BY OperatorTokens DEF LexState
<1>2. CASE x.started
  <2> DEFINE out == Append(x.out, x.word)
  <2>1. out \in Seq(Text)
    BY <1>1
  <2>2. Flush(x) = [x EXCEPT !.out = out, !.word = <<>>, !.started = FALSE]
    BY <1>2 DEF Flush
  <2> HIDE DEF out
  <2>3. /\ Flush(x) \in LexState /\ Flush(x).quote = x.quote /\ Flush(x).escaped = x.escaped /\ ~Flush(x).started
        /\ Flush(x).out = out /\ Flush(x).word = <<>>
    BY <1>1, <2>1, <2>2 DEF LexState
  <2>4. QED
    BY <1>2, <2>3 DEF out
<1>3. CASE ~x.started
  <2>1. Flush(x) = x
    BY <1>3 DEF Flush
  <2>2. QED
    BY <1>3, <2>1
<1>4. QED
  BY <1>1, <1>2, <1>3

LEMMA WriteRuneIs ==
  ASSUME NEW x \in LexState, NEW r \in Runes
  PROVE  LET y == WriteRune(x, r) IN
         /\ y \in LexState /\ y.out = x.out /\ y.word = Append(x.word, r) /\ y.started
         /\ y.quote = x.quote /\ ~y.escaped
<1> DEFINE word == Append(x.word, r)
<1>1. word \in Text
  <2>1. x.word \in Text
    BY DEF LexState
  <2>2. QED
    BY <2>1 DEF Text
<1>2. WriteRune(x, r) = [x EXCEPT !.word = word, !.started = TRUE, !.escaped = FALSE]
  BY DEF WriteRune
<1> HIDE DEF word
<1>3. QED
  BY <1>1, <1>2 DEF LexState, word

\* A rune of punctuation outside quotes.
LEMMA PunctuationIs ==
  ASSUME NEW x \in LexState, NEW r \in Punctuation, x.quote = "", ~x.escaped
  PROVE  LET y == LexRune(x, r) IN
         /\ y \in LexState /\ y.quote = "" /\ ~y.escaped /\ ~y.started
         /\ y.out = Append(Flush(x).out, <<r>>) /\ y.word = Flush(x).word
<1> DEFINE f == Flush(x)
           out == Append(f.out, <<r>>)
<1>1. f \in LexState /\ f.quote = "" /\ ~f.escaped /\ ~f.started
  BY FlushIs
<1>2. r \in Runes /\ r \notin {Single, Double, Backslash, " "}
  BY DEF Runes, Punctuation, Single, Double, Backslash
<1>3. LexRune(x, r) = [f EXCEPT !.out = out]
  BY <1>2 DEF LexRune
<1> HIDE DEF f
<1>4. out \in Seq(Text)
  <2>1. r \in Runes
    BY <1>2
  <2>2. <<r>> \in Text
    BY <2>1, OneRune
  <2>3. f.out \in Seq(Text)
    BY <1>1 DEF LexState
  <2> DEFINE token == <<r>>
  <2>4. token \in Text
    BY <2>2
  <2> HIDE DEF token
  <2>5. Append(f.out, token) \in Seq(Text)
    BY <2>3, <2>4, AppendProperties
  <2>6. QED
    BY <2>5 DEF token
<1> HIDE DEF out
<1>5. QED
  BY <1>1, <1>3, <1>4 DEF LexState, f, out

LEMMA LexRuneType ==
  ASSUME NEW x \in LexState, NEW r \in Runes
  PROVE  LexRune(x, r) \in LexState
<1> DEFINE y == LexRune(x, r)
<1>1. CASE x.escaped \/ y = WriteRune(x, r)
  <2>1. y = WriteRune(x, r)
    BY <1>1 DEF LexRune
  <2> HIDE DEF y
  <2>2. y \in LexState
    BY <2>1, WriteRuneIs
  <2>3. QED
    BY <2>2 DEF y
<1>2. CASE ~x.escaped /\ x.quote # "" /\ y # WriteRune(x, r)
  <2>1. y = [x EXCEPT !.quote = ""] \/ y = [x EXCEPT !.escaped = TRUE]
    BY <1>2 DEF LexRune
  <2>2. [x EXCEPT !.quote = ""] \in LexState /\ [x EXCEPT !.escaped = TRUE] \in LexState
    BY DEF LexState
  <2>3. QED
    BY <2>1, <2>2
<1>3. CASE ~x.escaped /\ x.quote = "" /\ r \in Punctuation
  BY <1>3, PunctuationIs
<1>4. CASE ~x.escaped /\ x.quote = "" /\ r \notin Punctuation /\ y # WriteRune(x, r)
  <2>1. \/ y = [x EXCEPT !.escaped = TRUE, !.started = TRUE]
        \/ r \in {Single, Double} /\ y = [x EXCEPT !.quote = r, !.started = TRUE]
        \/ y = Flush(x)
    BY <1>4 DEF LexRune
  <2>2. /\ [x EXCEPT !.escaped = TRUE, !.started = TRUE] \in LexState
        /\ r \in {Single, Double} => [x EXCEPT !.quote = r, !.started = TRUE] \in LexState
    BY DEF LexState
  <2>3. QED
    BY <2>1, <2>2, FlushIs
<1>5. QED
  BY <1>1, <1>2, <1>3, <1>4

LexAll(x, runes) == Over(LexRune, x, runes)

LEMMA LexMade ==
  ASSUME NEW x \in LexState, NEW runes \in Seq(Runes)
  PROVE  \E m \in [0 .. Len(runes) -> LexState] :
           /\ m[0] = x
           /\ \A i \in 1 .. Len(runes) : m[i] = LexRune(m[i - 1], runes[i])
           /\ LexAll(x, runes) = m[Len(runes)]
<1> DEFINE n == Len(runes)
           base == x
           Op(y, e) == LexRune(y, e)
           Is(m) == m = [i \in 0 .. n |-> IF i = 0 THEN base ELSE Op(m[i - 1], runes[i])]
           made == CHOOSE m : Is(m)
           g == [i \in 1 .. n |-> [y \in LexState |-> Op(y, runes[i])]]
<1>1. n \in Nat /\ \A i \in 1 .. n : runes[i] \in Runes
  OBVIOUS
<1>2. base \in LexState /\ \A i \in 1 .. n : \A y \in LexState : Op(y, runes[i]) \in LexState
  BY <1>1, LexRuneType
<1>3. LexAll(x, runes) = made[n]
  BY DEF LexAll, Over, n, Op
<1> HIDE DEF n, base, Op
<1>4. PICK f : Goes(f, LexState, base, n, g)
  <2>1. g \in [1 .. n -> [LexState -> LexState]]
    BY <1>2
  <2> HIDE DEF g
  <2>2. QED
    BY <1>1, <1>2, <2>1, GoesOn
<1>5. Is(f)
  <2>1. f = [i \in 0 .. n |-> IF i = 0 THEN base ELSE g[i][f[i - 1]]]
    <3> HIDE DEF g
    <3>1. f = Stepped(base, n, g, f)
      BY <1>1, <1>4, GoesAsLoop, Zenon
    <3>2. QED
      BY <3>1 DEF Stepped
  <2>2. \A i \in 1 .. n : f[i - 1] \in LexState
    BY <1>1, <1>4 DEF Goes
  <2>3. \A i \in 0 .. n : i # 0 => g[i][f[i - 1]] = Op(f[i - 1], runes[i])
    BY <1>1, <2>2
  <2> HIDE DEF g
  <2>4. QED
    BY <2>1, <2>3
<1>6. Is(made)
  BY <1>5
<1> HIDE DEF made
<1>7. made[0] = base /\ made = [i \in 0 .. n |-> made[i]] /\ \A i \in 1 .. n : made[i] = Op(made[i - 1], runes[i])
  <2>1. \A i \in 0 .. n : made[i] = IF i = 0 THEN base ELSE Op(made[i - 1], runes[i])
    BY <1>6
  <2>2. 0 \in 0 .. n /\ \A i \in 1 .. n : i \in 0 .. n /\ i # 0
    BY <1>1
  <2>3. QED
    BY <1>6, <2>1, <2>2
<1>8. \A i \in 1 .. n : made[i - 1] \in LexState => made[i] \in LexState
  BY <1>2, <1>7
<1>9. made \in [0 .. n -> LexState]
  BY <1>1, <1>2, <1>7, <1>8, LoopStays
<1>10. QED
  BY <1>3, <1>7, <1>9 DEF n, base, Op

LEMMA LexOne ==
  ASSUME NEW x \in LexState, NEW a \in Runes
  PROVE  LexAll(x, <<a>>) = LexRune(x, a)
<1> DEFINE runes == <<a>>
<1>1. runes \in Seq(Runes) /\ Len(runes) = 1 /\ runes[1] = a
  OBVIOUS
<1> HIDE DEF runes
<1>2. PICK m \in [0 .. Len(runes) -> LexState] :
        /\ m[0] = x
        /\ \A i \in 1 .. Len(runes) : m[i] = LexRune(m[i - 1], runes[i])
        /\ LexAll(x, runes) = m[Len(runes)]
  BY <1>1, LexMade
<1>3. 1 \in 1 .. Len(runes) /\ 1 - 1 = 0
  BY <1>1
<1>4. QED
  BY <1>1, <1>2, <1>3 DEF runes

LEMMA LexTwo ==
  ASSUME NEW x \in LexState, NEW a \in Runes, NEW b \in Runes
  PROVE  LexAll(x, <<a, b>>) = LexRune(LexRune(x, a), b)
<1> DEFINE runes == <<a, b>>
<1>1. runes \in Seq(Runes) /\ Len(runes) = 2 /\ runes[1] = a /\ runes[2] = b
  OBVIOUS
<1> HIDE DEF runes
<1>2. PICK m \in [0 .. Len(runes) -> LexState] :
        /\ m[0] = x
        /\ \A i \in 1 .. Len(runes) : m[i] = LexRune(m[i - 1], runes[i])
        /\ LexAll(x, runes) = m[Len(runes)]
  BY <1>1, LexMade
<1>3. 1 \in 1 .. Len(runes) /\ 2 \in 1 .. Len(runes) /\ 1 - 1 = 0 /\ 2 - 1 = 1
  BY <1>1
<1>4. QED
  BY <1>1, <1>2, <1>3 DEF runes

LEMMA LexThree ==
  ASSUME NEW x \in LexState, NEW a \in Runes, NEW b \in Runes, NEW c \in Runes
  PROVE  LexAll(x, <<a, b, c>>) = LexRune(LexRune(LexRune(x, a), b), c)
<1> DEFINE runes == <<a, b, c>>
<1>1. runes \in Seq(Runes) /\ Len(runes) = 3 /\ runes[1] = a /\ runes[2] = b /\ runes[3] = c
  OBVIOUS
<1> HIDE DEF runes
<1>2. PICK m \in [0 .. Len(runes) -> LexState] :
        /\ m[0] = x
        /\ \A i \in 1 .. Len(runes) : m[i] = LexRune(m[i - 1], runes[i])
        /\ LexAll(x, runes) = m[Len(runes)]
  BY <1>1, LexMade
<1>3. 1 \in 1 .. Len(runes) /\ 2 \in 1 .. Len(runes) /\ 3 \in 1 .. Len(runes) /\ 1 - 1 = 0 /\ 2 - 1 = 1 /\ 3 - 1 = 2
  BY <1>1
<1>4. QED
  BY <1>1, <1>2, <1>3 DEF runes

LEMMA LexFour ==
  ASSUME NEW x \in LexState, NEW a \in Runes, NEW b \in Runes, NEW c \in Runes, NEW d \in Runes,
         NEW runes, runes = <<a, b, c, d>>
  PROVE  LexAll(x, runes) = LexRune(LexRune(LexRune(LexRune(x, a), b), c), d)
<1>1. runes \in Seq(Runes) /\ Len(runes) = 4 /\ runes[1] = a /\ runes[2] = b /\ runes[3] = c /\ runes[4] = d
  OBVIOUS
<1>2. PICK m \in [0 .. Len(runes) -> LexState] :
        /\ m[0] = x
        /\ \A i \in 1 .. Len(runes) : m[i] = LexRune(m[i - 1], runes[i])
        /\ LexAll(x, runes) = m[Len(runes)]
  BY <1>1, LexMade
<1>3. /\ 1 \in 1 .. Len(runes) /\ 2 \in 1 .. Len(runes) /\ 3 \in 1 .. Len(runes) /\ 4 \in 1 .. Len(runes)
      /\ 1 - 1 = 0 /\ 2 - 1 = 1 /\ 3 - 1 = 2 /\ 4 - 1 = 3
  BY <1>1
<1>4. QED
  BY <1>1, <1>2, <1>3

Marks == {Single, Double, Backslash}

LEMMA MarksDiffer ==
  /\ Single # Double /\ Single # Backslash /\ Double # Backslash /\ Single # "" /\ Double # "" /\ Marks \subseteq Runes
  /\ Single # " " /\ Double # " " /\ Backslash # " "
  BY DEF Single, Double, Backslash, Marks, Runes

\* One rune, outside quotes, inside them and after a backslash.
LEMMA OutsideIs ==
  ASSUME NEW x \in LexState, x.quote = "", ~x.escaped
  PROVE  /\ \A q \in {Single, Double} : LexRune(x, q) = [x EXCEPT !.quote = q, !.started = TRUE]
         /\ LexRune(x, Backslash) = [x EXCEPT !.escaped = TRUE, !.started = TRUE]
         /\ LexRune(x, " ") = Flush(x)
         /\ \A r : r \notin Punctuation \union Marks \union {" "} => LexRune(x, r) = WriteRune(x, r)
<1>1. \A q \in {Single, Double} : LexRune(x, q) = [x EXCEPT !.quote = q, !.started = TRUE]
  BY MarksDiffer, ZenonT(30) DEF LexRune
<1>2. LexRune(x, Backslash) = [x EXCEPT !.escaped = TRUE, !.started = TRUE]
  BY MarksDiffer, ZenonT(30) DEF LexRune
<1>3. LexRune(x, " ") = Flush(x)
  BY MarksDiffer, ZenonT(30) DEF LexRune
<1>4. \A r : r \notin Punctuation \union Marks \union {" "} => LexRune(x, r) = WriteRune(x, r)
  BY ZenonT(30) DEF LexRune, Marks
<1>5. QED
  BY <1>1, <1>2, <1>3, <1>4

LEMMA InsideIs ==
  ASSUME NEW x \in LexState, x.quote # "", ~x.escaped
  PROVE  /\ LexRune(x, x.quote) = [x EXCEPT !.quote = ""]
         /\ x.quote = Double => LexRune(x, Backslash) = [x EXCEPT !.escaped = TRUE]
         /\ \A r : r # x.quote /\ r # Backslash => LexRune(x, r) = WriteRune(x, r)
<1>1. LexRune(x, x.quote) = [x EXCEPT !.quote = ""]
  BY MarksDiffer, ZenonT(30) DEF LexRune
<1>2. x.quote = Double => LexRune(x, Backslash) = [x EXCEPT !.escaped = TRUE]
  BY MarksDiffer, ZenonT(30) DEF LexRune
<1>3. \A r : r # x.quote /\ r # Backslash => LexRune(x, r) = WriteRune(x, r)
  BY ZenonT(30) DEF LexRune
<1>4. QED
  BY <1>1, <1>2, <1>3

LEMMA EscapedIs ==
  ASSUME NEW x \in LexState, NEW r, x.escaped
  PROVE  LexRune(x, r) = WriteRune(x, r)
  BY DEF LexRune

\* What the runes of a piece of a word do: the word goes on with its text.
WordGrows(x, y, text) ==
  y \in LexState /\ y.out = x.out /\ y.word = x.word \o text /\ y.started /\ y.quote = "" /\ ~y.escaped

LEMMA WordGoesOn ==
  ASSUME NEW x \in LexState, NEW r
  PROVE  x.word \o <<>> = x.word /\ (r \in Runes => Append(x.word, r) = x.word \o <<r>>)
<1>1. x.word \in Seq(Runes)
  BY DEF LexState, Text
<1>2. QED
  BY <1>1, ConcatEmptySeq, AppendIsConcat

LEMMA LetterGrows ==
  ASSUME NEW x \in LexState, x.quote = "", ~x.escaped,
         NEW r \in Runes, r \notin Punctuation \union Marks \union {" "}
  PROVE  WordGrows(x, LexAll(x, <<r>>), <<r>>)
<1>1. LexAll(x, <<r>>) = WriteRune(x, r)
  BY LexOne, OutsideIs
<1> DEFINE y == WriteRune(x, r)
<1>2. y \in LexState /\ y.out = x.out /\ y.word = Append(x.word, r) /\ y.started /\ y.quote = x.quote /\ ~y.escaped
  BY WriteRuneIs
<1>3. Append(x.word, r) = x.word \o <<r>>
  BY WordGoesOn
<1> HIDE DEF y
<1>4. WordGrows(x, y, <<r>>)
  BY <1>2, <1>3 DEF WordGrows
<1>5. QED
  BY <1>1, <1>4 DEF y

LEMMA EscapedGrows ==
  ASSUME NEW x \in LexState, x.quote = "", ~x.escaped, NEW r \in Runes
  PROVE  WordGrows(x, LexAll(x, <<Backslash, r>>), <<r>>)
<1> DEFINE y == LexRune(x, Backslash)
<1>1. Backslash \in Runes
  BY MarksDiffer DEF Marks
<1>2. y = [x EXCEPT !.escaped = TRUE, !.started = TRUE]
  BY OutsideIs
<1>3. LexAll(x, <<Backslash, r>>) = LexRune(y, r)
  BY <1>1, LexTwo
<1> HIDE DEF y
<1>4. y \in LexState /\ y.out = x.out /\ y.word = x.word /\ y.quote = "" /\ y.escaped
  BY <1>2 DEF LexState
<1> DEFINE w == LexRune(y, r)
<1>5. w = WriteRune(y, r)
  BY <1>4, EscapedIs
<1> HIDE DEF w
<1>6. w \in LexState /\ w.out = y.out /\ w.word = Append(y.word, r) /\ w.started /\ w.quote = "" /\ ~w.escaped
  BY <1>4, <1>5, WriteRuneIs
<1>7. QED
  BY <1>3, <1>4, <1>6, WordGoesOn DEF WordGrows, w

\* Inside a quote that is opened and closed.
LEMMA OpenedIs ==
  ASSUME NEW x \in LexState, x.quote = "", ~x.escaped, NEW q \in {Single, Double}
  PROVE  LET y == LexRune(x, q) IN
         y \in LexState /\ y.out = x.out /\ y.word = x.word /\ y.started /\ y.quote = q /\ ~y.escaped
<1>1. LexRune(x, q) = [x EXCEPT !.quote = q, !.started = TRUE]
  BY OutsideIs
<1>2. QED
  BY <1>1 DEF LexState

LEMMA ClosedIs ==
  ASSUME NEW x \in LexState, x.quote # "", ~x.escaped
  PROVE  LET y == LexRune(x, x.quote) IN
         y \in LexState /\ y.out = x.out /\ y.word = x.word /\ y.started = x.started /\ y.quote = "" /\ ~y.escaped
<1>1. LexRune(x, x.quote) = [x EXCEPT !.quote = ""]
  BY InsideIs
<1>2. QED
  BY <1>1 DEF LexState

LEMMA EmptyGrows ==
  ASSUME NEW x \in LexState, x.quote = "", ~x.escaped, NEW q \in {Single, Double}
  PROVE  WordGrows(x, LexAll(x, <<q, q>>), <<>>)
<1> DEFINE y == LexRune(x, q)
<1>1. q \in Runes /\ q # ""
  BY MarksDiffer DEF Marks
<1>2. LexAll(x, <<q, q>>) = LexRune(y, q)
  BY <1>1, LexTwo
<1>3. y \in LexState /\ y.out = x.out /\ y.word = x.word /\ y.started /\ y.quote = q /\ ~y.escaped
  BY OpenedIs
<1> HIDE DEF y
<1> DEFINE z == LexRune(y, q)
<1>4. z \in LexState /\ z.out = y.out /\ z.word = y.word /\ z.started = y.started /\ z.quote = "" /\ ~z.escaped
  BY <1>1, <1>3, ClosedIs
<1> HIDE DEF z
<1>5. QED
  BY <1>2, <1>3, <1>4, WordGoesOn DEF WordGrows, z

LEMMA QuotedGrows ==
  ASSUME NEW x \in LexState, x.quote = "", ~x.escaped, NEW q \in {Single, Double}, NEW r \in Runes, r \notin Marks
  PROVE  WordGrows(x, LexAll(x, <<q, r, q>>), <<r>>)
<1> DEFINE y == LexRune(x, q)
<1>1. q \in Runes /\ q # "" /\ r # q /\ r # Backslash
  BY MarksDiffer DEF Marks
<1>2. LexAll(x, <<q, r, q>>) = LexRune(LexRune(y, r), q)
  BY <1>1, LexThree
<1>3. y \in LexState /\ y.out = x.out /\ y.word = x.word /\ y.started /\ y.quote = q /\ ~y.escaped
  BY OpenedIs
<1> HIDE DEF y
<1> DEFINE w == LexRune(y, r)
<1>4. w = WriteRune(y, r)
  BY <1>1, <1>3, InsideIs
<1> HIDE DEF w
<1>5. w \in LexState /\ w.out = y.out /\ w.word = Append(y.word, r) /\ w.started /\ w.quote = q /\ ~w.escaped
  BY <1>3, <1>4, WriteRuneIs
<1> DEFINE z == LexRune(w, q)
<1>6. z \in LexState /\ z.out = w.out /\ z.word = w.word /\ z.started = w.started /\ z.quote = "" /\ ~z.escaped
  BY <1>1, <1>5, ClosedIs
<1> HIDE DEF z
<1>7. QED
  BY <1>2, <1>3, <1>5, <1>6, WordGoesOn DEF WordGrows, z, w

LEMMA LexEscapedQuote ==
  ASSUME NEW x \in LexState, NEW r \in Runes
  PROVE  LexAll(x, <<Double, Backslash, r, Double>>)
           = LexRune(LexRune(LexRune(LexRune(x, Double), Backslash), r), Double)
<1>1. Double \in Runes /\ Backslash \in Runes
  BY MarksDiffer DEF Marks
<1> DEFINE runes == <<Double, Backslash, r, Double>>
<1>2. runes = <<Double, Backslash, r, Double>>
  OBVIOUS
<1> HIDE DEF runes
<1>3. LexAll(x, runes) = LexRune(LexRune(LexRune(LexRune(x, Double), Backslash), r), Double)
  BY <1>1, <1>2, LexFour
<1>4. QED
  BY <1>3 DEF runes

LEMMA EscapedQuoteGrows ==
  ASSUME NEW x \in LexState, x.quote = "", ~x.escaped, NEW r \in Runes
  PROVE  WordGrows(x, LexAll(x, <<Double, Backslash, r, Double>>), <<r>>)
<1> DEFINE y == LexRune(x, Double)
<1>1. Double \in Runes /\ Backslash \in Runes /\ Double # "" /\ Double # Backslash
  BY MarksDiffer DEF Marks
<1>2. LexAll(x, <<Double, Backslash, r, Double>>) = LexRune(LexRune(LexRune(y, Backslash), r), Double)
  <2> HIDE DEF y
  <2>1. LexAll(x, <<Double, Backslash, r, Double>>)
          = LexRune(LexRune(LexRune(LexRune(x, Double), Backslash), r), Double)
    BY LexEscapedQuote, Zenon
  <2>2. QED
    BY <2>1 DEF y
<1>3. y \in LexState /\ y.out = x.out /\ y.word = x.word /\ y.started /\ y.quote = Double /\ ~y.escaped
  <2>1. Double \in {Single, Double}
    OBVIOUS
  <2>2. QED
    BY <2>1, OpenedIs
<1> HIDE DEF y
<1> DEFINE u == LexRune(y, Backslash)
<1>4. u = [y EXCEPT !.escaped = TRUE]
  BY <1>1, <1>3, InsideIs
<1> HIDE DEF u
<1>5. u \in LexState /\ u.out = y.out /\ u.word = y.word /\ u.quote = Double /\ u.escaped
  <2>1. u \in LexState
    BY <1>3, <1>4 DEF LexState
  <2>2. u.out = y.out /\ u.word = y.word /\ u.quote = y.quote /\ u.escaped
    BY <1>3, <1>4 DEF LexState
  <2>3. QED
    BY <1>3, <2>1, <2>2
<1> DEFINE w == LexRune(u, r)
<1>6. w = WriteRune(u, r)
  BY <1>5, EscapedIs
<1> HIDE DEF w
<1>7. w \in LexState /\ w.out = u.out /\ w.word = Append(u.word, r) /\ w.started /\ w.quote = Double /\ ~w.escaped
  <2> DEFINE v == WriteRune(u, r)
  <2>1. v \in LexState /\ v.out = u.out /\ v.word = Append(u.word, r) /\ v.started /\ v.quote = u.quote /\ ~v.escaped
    BY <1>5, WriteRuneIs
  <2>2. w = v
    BY <1>6
  <2> HIDE DEF v
  <2>3. QED
    BY <1>5, <2>1, <2>2
<1> DEFINE z == LexRune(w, Double)
<1>8. z \in LexState /\ z.out = w.out /\ z.word = w.word /\ z.started = w.started /\ z.quote = "" /\ ~z.escaped
  BY <1>1, <1>7, ClosedIs
<1> HIDE DEF z
<1>9. QED
  BY <1>2, <1>3, <1>5, <1>7, <1>8, WordGoesOn DEF WordGrows, z, w, u

-----------------------------------------------------------------------------
\* What a piece of the line adds

LEMMA AddsWord ==
  ASSUME NEW lexed \in Seq(Text), NEW e \in Written, ~e.op
  PROVE  Adds(lexed, Append(lexed, e.text), e)
<1>1. e.text \in Text /\ Size(e) = 1 /\ \A k : Spelled(e, k) = e.text
  BY DEF Written, Size, Spelled
<1>2. QED
  BY <1>1 DEF Adds

LEMMA AddsOne ==
  ASSUME NEW lexed \in Seq(Text), NEW e \in Written, NEW a \in Text,
         Size(e) = 1, Spelled(e, 1) = a
  PROVE  Append(lexed, a) \in Seq(Text) /\ Adds(lexed, Append(lexed, a), e)
  BY DEF Adds

LEMMA AddsTwo ==
  ASSUME NEW lexed \in Seq(Text), NEW e \in Written, NEW a \in Text, NEW b \in Text,
         Size(e) = 2, Spelled(e, 1) = a, Spelled(e, 2) = b
  PROVE  LET all == Append(Append(lexed, a), b) IN all \in Seq(Text) /\ Adds(lexed, all, e)
<1> DEFINE some == Append(lexed, a)
           all == Append(some, b)
           n == Len(lexed)
<1>1. n \in Nat /\ some \in Seq(Text) /\ Len(some) = n + 1 /\ some[n + 1] = a /\ \A i \in 1 .. n : some[i] = lexed[i]
  OBVIOUS
<1> HIDE DEF some, n
<1>2. all \in Seq(Text) /\ Len(all) = n + 2 /\ all[n + 2] = b /\ \A i \in 1 .. n + 1 : all[i] = some[i]
  BY <1>1
<1> HIDE DEF all
<1>3. (\A i \in 1 .. n : all[i] = lexed[i]) /\ all[n + 1] = a
  BY <1>1, <1>2
<1>4. \A k \in 1 .. 2 : k = 1 \/ k = 2
  OBVIOUS
<1>5. QED
  BY <1>2, <1>3, <1>4 DEF Adds, all, some, n

LEMMA AddsFour ==
  ASSUME NEW lexed \in Seq(Text), NEW e \in Written, NEW a \in Text, NEW b \in Text, NEW c \in Text, NEW d \in Text,
         Size(e) = 4, Spelled(e, 1) = a, Spelled(e, 2) = b, Spelled(e, 3) = c, Spelled(e, 4) = d
  PROVE  LET all == Append(Append(Append(Append(lexed, a), b), c), d) IN all \in Seq(Text) /\ Adds(lexed, all, e)
<1> DEFINE one == Append(lexed, a)
           two == Append(one, b)
           three == Append(two, c)
           all == Append(three, d)
           n == Len(lexed)
<1>1. n \in Nat /\ one \in Seq(Text) /\ Len(one) = n + 1 /\ one[n + 1] = a /\ \A i \in 1 .. n : one[i] = lexed[i]
  OBVIOUS
<1> HIDE DEF one, n
<1>2. two \in Seq(Text) /\ Len(two) = n + 2 /\ two[n + 2] = b /\ \A i \in 1 .. n + 1 : two[i] = one[i]
  BY <1>1
<1> HIDE DEF two
<1>3. three \in Seq(Text) /\ Len(three) = n + 3 /\ three[n + 3] = c /\ \A i \in 1 .. n + 2 : three[i] = two[i]
  BY <1>1, <1>2
<1> HIDE DEF three
<1>4. all \in Seq(Text) /\ Len(all) = n + 4 /\ all[n + 4] = d /\ \A i \in 1 .. n + 3 : all[i] = three[i]
  BY <1>1, <1>3
<1> HIDE DEF all
<1>5. /\ \A i \in 1 .. n : all[i] = lexed[i]
      /\ all[n + 1] = a /\ all[n + 2] = b /\ all[n + 3] = c
  BY <1>1, <1>2, <1>3, <1>4
<1>6. \A k \in 1 .. 4 : k = 1 \/ k = 2 \/ k = 3 \/ k = 4
  OBVIOUS
<1>7. QED
  BY <1>4, <1>5, <1>6 DEF Adds, all, three, two, one, n

\* The last word of a line goes on with its token.
LEMMA LaidLonger ==
  ASSUME NEW out \in Seq(Text), NEW w \in Text, NEW text \in Text, NEW line \in Seq(Written), Len(line) > 0,
         ~line[Len(line)].op, Laid(Append(out, w), line)
  PROVE  LET lon == [line EXCEPT ![Len(line)].text = text]
         IN lon \in Seq(Written) /\ line[Len(line)].text = w /\ Laid(Append(out, text), lon)
<1> DEFINE n == Len(line)
           l == Len(out)
           e == [line[n] EXCEPT !.text = text]
           lon == [line EXCEPT ![n] = e]
           old == Append(out, w)
           new == Append(out, text)
<1>1. PICK at : LaidAt(old, line, at)
  BY DEF Laid
<1>2. n \in Nat /\ n \in 1 .. n /\ line[n] \in Written /\ ~line[n].op
  OBVIOUS
<1>3. e \in Written /\ e.text = text /\ ~e.op /\ Size(e) = 1 /\ Size(line[n]) = 1
      /\ Spelled(line[n], 1) = line[n].text /\ \A k : Spelled(e, k) = text
  BY <1>2 DEF Written, Size, Spelled
<1>4. l \in Nat /\ Len(old) = l + 1 /\ Len(new) = l + 1 /\ old[l + 1] = w /\ new[l + 1] = text
      /\ \A i \in 1 .. l : old[i] = new[i]
  OBVIOUS
<1> HIDE DEF e, old, new
<1>5. lon \in Seq(Written) /\ Len(lon) = n /\ lon[n] = e /\ \A j \in 1 .. n - 1 : lon[j] = line[j]
  BY <1>2, <1>3
<1> HIDE DEF lon
<1>6. /\ at \in [0 .. n -> Nat] /\ at[0] = 0 /\ at[n] = Len(old)
      /\ \A j \in 1 .. n :
           /\ at[j] = at[j - 1] + Size(line[j])
           /\ \A k \in 1 .. Size(line[j]) : old[at[j - 1] + k] = Spelled(line[j], k)
  BY <1>1 DEF LaidAt
<1>7. at[n - 1] = l
  <2>1. n - 1 \in 0 .. n
    BY <1>2
  <2>2. at[n - 1] \in Nat
    BY <1>6, <2>1
  <2>3. at[n] = at[n - 1] + Size(line[n]) /\ at[n] = Len(old)
    BY <1>2, <1>6
  <2>4. QED
    BY <1>3, <1>4, <2>2, <2>3
<1>8. line[n].text = w
  <2>1. old[at[n - 1] + 1] = Spelled(line[n], 1)
    <3>1. \A k \in 1 .. Size(line[n]) : old[at[n - 1] + k] = Spelled(line[n], k)
      BY <1>2, <1>6
    <3>2. 1 \in 1 .. Size(line[n])
      BY <1>3
    <3>3. QED
      BY <3>1, <3>2
  <2>2. QED
    BY <1>3, <1>4, <1>7, <2>1
<1>9. ASSUME NEW j \in 1 .. n
      PROVE  at[j] = at[j - 1] + Size(lon[j]) /\ \A k \in 1 .. Size(lon[j]) : new[at[j - 1] + k] = Spelled(lon[j], k)
  <2>1. CASE j = n
    <3>1. \A k \in 1 .. Size(e) : k = 1
      BY <1>3
    <3>2. QED
      BY <1>2, <1>3, <1>4, <1>5, <1>6, <1>7, <2>1, <3>1
  <2>2. CASE j # n
    <3>1. j \in 1 .. n - 1 /\ lon[j] = line[j]
      BY <1>2, <1>5, <2>2
    <3>2. at[j] <= l /\ at[j] \in Nat /\ at[j - 1] \in Nat /\ Size(line[j]) \in Nat
      <4>1. old \in Seq(Text)
        BY DEF old
      <4>2. j + 1 \in 1 .. n /\ j + 1 \in 0 .. n /\ j \in 0 .. n /\ j - 1 \in 0 .. n /\ (j + 1) - 1 = j
        BY <1>2, <3>1
      <4>3. at[j + 1] <= l + 1
        <5>1. \A i \in 0 .. Len(line) : at[i] <= Len(old)
          BY <1>1, <4>1, LaidWithin
        <5>2. QED
          BY <1>4, <4>2, <5>1
      <4>4. line[j] \in Written /\ line[j + 1] \in Written
        BY <4>2
      <4>5. Size(line[j]) \in Nat \ {0} /\ Size(line[j + 1]) \in Nat \ {0}
        BY <4>4, SizeIs
      <4>6. at[j] \in Nat /\ at[j - 1] \in Nat /\ at[j + 1] \in Nat
        BY <1>6, <4>2
      <4>7. at[j + 1] = at[j] + Size(line[j + 1])
        BY <1>6, <4>2
      <4>8. QED
        BY <1>4, <4>3, <4>5, <4>6, <4>7
    <3>3. at[j] = at[j - 1] + Size(line[j])
      BY <1>6
    <3>4. \A k \in 1 .. Size(line[j]) : at[j - 1] + k \in 1 .. l
      BY <1>4, <3>2, <3>3
    <3>5. QED
      BY <1>4, <1>6, <3>1, <3>3, <3>4
  <2>3. QED
    BY <2>1, <2>2
<1> HIDE DEF n
<1>10. LaidAt(new, lon, at)
  BY <1>4, <1>5, <1>6, <1>9 DEF LaidAt
<1>11. Laid(new, lon)
  BY <1>10 DEF Laid
<1>12. lon = [line EXCEPT ![n].text = text]
  BY DEF lon, e
<1>13. QED
  BY <1>5, <1>8, <1>11, <1>12 DEF n, new

\* The lexer between two pieces: outside quotes, and a word only when one is started.
Calm(x) == x \in LexState /\ x.quote = "" /\ ~x.escaped /\ (x.word # <<>> => x.started)

LEMMA PunctuationCalm ==
  ASSUME NEW x, Calm(x), NEW r \in Punctuation
  PROVE  LET y == LexRune(x, r) IN
         /\ Calm(y) /\ ~y.started /\ y.out = Append(Flush(x).out, <<r>>) /\ Flush(y).out = y.out
         /\ Flush(x).out \in Seq(Text) /\ <<r>> \in Text
<1> DEFINE y == LexRune(x, r)
<1>1. x \in LexState /\ x.quote = "" /\ ~x.escaped /\ (x.word # <<>> => x.started)
  BY DEF Calm
<1>2. /\ y \in LexState /\ y.quote = "" /\ ~y.escaped /\ ~y.started
      /\ y.out = Append(Flush(x).out, <<r>>) /\ y.word = Flush(x).word
  BY <1>1, PunctuationIs
<1>3. Flush(x).word = <<>> /\ Flush(x).out \in Seq(Text)
  <2>1. Flush(x) \in LexState /\ Flush(x).word = <<>>
    BY <1>1, FlushIs
  <2>2. QED
    BY <2>1 DEF LexState
<1> HIDE DEF y
<1>4. Flush(y).out = y.out
  BY <1>2, FlushIs
<1>5. <<r>> \in Text
  <2>1. r \in Runes
    BY DEF Runes
  <2>2. QED
    BY <2>1, OneRune
<1>6. QED
  BY <1>2, <1>3, <1>4, <1>5 DEF Calm, y

LEMMA DigitCalm ==
  ASSUME NEW x, Calm(x), ~x.started, NEW r \in {"1", "2"}
  PROVE  LET y == LexRune(x, r) IN
         /\ Calm(y) /\ y.started /\ Flush(y).out = Append(x.out, <<r>>)
         /\ Flush(x).out = x.out /\ x.out \in Seq(Text) /\ <<r>> \in Text
<1> DEFINE y == LexRune(x, r)
<1>1. x \in LexState /\ x.quote = "" /\ ~x.escaped /\ x.word = <<>> /\ x.out \in Seq(Text)
  BY DEF Calm, LexState
<1>2. r \in Runes /\ r \notin Punctuation \union Marks \union {" "}
  BY DEF Runes, Punctuation, Marks, Single, Double, Backslash
<1>3. y = WriteRune(x, r)
  BY <1>1, <1>2, OutsideIs
<1> HIDE DEF y
<1>4. y \in LexState /\ y.out = x.out /\ y.word = Append(x.word, r) /\ y.started /\ y.quote = "" /\ ~y.escaped
  BY <1>1, <1>2, <1>3, WriteRuneIs
<1>5. y.word = <<r>>
  <2>1. Append(<<>>, r) = <<r>>
    OBVIOUS
  <2>2. QED
    BY <1>1, <1>4, <2>1
<1>6. Flush(y).out = Append(y.out, y.word)
  BY <1>4, FlushIs
<1>7. Flush(x).out = x.out
  BY <1>1, FlushIs
<1>8. <<r>> \in Text
  BY <1>2, OneRune
<1>9. QED
  BY <1>1, <1>4, <1>5, <1>6, <1>7, <1>8 DEF Calm, y

LEMMA OperatorLexed ==
  ASSUME NEW x, Calm(x), NEW e \in Written, e.op, e.text[1] = "2" => ~x.started
  PROVE  LET y == LexAll(x, e.text) IN
         /\ Calm(y) /\ (y.started <=> e.text = OutErr)
         /\ Flush(x).out \in Seq(Text) /\ Flush(y).out \in Seq(Text)
         /\ Adds(Flush(x).out, Flush(y).out, e)
<1> DEFINE y == LexAll(x, e.text)
           f == Flush(x).out
<1>1. x \in LexState /\ Punctuation \subseteq Runes /\ "1" \in Runes /\ "2" \in Runes
  BY DEF Calm, Runes
<1>2. {"|", ";", ">", "<", "&"} = Punctuation
  BY DEF Punctuation
<1>3. ASSUME NEW r \in Punctuation, e.text = <<r>>, Size(e) = 1, Spelled(e, 1) = <<r>>, <<r>> # OutErr
      PROVE  Calm(y) /\ (y.started <=> e.text = OutErr) /\ f \in Seq(Text) /\ Flush(y).out \in Seq(Text) /\ Adds(f, Flush(y).out, e)
  <2>1. y = LexRune(x, r)
    BY <1>1, <1>3, LexOne
  <2> HIDE DEF y, f
  <2>2. Calm(y) /\ ~y.started /\ Flush(y).out = Append(f, <<r>>) /\ f \in Seq(Text) /\ <<r>> \in Text
    BY <2>1, PunctuationCalm DEF f
  <2> DEFINE a == <<r>>
  <2>3. a \in Text /\ Flush(y).out = Append(f, a) /\ Spelled(e, 1) = a
    BY <1>3, <2>2
  <2> HIDE DEF a
  <2>4. Flush(y).out \in Seq(Text) /\ Adds(f, Flush(y).out, e)
    BY <1>3, <2>2, <2>3, AddsOne
  <2>5. QED
    BY <1>3, <2>2, <2>4
<1>4. ASSUME NEW r \in Punctuation, NEW q \in Punctuation, e.text = <<r, q>>, Size(e) = 2,
             Spelled(e, 1) = <<r>>, Spelled(e, 2) = <<q>>, <<r, q>> # OutErr
      PROVE  Calm(y) /\ (y.started <=> e.text = OutErr) /\ f \in Seq(Text) /\ Flush(y).out \in Seq(Text) /\ Adds(f, Flush(y).out, e)
  <2> DEFINE u == LexRune(x, r)
  <2>1. y = LexRune(u, q)
    BY <1>1, <1>4, LexTwo
  <2>2. Calm(u) /\ Flush(u).out = Append(f, <<r>>) /\ f \in Seq(Text) /\ <<r>> \in Text
    BY PunctuationCalm
  <2> HIDE DEF y, f, u
  <2>3. Calm(y) /\ ~y.started /\ Flush(y).out = Append(Flush(u).out, <<q>>) /\ <<q>> \in Text
    BY <2>1, <2>2, PunctuationCalm
  <2> DEFINE a == <<r>>
             b == <<q>>
  <2>4. /\ a \in Text /\ b \in Text /\ Flush(y).out = Append(Append(f, a), b) /\ Spelled(e, 1) = a /\ Spelled(e, 2) = b
    BY <1>4, <2>2, <2>3
  <2> HIDE DEF a, b
  <2>5. Flush(y).out \in Seq(Text) /\ Adds(f, Flush(y).out, e)
    BY <1>4, <2>2, <2>4, AddsTwo
  <2>6. QED
    BY <1>4, <2>2, <2>3, <2>5
<1>5. CASE e.text = Err /\ Size(e) = 2 /\ Spelled(e, 1) = Two /\ Spelled(e, 2) = More
  <2>1. ~x.started /\ e.text = <<"2", ">">> /\ ">" \in Punctuation
    <3>1. e.text = <<"2", ">">> /\ <<"2", ">">>[1] = "2"
      BY <1>5 DEF Err
    <3>2. QED
      BY <1>2, <3>1
  <2> DEFINE u == LexRune(x, "2")
  <2>2. y = LexRune(u, ">")
    BY <1>1, <2>1, LexTwo
  <2>3. Calm(u) /\ Flush(u).out = Append(f, Two) /\ f \in Seq(Text) /\ Two \in Text
    BY <2>1, DigitCalm DEF Two
  <2> HIDE DEF y, f, u
  <2>4. Calm(y) /\ ~y.started /\ Flush(y).out = Append(Flush(u).out, More) /\ More \in Text
    BY <2>1, <2>2, <2>3, PunctuationCalm DEF More
  <2>5. Flush(y).out = Append(Append(f, Two), More)
    BY <2>3, <2>4
  <2>6. Flush(y).out \in Seq(Text) /\ Adds(f, Flush(y).out, e)
    BY <1>5, <2>3, <2>4, <2>5, AddsTwo
  <2>7. QED
    BY <1>5, <2>3, <2>4, <2>6, OperatorsDiffer DEF y, f
<1>6. CASE e.text = OutErr /\ Size(e) = 4 /\ Spelled(e, 1) = Two /\ Spelled(e, 2) = More
             /\ Spelled(e, 3) = Amp /\ Spelled(e, 4) = <<"1">>
  <2>1. ~x.started /\ e.text = <<"2", ">", "&", "1">> /\ ">" \in Punctuation /\ "&" \in Punctuation
    <3>1. e.text = <<"2", ">", "&", "1">> /\ <<"2", ">", "&", "1">>[1] = "2"
      BY <1>6 DEF OutErr
    <3>2. QED
      BY <1>2, <3>1
  <2> DEFINE u == LexRune(x, "2")
             v == LexRune(u, ">")
             w == LexRune(v, "&")
  <2>2. y = LexRune(w, "1")
    BY <1>1, <2>1, LexFour
  <2>3. Calm(u) /\ Flush(u).out = Append(f, Two) /\ f \in Seq(Text) /\ Two \in Text
    BY <2>1, DigitCalm DEF Two
  <2> HIDE DEF y, f, u
  <2>4. Calm(v) /\ Flush(v).out = Append(Flush(u).out, More) /\ More \in Text
    BY <2>1, <2>3, PunctuationCalm DEF More
  <2> HIDE DEF v
  <2>5. Calm(w) /\ ~w.started /\ w.out = Append(Flush(v).out, Amp) /\ Amp \in Text
    BY <2>1, <2>4, PunctuationCalm DEF Amp
  <2> HIDE DEF w
  <2> DEFINE d == <<"1">>
  <2>6. Calm(y) /\ y.started /\ Flush(y).out = Append(w.out, d) /\ d \in Text
    BY <2>2, <2>5, DigitCalm
  <2>7. Flush(y).out = Append(Append(Append(Append(f, Two), More), Amp), d) /\ Spelled(e, 4) = d
    BY <1>6, <2>3, <2>4, <2>5, <2>6
  <2> HIDE DEF d
  <2>8. Flush(y).out \in Seq(Text) /\ Adds(f, Flush(y).out, e)
    BY <1>6, <2>3, <2>4, <2>5, <2>6, <2>7, AddsFour
  <2>9. QED
    BY <1>6, <2>3, <2>6, <2>8 DEF y, f
<1>7. /\ Pipe = <<"|">> /\ Semi = <<";">> /\ More = <<">">> /\ Less = <<"<">> /\ Amp = <<"&">>
      /\ Or = <<"|", "|">> /\ And = <<"&", "&">> /\ Add = <<">", ">">>
  BY DEF Pipe, Semi, More, Less, Amp, Or, And, Add
<1>8. \A r : <<r>> # OutErr
  BY DEF OutErr
<1>9. CASE Size(e) = 1 /\ e.text \in {Pipe, Semi, More, Less} /\ Spelled(e, 1) = e.text
  <2>1. \E r \in Punctuation : e.text = <<r>>
    BY <1>2, <1>7, <1>9
  <2>2. QED
    BY <1>3, <1>8, <1>9, <2>1
<1>10. CASE \/ Size(e) = 2 /\ e.text = Or /\ Spelled(e, 1) = Pipe /\ Spelled(e, 2) = Pipe
            \/ Size(e) = 2 /\ e.text = And /\ Spelled(e, 1) = Amp /\ Spelled(e, 2) = Amp
            \/ Size(e) = 2 /\ e.text = Add /\ Spelled(e, 1) = More /\ Spelled(e, 2) = More
  <2>1. \E r \in Punctuation : e.text = <<r, r>> /\ Spelled(e, 1) = <<r>> /\ Spelled(e, 2) = <<r>> /\ <<r, r>> # OutErr
    BY <1>2, <1>7, <1>10, OperatorsDiffer
  <2>2. QED
    BY <1>4, <1>10, <2>1
<1>11. QED
  BY <1>5, <1>6, <1>9, <1>10, OperatorIs

-----------------------------------------------------------------------------
\* The inductive invariant: what is written so far, with the word that is not yet flushed, lies in
\* the tokens; a word is under way exactly where the next letter continues one or may not follow.

LineInv ==
  /\ lexer \in LexState /\ (lexer.word # <<>> => lexer.started)
  /\ meant \in Seq(Written) /\ (\A i \in DOMAIN meant : meant[i].op => meant[i].text \in Operators)
  /\ tail \in {"open", "start", "sealed"} /\ unfinished \in BOOLEAN /\ pieces \in 0 .. MaxPieces
  /\ tail = "open" => Len(meant) > 0 /\ ~meant[Len(meant)].op
  /\ unfinished => LexRefuses
  /\ ~unfinished =>
       /\ Calm(lexer) /\ (lexer.started <=> tail # "start")
       /\ Laid(Flush(lexer).out, meant)

LEMMA LineInitially == LineInit => LineInv
<1> SUFFICES ASSUME LineInit PROVE LineInv
  OBVIOUS
<1>1. lexer = Fresh /\ meant = <<>> /\ tail = "start" /\ unfinished = FALSE /\ pieces = 0
  BY DEF LineInit
<1>2. lexer \in LexState /\ lexer.word = <<>> /\ ~lexer.started /\ lexer.quote = "" /\ ~lexer.escaped
      /\ lexer.out = <<>>
  BY <1>1, FreshType DEF Fresh
<1>3. Flush(lexer).out = <<>>
  BY <1>2, FlushIs
<1>4. Laid(<<>>, <<>>)
  <2>1. LaidAt(<<>>, <<>>, [j \in 0 .. 0 |-> 0])
    BY DEF LaidAt
  <2>2. QED
    BY <2>1 DEF Laid
<1>5. pieces \in 0 .. MaxPieces /\ meant \in Seq(Written) /\ DOMAIN meant = {}
  <2>1. MaxPieces \in Nat
    BY LineAssumption
  <2>2. <<>> \in Seq(Written) /\ DOMAIN <<>> = {}
    OBVIOUS
  <2>3. QED
    BY <1>1, <2>1, <2>2
<1>6. QED
  BY <1>1, <1>2, <1>3, <1>4, <1>5 DEF LineInv, Calm

\* A word more, or the last one longer.
LEMMA SaysKept ==
  ASSUME LineInv, ~unfinished, ~unfinished', NEW text \in Text,
         Says(text), WordGrows(lexer, lexer', text), pieces' \in 0 .. MaxPieces
  PROVE  LineInv'
<1> DEFINE x == lexer
           y == lexer'
           n == Len(meant)
<1>1. /\ x \in LexState /\ x.out \in Seq(Text) /\ x.word \in Text
      /\ meant \in Seq(Written) /\ (\A i \in DOMAIN meant : meant[i].op => meant[i].text \in Operators)
      /\ x.started <=> tail # "start"
      /\ Laid(Flush(x).out, meant) /\ (x.word # <<>> => x.started)
  BY DEF LineInv, LexState
<1>2. y \in LexState /\ y.out = x.out /\ y.word = x.word \o text /\ y.started /\ y.quote = "" /\ ~y.escaped
  BY DEF WordGrows
<1>3. tail # "sealed" /\ tail' = "open" /\ tail \in {"open", "start"} /\ unfinished' \in BOOLEAN
  BY DEF Says, LineInv
<1>4. Calm(y)
  BY <1>2 DEF Calm
<1>5. Flush(y).out = Append(x.out, y.word) /\ y.word \in Text
  BY <1>2, FlushIs DEF LexState
<1>6. CASE tail = "open"
  <2>1. meant' = [meant EXCEPT ![n].text = @ \o text]
    BY <1>6 DEF Says
  <2>2. n > 0 /\ ~meant[n].op /\ n \in Nat
    BY <1>6 DEF LineInv
  <2>3. Flush(x).out = Append(x.out, x.word)
    BY <1>1, <1>6, FlushIs
  <2> HIDE DEF x, y
  <2> DEFINE w == x.word
             v == y.word
             lon == [meant EXCEPT ![n].text = v]
  <2>4. lon \in Seq(Written) /\ meant[n].text = w /\ Laid(Append(x.out, v), lon)
    <3>1. v \in Text /\ w \in Text /\ x.out \in Seq(Text)
      BY <1>1, <1>5
    <3>2. Laid(Append(x.out, w), meant)
      BY <1>1, <2>3
    <3> HIDE DEF v, w
    <3>3. QED
      BY <1>1, <2>2, <3>1, <3>2, LaidLonger
  <2>5. meant' = lon
    BY <1>2, <2>1, <2>4
  <2>6. Len(lon) = n /\ DOMAIN lon = DOMAIN meant /\ (\A i \in DOMAIN meant : lon[i].op = meant[i].op /\ (i # n => lon[i] = meant[i]))
    <3>1. meant[n] \in Written /\ n \in DOMAIN meant
      BY <1>1, <2>2
    <3>2. [meant[n] EXCEPT !.text = v].op = meant[n].op
      BY <3>1 DEF Written
    <3>3. QED
      BY <1>1, <2>2, <3>2
  <2> HIDE DEF v, w, n, lon
  <2>7. \A i \in DOMAIN lon : lon[i].op => lon[i].text \in Operators
    BY <1>1, <2>2, <2>6
  <2>8. ~lon[n].op /\ Len(lon) > 0
    <3>1. n \in DOMAIN meant
      BY <1>1, <2>2 DEF n
    <3>2. QED
      BY <2>2, <2>6, <3>1
  <2>9. Laid(Flush(y).out, lon)
    BY <1>5, <2>4 DEF v
  <2>10. lexer' \in LexState /\ lexer'.started /\ Calm(lexer') /\ Laid(Flush(lexer').out, meant')
    BY <1>2, <1>4, <2>5, <2>9 DEF y
  <2>11. /\ meant' \in Seq(Written) /\ (\A i \in DOMAIN meant' : meant'[i].op => meant'[i].text \in Operators)
         /\ Len(meant') > 0 /\ ~meant'[Len(meant')].op
    BY <2>4, <2>5, <2>6, <2>7, <2>8
  <2>12. QED
    BY <1>3, <2>10, <2>11 DEF LineInv, Calm
<1>7. CASE tail = "start"
  <2> DEFINE e == Word(text)
  <2>1. meant' = Append(meant, e)
    BY <1>7 DEF Says
  <2>2. Flush(x).out = x.out /\ x.word = <<>> /\ text \in Seq(Runes)
    BY <1>1, <1>7, FlushIs DEF Text
  <2>3. y.word = text
    BY <1>2, <2>2, ConcatEmptySeq
  <2>4. e \in Written /\ ~e.op /\ e.text = text
    BY DEF Word, Written
  <2> HIDE DEF e, x, y
  <2>5. Laid(Append(x.out, text), Append(meant, e))
    <3>1. Append(x.out, text) \in Seq(Text)
      BY <1>1, AppendProperties
    <3>2. Adds(x.out, Append(x.out, text), e)
      BY <1>1, <2>4, AddsWord
    <3>3. QED
      BY <1>1, <2>2, <2>4, <3>1, <3>2, LaidMore
  <2>6. /\ Append(meant, e) \in Seq(Written) /\ Len(Append(meant, e)) > 0
        /\ ~Append(meant, e)[Len(Append(meant, e))].op
        /\ \A i \in DOMAIN Append(meant, e) : Append(meant, e)[i].op => Append(meant, e)[i].text \in Operators
    BY <1>1, <2>4
  <2>7. lexer' \in LexState /\ lexer'.started /\ Calm(lexer') /\ Laid(Flush(lexer').out, meant')
    BY <1>2, <1>4, <1>5, <2>1, <2>3, <2>5 DEF y
  <2> HIDE DEF n
  <2>8. QED
    BY <1>3, <2>1, <2>6, <2>7 DEF LineInv, Calm
<1>8. QED
  BY <1>3, <1>6, <1>7

LEMMA WriteIs ==
  ASSUME LineInv, NEW runes, Write(runes)
  PROVE  /\ ~unfinished /\ lexer \in LexState /\ Calm(lexer) /\ lexer.quote = "" /\ ~lexer.escaped
         /\ lexer' = LexAll(lexer, runes) /\ pieces' \in 0 .. MaxPieces
<1>1. ~unfinished /\ pieces < MaxPieces /\ pieces' = pieces + 1
  BY DEF Write
<1>2. lexer' = LexAll(lexer, runes)
  BY DEF Write, LexAll
<1>3. Calm(lexer) /\ pieces \in 0 .. MaxPieces
  BY <1>1 DEF LineInv
<1>4. MaxPieces \in Nat
  BY LineAssumption
<1>5. pieces' \in 0 .. MaxPieces
  BY <1>1, <1>3, <1>4
<1>6. QED
  BY <1>1, <1>2, <1>3, <1>5 DEF Calm

LEMMA SpokenRunes ==
  /\ \A r \in Letters : r \in Runes /\ <<r>> \in Text /\ r \notin Punctuation \union Marks \union {" "}
  /\ \A r \in Quotable : r \in Runes /\ <<r>> \in Text /\ r \notin Marks
<1>1. \A r \in Letters : r \in Runes /\ r \notin Punctuation \union Marks \union {" "}
  BY LineAssumption DEF Runes, Marks
<1>2. \A r \in Quotable : r \in Runes /\ r \notin Marks
  BY LineAssumption DEF Runes, Marks
<1>3. QED
  BY <1>1, <1>2, OneRune

LEMMA LetterKept ==
  ASSUME LineInv, NEW r \in Letters, Letter(r)
  PROVE  LineInv'
<1>1. Write(<<r>>) /\ Says(<<r>>)
  BY DEF Letter
<1>2. WordGrows(lexer, lexer', <<r>>)
  BY <1>1, WriteIs, SpokenRunes, LetterGrows
<1>3. QED
  BY <1>1, <1>2, WriteIs, SpokenRunes, SaysKept DEF Says

LEMMA QuotableKept ==
  ASSUME LineInv, NEW r \in Quotable, Escaped(r) \/ Quoted(r) \/ EscapedQuote(r)
  PROVE  LineInv'
<1>1. r \in Runes /\ <<r>> \in Text /\ r \notin Marks
  BY SpokenRunes
<1>2. CASE Escaped(r)
  <2>1. Write(<<Backslash, r>>) /\ Says(<<r>>)
    BY <1>2 DEF Escaped
  <2>2. WordGrows(lexer, lexer', <<r>>)
    BY <1>1, <2>1, WriteIs, EscapedGrows
  <2>3. QED
    BY <1>1, <2>1, <2>2, WriteIs, SaysKept DEF Says
<1>3. CASE Quoted(r)
  <2>1. PICK q \in {Single, Double} : Write(<<q, r, q>>) /\ Says(<<r>>)
    BY <1>3 DEF Quoted
  <2>2. WordGrows(lexer, lexer', <<r>>)
    BY <1>1, <2>1, WriteIs, QuotedGrows
  <2>3. QED
    BY <1>1, <2>1, <2>2, WriteIs, SaysKept DEF Says
<1>4. CASE EscapedQuote(r)
  <2>1. Write(<<Double, Backslash, r, Double>>) /\ Says(<<r>>)
    BY <1>4 DEF EscapedQuote
  <2>2. WordGrows(lexer, lexer', <<r>>)
    BY <1>1, <2>1, WriteIs, EscapedQuoteGrows
  <2>3. QED
    BY <1>1, <2>1, <2>2, WriteIs, SaysKept DEF Says
<1>5. QED
  BY <1>2, <1>3, <1>4

LEMMA EmptyQuoteKept ==
  ASSUME LineInv, EmptyQuote
  PROVE  LineInv'
<1>1. PICK q \in {Single, Double} : Write(<<q, q>>) /\ Says(<<>>)
  BY DEF EmptyQuote
<1>2. WordGrows(lexer, lexer', <<>>)
  BY <1>1, WriteIs, EmptyGrows
<1>3. QED
  BY <1>1, <1>2, WriteIs, OperatorTokens, SaysKept DEF Says

LEMMA BlankKept ==
  ASSUME LineInv, Blank
  PROVE  LineInv'
<1>1. Write(<<" ">>) /\ tail' = "start" /\ UNCHANGED <<meant, unfinished>>
  BY DEF Blank
<1>2. " " \in Runes
  BY DEF Runes
<1>3. ~unfinished /\ Calm(lexer) /\ lexer \in LexState /\ pieces' \in 0 .. MaxPieces /\ lexer' = Flush(lexer)
  BY <1>1, <1>2, WriteIs, LexOne, OutsideIs
<1>4. /\ lexer' \in LexState /\ lexer'.quote = "" /\ ~lexer'.escaped /\ ~lexer'.started /\ lexer'.word = <<>>
  BY <1>3, FlushIs DEF Calm
<1>5. Flush(lexer').out = lexer'.out
  BY <1>4, FlushIs
<1>6. Calm(lexer')
  BY <1>4 DEF Calm
<1>7. Laid(Flush(lexer').out, meant')
  BY <1>1, <1>3, <1>5 DEF LineInv
<1>8. QED
  BY <1>1, <1>3, <1>4, <1>6, <1>7 DEF LineInv

LEMMA OperatorKept ==
  ASSUME LineInv, NEW op \in Operators, Operator(op)
  PROVE  LineInv'
<1> DEFINE e == [op |-> TRUE, text |-> op]
           lon == Append(meant, e)
<1>1. /\ op[1] = "2" => tail = "start"
      /\ Write(op) /\ meant' = lon /\ tail' = (IF op = OutErr THEN "sealed" ELSE "start") /\ unfinished' = unfinished
  BY DEF Operator
<1>2. op \in Special /\ op \in Text
  <2>1. op \in Special
    BY LineAssumption
  <2>2. QED
    BY <2>1, SpecialTokens
<1>3. e \in Written /\ e.op /\ e.text = op
  BY <1>2 DEF Written
<1> HIDE DEF e
<1>4. ~unfinished /\ Calm(lexer) /\ pieces' \in 0 .. MaxPieces /\ lexer' = LexAll(lexer, op)
  BY <1>1, WriteIs
<1>5. op[1] = "2" => ~lexer.started
  BY <1>1, <1>4 DEF LineInv
<1>6. /\ Calm(lexer') /\ (lexer'.started <=> op = OutErr)
      /\ Flush(lexer).out \in Seq(Text) /\ Flush(lexer').out \in Seq(Text)
      /\ Adds(Flush(lexer).out, Flush(lexer').out, e)
  BY <1>3, <1>4, <1>5, OperatorLexed
<1>7. meant \in Seq(Written) /\ Laid(Flush(lexer).out, meant) /\ (\A i \in DOMAIN meant : meant[i].op => meant[i].text \in Operators)
  BY <1>4 DEF LineInv
<1>8. Laid(Flush(lexer').out, lon)
  BY <1>3, <1>6, <1>7, LaidMore
<1>9. lon \in Seq(Written) /\ \A i \in DOMAIN lon : lon[i].op => lon[i].text \in Operators
  BY <1>3, <1>7
<1> HIDE DEF lon
<1>10. QED
  BY <1>1, <1>4, <1>6, <1>8, <1>9 DEF LineInv, Calm

LEMMA CutKept ==
  ASSUME LineInv, NEW r \in {Single, Double, Backslash}, Cut(r)
  PROVE  LineInv'
<1>1. Write(<<r>>) /\ unfinished' = TRUE /\ UNCHANGED <<meant, tail>>
  BY DEF Cut
<1>2. r \in Runes
  BY MarksDiffer DEF Marks
<1>3. /\ Calm(lexer) /\ lexer \in LexState /\ lexer.quote = "" /\ ~lexer.escaped
      /\ pieces' \in 0 .. MaxPieces /\ lexer' = LexRune(lexer, r)
  BY <1>1, <1>2, WriteIs, LexOne
<1>4. \/ r # Backslash /\ lexer' = [lexer EXCEPT !.quote = r, !.started = TRUE]
      \/ r = Backslash /\ lexer' = [lexer EXCEPT !.escaped = TRUE, !.started = TRUE]
  BY <1>3, OutsideIs, MarksDiffer
<1>5. lexer' \in LexState /\ lexer'.started /\ (lexer'.escaped \/ lexer'.quote # "")
  BY <1>3, <1>4, MarksDiffer DEF LexState
<1>6. QED
  BY <1>1, <1>3, <1>5 DEF LineInv, LexRefuses

LEMMA LineInductive ==
  ASSUME LineInv, [LineNext]_lineVars
  PROVE  LineInv'
<1>1. CASE \E r \in Letters : Letter(r)
  BY <1>1, LetterKept
<1>2. CASE \E r \in Quotable : Escaped(r) \/ Quoted(r) \/ EscapedQuote(r)
  BY <1>2, QuotableKept
<1>3. CASE EmptyQuote
  BY <1>3, EmptyQuoteKept
<1>4. CASE Blank
  BY <1>4, BlankKept
<1>5. CASE \E op \in Operators : Operator(op)
  BY <1>5, OperatorKept
<1>6. CASE \E r \in {Single, Double, Backslash} : Cut(r)
  BY <1>6, CutKept
<1>7. CASE UNCHANGED lineVars
  BY <1>7 DEF lineVars, LineInv, LexRefuses
<1>8. QED
  BY <1>1, <1>2, <1>3, <1>4, <1>5, <1>6, <1>7 DEF LineNext

LEMMA LineAlways == LineSpec => []LineInv
  BY LineInitially, LineInductive, PTL DEF LineSpec

\* The lexer, what was meant and the place in the line keep their types.
THEOREM LineTypesKept == LineSpec => []LineTypeOK
<1>1. LineInv => LineTypeOK
  BY DEF LineInv, LineTypeOK, LexState
<1>2. QED
  BY <1>1, LineAlways, PTL

\* How any line is read (parser.go), for all letters, operators and lengths: the
\* lexer finds what was meant and refuses what is unfinished; the parser gives
\* every command its own connector, words and redirections, in their order,
\* except that the redirections of a segment without words go to the next
\* command (b writes to f in `a | > f ; b`) or, at the end of the line, nowhere,
\* and that a pipe directly before another connector is passed over (`a | ; b`).
THEOREM LineAlwaysUnderstood == LineSpec => []LineIsUnderstood
<1>1. ASSUME LineInv PROVE LineIsUnderstood
  <2> DEFINE lexed == Flush(lexer).out
  <2>1. lexed \in Seq(Text) /\ meant \in Seq(Written)
    <3>1. Flush(lexer) \in LexState
      BY <1>1, FlushIs DEF LineInv
    <3>2. QED
      BY <1>1, <3>1 DEF LineInv, LexState
  <2>2. LexRefuses <=> unfinished
    BY <1>1 DEF LineInv, LexRefuses, Calm
  <2>3. ASSUME Plain, ~unfinished PROVE Tokens = [i \in DOMAIN meant |-> meant[i].text]
    <3>1. Laid(lexed, meant)
      BY <1>1, <2>3 DEF LineInv
    <3>2. PlainLine(meant)
      BY <2>3 DEF Plain, PlainLine
    <3> HIDE DEF lexed
    <3>3. QED
      BY <2>1, <3>1, <3>2, NormalizedIsMeant DEF Tokens, lexed
  <2>4. StructureKept
    <3> HIDE DEF lexed
    <3>1. NormalizeOperators(lexed) \in Seq(Text)
      BY <2>1, NormalizedType
    <3>2. KeptIn(NormalizeOperators(lexed))
      BY <3>1, Structure
    <3>3. QED
      BY <3>2 DEF KeptIn, StructureKept, Tokens, lexed
  <2>5. QED
    BY <2>2, <2>3, <2>4 DEF LineIsUnderstood, WordsAsMeant
<1>2. QED
  BY <1>1, LineAlways, PTL
=============================================================================
