------------------------------- MODULE Access -------------------------------
(***************************************************************************)
(* Who gets in: the credential file and the copy the server keeps of it    *)
(* (auth/credentials.go, server.go), and the refresh tokens in SQLite      *)
(* (store.go).                                                             *)
(*                                                                         *)
(* A hash is represented by the secret it was made of.  A team's and the   *)
(* organizer's secret is their own name, since nothing changes it; link    *)
(* tokens are numbered in the order in which they were drawn.  A wrong     *)
(* secret changes nothing and is not presented, except a link token that   *)
(* was replaced.  credentialMu and the one connection of the store make    *)
(* each critical section and each transaction one step.  Of the access     *)
(* tokens only the organizer's matter here: organizerUntil is the latest   *)
(* expiry among them, and as they are signed they survive a restart.       *)
(***************************************************************************)
EXTENDS Integers, Sequences, FiniteSets

CONSTANTS
  Teams,        \* the teams of the credential file
  NewTeam,      \* the team that `event teams generate` adds
  Organizer,    \* the key of File.Organizer
  Link,         \* the key of File.Link
  Handlers,     \* requests under way
  None,         \* no such value
  AccessLife,   \* 30 minutes
  RefreshLife,  \* 30 days
  WriteMayFail, \* whether a statement or a save may fail
  LoadMayFail,  \* whether reading the file or the signing key may fail at start
  MaxTokens,    \* refresh tokens ever issued (bound)
  MaxLinks,     \* link tokens ever drawn (bound)
  MaxTime,      \* the clock (bound)
  MaxCrashes    \* crashes of the server (bound)

ASSUME AccessAssumption ==
  /\ Link \notin Teams \union {NewTeam, Organizer}
  /\ AccessLife \in Nat /\ RefreshLife \in Nat
  /\ WriteMayFail \in BOOLEAN /\ LoadMayFail \in BOOLEAN
  /\ MaxTokens \in Nat /\ MaxLinks \in Nat /\ MaxTime \in Nat /\ MaxCrashes \in Nat

VARIABLES
  disk,           \* data/credentials.json
  mem,            \* Server.Credentials
  memErr,         \* Server.credentialErr # nil
  keyOk,          \* Server.securityErr = nil
  up,             \* the server runs
  now,
  tokens,         \* table auth_refresh_tokens; family is history: the logon it descends from
  organizerUntil,
  links,          \* link tokens drawn so far
  job,            \* the request of each handler
  gen,            \* the file `event teams generate` is about to save, or None
  revoked,        \* history: link tokens a confirmed rotation replaced
  cut,            \* history: families in which a refresh spent its token and failed
  overlap,        \* history: generate and the server had the file at one time
  torn,           \* history: since the start, a save failed after its rename
  loadFailed,     \* history: a start could not read the file
  crashes

file    == <<disk, mem, memErr>>
history == <<revoked, cut, overlap, torn, loadFailed>>
vars    == <<file, keyOk, up, now, tokens, organizerUntil, links, job, gen, history, crashes>>

-----------------------------------------------------------------------------
(* auth.File: the records that are there, by key.                          *)

Record(secret) == [secret |-> secret, legacy |-> FALSE]
NeedsUpgrade(record) == record.legacy
EnsureValid(f) == Organizer \in DOMAIN f /\ DOMAIN f \ {Organizer, Link} # {}
Verify(f, key, secret) == key \in DOMAIN f /\ f[key].secret = secret
With(f, key, record) == [k \in DOMAIN f \union {key} |-> IF k = key THEN record ELSE f[k]]

Doing(pc, who, link, family) == [pc |-> pc, who |-> who, link |-> link, family |-> family]
Idle == Doing("idle", None, 0, 0)
Begin(h, pc, who, link, family) == job' = [job EXCEPT ![h] = Doing(pc, who, link, family)]
Goto(h, pc) == job' = [job EXCEPT ![h].pc = pc]
End(h) == job' = [job EXCEPT ![h] = Idle]
At(h, pc) == up /\ job[h].pc = pc

(* auth.Save: write a temporary file, rename it, chmod.  It may fail       *)
(* before the rename or after it.                                          *)
Save(f, outcome) ==
  /\ disk' = IF outcome = "failed" THEN disk ELSE f
  /\ torn' = (torn \/ outcome = "torn")
  /\ outcome = "saved" \/ WriteMayFail
Outcomes == {"saved", "failed", "torn"}

Init ==
  /\ \E secret \in [Teams \union {Organizer} -> BOOLEAN] :
       disk = With([k \in Teams \union {Organizer} |-> [secret |-> k, legacy |-> secret[k]]],
                   Link, Record(0))
  /\ mem = disk /\ memErr = FALSE /\ keyOk = TRUE /\ up = TRUE /\ now = 0
  /\ tokens = <<>> /\ organizerUntil = 0 /\ links = 0
  /\ job = [h \in Handlers |-> Idle] /\ gen = None
  /\ revoked = {} /\ cut = {} /\ overlap = FALSE /\ torn = FALSE /\ loadFailed = FALSE
  /\ crashes = 0

-----------------------------------------------------------------------------
(* Logon.                                                                  *)

Login(h, who) ==
  /\ At(h, "idle") /\ ~memErr
  /\ Begin(h, "verify", who, 0, 0)
  /\ UNCHANGED <<file, keyOk, up, now, tokens, organizerUntil, links, gen, history, crashes>>

LinkLogin(h, who, link) ==
  /\ At(h, "idle") /\ ~memErr
  /\ Begin(h, "link", who, link, 0)
  /\ UNCHANGED <<file, keyOk, up, now, tokens, organizerUntil, links, gen, history, crashes>>

\* The upgraded record is written by a logon that works on the file it read at start.
VerifyCredentialStale(h, key, secret, next) ==
  IF memErr \/ ~Verify(mem, key, secret) THEN End(h) /\ UNCHANGED <<file, torn>>
  ELSE IF ~NeedsUpgrade(mem[key]) THEN Goto(h, next) /\ UNCHANGED <<file, torn>>
  ELSE \E outcome \in Outcomes :
         /\ Save(With(With(mem, key, Record(secret)), Link, Record(0)), outcome)
         /\ IF outcome = "saved" THEN mem' = With(mem, key, Record(secret)) /\ Goto(h, next)
                                 ELSE UNCHANGED mem /\ End(h)
         /\ UNCHANGED memErr

\* The upgraded file keeps the one team that logged on.
VerifyCredentialAlone(h, key, secret, next) ==
  IF memErr \/ ~Verify(mem, key, secret) THEN End(h) /\ UNCHANGED <<file, torn>>
  ELSE IF ~NeedsUpgrade(mem[key]) THEN Goto(h, next) /\ UNCHANGED <<file, torn>>
  ELSE \E outcome \in Outcomes :
         LET f == [k \in {key, Organizer, Link} |-> IF k = key THEN Record(secret) ELSE mem[k]]
         IN /\ Save(f, outcome)
            /\ IF outcome = "saved" THEN mem' = f /\ Goto(h, next) ELSE UNCHANGED mem /\ End(h)
            /\ UNCHANGED memErr

(* verifyCredential, all of it under credentialMu: a legacy record whose   *)
(* secret was presented is replaced, in the file and then in memory.       *)
VerifyCredential(h, key, secret, next) ==
  IF memErr \/ ~Verify(mem, key, secret) THEN End(h) /\ UNCHANGED <<file, torn>>
  ELSE IF ~NeedsUpgrade(mem[key]) THEN Goto(h, next) /\ UNCHANGED <<file, torn>>
  ELSE \E outcome \in Outcomes :
         LET f == With(mem, key, Record(secret))
         IN /\ Save(f, outcome)
            /\ IF outcome = "saved" THEN mem' = f /\ Goto(h, next) ELSE UNCHANGED mem /\ End(h)
            /\ UNCHANGED memErr

VerifyLink(h) ==
  /\ At(h, "link")
  /\ VerifyCredential(h, Link, job[h].link, "verify")
  /\ UNCHANGED <<keyOk, up, now, tokens, organizerUntil, links, gen, revoked, cut, overlap, loadFailed, crashes>>

VerifyWho(h) ==
  /\ At(h, "verify")
  /\ VerifyCredential(h, job[h].who, job[h].who, "issue")
  /\ UNCHANGED <<keyOk, up, now, tokens, organizerUntil, links, gen, revoked, cut, overlap, loadFailed, crashes>>

\* The row of a logon's token has no family.
IssueTokensAlone(h) ==
  /\ At(h, "issue") /\ keyOk /\ Len(tokens) < MaxTokens
  /\ tokens' = Append(tokens, [owner |-> job[h].who, expires |-> now + RefreshLife, used |-> FALSE,
                               family |-> job[h].family])
  /\ organizerUntil' = IF job[h].who = Organizer THEN now + AccessLife ELSE organizerUntil
  /\ End(h)
  /\ UNCHANGED <<file, keyOk, up, now, links, gen, history, crashes>>

(* issueTokens: the pair, with the refresh token's row.                    *)
IssueTokens(h) ==
  /\ At(h, "issue") /\ keyOk /\ Len(tokens) < MaxTokens
  /\ tokens' = Append(tokens, [owner |-> job[h].who, expires |-> now + RefreshLife, used |-> FALSE,
                               family |-> IF job[h].family = 0 THEN Len(tokens) + 1 ELSE job[h].family])
  /\ organizerUntil' = IF job[h].who = Organizer THEN now + AccessLife ELSE organizerUntil
  /\ End(h)
  /\ UNCHANGED <<file, keyOk, up, now, links, gen, history, crashes>>

IssueFails(h) ==
  /\ At(h, "issue") /\ (~keyOk \/ WriteMayFail)
  /\ cut' = cut \union ({job[h].family} \ {0})
  /\ End(h)
  /\ UNCHANGED <<file, keyOk, up, now, tokens, organizerUntil, links, gen, revoked, overlap, torn, loadFailed, crashes>>

-----------------------------------------------------------------------------
(* Refresh: the token is spent in one transaction, the pair issued after.  *)

Usable(t) == ~tokens[t].used /\ now < tokens[t].expires

\* The transaction looks at the expiry only.
RotateRefreshTokenTwice(h, t) ==
  /\ At(h, "idle") /\ now < tokens[t].expires
  /\ tokens' = [tokens EXCEPT ![t].used = TRUE]
  /\ Begin(h, "issue", tokens[t].owner, 0, tokens[t].family)
  /\ UNCHANGED <<file, keyOk, up, now, organizerUntil, links, gen, history, crashes>>

\* Every token of the owner is spent.
RotateRefreshTokenOwner(h, t) ==
  /\ At(h, "idle") /\ Usable(t)
  /\ tokens' = [u \in DOMAIN tokens |-> IF tokens[u].owner = tokens[t].owner
                                        THEN [tokens[u] EXCEPT !.used = TRUE] ELSE tokens[u]]
  /\ Begin(h, "issue", tokens[t].owner, 0, tokens[t].family)
  /\ UNCHANGED <<file, keyOk, up, now, organizerUntil, links, gen, history, crashes>>

RotateRefreshToken(h, t) ==
  /\ At(h, "idle") /\ Usable(t)
  /\ tokens' = [tokens EXCEPT ![t].used = TRUE]
  /\ Begin(h, "issue", tokens[t].owner, 0, tokens[t].family)
  /\ UNCHANGED <<file, keyOk, up, now, organizerUntil, links, gen, history, crashes>>

-----------------------------------------------------------------------------
(* Link rotation.                                                          *)

\* isOrganizer: a signed token that has not expired; then a token is drawn.
AskRotation(h) ==
  /\ At(h, "idle") /\ keyOk /\ organizerUntil > now /\ links < MaxLinks
  /\ links' = links + 1
  /\ Begin(h, "rotate", Organizer, links', 0)
  /\ UNCHANGED <<file, keyOk, up, now, tokens, organizerUntil, gen, history, crashes>>

(* All of it under credentialMu, whatever the server could read at start.  *)
RotateLinkToken(h) ==
  /\ At(h, "rotate")
  /\ \E outcome \in Outcomes :
       LET f == With(mem, Link, Record(job[h].link))
       IN /\ Save(f, outcome)
          /\ IF outcome = "saved" THEN mem' = f /\ revoked' = revoked \union {mem[Link].secret : k \in DOMAIN mem \intersect {Link}} /\ memErr' = FALSE
                                  ELSE UNCHANGED <<mem, memErr, revoked>>
  /\ End(h)
  /\ UNCHANGED <<keyOk, up, now, tokens, organizerUntil, links, gen, cut, overlap, loadFailed, crashes>>

-----------------------------------------------------------------------------
(* event teams generate, a process of its own.                             *)

GenerateLoad ==
  /\ gen = None /\ EnsureValid(disk) /\ NewTeam \notin DOMAIN disk
  /\ gen' = With(disk, NewTeam, Record(NewTeam))
  /\ overlap' = (overlap \/ up)
  /\ UNCHANGED <<file, keyOk, up, now, tokens, organizerUntil, links, job, revoked, cut, torn, loadFailed, crashes>>

GenerateSave ==
  /\ gen # None
  /\ disk' = gen \/ (WriteMayFail /\ disk' = disk)
  /\ gen' = None
  /\ UNCHANGED <<mem, memErr, keyOk, up, now, tokens, organizerUntil, links, job, history, crashes>>

-----------------------------------------------------------------------------
Tick ==
  /\ now < MaxTime
  /\ now' = now + 1
  /\ UNCHANGED <<file, keyOk, up, tokens, organizerUntil, links, job, gen, history, crashes>>

Crash ==
  /\ up /\ crashes < MaxCrashes
  /\ up' = FALSE /\ crashes' = crashes + 1
  /\ job' = [h \in Handlers |-> Idle]
  /\ cut' = cut \union ({job[h].family : h \in Handlers} \ {0})
  /\ UNCHANGED <<file, keyOk, now, tokens, organizerUntil, links, gen, revoked, overlap, torn, loadFailed>>

\* The signing key is read from the store; a file that cannot be read is the empty one.
New ==
  /\ ~up
  /\ up' = TRUE /\ torn' = FALSE
  /\ overlap' = (overlap \/ gen # None)
  /\ keyOk' \in {TRUE, ~LoadMayFail}
  /\ \/ mem' = disk /\ memErr' = ~EnsureValid(disk) /\ UNCHANGED loadFailed
     \/ LoadMayFail /\ mem' = <<>> /\ memErr' = TRUE /\ loadFailed' = TRUE
  /\ UNCHANGED <<disk, now, tokens, organizerUntil, links, job, gen, revoked, cut, crashes>>

Next ==
  \/ \E h \in Handlers :
       \/ \E who \in Teams \union {NewTeam, Organizer} : Login(h, who)
       \/ \E who \in Teams, link \in 0 .. links : LinkLogin(h, who, link)
       \/ VerifyLink(h) \/ VerifyWho(h) \/ IssueTokens(h) \/ IssueFails(h)
       \/ \E t \in DOMAIN tokens : RotateRefreshToken(h, t)
       \/ AskRotation(h) \/ RotateLinkToken(h)
  \/ GenerateLoad \/ GenerateSave \/ Tick \/ Crash \/ New

Spec == Init /\ [][Next]_vars

-----------------------------------------------------------------------------
Family(f) == {t \in DOMAIN tokens : tokens[t].family = f}
Unspent(f) == {t \in Family(f) : ~tokens[t].used}
Refreshing(f) == {h \in Handlers : job[h].family = f}

\* Every variable has its type: a file holds records of known keys, a
\* request works on a family it took from the table.
TypeOK ==
  /\ \A f \in {disk, mem} \union ({gen} \ {None}) :
       /\ DOMAIN f \subseteq Teams \union {NewTeam, Organizer, Link}
       /\ \A k \in DOMAIN f : IF k = Link THEN f[k].secret \in 0 .. links ELSE f[k].secret = k
  /\ {memErr, keyOk, up, overlap, torn, loadFailed} \subseteq BOOLEAN
  /\ \A t \in DOMAIN tokens : tokens[t].family \in 1 .. t /\ tokens[t].used \in BOOLEAN
  /\ \A h \in Handlers : /\ job[h].pc \in {"idle", "link", "verify", "issue", "rotate"}
                         /\ job[h].family \in {0} \union DOMAIN tokens /\ job[h].link \in 0 .. links
  /\ revoked \subseteq 0 .. links /\ cut \subseteq DOMAIN tokens /\ crashes \in 0 .. MaxCrashes

\* A logon and the refreshes that follow it never have two tokens that can
\* still be traded in, or one and a refresh that will issue another, whatever
\* requests present the same token at one time (server.go:454, store.go:101).
OneUsableToken == \A f \in DOMAIN tokens : Cardinality(Unspent(f)) + Cardinality(Refreshing(f)) <= 1

\* A client keeps one token to go on with, unless the statement after the
\* rotation failed or the server died before it (server.go:477).
ClientKeepsToken ==
  \A t \in DOMAIN tokens :
    LET f == tokens[t].family IN f \in cut \/ Refreshing(f) # {} \/ Unspent(f) # {}

\* What logons are checked against is what a restart would read, and a link
\* token that a confirmed rotation replaced is never accepted again, through
\* logons that rewrite the file, failed saves and restarts; unless generate
\* wrote beside the server, or a save failed after its rename (server.go:424,
\* :643).
LinkIsCurrent ==
  up /\ ~overlap =>
    /\ Link \in DOMAIN mem => mem[Link].secret \notin revoked
    /\ ~memErr /\ ~torn => mem = disk

\* No write of the file drops a record, or brings a legacy one back after a
\* save that was confirmed, unless the server could not read the file when
\* it started, or generate and the server had it at one time (server.go:415,
\* :643, main.go:303).
CredentialsKept ==
  [][~overlap' /\ ~loadFailed' =>
       \A k \in DOMAIN disk : k \in DOMAIN disk' /\ (disk'[k].legacy => disk[k].legacy \/ torn)]_vars

\* Logons are closed while what the server holds is not a valid file.
FailsClosed == up /\ ~memErr => EnsureValid(mem)
=============================================================================
