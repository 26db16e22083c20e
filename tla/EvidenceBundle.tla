--------------------------- MODULE EvidenceBundle ---------------------------
(***************************************************************************)
(* Submission bundles: how the server writes them (bundle.go, Write), how  *)
(* they are checked (VerifyReader), and the commands that export and judge *)
(* them (main.go).  Every step on the file system is an action, between    *)
(* two of which another program may replace or change a file.              *)
(*                                                                         *)
(* An archive is a sequence of entries.  A payload entry of version v      *)
(* holds {<<name, v>>}, and that is its hash, too; the manifest holds the  *)
(* hashes of all, the signature the manifest it was made of and the key    *)
(* it was made with, whose public half it carries.  A changed entry holds  *)
(* {<<name, 0>>}.  The key "own" stands for the keys of the server's       *)
(* sessions (each runtime.New makes one, and no one keeps the public       *)
(* half), "foreign" for everyone else's.  Limits on sizes and unsafe       *)
(* names, which refuse an archive whatever it holds, are left out.         *)
(***************************************************************************)
EXTENDS Integers, Sequences, SequencesExt, FiniteSets

CONSTANTS
  Sessions,    \* the sessions with a bundle, a sequence in the order of their names
  Payload,     \* names of the signed entries, a sequence in their order
  Extra,       \* a name no bundle has
  MaxVersions, \* exports of a session (bound)
  MaxDamages,  \* changes to stored bundles (bound)
  MaxExports   \* runs of `submissions export` (bound)

VARIABLES
  store,    \* data/submissions: the archive of each session, or <<>>
  temp,     \* the temporary file of the export of a session, or <<>>
  version,  \* history: versions of a session written so far
  resealed, \* history: manifests of a session signed with a foreign key
  damages,  \* history: bundles changed so far
  dest,     \* the export directory: an archive, or <<>>, or Partial
  export,   \* the command `submissions export`
  exports,
  judge     \* the command `judge`

bundleVars == <<store, temp, version, resealed, damages, dest, export, exports, judge>>

Manifest == "manifest.json"
Sig == "manifest.sig"
Entry(name, data) == [name |-> name, data |-> data, key |-> "none"]
Seal(m, key) == [name |-> Sig, data |-> m, key |-> key]
Changed(name) == Entry(name, {<<name, 0>>})
Names == Range(Payload)
SessionIds == Range(Sessions)

\* No two sessions and no two entries have the same name.
ASSUME BundleAssumption ==
  /\ Sessions \in Seq(SessionIds) /\ Sessions # <<>> /\ IsInjective(Sessions)
  /\ Payload \in Seq(Names) /\ Payload # <<>> /\ IsInjective(Payload)
  /\ Names \intersect {Manifest, Sig, Extra} = {} /\ Extra \notin {Manifest, Sig}
  /\ {MaxVersions, MaxDamages, MaxExports} \subseteq Nat

Partial == <<Changed(Extra)>>

Hashes(v) == {<<p, v>> : p \in Names}

Bundle(v) ==
  [i \in DOMAIN Payload |-> Entry(Payload[i], {<<Payload[i], v>>})]
    \o <<Entry(Manifest, Hashes(v)), Seal(Hashes(v), "own")>>

Has(a, name) == \E i \in DOMAIN a : a[i].name = name
Found(a, name) == CHOOSE e \in Range(a) : e.name = name

\* The manifest must be the one that was signed, with whatever key: it is
\* checked against the public key in manifest.sig itself and no other.
VerifyManifest(m, signature) == signature.key # "none" /\ signature.data = m

VerifyReader(a) ==
  /\ \A i, j \in DOMAIN a : a[i].name = a[j].name => i = j
  /\ Has(a, Manifest) /\ Has(a, Sig)
  /\ LET m == Found(a, Manifest).data
     IN /\ VerifyManifest(m, Found(a, Sig))
        /\ \A x \in m : /\ x[1] \notin {Manifest, Sig}
                        /\ Has(a, x[1]) /\ Found(a, x[1]).data = {x}
        /\ \A i \in DOMAIN a : a[i].name \in {x[1] : x \in m} \union {Manifest, Sig}

NoExport == [pc |-> "idle", todo |-> {}, input |-> <<>>]
NoJudge == [pc |-> "idle", session |-> Sessions[1], began |-> 0, verified |-> TRUE]

BundleInit ==
  /\ store = [s \in SessionIds |-> <<>>] /\ temp = store /\ dest = store
  /\ version = [s \in SessionIds |-> 0] /\ resealed = [s \in SessionIds |-> {}]
  /\ damages = 0 /\ exports = 0
  /\ export = NoExport /\ judge = NoJudge

-----------------------------------------------------------------------------
(* Session.ExportBundle and bundle.Write.  A failure before the rename     *)
(* removes the temporary file, a crash leaves it under a name that the     *)
(* commands below do not look at: either way nothing else happened.        *)

Write(s) ==
  /\ temp[s] = <<>> /\ version[s] < MaxVersions
  /\ temp' = [temp EXCEPT ![s] = Bundle(version[s] + 1)]
  /\ version' = [version EXCEPT ![s] = @ + 1]
  /\ UNCHANGED <<store, resealed, damages, dest, export, exports, judge>>

WriteBundleFails(s) ==
  /\ temp[s] # <<>>
  /\ temp' = [temp EXCEPT ![s] = <<>>]
  /\ UNCHANGED <<store, version, resealed, damages, dest, export, exports, judge>>

\* The bundle has its name; an error of the chmod that follows leaves it there.
RenameBundle(s) ==
  /\ temp[s] # <<>>
  /\ store' = [store EXCEPT ![s] = temp[s]]
  /\ temp' = [temp EXCEPT ![s] = <<>>]
  /\ UNCHANGED <<version, resealed, damages, dest, export, exports, judge>>

(* What a transfer or an editor may make of an archive: one that lost an   *)
(* entry, has a changed, a repeated or a further one, or another order.    *)
(* A file that is open is not changed by it, one that lost its last entry  *)
(* is gone.                                                                *)
Damaged(a) ==
  {RemoveAt(a, i) : i \in DOMAIN a}
    \union {[a EXCEPT ![i] = Changed(a[i].name)] : i \in DOMAIN a}
    \union {Append(a, Changed(a[i].name)) : i \in DOMAIN a}
    \union {Append(a, Changed(Extra)), Append(Tail(a), Head(a))}

Damage(s) ==
  /\ damages < MaxDamages /\ store[s] # <<>>
  /\ \E a \in Damaged(store[s]) : store' = [store EXCEPT ![s] = a]
  /\ damages' = damages + 1
  /\ UNCHANGED <<temp, version, resealed, dest, export, exports, judge>>

(* A program that packs an archive anew writes a manifest of what it finds *)
(* in it and signs that with a key of its own.                             *)
Listed(a) == UNION {e.data : e \in {f \in Range(a) : f.name \notin {Manifest, Sig}}}

Resealed(a) ==
  [i \in DOMAIN a |-> IF a[i].name = Manifest THEN Entry(Manifest, Listed(a))
                      ELSE IF a[i].name = Sig THEN Seal(Listed(a), "foreign") ELSE a[i]]

Reseal(s) ==
  /\ damages < MaxDamages /\ store[s] # <<>>
  /\ store' = [store EXCEPT ![s] = Resealed(@)]
  /\ resealed' = [resealed EXCEPT ![s] = @ \union {Listed(store[s])}]
  /\ damages' = damages + 1
  /\ UNCHANGED <<temp, version, dest, export, exports, judge>>

-----------------------------------------------------------------------------
(* redlab submissions export: the files it found, in the order of their    *)
(* names; the first that is refused ends the command.                      *)

Turn == Sessions[Min(export.todo)]

ExportStart ==
  /\ export.pc = "idle" /\ exports < MaxExports
  /\ exports' = exports + 1
  /\ export' = [NoExport EXCEPT !.pc = "open", !.todo = {i \in DOMAIN Sessions : store[Sessions[i]] # <<>>}]
  /\ UNCHANGED <<store, temp, version, resealed, damages, dest, judge>>

\* The file stays open: a later rename does not change what is copied.
ExportOpen ==
  /\ export.pc = "open"
  /\ export' = IF export.todo # {} /\ VerifyReader(store[Turn])
               THEN [export EXCEPT !.pc = "create", !.input = store[Turn]] ELSE NoExport
  /\ UNCHANGED <<store, temp, version, resealed, damages, dest, exports, judge>>

ExportCreate ==
  /\ export.pc = "create"
  /\ IF dest[Turn] # <<>> THEN export' = NoExport /\ UNCHANGED dest
     ELSE /\ export' = [export EXCEPT !.pc = "copy"]
          /\ dest' = [dest EXCEPT ![Turn] = Partial]
  /\ UNCHANGED <<store, temp, version, resealed, damages, exports, judge>>

Copied(a) ==
  /\ dest' = [dest EXCEPT ![Turn] = a]
  /\ export' = [export EXCEPT !.pc = "open", !.todo = @ \ {Min(@)}, !.input = <<>>]
  /\ UNCHANGED <<store, temp, version, resealed, damages, exports, judge>>

\* The name is opened again for the copy.
ExportCopyReopens == export.pc = "copy" /\ Copied(store[Turn])

ExportCopy == export.pc = "copy" /\ Copied(export.input)

ExportCopyFails ==
  /\ export.pc = "copy"
  /\ dest' = [dest EXCEPT ![Turn] = <<>>]
  /\ export' = NoExport
  /\ UNCHANGED <<store, temp, version, resealed, damages, exports, judge>>

\* The command is interrupted: a partial copy stays.
ExportKilled ==
  /\ export.pc # "idle" /\ export' = NoExport
  /\ UNCHANGED <<store, temp, version, resealed, damages, dest, exports, judge>>

-----------------------------------------------------------------------------
(* redlab judge: Verify for the manifest, then ReadReport, which verifies  *)
(* again and opens the name a third time.                                  *)

JudgeVerify(s) ==
  /\ judge.pc = "idle" /\ VerifyReader(store[s])
  /\ judge' = [NoJudge EXCEPT !.pc = "again", !.session = s, !.began = damages]
  /\ UNCHANGED <<store, temp, version, resealed, damages, dest, export, exports>>

JudgeAgain ==
  /\ judge.pc = "again"
  /\ judge' = IF VerifyReader(store[judge.session]) THEN [judge EXCEPT !.pc = "read"] ELSE NoJudge
  /\ UNCHANGED <<store, temp, version, resealed, damages, dest, export, exports>>

\* A report that was changed may still parse.
JudgeRead ==
  /\ judge.pc = "read"
  /\ LET a == store[judge.session]
     IN \/ /\ Has(a, Payload[1])
           /\ judge' = [judge EXCEPT !.pc = "done", !.verified = VerifyReader(a)]
        \/ /\ ~Has(a, Payload[1]) \/ Changed(Payload[1]) \in Range(a)
           /\ judge' = NoJudge
  /\ UNCHANGED <<store, temp, version, resealed, damages, dest, export, exports>>

JudgeEnds ==
  /\ judge.pc = "done" /\ judge' = NoJudge
  /\ UNCHANGED <<store, temp, version, resealed, damages, dest, export, exports>>

BundleNext ==
  \/ \E s \in SessionIds : Write(s) \/ WriteBundleFails(s) \/ RenameBundle(s)
                          \/ Damage(s) \/ Reseal(s) \/ JudgeVerify(s)
  \/ ExportStart \/ ExportOpen \/ ExportCreate \/ ExportCopy \/ ExportCopyFails \/ ExportKilled
  \/ JudgeAgain \/ JudgeRead \/ JudgeEnds

BundleSpec == BundleInit /\ [][BundleNext]_bundleVars

-----------------------------------------------------------------------------
AnyName == Names \union {Manifest, Sig, Extra}

\* Archives consist of entries, a command works on a session it has found.
BundleTypeOK ==
  /\ \A f \in {store, temp, dest} : DOMAIN f = SessionIds /\ \A s \in SessionIds :
       f[s] \in Seq([name : AnyName, data : SUBSET (AnyName \X (0 .. version[s])),
                     key : {"none", "own", "foreign"}])
  /\ export.pc \in {"idle", "open", "create", "copy"} /\ export.todo \subseteq DOMAIN Sessions
  /\ judge.pc \in {"idle", "again", "read", "done"} /\ judge.session \in SessionIds

\* The entries of an archive with this manifest, signed with this key, and
\* what was ever put under a signature for this session: by the server, and
\* by others.
Contents(m, key) ==
  {Entry(x[1], {x}) : x \in m} \union {Entry(Manifest, m), Seal(m, key)}
Written(s) == {Contents(Hashes(v), "own") : v \in 1 .. version[s]}
Sealed(s)  == Written(s) \union {Contents(m, "foreign") : m \in resealed[s]}

\* A bundle that is accepted holds what someone put under its signature, all
\* of it and nothing else: losing, changing, repeating or adding an entry is
\* noticed unless the manifest is signed anew, and under a session's own key
\* it is a bundle the server wrote.  While nobody changed a bundle, whatever
\* is stored is accepted, also while the server exports the session again
\* (bundle.go:107, :137).  It does not follow that the server wrote it: the
\* key is the one the archive brings along (chain.go:129-148).
AcceptedIsSealed ==
  \A s \in SessionIds :
    /\ VerifyReader(store[s]) => Range(store[s]) \in Sealed(s)
    /\ damages = 0 /\ store[s] # <<>> => VerifyReader(store[s]) /\ Range(store[s]) \in Written(s)

\* That much the documents say (README.md:438): a bundle that is accepted is one
\* the server wrote.  It fails for an archive that was signed anew.
AcceptedIsWritten ==
  \A s \in SessionIds : VerifyReader(store[s]) => Range(store[s]) \in Written(s)

\* What the two commands hand out was verified, whatever happens to the file
\* meanwhile: an exported file that is not the rest of an interrupted copy is
\* what someone sealed, and the report judge prints comes from an archive
\* that verifies, although the name is opened three times, unless another
\* program changed a bundle since the command began (main.go:191,
\* bundle.go:237).
VerifiedIsUsed ==
  /\ \A s \in SessionIds : dest[s] \in {<<>>, Partial} \/ Range(dest[s]) \in Sealed(s)
  /\ damages = judge.began => judge.verified

\* Both: a bundle that is accepted is as it was sealed, and the commands hand
\* out what they verified.
BundlesAreSound == AcceptedIsSealed /\ VerifiedIsUsed
=============================================================================
