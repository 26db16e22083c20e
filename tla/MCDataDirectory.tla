-------------------------- MODULE MCDataDirectory --------------------------
\* The two parts of the server that keep files beside the database: scenario
\* packages with the event file, and submission bundles with the commands
\* that read them.  They share no file, a behaviour is one of them; and of
\* one of the two commands, which only read what the other reads.
EXTENDS ScenarioWorkshop, EvidenceBundle, TLC

VARIABLE focus

TwoSessions == <<"sa", "sb">>
TwoEntries == <<"report.json", "timeline.jsonl">>

allVars == <<focus, vars, bundleVars>>

DirectoryInit ==
  /\ focus \in {"packages", "export", "judge"} /\ Init /\ BundleInit
  /\ focus # "packages" =>
       \E id \in Ids : \A i \in DOMAIN eventFile : eventFile[i].package = Original(id)

\* Where a command copies files, the server writes one of the bundles anew, and
\* not both (bound).
OneAnew == version["sa"] + version["sb"] <= 3

DirectoryNext ==
  /\ UNCHANGED focus
  /\ \/ focus = "packages" /\ Next /\ UNCHANGED bundleVars
     \/ focus = "export" /\ BundleNext /\ OneAnew' /\ UNCHANGED <<vars, judge>>
     \/ focus = "judge" /\ BundleNext /\ UNCHANGED <<vars, export>>

DirectorySpec == DirectoryInit /\ [][DirectoryNext]_allVars
DirectorySymmetry == Permutations(Handlers) \union Permutations(Ids)

\* The variables of both keep their types.
TypesOK == TypeOK /\ BundleTypeOK
=============================================================================
