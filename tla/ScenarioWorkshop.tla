-------------------------- MODULE ScenarioWorkshop --------------------------
(***************************************************************************)
(* The Scenario Workshop of the organizer dashboard: requests that create, *)
(* import, edit and remove the scenario packages of an event while the     *)
(* server runs, the sessions that are started from these packages, and     *)
(* what a restarted server finds.                                          *)
(*                                                                         *)
(* A package lives in three places: in the server's map, in an archive     *)
(* file, and as a reference in the event, which itself is kept in memory   *)
(* and in the event file.  A request changes them one after the other and  *)
(* holds Server.mu only while it changes the memory: the window test, the  *)
(* archive, the map, the event file and a rollback are separate actions.   *)
(*                                                                         *)
(* Event.Spec.Scenarios is a Go slice, and which copies of it share an     *)
(* array decides what a rollback restores.  "arrays" is that part of the   *)
(* heap; a slice is an array and a length, append reuses spare capacity,   *)
(* and an array that is full is copied to one twice as long.               *)
(*                                                                         *)
(* A package's content is the version of its scenario.yaml and the set of  *)
(* its other files.  A Go string in a shared array is read whole.          *)
(***************************************************************************)
EXTENDS Integers, Sequences, FiniteSets

CONSTANTS
  Ids,           \* scenario identifiers
  Docs,          \* versions of a scenario.yaml
  Files,         \* other files a package may have
  FirstDoc,      \* the version a template or an uploaded package has
  Handlers,      \* goroutines that serve the organizer's requests
  None,          \* no package, source or archive
  WriteMayFail,  \* whether writing a file may return an error
  MaxRequests,   \* bound on the number of mutating requests, for TLC
  MaxSessions,   \* bound on the number of sessions, for TLC
  MaxCrashes     \* bound on the number of process crashes, for TLC

ASSUME WorkshopAssumption ==
  /\ FirstDoc \in Docs
  /\ IsFiniteSet(Ids) /\ IsFiniteSet(Handlers)
  /\ None \notin Ids
  /\ WriteMayFail \in BOOLEAN
  /\ MaxRequests \in Nat /\ MaxSessions \in Nat /\ MaxCrashes \in Nat

VARIABLES
  up,         \* the server process runs and has recovered
  packages,   \* Server.Packages: the content of each, or None
  source,     \* Server.ScenarioSources: the path of each, or None
  event,      \* Server.Event.Spec.Scenarios, a slice
  arrays,     \* the arrays slices of scenario references point into
  archives,   \* the package files on disk: a content, or None
  eventFile,  \* the references in event.yaml
  sessions,   \* the sessions, in memory and in SQLite alike
  job,        \* the request each handler is serving
  overlap,    \* history: two organizer requests overlapped since the start
  failed,     \* history: a write failed since the start, or one before left an
              \* event file that lists a scenario twice, and the start was from it
  requests,   \* number of mutating requests so far
  crashes     \* number of crashes so far

memory == <<packages, source, event, arrays>>
disk   == <<archives, eventFile>>
vars   == <<up, memory, disk, sessions, job, overlap, failed, requests, crashes>>

-----------------------------------------------------------------------------
\* Data

Content == [doc : Docs, files : SUBSET Files]

Original(id) == <<"scenarios", id>>        \* where the event file's author put it
Managed(id)  == <<"data/scenarios", id>>   \* where the workshop puts it
IdOf(path)   == path[2]
Paths        == {Original(id) : id \in Ids} \union {Managed(id) : id \in Ids}

Ref == [package : Paths, enabled : BOOLEAN]

Read(slice) == SubSeq(arrays[slice.array].cells, 1, slice.len)

NoSlice == [array |-> 1, len |-> 0]

Idle == [op |-> "none", pc |-> "idle", id |-> None, content |-> None,
         oldPackage |-> None, oldSource |-> None, oldEvent |-> NoSlice,
         event |-> NoSlice, data |-> <<>>]

Labels == {"idle", "window", "exists", "window2", "archive", "install", "detach",
           "marshal", "rename", "rollback"}

ASSUME NoneAssumption == None \notin Content /\ None \notin Paths

\* What serve makes of an event file and the archives it names; of two enabled
\* references to a scenario the last one counts.
Enabled(refs)  == {i \in DOMAIN refs : refs[i].enabled}
OneEach(refs)  == \A i, j \in Enabled(refs) :
                    IdOf(refs[i].package) = IdOf(refs[j].package) => i = j
ValidEvent(refs) == \A i, j \in DOMAIN refs : refs[i].package = refs[j].package => i = j
LastOf(refs, id) ==
  LET at == {i \in Enabled(refs) : IdOf(refs[i].package) = id}
  IN  IF at = {} THEN None ELSE refs[CHOOSE i \in at : \A j \in at : j <= i].package
Loaded(refs) ==
  [id \in Ids |-> IF LastOf(refs, id) = None THEN None ELSE archives[LastOf(refs, id)]]
Loads(refs) ==
  /\ ValidEvent(refs)
  /\ Enabled(refs) # {}
  /\ \A i \in Enabled(refs) : archives[refs[i].package] # None

TypeOK ==
  /\ up \in BOOLEAN
  /\ packages \in [Ids -> Content \union {None}]
  /\ source \in [Ids -> Paths \union {None}]
  /\ event.array \in DOMAIN arrays
  /\ event.len \in 0 .. Len(arrays[event.array].cells)
  /\ \A a \in DOMAIN arrays :
       /\ arrays[a].cells \in Seq(Ref)
       /\ Len(arrays[a].cells) <= arrays[a].cap
  /\ archives \in [Paths -> Content \union {None}]
  /\ eventFile \in Seq(Ref)
  /\ \A s \in sessions :
       /\ s.scenario \in Ids /\ s.made \in Content /\ s.runs \in Content
       /\ s.calm \in BOOLEAN
  /\ \A h \in Handlers :
       /\ job[h].pc \in Labels
       /\ job[h].id \in Ids \union {None}
       /\ job[h].content \in Content \union {None}
       /\ job[h].data \in Seq(Ref)
  /\ overlap \in BOOLEAN /\ failed \in BOOLEAN
  /\ requests \in 0 .. MaxRequests /\ crashes \in 0 .. MaxCrashes

Fresh == [doc |-> FirstDoc, files |-> {}]

\* redlab init packs the built-in scenarios; their author may disable some.
Init ==
  \E chosen \in SUBSET Ids, listed \in SUBSET Ids :
    \E refs \in {r \in [1 .. Cardinality(listed) -> Ref] :
                   /\ {r[i].package : i \in DOMAIN r} = {Original(id) : id \in listed}
                   /\ \A i \in DOMAIN r : r[i].enabled <=> IdOf(r[i].package) \in chosen} :
      /\ chosen # {} /\ chosen \subseteq listed
      /\ archives = [p \in Paths |-> IF \E id \in Ids : p = Original(id)
                                     THEN Fresh ELSE None]
      /\ eventFile = refs
      /\ packages = [id \in Ids |-> IF id \in chosen THEN Fresh ELSE None]
      /\ source = [id \in Ids |-> IF id \in chosen THEN Original(id) ELSE None]
      /\ arrays = <<[cells |-> refs, cap |-> Len(refs)]>>
      /\ event = [array |-> 1, len |-> Len(refs)]
      /\ up = TRUE /\ sessions = {} /\ job = [h \in Handlers |-> Idle]
      /\ overlap = FALSE /\ failed = FALSE
      /\ requests = 0 /\ crashes = 0

-----------------------------------------------------------------------------
At(h, pc)   == up /\ job[h].pc = pc
Goto(h, pc) == job' = [job EXCEPT ![h].pc = pc]
Done(h)     == job' = [job EXCEPT ![h] = Idle]
Busy        == {h \in Handlers : job[h].pc # "idle"}

\* A handler takes a mutating request for scenario id.
Begin(h, op, id, content, pc) ==
  /\ At(h, "idle") /\ requests < MaxRequests
  /\ job' = [job EXCEPT ![h] = [Idle EXCEPT !.op = op, !.pc = pc, !.id = id,
                                            !.content = content]]
  /\ overlap' = (overlap \/ Busy # {})
  /\ requests' = requests + 1
  /\ UNCHANGED <<up, memory, disk, sessions, failed, crashes>>

\* POST template, POST import: the new package is known before the map is read.
CreateScenario(h, id) == \E content \in {c \in Content : c.doc = FirstDoc} :
  Begin(h, "create", id, content, "window")

\* PUT source, PUT files, DELETE files: packageSnapshot clones the package
\* under the mutex; what is saved later is the clone with one change.
EditSource(h, id) ==
  /\ packages[id] # None
  /\ \E doc \in Docs : Begin(h, "edit", id, [packages[id] EXCEPT !.doc = doc], "window")

EditFiles(h, id) ==
  /\ packages[id] # None
  /\ \E f \in Files, put \in BOOLEAN :
       /\ ~put => f \in packages[id].files
       /\ Begin(h, "edit", id,
                [packages[id] EXCEPT !.files = IF put THEN @ \union {f} ELSE @ \ {f}],
                "window")

RemoveScenario(h, id) == Begin(h, "remove", id, None, "window")

AfterWindow(h) ==
  CASE job[h].pc = "window2"                        -> "archive"
    [] job[h].pc = "window" /\ job[h].op = "create" -> "exists"
    [] job[h].pc = "window" /\ job[h].op = "edit"   -> "window2"
    [] job[h].pc = "window" /\ job[h].op = "remove" -> "detach"

\* Faulty variant: an edit is not asked whether sessions exist.
WindowCreateOnly(h) ==
  /\ At(h, "window") \/ At(h, "window2")
  /\ IF sessions # {} /\ job[h].op = "create"
     THEN Done(h) ELSE Goto(h, AfterWindow(h))
  /\ UNCHANGED <<up, memory, disk, sessions, overlap, failed, requests, crashes>>

\* Faulty variant: a removal is not asked whether sessions exist.
WindowNoRemove(h) ==
  /\ At(h, "window") \/ At(h, "window2")
  /\ IF sessions # {} /\ job[h].op # "remove"
     THEN Done(h) ELSE Goto(h, AfterWindow(h))
  /\ UNCHANGED <<up, memory, disk, sessions, overlap, failed, requests, crashes>>

\* requireScenarioMutationWindow, at the start of a request and again in
\* saveManagedScenario: 409 once there is a session.
Window(h) ==
  /\ At(h, "window") \/ At(h, "window2")
  /\ IF sessions # {}
     THEN Done(h) ELSE Goto(h, AfterWindow(h))
  /\ UNCHANGED <<up, memory, disk, sessions, overlap, failed, requests, crashes>>

\* A new scenario may not have the identifier of a served one.
Exists(h) ==
  /\ At(h, "exists")
  /\ IF packages[job[h].id] # None THEN Done(h) ELSE Goto(h, "window2")
  /\ UNCHANGED <<up, memory, disk, sessions, overlap, failed, requests, crashes>>

\* WriteArchiveFile: a temporary file, synced and renamed over the archive.
WriteArchive(h) ==
  /\ At(h, "archive")
  /\ archives' = [archives EXCEPT ![Managed(job[h].id)] = job[h].content]
  /\ Goto(h, "install")
  /\ UNCHANGED <<up, memory, eventFile, sessions, overlap, failed, requests, crashes>>

\* Faulty variant: a full array is not copied to a larger one.
AppendInPlace(ref) ==
  /\ arrays' = [arrays EXCEPT ![event.array].cells =
                  SubSeq(@, 1, event.len) \o <<ref>> \o SubSeq(@, event.len + 2, Len(@))]
  /\ event' = [event EXCEPT !.len = @ + 1]

\* The list of references after one was appended: in place if there is room.
AppendRef(ref) ==
  LET a == arrays[event.array]
  IN IF event.len < a.cap
     THEN /\ arrays' = [arrays EXCEPT ![event.array].cells =
                          SubSeq(@, 1, event.len) \o <<ref>>
                            \o SubSeq(@, event.len + 2, Len(@))]
          /\ event' = [event EXCEPT !.len = @ + 1]
     ELSE /\ arrays' = Append(arrays, [cells |-> Append(Read(event), ref),
                                       cap |-> IF a.cap = 0 THEN 1 ELSE 2 * a.cap])
          /\ event' = [array |-> Len(arrays) + 1, len |-> event.len + 1]

\* The reference a save takes over: the first whose path was the source.
Taken(id) == {i \in 1 .. event.len : Read(event)[i].package = source[id]}

\* What is kept for a rollback, and the copy of the event that will be written.
Persist(h) ==
  LET id == job[h].id
  IN job' = [job EXCEPT ![h] = [@ EXCEPT !.pc = "marshal", !.event = event',
               !.oldPackage = packages[id], !.oldSource = source[id], !.oldEvent = event]]

\* Faulty variant: the reference to the old source is looked for nowhere.
InstallAppends(h) ==
  LET id == job[h].id
  IN /\ At(h, "install")
     /\ packages' = [packages EXCEPT ![id] = job[h].content]
     /\ source' = [source EXCEPT ![id] = Managed(id)]
     /\ AppendRef([package |-> Managed(id), enabled |-> TRUE])
     /\ Persist(h)
     /\ UNCHANGED <<up, disk, sessions, overlap, failed, requests, crashes>>

\* The part of saveManagedScenario that holds the mutex.
Install(h) ==
  LET id == job[h].id
  IN /\ At(h, "install")
     /\ packages' = [packages EXCEPT ![id] = job[h].content]
     /\ source' = [source EXCEPT ![id] = Managed(id)]
     /\ IF Taken(id) # {}
        THEN /\ arrays' = [arrays EXCEPT ![event.array].cells[
                             CHOOSE i \in Taken(id) : \A j \in Taken(id) : i <= j].package
                               = Managed(id)]
             /\ UNCHANGED event
        ELSE AppendRef([package |-> Managed(id), enabled |-> TRUE])
     /\ Persist(h)
     /\ UNCHANGED <<up, disk, sessions, overlap, failed, requests, crashes>>

\* Faulty variant: the references keep the package that was removed.
DetachPackage(h) ==
  LET id == job[h].id
  IN /\ At(h, "detach") /\ packages[id] # None
     /\ packages' = [packages EXCEPT ![id] = None]
     /\ source' = [source EXCEPT ![id] = None]
     /\ UNCHANGED <<event, arrays>> /\ Persist(h)
     /\ UNCHANGED <<up, disk, sessions, overlap, failed, requests, crashes>>

\* The loop of removeScenario: the references to other packages, in order.
Without(refs, path) ==
  LET kept[n \in 0 .. Len(refs)] ==
        IF n = 0 THEN <<>>
        ELSE IF refs[n].package = path THEN kept[n - 1]
        ELSE Append(kept[n - 1], refs[n])
  IN  kept[Len(refs)]

\* The part of removeScenario that holds the mutex: 404, or a new list
\* without the references to the scenario's source.
Detach(h) ==
  LET id   == job[h].id
      kept == Without(Read(event), source[id])
  IN /\ At(h, "detach")
     /\ \/ /\ packages[id] = None
           /\ Done(h) /\ UNCHANGED memory
        \/ /\ packages[id] # None
           /\ packages' = [packages EXCEPT ![id] = None]
           /\ source' = [source EXCEPT ![id] = None]
           /\ arrays' = Append(arrays, [cells |-> kept, cap |-> event.len])
           /\ event' = [array |-> Len(arrays) + 1, len |-> Len(kept)]
           /\ Persist(h)
     /\ UNCHANGED <<up, disk, sessions, overlap, failed, requests, crashes>>

\* persistEvent: yaml.Marshal follows the slice, without the mutex ...
Marshal(h) ==
  /\ At(h, "marshal")
  /\ job' = [job EXCEPT ![h] = [@ EXCEPT !.pc = "rename", !.data = Read(job[h].event)]]
  /\ UNCHANGED <<up, memory, disk, sessions, overlap, failed, requests, crashes>>

\* ... and writeFileAtomic renames the new file over event.yaml; 200 or 201.
Rename(h) ==
  /\ At(h, "rename")
  /\ eventFile' = job[h].data
  /\ Done(h)
  /\ UNCHANGED <<up, memory, archives, sessions, overlap, failed, requests, crashes>>

\* A write returns an error: 500 at once, or after the memory was put back.
WriteFails(h) ==
  /\ WriteMayFail
  /\ \/ At(h, "archive") /\ Done(h)
     \/ At(h, "rename") /\ Goto(h, "rollback")
  /\ failed' = TRUE
  /\ UNCHANGED <<up, memory, disk, sessions, overlap, requests, crashes>>

\* The same once the new file has its name: its mode is set after the rename.
ArchiveModeFails(h) ==
  /\ WriteMayFail /\ At(h, "archive") /\ Done(h)
  /\ archives' = [archives EXCEPT ![Managed(job[h].id)] = job[h].content]
  /\ failed' = TRUE
  /\ UNCHANGED <<up, memory, eventFile, sessions, overlap, requests, crashes>>

EventModeFails(h) ==
  /\ WriteMayFail /\ At(h, "rename") /\ Goto(h, "rollback")
  /\ eventFile' = job[h].data
  /\ failed' = TRUE
  /\ UNCHANGED <<up, memory, archives, sessions, overlap, requests, crashes>>

\* The entries of the two maps are restored, and the slice, not its array.
Rollback(h) ==
  LET id == job[h].id
  IN /\ At(h, "rollback")
     /\ packages' = [packages EXCEPT ![id] = job[h].oldPackage]
     /\ source' = [source EXCEPT ![id] = job[h].oldSource]
     /\ event' = job[h].oldEvent
     /\ Done(h)
     /\ UNCHANGED <<up, arrays, disk, sessions, overlap, failed, requests, crashes>>

\* createSession: the team's package is one of the map's, by a hash.  A
\* session is calm if no request was under way and none went wrong before.
CreateSession(id) ==
  /\ up /\ Cardinality(sessions) < MaxSessions
  /\ packages[id] # None
  /\ sessions' = sessions \union
       {[scenario |-> id, made |-> packages[id], runs |-> packages[id],
         calm |-> Busy = {} /\ ~overlap /\ ~failed]}
  /\ UNCHANGED <<up, memory, disk, job, overlap, failed, requests, crashes>>

Crash ==
  /\ up /\ crashes < MaxCrashes
  /\ up' = FALSE
  /\ crashes' = crashes + 1
  /\ job' = [h \in Handlers |-> Idle]
  /\ UNCHANGED <<memory, disk, sessions, overlap, failed, requests>>

\* Recover finds the scenario of every stored session.
Startable ==
  /\ Loads(eventFile)
  /\ \A s \in sessions : Loaded(eventFile)[s.scenario] # None

\* serve: LoadEvent, LoadScenario, server.New, Recover.  The evidence of a
\* session is replayed on the package that was loaded.
Serve ==
  /\ ~up /\ Startable
  /\ up' = TRUE
  /\ packages' = Loaded(eventFile)
  /\ source' = [id \in Ids |-> LastOf(eventFile, id)]
  /\ arrays' = <<[cells |-> eventFile, cap |-> Len(eventFile)]>>
  /\ event' = [array |-> 1, len |-> Len(eventFile)]
  /\ sessions' = {[s EXCEPT !.runs = packages'[s.scenario]] : s \in sessions}
  /\ overlap' = FALSE /\ failed' = ~OneEach(eventFile)
  /\ UNCHANGED <<disk, job, requests, crashes>>

Next ==
  \/ \E h \in Handlers :
       \/ \E id \in Ids : \/ CreateScenario(h, id) \/ EditSource(h, id)
                          \/ EditFiles(h, id) \/ RemoveScenario(h, id)
       \/ Window(h) \/ Exists(h) \/ WriteArchive(h) \/ Install(h) \/ Detach(h)
       \/ Marshal(h) \/ Rename(h) \/ Rollback(h)
       \/ WriteFails(h) \/ ArchiveModeFails(h) \/ EventModeFails(h)
  \/ \E id \in Ids : CreateSession(id)
  \/ Crash \/ Serve

Spec == Init /\ [][Next]_vars

-----------------------------------------------------------------------------
\* Properties

Quiet == up /\ Busy = {} /\ ~overlap /\ ~failed

\* What a restart would serve is what is served, whenever no request is under
\* way and since the start no two requests overlapped and no write failed
\* (saveManagedScenario and removeScenario against serve).
RestartServesSame == Quiet => packages = Loaded(eventFile)

\* The archive is on disk before any event file names it, whatever races,
\* fails or crashes; and unless a write failed, the event file that racing
\* requests leave is one LoadEvent accepts, no package being listed twice.
EventFileServes ==
  /\ \A i \in DOMAIN eventFile : archives[eventFile[i].package] # None
  /\ ~failed => ValidEvent(eventFile)

\* The event file always passes the loader (ValidateEvent).
EventFileAlwaysLoads == ValidEvent(eventFile)

\* A session that was started in a calm moment has the package it was started
\* from for as long as it lives, restarts included, and never keeps the server
\* from starting.
CalmSessionRecovers ==
  /\ \A s \in sessions : s.calm => s.runs = s.made
  /\ sessions # {} /\ (\A s \in sessions : s.calm) => Startable

\* README: scenario changes are locked once sessions exist.
PackagesLocked == \A s \in sessions : s.runs = s.made

\* Once a session exists no request gets past its last window test, and only
\* those already past it still change a package, a reference or a file.
Committed == {h \in Handlers : job[h].pc \in {"archive", "install", "detach", "marshal",
                                              "rename", "rollback"}}
LockedAfterSessions ==
  [][up /\ up' /\ sessions # {} =>
       /\ Committed' \subseteq Committed
       /\ Committed = {} => UNCHANGED <<memory, disk>>]_vars
=============================================================================
