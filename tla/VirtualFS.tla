------------------------------ MODULE VirtualFS ------------------------------
(***************************************************************************)
(* The virtual filesystem of a lab host (system/state.go) and the commands *)
(* that change it (command/command.go).                                    *)
(*                                                                         *)
(* A path is the sequence of its names, <<>> being "/"; fs is the map      *)
(* Files from paths to entries.  Nothing makes fs a tree: entries are      *)
(* found by comparing paths.  Names are numbers because a directory is     *)
(* copied in the order of its paths.  The content of a file is the set of  *)
(* the lines it holds.  Modes lose their x bits, which the code never      *)
(* tests, and writing does not ask whether the entry is a directory.  One  *)
(* command line is one step: the session holds its mutex throughout.       *)
(***************************************************************************)
EXTENDS Loops, Integers, Sequences, SequencesExt, FiniteSetsExt

CONSTANTS
  Paths,        \* the paths explored, closed under parent (bound)
  Operands,     \* the path arguments, absolute or relative to cwd
  OperandLists, \* the operand lists of commands that take several (bound)
  Trees,        \* the initial maps Files
  Accounts,     \* the participant's Groups with the host's SudoRules
  Modes,        \* the modes chmod is given
  User,         \* the participant's account
  NewUser,      \* the account useradd may create
  NewHome,      \* its home
  Dotfiles,     \* the files useradd puts there
  Passwd,       \* the path of /etc/passwd
  Secret,       \* a line only root may read
  MaxCommands   \* command lines run (bound)

Root == "root"
Up == 0
RW == {"ur", "uw", "gr", "or"}          \* 0644 and 0755
HomeMode == RW \ {"or"}                \* 0750

Entry == [owner : {User, Root, NewUser}, group : STRING, mode : Modes \union {RW, HomeMode, {"ur", "uw"}},
          dir : BOOLEAN, content : SUBSET STRING]

(* The secret is in files that are not the participant's and that only     *)
(* their owner may read.                                                   *)
ASSUME FilesAssumption ==
  /\ Paths \subseteq Seq(Nat) /\ IsFiniteSet(Paths)
  /\ Operands \subseteq [abs : BOOLEAN, steps : Seq(Nat)] /\ OperandLists \subseteq Seq(Operands)
  /\ NewHome \in Seq(Nat) \ {<<>>} /\ Dotfiles \subseteq Seq(Nat) \ {<<>>} /\ Passwd \in Seq(Nat)
  /\ {User, NewUser, Root, "wheel"} \subseteq STRING /\ Root \notin {User, NewUser} /\ NewUser # User
  /\ MaxCommands \in Nat
  /\ \A a \in Accounts : a.groups \in Seq(STRING)
  /\ \A t \in Trees :
       /\ t \in [DOMAIN t -> Entry] /\ DOMAIN t \subseteq Paths
       /\ <<>> \in DOMAIN t /\ t[<<>>].dir
       /\ \A p \in DOMAIN t :
            Secret \in t[p].content => t[p].owner # User /\ t[p].mode \subseteq {"ur", "uw"}

VARIABLES
  fs,      \* State.Files
  users,   \* State.Users: the Groups of every account
  cwd,     \* State.CWD
  sudoers, \* State.SudoRules, which no command changes
  sudoed,  \* whether a command has run under sudo
  last     \* the last command: its user; of a transfer that was
           \* not just refused also verb, arguments and success

filesVars == <<fs, users, cwd, sudoers, sudoed, last>>

NoEntry == [owner |-> "", group |-> "", mode |-> {}, dir |-> FALSE, content |-> {}]
NewFile(u, g, lines) == [owner |-> u, group |-> g, mode |-> RW, dir |-> FALSE, content |-> lines]
NewDir(u, g) == [owner |-> u, group |-> g, mode |-> RW, dir |-> TRUE, content |-> {}]
NewHomeDir(u) == [NewDir(u, u) EXCEPT !.mode = HomeMode]

ParentOf(p) == IF p = <<>> THEN p ELSE Front(p)
Under(p, q) == IsPrefix(q, p)           \* p is q or lies below it
Below(p, q) == IsStrictPrefix(q, p)
Subtree(f, q) == {p \in DOMAIN f : Under(p, q)}
EntryAt(f, p) == IF p \in DOMAIN f THEN f[p] ELSE NoEntry
Put(f, p, e) == [q \in DOMAIN f \union {p} |-> IF q = p THEN e ELSE f[q]]
Drop(f, S) == [q \in DOMAIN f \ S |-> f[q]]

(* path.Clean(path.Join(cwd, input)): ".." at the root stays there. *)
NormalizePath(o) ==
  Over(LAMBDA p, name : IF name = Up THEN ParentOf(p) ELSE Append(p, name),
       IF o.abs THEN <<>> ELSE cwd, o.steps)

Permitted(e, u, owner, group, other) ==
  \/ u = Root
  \/ /\ u \in DOMAIN users
     /\ LET class == IF e.owner = u THEN owner
                     ELSE IF e.group \in ToSet(users[u]) THEN group ELSE other
        IN class \in e.mode
CanRead(e, u) == Permitted(e, u, "ur", "gr", "or")
CanWrite(e, u) == Permitted(e, u, "uw", "gw", "ow")
PrimaryGroup(u) == IF u \in DOMAIN users /\ users[u] # <<>> THEN users[u][1] ELSE u

SudoAllowed(verb) ==
  IF sudoers = {} THEN "wheel" \in ToSet(users[User])
  ELSE \E rule \in sudoers :
         /\ IF rule.isGroup THEN rule.subject \in ToSet(users[User]) ELSE rule.subject = User
         /\ rule.commands \intersect {"ALL", verb} # {}

-----------------------------------------------------------------------------
(* The operations of State: what they make of Files, and whether they      *)
(* succeed.                                                                *)

Result(f, ok) == [fs |-> f, ok |-> ok]

EnsureParents(f, p) ==
  LET missing == {q \in {SubSeq(p, 1, i) : i \in 1 .. Len(p) - 1} : q \notin DOMAIN f}
  IN [q \in DOMAIN f \union missing |-> IF q \in missing THEN NewDir(Root, Root) ELSE f[q]]

\* Reading tests nothing.
ReadFileAny(f, p, u) == IF p \in DOMAIN f /\ ~f[p].dir THEN {f[p].content} ELSE {}

ReadFile(f, p, u) ==
  IF p \in DOMAIN f /\ ~f[p].dir /\ CanRead(f[p], u) THEN {f[p].content} ELSE {}

WriteFile(f, p, lines, u, append) ==
  IF p \in DOMAIN f
  THEN IF CanWrite(f[p], u)
       THEN Result([f EXCEPT ![p].content = IF append THEN f[p].content \union lines ELSE lines], TRUE)
       ELSE Result(f, FALSE)
  ELSE LET g == EnsureParents(f, p)
       IN IF CanWrite(EntryAt(g, ParentOf(p)), u)
          THEN Result(Put(g, p, NewFile(u, PrimaryGroup(u), lines)), TRUE)
          ELSE Result(g, FALSE)

Touch(f, p, u) ==
  IF p \in DOMAIN f THEN Result(f, TRUE) ELSE WriteFile(f, p, {}, u, FALSE)

MakeDir(f, p, u) ==
  IF p \notin DOMAIN f /\ CanWrite(EntryAt(f, ParentOf(p)), u)
  THEN Result(Put(f, p, NewDir(u, PrimaryGroup(u))), TRUE)
  ELSE Result(f, FALSE)

MakePart(acc, q, u) ==
  IF ~acc.ok THEN acc
  ELSE IF q \in DOMAIN acc.fs THEN Result(acc.fs, acc.fs[q].dir)
  ELSE MakeDir(acc.fs, q, u)
MakeDirAll(f, p, u) ==
  IF p \in DOMAIN f THEN Result(f, f[p].dir)
  ELSE Over(LAMBDA acc, q : MakePart(acc, q, u), Result(f, TRUE),
            [i \in 1 .. Len(p) |-> SubSeq(p, 1, i)])

\* "/" is removed like any directory.
RemoveAnything(f, p, u) ==
  IF p \in DOMAIN f /\ CanWrite(EntryAt(f, ParentOf(p)), u)
  THEN Result(Drop(f, IF f[p].dir THEN Subtree(f, p) ELSE {p}), TRUE)
  ELSE Result(f, FALSE)

\* Who can read an entry may remove it.
RemoveReadable(f, p, u) ==
  IF p \in DOMAIN f /\ p # <<>> /\ (CanWrite(EntryAt(f, ParentOf(p)), u) \/ CanRead(f[p], u))
  THEN Result(Drop(f, IF f[p].dir THEN Subtree(f, p) ELSE {p}), TRUE)
  ELSE Result(f, FALSE)

RemoveEntry(f, p, u) ==
  IF p \in DOMAIN f /\ p # <<>> /\ CanWrite(EntryAt(f, ParentOf(p)), u)
  THEN Result(Drop(f, IF f[p].dir THEN Subtree(f, p) ELSE {p}), TRUE)
  ELSE Result(f, FALSE)

PathLess(p, q) ==
  \/ IsStrictPrefix(p, q)
  \/ \E i \in DOMAIN p \intersect DOMAIN q :
       p[i] < q[i] /\ SubSeq(p, 1, i - 1) = SubSeq(q, 1, i - 1)

Rebase(p, src, dst) == dst \o SubSeq(p, Len(src) + 1, Len(p))

(* An existing directory receives a child named after the source. *)
Target(f, src, dst) == IF EntryAt(f, dst).dir THEN Append(dst, Last(src)) ELSE dst

\* What lies below a directory stays behind.
CopyTop(f, src, dst) == Put(f, dst, f[src])

\* The paths of a set in their order, each at its rank.
Rank(S, p) == Cardinality({q \in S : PathLess(q, p)})
Sorted(S) == [i \in 1 .. Cardinality(S) |-> CHOOSE p \in S : Rank(S, p) = i - 1]

CopyTree(f, src, dst) ==
  Over(LAMBDA g, p : Put(g, Rebase(p, src, dst), g[p]), f, Sorted(Subtree(f, src)))

(* CopyRecursive; the tests come in the order of the code, the parents are *)
(* made between them, and mv never tests the directory it takes from.      *)
CopyRecursive(f, src, to, u, move, recursive) ==
  IF \/ src \notin DOMAIN f \/ src = <<>>
     \/ f[src].dir /\ ~move /\ ~recursive
     \/ ~CanRead(f[src], u)
  THEN Result(f, FALSE)
  ELSE LET dst == Target(f, src, to)
           g == EnsureParents(f, dst)
           copied == IF f[src].dir THEN CopyTree(g, src, dst) ELSE Put(g, dst, f[src])
       IN IF dst = src \/ (f[src].dir /\ Below(dst, src)) THEN Result(f, FALSE)
          ELSE IF \/ ~CanWrite(EntryAt(g, ParentOf(dst)), u)
                  \/ dst \in DOMAIN g /\ ~CanWrite(g[dst], u)
          THEN Result(g, FALSE)
          ELSE Result(IF move THEN Drop(copied, Subtree(copied, src)) ELSE copied, TRUE)

Chmod(f, p, mode, u) ==
  IF p \in DOMAIN f /\ (u = Root \/ f[p].owner = u)
  THEN Result([f EXCEPT ![p].mode = mode], TRUE) ELSE Result(f, FALSE)

Chown(f, p, owner, group, u) ==
  IF u = Root /\ p \in DOMAIN f
  THEN Result([f EXCEPT ![p] = [f[p] EXCEPT !.owner = owner,
                                            !.group = IF group = "" THEN f[p].group ELSE group]], TRUE)
  ELSE Result(f, FALSE)

(* useradd writes the home and its files over what is there, parents or    *)
(* not, and /etc/passwd lists the accounts if it exists.                   *)
SyncIdentity(f, names) ==
  IF Passwd \in DOMAIN f THEN [f EXCEPT ![Passwd].content = names] ELSE f
AddUser(f, name) ==
  LET home == Put(f, NewHome, NewHomeDir(name))
      filled == [p \in DOMAIN home \union Dotfiles |->
                  IF p \in Dotfiles THEN NewFile(name, name, {}) ELSE home[p]]
  IN SyncIdentity(filled, DOMAIN users \union {name})

-----------------------------------------------------------------------------
(* The commands.  A command runs as the participant, or as root under sudo *)
(* when sudo admits its name; several operands are taken in turn, up to    *)
(* the first that fails.                                                   *)

RunsAs(verb) == {User} \union (IF SudoAllowed(verb) THEN {Root} ELSE {})

RemoveOperand(f, p, u, recursive, force) ==
  IF p \notin DOMAIN f THEN Result(f, force)
  ELSE IF f[p].dir /\ ~recursive THEN Result(f, FALSE)
  ELSE RemoveEntry(f, p, u)

\* What a command makes of one operand; u is who runs it.
Operand(c, f, p, u) ==
  CASE c.verb = "tee"   -> WriteFile(f, p, c.lines, u, FALSE)
    [] c.verb = "touch" -> Touch(f, p, u)
    [] c.verb = "mkdir" -> IF c.parents THEN MakeDirAll(f, p, u) ELSE MakeDir(f, p, u)
    [] c.verb = "rm"    -> RemoveOperand(f, p, u, c.recursive, c.force)
    [] c.verb = "chmod" -> Chmod(f, p, c.mode, u)
    [] c.verb = "chown" -> Chown(f, p, c.owner, c.group, u)

Each(c, f, list, u) ==
  Over(LAMBDA acc, o : IF acc.ok THEN Operand(c, acc.fs, NormalizePath(o), u) ELSE acc,
       Result(f, TRUE), list)

Ran(verb, u, args, r) ==
  /\ last.n < MaxCommands
  /\ DOMAIN r.fs \subseteq Paths
  /\ fs' = r.fs
  /\ last' = IF verb \in {"cp", "mv"} /\ (r.ok \/ r.fs # fs)
             THEN [n |-> last.n + 1, verb |-> verb, user |-> u, args |-> args, ok |-> r.ok]
             ELSE [n |-> last.n + 1, verb |-> "", user |-> u, args |-> <<>>, ok |-> TRUE]
  /\ UNCHANGED sudoers

OnFiles(verb, u, args, r) ==
  /\ Ran(verb, u, args, r)
  /\ sudoed' = (sudoed \/ u = Root)
  /\ UNCHANGED <<users, cwd>>

\* A command that takes its operands in turn.
TakesOperands(c) ==
  \E u \in RunsAs(c.verb), list \in OperandLists : OnFiles(c.verb, u, <<>>, Each(c, fs, list, u))

Readable(u) == UNION {ReadFile(fs, p, u) : p \in DOMAIN fs}

(* cat FILE | tee FILE..., and cat FILE > FILE or >> FILE: the redirection *)
(* is the participant's even when the cat is root's.                       *)
Tee == \E lines \in {{}} \union Readable(User) : TakesOperands([verb |-> "tee", lines |-> lines])
Redirect == \E reader \in RunsAs("cat"), o \in Operands, append \in BOOLEAN :
         \E lines \in Readable(reader) :
           /\ Ran("redirect", User, <<>>, WriteFile(fs, NormalizePath(o), lines, User, append))
           /\ sudoed' = (sudoed \/ reader = Root)
           /\ UNCHANGED <<users, cwd>>
RunTouch == TakesOperands([verb |-> "touch"])
Mkdir == \E parents \in BOOLEAN : TakesOperands([verb |-> "mkdir", parents |-> parents])
RM == \E recursive, force \in BOOLEAN :
         TakesOperands([verb |-> "rm", recursive |-> recursive, force |-> force])
Rmdir == \E u \in RunsAs("rmdir"), o \in Operands :
         LET p == NormalizePath(o)
             empty == EntryAt(fs, p).dir /\ ~\E q \in DOMAIN fs : Below(q, p) /\ ParentOf(q) = p
         IN OnFiles("rmdir", u, <<>>, IF empty THEN RemoveEntry(fs, p, u) ELSE Result(fs, FALSE))

CP == \E u \in RunsAs("cp"), from, to \in Operands, recursive \in BOOLEAN :
         LET src == NormalizePath(from)
             dst == NormalizePath(to)
         IN OnFiles("cp", u, <<src, dst>>, CopyRecursive(fs, src, dst, u, FALSE, recursive))
MV == \E u \in RunsAs("mv"), from, to \in Operands :
         LET src == NormalizePath(from)
             dst == NormalizePath(to)
         IN OnFiles("mv", u, <<src, dst>>, CopyRecursive(fs, src, dst, u, TRUE, TRUE))

RunChmod == \E mode \in Modes : TakesOperands([verb |-> "chmod", mode |-> mode])
RunChown == \E owner \in {User, Root}, group \in {"", User} :
         TakesOperands([verb |-> "chown", owner |-> owner, group |-> group])

CD == \E o \in Operands :
         LET p == NormalizePath(o) IN
         /\ EntryAt(fs, p).dir
         /\ cwd' = p
         /\ Ran("cd", User, <<>>, Result(fs, TRUE))
         /\ UNCHANGED <<users, sudoed>>

Useradd == /\ Root \in RunsAs("useradd")
           /\ NewUser \notin DOMAIN users
           /\ Ran("useradd", Root, <<>>, Result(AddUser(fs, NewUser), TRUE))
           /\ users' = [v \in DOMAIN users \union {NewUser} |-> IF v = NewUser THEN <<NewUser>> ELSE users[v]]
           /\ sudoed' = TRUE
           /\ UNCHANGED cwd
Usermod == \E v \in DOMAIN users :
           /\ Root \in RunsAs("usermod")
           /\ "wheel" \notin ToSet(users[v])
           /\ Ran("usermod", Root, <<>>, Result(SyncIdentity(fs, DOMAIN users), TRUE))
           /\ users' = [users EXCEPT ![v] = Append(@, "wheel")]
           /\ sudoed' = TRUE
           /\ UNCHANGED cwd

FilesInit ==
  /\ fs \in Trees
  /\ \E a \in Accounts :
       /\ users = [v \in {User, Root} |-> IF v = User THEN a.groups ELSE <<Root>>]
       /\ sudoers = a.sudoers
  /\ cwd \in {p \in DOMAIN fs : fs[p].dir /\ fs[p].owner = User}
  /\ sudoed = FALSE
  /\ last = [n |-> 0, verb |-> "", user |-> User, args |-> <<>>, ok |-> TRUE]

FilesNext ==
  \/ Tee \/ Redirect \/ RunTouch \/ Mkdir \/ RM \/ Rmdir \/ CP \/ MV
  \/ RunChmod \/ RunChown \/ CD \/ Useradd \/ Usermod

FilesSpec == FilesInit /\ [][FilesNext]_filesVars

-----------------------------------------------------------------------------

(* Entries, accounts and the working directory keep their shape, and the   *)
(* root of the tree is never removed.                                      *)
FilesTypeOK ==
  /\ fs \in [DOMAIN fs -> Entry] /\ DOMAIN fs \subseteq Paths
  /\ <<>> \in DOMAIN fs /\ fs[<<>>].dir
  /\ users \in [DOMAIN users -> Seq(STRING)]
  /\ {User, Root} \subseteq DOMAIN users /\ DOMAIN users \subseteq {User, Root, NewUser}
  /\ cwd \in Paths
  /\ last.n \in 0 .. MaxCommands

(* As long as nothing has run under sudo, a line that only root could read *)
(* stays out of every file the participant can read: copying, moving,      *)
(* appending and changing modes in any order do not bring it out.          *)
SecretKept ==
  ~sudoed => \A p \in DOMAIN fs : Secret \in fs[p].content => ~CanRead(fs[p], User)

(* What a command does without sudo is confined: an entry it creates,      *)
(* changes or removes is a new parent directory of root's, or belongs to   *)
(* the participant, or lies in or under something he could write; only mv  *)
(* also takes what he can read.                                            *)
Confined == [][
  (last'.n > last.n /\ last'.user = User) =>
    \A p \in DOMAIN fs \union DOMAIN fs' :
      EntryAt(fs, p) # EntryAt(fs', p) =>
        \/ p \notin DOMAIN fs /\ fs'[p] = NewDir(Root, Root)
        \/ EntryAt(fs, p).owner = User
        \/ \E q \in DOMAIN fs : Under(p, q) /\ CanWrite(fs[q], User)
        \/ last'.verb = "mv" /\ Under(p, last'.args[1]) /\ CanRead(fs[last'.args[1]], User) ]_filesVars

(* A transfer between unrelated places is exact: everything at and below   *)
(* the source arrives as it was, stays after cp and is gone after mv, and  *)
(* outside the two only missing parents appear.  (A plain file may have    *)
(* entries below it: cp puts one over a directory, touch f f/g makes one.) *)
TransferExact == [][
  (last'.n > last.n /\ last'.verb \in {"cp", "mv"} /\ last'.ok) =>
    LET src == last'.args[1]
        dst == Target(fs, src, last'.args[2])
    IN (~Under(src, dst) /\ ~Under(dst, src) /\ (fs[src].dir \/ Subtree(fs, src) = {src})) =>
         /\ \A p \in Subtree(fs, src) :
              /\ EntryAt(fs', Rebase(p, src, dst)) = fs[p]
              /\ IF last'.verb = "cp" THEN EntryAt(fs', p) = fs[p] ELSE p \notin DOMAIN fs'
         /\ \A p \in DOMAIN fs \union DOMAIN fs' :
              ~Under(p, src) /\ ~Under(p, dst) /\ EntryAt(fs, p) # EntryAt(fs', p) =>
                p \notin DOMAIN fs /\ fs'[p] = NewDir(Root, Root) ]_filesVars

(* state.go:497 calls the operation the safe equivalent of mv: an entry    *)
(* that was moved is where it was moved to.  The code deletes everything   *)
(* below the source afterwards, which a plain file's new place may be.     *)
MovedIsThere == [][
  (last'.n > last.n /\ last'.verb = "mv" /\ last'.ok) =>
    EntryAt(fs', Target(fs, last'.args[1], last'.args[2])) = fs[last'.args[1]] ]_filesVars

=============================================================================
