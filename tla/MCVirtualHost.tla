--------------------------- MODULE MCVirtualHost ---------------------------
\* One participant with one request at a time, as ADR 0002 describes: the files
\* of his lab host, its services with rules, score and replay, and what the
\* server keeps of his session.  The parts share no state, a behaviour is one
\* of them.
EXTENDS SessionStore, LabSession, VirtualFS, TLC

VARIABLE focus

-----------------------------------------------------------------------------
\* /1 is the participant's home, /2 root's /etc with a secret file, /2/2 is
\* /etc/passwd and /3 the home useradd makes.
HostPaths == {<<>>, <<1>>, <<1, 1>>, <<1, 1, 1>>, <<1, 2>>, <<1, 2, 1>>,
              <<2>>, <<2, 1>>, <<2, 1, 1>>, <<2, 2>>, <<3>>, <<3, 1>>}
Abs(p) == [abs |-> TRUE, steps |-> p]
HostOperands == {Abs(p) : p \in HostPaths \ {<<3, 1>>, <<2, 1, 1>>}} \union {[abs |-> FALSE, steps |-> <<0, 2>>]}
HostOperandLists ==
  {<<o>> : o \in Operands} \union {<<Abs(<<1, 1>>), Abs(<<2, 1>>)>>, <<Abs(<<2, 2>>), Abs(<<1, 2>>)>>}

ThirdHome == <<3>>
OneDotfile == {<<3, 1>>}
EtcPasswd == <<2, 2>>

File(u, g, mode, line) == [owner |-> u, group |-> g, mode |-> mode, dir |-> FALSE, content |-> line]
Dir(u, g) == [File(u, g, {"ur", "uw", "gr", "or"}, {}) EXCEPT !.dir = TRUE]
Private == {"ur", "uw"}
Shared == {"ur", "uw", "gr", "gw"}
Plain == {"ur", "uw", "gr", "or"}
HostModes == {Shared, {}}
Base ==
  (<<>> :> Dir(Root, Root)) @@ (<<1>> :> Dir(User, User)) @@ (<<2>> :> Dir(Root, Root))
    @@ (<<2, 2>> :> File(Root, Root, Plain, {Root, User}))
    @@ (<<2, 1>> :> File(Root, Root, Private, {"secret"}))
HostTrees == {
  Base @@ (<<1, 1>> :> Dir(User, User)) @@ (<<1, 1, 1>> :> File(User, User, Plain, {"a"})),
  \* a directory of root's with a secret inside the participant's home
  Base @@ (<<1, 1>> :> Dir(Root, "staff"))
       @@ (<<1, 1, 1>> :> File(Root, "staff", Private, {"secret"}))
       @@ (<<1, 2>> :> File(User, "staff", Shared, {"a"})) }
Account(g, rules) == [groups |-> g, sudoers |-> rules]
HostAccounts == {Account(<<User>>, {}), Account(<<"staff">>, {}), Account(<<"wheel">>, {}),
  Account(<<"staff">>, {[isGroup |-> TRUE, subject |-> "staff", commands |-> {"chown", "mkdir"}]})}

-----------------------------------------------------------------------------
\* Three units, the second is the web server, and packages shaped like the
\* core scenario broken-httpd.
Is(state, enabled) == [state |-> state, enabled |-> enabled]
All(cs) == [op |-> "all", of |-> cs]
WebUp == [type |-> "serviceRunning", name |-> 2]
Allowed == [type |-> "firewallAllowed"]
ModeIn(v) == [type |-> "selinuxModeIn", values |-> v]
Broken == [
  services |-> <<Is("running", TRUE), Is("failed", TRUE), Is("running", TRUE)>>,
  conditions |-> <<{}, {[type |-> "fileContains"], ModeIn({"enforcing", "permissive"})}, {WebUp}>>,
  web |-> FALSE, zone |-> TRUE, conf |-> FALSE, selinux |-> "enforcing",
  when |-> All({WebUp, Allowed}),
  objectives |-> <<[points |-> 25, checks |-> All({WebUp})],
                   [points |-> 25, checks |-> All({[type |-> "httpStatus", status |-> 200]})],
                   [points |-> 15, checks |-> All({ModeIn({"enforcing"})})]>>,
  guardrails |-> <<[points |-> -10, when |-> [op |-> "any", of |-> {[type |-> "serviceDisabled", name |-> 1]}]],
                   [points |-> -15, when |-> [op |-> "not", of |-> {ModeIn({"enforcing"})}]]>>,
  hints |-> <<[cost |-> 3, after |-> 0], [cost |-> 5, after |-> 2]>>]
Published == [Broken EXCEPT !.services[2] = Is("running", TRUE), !.conf = TRUE, !.web = TRUE]

ThreeUnits == 1 .. 3
TwoPackages == {Broken, Published}

St(o, c) == [op |-> o, cmd |-> c]
Start(us) == [kind |-> "systemctl", verb |-> "start", units |-> us, root |-> TRUE]
Fix == [kind |-> "edit", good |-> TRUE, root |-> TRUE]
Reset == [kind |-> "reset"]
FourCompounds == {
  [parsed |-> TRUE, statements |-> <<St("", Fix), St("&&", Start(<<2>>)), St("&&", [kind |-> "firewall", root |-> TRUE])>>],
  [parsed |-> TRUE, statements |-> <<St("", Start(<<1, 2, 3>>)), St("||", Fix), St(";", Reset)>>],
  [parsed |-> TRUE, statements |-> <<St("", Reset), St(";", [kind |-> "hint", id |-> 1])>>],
  [parsed |-> TRUE, statements |-> <<St("", [kind |-> "kill", pids |-> <<100, 101>>, root |-> TRUE])>>]}

-----------------------------------------------------------------------------
HostInit ==
  /\ focus \in {"files", "lab", "session"} /\ FilesInit /\ LabInit /\ Init
  /\ focus # "lab" => pkg = Broken
  /\ focus # "files" => /\ cwd = <<1>> /\ users[User] = <<User>> /\ sudoers = {}
                        /\ <<1, 2>> \notin DOMAIN fs

\* The bound on lines is repeated: here TLC tests it before it enumerates them.
HostNext ==
  /\ UNCHANGED focus
  /\ \/ focus = "files" /\ last.n < MaxCommands /\ FilesNext /\ UNCHANGED <<labVars, vars>>
     \/ focus = "lab" /\ LabNext /\ UNCHANGED <<filesVars, vars>>
     \/ focus = "session" /\ Next /\ UNCHANGED <<filesVars, labVars>>

Host == HostInit /\ [][HostNext]_<<focus, filesVars, labVars, vars>>

\* The variables of all keep their types.
TypesOK == CASE focus = "files" -> FilesTypeOK [] focus = "lab" -> LabTypeOK [] focus = "session" -> TypeOK
=============================================================================
