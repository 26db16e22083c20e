---------------------------- MODULE MCFrontDoor ----------------------------
\* What a participant's input passes before a session acts on it, and what
\* shares no state: the credentials and tokens, the rate limiter, the frames of
\* the terminal, the reading of a line.  A behaviour is one of the part in focus.
EXTENDS Access, RateLimiter, TerminalProtocol, ShellParser, TLC

VARIABLE focus

FrontInit ==
  /\ focus \in {"access", "rate", "terminal", "line"}
  /\ Init /\ RateInit /\ TerminalInit /\ LineInit
  /\ focus # "access" => \A k \in DOMAIN disk : ~disk[k].legacy

FrontNext ==
  /\ UNCHANGED focus
  /\ \/ focus = "access"   /\ Next         /\ UNCHANGED <<rateVars, terminalVars, lineVars>>
     \/ focus = "rate"     /\ RateNext     /\ UNCHANGED <<vars, terminalVars, lineVars>>
     \/ focus = "terminal" /\ TerminalNext /\ UNCHANGED <<vars, rateVars, lineVars>>
     \/ focus = "line"     /\ LineNext     /\ UNCHANGED <<vars, rateVars, terminalVars>>

FrontDoor == FrontInit /\ [][FrontNext]_<<focus, vars, rateVars, terminalVars, lineVars>>
FrontSymmetry == Permutations(Handlers) \union Permutations(Terminals)

\* The limits of the classes "auth" and "general", small.
SmallLimits == [k \in Keys |-> IF k = "a|general" THEN 2 ELSE 1]

\* What is written: a letter and the digit that is part of an operator, quoted
\* also a blank and what could be an operator; of the connectors ; and && are
\* left to the proof, and < and >> of the redirections.
TwoLetters == {"a", "2"}
FourQuotable == {"a", "2", "|", " "}
FiveOperators == {Pipe, <<"|", "|">>, <<">">>, <<"2", ">">>, OutErr}

\* The variables of all keep their types.
TypesOK == TypeOK /\ RateTypeOK /\ TerminalTypeOK /\ LineTypeOK
=============================================================================
