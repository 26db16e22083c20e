---------------------------- MODULE ShellParser ----------------------------
(***************************************************************************)
(* How a command line is read (shell/parser.go).  The participant writes a *)
(* line piece by piece: a letter, bare or quoted in one of the ways the    *)
(* shell knows, a blank, an operator.  The lexer takes the runes of each   *)
(* piece; beside it "meant" records what the piece says, so that the two   *)
(* can be compared.  The parser works on what the line is so far.          *)
(*                                                                         *)
(* A token is the sequence of its runes.                                   *)
(***************************************************************************)
EXTENDS Loops, Integers, Sequences

CONSTANTS
  Letters,    \* the runes a participant writes bare
  Quotable,   \* those he writes quoted
  Operators,  \* the operators he uses
  MaxPieces   \* the length of a line (bound)

VARIABLES
  lexer,      \* the variables of lex
  meant,      \* the words and operators of the line, as written
  tail,       \* whether the next letter continues a word, starts one, or may not follow
  unfinished, \* the line ends inside a quote or after a backslash
  pieces

lineVars == <<lexer, meant, tail, unfinished, pieces>>

Single == "'"
Double == "\""
Backslash == "\\"
Punctuation == {"|", ";", ">", "<", "&"}

Pipe == <<"|">>
Connectors == {<<";">>, <<"&", "&">>, <<"|", "|">>}
OutErr == <<"2", ">", "&", "1">>
Redirectors == {<<">">>, <<">", ">">>, <<"<">>, <<"2", ">">>, OutErr}
Special == {Pipe} \union Connectors \union Redirectors

\* A letter is no rune the lexer knows, and what is quoted is no quote.
ASSUME LineAssumption ==
  /\ Letters \intersect (Punctuation \union {Single, Double, Backslash, " "}) = {}
  /\ Quotable \intersect {Single, Double, Backslash} = {}
  /\ Operators \subseteq Special
  /\ MaxPieces \in Nat

-----------------------------------------------------------------------------
(* lex                                                                     *)

Fresh == [out |-> <<>>, word |-> <<>>, started |-> FALSE, quote |-> "", escaped |-> FALSE]

Flush(x) ==
  IF x.started THEN [x EXCEPT !.out = Append(@, x.word), !.word = <<>>, !.started = FALSE] ELSE x

WriteRune(x, r) == [x EXCEPT !.word = Append(@, r), !.started = TRUE, !.escaped = FALSE]

LexRune(x, r) ==
  CASE x.escaped -> WriteRune(x, r)
    [] ~x.escaped /\ x.quote # "" ->
         IF r = x.quote THEN [x EXCEPT !.quote = ""]
         ELSE IF r = Backslash /\ x.quote = Double THEN [x EXCEPT !.escaped = TRUE]
         ELSE WriteRune(x, r)
    [] ~x.escaped /\ x.quote = "" ->
         IF r = Backslash THEN [x EXCEPT !.escaped = TRUE, !.started = TRUE]
         ELSE IF r \in {Single, Double} THEN [x EXCEPT !.quote = r, !.started = TRUE]
         ELSE IF r = " " THEN Flush(x)
         ELSE IF r \in Punctuation THEN [Flush(x) EXCEPT !.out = Append(@, <<r>>)]
         ELSE WriteRune(x, r)

Combined == {<<"|", "|">>, <<"&", "&">>, OutErr, <<"2", ">">>, <<">", ">">>}

Spells(tokens, i, op) ==
  i + Len(op) - 1 <= Len(tokens) /\ \A k \in DOMAIN op : tokens[i + k - 1] = <<op[k]>>

\* 2>&1 is tried before 2>; no other two begin alike.
Combines(tokens, i) ==
  {op \in Combined : Spells(tokens, i, op) /\ (op = <<"2", ">">> => ~Spells(tokens, i, OutErr))}

\* skip counts the tokens i is moved past.
Place(tokens, acc, i) ==
  IF acc.skip > 0 THEN [acc EXCEPT !.skip = @ - 1]
  ELSE IF Combines(tokens, i) = {} THEN [acc EXCEPT !.out = Append(@, tokens[i])]
  ELSE LET op == CHOOSE op \in Combines(tokens, i) : TRUE
       IN [out |-> Append(acc.out, op), skip |-> Len(op) - 1]
NormalizeOperators(tokens) ==
  Over(LAMBDA acc, i : Place(tokens, acc, i), [out |-> <<>>, skip |-> 0], [i \in 1 .. Len(tokens) |-> i]).out

LexRefuses == lexer.escaped \/ lexer.quote # ""
Tokens == NormalizeOperators(Flush(lexer).out)

-----------------------------------------------------------------------------
(* Parse: the variables of the function, fed with one token at a time.     *)
(* The redirection that waits for its target is the one i++ is about.      *)

Nothing == [statements |-> <<>>, previous |-> <<>>, commands |-> <<>>,
            words |-> <<>>, redirections |-> <<>>, redirection |-> <<>>, refused |-> FALSE]

\* A command leaves its redirections to the next.
FlushCommandLeaves(p) ==
  IF p.words = <<>> THEN [p EXCEPT !.refused = TRUE]
  ELSE [p EXCEPT !.commands = Append(@, [words |-> p.words, redirections |-> p.redirections]),
                 !.words = <<>>]

FlushCommand(p) ==
  IF p.words = <<>> THEN [p EXCEPT !.refused = TRUE]
  ELSE [p EXCEPT !.commands = Append(@, [words |-> p.words, redirections |-> p.redirections]),
                 !.words = <<>>, !.redirections = <<>>]

\* Redirections without a command stay for the next one.
FlushPipeline(p) ==
  LET q == IF p.words # <<>> THEN FlushCommand(p) ELSE p
  IN IF q.commands = <<>> THEN [q EXCEPT !.refused = TRUE]
     ELSE [q EXCEPT !.statements = Append(@, [previous |-> q.previous, commands |-> q.commands]),
                    !.commands = <<>>]

Take(p, t) ==
  IF p.refused THEN p
  ELSE IF p.redirection # <<>>
  THEN [p EXCEPT !.redirections = Append(@, [operator |-> p.redirection, target |-> t]),
                 !.redirection = <<>>]
  ELSE IF t = Pipe THEN FlushCommand(p)
  ELSE IF t \in Connectors THEN [FlushPipeline(p) EXCEPT !.previous = t]
  ELSE IF t \in Redirectors THEN [p EXCEPT !.redirection = t]
  ELSE [p EXCEPT !.words = Append(@, t)]

Parse(tokens) ==
  LET p == Over(Take, Nothing, tokens)
      q == IF p.words # <<>> \/ p.commands # <<>> THEN FlushPipeline(p) ELSE p
  IN [q EXCEPT !.refused = @ \/ p.redirection # <<>>]

-----------------------------------------------------------------------------
(* What a participant writes.                                              *)

Write(runes) ==
  /\ ~unfinished /\ pieces < MaxPieces
  /\ lexer' = Over(LexRune, lexer, runes)
  /\ pieces' = pieces + 1

Word(text) == [op |-> FALSE, text |-> text]
Says(runes) ==
  /\ tail # "sealed"
  /\ meant' = IF tail = "open" THEN [meant EXCEPT ![Len(meant)].text = @ \o runes]
                               ELSE Append(meant, Word(runes))
  /\ tail' = "open"
  /\ UNCHANGED unfinished

Letter(r) == Write(<<r>>) /\ Says(<<r>>)
Escaped(r) == Write(<<Backslash, r>>) /\ Says(<<r>>)
Quoted(r) == \E q \in {Single, Double} : Write(<<q, r, q>>) /\ Says(<<r>>)
EscapedQuote(r) == Write(<<Double, Backslash, r, Double>>) /\ Says(<<r>>)
EmptyQuote == \E q \in {Single, Double} : Write(<<q, q>>) /\ Says(<<>>)

Blank == Write(<<" ">>) /\ tail' = "start" /\ UNCHANGED <<meant, unfinished>>

\* A 2 that belongs to an operator follows no letter, and nothing follows 2>&1.
Operator(op) ==
  /\ op[1] = "2" => tail = "start"
  /\ Write(op)
  /\ meant' = Append(meant, [op |-> TRUE, text |-> op])
  /\ tail' = IF op = OutErr THEN "sealed" ELSE "start"
  /\ UNCHANGED unfinished

Cut(r) == Write(<<r>>) /\ unfinished' = TRUE /\ UNCHANGED <<meant, tail>>

LineInit == lexer = Fresh /\ meant = <<>> /\ tail = "start" /\ unfinished = FALSE /\ pieces = 0

LineNext ==
  \/ \E r \in Letters : Letter(r)
  \/ \E r \in Quotable : Escaped(r) \/ Quoted(r) \/ EscapedQuote(r)
  \/ EmptyQuote \/ Blank
  \/ \E op \in Operators : Operator(op)
  \/ \E r \in {Single, Double, Backslash} : Cut(r)

LineSpec == LineInit /\ [][LineNext]_lineVars

-----------------------------------------------------------------------------
LineTypeOK ==
  /\ lexer.quote \in {"", Single, Double} /\ lexer.escaped \in BOOLEAN
  /\ lexer.word # <<>> => lexer.started
  /\ \A i \in DOMAIN meant : meant[i].op => meant[i].text \in Operators
  /\ tail \in {"open", "start", "sealed"} /\ pieces \in 0 .. MaxPieces

\* A word that is spelled like an operator or half of one, a 2 before >, and
\* operators that run together are read otherwise than a shell would.
Plain ==
  /\ \A i \in DOMAIN meant : ~meant[i].op => meant[i].text \notin Special \union {<<"&">>}
  /\ \A i \in 1 .. Len(meant) - 1 : meant[i + 1].op =>
       <<meant[i].text, meant[i + 1].text[1]>> \notin {<<<<"2">>, ">">>, <<Pipe, "|">>, <<<<">">>, ">">>}

WordsAsMeant ==
  /\ LexRefuses <=> unfinished
  /\ Plain /\ ~unfinished => Tokens = [i \in DOMAIN meant |-> meant[i].text]

\* The grammar: segments between operators, each a word list with redirections.
Segment(op) == [op |-> op, words |-> <<>>, redirections |-> <<>>]
Put(acc, t) ==
  IF acc.wants # <<>>
  THEN [acc EXCEPT !.last.redirections = Append(@, [operator |-> acc.wants, target |-> t]), !.wants = <<>>]
  ELSE IF t \in Redirectors THEN [acc EXCEPT !.wants = t]
  ELSE IF t \in Connectors \union {Pipe} THEN [acc EXCEPT !.segs = Append(@, acc.last), !.last = Segment(t)]
  ELSE [acc EXCEPT !.last.words = Append(@, t)]
Segments(tokens) == Over(Put, [segs |-> <<>>, last |-> Segment(<<>>), wants |-> <<>>], tokens)

\* The commands of a line: a segment without words is none, and hands its
\* redirections to the next that is one.
Carry(acc, g) ==
  IF g.words = <<>> THEN [acc EXCEPT !.held = @ \o g.redirections]
  ELSE [list |-> Append(acc.list, [g EXCEPT !.redirections = acc.held \o @]), held |-> <<>>]
Carried(segs) == Over(Carry, [list |-> <<>>, held |-> <<>>], segs).list

\* The commands of a parsed line with what stands before each.
CommandsOf(st) == [j \in DOMAIN st.commands |->
  [op |-> IF j = 1 THEN st.previous ELSE Pipe,
   words |-> st.commands[j].words, redirections |-> st.commands[j].redirections]]
Listed(statements) == Over(LAMBDA acc, st : acc \o CommandsOf(st), <<>>, statements)

StructureKept ==
  LET parsed == Parse(Tokens)
      read   == Segments(Tokens)
      segs   == Append(read.segs, read.last)
      bare   == {i \in DOMAIN segs : segs[i].words = <<>>}
  IN /\ parsed.refused <=>
          \/ read.wants # <<>>
          \/ \E i \in bare \ {Len(segs)} : ~(segs[i].op = Pipe /\ segs[i + 1].op \in Connectors)
     /\ ~parsed.refused => Listed(parsed.statements) = Carried(segs)

\* The lexer finds the words and operators that were meant, whatever mixture of
\* quotes and escapes, and refuses what is unfinished (parser.go:102).  The
\* parser (parser.go:32) refuses a line for a redirection with no target, and for
\* an operator with no command before it unless that is a connector after a pipe:
\* `a | ; b` is taken for `a ; b`.  In a line it takes, every command has its own
\* connector, words and redirections, in their order; but a segment without words
\* is no command, and its redirections go to the next one: in `a | > f ; b` it is
\* b that writes to f, and those at the end of a line are dropped.
LineIsUnderstood == WordsAsMeant /\ (~LexRefuses => StructureKept)

\* What is quoted is a word: a line without operators is one command with the
\* words of the line.  The code reads a quoted | as a pipe.
QuotedIsData ==
  ~unfinished /\ meant # <<>> /\ (\A i \in DOMAIN meant : ~meant[i].op) =>
    Listed(Parse(Tokens).statements) =
      <<[op |-> <<>>, words |-> [i \in DOMAIN meant |-> meant[i].text], redirections |-> <<>>]>>
=============================================================================
