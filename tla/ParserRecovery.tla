--------------------------- MODULE ParserRecovery ---------------------------
(***************************************************************************)
(* The statement level of the two parsers of StyioParser, the "nightly"    *)
(* one (NewParserExpr.cpp) and the "legacy" one (Parser.cpp): which engine *)
(* parses a statement, how a failed attempt is taken back and handed to    *)
(* the other engine, and where parsing goes on after a malformed statement *)
(* in ParseMode::Recovery, the mode of the editor.                         *)
(*                                                                         *)
(* A document is a sequence of tokens.  Of expressions only what decides   *)
(* the control is kept: a binding is one token, "simple" when both engines *)
(* parse it (v = 1), "legacyOnly" when only the legacy one does            *)
(* (v = x | 42), "malformed" when none does (v = := 1), "alien" when it    *)
(* holds, besides, a token outside the nightly token table (v = := ! 1).   *)
(* "match{" is x ?= {, "value" "=>" the head of one of its arms, "guard"   *)
(* is ?(x == 1) =>, "function" is # f := (a: i32) =>, "continue" is >>.    *)
(*                                                                         *)
(* The call stack of the parser is explicit: a frame for the main loop,    *)
(* for each block and each match being parsed, and for each attempt that   *)
(* would take the cursor back.                                             *)
(***************************************************************************)
EXTENDS Integers, Sequences, SequencesExt, FiniteSetsExt

CONSTANTS Bindings,   \* the kinds of bindings documents are made of
          MaxTokens,  \* the longest document
          MaxBridges, \* kMaxInternalLegacyBridgesPerTokenLatest
          Parses      \* how they are parsed

ASSUME BindingsAssumption == Bindings \subseteq {"simple", "legacyOnly", "malformed", "alien"}
ASSUME MaxBridgesAssumption == MaxBridges \in Nat
\* In longer texts the legacy engine could meet an arm that starts with a
\* bracket or a head where it looks for a value, which NextArm leaves out.
ASSUME MaxTokensAssumption == MaxTokens \in 0 .. 11
\* By either engine in ParseMode::Strict, or by the nightly one in Recovery:
\* nobody asks the legacy engine to recover.
ASSUME ParsesAssumption == Parses \subseteq {"nightly", "legacy", "recovery"}

VARIABLES document,   \* the tokens
          parse,      \* how the document is parsed
          cursor,     \* index_of_token
          stack,      \* what is being parsed, the main loop at the bottom
          point,      \* what the parser does next
          bridges,    \* how often the legacy engine was given a token
          parsed,     \* the bindings of the node just returned
          diagnosed   \* the statements parse_diagnostics_ names, by their first token

parserVars == <<document, parse, cursor, stack, point, bridges, parsed, diagnosed>>

-----------------------------------------------------------------------------
(* The documents: brackets need not be closed, and a bracket may close      *)
(* nothing; otherwise the lines are those of a program being written.  No   *)
(* line after the one an expression ends on starts with >>: the legacy      *)
(* engine reads on behind a line break.                                     *)

Openers == {"{", "match{"}
Heads == {"guard", "function"}
Bodies == Bindings \cup {"continue"} \cup Openers

\* A text, the brackets open at its end, and whether no expression ends it.
Draft(text, open, fresh) == [text |-> text, open |-> open, fresh |-> fresh]

\* The tokens that may follow.
NextTokens(d) ==
  LET last == IF d.text = <<>> THEN "newline" ELSE Last(d.text)
      inMatch == d.open # <<>> /\ Last(d.open) = "match{"
      line == IF inMatch THEN {"value", "}"}
              ELSE (Bodies \cup Heads \cup {"}"}) \ (IF d.fresh THEN {} ELSE {"continue"})
  IN CASE last \in Bindings \cup {"continue", "}"} -> {"newline", "}"}
       [] last = "value" -> {"=>"}
       [] last \in Heads \cup {"=>"} -> Bodies
       [] last = "newline" -> line
       [] OTHER -> line \cup {"newline"}

Typed(d, t) ==
  Draft(Append(d.text, t),
        CASE t \in Openers -> Append(d.open, t)
          [] t = "}" /\ d.open # <<>> -> Front(d.open)
          [] OTHER -> d.open,
        CASE t = "}" -> d.open # <<>> /\ Last(d.open) = "{"
          [] t = "newline" -> d.fresh
          [] OTHER -> t \in Openers)

\* The document is d, or goes on behind it.
RECURSIVE Written(_)
Written(d) ==
  \/ document = d.text
  \/ Len(d.text) < MaxTokens /\ \E t \in NextTokens(d) : Written(Typed(d, t))

-----------------------------------------------------------------------------
(* Tokens *)

TokenAt(k) == IF k \in DOMAIN document THEN document[k] ELSE "eof"

\* The first position from k on that is not a line break.
SkipLines(k) == Min({j \in k .. Len(document) + 1 : TokenAt(j) # "newline"})

\* The tokens a statement of the nightly subset may start with.
SubsetStart == Bodies \cup Heads \cup {"value"}

\* Mutant of Routed: only the first line of the statement is looked at.
RoutedFirstLine(k) ==
  LET end == Min({j \in k .. Len(document) + 1 : TokenAt(j) \in {"newline", "eof"}})
  IN \A j \in k .. end - 1 : document[j] \notin {"legacyOnly", "alien"}

\* Does the nightly token table cover the statement that starts at k, up to
\* the line break, the brace or the end of text that ends it?
Routed(k) ==
  LET to[j \in k .. Len(document) + 1, depth \in 0 .. Len(document)] ==
        LET t == TokenAt(j) IN
        CASE t = "eof" -> depth = 0
          [] t \in {"newline", "}"} /\ depth = 0 -> TRUE
          [] t \in {"legacyOnly", "alien"} -> FALSE
          [] t \in Openers -> to[j + 1, depth + 1]
          [] t = "}" /\ depth > 0 -> to[j + 1, depth - 1]
          [] OTHER -> to[j + 1, depth]
  IN to[k, 0]

\* Mutant of Boundary: the line is skipped, whatever it closes.
BoundaryNextLine(start, k) ==
  LET from == Max({start, k})
  IN Min({j \in from .. Len(document) + 1 : TokenAt(j - 1) = "newline" /\ j > from} \cup {Len(document) + 1})

\* Where parsing goes on after the statement that starts at start failed with
\* the cursor at k.  The scan starts at the cursor with the nesting of the start:
\* braces the statement opened in between are not known to it.
Boundary(start, k) ==
  LET from == Max({start, k})
      to[j \in from .. Len(document) + 1, depth \in 0 .. Len(document)] ==
        LET t == TokenAt(j) IN
        CASE t = "eof" -> j
          [] t = "}" /\ depth = 0 -> j
          [] t = "newline" /\ depth = 0 -> j + 1
          [] t \in Openers -> to[j + 1, depth + 1]
          [] t = "}" /\ depth = 1 -> j + 1
          [] t = "}" /\ depth > 1 -> to[j + 1, depth - 1]
          [] OTHER -> to[j + 1, depth]
  IN to[from, 0]

-----------------------------------------------------------------------------
(* The call stack *)

Recovering == parse = "recovery"
MainEngine == IF parse = "legacy" THEN "legacy" ELSE "nightly"
Top == Last(stack)

\* A loop over statements, or over the arms of a match; start is the first
\* token of the statement it is at, kept the bindings of those it has.
Loop(what, by) == [what |-> what, by |-> by, start |-> 0, kept |-> {}]

\* An attempt of the nightly engine at the statement at k.
Attempt(k) == [what |-> "attempt", saved |-> k, routed |-> Routed(k)]

Keep(bindings) == [stack EXCEPT ![Len(stack)].kept = @ \cup bindings]
At(k) == [stack EXCEPT ![Len(stack)].start = k]

ParserInit ==
  /\ Written(Draft(<<>>, <<>>, TRUE))
  /\ parse \in Parses
  /\ cursor = 1
  /\ stack = <<Loop("main", IF parse = "legacy" THEN "legacy" ELSE "nightly")>>
  /\ point = "loop"
  /\ bridges = [k \in 1 .. MaxTokens + 1 |-> 0]
  /\ parsed = {}
  /\ diagnosed = {}

\* The legacy engine is given a statement of a nightly arm, guard or function:
\* not too often the same, since every failed attempt around it gives it again.
Bridge(k) ==
  /\ bridges' = [bridges EXCEPT ![k] = @ + 1]
  /\ point' = IF bridges[k] < MaxBridges THEN "legacy" ELSE "throw"

\* Calls on the statement at k, by the legacy engine, or by the nightly one
\* with the legacy one behind it.
Call(by, k, frames) ==
  /\ cursor' = k
  /\ IF by = "nightly" /\ TokenAt(k) \in SubsetStart
     THEN stack' = Append(frames, Attempt(k)) /\ point' = "nightly" /\ UNCHANGED bridges
     ELSE /\ stack' = frames
          /\ IF by = "nightly" /\ Len(stack) > 1 THEN Bridge(k)
             ELSE point' = "legacy" /\ UNCHANGED bridges

Return(bindings, k) ==
  /\ parsed' = bindings
  /\ cursor' = k
  /\ point' = "return"
  /\ UNCHANGED <<stack, bridges>>

Throw(k) ==
  /\ cursor' = k
  /\ point' = "throw"
  /\ UNCHANGED <<stack, bridges, parsed>>

\* The main loop, at the next statement.
NextStatement ==
  /\ point = "loop" /\ Top.what = "main"
  /\ LET k == SkipLines(cursor) IN
     IF TokenAt(k) = "eof"
     THEN cursor' = k /\ point' = "ended" /\ UNCHANGED <<stack, bridges>>
     ELSE Call(MainEngine, k, At(k))
  /\ UNCHANGED <<document, parse, parsed, diagnosed>>

\* The loop of a block, at the next statement or the closing brace.
NextInBlock ==
  /\ point = "loop" /\ Top.what = "block"
  /\ LET k == SkipLines(cursor) IN
     CASE TokenAt(k) = "eof" -> /\ cursor' = k
                                /\ stack' = Front(stack)
                                /\ point' = "throw"
                                /\ UNCHANGED parsed
       [] TokenAt(k) = "}" -> /\ parsed' = Top.kept
                              /\ cursor' = k + 1
                              /\ stack' = Front(stack)
                              /\ point' = "return"
       [] OTHER -> /\ cursor' = k
                   /\ stack' = At(k)
                   /\ point' = Top.by
                   /\ UNCHANGED parsed
  /\ UNCHANGED <<document, parse, bridges, diagnosed>>

\* The loop of a match, at the next arm or the closing brace, which before the
\* first arm is looked for without skipping the space after the opening one.
NextArm ==
  /\ point = "loop" /\ Top.what = "match"
  /\ LET k == SkipLines(cursor)
         body == SkipLines(k + 2) IN
     CASE TokenAt(k) = "}" /\ Top.start > 0 -> /\ parsed' = Top.kept
                                                /\ cursor' = k + 1
                                                /\ stack' = Front(stack)
                                                /\ point' = "return"
                                                /\ UNCHANGED bridges
       [] TokenAt(k) = "value" /\ TokenAt(k + 1) = "=>" ->
            Call(Top.by, body, At(k)) /\ UNCHANGED parsed
       [] OTHER -> Throw(k)
  /\ UNCHANGED <<document, parse, diagnosed>>

\* One statement, by the engine that point names.
Statement ==
  /\ point \in {"nightly", "legacy"}
  /\ LET k == SkipLines(cursor)
         t == TokenAt(k)
         body == SkipLines(k + 1) IN
     CASE t = "simple" \/ (t = "legacyOnly" /\ point = "legacy") -> Return({k}, k + 1)
       [] t \in {"value", "continue"} -> Return({}, k + 1)
       [] t = "eof" /\ point = "legacy" -> Return({}, k)
       [] t \in Openers -> /\ cursor' = k + 1
                           /\ stack' = Append(stack, Loop(IF t = "{" THEN "block" ELSE "match", point))
                           /\ point' = "loop"
                           /\ UNCHANGED <<bridges, parsed>>
       [] t = "guard" /\ point = "nightly" -> Call("nightly", body, stack) /\ UNCHANGED parsed
       [] t = "guard" /\ point = "legacy" -> /\ cursor' = body
                                             /\ point' = IF TokenAt(body) = "{" THEN "nightly" ELSE "legacy"
                                             /\ UNCHANGED <<stack, bridges, parsed>>
       [] t = "function" -> /\ cursor' = body
                            /\ stack' = (IF point = "nightly" THEN Append(stack, Attempt(k)) ELSE stack)
                                         \o (IF TokenAt(body) = "{" THEN <<[what |-> "forward"]>> ELSE <<>>)
                            /\ UNCHANGED <<point, bridges, parsed>>
       [] OTHER -> Throw(k)
  /\ UNCHANGED <<document, parse, diagnosed>>

\* What may be forwarded to is looked for behind the block of a function, on
\* the next lines too: a guard is refused, and >> is looked at again and again.
Forward ==
  /\ point = "return" /\ Top.what = "forward"
  /\ LET k == SkipLines(cursor) IN
     /\ cursor' = k
     /\ stack' = IF TokenAt(k) = "continue" THEN stack ELSE Front(stack)
     /\ point' = IF TokenAt(k) = "guard" THEN "throw" ELSE "return"
  /\ UNCHANGED <<document, parse, bridges, parsed, diagnosed>>

\* A node is returned to the loop that asked for it, through the attempts it
\* was parsed in.
Deliver ==
  /\ point = "return" /\ Top.what # "forward"
  /\ IF Top.what = "attempt" THEN stack' = Front(stack) /\ UNCHANGED point
     ELSE /\ stack' = Keep(parsed)
          /\ point' = "loop"
  /\ UNCHANGED <<document, parse, cursor, bridges, parsed, diagnosed>>

\* Mutant of Diagnose: a block recovers in silence.
DiagnoseMain(start) ==
  IF Len(stack) = 1 THEN diagnosed' = diagnosed \cup {start} ELSE UNCHANGED diagnosed

Diagnose(start) == diagnosed' = diagnosed \cup {start}

\* An exception passes one frame: a loop over statements records it and goes
\* on behind the statement when the mode is Recovery; an attempt takes the
\* cursor back, and is fatal if the tokens were all the nightly engine's.
Unwind ==
  /\ point = "throw"
  /\ CASE Top.what \in {"main", "block"} /\ Recovering ->
            /\ Diagnose(Top.start)
            /\ cursor' = Boundary(Top.start, cursor)
            /\ point' = "loop"
            /\ UNCHANGED <<stack, bridges>>
       [] Top.what = "main" /\ ~Recovering ->
            point' = "failed" /\ UNCHANGED <<cursor, stack, bridges, diagnosed>>
       [] Top.what \in {"match", "forward"} \/ (Top.what = "block" /\ ~Recovering) ->
            stack' = Front(stack) /\ UNCHANGED <<cursor, point, bridges, diagnosed>>
       [] Top.what = "attempt" ->
            /\ stack' = Front(stack)
            /\ cursor' = Top.saved
            /\ IF Top.routed THEN UNCHANGED <<point, bridges>>
               ELSE IF Len(stack) > 2 THEN Bridge(Top.saved)
               ELSE point' = "legacy" /\ UNCHANGED bridges
            /\ UNCHANGED diagnosed
  /\ UNCHANGED <<document, parse, parsed>>

\* The parse is over.
ParserEnd == point \in {"ended", "failed"} /\ UNCHANGED parserVars

ParserStep ==
  NextStatement \/ NextInBlock \/ NextArm \/ Statement \/ Forward \/ Deliver \/ Unwind
ParserNext == ParserStep \/ ParserEnd
ParserSpec == ParserInit /\ [][ParserNext]_parserVars /\ WF_parserVars(ParserStep)

-----------------------------------------------------------------------------
(* What parsing is for, from the text alone *)

Opened(k) == Cardinality({j \in 1 .. k - 1 : document[j] \in Openers})
               - Cardinality({j \in 1 .. k - 1 : document[j] = "}"})
Balanced == /\ \A k \in DOMAIN document : Opened(k + 1) >= 0
            /\ Opened(Len(document) + 1) = 0
Enclosing(k) == {o \in 1 .. k - 1 : /\ document[o] \in Openers
                                    /\ \A j \in o + 1 .. k : Opened(j) > Opened(o)}
IsIn(k, o) == o \in Enclosing(k)

Sound == {k \in DOMAIN document : document[k] \in {"simple", "legacyOnly"}}
Malformed == {k \in DOMAIN document : document[k] \in {"malformed", "alien"}}
LegacyOnly == {k \in DOMAIN document : document[k] \in {"legacyOnly", "alien"}}

\* Every bracket is closed, every match has an arm, every head a body.
Complete ==
  /\ Balanced
  /\ \A k \in DOMAIN document : document[k] = "match{" => TokenAt(SkipLines(k + 1)) # "}"
  /\ TokenAt(Len(document)) \notin Heads

\* The two places where the engines refuse statements they accept elsewhere:
\* a guard behind the block of a function, and a binding of the legacy engine
\* in the block of a guard, which the legacy engine leaves to the nightly one.
Refused ==
  \/ \E o \in DOMAIN document : \E k \in o + 1 .. Len(document) :
       /\ o > 1 /\ document[o] = "{" /\ document[o - 1] = "function"
       /\ document[k] = "}" /\ IsIn(k, o) /\ Opened(k + 1) = Opened(o)
       /\ TokenAt(SkipLines(k + 1)) = "guard"
  \/ \E k \in LegacyOnly : \E o \in Enclosing(k) : o > 1 /\ document[o - 1] = "guard"

\* The statement a malformed binding costs: the binding with its head or, when
\* it is an arm of a match, the match, since the arms have no handler.
Blocks(k) == {o \in Enclosing(k) : document[o] = "{"}
MatchesOf(k) == {o \in Enclosing(k) : \A b \in Blocks(k) : o > b}
Cost(k) == IF MatchesOf(k) = {} THEN k ELSE Min(MatchesOf(k))
StartOf(k) == IF k > 1 /\ TokenAt(k - 1) \in Heads THEN k - 1 ELSE k

\* Where recovery loses its place: at a malformed arm of a match that stands in
\* a block, whose braces recover_to_statement_boundary does not count.
Misplaced(k) == MatchesOf(k) # {} /\ Blocks(k) # {}

-----------------------------------------------------------------------------
(* Properties *)

\* A strict parse, by either engine, with every attempt of the nightly engine
\* that is taken back and repeated by the legacy one, accepts no malformed or
\* unbalanced text, refuses no complete one but in the two places of Refused,
\* and keeps every binding (parse_main_block_with_engine_latest).
StrictParseIsExact ==
  parse # "recovery" =>
    /\ point = "ended" => Malformed = {} /\ Balanced /\ Top.kept = Sound
    /\ point = "failed" => Malformed # {} \/ ~Complete \/ Refused

\* In the editor a malformed statement costs that statement and no other, and
\* is diagnosed: of complete text the nightly engine covers, everything else
\* is kept (parser_handle_recovery_latest, recover_to_statement_boundary).
RecoveryKeepsTheRest ==
  parse = "recovery" /\ point = "ended" /\ Complete /\ ~Refused /\ LegacyOnly = {}
      /\ (\A k \in Malformed : ~Misplaced(k)) =>
    /\ Top.kept = {k \in Sound : \A e \in Malformed : ~IsIn(k, Cost(e))}
    /\ diagnosed \subseteq {StartOf(Cost(e)) : e \in Malformed}
    /\ \A e \in Malformed : \E c \in {Cost(e)} \cup Enclosing(e) : StartOf(c) \in diagnosed

\* Whatever the text and however recovery went, no binding disappears from the
\* tree the editor works on without a diagnostic at a statement before it.
LossIsDiagnosed ==
  parse = "recovery" /\ point = "ended" =>
    \A k \in Sound \ Top.kept : \E d \in diagnosed : d <= k

\* docs/external/for-ide/LSP.md:71: in recovery mode malformed statements are
\* reported while later statements still contribute, so the parse of every text
\* ends.  The main loop never passes a closing brace it is at, because
\* recover_to_statement_boundary stops before it.
EveryParseEnds == <>(point \in {"ended", "failed"})
=============================================================================
