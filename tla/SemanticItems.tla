---------------------------- MODULE SemanticItems ----------------------------
(***************************************************************************)
(* What SemanticDB (StyioIDE/SemDB.cpp) answers about the items of one     *)
(* document while it is edited: the compiler's facts (CompilerBridge.cpp), *)
(* the module HirBuilder makes of tokens and facts, and the signatures,    *)
(* which are cached per item and signature text and never evicted.         *)
(***************************************************************************)
EXTENDS HirBuilder

CONSTANTS Lines,    \* the lines the user types, sequences of tokens
          MaxLines, \* the longest document
          MaxAsked  \* signatures that are not cached are asked for this often

ASSUME BoundsAssumption == MaxLines \in Nat /\ MaxAsked \in Nat

VARIABLES lines,      \* the document
          signatures  \* type_signature_cache_

itemVars == <<lines, signatures>>

Tokens == FlattenSeq([i \in DOMAIN lines |-> Append(lines[i], "newline")])

-----------------------------------------------------------------------------
(* analyze_document: what the recovering parser keeps. *)

RECURSIVE StatementsFrom(_, _)
StatementsFrom(tokens, begin) ==
  LET from == Significant(tokens, begin, Len(tokens) + 1)
      stop == StatementEnd(tokens, from, Len(tokens) + 1)
  IN IF from = 0 THEN <<>> ELSE <<<<from, stop>>>> \o StatementsFrom(tokens, stop + 1)

\* A statement is lost when something outside its blocks is malformed, or a
\* bracket is not closed.
Kept(tokens, close, s) ==
  \A i \in s[1] .. s[2] - 1 :
    /\ tokens[i] = "bad" => \E j \in s[1] .. i : j \in DOMAIN close /\ tokens[j] = "{" /\ i < close[j]
    /\ tokens[i] \in OpenBrackets => i \in DOMAIN close

\* collect_semantic_items: the definitions of the top level and the imports,
\* with their parameters.
Defined(tokens, close, s) ==
  LET first  == s[1]
      lparen == First({i \in first .. s[2] - 1 : tokens[i] = "("})
      pos    == IF tokens[first] = "#" THEN first + 1 ELSE first
      params == IF lparen = 0 THEN <<>> ELSE SelectSeq(SubSeq(tokens, lparen + 1, close[lparen] - 1), IsName)
  IN CASE tokens[first] = "@import" -> <<"import", tokens[first + 2], <<>>>>
       [] tokens[first] = "#" /\ IsName(tokens[pos]) -> <<"function", tokens[pos], params>>
       [] IsName(tokens[first]) /\ tokens[first + 1] = "=" -> <<"global", tokens[first], <<>>>>
       [] OTHER -> <<>>

\* append_item_fact numbers the facts of one kind and name.  A string that is
\* not closed ends the lexer, and with it all facts.
Facts(tokens) ==
  LET close == Matching(tokens)
      kept  == SelectSeq(StatementsFrom(tokens, 1),
                         LAMBDA s : Kept(tokens, close, s) /\ Defined(tokens, close, s) # <<>>)
      add(acc, s) ==
        LET d == Defined(tokens, close, s)
            n == Count(acc, LAMBDA f : f.id[1] = d[1] /\ f.id[2] = d[2])
        IN Append(acc, [id |-> <<d[1], d[2], n>>, params |-> d[3], at |-> s[1]])
  IN IF "unclosed" \in {tokens[i] : i \in DOMAIN tokens} THEN <<>> ELSE FoldLeft(add, <<>>, kept)

Hir == Build(Tokens, Facts(Tokens))

-----------------------------------------------------------------------------
(* The queries. *)

FirstWith(seq, P(_)) == LET found == SelectSeq(seq, P) IN IF found = <<>> THEN <<>> ELSE found[1]

\* resolve_name_at: the symbol that stands there, or the target of the first
\* reference recorded there.  <<>> if it is an import's, an index's or a
\* builtin's business.
ResolvedAt(m, pos) ==
  LET here == FirstWith(m.symbols, LAMBDA s : s.pos = pos)
      ref  == FirstWith(m.references, LAMBDA r : r.pos = pos)
  IN IF here # <<>> THEN here
     ELSE IF ref = <<>> THEN <<>>
     ELSE FirstWith(m.symbols, LAMBDA s : s.id = Target(m, ref))

\* item_for_resolved_name: the item of that name at that place, or else the
\* smallest item around it (item_at_offset).
ItemOf(m, s) ==
  LET own    == FirstWith(m.items, LAMBDA i : i.name = s.name /\ i.pos = s.pos)
      around == SelectSeq(m.items, LAMBDA i : i.first <= s.pos /\ s.pos < i.end)
      least  == SelectSeq(around, LAMBDA i : \A n \in DOMAIN around :
                                    i.end - i.first <= around[n].end - around[n].first)
  IN IF own # <<>> THEN own ELSE IF least = <<>> THEN <<>> ELSE least[1]

CachedSignatures(item) == {c \in signatures : c.id = item.id /\ c.signature = item.signature}
Params(item) == IF CachedSignatures(item) = {} THEN item.params ELSE (CHOOSE c \in CachedSignatures(item) : TRUE).params

Calls(m) == {i \in DOMAIN m.tokens : IsName(m.tokens[i]) /\ i < Len(m.tokens) /\ m.tokens[i + 1] = "("}

\* expected_type_query at the first argument of the call of the name at pos:
\* the parameter, or "" when the signature has none.
Callee(m, pos) == LET s == ResolvedAt(m, pos) IN IF s = <<>> THEN <<>> ELSE ItemOf(m, s)
ExpectedAt(m, pos) ==
  LET item == Callee(m, pos)
  IN IF item = <<>> THEN "" ELSE IF Params(item) = <<>> THEN "" ELSE Params(item)[1]

\* The symbols completion_query offers for a name at a place (innermost_scope_at,
\* symbol_visible_at), and which of them it keeps for the label: a type that
\* fits an expected one counts for more than the distance of a scope.
ScopeAt(m, pos) ==
  LET around == SelectSeq(m.scopes, LAMBDA c : c.first <= pos /\ pos < c.end)
      depth  == Max({Len(around[n].id) : n \in DOMAIN around})
  IN Last(SelectSeq(around, LAMBDA c : Len(c.id) = depth)).id
Offered(m, pos, name) ==
  {s \in ToSet(m.symbols) :
     s.name = name /\ (s.scope = Module \/ (s.pos <= pos /\ IsPrefix(s.scope, ScopeAt(m, pos))))}

\* lookup_type knows a variable by its name alone.
TypeOf(m, s) ==
  IF s.kind = "function" THEN "result"
  ELSE IF \E i \in DOMAIN m.facts : m.facts[i].id[1] = "global" /\ m.facts[i].id[2] = s.name
         THEN "value" ELSE "unknown"
CompletionScore(m, s, expected) ==
  (IF s.scope = Module THEN 400 ELSE 500)
  + (CASE expected = "unknown" -> 0
       [] expected = TypeOf(m, s) -> 125
       [] TypeOf(m, s) = "unknown" -> 0
       [] OTHER -> -15)
Surfaced(m, pos, name, expected) ==
  LET offered == Offered(m, pos, name)
  IN {s \in offered : \A o \in offered :
                        CompletionScore(m, s, expected) >= CompletionScore(m, o, expected)}

\* type_signature_query keeps what it was first asked for.
Remember(item) ==
  IF CachedSignatures(item) # {} THEN UNCHANGED signatures
  ELSE /\ Cardinality(signatures) < MaxAsked
       /\ signatures' = signatures \cup
            {[id |-> item.id, signature |-> item.signature, params |-> item.params]}

-----------------------------------------------------------------------------

ItemsInit == lines = <<>> /\ signatures = {}

\* A new snapshot; erase_query_state_for_file leaves the signatures alone.
\* A brace too many is not typed: the parser would not return from it
\* (ParserRecovery.EveryParseEnds).
Closable(ls) ==
  LET text   == FlattenSeq(ls)
      braces(n, b) == Cardinality({i \in 1 .. n : text[i] = b})
  IN \A n \in DOMAIN text : text[n] = "}" => braces(n, "}") <= braces(n, "{")

TypeLine(line) ==
  /\ Len(lines) < MaxLines /\ Closable(Append(lines, line))
  /\ lines' = Append(lines, line) /\ UNCHANGED signatures
EditLine(i, line) ==
  /\ Closable([lines EXCEPT ![i] = line])
  /\ lines' = [lines EXCEPT ![i] = line] /\ UNCHANGED signatures

\* Completion or hover in the argument of a call.
AskExpected(m, pos) ==
  LET item == Callee(m, pos)
  IN item # <<>> /\ Remember(item) /\ UNCHANGED lines

ItemsNext ==
  \/ \E line \in Lines : TypeLine(line)
  \/ \E i \in DOMAIN lines, line \in Lines : EditLine(i, line)
  \/ \E m \in {Hir} : \E pos \in Calls(m) : AskExpected(m, pos)

ItemsSpec == ItemsInit /\ [][ItemsNext]_itemVars

-----------------------------------------------------------------------------
(* Properties. *)

DistinctIds(seq) == \A i, j \in DOMAIN seq : seq[i].id = seq[j].id => i = j

\* No two items, scopes or symbols of a module share an id, and the facts an
\* item shows are those of its own statement, although syntax and compiler
\* number the definitions apart from one another.  Where the compiler has
\* missed a definition of the name up to here, because it is malformed or is
\* written f(p) = .., the item may show those of a later one.
Missed(m, item) ==
  \E s \in ToSet(StatementsFrom(m.tokens, 1)) :
    /\ s[1] <= item.first /\ item.name \in {m.tokens[s[1]], m.tokens[s[1] + 1]}
    /\ \A n \in DOMAIN m.facts : m.facts[n].at # s[1]
ItemsShowTheirFacts ==
  \A m \in {Hir} :
     /\ DistinctIds(m.items) /\ DistinctIds(m.scopes) /\ DistinctIds(m.symbols)
     /\ \A item \in ToSet(m.items) :
          item.pos = 0 \/ Missed(m, item) \/ item.fact = item.first

\* The lexical meaning of a name: of its definitions in the ranges around it
\* the one in the smallest range; a local one counts from its place on.
Lexical(m, pos) ==
  LET scopeOf(s) == FirstWith(m.scopes, LAMBDA c : c.id = s.scope)
      size(s)    == scopeOf(s).end - scopeOf(s).first
      near == {s \in ToSet(m.symbols) :
                 /\ s.name = m.tokens[pos] /\ scopeOf(s).first <= pos /\ pos < scopeOf(s).end
                 /\ s.scope = Module \/ s.pos <= pos}
      best(s) == \A o \in near :
                   \/ size(s) < size(o)
                   \/ s.scope = o.scope /\ IF s.scope = Module THEN s.pos <= o.pos ELSE s.pos >= o.pos
  IN IF near = {} THEN NoItem ELSE (CHOOSE s \in near : best(s)).id

\* Where a name is typed that is both a global's and a local's, the local one
\* is what completion shows.
LocalFirst(m, pos, expected) ==
  \A s \in Surfaced(m, pos, m.tokens[pos], expected) :
    s.scope = Module => \A o \in Offered(m, pos, m.tokens[pos]) : o.scope = Module

\* The last reference recorded at a use of a name, the one of the innermost
\* block, is resolved lexically, whatever unfinished text is around it, and
\* completion agrees where no type is expected.
InnermostIsLexical ==
  \A m \in {Hir} :
  /\ \A i \in DOMAIN m.references :
       /\ \A j \in DOMAIN m.references : j > i => m.references[j].pos # m.references[i].pos
       /\ \A j \in DOMAIN m.symbols : m.symbols[j].pos # m.references[i].pos
       => Target(m, m.references[i]) = Lexical(m, m.references[i].pos)
  /\ \A pos \in DOMAIN m.tokens : IsName(m.tokens[pos]) => LocalFirst(m, pos, "unknown")

\* styio_ide_test.cpp:877 "LocalBindingsShadowImportsAndGlobals".  In a block
\* that is no function's, reference_at finds the outer one of two references.
LocalBindingsShadow ==
  \A m \in {Hir} :
  \A i \in DOMAIN m.references :
    (\A j \in DOMAIN m.symbols : m.symbols[j].pos # m.references[i].pos) =>
    LET s == ResolvedAt(m, m.references[i].pos)
    IN (IF s = <<>> THEN NoItem ELSE s.id) = Lexical(m, m.references[i].pos)

\* docs/external/for-ide/CXX-API.md:173: "a parameter or local binding with the
\* same name as a global/imported/builtin candidate is the one surfaced".  A
\* global function of the expected type outdoes a parameter of its name.
LocalsAreSurfaced ==
  \A m \in {Hir} :
  \A pos \in DOMAIN m.tokens, expected \in {"unknown", "result", "value"} :
    IsName(m.tokens[pos]) => LocalFirst(m, pos, expected)

\* docs/external/for-ide/CXX-API.md:154: "direct call arguments populate
\* expected_type_name".  A signature that was asked for while its facts were
\* missing has no parameters for the rest of the session.
CallArgumentsTyped ==
  \A m \in {Hir} :
  \A pos \in Calls(m) :
    LET item == Callee(m, pos)
    IN item # <<>> /\ item.fact = item.first /\ item.params # <<>> =>
         ExpectedAt(m, pos) = item.params[1]
=============================================================================
