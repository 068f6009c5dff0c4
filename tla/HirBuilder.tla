----------------------------- MODULE HirBuilder -----------------------------
(***************************************************************************)
(* HirBuilder (StyioIDE/HIR.cpp): from the tokens of a document, finished  *)
(* or being typed, and from the facts the compiler found in it, the items, *)
(* scopes, symbols and resolved references the editor asks about.          *)
(*                                                                         *)
(* A token is a string: a punctuator, "=" for :=, = and <-, "newline",     *)
(* "bad" for one that no statement parses with, "unclosed" for a string    *)
(* without its closing quote, or else a name.  Positions are indices of    *)
(* tokens, and a range goes from its first token to before its end.  Type  *)
(* annotations and @ resources are left out.                               *)
(*                                                                         *)
(* HirIdentityStore gives one id per key and file for the whole session,   *)
(* so an id is its key here.  A scope's key is the path from the module:   *)
(* its parents are the prefixes.  A fingerprint is the text it hashes.     *)
(***************************************************************************)
EXTENDS Integers, Sequences, FiniteSets, SequencesExt

Module == <<>>
NoItem == <<>>

Punctuators == {"#", "(", ")", "{", "}", "=", "=>", ",", "@import", "newline", "bad", "unclosed"}
IsName(token) == token \notin Punctuators

OpenBrackets == {"(", "{"}
CloseBrackets == {")", "}"}
Fits(opener, closer) == <<opener, closer>> \in {<<"(", ")">>, <<"{", "}">>}

\* SyntaxSnapshot::matching_tokens: a closer that does not fit the innermost
\* open bracket is passed over, and the bracket stays open.
Matching(tokens) ==
  LET read(acc, i) ==
        CASE tokens[i] \in OpenBrackets -> [acc EXCEPT !.open = Append(@, i)]
          [] tokens[i] \in CloseBrackets /\ acc.open # <<>> /\ Fits(tokens[Last(acc.open)], tokens[i])
               -> [open |-> Front(acc.open), close |-> (Last(acc.open) :> i) @@ acc.close]
          [] OTHER -> acc
  IN FoldLeft(read, [open |-> <<>>, close |-> <<>>], [i \in DOMAIN tokens |-> i]).close

\* The first of some positions, 0 if there is none.
First(positions) == IF positions = {} THEN 0 ELSE Min(positions)
Find(tokens, begin, end, wanted) == First({i \in begin .. end - 1 : tokens[i] \in wanted})
Significant(tokens, begin, end) == First({i \in begin .. end - 1 : tokens[i] # "newline"})

\* Brackets that close more than they open end no statement early.
StatementEnd(tokens, begin, end) ==
  LET depth(i) == Cardinality({j \in begin .. i - 1 : tokens[j] \in OpenBrackets})
                  - Cardinality({j \in begin .. i - 1 : tokens[j] \in CloseBrackets})
      ends == {i \in begin .. end - 1 : tokens[i] = "newline" /\ depth(i) <= 0}
  IN IF ends = {} THEN end ELSE Min(ends)

-----------------------------------------------------------------------------
(* The module under construction: its tokens, their brackets, the facts, and *)
(* what was built from them so far.                                          *)

Count(seq, P(_)) == Cardinality({i \in DOMAIN seq : P(seq[i])})
Closing(m, i) == IF i \in DOMAIN m.close THEN m.close[i] ELSE 0

\* add_item: an item is the n-th of its kind and name, and so is the fact it
\* takes.  op splits its text into signature and body
\* (set_item_inference_fingerprints).
AddItem(m, kind, first, pos, end, op) ==
  LET name == m.tokens[pos]
      id   == <<kind, name, Count(m.items, LAMBDA i : i.kind = kind /\ i.name = name)>>
      own  == SelectSeq(m.facts, LAMBDA f : f.id = id)
      full == SubSeq(m.tokens, first, end - 1)
  IN [m EXCEPT !.items = Append(@,
       [id |-> id, kind |-> kind, name |-> name, pos |-> pos, first |-> first, end |-> end,
        params    |-> IF own = <<>> THEN <<>> ELSE own[1].params,
        fact      |-> IF own = <<>> THEN 0 ELSE own[1].at,
        signature |-> IF op = 0 THEN full ELSE SubSeq(m.tokens, first, op - 1),
        body      |-> IF op = 0 THEN full ELSE SubSeq(m.tokens, op + 1, end - 1)])]

\* add_scope without a key of the caller's: a number among the children.
ChildScope(m, parent, kind) ==
  Append(parent, <<kind, "", Count(m.scopes, LAMBDA s : s.numbered /\ Front(s.id) = parent)>>)
ItemScope(item) == <<<<"scope", item[2], item[3]>>>>
AddScope(m, id, first, end, numbered) ==
  [m EXCEPT !.scopes = Append(@, [id |-> id, first |-> first, end |-> end, numbered |-> numbered])]

AddSymbol(m, kind, pos, scope, item) ==
  LET name == m.tokens[pos]
      same(s) == s.scope = scope /\ s.kind = kind /\ s.name = name
  IN [m EXCEPT !.symbols = Append(@,
       [id |-> <<scope, kind, name, Count(m.symbols, same)>>,
        name |-> name, kind |-> kind, pos |-> pos, scope |-> scope, item |-> item])]

\* The positions from begin to before end, in their order, that satisfy P.
Positions(begin, end, P(_)) == SelectSeq([n \in 1 .. end - begin |-> begin + n - 1], P)

\* parse_params: the first name after the bracket and after each comma; what
\* follows up to the next comma is its annotation or default.
ParamsAt(m, begin, end) ==
  Positions(begin, end, LAMBDA i :
     /\ IsName(m.tokens[i])
     /\ \A j \in begin .. i - 1 : IsName(m.tokens[j]) => \E k \in j .. i : m.tokens[k] = ",")
AddParams(m, begin, end, scope, item) ==
  FoldLeft(LAMBDA acc, i : AddSymbol(acc, "parameter", i, scope, item), m, ParamsAt(m, begin, end))

\* collect_references: every name, those inside brackets as well.
CollectReferences(m, begin, end, scope, skip) ==
  LET at == Positions(begin, end, LAMBDA i : IsName(m.tokens[i]) /\ i \notin skip)
  IN [m EXCEPT !.references = @ \o
       [n \in DOMAIN at |-> [name |-> m.tokens[at[n]], pos |-> at[n], scope |-> scope]]]

-----------------------------------------------------------------------------
(* walk_region and process_statement. *)

RECURSIVE WalkRegion(_, _, _, _, _), BlockScopes(_, _, _, _, _)

\* What stands behind the head of a function or lambda: the names up to the
\* first block with a closing brace, then the block; what follows is dropped.
Body(m, begin, end, scope, item, skip) ==
  LET open == First({i \in begin .. end - 1 : m.tokens[i] = "{" /\ Closing(m, i) # 0})
  IN IF open = 0 THEN CollectReferences(m, begin, end, scope, skip)
     ELSE WalkRegion(CollectReferences(m, begin, open, scope, skip), open + 1, Closing(m, open), scope, item)

\* Mutant of FunctionItem: one in a block is an item as well.
FunctionItemAnywhere(m, first, pos, end, scope, op, lparen, rest) ==
  LET rparen == Closing(m, lparen)
      m1     == AddItem(m, "function", first, pos, end, op)
      item   == Last(m1.items).id
      own    == ItemScope(item)
      m3     == AddScope(AddSymbol(m1, "function", pos, scope, item), own, first, end, FALSE)
      params == ToSet(ParamsAt(m3, lparen + 1, rparen))
  IN IF rparen # 0 /\ rparen < end
       THEN Body(AddParams(m3, lparen + 1, rparen, own, item), rest, end, own, item, {pos} \cup params)
       ELSE CollectReferences(m3, pos + 1, end, own, {pos})

\* # f := (p) => body, or f(p) := body.  An item only at the top level.
FunctionItem(m, first, pos, end, scope, op, lparen, rest) ==
  LET top    == scope = Module
      rparen == Closing(m, lparen)
      m1     == IF top THEN AddItem(m, "function", first, pos, end, op) ELSE m
      item   == IF top THEN Last(m1.items).id ELSE NoItem
      m2     == AddSymbol(m1, "function", pos, scope, item)
      own    == IF top THEN ItemScope(item) ELSE ChildScope(m2, scope, "item")
      m3     == AddScope(m2, own, first, end, ~top)
      params == ToSet(ParamsAt(m3, lparen + 1, rparen))
  IN IF rparen # 0 /\ rparen < end
       THEN Body(AddParams(m3, lparen + 1, rparen, own, item), rest, end, own, item, {pos} \cup params)
       ELSE CollectReferences(m3, pos + 1, end, own, {pos})

HashFunction(m, first, pos, end, scope) ==
  LET arrow  == Find(m.tokens, pos + 1, end, {"=>"})
      head   == IF arrow = 0 THEN end ELSE arrow
      op     == IF arrow # 0 THEN arrow ELSE Find(m.tokens, pos + 1, head, {"="})
      lparen == Find(m.tokens, pos + 1, head, {"("})
  IN FunctionItem(m, first, pos, end, scope, op, lparen, Closing(m, lparen) + 1)

Lambda(m, first, lparen, end, scope, item) ==
  LET own    == ChildScope(m, scope, "block")
      rparen == Closing(m, lparen)
      m1     == AddScope(m, own, first, end, TRUE)
  IN IF rparen = 0 THEN BlockScopes(CollectReferences(m1, first, end, scope, {}), first, end, scope, item)
     ELSE Body(AddParams(m1, lparen + 1, rparen, own, item), rparen + 1, end, own, item,
               ToSet(ParamsAt(m1, lparen + 1, rparen)))

\* The right-hand side of a binding opens no scope.
Binding(m, first, end, scope, op) ==
  LET m1   == IF scope = Module THEN AddItem(m, "global", first, first, end, op) ELSE m
      item == IF scope = Module THEN Last(m1.items).id ELSE NoItem
  IN CollectReferences(AddSymbol(m1, "variable", first, scope, item), op + 1, end, scope, {first})

\* Each block of another statement is a scope.  The names in it have been
\* collected with the statement already.
BlockScopes(m, begin, end, scope, item) ==
  LET open == First({i \in begin .. end - 1 :
                       m.tokens[i] = "{" /\ Closing(m, i) # 0 /\ Closing(m, i) <= end})
      own  == ChildScope(m, scope, "block")
  IN IF open = 0 THEN m
     ELSE BlockScopes(WalkRegion(AddScope(m, own, open, Closing(m, open) + 1, TRUE),
                      open + 1, Closing(m, open), own, item),
                 Closing(m, open) + 1, end, scope, item)

ProcessStatement(m, begin, end, scope, item) ==
  LET t      == m.tokens
      first  == Significant(t, begin, end)
      next   == Significant(t, first + 1, end)
      lparen == Find(t, first + 1, end, {"("})
      rparen == Closing(m, lparen)
      op     == First({i \in first + 1 .. end - 1 : t[i] = "=" /\ ~(lparen < i /\ i < rparen)})
  IN CASE t[first] = "#" /\ next # 0 /\ IsName(t[next]) -> HashFunction(m, first, next, end, scope)
       [] t[first] = "#" /\ next # 0 /\ t[next] = "(" -> Lambda(m, first, next, end, scope, item)
       [] IsName(t[first]) /\ lparen # 0 /\ rparen # 0 /\ rparen < op ->
            FunctionItem(m, first, first, end, scope, op, lparen, op + 1)
       [] IsName(t[first]) /\ op # 0 /\ ~(lparen # 0 /\ rparen # 0 /\ rparen < op) ->
            Binding(m, first, end, scope, op)
       [] OTHER -> BlockScopes(CollectReferences(m, begin, end, scope, {}), begin, end, scope, item)

WalkRegion(m, begin, end, scope, item) ==
  LET from == Significant(m.tokens, begin, end)
      stop == StatementEnd(m.tokens, from, end)
  IN IF from = 0 THEN m ELSE WalkRegion(ProcessStatement(m, from, stop, scope, item), stop + 1, end, scope, item)

-----------------------------------------------------------------------------

\* materialize_unmatched_semantic_items: a fact without a statement, as every
\* import is, becomes an item without a place.
Materialized(m) ==
  LET taken == {m.items[i].id : i \in DOMAIN m.items}
      rest  == SelectSeq(m.facts, LAMBDA f : f.id \notin taken)
  IN [m EXCEPT !.items = @ \o [n \in DOMAIN rest |->
       [id |-> rest[n].id, kind |-> rest[n].id[1], name |-> rest[n].id[2],
        pos |-> 0, first |-> 0, end |-> 0, params |-> rest[n].params,
        fact |-> rest[n].at, signature |-> <<>>, body |-> <<>>]]]

\* resolve_references: of the symbols of the name in the scopes around the
\* reference the one in the innermost scope; there the last one so far, and
\* in the module the first one, wherever it is.
Visible(m, ref) ==
  {s \in ToSet(m.symbols) :
     s.name = ref.name /\ (s.scope # Module => s.pos <= ref.pos) /\ IsPrefix(s.scope, ref.scope)}

\* Mutant of Closer: the innermost scope does not come first.
CloserInOrder(s, o) == s.pos < o.pos \/ (s.pos = o.pos /\ Len(s.scope) >= Len(o.scope))

Closer(s, o) ==
  \/ Len(s.scope) > Len(o.scope)
  \/ s.scope = o.scope /\ IF s.scope = Module THEN s.pos <= o.pos ELSE s.pos >= o.pos

Target(m, ref) ==
  LET candidates == Visible(m, ref)
  IN IF candidates = {} THEN NoItem
     ELSE (CHOOSE s \in candidates : \A o \in candidates : Closer(s, o)).id

\* HirBuilder::build.
Build(tokens, facts) ==
  LET empty == [tokens |-> tokens, close |-> Matching(tokens), facts |-> facts,
                items |-> <<>>, symbols |-> <<>>, references |-> <<>>,
                scopes |-> <<[id |-> Module, first |-> 1, end |-> Len(tokens) + 1,
                              numbered |-> FALSE]>>]
  IN Materialized(WalkRegion(empty, 1, Len(tokens) + 1, Module, NoItem))
=============================================================================
