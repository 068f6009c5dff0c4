------------------------------- MODULE MCItems -------------------------------
(* The lines the user types, for TLC: bindings and uses of x, a block opened *)
(* and closed, a function f with a body that is open or malformed, one       *)
(* written in the other form, a call, an import of f and a lambda.           *)
EXTENDS SemanticItems

CodeLines ==
  {<<"x", "=", "x">>, <<"x">>, <<"{">>, <<"}">>,
   <<"#", "f", "=", "(", "x", ")", "=>", "{">>, <<"#", "f", "=", "(", "x", ")", "=>", "bad">>,
   <<"f", "(", "f", ")", "=", "f">>, <<"x", "=", "f", "(", ")">>,
   <<"@import", "{", "f", "}">>, <<"#", "(", "x", ")", "=>", "x">>}
=============================================================================
