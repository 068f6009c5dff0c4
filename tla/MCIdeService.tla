---------------------------- MODULE MCIdeService ----------------------------
(* The text of the editor for TLC: a behaviour is one of IdeService with one *)
(* file in the workspace, of the parser on one document, or of the items of  *)
(* a document that is edited.                                                *)
EXTENDS IdeService, ParserRecovery, MCItems

CONSTANT a
OneFile == <<a>>

VARIABLE part

MCInit == /\ Init /\ ParserInit /\ ItemsInit
          /\ part \in {"service", "parser", "items"}
          /\ part # "parser" => document = <<>> /\ parse = "nightly"
MCNext == \/ part = "service" /\ Next /\ UNCHANGED <<parserVars, itemVars, part>>
          \/ part = "parser" /\ ParserNext /\ UNCHANGED <<vars, itemVars, part>>
          \/ part = "items" /\ ItemsNext /\ UNCHANGED <<vars, parserVars, part>>
MCSpec == MCInit /\ [][MCNext]_<<vars, parserVars, itemVars, part>>
=============================================================================
