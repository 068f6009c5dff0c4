---------------------------- MODULE MCLspServer -----------------------------
(* LspServer for TLC: two files in the workspace, the second of which may  *)
(* be written by someone else.                                             *)
EXTENDS LspServer

CONSTANTS a, b
TwoFiles == <<a, b>>

MCNext == ServerNext /\ disk'[a] = FirstText
MCSpec == /\ ServerInit /\ [][MCNext]_serverVars
          /\ WF_serverVars(DrainRuntime) /\ WF_serverVars(BackgroundSlice)
=============================================================================
