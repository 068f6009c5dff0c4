------------------------------- MODULE MCStores -------------------------------
(* What runtime and tools keep, for TLC: a behaviour is one of the handle    *)
(* table (two kinds, two objects, up to four slots), one of a dict (a key is *)
(* found behind, between and before others), one of the containers the       *)
(* program creates (lists of lists come from styio_dict_values_list as       *)
(* well), or one of two interchangeable processes of the toolchain: three    *)
(* commands, or two where one of them is a compile plan.                    *)
EXTENDS HandleTable, DictBackend, Containers, Toolchain, TLC

VARIABLE part

AllKinds == {<<"list", "scalar">>, <<"list", "list">>, <<"dict", "list">>, <<"list", "dict">>,
             <<"matrix", "scalar">>, <<"file", "scalar">>}

MCInit == /\ Init /\ DictInit /\ ContainersInit /\ ToolchainInit
          /\ part \in {"handles", "dict", "containers", "tools"}
MCNext ==
  \/ part = "handles" /\ Next /\ UNCHANGED <<dictVars, containerVars, toolchainVars, part>>
  \/ part = "dict" /\ DictNext /\ UNCHANGED <<vars, containerVars, toolchainVars, part>>
  \/ part = "containers" /\ ContainersNext /\ UNCHANGED <<vars, dictVars, toolchainVars, part>>
  \/ /\ part = "tools" /\ ToolchainNext
     /\ runs' > 2 => CompileInit'
     /\ UNCHANGED <<vars, dictVars, containerVars, part>>
MCSpec == MCInit /\ [][MCNext]_<<vars, dictVars, containerVars, toolchainVars, part>>

Symmetry == Permutations(Procs) \cup Permutations(Contents)
=============================================================================
