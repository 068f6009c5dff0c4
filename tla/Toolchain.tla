----------------------------- MODULE Toolchain ------------------------------
(***************************************************************************)
(* Processes of the styio command side by side: compile plans that share   *)
(* their output directories and the native cache, publishers and           *)
(* installers of one package.                                              *)
(***************************************************************************)
EXTENDS CompileRun, NativeCache, NanoRegistry

toolchainVars == <<procVars, compileVars, cacheVars, registryVars>>

ToolchainInit == ProcInit /\ CompileInit /\ CacheInit /\ RegistryInit

Compiles(p) == CompileStep(p) /\ UNCHANGED <<cacheVars, registryVars>>
LoadsBlock(p) == CacheStep(p) /\ UNCHANGED <<compileVars, registryVars>>
UsesRegistry(p) == RegistryStep(p) /\ UNCHANGED <<compileVars, cacheVars>>

\* Only files outlive a process.
Killed(p) ==
  /\ Kill(p) /\ Forget(p) /\ DropHand(p)
  /\ UNCHANGED <<log, receipt, cacheVars, marker, entry, blob, last, reopened, mixed, damaged, out>>

ToolchainNext == \E p \in Procs : Compiles(p) \/ LoadsBlock(p) \/ UsesRegistry(p) \/ Killed(p)

ToolchainSpec == ToolchainInit /\ [][ToolchainNext]_toolchainVars
=============================================================================
