---------------------------- MODULE NativeCache -----------------------------
(***************************************************************************)
(* compile_and_load_block of src/src/StyioNative/NativeInterop.cpp: the    *)
(* shared object of an @extern block is looked up in a cache directory     *)
(* that all processes share, or compiled into a file of the process's own  *)
(* and moved there.  One block is modelled, hence one cache file; the key  *)
(* is made of everything the shared object depends on.  A block that the   *)
(* process has loaded already comes from its in-process table and touches  *)
(* no file.  dlopen refuses a torn file.                                   *)
(***************************************************************************)
EXTENDS Processes

CONSTANT Whole  \* the content of a finished shared object

VARIABLES lib,     \* the cache file
          copied   \* has a process ever fallen back to copy_file?

cacheVars == <<lib, copied>>

CacheInit == lib = Absent /\ copied = FALSE

\* if (exists(cache_path))
CacheLookup(p) ==
  /\ Step(p, "block", IF lib = Absent THEN "compile" ELSE "open cached")
  /\ UNCHANGED cacheVars

\* dlopen of the cached file; what cannot be loaded is removed in the next step.
OpenCached(p) ==
  /\ Step(p, "open cached", IF lib = Whole THEN "block loaded" ELSE "remove cached")
  /\ UNCHANGED cacheVars

RemoveCached(p) ==
  /\ Step(p, "remove cached", "compile")
  /\ lib' = Absent
  /\ UNCHANGED copied

\* The compiler writes a file named by process and time.
CompileBlock(p) ==
  /\ pc[p] = "compile"
  /\ Goto(p, "compiled") \/ Goto(p, "block failed")
  /\ UNCHANGED cacheVars

\* Another process may have been faster.
CheckInstalled(p) ==
  /\ Step(p, "compiled", IF lib = Absent THEN "move" ELSE "open installed")
  /\ UNCHANGED cacheVars

\* Mutant of Rename: the file is written in place.
RenameInPlace(p) ==
  /\ Step(p, "move", "finish copy")
  /\ lib' = Torn
  /\ UNCHANGED copied

\* rename: atomic, and replaces what is there.
Rename(p) ==
  /\ Step(p, "move", "open installed")
  /\ lib' = Whole
  /\ UNCHANGED copied

\* rename failed: copy_file, which may fail in its turn; then the process's own
\* file is loaded.
CopyBegin(p) ==
  /\ Step(p, "move", "finish copy")
  /\ lib' = Torn /\ copied' = TRUE

CopyEnd(p) ==
  /\ pc[p] = "finish copy"
  /\ \/ Goto(p, "open installed") /\ lib' = Whole
     \/ Goto(p, "block loaded") /\ UNCHANGED lib
  /\ UNCHANGED copied

\* dlopen of the cache file.
OpenInstalled(p) ==
  /\ Step(p, "open installed", IF lib = Whole THEN "block loaded" ELSE "remove broken")
  /\ UNCHANGED cacheVars

RemoveBroken(p) ==
  /\ Step(p, "remove broken", "dlopen failed")
  /\ lib' = Absent
  /\ UNCHANGED copied

CacheStep(p) ==
  \/ CacheLookup(p) \/ OpenCached(p) \/ RemoveCached(p) \/ CompileBlock(p) \/ CheckInstalled(p)
  \/ Rename(p) \/ CopyBegin(p) \/ CopyEnd(p) \/ OpenInstalled(p) \/ RemoveBroken(p)

\* Sharing the cache does no harm: as long as files reach it by rename, a block
\* that compiles loads, whatever other processes compile, install, find broken
\* and remove, and wherever they are killed (NativeInterop.cpp:1027, 1033).
OnlyCompilerFails == ~copied => \A p \in Procs : pc[p] \notin {"remove broken", "dlopen failed"}
=============================================================================
