---------------------------- MODULE NanoRegistry ----------------------------
(***************************************************************************)
(* The static repository of styio-nano packages, src/src/main.cpp:         *)
(* --nano-publish writes a marker, a blob named by its SHA-256, and then   *)
(* the index entry of the package's version; --nano-create reads them,     *)
(* checks the blob it got against the entry, unpacks it into an output     *)
(* directory of its own and writes a receipt there.  One version of one    *)
(* package is modelled; a blob's content stands for its hash.  Files are   *)
(* written in place, with no lock and no rename.  Archives, fetched blobs  *)
(* and unpacked trees are temporary files named by the clock alone, so two *)
(* processes may come to share one.                                        *)
(***************************************************************************)
EXTENDS Processes

CONSTANT Contents  \* contents of the package

ASSUME ContentsAssumption == Absent \notin Contents /\ Torn \notin Contents

VARIABLES marker,   \* is styio-nano-repository.json "absent", "torn" or "whole"?
          entry,    \* the index entry: the content it names
          blob,     \* content -> its blob
          last,     \* content -> the process that truncated its blob last
          reopened, \* contents whose blob was truncated again and not finished since
          mixed,    \* contents whose blob was copied from an archive two processes shared
          damaged,  \* processes whose last installation was cut off, or came of shared files
          hand,     \* process -> the content it publishes or was promised, the blob it got,
                    \* and whether another process uses its temporary file too
          out       \* process -> its output directory: files and receipt

registryVars == <<marker, entry, blob, last, reopened, mixed, damaged, hand, out>>

EmptyHand == [content |-> Absent, got |-> Absent, shared |-> FALSE]

RegistryInit ==
  /\ marker = "absent" /\ entry = Absent
  /\ blob = [c \in Contents |-> Absent] /\ last = [c \in Contents |-> Absent]
  /\ reopened = {} /\ mixed = {} /\ damaged = {}
  /\ hand = [p \in Procs |-> EmptyHand]
  /\ out = [p \in Procs |-> [files |-> Absent, receipt |-> Absent]]

DropHand(p) == hand' = [hand EXCEPT ![p] = EmptyHand]

\* The end of a command: it is done, a read or a write has failed, or a file does
\* not parse.
Leave(p) == Goto(p, "idle") /\ DropHand(p)

\* styio_now_token_latest: a temporary file is named by the microsecond, and a
\* process that names one of the same kind in the same microsecond shares it.
NameTemporary(p, from, to) ==
  /\ Step(p, from, to)
  /\ \/ UNCHANGED hand
     \/ \E q \in Procs \ {p} :
          pc[q] = to /\ hand' = [hand EXCEPT ![p].shared = TRUE, ![q].shared = TRUE]
  /\ UNCHANGED <<marker, entry, blob, last, reopened, mixed, damaged, out>>

\* What p finds in the temporary file it made as f: another who uses it may have
\* written it since, or removed it.
Found(p, f) == IF hand[p].shared THEN Contents \cup {Torn} ELSE {f}

StartPublish(p) == Begin(p, "publish") /\ UNCHANGED registryVars

\* styio_ensure_writable_nano_repository_latest: a marker that is there but was
\* never completed is not repaired.
EnsureWritable(p) ==
  /\ pc[p] = "publish"
  /\ \/ marker = "absent" /\ Goto(p, "open marker") /\ UNCHANGED hand
     \/ marker = "torn" /\ Leave(p)
     \/ marker = "whole" /\ Goto(p, "archive") /\ UNCHANGED hand
  /\ UNCHANGED <<marker, entry, blob, last, reopened, mixed, damaged, out>>

\* Another may have come first: its marker is truncated again.
OpenMarker(p) ==
  /\ Step(p, "open marker", "write marker")
  /\ marker' = "torn"
  /\ UNCHANGED <<entry, blob, last, reopened, mixed, damaged, hand, out>>

WriteMarker(p) ==
  /\ Step(p, "write marker", "archive")
  /\ marker' \in {"whole", marker}
  /\ UNCHANGED <<entry, blob, last, reopened, mixed, damaged, hand, out>>

NameArchive(p) == NameTemporary(p, "archive", "tar")

\* Mutant of Archive: the entry is written before the blob.
ArchiveEntryFirst(p) ==
  /\ Step(p, "tar", "open blob")
  /\ \E c \in Contents : hand' = [hand EXCEPT ![p].content = c] /\ entry' = c
  /\ UNCHANGED <<marker, blob, last, reopened, mixed, damaged, out>>

\* tar, sha256: the content is what the archive holds when it is hashed.
Archive(p) ==
  /\ Step(p, "tar", "open blob")
  /\ \E c \in Contents : hand' = [hand EXCEPT ![p].content = c]
  /\ UNCHANGED <<marker, entry, blob, last, reopened, mixed, damaged, out>>

\* copy_file with overwrite_existing: a blob that is there is truncated.
OpenBlob(p) ==
  /\ Step(p, "open blob", "copy blob")
  /\ LET c == hand[p].content IN
       /\ blob' = [blob EXCEPT ![c] = Torn]
       /\ last' = [last EXCEPT ![c] = p]
       /\ reopened' = IF blob[c] = Absent THEN reopened ELSE reopened \cup {c}
       /\ mixed' = IF hand[p].shared THEN mixed \cup {c} ELSE mixed
  /\ UNCHANGED <<marker, entry, damaged, hand, out>>

\* Every byte is written by whoever truncated last; one who is not may leave a
\* hole where the other has not come yet.  What a shared archive has brought in
\* may be anything.
CopyBlob(p) ==
  /\ pc[p] = "copy blob"
  /\ LET c == hand[p].content IN
       \/ /\ last[c] = p /\ c \notin mixed
          /\ Goto(p, "open entry")
          /\ blob' = [blob EXCEPT ![c] = c] /\ reopened' = reopened \ {c}
          /\ UNCHANGED hand
       \/ /\ last[c] # p /\ c \notin mixed
          /\ Goto(p, "open entry")
          /\ blob' = [blob EXCEPT ![c] = c] \/ UNCHANGED blob
          /\ UNCHANGED <<reopened, hand>>
       \/ /\ c \in mixed
          /\ Goto(p, "open entry")
          /\ \E b \in Contents \cup {Torn} : blob' = [blob EXCEPT ![c] = b]
          /\ UNCHANGED <<reopened, hand>>
       \/ Leave(p) /\ UNCHANGED <<blob, reopened>>
  /\ UNCHANGED <<marker, entry, last, mixed, damaged, out>>

\* styio_write_nano_repository_entry_latest
OpenEntry(p) ==
  /\ Step(p, "open entry", "write entry")
  /\ entry' = Torn
  /\ UNCHANGED <<marker, blob, last, reopened, mixed, damaged, hand, out>>

WriteEntry(p) ==
  /\ pc[p] = "write entry" /\ Leave(p)
  /\ entry' \in {hand[p].content, Torn, entry}
  /\ UNCHANGED <<marker, blob, last, reopened, mixed, damaged, out>>

StartFetch(p) == Begin(p, "fetch marker") /\ UNCHANGED registryVars

FetchMarker(p) ==
  /\ Step(p, "fetch marker", IF marker = "whole" THEN "fetch entry" ELSE "idle")
  /\ UNCHANGED registryVars

FetchEntry(p) ==
  /\ pc[p] = "fetch entry"
  /\ \/ entry \in Contents /\ Goto(p, "fetch blob") /\ hand' = [hand EXCEPT ![p].content = entry]
     \/ entry \notin Contents /\ Leave(p)
  /\ UNCHANGED <<marker, entry, blob, last, reopened, mixed, damaged, out>>

NameBlob(p) == NameTemporary(p, "fetch blob", "download")

\* The blob is copied to the temporary file, if it is there and can be.
FetchBlob(p) ==
  /\ pc[p] = "download"
  /\ LET b == blob[hand[p].content] IN
       \/ /\ b # Absent /\ Goto(p, "verify")
          /\ \E f \in Found(p, b) : hand' = [hand EXCEPT ![p].got = f]
       \/ Leave(p)
  /\ UNCHANGED <<marker, entry, blob, last, reopened, mixed, damaged, out>>

\* Mutant of Verify: what was fetched is believed.
VerifyNothing(p) == Step(p, "verify", "extract") /\ UNCHANGED registryVars

\* Size and SHA-256 of the copy are those of the entry.
Verify(p) ==
  /\ pc[p] = "verify"
  /\ \/ hand[p].got = hand[p].content /\ Goto(p, "extract") /\ UNCHANGED hand
     \/ Leave(p)
  /\ UNCHANGED <<marker, entry, blob, last, reopened, mixed, damaged, out>>

NameTree(p) == NameTemporary(p, "extract", "install")

\* tar unpacks the copy, styio_copy_directory_contents_latest: files of an earlier installation are
\* overwritten one by one, and the receipt too if the package carries one.
Install(p) ==
  /\ Step(p, "install", "copy files")
  /\ \/ out' = [out EXCEPT ![p].files = Torn, ![p].receipt = Torn]
     \/ out' = [out EXCEPT ![p].files = Torn]
  /\ damaged' = damaged \cup {p}
  /\ UNCHANGED <<marker, entry, blob, last, reopened, mixed, hand>>

CopyFiles(p) ==
  /\ pc[p] = "copy files"
  /\ \/ /\ Goto(p, "open package receipt") /\ UNCHANGED hand
        /\ \E f \in Found(p, hand[p].got) : out' = [out EXCEPT ![p].files = f]
     \/ Leave(p) /\ UNCHANGED out
  /\ UNCHANGED <<marker, entry, blob, last, reopened, mixed, damaged>>

OpenPackageReceipt(p) ==
  /\ Step(p, "open package receipt", "write package receipt")
  /\ out' = [out EXCEPT ![p].receipt = Torn]
  /\ UNCHANGED <<marker, entry, blob, last, reopened, mixed, damaged, hand>>

WritePackageReceipt(p) ==
  /\ pc[p] = "write package receipt" /\ Leave(p)
  /\ out' \in {[out EXCEPT ![p].receipt = hand[p].content], out}
  /\ damaged' = IF hand[p].shared THEN damaged ELSE damaged \ {p}
  /\ UNCHANGED <<marker, entry, blob, last, reopened, mixed>>

RegistryStep(p) ==
  \/ StartPublish(p) \/ EnsureWritable(p) \/ OpenMarker(p) \/ WriteMarker(p)
  \/ NameArchive(p) \/ Archive(p) \/ OpenBlob(p) \/ CopyBlob(p) \/ OpenEntry(p) \/ WriteEntry(p)
  \/ StartFetch(p) \/ FetchMarker(p) \/ FetchEntry(p) \/ NameBlob(p) \/ FetchBlob(p) \/ Verify(p)
  \/ NameTree(p) \/ Install(p) \/ CopyFiles(p) \/ OpenPackageReceipt(p) \/ WritePackageReceipt(p)
-----------------------------------------------------------------------------
\* An index entry names a blob that is complete, unless a later publisher of the
\* same content has truncated it and has not finished, or it was copied from an
\* archive that two publishers wrote: no crash of a first publisher, and no
\* overlap of two with archives of their own, publishes a name before its blob
\* (main.cpp:2984).
EntryNamesBlob == entry \in Contents => blob[entry] = entry \/ entry \in reopened \cup mixed

\* A receipt names what is installed beside it: blobs that a publisher is writing,
\* or died writing, are not installed, whichever entry was read before (main.cpp:2813).
\* A receipt that an installation which was cut off has left from an earlier one
\* is not trusted, nor one of an installer whose temporary files another used.
InstalledIsPublished ==
  \A p \in Procs : out[p].receipt \in Contents /\ p \notin damaged => out[p].files = out[p].receipt
=============================================================================
