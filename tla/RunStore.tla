------------------------------ MODULE RunStore ------------------------------
(***************************************************************************)
(* VisualRunStore of src/visual/run-store.ts: how a content-addressed      *)
(* entry gets into the cache directory that several processes share.       *)
(*                                                                         *)
(* Runs, revisions and compiled artifacts are directories: they are        *)
(* written under a random name, the manifest last, and renamed into place. *)
(* PNGs, reviews and capture blobs are files: they are written under a     *)
(* random name, linked into place, made read-only, and the random name is  *)
(* removed.  Who comes second compares the content that is there, but not  *)
(* the manifest, which only a read looks at.  A read of a file compares    *)
(* the time of change before and after, which linking, chmod and removing  *)
(* the other name all move.                                                *)
(*                                                                         *)
(* Left out: names and limits of labels and sizes, symbolic links, and the *)
(* temporary names themselves, which no reader looks at.                   *)
(***************************************************************************)
EXTENDS Naturals, FiniteSets

CONSTANTS
  Processes,   \* server and CLI processes sharing the cache directory
  Entries,     \* what may be put, named by kind and content: <<kind, ...>>
  NoEntry

Kinds == {"run", "revision", "compiled", "png", "review"}
DirectoryKinds == {"run", "revision", "compiled"}

ASSUME EntriesAssumption == NoEntry \notin Entries /\ \A e \in Entries : e[1] \in Kinds

IsDirectory(e) == e[1] \in DirectoryKinds

VARIABLES
  visible, \* visible[e]: the parts at the name of e
  stamp,   \* stamp[e]: how often the file e has changed since it was linked
  altered, \* the parts that someone else has changed: <<entry, part>>
  work     \* work[p]: the entry process p is putting or reading

storeVars == <<visible, stamp, altered, work>>

Parts == {"content", "manifest"}
PartsOf(e) == IF IsDirectory(e) THEN Parts ELSE {"content"}

AtRest == {"free", "done", "failed"}
Steps == AtRest \cup {"stage", "install", "chmod", "unlink", "before", "after", "compare", "verify"}

Free == [entry |-> NoEntry, at |-> "free", staged |-> {}, stamp |-> 0]

StoreInit ==
  /\ visible = [e \in Entries |-> {}]
  /\ stamp = [e \in Entries |-> 0]
  /\ altered = {}
  /\ work = [p \in Processes |-> Free]

Published(e) == visible[e] # {}
Genuine(e, parts) == parts \subseteq visible[e] /\ \A part \in parts : <<e, part>> \notin altered

\* A call of put..., createRun or createRevision, and a call of read....
Put(p, e) == work' = [work EXCEPT ![p] = [Free EXCEPT !.entry = e, !.at = "stage"]]
Read(p, e) ==
  work' = [work EXCEPT ![p] =
    [Free EXCEPT !.entry = e, !.at = IF IsDirectory(e) THEN "verify" ELSE "before"]]

\* The call has returned, or its process has died.
Release(p) == work' = [work EXCEPT ![p] = Free] /\ UNCHANGED <<visible, stamp, altered>>

Working(p, step) == work[p].at = step
Move(p, step) == work' = [work EXCEPT ![p].at = step]

-----------------------------------------------------------------------------
\* Defect: the manifest is written like any other part, and is not waited for.
WritePartEarly(p) ==
  /\ Working(p, "stage")
  /\ \E part \in PartsOf(work[p].entry) \ work[p].staged :
       work' = [work EXCEPT ![p].staged = @ \cup {part}, ![p].at = "install"]
  /\ UNCHANGED <<visible, stamp, altered>>

\* writeFile of one file under the random name, the manifest last.
WritePart(p) ==
  LET e == work[p].entry
      missing == PartsOf(e) \ work[p].staged
      next == IF "content" \in missing THEN "content" ELSE "manifest"
  IN  /\ Working(p, "stage")
      /\ work' = [work EXCEPT ![p].staged = @ \cup {next},
                              ![p].at = IF missing = {next} THEN "install" ELSE "stage"]
      /\ UNCHANGED <<visible, stamp, altered>>

\* installImmutableDirectory: rename, which fails if the name is taken.
RenameDirectory(p) ==
  LET e == work[p].entry
  IN  /\ Working(p, "install") /\ IsDirectory(e)
      /\ IF Published(e)
         THEN Move(p, "compare") /\ UNCHANGED visible
         ELSE Move(p, "done") /\ visible' = [visible EXCEPT ![e] = work[p].staged]
      /\ UNCHANGED <<stamp, altered>>

\* link in writeImmutableFile, which fails if the name is taken.
LinkFile(p) ==
  LET e == work[p].entry
  IN  /\ Working(p, "install") /\ ~IsDirectory(e)
      /\ IF Published(e)
         THEN Move(p, "before") /\ UNCHANGED visible
         ELSE Move(p, "chmod") /\ visible' = [visible EXCEPT ![e] = work[p].staged]
      /\ UNCHANGED <<stamp, altered>>

\* chmod of the linked file, and rm of its random name: both change its times.
Chmod(p) ==
  /\ Working(p, "chmod") /\ Move(p, "unlink")
  /\ stamp' = [stamp EXCEPT ![work[p].entry] = @ + 1]
  /\ UNCHANGED <<visible, altered>>

Unlink(p) ==
  /\ Working(p, "unlink") /\ Move(p, "done")
  /\ stamp' = [stamp EXCEPT ![work[p].entry] = @ + 1]
  /\ UNCHANGED <<visible, altered>>

\* readStableNoFollow opens the file and looks at it ...
OpenFile(p) ==
  LET e == work[p].entry
  IN  /\ Working(p, "before")
      /\ IF Published(e)
         THEN work' = [work EXCEPT ![p].stamp = stamp[e], ![p].at = "after"]
         ELSE Move(p, "failed")
      /\ UNCHANGED <<visible, stamp, altered>>

\* ... and again once it has been read; then the hash is compared.
CloseFile(p) ==
  LET e == work[p].entry
  IN  /\ Working(p, "after")
      /\ Move(p, IF stamp[e] = work[p].stamp /\ Genuine(e, {"content"}) THEN "done" ELSE "failed")
      /\ UNCHANGED <<visible, stamp, altered>>

\* Defect: a directory with a manifest is taken for what was asked for.
VerifyDirectoryUnread(p) ==
  /\ Working(p, "verify")
  /\ Move(p, IF visible[work[p].entry] = Parts THEN "done" ELSE "failed")
  /\ UNCHANGED <<visible, stamp, altered>>

\* Who came second reads the files that it would have written, by their hashes, but
\* not the manifest beside them.
CompareDirectory(p) ==
  /\ Working(p, "compare")
  /\ Move(p, IF Genuine(work[p].entry, {"content"}) THEN "done" ELSE "failed")
  /\ UNCHANGED <<visible, stamp, altered>>

\* readRun, readRevision and readCompiled: the manifest names the directory, and
\* its files hash to what it says.
VerifyDirectory(p) ==
  /\ Working(p, "verify")
  /\ Move(p, IF Genuine(work[p].entry, Parts) THEN "done" ELSE "failed")
  /\ UNCHANGED <<visible, stamp, altered>>

StoreStep(p) ==
  \/ WritePart(p) \/ RenameDirectory(p) \/ LinkFile(p) \/ Chmod(p) \/ Unlink(p)
  \/ OpenFile(p) \/ CloseFile(p) \/ CompareDirectory(p) \/ VerifyDirectory(p)

\* An I/O error or an abort: the finally block removes the random name, which
\* changes the times of a file that has been linked.
GiveUp(p) ==
  /\ work' = [work EXCEPT ![p] = Free]
  /\ stamp' = IF work[p].at \in {"chmod", "unlink"}
              THEN [stamp EXCEPT ![work[p].entry] = @ + 1] ELSE stamp
  /\ UNCHANGED <<visible, altered>>

\* Someone else changes a file in the cache.
Tamper(e) ==
  /\ \E part \in visible[e] : <<e, part>> \notin altered /\ altered' = altered \cup {<<e, part>>}
  /\ UNCHANGED <<visible, stamp, work>>

-----------------------------------------------------------------------------
StoreTypeOK ==
  /\ visible \in [Entries -> SUBSET Parts]
  /\ stamp \in [Entries -> 0 .. 2]
  /\ altered \subseteq Entries \X Parts
  /\ work \in [Processes -> [entry : Entries \cup {NoEntry}, at : Steps,
                             staged : SUBSET Parts, stamp : 0 .. 2]]

Present == {e \in DOMAIN visible : Published(e)}
Whole == {e \in Present : visible[e] = PartsOf(e)}

Changed == {change[1] : change \in altered}

Readers == INSTANCE ImmutableStore WITH present <- Present, whole <- Whole, altered <- Changed

\* No reader ever finds part of an entry, or an entry with other content than
\* before, whatever two writers of one content, their crashes and their
\* failures do.
Publishes == Readers!Spec
=============================================================================
