-------------------------- MODULE FileTransaction --------------------------
(***************************************************************************)
(* commitFileTransaction of src/visual/transaction.ts: one transaction     *)
(* that installs N generated files into a workspace other programs write   *)
(* to, one file-system call per step.                                      *)
(*                                                                         *)
(* A file is named by who made it, which is what the code's device/inode   *)
(* comparison tells apart:                                                 *)
(*   "original"  the file a replacement expects at its destination         *)
(*   "staged"    the generated file (stage and destination are hard links) *)
(*   "foreign"   whatever another program put at the destination           *)
(* The content hash adds one bit, whether the file was edited in place.    *)
(* Only the transaction touches the .stage and .backup names and the       *)
(* journal, which carry its random id.  A directory swapped under the      *)
(* transaction is seen by the next revalidateParent; the syscall window    *)
(* the code documents as out of reach stays open for destinations only.    *)
(***************************************************************************)
EXTENDS Integers, FiniteSets

CONSTANTS N,        \* files in the transaction (at most MAX_TRANSACTION_FILES)
          Replaces, \* the files with an expectedSha256; the others must be absent
          Touched   \* the destinations other programs may write while it runs

Items == 1 .. N

ASSUME NAssumption == N \in Nat \ {0}
ASSUME ReplacesAssumption == Replaces \subseteq Items
ASSUME TouchedAssumption == Touched \subseteq Items

VARIABLES
  dest,        \* dest[i]: the file linked at the destination, or "none"
  backup,      \* backup[i]: the file linked at the .backup name
  stage,       \* stage[i]: the .stage file: "none", "partial" or "whole"
  edited,      \* the <<i, file>> whose content changed in place
  journal,     \* the journal file: "none", "partial" or "whole"
  seen,        \* seen[i]: whose identity is recorded: "stage" "backup" "output"
  installed,   \* the items with item.installed
  journalSeen, \* journalIdentity is recorded
  failed,      \* rollback has recorded a failure
  pc, k        \* the next file-system call, and the item it is for

disk == <<dest, backup, stage, edited, journal>>
memory == <<seen, installed, journalSeen, failed>>
vars == <<disk, memory, pc, k>>

Preparing == {"verify", "stage", "stageId", "journal", "journalId"}
Installing == {"check", "backup", "backupId", "link", "linkId"}
Finishing == {"output", "unstage", "outputCheck", "unbackup", "unjournal"}
RollingBack == {"rbCheck", "rbRemove", "rbRestore", "rbVerify", "rbUnbackup",
                "rbUnstage", "rbJournal"}
Outcomes == {"success", "error", "recovery", "crashed"}
Running == pc \notin Outcomes

Expected(i) == IF i \in Replaces THEN "original" ELSE "none"

Init ==
  /\ dest = [i \in Items |-> Expected(i)]
  /\ backup = [i \in Items |-> "none"]
  /\ stage = [i \in Items |-> "none"]
  /\ edited = {}
  /\ journal = "none"
  /\ seen = [i \in Items |-> {}]
  /\ installed = {}
  /\ journalSeen = FALSE
  /\ failed = FALSE
  /\ pc = "verify" /\ k = 1

-----------------------------------------------------------------------------
(* Control flow.                                                            *)

\* Defect: the loop stops before the last item.
EachItemButLast(again, after) ==
  IF k + 1 < N THEN pc' = again /\ k' = k + 1 ELSE pc' = after /\ k' = 1

\* The loop over `prepared` goes on with `again`, or ends with `after`.
EachItem(again, after) ==
  IF k < N THEN pc' = again /\ k' = k + 1 ELSE pc' = after /\ k' = 1

Goto(step) == pc' = step /\ k' = k

\* Defect: the reverse loop runs one item too far.
PreviousItemTooFar ==
  IF k > 0 THEN pc' = "rbCheck" /\ k' = k - 1 ELSE pc' = "rbJournal" /\ k' = k

\* The reverse loop of rollback.
PreviousItem ==
  IF k > 1 THEN pc' = "rbCheck" /\ k' = k - 1 ELSE pc' = "rbJournal" /\ k' = k

Recorded(i, what) == what \in seen[i]
Intact(i, file) == <<i, file>> \notin edited

-----------------------------------------------------------------------------
(* Preparation: no destination changes.                                     *)

\* verifyPreconditions of one item.
Verify ==
  /\ pc = "verify"
  /\ dest[k] = Expected(k) /\ (k \in Replaces => Intact(k, "original"))
  /\ EachItem("verify", "stage")
  /\ UNCHANGED <<disk, memory>>

\* A precondition does not hold, or cannot be read: `prepared` is still [].
Refuse ==
  /\ pc = "verify"
  /\ Goto("error")
  /\ UNCHANGED <<disk, memory>>

\* writeFile(item.staged, ..., 'wx').
Stage ==
  /\ pc = "stage"
  /\ stage' = [stage EXCEPT ![k] = "whole"]
  /\ Goto("stageId")
  /\ UNCHANGED <<dest, backup, edited, journal, memory>>

\* revalidateParent, lstat, stageIdentity.
StageIdentity ==
  /\ pc = "stageId"
  /\ seen' = [seen EXCEPT ![k] = @ \cup {"stage"}]
  /\ EachItem("stage", "journal")
  /\ UNCHANGED <<disk, installed, journalSeen, failed>>

\* writeFile(journalAbsolute, ..., 'wx').
WriteJournal ==
  /\ pc = "journal"
  /\ journal' = "whole"
  /\ Goto("journalId")
  /\ UNCHANGED <<dest, backup, stage, edited, memory>>

JournalIdentity ==
  /\ pc = "journalId"
  /\ journalSeen' = TRUE
  /\ pc' = "check" /\ k' = 1
  /\ UNCHANGED <<disk, seen, installed, failed>>

-----------------------------------------------------------------------------
(* Installation of item k.                                                  *)

\* The abort check; for a replacement, requireKnownFile(destination) and the
\* backup name must be free.
CheckDestination ==
  /\ pc = "check"
  /\ k \in Replaces => dest[k] = "original" /\ backup[k] = "none"
  /\ Goto(IF k \in Replaces THEN "backup" ELSE "link")
  /\ UNCHANGED <<disk, memory>>

\* rename(destination, backup) moves whatever is there by now.
Backup ==
  /\ pc = "backup"
  /\ dest[k] # "none"
  /\ backup' = [backup EXCEPT ![k] = dest[k]]
  /\ dest' = [dest EXCEPT ![k] = "none"]
  /\ Goto("backupId")
  /\ UNCHANGED <<stage, edited, journal, memory>>

\* The moved file must still be the expected one, by identity and by hash.
BackupIdentity ==
  /\ pc = "backupId"
  /\ backup[k] = "original" /\ Intact(k, "original")
  /\ seen' = [seen EXCEPT ![k] = @ \cup {"backup"}]
  /\ Goto("link")
  /\ UNCHANGED <<disk, installed, journalSeen, failed>>

\* Defect: rename(stage, destination), which replaces a concurrent writer.
LinkReplacing ==
  /\ pc = "link"
  /\ Recorded(k, "stage")
  /\ dest' = [dest EXCEPT ![k] = "staged"]
  /\ installed' = installed \cup {k}
  /\ Goto("linkId")
  /\ UNCHANGED <<backup, stage, edited, journal, seen, journalSeen, failed>>

\* link(stage, destination), which refuses to replace.
Link ==
  /\ pc = "link"
  /\ Recorded(k, "stage")
  /\ dest[k] = "none"
  /\ dest' = [dest EXCEPT ![k] = "staged"]
  /\ installed' = installed \cup {k}
  /\ Goto("linkId")
  /\ UNCHANGED <<backup, stage, edited, journal, seen, journalSeen, failed>>

\* Defect: the backup of an item goes as soon as that item is installed.
LinkIdentityDropsBackup ==
  /\ pc = "linkId"
  /\ dest[k] = "staged"
  /\ seen' = [seen EXCEPT ![k] = @ \cup {"output"}]
  /\ backup' = [backup EXCEPT ![k] = "none"]
  /\ EachItem("check", "output")
  /\ UNCHANGED <<dest, stage, edited, journal, installed, journalSeen, failed>>

\* installedIdentity; after the last item, commitComplete.
LinkIdentity ==
  /\ pc = "linkId"
  /\ dest[k] = "staged"
  /\ seen' = [seen EXCEPT ![k] = @ \cup {"output"}]
  /\ EachItem("check", "output")
  /\ UNCHANGED <<disk, installed, journalSeen, failed>>

-----------------------------------------------------------------------------
(* commitComplete: from here on nothing is undone.                          *)

\* The installed file must still be the generated one.
VerifyOutput ==
  /\ pc = "output"
  /\ dest[k] = "staged" /\ Intact(k, "staged")
  /\ EachItem("output", "unstage")
  /\ UNCHANGED <<disk, memory>>

Unstage ==
  /\ pc = "unstage"
  /\ stage' = [stage EXCEPT ![k] = "none"]
  /\ EachItem("unstage", "outputCheck")
  /\ UNCHANGED <<dest, backup, edited, journal, memory>>

\* "output verification before backup cleanup".
RecheckOutput ==
  /\ pc = "outputCheck"
  /\ backup[k] # "none" => dest[k] = "staged"
  /\ Goto("unbackup")
  /\ UNCHANGED <<disk, memory>>

Unbackup ==
  /\ pc = "unbackup"
  /\ backup' = [backup EXCEPT ![k] = "none"]
  /\ EachItem("outputCheck", "unjournal")
  /\ UNCHANGED <<dest, stage, edited, journal, memory>>

Succeed ==
  /\ pc = "unjournal"
  /\ journal' = "none"
  /\ Goto("success")
  /\ UNCHANGED <<dest, backup, stage, edited, memory>>

\* The catch block after commitComplete: report, touch nothing.
FinishFails ==
  /\ pc \in Finishing
  /\ Goto("recovery")
  /\ UNCHANGED <<disk, memory>>

-----------------------------------------------------------------------------
(* Failures before commitComplete.                                          *)

StartRollback == pc' = "rbCheck" /\ k' = N

\* A check or a call fails, or the signal is aborted.
Throw ==
  /\ pc \in (Preparing \ {"verify"}) \cup Installing
  /\ StartRollback
  /\ UNCHANGED <<disk, memory>>

\* writeFile fails after it created the file: no flag records the remains.
TornWrite ==
  /\ \/ pc = "stage" /\ stage' = [stage EXCEPT ![k] = "partial"] /\ journal' = journal
     \/ pc = "journal" /\ journal' = "partial" /\ stage' = stage
  /\ StartRollback
  /\ UNCHANGED <<dest, backup, edited, memory>>

\* revalidateParent throws ParentIdentityMismatchError: no rollback.
ParentChanged ==
  /\ pc \in (Preparing \ {"verify"}) \cup Installing
  /\ pc = "check" => k \in Replaces
  /\ Goto("recovery")
  /\ UNCHANGED <<disk, memory>>

-----------------------------------------------------------------------------
(* rollback(prepared), from the last item to the first.                     *)

\* What is installed must be recorded, ours and unedited to be removed.
RbCheck ==
  /\ pc = "rbCheck"
  /\ k \in installed =>
       Recorded(k, "output") /\ dest[k] = "staged" /\ Intact(k, "staged")
  /\ Goto(IF k \in installed THEN "rbRemove" ELSE "rbRestore")
  /\ UNCHANGED <<disk, memory>>

\* unlink(destination) removes whatever is there by now.
RbRemove ==
  /\ pc = "rbRemove"
  /\ dest[k] # "none"
  /\ dest' = [dest EXCEPT ![k] = "none"]
  /\ installed' = installed \ {k}
  /\ Goto("rbRestore")
  /\ UNCHANGED <<backup, stage, edited, journal, seen, journalSeen, failed>>

\* link(backup, destination), which refuses to replace.
RbRestore ==
  /\ pc = "rbRestore"
  /\ \/ backup[k] = "none" /\ dest' = dest /\ Goto("rbUnstage")
     \/ /\ backup[k] # "none" /\ Recorded(k, "backup") /\ dest[k] = "none"
        /\ dest' = [dest EXCEPT ![k] = backup[k]]
        /\ Goto("rbVerify")
  /\ UNCHANGED <<backup, stage, edited, journal, memory>>

RbVerify ==
  /\ pc = "rbVerify"
  /\ dest[k] = backup[k]
  /\ Goto("rbUnbackup")
  /\ UNCHANGED <<disk, memory>>

RbUnbackup ==
  /\ pc = "rbUnbackup"
  /\ backup' = [backup EXCEPT ![k] = "none"]
  /\ Goto("rbUnstage")
  /\ UNCHANGED <<dest, stage, edited, journal, memory>>

\* item.stageCreated is the whole stage; its identity may be unrecorded.
RbUnstage ==
  /\ pc = "rbUnstage"
  /\ stage[k] = "whole" => Recorded(k, "stage")
  /\ stage' = [stage EXCEPT ![k] = IF @ = "whole" THEN "none" ELSE @]
  /\ PreviousItem
  /\ UNCHANGED <<dest, backup, edited, journal, memory>>

\* Defect: a failure of one item is swallowed.
RbItemFailsSilently ==
  /\ \/ pc = "rbCheck" /\ k \in installed
     \/ pc = "rbRestore" /\ backup[k] # "none"
     \/ pc = "rbUnstage" /\ stage[k] = "whole"
     \/ pc \in {"rbRemove", "rbVerify", "rbUnbackup"}
  /\ PreviousItem
  /\ UNCHANGED <<disk, memory>>

\* One call or check of this item fails: the item is left as it is.
RbItemFails ==
  /\ \/ pc = "rbCheck" /\ k \in installed
     \/ pc = "rbRestore" /\ backup[k] # "none"
     \/ pc = "rbUnstage" /\ stage[k] = "whole"
     \/ pc \in {"rbRemove", "rbVerify", "rbUnbackup"}
  /\ failed' = TRUE
  /\ PreviousItem
  /\ UNCHANGED <<disk, seen, installed, journalSeen>>

\* Defect: the journal goes although an item could not be rolled back.
RbFinishForgetful ==
  /\ pc = "rbJournal"
  /\ journal' = IF journal = "whole" THEN "none" ELSE journal
  /\ Goto(IF failed THEN "recovery" ELSE "error")
  /\ UNCHANGED <<dest, backup, stage, edited, memory>>

\* Everything was undone: the journal goes and the first error is rethrown.
RbFinish ==
  /\ pc = "rbJournal"
  /\ ~failed /\ (journal = "whole" => journalSeen)
  /\ journal' = IF journal = "whole" THEN "none" ELSE journal
  /\ Goto("error")
  /\ UNCHANGED <<dest, backup, stage, edited, memory>>

\* Something was not, or the journal cannot be identified or unlinked.
RbGiveUp ==
  /\ pc = "rbJournal"
  /\ failed \/ journal = "whole"
  /\ Goto("recovery")
  /\ UNCHANGED <<disk, memory>>

-----------------------------------------------------------------------------
(* The rest of the machine.                                                 *)

\* The process dies between two calls.
Crash ==
  /\ Running
  /\ Goto("crashed")
  /\ UNCHANGED <<disk, memory>>

\* Another program saves over, removes or edits a destination.
ForeignWrite(i) ==
  /\ Running
  /\ \/ dest' = [dest EXCEPT ![i] = "foreign"] /\ edited' = edited
     \/ /\ dest[i] # "none"
        /\ dest' = [dest EXCEPT ![i] = "none"] /\ edited' = edited
     \/ /\ dest[i] \in {"original", "staged"}
        /\ edited' = edited \cup {<<i, dest[i]>>} /\ dest' = dest
  /\ UNCHANGED <<backup, stage, journal, memory, pc, k>>

Prepare ==
  Verify \/ Refuse \/ Stage \/ StageIdentity \/ WriteJournal \/ JournalIdentity
Install ==
  CheckDestination \/ Backup \/ BackupIdentity \/ Link \/ LinkIdentity
Finish ==
  VerifyOutput \/ Unstage \/ RecheckOutput \/ Unbackup \/ Succeed \/ FinishFails
RollBack ==
  \/ RbCheck \/ RbRemove \/ RbRestore \/ RbVerify \/ RbUnbackup \/ RbUnstage
  \/ RbItemFails \/ RbFinish \/ RbGiveUp

Transaction ==
  Prepare \/ Install \/ Finish \/ Throw \/ TornWrite \/ ParentChanged \/ RollBack

Next == Transaction \/ Crash \/ \E i \in Touched : ForeignWrite(i)

Spec == Init /\ [][Next]_vars

-----------------------------------------------------------------------------
\* Type invariant.
TypeOK ==
  /\ dest \in [Items -> {"none", "original", "staged", "foreign"}]
  /\ backup \in [Items -> {"none", "original", "staged", "foreign"}]
  /\ stage \in [Items -> {"none", "partial", "whole"}]
  /\ edited \subseteq Items \X {"original", "staged"}
  /\ journal \in {"none", "partial", "whole"}
  /\ seen \in [Items -> SUBSET {"stage", "backup", "output"}]
  /\ installed \subseteq Items
  /\ journalSeen \in BOOLEAN
  /\ failed \in BOOLEAN
  /\ pc \in Preparing \cup Installing \cup Finishing \cup RollingBack \cup Outcomes
  /\ k \in Items

Linked(i, file) == dest[i] = file \/ backup[i] = file

\* A step of the transaction (not of another program) removes a file's last name.
Unlinks(i, file) ==
  /\ pc' # pc \/ k' # k
  /\ Linked(i, file) /\ ~Linked(i, file)'

\* Whatever moment the process dies at or gives up, a workspace the transaction
\* has changed (a destination moved aside, a generated file in place) has the
\* whole journal that says so; only a reported success has none.
ChangesAreJournalled ==
  (\E i \in Items : backup[i] # "none" \/ dest[i] = "staged")
     => journal = "whole" \/ pc = "success"

\* "Backups ... are removed only after every destination has been installed":
\* a step of the transaction that removes the last name of a file it replaces
\* finds every destination holding its generated file.  (During rollback
\* another program may overwrite a destination already restored from it.)
OriginalsOutliveInstall ==
  [][\A i \in Items : Unlinks(i, "original")
       => \/ /\ pc = "unbackup"
             /\ \A j \in Items \ Touched : dest[j] = "staged"
          \/ pc = "rbUnbackup" /\ i \in Touched]_vars

\* The transaction never destroys another program's work, neither a file put
\* at a destination nor an in-place edit of the original, except in the window
\* the code documents: rollback's unlink just after its last lstat.
ForeignWorkKept ==
  [][\A i \in Items :
       /\ Unlinks(i, "foreign") => pc = "rbRemove" /\ i = k
       /\ Unlinks(i, "original") => Intact(i, "original") \/ pc = "rbUnbackup"]_vars

\* An ordinary error means that the workspace is as it was: every destination
\* nobody else wrote holds its original (or nothing), no generated file is
\* left in place, no backup and no journal to recover from.
ErrorMeansUndone ==
  pc = "error" =>
    /\ \A i \in Items : dest[i] # "staged" /\ backup[i] = "none" /\ stage[i] # "whole"
    /\ \A i \in Items \ Touched : dest[i] = Expected(i)
    /\ journal # "whole"

\* Success means that everything is installed and nothing is left over.
SuccessMeansInstalled ==
  pc = "success" =>
    /\ \A i \in Items : backup[i] = "none" /\ stage[i] = "none" /\ dest[i] # "original"
    /\ \A i \in Items \ Touched : dest[i] = "staged"
    /\ journal = "none"

-----------------------------------------------------------------------------
(* The promise, for the destinations nobody else writes.                    *)

Untouched == Items \ Touched

Atomic == INSTANCE AtomicReplacement WITH
  oldKept <- \A i \in Untouched \cap Replaces : Linked(i, "original"),
  newInstalled <- \A i \in Untouched : dest[i] = "staged",
  outcome <- IF Running THEN "running" ELSE pc

\* commitFileTransaction implements AtomicReplacement.
AllOrNothing == Atomic!Spec
=============================================================================
