---------------------------- MODULE VisualCommit ----------------------------
(***************************************************************************)
(* The life of one visual revision in src/visual/workflow.ts: compile,     *)
(* connect, render, capture, commit and project build, over the workflow   *)
(* state file (workflow-state.ts), the commit receipts kept in the         *)
(* workspace and the journals that transactions leave behind.              *)
(*                                                                         *)
(* A process runs one operation of the project at a time (the project      *)
(* lock); nothing serialises two processes that share the cache directory, *)
(* so an update of the state file is a read and a later write.  Artifacts  *)
(* are content-addressed: a compiled artifact is named by the compiler's   *)
(* output, a proposal by its artifact and the destination it expects, a    *)
(* receipt by its proposal and the capture it binds.  The spec, the        *)
(* manifest and the textures are fixed with the revision.  The generated   *)
(* files are one destination; the file transaction is one step with the    *)
(* outcomes that FileTransaction establishes.                              *)
(***************************************************************************)
EXTENDS Naturals, FiniteSets

CONSTANTS
  Processes, \* server and CLI processes sharing the cache directory
  May,       \* May[p]: the operations process p runs
  Edits,     \* bound: how often the packs are edited outside the destination
  ArtOf,     \* ArtOf[v]: the artifact compiled while the packs are at version v
  Ready,     \* the artifacts whose render report passes
  Reports,   \* client-capture report hashes
  Passing,   \* the reports that pass and whose capture implements the proposal
  MaxReceipts, MaxJournals, \* bounds: receipts in the workspace, journals retained
  None,      \* no value
  Foreign    \* whatever else the destination may hold, nothing included

Operations == {"compile", "connect", "render", "capture", "commit", "build"}
Versions == 0 .. Edits
Arts == {ArtOf[v] : v \in Versions}
Contents == Arts \cup {Foreign}

ASSUME MayAssumption == May \in [Processes -> SUBSET Operations]
ASSUME BoundsAssumption == {Edits, MaxReceipts, MaxJournals} \subseteq Nat
ASSUME ArtsAssumption ==
  /\ ArtOf \in [Versions -> Arts]
  /\ Ready \subseteq Arts /\ Passing \subseteq Reports
  /\ None # Foreign /\ {None, Foreign} \cap (Arts \cup Reports) = {}

Proposals == [art : Arts, expected : Contents]
Captures == [proposal : Proposals, packs : Versions, report : Reports]
Receipts == [proposal : Proposals, capture : Captures]
Option(S) == S \cup {None}
Records == [compiled : Option(Arts), proposal : Option(Proposals),
            render : Option(Arts), capture : Option(Captures),
            receipt : Option(Receipts)]

ASSUME NoneAssumption ==
  /\ None \notin Operations /\ None \notin Records
  /\ None \notin Proposals /\ None \notin Captures /\ None \notin Receipts

VARIABLES
  state,    \* the revision's record in the workflow state file
  packs,    \* the version of the packs, the destination left out
  dest,     \* the content at the generated files' destination
  receipts, \* the receipt files in the workspace
  journals, \* whose journal is retained: a proposal, or None if malformed
  job,      \* job[p]: the operation process p is in
  alone     \* history: no two processes have been in operations at once

workspace == <<packs, dest, receipts, journals>>
vars == <<state, workspace, job, alone>>

Updates == {"compiled", "connected", "rendered", "captured", "committed"}
Steps == Updates \cup {"load", "reconcile", "prepare", "hash", "overlay", "shoot", "evidence",
                       "accept", "recheck", "reread", "install", "confirm",
                       "check", "scan", "rescan"}
Ends == {"idle", "success", "refused"}

Nothing == [compiled |-> None, proposal |-> None, render |-> None,
            capture |-> None, receipt |-> None]

\* op, at: the operation and its next step; proposal, capture: those the caller
\* names or the operation makes; record: the record the operation works from;
\* read: what an update has read; art: the compiled artifact; snapshot: of a scan.
Jobs == [op : Option(Operations), at : Steps \cup Ends,
         proposal : Option(Proposals), capture : Option(Captures),
         record : Records, read : Option(Records), art : Option(Arts),
         snapshot : Option([packs : Versions, dest : Contents])]

Idle == [op |-> None, at |-> "idle", proposal |-> None, capture |-> None,
         record |-> Nothing, read |-> None, art |-> None, snapshot |-> None]

Init ==
  /\ state = Nothing
  /\ packs = 0 /\ dest = Foreign
  /\ receipts = {} /\ journals = {}
  /\ job = [p \in Processes |-> Idle]
  /\ alone = TRUE

-----------------------------------------------------------------------------
(* Control.                                                                 *)

At(p, step) == job[p].at = step
Goto(p, step) == job' = [job EXCEPT ![p].at = step]
Finish(p, end) == job' = [job EXCEPT ![p] = [Idle EXCEPT !.at = end]]

\* A guard throws (transaction_recovery_required included): the operation ends
\* and has changed nothing further.
Refuse(p) == Finish(p, "refused") /\ UNCHANGED <<state, workspace, alone>>

\* The operation goes on if the condition holds, and is refused if not.
Require(p, condition, step) ==
  IF condition THEN Goto(p, step) /\ UNCHANGED <<state, workspace, alone>>
               ELSE Refuse(p)

\* The caller names the proposal and the report it reviewed.
Begin(p, op) ==
  /\ job[p].at \in Ends
  /\ op \in {"capture", "commit"} => state.proposal # None
  /\ op = "commit" => state.capture # None
  /\ job' = [job EXCEPT ![p] =
       [Idle EXCEPT !.op = op, !.at = "load",
                    !.proposal = IF op \in {"capture", "commit"} THEN state.proposal ELSE None,
                    !.capture = IF op = "commit" THEN state.capture ELSE None]]
  /\ alone' = (alone /\ \A q \in Processes \ {p} : job[q].at \in Ends)
  /\ UNCHANGED <<state, workspace>>

-----------------------------------------------------------------------------
(* loadRevision and the reconciliation of the durable receipt.              *)

\* Defect: a receipt counts only while its output is in place.
ReceiptInForce(proposal) ==
  dest = proposal.art /\ \E r \in receipts : r.proposal = proposal

ReceiptExists(proposal) == \E r \in receipts : r.proposal = proposal

Receipt(proposal, capture) == [proposal |-> proposal, capture |-> capture]

\* The receipt has to be looked at: the file or the record says so.
Bound(record) ==
  record.proposal # None /\ (ReceiptExists(record.proposal) \/ record.receipt # None)

\* A journal that is malformed, or that lists this proposal's receipt.
JournalBlocks(proposal) == {proposal, None} \cap journals # {}

\* Defect: whatever capture the receipt binds, it verifies.
VerifiesAnyCapture(proposal, capture) ==
  ReceiptExists(proposal) /\ ~JournalBlocks(proposal) /\ dest = proposal.art

\* verifyVisualCommitReceipt: the receipt binds just this proposal and capture,
\* no journal questions it, and the outputs are in place.
Verifies(proposal, capture) ==
  /\ Receipt(proposal, capture) \in receipts
  /\ ~JournalBlocks(proposal)
  /\ dest = proposal.art

Reconciles(record) ==
  Bound(record) =>
    /\ record.proposal.art = record.compiled
    /\ record.receipt \in {None, Receipt(record.proposal, record.capture)}
    /\ Verifies(record.proposal, record.capture)

Load(p) ==
  /\ At(p, "load")
  /\ job' = [job EXCEPT ![p].record = state, ![p].at = "reconcile"]
  /\ UNCHANGED <<state, workspace, alone>>

AfterLoad(op) == CASE op = "commit" -> "accept"
                   [] op = "build" -> "check"
                   [] OTHER -> "prepare"

\* A revision whose receipt verifies is committed, whatever the cache says; a
\* committed revision is not captured again.
Reconcile(p) ==
  LET record == job[p].record
  IN  /\ At(p, "reconcile")
      /\ IF ~Reconciles(record) \/ (Bound(record) /\ job[p].op = "capture") THEN Refuse(p)
         ELSE /\ job' = [job EXCEPT ![p].at = AfterLoad(job[p].op),
                  ![p].record.receipt =
                     IF Bound(record) THEN Receipt(record.proposal, record.capture) ELSE None]
              /\ UNCHANGED <<state, workspace, alone>>

-----------------------------------------------------------------------------
(* VisualWorkflowStateStore.update.                                         *)

\* update() reads the state file ...
Fetch(p) ==
  /\ job[p].at \in Updates /\ job[p].read = None
  /\ job' = [job EXCEPT ![p].read = state]
  /\ UNCHANGED <<state, workspace, alone>>

Fetched(p, update) == At(p, update) /\ job[p].read # None

\* ... and renames the new one into place.
Save(p, record, step) ==
  /\ state' = record
  /\ IF step \in Ends THEN Finish(p, step)
     ELSE job' = [job EXCEPT ![p].record = record, ![p].read = None, ![p].art = None,
                             ![p].at = step]
  /\ UNCHANGED <<workspace, alone>>

-----------------------------------------------------------------------------
(* ensureCompiled, shared by compile, connect, render, capture and commit.  *)

\* The spec and what it takes from the packs are compiled and stored.
Prepare(p) ==
  /\ At(p, "prepare")
  /\ job' = [job EXCEPT ![p].art = ArtOf[packs], ![p].at = "compiled"]
  /\ UNCHANGED <<state, workspace, alone>>

AfterCompile(op) == CASE op = "compile" -> "success"
                      [] op = "connect" -> "hash"
                      [] op = "render" -> "rendered"
                      [] op = "capture" -> "overlay"
                      [] OTHER -> "recheck"

\* Defect: what was derived from the earlier artifact is kept.
CompiledKeepsDerivatives(p) ==
  /\ Fetched(p, "compiled")
  /\ Save(p, [job[p].read EXCEPT !.compiled = job[p].art], AfterCompile(job[p].op))

\* withoutCompiledDerivatives: a new artifact drops all that was derived.
Compiled(p) ==
  /\ Fetched(p, "compiled")
  /\ Save(p, IF job[p].read.compiled = job[p].art THEN job[p].read
             ELSE [Nothing EXCEPT !.compiled = job[p].art],
          AfterCompile(job[p].op))

-----------------------------------------------------------------------------
(* visual_connect and visual_render.                                        *)

\* destinationSha256 of every destination; the proposal is stored.
HashDestination(p) ==
  /\ At(p, "hash")
  /\ job' = [job EXCEPT
       ![p].proposal = [art |-> job[p].record.compiled, expected |-> dest],
       ![p].at = "connected"]
  /\ UNCHANGED <<state, workspace, alone>>

\* withoutCommittedTransaction: a new proposal drops its capture and receipt.
Connected(p) ==
  /\ Fetched(p, "connected")
  /\ LET kept == IF job[p].read.proposal = job[p].proposal THEN job[p].read
                 ELSE [job[p].read EXCEPT !.capture = None, !.receipt = None]
     IN  Save(p, [kept EXCEPT !.proposal = job[p].proposal], "success")

\* The views and the report are stored under the compiled artifact.
Rendered(p) ==
  /\ Fetched(p, "rendered")
  /\ Save(p, [job[p].read EXCEPT !.render = job[p].record.compiled], "success")

-----------------------------------------------------------------------------
(* visual_capture.                                                          *)

\* readProposalOverlay, from the state file of the moment.
OverlayReadable ==
  /\ state.proposal # None /\ Reconciles(state)
  /\ state.proposal.art = state.compiled
  /\ dest \in {state.proposal.expected, state.proposal.art}

Overlay(p) ==
  /\ At(p, "overlay")
  /\ Require(p, /\ job[p].record.proposal = job[p].proposal
                /\ OverlayReadable /\ state.proposal = job[p].proposal
                /\ job[p].proposal.art = job[p].record.compiled,
             "shoot")

\* The packs are staged with the proposal and Minecraft makes a report.
Shoot(p) ==
  /\ At(p, "shoot")
  /\ \E report \in Reports :
       job' = [job EXCEPT ![p].at = "captured",
         ![p].capture = [proposal |-> job[p].proposal, packs |-> packs, report |-> report]]
  /\ UNCHANGED <<state, workspace, alone>>

\* verifyClientCaptureEvidence: the record belongs together, the overlay can be
\* read and the packs are those captured.
EvidenceVerifies(record) ==
  /\ record.capture # None
  /\ record.capture.proposal = record.proposal
  /\ record.proposal.art = record.compiled
  /\ OverlayReadable
  /\ state.proposal.art = record.proposal.art
  /\ packs = record.capture.packs

\* "Visual inputs changed while Minecraft was capturing the proposal."
Captured(p) ==
  /\ Fetched(p, "captured")
  /\ IF /\ job[p].read.compiled = job[p].record.compiled
        /\ job[p].read.proposal = job[p].proposal
     THEN Save(p, [job[p].read EXCEPT !.capture = job[p].capture], "evidence")
     ELSE Refuse(p)

\* The evidence is verified once more; the state file keeps it in any case.
Evidence(p) ==
  /\ At(p, "evidence")
  /\ IF EvidenceVerifies(job[p].record)
     THEN Finish(p, "success") /\ UNCHANGED <<state, workspace, alone>>
     ELSE Refuse(p)

-----------------------------------------------------------------------------
(* visual_commit.                                                           *)

\* verifyClientCaptureEvidence, of a passing report that implements the proposal.
Accepted(record) == EvidenceVerifies(record) /\ record.capture.report \in Passing

\* Defect: the stored report is trusted without being verified.
AcceptUnverified(p) ==
  /\ At(p, "accept")
  /\ Require(p, job[p].record.proposal = job[p].proposal,
       IF job[p].record.receipt = Receipt(job[p].proposal, job[p].capture)
       THEN "committed" ELSE "prepare")

\* Defect: the record of a retry is not recognised.
AcceptAgain(p) ==
  /\ At(p, "accept")
  /\ Require(p, /\ job[p].record.proposal = job[p].proposal
                /\ job[p].record.capture = job[p].capture
                /\ Accepted(job[p].record),
       "prepare")

\* The accepted proposal and capture are the current ones; a retry of what is
\* committed only confirms it.
Accept(p) ==
  /\ At(p, "accept")
  /\ Require(p, /\ job[p].record.proposal = job[p].proposal
                /\ job[p].record.capture = job[p].capture
                /\ Accepted(job[p].record),
       IF job[p].record.receipt = Receipt(job[p].proposal, job[p].capture)
       THEN "committed" ELSE "prepare")

\* verifyRenderProfileEvidence: rendering the artifact again gives the stored
\* views and measurements, none of which has failed.
RenderVerifies(record) == record.render = record.compiled /\ record.render \in Ready

\* The artifact compiled again, its render and the report re-rendered from it.
Recheck(p) ==
  LET record == job[p].record
  IN  /\ At(p, "recheck")
      /\ Require(p, /\ record.compiled = job[p].proposal.art
                    /\ record.proposal = job[p].proposal
                    /\ RenderVerifies(record),
                 "reread")

\* acceptingState: the proposal is still the current one.
Reread(p) ==
  /\ At(p, "reread")
  /\ Require(p, state.proposal = job[p].proposal, "install")

\* commitFileTransaction of the outputs and, last, of the receipt.
Install(p) ==
  LET proposal == job[p].proposal
  IN  /\ At(p, "install")
      /\ IF dest # proposal.expected \/ ReceiptExists(proposal) THEN Refuse(p)
         ELSE /\ Cardinality(receipts) < MaxReceipts
              /\ dest' = proposal.art
              /\ receipts' = receipts \cup {Receipt(proposal, job[p].capture)}
              /\ Goto(p, "confirm")
              /\ UNCHANGED <<state, packs, journals, alone>>

\* The transaction stops part way: transaction_recovery_required or a crash.
InstallBreaks(p) ==
  LET proposal == job[p].proposal
  IN  /\ At(p, "install")
      /\ dest = proposal.expected /\ ~ReceiptExists(proposal)
      /\ Cardinality(journals) < MaxJournals
      /\ dest' \in {proposal.expected, Foreign, proposal.art}
      /\ \/ receipts' = receipts
         \/ /\ dest' = proposal.art
            /\ Cardinality(receipts) < MaxReceipts
            /\ receipts' = receipts \cup {Receipt(proposal, job[p].capture)}
      /\ journals' = journals \cup {proposal}
      /\ Finish(p, "idle")
      /\ UNCHANGED <<state, packs, alone>>

\* verifyVisualCommitReceipt of what was installed.
Confirm(p) ==
  /\ At(p, "confirm")
  /\ Require(p, Verifies(job[p].proposal, job[p].capture), "committed")

\* Defect: the state file's receipt is written whatever proposal is current.
CommittedUnchecked(p) ==
  /\ Fetched(p, "committed")
  /\ Save(p, [job[p].read EXCEPT !.receipt = Receipt(job[p].proposal, None)], "success")

\* persistCommitReceipt.
Committed(p) ==
  /\ Fetched(p, "committed")
  /\ Save(p, IF job[p].read.proposal = job[p].proposal
             THEN [job[p].read EXCEPT !.receipt = Receipt(job[p].proposal, job[p].capture)]
             ELSE state,
          "success")

\* The cache cannot be written, which persistCommitReceipt swallows.
CommittedUnpersisted(p) ==
  /\ At(p, "committed")
  /\ Finish(p, "success")
  /\ UNCHANGED <<state, workspace, alone>>

-----------------------------------------------------------------------------
(* project_build.                                                           *)

\* validateDraft: rendered, bound, committed and captured.
CheckReadiness(p) ==
  LET record == job[p].record
  IN  /\ At(p, "check")
      /\ Require(p, /\ record.proposal # None /\ record.proposal.art = record.compiled
                    /\ RenderVerifies(record)
                    /\ record.receipt # None /\ dest = record.proposal.art
                    /\ Accepted(record),
                 "scan")

\* scanDatapack and readPackSnapshot of both packs.
Scan(p) ==
  /\ At(p, "scan")
  /\ job' = [job EXCEPT ![p].snapshot = [packs |-> packs, dest |-> dest],
                        ![p].at = "rescan"]
  /\ UNCHANGED <<state, workspace, alone>>

\* Neither pack changed since: the two archives are installed.
Rescan(p) ==
  /\ At(p, "rescan")
  /\ IF job[p].snapshot = [packs |-> packs, dest |-> dest]
     THEN Finish(p, "success") /\ UNCHANGED <<state, workspace, alone>>
     ELSE Refuse(p)

-----------------------------------------------------------------------------
(* The rest of the world.                                                   *)

\* An I/O error, an abort, or the process dies: what it knew is lost.
Fail(p) ==
  /\ job[p].at \notin Ends
  /\ Finish(p, "idle")
  /\ UNCHANGED <<state, workspace, alone>>

EditPacks ==
  /\ packs < Edits /\ packs' = packs + 1
  /\ UNCHANGED <<state, dest, receipts, journals, job, alone>>

\* The generated files are edited or removed by someone else.
EditDestination ==
  /\ dest # Foreign /\ dest' = Foreign
  /\ UNCHANGED <<state, packs, receipts, journals, job, alone>>

\* Another transaction leaves a malformed journal behind.
TornJournal ==
  /\ Cardinality(journals) < MaxJournals /\ journals' = journals \cup {None}
  /\ UNCHANGED <<state, packs, dest, receipts, job, alone>>

Drafting(p) ==
  \/ Load(p) \/ Reconcile(p) \/ Fetch(p) \/ Prepare(p) \/ Compiled(p)
  \/ HashDestination(p) \/ Connected(p) \/ Rendered(p)
  \/ Overlay(p) \/ Shoot(p) \/ Captured(p) \/ Evidence(p)
Committing(p) ==
  \/ Accept(p) \/ Recheck(p) \/ Reread(p) \/ Install(p) \/ InstallBreaks(p)
  \/ Confirm(p) \/ Committed(p) \/ CommittedUnpersisted(p)
Building(p) == CheckReadiness(p) \/ Scan(p) \/ Rescan(p)

Next ==
  \/ \E p \in Processes : \/ \E op \in May[p] : Begin(p, op)
                          \/ Drafting(p) \/ Committing(p) \/ Building(p) \/ Fail(p)
  \/ EditPacks \/ EditDestination \/ TornJournal

Spec == Init /\ [][Next]_vars

-----------------------------------------------------------------------------
\* Type invariant.
TypeOK ==
  /\ state \in Records
  /\ packs \in Versions /\ dest \in Contents
  /\ receipts \subseteq Receipts
  /\ journals \subseteq Option(Proposals)
  /\ alone \in BOOLEAN
  /\ job \in [Processes -> Jobs]

\* Nothing is installed that was not reviewed: whatever the processes do to the
\* state file between and under each other's steps, a receipt in the workspace
\* binds a passing capture of its own proposal, whose render is ready.
InstalledIsReviewed ==
  \A r \in receipts :
    /\ r.capture # None /\ r.capture.proposal = r.proposal
    /\ r.capture.report \in Passing
    /\ r.proposal.art \in Ready

\* One proposal is installed at most once, whoever commits or retries it: its
\* receipt never comes to name another capture.
OneReceiptEach ==
  \A r, s \in receipts : r.proposal = s.proposal => r = s

\* A commit that reports success leaves a receipt that binds exactly what the
\* caller accepted, not what became current while it ran.
SuccessIsWhatWasAccepted ==
  [][\A p \in Processes :
       job[p].op = "commit" /\ job'[p].at = "success"
         => Receipt(job[p].proposal, job[p].capture) \in receipts']_vars

\* While the processes take turns (crashes included), what the state file holds
\* of a revision belongs together: evidence of an earlier artifact or proposal
\* never survives it, and a recorded receipt is the one in the workspace.
RecordCoheres ==
  alone =>
    /\ state.proposal # None => state.proposal.art = state.compiled
    /\ state.render \in {None, state.compiled}
    /\ state.capture # None => state.capture.proposal = state.proposal
    /\ state.receipt # None =>
         state.receipt = Receipt(state.proposal, state.capture) /\ state.receipt \in receipts

\* A retry confirms a commit whose state update was lost: while what the
\* receipt attests is unchanged, the commit is not refused (the comment of
\* persistCommitReceipt, docs/architecture.md: "a retry [is] idempotent if the
\* cache index could not be updated after installation").
RetryConfirms ==
  [][\A p \in Processes :
       /\ job[p].op = "commit" /\ job'[p].at = "refused" /\ alone
       /\ Receipt(job[p].proposal, job[p].capture) \in receipts
       /\ state.proposal = job[p].proposal /\ state.capture = job[p].capture
       => \/ dest # job[p].proposal.art \/ packs # job[p].capture.packs
          \/ journals # {}]_vars

\* docs/troubleshooting.md, of a stale proposal or hash: "recreate visual_connect
\* so the proposal captures the current destinations".  No journal is retained.
ConnectAnswersDrift ==
  [][\A p \in Processes :
       job[p].op = "connect" /\ journals = {} => job'[p].at # "refused"]_vars
=============================================================================
