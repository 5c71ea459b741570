------------------------ MODULE VisualCommitProofs ------------------------
(* What VisualCommit guarantees of the receipts in the workspace, for any    *)
(* number of processes and any edits, although the processes overwrite each  *)
(* other's updates of the state file; and what it guarantees of the record   *)
(* in that file while the processes take turns.                              *)
EXTENDS VisualCommit, TLAPS

\* Which operation gets where, and what it has at hand there.
ControlInv(p) ==
  /\ job[p].at \notin Ends => job[p].op \in Operations
  /\ job[p].at \in Ends => job[p].op = None
  /\ job[p].at \in {"accept", "recheck", "reread", "install", "confirm", "committed"} =>
       job[p].op = "commit"
  /\ job[p].at \in {"overlay", "shoot", "captured", "evidence"} => job[p].op = "capture"
  /\ job[p].at \in {"hash", "connected"} => job[p].op = "connect"
  /\ job[p].at = "rendered" => job[p].op = "render"
  /\ job[p].at \in {"check", "scan", "rescan"} => job[p].op = "build"
  /\ job[p].at \in {"prepare", "compiled"} => job[p].op # "build"
  /\ job[p].op \in {"capture", "commit"} => job[p].proposal \in Proposals
  /\ job[p].op = "commit" => job[p].capture \in Captures
  /\ job[p].at = "compiled" => job[p].art \in Arts
  /\ job[p].at = "hash" => job[p].record.compiled \in Arts

Reviewed(proposal, capture) ==
  capture.proposal = proposal /\ capture.report \in Passing

\* What a commit has established when it gets there.
CommitInv(p) ==
  /\ job[p].op = "commit"
       /\ job[p].at \in {"prepare", "compiled", "recheck", "reread", "install"} =>
         Reviewed(job[p].proposal, job[p].capture)
  /\ job[p].at \in {"reread", "install"} => job[p].proposal.art \in Ready
  /\ job[p].at = "accept" /\ job[p].record.receipt # None =>
       job[p].record.receipt \in receipts
  /\ job[p].at = "committed" => Receipt(job[p].proposal, job[p].capture) \in receipts

JobInv(p) == ControlInv(p) /\ CommitInv(p)

IInv ==
  /\ TypeOK
  /\ \A p \in Processes : JobInv(p)
  /\ InstalledIsReviewed
  /\ OneReceiptEach

\* A step of p: the other jobs stay, no receipt goes, and a commit succeeds
\* only by its last step.
Turn(p) ==
  /\ job' \in [Processes -> Jobs]
  /\ \A q \in Processes \ {p} : job'[q] = job[q]
  /\ receipts \subseteq receipts'
  /\ JobInv(p)'
  /\ job[p].op = "commit" /\ job'[p].at = "success" => job[p].at = "committed"

-----------------------------------------------------------------------------
\* What is built from its parts has its type; None is none of them.
LEMMA Types ==
  /\ Nothing \in Records /\ Idle \in Jobs
  /\ \A end \in Ends : [Idle EXCEPT !.at = end] \in Jobs
  /\ None \notin Operations /\ None \notin Records /\ None \notin Receipts
  /\ None \notin Proposals /\ None \notin Captures
  /\ \A proposal \in Proposals, capture \in Captures :
       Receipt(proposal, capture) \in Receipts
BY NoneAssumption
   DEF Nothing, Idle, Jobs, Records, Option, Ends, Receipt, Receipts

\* The first state satisfies the invariant.
LEMMA InitInv == Init => IInv
<1> SUFFICES ASSUME Init PROVE IInv
  OBVIOUS
<1>1. TypeOK
  BY Types, BoundsAssumption DEF Init, TypeOK, Versions, Contents
<1>2. ASSUME NEW p \in Processes PROVE JobInv(p)
  BY Types DEF Init, Idle, JobInv, ControlInv, CommitInv, Ends, Operations
<1>3. InstalledIsReviewed /\ OneReceiptEach
  BY DEF Init, InstalledIsReviewed, OneReceiptEach
<1>. QED
  BY <1>1, <1>2, <1>3 DEF IInv

\* One job changes.
LEMMA OneJob ==
  ASSUME IInv, NEW p \in Processes, NEW new \in Jobs, job' = [job EXCEPT ![p] = new]
  PROVE  /\ job' \in [Processes -> Jobs] /\ job'[p] = new
         /\ \A q \in Processes \ {p} : job'[q] = job[q]
BY DEF IInv, TypeOK

\* The fields of a job have their types.
LEMMA JobFields ==
  ASSUME IInv, NEW p \in Processes
  PROVE  /\ job[p] \in Jobs /\ job[p].record \in Records
         /\ job[p].op \in Option(Operations) /\ job[p].at \in Steps \cup Ends
         /\ job[p].proposal \in Option(Proposals) /\ job[p].capture \in Option(Captures)
BY DEF IInv, TypeOK, Jobs

\* A job that ends is idle again.
LEMMA FinishTurn ==
  ASSUME IInv, NEW p \in Processes, NEW end \in Ends, Finish(p, end),
         receipts \subseteq receipts',
         end = "success" => job[p].op # "commit" \/ job[p].at = "committed"
  PROVE  Turn(p)
<1>1. job' = [job EXCEPT ![p] = [Idle EXCEPT !.at = end]]
  BY DEF Finish
<1>2. job' \in [Processes -> Jobs] /\ job'[p] = [Idle EXCEPT !.at = end]
  BY <1>1, Types DEF IInv, TypeOK
<1>3. JobInv(p)'
  BY <1>2, Types DEF JobInv, ControlInv, CommitInv, Idle, Ends, Operations
<1>. QED
  BY <1>1, <1>2, <1>3 DEF Turn, IInv, TypeOK

\* A refused operation ends.
LEMMA RefuseTurn ==
  ASSUME IInv, NEW p \in Processes, Refuse(p)
  PROVE  Turn(p)
BY FinishTurn DEF Refuse, Ends, workspace

\* p is at another step, and nothing else of the jobs has changed.
Moved(p, step) ==
  /\ job' \in [Processes -> Jobs]
  /\ \A q \in Processes \ {p} : job'[q] = job[q]
  /\ job'[p].at = step
  /\ job'[p].op = job[p].op /\ job'[p].proposal = job[p].proposal
  /\ job'[p].capture = job[p].capture /\ job'[p].record = job[p].record
  /\ job'[p].art = job[p].art /\ job'[p].read = job[p].read

\* A job that only moves on keeps everything else.
LEMMA GotoTurn ==
  ASSUME IInv, NEW p \in Processes, NEW step \in Steps, Goto(p, step)
  PROVE  Moved(p, step)
BY DEF Goto, IInv, TypeOK, Jobs, Steps, Moved

\* A saved record is a record, and the job goes on with it or ends.
LEMMA SaveTurn ==
  ASSUME IInv, NEW p \in Processes, NEW record \in Records, NEW step \in Steps \cup Ends,
         Save(p, record, step),
         step \in Ends => job[p].op # "commit" \/ job[p].at = "committed"
  PROVE  /\ state' = record /\ receipts' = receipts
         /\ step \in Ends => Turn(p)
         /\ step \notin Ends =>
              /\ job' \in [Processes -> Jobs]
              /\ \A q \in Processes \ {p} : job'[q] = job[q]
              /\ job'[p].at = step /\ job'[p].record = record
              /\ job'[p].op = job[p].op /\ job'[p].proposal = job[p].proposal
              /\ job'[p].capture = job[p].capture /\ job'[p].read = None
<1>1. state' = record /\ receipts' = receipts
  BY DEF Save, workspace
<1>2. CASE step \in Ends
  BY <1>1, <1>2, FinishTurn DEF Save
<1>3. CASE step \notin Ends
  <2>1. job' = [job EXCEPT ![p].record = record, ![p].read = None, ![p].art = None,
                           ![p].at = step]
    BY <1>3 DEF Save
  <2> DEFINE new == [job[p] EXCEPT !.record = record, !.read = None, !.art = None, !.at = step]
  <2>2. job' = [job EXCEPT ![p] = new]
    BY <2>1 DEF IInv, TypeOK
  <2>3. new \in Jobs
    BY JobFields DEF Jobs, Option
  <2>4. /\ new.at = step /\ new.record = record /\ new.op = job[p].op
        /\ new.proposal = job[p].proposal /\ new.capture = job[p].capture /\ new.read = None
    BY JobFields DEF Jobs
  <2>. HIDE DEF new
  <2>. QED
    BY <1>1, <1>3, <2>2, <2>3, <2>4, OneJob
<1>. QED
  BY <1>1, <1>2, <1>3

\* What an update has read is a record.
LEMMA FetchedRecord ==
  ASSUME IInv, NEW p \in Processes, job[p].read # None
  PROVE  job[p].read \in Records
BY DEF IInv, TypeOK, Jobs, Option

-----------------------------------------------------------------------------
\* Beginning an operation is a turn of its process.
LEMMA BeginTurn ==
  ASSUME IInv, NEW p \in Processes, NEW op \in May[p], Begin(p, op)
  PROVE  Turn(p)
<1> DEFINE proposal == IF op \in {"capture", "commit"} THEN state.proposal ELSE None
           capture == IF op = "commit" THEN state.capture ELSE None
           new == [Idle EXCEPT !.op = op, !.at = "load", !.proposal = proposal,
                               !.capture = capture]
<1>1. op \in Operations
  BY MayAssumption
<1>2. job' = [job EXCEPT ![p] = new]
  BY DEF Begin
<1>3. /\ op \in {"capture", "commit"} => state.proposal \in Proposals
      /\ op = "commit" => state.capture \in Captures
  BY DEF Begin, IInv, TypeOK, Records, Option
<1>4. proposal \in Option(Proposals) /\ capture \in Option(Captures)
  BY <1>3 DEF Option
<1>5. /\ op \in {"capture", "commit"} => proposal \in Proposals
      /\ op = "commit" => capture \in Captures
  BY <1>3
<1>. HIDE DEF proposal, capture
<1>6. new \in Jobs
  BY <1>1, <1>4, Types DEF Idle, Jobs, Option, Steps
<1>7. /\ new.op = op /\ new.at = "load" /\ new.proposal = proposal /\ new.capture = capture
  BY DEF Idle
<1>. HIDE DEF new
<1>8. job'[p] = new
  BY <1>2, <1>6, OneJob
<1>9. JobInv(p)'
  BY <1>1, <1>5, <1>7, <1>8 DEF JobInv, ControlInv, CommitInv, Ends
<1>. QED
  BY <1>2, <1>6, <1>7, <1>8, <1>9, OneJob DEF Turn, Begin, workspace

\* Loading and reconciling the revision are turns of their process.
LEMMA LoadTurn ==
  ASSUME IInv, NEW p \in Processes, Load(p) \/ Reconcile(p)
  PROVE  Turn(p)
<1>1. CASE Load(p)
  <2>1. job' = [job EXCEPT ![p].record = state, ![p].at = "reconcile"]
    BY <1>1 DEF Load
  <2> DEFINE new == [job[p] EXCEPT !.record = state, !.at = "reconcile"]
  <2>2. job' \in [Processes -> Jobs] /\ job'[p] = new
    <3>1. job' = [job EXCEPT ![p] = new]
      BY <2>1 DEF IInv, TypeOK
    <3>2. new \in Jobs
      BY JobFields DEF IInv, TypeOK, Jobs, Steps
    <3>. HIDE DEF new
    <3>. QED
      BY <3>1, <3>2, OneJob
  <2>3. /\ job'[p].at = "reconcile" /\ job'[p].op = job[p].op
        /\ job'[p].proposal = job[p].proposal /\ job'[p].capture = job[p].capture
        /\ \A q \in Processes \ {p} : job'[q] = job[q]
    BY <2>1 DEF IInv, TypeOK, Jobs
  <2>4. JobInv(p)'
    BY <1>1, <2>3 DEF Load, At, IInv, JobInv, ControlInv, CommitInv, Ends
  <2>. QED
    BY <1>1, <2>2, <2>3, <2>4 DEF Turn, Load, workspace
<1>2. CASE Refuse(p)
  BY <1>2, RefuseTurn
<1>3. CASE Reconcile(p) /\ ~Refuse(p)
  <2> DEFINE record == job[p].record
             receipt == IF Bound(record) THEN Receipt(record.proposal, record.capture) ELSE None
  <2>1. /\ job' = [job EXCEPT ![p].at = AfterLoad(job[p].op), ![p].record.receipt = receipt]
        /\ At(p, "reconcile") /\ receipts' = receipts
        /\ Reconciles(record) /\ ~(Bound(record) /\ job[p].op = "capture")
    BY <1>3 DEF Reconcile, workspace
  <2>2. receipt # None => receipt \in receipts
    BY <2>1 DEF Reconciles, Verifies
  <2>3. receipt \in Option(Receipts)
    BY <2>2 DEF IInv, TypeOK, Option
  <2>4. job[p].op \in Operations
    BY <2>1 DEF IInv, JobInv, ControlInv, At, Ends
  <2>5. /\ AfterLoad(job[p].op) \in {"accept", "check", "prepare"}
        /\ AfterLoad(job[p].op) = "accept" <=> job[p].op = "commit"
        /\ AfterLoad(job[p].op) = "prepare" => job[p].op # "build"
    BY <2>4 DEF AfterLoad, Operations
  <2>6. [job[p].record EXCEPT !.receipt = receipt] \in Records
    BY <2>3 DEF IInv, TypeOK, Jobs, Records
  <2>7. job' \in [Processes -> Jobs]
    <3> DEFINE loaded == [job[p].record EXCEPT !.receipt = receipt]
               new == [job[p] EXCEPT !.at = AfterLoad(job[p].op), !.record = loaded]
    <3>1. job' = [job EXCEPT ![p] = new]
      BY <2>1 DEF IInv, TypeOK, Jobs
    <3>2. new \in Jobs
      <4>. HIDE DEF loaded
      <4>1. loaded \in Records
        BY <2>6 DEF loaded
      <4>. QED
        BY <2>5, <4>1, JobFields DEF Jobs, Steps
    <3>. HIDE DEF new
    <3>. QED
      BY <3>1, <3>2, OneJob
  <2>8. /\ job'[p].at = AfterLoad(job[p].op) /\ job'[p].op = job[p].op
        /\ job'[p].proposal = job[p].proposal /\ job'[p].capture = job[p].capture
        /\ job'[p].record.receipt = receipt
        /\ \A q \in Processes \ {p} : job'[q] = job[q]
    BY <2>1 DEF IInv, TypeOK, Jobs, Records
  <2>9. /\ job[p].op \in {"capture", "commit"} => job[p].proposal \in Proposals
        /\ job[p].op = "commit" => job[p].capture \in Captures
    BY DEF IInv, JobInv, ControlInv
  <2>10. /\ AfterLoad(job[p].op) = "check" => job[p].op = "build"
         /\ job[p].op # None
    BY <2>4, Types DEF AfterLoad, Operations
  <2>. HIDE DEF record, receipt
  <2>11. ControlInv(p)'
    <3> DEFINE step == AfterLoad(job[p].op)
    <3>1. /\ step \in {"accept", "check", "prepare"} /\ job'[p].at = step
          /\ step = "accept" => job[p].op = "commit"
          /\ step = "prepare" => job[p].op # "build"
          /\ step = "check" => job[p].op = "build"
      BY <2>5, <2>8, <2>10
    <3>. HIDE DEF step
    <3>. QED
      BY <2>4, <2>8, <2>9, <3>1 DEF ControlInv, Ends
  <2>12. CommitInv(p)'
    <3> DEFINE step == AfterLoad(job[p].op)
    <3>1. /\ step \in {"accept", "check", "prepare"} /\ job'[p].at = step
          /\ step = "accept" <=> job[p].op = "commit"
      BY <2>5, <2>8
    <3>2. job'[p].record.receipt # None => job'[p].record.receipt \in receipts'
      BY <2>1, <2>2, <2>8
    <3>. HIDE DEF step
    <3>. QED
      BY <2>8, <3>1, <3>2 DEF CommitInv
  <2>. QED
    BY <2>1, <2>5, <2>7, <2>8, <2>11, <2>12 DEF Turn, JobInv
<1>. QED
  BY <1>1, <1>2, <1>3

\* Reading the state file is a turn of its process.
LEMMA FetchTurn ==
  ASSUME IInv, NEW p \in Processes, Fetch(p)
  PROVE  Turn(p)
<1>1. job' = [job EXCEPT ![p].read = state] /\ receipts' = receipts
  BY DEF Fetch, workspace
<1>2. job' \in [Processes -> Jobs]
  BY <1>1 DEF IInv, TypeOK, Jobs, Option
<1>3. /\ job'[p].at = job[p].at /\ job'[p].op = job[p].op
      /\ job'[p].proposal = job[p].proposal /\ job'[p].capture = job[p].capture
      /\ job'[p].record = job[p].record /\ job'[p].art = job[p].art
      /\ \A q \in Processes \ {p} : job'[q] = job[q]
  BY <1>1 DEF IInv, TypeOK, Jobs
<1>4. ControlInv(p) /\ CommitInv(p)
  BY DEF IInv, JobInv
<1>5. ControlInv(p)'
  BY <1>3, <1>4 DEF ControlInv
<1>6. CommitInv(p)'
  BY <1>1, <1>3, <1>4 DEF CommitInv
<1>7. job[p].at # "success"
  BY DEF Fetch, Updates
<1>. QED
  BY <1>1, <1>2, <1>3, <1>5, <1>6, <1>7 DEF Turn, JobInv

\* Compiling is a turn of its process, and saves a record.
LEMMA CompileTurn ==
  ASSUME IInv, NEW p \in Processes, Prepare(p) \/ Compiled(p)
  PROVE  Turn(p) /\ state' \in Records /\ receipts' = receipts
<1>1. CASE Prepare(p)
  <2>1. job' = [job EXCEPT ![p].art = ArtOf[packs], ![p].at = "compiled"]
    BY <1>1 DEF Prepare
  <2>2. ArtOf[packs] \in Arts
    BY ArtsAssumption DEF IInv, TypeOK
  <2>3. job' \in [Processes -> Jobs]
    <3> DEFINE new == [job[p] EXCEPT !.art = ArtOf[packs], !.at = "compiled"]
    <3>1. job' = [job EXCEPT ![p] = new]
      BY <2>1 DEF IInv, TypeOK
    <3>2. new \in Jobs
      BY <2>2, JobFields DEF Jobs, Option, Steps, Updates
    <3>. HIDE DEF new
    <3>. QED
      BY <3>1, <3>2, OneJob
  <2>4. /\ job'[p].at = "compiled" /\ job'[p].op = job[p].op
        /\ job'[p].proposal = job[p].proposal /\ job'[p].capture = job[p].capture
        /\ job'[p].art = ArtOf[packs]
        /\ \A q \in Processes \ {p} : job'[q] = job[q]
    BY <2>1 DEF IInv, TypeOK, Jobs
  <2>5. JobInv(p)'
    BY <1>1, <2>2, <2>4 DEF Prepare, At, IInv, JobInv, ControlInv, CommitInv, Ends
  <2>. QED
    BY <1>1, <2>3, <2>4, <2>5 DEF Turn, Prepare, workspace, IInv, TypeOK
<1>2. CASE Compiled(p)
  <2> DEFINE record == IF job[p].read.compiled = job[p].art THEN job[p].read
                       ELSE [Nothing EXCEPT !.compiled = job[p].art]
             step == AfterCompile(job[p].op)
  <2>1. /\ Save(p, record, step) /\ job[p].at = "compiled"
        /\ job[p].read \in Records
    BY <1>2, FetchedRecord DEF Compiled, Fetched, At
  <2>2. /\ job[p].op \in Operations \ {"build"} /\ job[p].art \in Arts
    BY <2>1 DEF IInv, JobInv, ControlInv, Ends
  <2>3. record \in Records /\ record.compiled = job[p].art
    BY <2>1, <2>2, Types DEF Nothing, Records, Option
  <2>4. /\ step \in {"success", "hash", "rendered", "overlay", "recheck"}
        /\ step = "overlay" => job[p].op = "capture"
        /\ step = "hash" => job[p].op = "connect"
        /\ step = "rendered" => job[p].op = "render"
        /\ step = "success" => job[p].op = "compile"
        /\ step = "recheck" => job[p].op = "commit"
    BY <2>2 DEF AfterCompile, Operations
  <2>5. step \in Steps \cup Ends /\ (step \in Ends <=> step = "success")
    BY <2>4 DEF Steps, Ends, Updates
  <2>6. CASE step \in Ends
    <3>. HIDE DEF record, step
    <3>. QED
      BY <2>1, <2>3, <2>4, <2>5, <2>6, SaveTurn
  <2>7. CASE step \notin Ends
    <3>1. /\ state' = record /\ receipts' = receipts
          /\ job' \in [Processes -> Jobs]
          /\ \A q \in Processes \ {p} : job'[q] = job[q]
          /\ job'[p].at = step /\ job'[p].record = record
          /\ job'[p].op = job[p].op /\ job'[p].proposal = job[p].proposal
          /\ job'[p].capture = job[p].capture
          /\ step # "success"
      <4>. HIDE DEF record, step
      <4>. QED
        BY <2>1, <2>3, <2>4, <2>5, <2>7, SaveTurn
    <3>2. JobInv(p)'
      <4>. HIDE DEF record, step
      <4>. QED
        BY <2>1, <2>2, <2>3, <2>4, <3>1
           DEF IInv, JobInv, ControlInv, CommitInv, Ends, Operations
    <3>. QED
      BY <2>3, <3>1, <3>2 DEF Turn
  <2>. QED
    BY <2>6, <2>7
<1>. QED
  BY <1>1, <1>2

\* Connecting and rendering are turns of their process, and save records.
LEMMA ConnectTurn ==
  ASSUME IInv, NEW p \in Processes, HashDestination(p) \/ Connected(p) \/ Rendered(p)
  PROVE  Turn(p) /\ state' \in Records /\ receipts' = receipts
<1>1. CASE HashDestination(p)
  <2> DEFINE proposal == [art |-> job[p].record.compiled, expected |-> dest]
  <2>1. /\ job' = [job EXCEPT ![p].proposal = proposal, ![p].at = "connected"]
        /\ job[p].at = "hash"
    BY <1>1 DEF HashDestination, At
  <2>2. proposal \in Proposals
    BY <2>1 DEF IInv, TypeOK, JobInv, ControlInv, Proposals
  <2>3. job' \in [Processes -> Jobs]
    BY <2>1, <2>2 DEF IInv, TypeOK, Jobs, Option, Steps, Updates
  <2>4. /\ job'[p].at = "connected" /\ job'[p].op = job[p].op
        /\ job'[p].proposal = proposal /\ job'[p].capture = job[p].capture
        /\ \A q \in Processes \ {p} : job'[q] = job[q]
    BY <2>1 DEF IInv, TypeOK, Jobs
  <2>5. JobInv(p)'
    BY <2>1, <2>2, <2>4 DEF IInv, JobInv, ControlInv, CommitInv, Ends
  <2>. QED
    BY <1>1, <2>3, <2>4, <2>5 DEF Turn, HashDestination, workspace, IInv, TypeOK
<1>2. CASE Connected(p)
  <2> DEFINE kept == IF job[p].read.proposal = job[p].proposal THEN job[p].read
                     ELSE [job[p].read EXCEPT !.capture = None, !.receipt = None]
             record == [kept EXCEPT !.proposal = job[p].proposal]
  <2>1. /\ Save(p, record, "success") /\ job[p].read \in Records
        /\ job[p].op = "connect"
    BY <1>2, FetchedRecord DEF Connected, Fetched, At, IInv, JobInv, ControlInv
  <2>2. job[p].proposal \in Option(Proposals)
    BY DEF IInv, TypeOK, Jobs
  <2>3. kept \in Records
    BY <2>1 DEF Records, Option
  <2>4. record \in Records
    BY <2>2, <2>3 DEF Records
  <2>. HIDE DEF record
  <2>. QED
    BY <2>1, <2>4, SaveTurn DEF Ends
<1>3. CASE Rendered(p)
  <2> DEFINE record == [job[p].read EXCEPT !.render = job[p].record.compiled]
  <2>1. /\ Save(p, record, "success") /\ job[p].read \in Records
        /\ job[p].op = "render"
    BY <1>3, FetchedRecord DEF Rendered, Fetched, At, IInv, JobInv, ControlInv
  <2>2. record \in Records
    BY <2>1 DEF IInv, TypeOK, Jobs, Records
  <2>. HIDE DEF record
  <2>. QED
    BY <2>1, <2>2, SaveTurn DEF Ends
<1>. QED
  BY <1>1, <1>2, <1>3

\* The steps of a capture are turns of its process, and save a record.
LEMMA CaptureTurn ==
  ASSUME IInv, NEW p \in Processes,
         Overlay(p) \/ Shoot(p) \/ Captured(p) \/ Evidence(p)
  PROVE  Turn(p) /\ state' \in Records /\ receipts' = receipts
<1>1. CASE Refuse(p)
  BY <1>1, RefuseTurn DEF Refuse, workspace, IInv, TypeOK
<1>2. CASE Overlay(p) /\ ~Refuse(p)
  <2>1. Goto(p, "shoot") /\ job[p].at = "overlay" /\ UNCHANGED <<state, receipts>>
    BY <1>2 DEF Overlay, Require, At, workspace
  <2>2. Moved(p, "shoot")
    BY <2>1, GotoTurn DEF Steps
  <2>3. JobInv(p)'
    BY <2>1, <2>2 DEF Moved, IInv, JobInv, ControlInv, CommitInv, Ends
  <2>. QED
    BY <2>1, <2>2, <2>3 DEF Moved, Turn, IInv, TypeOK
<1>3. CASE Shoot(p)
  <2>1. PICK report \in Reports :
          job' = [job EXCEPT ![p].at = "captured",
            ![p].capture = [proposal |-> job[p].proposal, packs |-> packs, report |-> report]]
    BY <1>3 DEF Shoot
  <2>2. job[p].op = "capture" /\ job[p].proposal \in Proposals
    BY <1>3 DEF Shoot, At, IInv, JobInv, ControlInv
  <2>3. [proposal |-> job[p].proposal, packs |-> packs, report |-> report] \in Captures
    BY <2>2 DEF Captures, IInv, TypeOK
  <2>4. job' \in [Processes -> Jobs]
    <3> DEFINE capture == [proposal |-> job[p].proposal, packs |-> packs, report |-> report]
               new == [job[p] EXCEPT !.at = "captured", !.capture = capture]
    <3>1. job' = [job EXCEPT ![p] = new]
      BY <2>1 DEF IInv, TypeOK
    <3>2. new \in Jobs
      <4>. HIDE DEF capture
      <4>1. capture \in Captures
        BY <2>3 DEF capture
      <4>. QED
        BY <4>1, JobFields DEF Jobs, Option, Steps, Updates
    <3>. HIDE DEF new
    <3>. QED
      BY <3>1, <3>2, OneJob
  <2>5. /\ job'[p].at = "captured" /\ job'[p].op = "capture"
        /\ job'[p].proposal = job[p].proposal
        /\ \A q \in Processes \ {p} : job'[q] = job[q]
    BY <2>1, <2>2 DEF IInv, TypeOK, Jobs
  <2>6. JobInv(p)'
    BY <2>2, <2>5 DEF JobInv, ControlInv, CommitInv, Operations, Ends
  <2>. QED
    BY <1>3, <2>4, <2>5, <2>6 DEF Turn, Shoot, workspace, IInv, TypeOK
<1>4. CASE Captured(p) /\ ~Refuse(p)
  <2> DEFINE record == [job[p].read EXCEPT !.capture = job[p].capture]
  <2>1. /\ Save(p, record, "evidence") /\ job[p].read \in Records
        /\ job[p].at = "captured"
    BY <1>4, FetchedRecord DEF Captured, Fetched, At
  <2>2. record \in Records
    BY <2>1 DEF IInv, TypeOK, Jobs, Records
  <2>3. /\ state' = record /\ receipts' = receipts
        /\ job' \in [Processes -> Jobs]
        /\ \A q \in Processes \ {p} : job'[q] = job[q]
        /\ job'[p].at = "evidence" /\ job'[p].op = job[p].op
        /\ job'[p].proposal = job[p].proposal
    <3>. HIDE DEF record
    <3>. QED
      BY <2>1, <2>2, SaveTurn DEF Steps, Ends
  <2>4. JobInv(p)'
    BY <2>1, <2>3 DEF IInv, JobInv, ControlInv, CommitInv, Ends, Operations
  <2>. QED
    BY <2>2, <2>3, <2>4 DEF Turn
<1>5. CASE Evidence(p) /\ ~Refuse(p)
  <2>1. job[p].op = "capture"
    BY <1>5 DEF Evidence, At, IInv, JobInv, ControlInv
  <2>. QED
    BY <1>5, <2>1, FinishTurn DEF Evidence, Ends, workspace, IInv, TypeOK
<1>. QED
  BY <1>1, <1>2, <1>3, <1>4, <1>5

\* The checks of a commit are turns of its process, and establish what
\* CommitInv says.
LEMMA CheckTurn ==
  ASSUME IInv, NEW p \in Processes,
         Accept(p) \/ Recheck(p) \/ Reread(p) \/ Confirm(p)
  PROVE  Turn(p) /\ UNCHANGED <<state, receipts>>
<1>1. CASE Refuse(p)
  BY <1>1, RefuseTurn DEF Refuse, workspace
<1>2. CASE Accept(p) /\ ~Refuse(p)
  <2>1. /\ job[p].at = "accept" /\ UNCHANGED <<state, receipts>>
        /\ job[p].record.proposal = job[p].proposal
        /\ job[p].record.capture = job[p].capture
        /\ Accepted(job[p].record)
    BY <1>2 DEF Accept, Require, At, workspace
  <2>2. job[p].op = "commit" /\ job[p].proposal \in Proposals /\ job[p].capture \in Captures
    BY <2>1 DEF IInv, JobInv, ControlInv
  <2>3. Reviewed(job[p].proposal, job[p].capture)
    BY <2>1 DEF Accepted, EvidenceVerifies, Reviewed
  <2>4. CASE Goto(p, "prepare")
    <3>1. Moved(p, "prepare")
      BY <2>4, GotoTurn DEF Steps
    <3>2. JobInv(p)'
      BY <2>2, <2>3, <3>1 DEF Moved, JobInv, ControlInv, CommitInv, Ends, Operations
    <3>. QED
      BY <2>1, <3>1, <3>2 DEF Moved, Turn
  <2>5. CASE /\ Goto(p, "committed")
             /\ job[p].record.receipt = Receipt(job[p].proposal, job[p].capture)
    <3>1. Receipt(job[p].proposal, job[p].capture) \in receipts
      BY <2>1, <2>2, <2>5, Types DEF IInv, JobInv, CommitInv
    <3>2. Moved(p, "committed")
      BY <2>5, GotoTurn DEF Steps, Updates
    <3>3. JobInv(p)'
      BY <2>1, <2>2, <3>1, <3>2 DEF Moved, JobInv, ControlInv, CommitInv, Ends, Operations
    <3>. QED
      BY <2>1, <3>2, <3>3 DEF Moved, Turn
  <2>. QED
    BY <1>2, <2>4, <2>5 DEF Accept, Require
<1>3. CASE Recheck(p) /\ ~Refuse(p)
  <2>1. /\ Goto(p, "reread") /\ job[p].at = "recheck" /\ UNCHANGED <<state, receipts>>
        /\ job[p].proposal.art \in Ready
    BY <1>3 DEF Recheck, RenderVerifies, Require, At, workspace
  <2>2. Moved(p, "reread")
    BY <2>1, GotoTurn DEF Steps
  <2>3. JobInv(p)'
    BY <2>1, <2>2 DEF Moved, IInv, JobInv, ControlInv, CommitInv, Ends
  <2>. QED
    BY <2>1, <2>2, <2>3 DEF Moved, Turn
<1>4. CASE Reread(p) /\ ~Refuse(p)
  <2>1. Goto(p, "install") /\ job[p].at = "reread" /\ UNCHANGED <<state, receipts>>
    BY <1>4 DEF Reread, Require, At, workspace
  <2>2. Moved(p, "install")
    BY <2>1, GotoTurn DEF Steps
  <2>3. JobInv(p)'
    BY <2>1, <2>2 DEF Moved, IInv, JobInv, ControlInv, CommitInv, Ends
  <2>. QED
    BY <2>1, <2>2, <2>3 DEF Moved, Turn
<1>5. CASE Confirm(p) /\ ~Refuse(p)
  <2>1. /\ Goto(p, "committed") /\ job[p].at = "confirm" /\ UNCHANGED <<state, receipts>>
        /\ Receipt(job[p].proposal, job[p].capture) \in receipts
    BY <1>5 DEF Confirm, Require, At, Verifies, workspace
  <2>2. Moved(p, "committed")
    BY <2>1, GotoTurn DEF Steps, Updates
  <2>3. JobInv(p)'
    BY <2>1, <2>2 DEF Moved, IInv, JobInv, ControlInv, CommitInv, Ends
  <2>. QED
    BY <2>1, <2>2, <2>3 DEF Moved, Turn
<1>. QED
  BY <1>1, <1>2, <1>3, <1>4, <1>5

\* The receipts after an installation: all of them reviewed, one for a proposal.
ReceiptsKept ==
  receipts' \subseteq Receipts /\ InstalledIsReviewed' /\ OneReceiptEach'

\* The one new receipt an installation can bring.
LEMMA NewReceipt ==
  ASSUME IInv, NEW p \in Processes, job[p].at = "install", ~ReceiptExists(job[p].proposal),
         receipts' \in {receipts, receipts \cup {Receipt(job[p].proposal, job[p].capture)}}
  PROVE  ReceiptsKept
<1> DEFINE new == Receipt(job[p].proposal, job[p].capture)
<1>1. job[p].op = "commit" /\ job[p].proposal \in Proposals /\ job[p].capture \in Captures
  BY DEF IInv, JobInv, ControlInv
<1>2. /\ Reviewed(job[p].proposal, job[p].capture)
      /\ job[p].proposal.art \in Ready
  BY <1>1 DEF IInv, JobInv, CommitInv
<1>3. new \in Receipts /\ new.proposal = job[p].proposal /\ new.capture = job[p].capture
  BY <1>1, Types DEF Receipt
<1>4. receipts' \subseteq Receipts
  BY <1>3 DEF IInv, TypeOK
<1>5. new.capture # None /\ new.capture.proposal = new.proposal
        /\ new.capture.report \in Passing /\ new.proposal.art \in Ready
  BY <1>1, <1>2, <1>3, Types DEF Reviewed
<1>6. \A r \in receipts : r.proposal # new.proposal
  BY <1>3 DEF ReceiptExists
<1>. HIDE DEF new
<1>7. receipts' \in {receipts, receipts \cup {new}}
  BY DEF new
<1>8. InstalledIsReviewed'
  BY <1>5, <1>7 DEF IInv, InstalledIsReviewed
<1>9. OneReceiptEach'
  BY <1>6, <1>7 DEF IInv, OneReceiptEach
<1>. QED
  BY <1>4, <1>8, <1>9 DEF ReceiptsKept

\* The installation is a turn of its process.
LEMMA InstallTurn ==
  ASSUME IInv, NEW p \in Processes, Install(p) \/ InstallBreaks(p)
  PROVE  /\ Turn(p) /\ state' = state /\ ReceiptsKept /\ dest' \in Contents
         /\ journals' \subseteq Option(Proposals) /\ UNCHANGED <<packs, alone>>
<1>1. job[p].at = "install"
  BY DEF Install, InstallBreaks, At
<1>2. job[p].op = "commit" /\ job[p].proposal \in Proposals /\ job[p].capture \in Captures
  BY <1>1 DEF IInv, JobInv, ControlInv
<1>3. CASE Refuse(p)
  BY <1>3, RefuseTurn
     DEF Refuse, workspace, IInv, TypeOK, ReceiptsKept, InstalledIsReviewed, OneReceiptEach
<1>4. CASE Install(p) /\ ~Refuse(p)
  <2>1. /\ Goto(p, "confirm") /\ ~ReceiptExists(job[p].proposal)
        /\ dest' = job[p].proposal.art
        /\ receipts' = receipts \cup {Receipt(job[p].proposal, job[p].capture)}
        /\ UNCHANGED <<state, packs, journals, alone>>
    BY <1>4 DEF Install
  <2>2. Moved(p, "confirm")
    BY <2>1, GotoTurn DEF Steps
  <2>5. JobInv(p)'
    BY <1>2, <2>2 DEF Moved, JobInv, ControlInv, CommitInv, Ends, Operations
  <2>3. Turn(p)
    BY <2>1, <2>2, <2>5 DEF Moved, Turn
  <2>4. dest' \in Contents
    BY <1>2, <2>1 DEF Proposals, Contents
  <2>. QED
    BY <1>1, <2>1, <2>3, <2>4, NewReceipt DEF IInv, TypeOK
<1>5. CASE InstallBreaks(p)
  <2>1. /\ Finish(p, "idle") /\ ~ReceiptExists(job[p].proposal)
        /\ dest' \in {job[p].proposal.expected, Foreign, job[p].proposal.art}
        /\ receipts' \in {receipts, receipts \cup {Receipt(job[p].proposal, job[p].capture)}}
        /\ journals' = journals \cup {job[p].proposal}
        /\ UNCHANGED <<state, packs, alone>>
    BY <1>5 DEF InstallBreaks
  <2>2. dest' \in Contents
    BY <1>2, <2>1 DEF Proposals, Contents
  <2>3. Turn(p)
    BY <2>1, FinishTurn DEF Ends
  <2>4. journals' \subseteq Option(Proposals)
    BY <1>2, <2>1 DEF IInv, TypeOK, Option
  <2>. QED
    BY <1>1, <2>1, <2>2, <2>3, <2>4, NewReceipt
<1>. QED
  BY <1>3, <1>4, <1>5

\* Persisting the receipt's name is a turn of its process, and saves a record.
LEMMA PersistTurn ==
  ASSUME IInv, NEW p \in Processes, Committed(p) \/ CommittedUnpersisted(p)
  PROVE  Turn(p) /\ state' \in Records /\ receipts' = receipts
<1>1. CASE Committed(p)
  <2> DEFINE record == IF job[p].read.proposal = job[p].proposal
             THEN [job[p].read EXCEPT !.receipt = Receipt(job[p].proposal, job[p].capture)]
             ELSE state
  <2>1. /\ Save(p, record, "success") /\ job[p].read \in Records
        /\ job[p].at = "committed"
    BY <1>1, FetchedRecord DEF Committed, Fetched, At
  <2>2. Receipt(job[p].proposal, job[p].capture) \in Receipts
    BY <2>1, Types DEF IInv, JobInv, ControlInv
  <2>3. record \in Records
    BY <2>1, <2>2 DEF IInv, TypeOK, Records, Option
  <2>. HIDE DEF record
  <2>. QED
    BY <2>1, <2>3, SaveTurn DEF Ends
<1>2. CASE CommittedUnpersisted(p)
  BY <1>2, FinishTurn DEF CommittedUnpersisted, At, Ends, workspace, IInv, TypeOK
<1>. QED
  BY <1>1, <1>2

\* The steps of a build are turns of its process.
LEMMA BuildTurn ==
  ASSUME IInv, NEW p \in Processes, Building(p)
  PROVE  Turn(p) /\ UNCHANGED <<state, receipts>>
<1>1. CASE Refuse(p)
  BY <1>1, RefuseTurn DEF Refuse, workspace
<1>2. CASE CheckReadiness(p) /\ ~Refuse(p)
  <2>1. Goto(p, "scan") /\ job[p].at = "check" /\ UNCHANGED <<state, receipts>>
    BY <1>2 DEF CheckReadiness, RenderVerifies, Require, At, workspace
  <2>2. Moved(p, "scan")
    BY <2>1, GotoTurn DEF Steps
  <2>3. JobInv(p)'
    BY <2>1, <2>2 DEF Moved, IInv, JobInv, ControlInv, CommitInv, Ends
  <2>. QED
    BY <2>1, <2>2, <2>3 DEF Moved, Turn
<1>3. CASE Scan(p)
  <2>1. job' = [job EXCEPT ![p].snapshot = [packs |-> packs, dest |-> dest],
                           ![p].at = "rescan"]
    BY <1>3 DEF Scan
  <2>2. job' \in [Processes -> Jobs]
    <3> DEFINE new == [job[p] EXCEPT !.snapshot = [packs |-> packs, dest |-> dest],
                                     !.at = "rescan"]
    <3>1. job' = [job EXCEPT ![p] = new]
      BY <2>1 DEF IInv, TypeOK
    <3>2. new \in Jobs
      BY JobFields DEF IInv, TypeOK, Jobs, Option, Steps
    <3>. HIDE DEF new
    <3>. QED
      BY <3>1, <3>2, OneJob
  <2>3. /\ job'[p].at = "rescan" /\ job'[p].op = job[p].op
        /\ job'[p].proposal = job[p].proposal /\ job'[p].capture = job[p].capture
        /\ \A q \in Processes \ {p} : job'[q] = job[q]
    BY <2>1 DEF IInv, TypeOK, Jobs
  <2>4. JobInv(p)'
    BY <1>3, <2>3 DEF Scan, At, IInv, JobInv, ControlInv, CommitInv, Ends
  <2>. QED
    BY <1>3, <2>2, <2>3, <2>4 DEF Turn, Scan, workspace
<1>4. CASE Rescan(p) /\ ~Refuse(p)
  <2>1. job[p].op = "build"
    BY <1>4 DEF Rescan, At, IInv, JobInv, ControlInv
  <2>. QED
    BY <1>4, <2>1, FinishTurn DEF Rescan, Ends, workspace
<1>. QED
  BY <1>1, <1>2, <1>3, <1>4 DEF Building

-----------------------------------------------------------------------------
\* What a step may do: a turn of one process or an edit, and the workspace
\* keeps its types and its receipts.
LEMMA NextTurn ==
  ASSUME IInv, Next
  PROVE  /\ (\E p \in Processes : Turn(p)) \/ UNCHANGED <<job, receipts>>
         /\ state' \in Records /\ packs' \in Versions /\ dest' \in Contents
         /\ journals' \subseteq Option(Proposals) /\ alone' \in BOOLEAN
         /\ ReceiptsKept
<1> USE DEF IInv, TypeOK
<1>0. receipts' = receipts => ReceiptsKept
  BY DEF ReceiptsKept, InstalledIsReviewed, OneReceiptEach
<1>1. ASSUME NEW p \in Processes, NEW op \in May[p], Begin(p, op)
      PROVE  Turn(p) /\ UNCHANGED <<state, workspace>> /\ alone' \in BOOLEAN
  BY <1>1, BeginTurn DEF Begin
<1>2. ASSUME NEW p \in Processes, Drafting(p)
      PROVE  /\ Turn(p) /\ state' \in Records /\ UNCHANGED <<workspace, alone>>
  <2>1. CASE Load(p) \/ Reconcile(p)
    BY <2>1, LoadTurn DEF Load, Reconcile, Refuse
  <2>2. CASE Fetch(p)
    BY <2>2, FetchTurn DEF Fetch
  <2>3. CASE Prepare(p) \/ Compiled(p)
    BY <2>3, CompileTurn DEF Prepare, Compiled, Save
  <2>4. CASE HashDestination(p) \/ Connected(p) \/ Rendered(p)
    BY <2>4, ConnectTurn DEF HashDestination, Connected, Rendered, Save
  <2>5. CASE Overlay(p) \/ Shoot(p) \/ Captured(p) \/ Evidence(p)
    BY <2>5, CaptureTurn DEF Overlay, Require, Shoot, Captured, Evidence, Save, Refuse
  <2>. QED
    BY <1>2, <2>1, <2>2, <2>3, <2>4, <2>5 DEF Drafting
<1>3. ASSUME NEW p \in Processes, Install(p) \/ InstallBreaks(p)
      PROVE  /\ Turn(p) /\ state' = state /\ ReceiptsKept /\ dest' \in Contents
             /\ journals' \subseteq Option(Proposals) /\ UNCHANGED <<packs, alone>>
  BY <1>3, InstallTurn
<1>4. ASSUME NEW p \in Processes, Committing(p), ~(Install(p) \/ InstallBreaks(p))
      PROVE  /\ Turn(p) /\ state' \in Records /\ UNCHANGED <<workspace, alone>>
  <2>1. CASE Accept(p) \/ Recheck(p) \/ Reread(p) \/ Confirm(p)
    BY <2>1, CheckTurn DEF Accept, Recheck, Reread, Confirm, Require, Refuse
  <2>2. CASE Committed(p) \/ CommittedUnpersisted(p)
    BY <2>2, PersistTurn DEF Committed, CommittedUnpersisted, Save
  <2>. QED
    BY <1>4, <2>1, <2>2 DEF Committing
<1>5. ASSUME NEW p \in Processes, Building(p)
      PROVE  Turn(p) /\ UNCHANGED <<state, workspace, alone>>
  BY <1>5, BuildTurn DEF Building, CheckReadiness, Scan, Rescan, Require, Refuse
<1>6. ASSUME NEW p \in Processes, Fail(p)
      PROVE  Turn(p) /\ UNCHANGED <<state, workspace, alone>>
  BY <1>6, FinishTurn DEF Fail, Ends, workspace
<1>7. CASE EditPacks
  <2>1. packs' \in Versions
    BY <1>7, BoundsAssumption DEF EditPacks, Versions
  <2>. QED
    BY <1>0, <1>7, <2>1 DEF EditPacks
<1>8. CASE EditDestination
  BY <1>0, <1>8 DEF EditDestination, Contents
<1>9. CASE TornJournal
  BY <1>0, <1>9 DEF TornJournal, Option
<1>. QED
  BY <1>0, <1>1, <1>2, <1>3, <1>4, <1>5, <1>6, <1>7, <1>8, <1>9 DEF Next, workspace

\* The other jobs keep their invariant: it only asks for receipts to stay.
LEMMA OtherJobs ==
  ASSUME NEW q \in Processes, JobInv(q), job'[q] = job[q], receipts \subseteq receipts'
  PROVE  JobInv(q)'
BY DEF JobInv, ControlInv, CommitInv

\* Every step keeps the invariant.
LEMMA NextInv == IInv /\ [Next]_vars => IInv'
<1>1. CASE UNCHANGED vars
  <2>1. UNCHANGED <<state, packs, dest, receipts, journals, job, alone>>
    BY <1>1 DEF vars, workspace
  <2>. QED
    BY <2>1, OtherJobs DEF IInv, TypeOK, InstalledIsReviewed, OneReceiptEach
<1>2. ASSUME IInv, Next PROVE IInv'
  <2>1. job' \in [Processes -> Jobs] /\ receipts' \subseteq Receipts
    BY <1>2, NextTurn DEF Turn, ReceiptsKept, IInv, TypeOK
  <2>2. TypeOK'
    BY <1>2, <2>1, NextTurn DEF TypeOK
  <2>3. ASSUME NEW q \in Processes PROVE JobInv(q)'
    <3>1. CASE UNCHANGED <<job, receipts>>
      BY <1>2, <3>1, OtherJobs DEF IInv
    <3>2. ASSUME NEW p \in Processes, Turn(p) PROVE JobInv(q)'
      <4>1. CASE q = p
        BY <3>2, <4>1 DEF Turn
      <4>2. CASE q # p
        BY <1>2, <3>2, <4>2, OtherJobs DEF Turn, IInv
      <4>. QED
        BY <4>1, <4>2
    <3>. QED
      BY <1>2, <3>1, <3>2, NextTurn
  <2>. QED
    BY <1>2, <2>2, <2>3, NextTurn DEF IInv, ReceiptsKept
<1>. QED
  BY <1>1, <1>2

\* The inductive invariant of the revision's life.
THEOREM Invariance == Spec => []IInv
BY InitInv, NextInv, PTL DEF Spec

\* Every variable keeps its type.
THEOREM TypeCorrect == Spec => []TypeOK
<1>1. IInv => TypeOK
  BY DEF IInv
<1>. QED
  BY Invariance, <1>1, PTL

\* Nothing is installed that was not reviewed (InstalledIsReviewed), however
\* many processes overwrite each other's state.
THEOREM OnlyReviewedIsInstalled == Spec => []InstalledIsReviewed
<1>1. IInv => InstalledIsReviewed
  BY DEF IInv
<1>. QED
  BY Invariance, <1>1, PTL

\* One proposal is installed at most once (OneReceiptEach).
THEOREM InstalledOnce == Spec => []OneReceiptEach
<1>1. IInv => OneReceiptEach
  BY DEF IInv
<1>. QED
  BY Invariance, <1>1, PTL

\* A commit that reports success left the receipt its caller accepted
\* (SuccessIsWhatWasAccepted).
THEOREM SuccessIsAccepted == Spec => SuccessIsWhatWasAccepted
<1>1. ASSUME IInv, Next, NEW p \in Processes, job[p].op = "commit", job'[p].at = "success"
      PROVE  Receipt(job[p].proposal, job[p].capture) \in receipts'
  <2>1. receipts \subseteq receipts'
    BY <1>1, NextTurn DEF Turn
  <2>2. job[p].at = "committed" => Receipt(job[p].proposal, job[p].capture) \in receipts
    BY <1>1 DEF IInv, JobInv, CommitInv
  <2>3. job[p].at = "committed"
    <3>1. job[p].at # "success"
      BY <1>1, Types DEF IInv, JobInv, ControlInv, Ends, Operations
    <3>2. PICK q \in Processes : Turn(q)
      BY <1>1, <3>1, NextTurn
    <3>. QED
      BY <1>1, <3>1, <3>2 DEF Turn
  <2>. QED
    BY <2>1, <2>2, <2>3
<1>2. IInv /\ [Next]_vars =>
        [\A p \in Processes :
           job[p].op = "commit" /\ job'[p].at = "success"
             => Receipt(job[p].proposal, job[p].capture) \in receipts']_vars
  BY <1>1
<1>. QED
  BY Invariance, <1>2, PTL DEF Spec, SuccessIsWhatWasAccepted

-----------------------------------------------------------------------------
(* While the processes take turns: what the active one has read is current. *)

Active(p) == job[p].at \notin Ends

\* What a process knows of the record when nobody else is active.
LoneInv(p) ==
  LET j == job[p]
  IN  /\ j.read # None => j.read = state
      /\ j.at = "reconcile" => j.record = state
      /\ j.at # "load" => /\ j.record.compiled = state.compiled /\ j.record.proposal = state.proposal
                          /\ j.record.capture = state.capture
      /\ j.at = "connected" => j.proposal.art = state.compiled
      /\ j.op = "capture" /\ j.at \notin {"load", "reconcile"} => state.receipt = None
      /\ j.at = "captured" => j.capture.proposal = j.proposal
      /\ j.at = "accept" /\ state.proposal # None /\ ReceiptExists(state.proposal) =>
           j.record.receipt = Receipt(state.proposal, state.capture)
      /\ j.op = "commit" /\ j.at \in {"prepare", "compiled"} =>
           state.proposal = j.proposal /\ state.capture = j.capture
      /\ j.op = "commit" /\ j.at \in {"recheck", "reread", "install", "confirm", "committed"} =>
           (state.proposal = j.proposal => state.capture = j.capture)
      /\ j.op = "commit" /\ j.at \in {"prepare", "compiled", "recheck", "reread", "install"} =>
           ~ReceiptExists(j.proposal)

AloneInv ==
  /\ RecordCoheres
  /\ alone => /\ \A p, q \in Processes : Active(p) /\ Active(q) => p = q
              /\ \A p \in Processes : Active(p) => LoneInv(p)

\* The active process takes a step; the others stay idle.
LEMMA LoneTurn ==
  ASSUME AloneInv, NEW p \in Processes, Active(p), alone' = alone,
         \A q \in Processes \ {p} : job'[q] = job[q], RecordCoheres',
         alone /\ Active(p)' => LoneInv(p)'
  PROVE  AloneInv'
<1>1. ASSUME alone, NEW q \in Processes \ {p} PROVE ~Active(q)'
  BY <1>1 DEF AloneInv, Active
<1>. QED
  BY <1>1 DEF AloneInv, Active

\* An operation ends, and the record stays.
LEMMA LoneEnd ==
  ASSUME IInv, AloneInv, NEW p \in Processes, Active(p), NEW end \in Ends, Finish(p, end),
         state' = state, receipts \subseteq receipts', alone' = alone
  PROVE  AloneInv'
<1>1. job'[p] = [Idle EXCEPT !.at = end] /\ \A q \in Processes \ {p} : job'[q] = job[q]
  BY DEF Finish, IInv, TypeOK
<1>2. ~Active(p)'
  BY <1>1 DEF Active, Idle, Ends
<1>3. RecordCoheres'
  BY DEF AloneInv, RecordCoheres
<1>. QED
  BY <1>1, <1>2, <1>3, LoneTurn

\* A refused operation ends.
LEMMA LoneRefuse ==
  ASSUME IInv, AloneInv, NEW p \in Processes, Active(p), Refuse(p)
  PROVE  AloneInv'
BY LoneEnd DEF Refuse, Ends, workspace

\* What holds of the record still holds when nothing but the job has changed.
LEMMA LoneMove ==
  ASSUME IInv, AloneInv, NEW p \in Processes, Active(p), UNCHANGED <<state, receipts, alone>>,
         \A q \in Processes \ {p} : job'[q] = job[q], alone => LoneInv(p)'
  PROVE  AloneInv'
<1>1. RecordCoheres'
  BY DEF AloneInv, RecordCoheres
<1>. QED
  BY <1>1, LoneTurn

\* An operation begins: whoever is active is now the only one, or alone is no more.
LEMMA LoneBegin ==
  ASSUME IInv, AloneInv, NEW p \in Processes, NEW op \in May[p], Begin(p, op)
  PROVE  AloneInv'
<1> DEFINE proposal == IF op \in {"capture", "commit"} THEN state.proposal ELSE None
           capture == IF op = "commit" THEN state.capture ELSE None
           new == [Idle EXCEPT !.op = op, !.at = "load", !.proposal = proposal,
                               !.capture = capture]
<1>1. /\ job' = [job EXCEPT ![p] = new] /\ alone' = (alone /\ \A q \in Processes \ {p} : job[q].at \in Ends)
      /\ state' = state /\ receipts' = receipts
  BY DEF Begin, workspace
<1>2. new.at = "load" /\ new.read = None
  BY DEF Idle
<1> HIDE DEF new
<1>3. job'[p] = new /\ \A q \in Processes \ {p} : job'[q] = job[q]
  BY <1>1 DEF IInv, TypeOK
<1>4. LoneInv(p)'
  BY <1>2, <1>3 DEF LoneInv
<1>5. RecordCoheres'
  BY <1>1 DEF AloneInv, RecordCoheres
<1>6. ASSUME alone', NEW q \in Processes \ {p} PROVE ~Active(q)'
  BY <1>1, <1>3, <1>6 DEF Active
<1>. QED
  BY <1>4, <1>5, <1>6 DEF AloneInv

\* The revision is loaded, and its receipt reconciled.
LEMMA LoneLoad ==
  ASSUME IInv, AloneInv, NEW p \in Processes, Load(p) \/ Reconcile(p)
  PROVE  AloneInv'
<1>1. CASE Load(p)
  <2> DEFINE new == [job[p] EXCEPT !.record = state, !.at = "reconcile"]
  <2>1. job' = [job EXCEPT ![p] = new] /\ UNCHANGED <<state, receipts, alone>> /\ Active(p)
    BY <1>1 DEF Load, workspace, Active, At, Ends, IInv, TypeOK
  <2>2. /\ new.at = "reconcile" /\ new.record = state /\ new.read = job[p].read /\ new.op = job[p].op
    BY JobFields DEF Jobs
  <2> HIDE DEF new
  <2>3. job'[p] = new /\ \A q \in Processes \ {p} : job'[q] = job[q]
    BY <2>1 DEF IInv, TypeOK
  <2>4. alone => LoneInv(p)'
    BY <2>1, <2>2, <2>3 DEF AloneInv, LoneInv
  <2>. QED
    BY <2>1, <2>3, <2>4, LoneMove
<1>2. CASE Reconcile(p) /\ Refuse(p)
  BY <1>2, LoneRefuse DEF Reconcile, At, Active, Ends
<1>3. CASE Reconcile(p) /\ ~Refuse(p)
  <2> DEFINE record == job[p].record
             receipt == IF Bound(record) THEN Receipt(record.proposal, record.capture) ELSE None
             loaded == [record EXCEPT !.receipt = receipt]
             step == AfterLoad(job[p].op)
             new == [job[p] EXCEPT !.at = step, !.record = loaded]
  <2>1. /\ job' = [job EXCEPT ![p].at = step, ![p].record.receipt = receipt]
        /\ job[p].at = "reconcile" /\ UNCHANGED <<state, receipts, alone>>
        /\ Reconciles(record) /\ ~(Bound(record) /\ job[p].op = "capture")
    BY <1>3 DEF Reconcile, workspace, At
  <2>2. job' = [job EXCEPT ![p] = new]
    BY <2>1 DEF IInv, TypeOK, Jobs
  <2>3. loaded.compiled = record.compiled /\ loaded.proposal = record.proposal /\ loaded.capture = record.capture
    BY JobFields DEF Records
  <2>4. record \in Records => loaded.receipt = receipt
    BY DEF Records
  <2> HIDE DEF receipt, loaded
  <2>5. new.at = step /\ new.record = loaded /\ new.read = job[p].read /\ new.op = job[p].op
    BY JobFields DEF Jobs
  <2> HIDE DEF new
  <2>6. job'[p] = new /\ \A q \in Processes \ {p} : job'[q] = job[q]
    BY <2>2 DEF IInv, TypeOK
  <2>7. Active(p) /\ job[p].op \in Operations
    BY <2>1 DEF Active, Ends, IInv, JobInv, ControlInv
  <2>8. /\ step \in {"accept", "check", "prepare"} /\ (job[p].op = "commit" => step = "accept")
    BY <2>7 DEF AfterLoad, Operations
  <2> HIDE DEF step
  <2>9. ASSUME alone PROVE LoneInv(p)'
    <3>1. LoneInv(p) /\ record = state /\ RecordCoheres
      BY <2>1, <2>7, <2>9 DEF AloneInv, LoneInv
    <3>2. job[p].op = "capture" => state.receipt = None
      <4>1. state.receipt # None => state.receipt \in Receipts /\ state.receipt.proposal = state.proposal
        BY <2>9, <3>1 DEF RecordCoheres, IInv, TypeOK, Receipt
      <4>2. state.receipt # None => state.proposal # None
        BY <4>1, Types DEF Receipts
      <4>. QED
        BY <2>1, <3>1, <4>2 DEF Bound
    <3>3. state.proposal # None /\ ReceiptExists(state.proposal) =>
            loaded.receipt = Receipt(state.proposal, state.capture)
      BY <2>4, <3>1, JobFields DEF Bound, receipt
    <3>. QED
      BY <2>1, <2>3, <2>5, <2>6, <2>8, <3>1, <3>2, <3>3 DEF LoneInv, ReceiptExists
  <2>. QED
    BY <2>1, <2>6, <2>7, <2>9, LoneMove
<1>. QED
  BY <1>1, <1>2, <1>3

\* An update reads the state file.
LEMMA LoneFetch ==
  ASSUME IInv, AloneInv, NEW p \in Processes, Fetch(p)
  PROVE  AloneInv'
<1> DEFINE new == [job[p] EXCEPT !.read = state]
<1>1. /\ job' = [job EXCEPT ![p] = new] /\ UNCHANGED <<state, receipts, alone>>
      /\ Active(p)
  BY DEF Fetch, workspace, Active, Ends, Updates, IInv, TypeOK
<1>2. /\ new.at = job[p].at /\ new.op = job[p].op /\ new.read = state /\ new.record = job[p].record
      /\ new.proposal = job[p].proposal /\ new.capture = job[p].capture
  BY JobFields DEF Jobs
<1> HIDE DEF new
<1>3. job'[p] = new /\ \A q \in Processes \ {p} : job'[q] = job[q]
  BY <1>1 DEF IInv, TypeOK
<1>4. alone => LoneInv(p)'
  BY <1>1, <1>2, <1>3 DEF AloneInv, LoneInv, ReceiptExists
<1>. QED
  BY <1>1, <1>3, <1>4, LoneMove

\* The operation goes on from step to step: what it knows is still so.
LEMMA LoneGoto ==
  ASSUME IInv, AloneInv, NEW p \in Processes, Active(p), NEW step \in Steps, Goto(p, step),
         UNCHANGED <<state, receipts, alone>>,
         step \notin {"load", "reconcile", "connected", "captured", "accept"},
         job[p].at \notin {"load", "reconcile"},
         alone /\ job[p].op = "commit" => step # "compiled",
         alone /\ job[p].op = "commit" /\ step = "prepare" =>
           /\ state.proposal = job[p].proposal /\ state.capture = job[p].capture
           /\ ~ReceiptExists(job[p].proposal),
         alone /\ job[p].op = "commit" /\ step \in {"recheck", "reread", "install", "confirm", "committed"} =>
           (state.proposal = job[p].proposal => state.capture = job[p].capture),
         alone /\ job[p].op = "commit" /\ step \in {"recheck", "reread", "install"} =>
           ~ReceiptExists(job[p].proposal)
  PROVE  AloneInv'
<1>1. Moved(p, step)
  BY GotoTurn
<1>2. alone => LoneInv(p)'
  BY <1>1 DEF AloneInv, LoneInv, Moved, ReceiptExists
<1>. QED
  BY <1>1, <1>2, LoneMove DEF Moved

\* A saved record: the operation ends or goes on with it.
LEMMA LoneSave ==
  ASSUME IInv, AloneInv, NEW p \in Processes, Active(p), NEW record \in Records,
         NEW step \in Steps \cup Ends, Save(p, record, step),
         step \in Ends => job[p].op # "commit" \/ job[p].at = "committed",
         step \notin {"load", "reconcile", "connected", "captured", "accept", "prepare", "compiled"},
         RecordCoheres', alone /\ job[p].op = "capture" /\ step \notin Ends => record.receipt = None,
         alone /\ job[p].op = "commit" /\ step \notin Ends =>
           /\ record.proposal = job[p].proposal => record.capture = job[p].capture
           /\ ~ReceiptExists(job[p].proposal)
  PROVE  AloneInv'
<1>1. UNCHANGED <<receipts, alone>> /\ state' = record
  BY DEF Save, workspace
<1>2. CASE step \in Ends
  <2>1. job'[p] = [Idle EXCEPT !.at = step] /\ \A q \in Processes \ {p} : job'[q] = job[q]
    BY <1>2 DEF Save, Finish, IInv, TypeOK
  <2>2. ~Active(p)'
    BY <1>2, <2>1 DEF Active, Idle
  <2>. QED
    BY <1>1, <2>1, <2>2, LoneTurn
<1>3. CASE step \notin Ends
  <2>1. /\ \A q \in Processes \ {p} : job'[q] = job[q]
        /\ job'[p].at = step /\ job'[p].record = record
        /\ job'[p].op = job[p].op /\ job'[p].proposal = job[p].proposal
        /\ job'[p].capture = job[p].capture /\ job'[p].read = None
    BY <1>3, SaveTurn
  <2>2. alone => LoneInv(p)'
    BY <1>1, <1>3, <2>1 DEF LoneInv, ReceiptExists
  <2>. QED
    BY <1>1, <2>1, <2>2, LoneTurn
<1>. QED
  BY <1>2, <1>3

\* What an update of the active process has read is the state file of now.
LEMMA LoneFetched ==
  ASSUME IInv, AloneInv, NEW p \in Processes, NEW update \in Updates, Fetched(p, update)
  PROVE  /\ Active(p) /\ job[p].at = update /\ job[p].read \in Records
         /\ alone => job[p].read = state /\ LoneInv(p)
<1>1. Active(p) /\ job[p].at = update
  BY DEF Fetched, At, Active, Updates, Ends
<1>. QED
  BY <1>1, FetchedRecord DEF Fetched, AloneInv, LoneInv

\* A new artifact drops what was derived; the same one keeps it.
LEMMA LoneCompile ==
  ASSUME IInv, AloneInv, NEW p \in Processes, Prepare(p) \/ Compiled(p)
  PROVE  AloneInv'
<1>1. CASE Prepare(p)
  <2> DEFINE new == [job[p] EXCEPT !.art = ArtOf[packs], !.at = "compiled"]
  <2>1. job' = [job EXCEPT ![p] = new] /\ UNCHANGED <<state, receipts, alone>> /\ job[p].at = "prepare" /\ Active(p)
    BY <1>1 DEF Prepare, workspace, Active, At, Ends, IInv, TypeOK
  <2>2. /\ new.at = "compiled" /\ new.record = job[p].record /\ new.read = job[p].read /\ new.op = job[p].op
        /\ new.proposal = job[p].proposal /\ new.capture = job[p].capture
    BY JobFields DEF Jobs
  <2> HIDE DEF new
  <2>3. job'[p] = new /\ \A q \in Processes \ {p} : job'[q] = job[q]
    BY <2>1 DEF IInv, TypeOK
  <2>4. alone => LoneInv(p)'
    BY <2>1, <2>2, <2>3 DEF AloneInv, LoneInv, ReceiptExists
  <2>. QED
    BY <2>1, <2>3, <2>4, LoneMove
<1>2. CASE Compiled(p)
  <2> DEFINE fresh == [Nothing EXCEPT !.compiled = job[p].art]
             record == IF job[p].read.compiled = job[p].art THEN job[p].read ELSE fresh
             step == AfterCompile(job[p].op)
  <2>1. /\ Save(p, record, step) /\ job[p].at = "compiled" /\ Active(p) /\ job[p].read \in Records
        /\ alone => job[p].read = state /\ LoneInv(p)
    BY <1>2, LoneFetched DEF Compiled, Updates
  <2>2. /\ job[p].op \in Operations \ {"build"} /\ job[p].art \in Arts
    BY <2>1 DEF IInv, JobInv, ControlInv, Ends
  <2>3. /\ fresh.compiled = job[p].art /\ fresh.proposal = None /\ fresh.render = None
        /\ fresh.capture = None /\ fresh.receipt = None
    BY DEF Nothing
  <2>4. record \in Records
    BY <2>1, <2>2, Types DEF Nothing, Records, Option
  <2>5. /\ step \in {"success", "hash", "rendered", "overlay", "recheck"}
        /\ step = "success" => job[p].op = "compile"
    BY <2>2 DEF AfterCompile, Operations
  <2> HIDE DEF fresh
  <2>6. UNCHANGED <<receipts, alone>> /\ state' = record
    BY <2>1 DEF Save, workspace
  <2>7. ASSUME alone
        PROVE  /\ RecordCoheres' /\ (job[p].op = "capture" => record.receipt = None)
               /\ job[p].op = "commit" =>
                    /\ record.proposal = job[p].proposal => record.capture = job[p].capture
                    /\ ~ReceiptExists(job[p].proposal)
    <3>1. LoneInv(p) /\ job[p].read = state /\ RecordCoheres
      BY <2>1, <2>7 DEF AloneInv
    <3>2. CASE record = state
      BY <2>1, <2>6, <3>1, <3>2 DEF LoneInv, RecordCoheres
    <3>3. CASE record = fresh
      <4>1. RecordCoheres'
        BY <2>3, <2>6, <3>3 DEF RecordCoheres
      <4>2. job[p].op = "commit" => job[p].proposal # None /\ ~ReceiptExists(job[p].proposal)
        BY <2>1, <3>1, Types DEF LoneInv, IInv, JobInv, ControlInv
      <4>. QED
        BY <2>3, <3>3, <4>1, <4>2
    <3>. QED
      BY <3>1, <3>2, <3>3
  <2>8. ~alone => RecordCoheres'
    BY <2>6 DEF RecordCoheres
  <2> HIDE DEF record, step
  <2>9. /\ step \in Steps \cup Ends /\ (step \in Ends => job[p].op # "commit")
        /\ step \notin {"load", "reconcile", "connected", "captured", "accept", "prepare", "compiled"}
    BY <2>5 DEF Steps, Ends, Updates
  <2>10. RecordCoheres'
    BY <2>7, <2>8
  <2>. QED
    BY <2>1, <2>4, <2>7, <2>9, <2>10, LoneSave
<1>. QED
  BY <1>1, <1>2

\* A new proposal is of the artifact in the record, and drops the capture and the receipt.
LEMMA LoneConnect ==
  ASSUME IInv, AloneInv, NEW p \in Processes, HashDestination(p) \/ Connected(p) \/ Rendered(p)
  PROVE  AloneInv'
<1>1. CASE HashDestination(p)
  <2> DEFINE proposal == [art |-> job[p].record.compiled, expected |-> dest]
             new == [job[p] EXCEPT !.proposal = proposal, !.at = "connected"]
  <2>1. job' = [job EXCEPT ![p] = new] /\ UNCHANGED <<state, receipts, alone>> /\ job[p].at = "hash" /\ Active(p)
    BY <1>1 DEF HashDestination, workspace, Active, At, Ends, IInv, TypeOK
  <2>2. /\ new.at = "connected" /\ new.record = job[p].record /\ new.read = job[p].read /\ new.op = job[p].op
        /\ new.capture = job[p].capture
    BY JobFields DEF Jobs
  <2>3. new.proposal = proposal /\ proposal.art = job[p].record.compiled
    BY JobFields DEF Jobs
  <2>4. job[p].op = "connect"
    BY <2>1 DEF IInv, JobInv, ControlInv
  <2> HIDE DEF new, proposal
  <2>5. job'[p] = new /\ \A q \in Processes \ {p} : job'[q] = job[q]
    BY <2>1 DEF IInv, TypeOK
  <2>6. alone => LoneInv(p)'
    BY <2>1, <2>2, <2>3, <2>4, <2>5 DEF AloneInv, LoneInv
  <2>. QED
    BY <2>1, <2>5, <2>6, LoneMove
<1>2. CASE Connected(p)
  <2> DEFINE kept == IF job[p].read.proposal = job[p].proposal THEN job[p].read
                     ELSE [job[p].read EXCEPT !.capture = None, !.receipt = None]
             record == [kept EXCEPT !.proposal = job[p].proposal]
  <2>1. /\ Save(p, record, "success") /\ Active(p) /\ job[p].at = "connected" /\ job[p].read \in Records
        /\ alone => job[p].read = state /\ LoneInv(p)
    BY <1>2, LoneFetched DEF Connected, Updates
  <2>2. job[p].op = "connect" /\ job[p].proposal \in Option(Proposals)
    BY <2>1 DEF IInv, TypeOK, Jobs, JobInv, ControlInv
  <2>3. kept \in Records
    BY <2>1 DEF Records, Option
  <2>4. /\ kept.compiled = job[p].read.compiled /\ kept.render = job[p].read.render
        /\ job[p].read.proposal = job[p].proposal => kept = job[p].read
        /\ job[p].read.proposal # job[p].proposal => kept.capture = None /\ kept.receipt = None
    BY <2>1 DEF Records
  <2> HIDE DEF kept
  <2>5. record \in Records
    BY <2>2, <2>3 DEF Records
  <2>6. /\ record.compiled = kept.compiled /\ record.render = kept.render /\ record.proposal = job[p].proposal
        /\ record.capture = kept.capture /\ record.receipt = kept.receipt
    BY <2>3 DEF Records
  <2> HIDE DEF record
  <2>7. UNCHANGED <<receipts, alone>> /\ state' = record
    BY <2>1 DEF Save, workspace
  <2>8. RecordCoheres'
    <3>1. ASSUME alone PROVE RecordCoheres'
      <4>1. RecordCoheres /\ job[p].read = state /\ job[p].proposal.art = state.compiled
        BY <2>1, <3>1 DEF AloneInv, LoneInv
      <4>2. CASE job[p].read.proposal = job[p].proposal
        BY <2>4, <2>6, <2>7, <3>1, <4>1, <4>2 DEF RecordCoheres
      <4>3. CASE job[p].read.proposal # job[p].proposal
        BY <2>4, <2>6, <2>7, <3>1, <4>1, <4>3 DEF RecordCoheres
      <4>. QED
        BY <4>2, <4>3
    <3>. QED
      BY <2>7, <3>1 DEF RecordCoheres
  <2>. QED
    BY <2>1, <2>2, <2>5, <2>8, LoneSave DEF Ends
<1>3. CASE Rendered(p)
  <2> DEFINE record == [job[p].read EXCEPT !.render = job[p].record.compiled]
  <2>1. /\ Save(p, record, "success") /\ Active(p) /\ job[p].at = "rendered" /\ job[p].read \in Records
        /\ alone => job[p].read = state /\ LoneInv(p)
    BY <1>3, LoneFetched DEF Rendered, Updates
  <2>2. job[p].op = "render" /\ job[p].record.compiled \in Option(Arts)
    BY <2>1, JobFields DEF IInv, JobInv, ControlInv, Records
  <2>3. record \in Records
    BY <2>1, <2>2 DEF Records
  <2>4. /\ record.compiled = job[p].read.compiled /\ record.render = job[p].record.compiled
        /\ record.proposal = job[p].read.proposal
        /\ record.capture = job[p].read.capture /\ record.receipt = job[p].read.receipt
    BY <2>1 DEF Records
  <2> HIDE DEF record
  <2>5. UNCHANGED <<receipts, alone>> /\ state' = record
    BY <2>1 DEF Save, workspace
  <2>6. RecordCoheres'
    BY <2>1, <2>4, <2>5 DEF AloneInv, LoneInv, RecordCoheres
  <2>. QED
    BY <2>1, <2>2, <2>3, <2>6, LoneSave DEF Ends
<1>. QED
  BY <1>1, <1>2, <1>3

\* A capture is taken of the current proposal, and is recorded with it.
LEMMA LoneCapture ==
  ASSUME IInv, AloneInv, NEW p \in Processes,
         Overlay(p) \/ Shoot(p) \/ Captured(p) \/ Evidence(p)
  PROVE  AloneInv'
<1>1. Active(p) /\ job[p].op = "capture"
  BY DEF Overlay, Shoot, Captured, Evidence, Fetched, At, Active, Ends, IInv, JobInv, ControlInv
<1>2. CASE Refuse(p)
  BY <1>1, <1>2, LoneRefuse
<1>3. CASE Overlay(p) /\ ~Refuse(p)
  <2>1. Goto(p, "shoot") /\ job[p].at = "overlay" /\ UNCHANGED <<state, receipts, alone>>
    BY <1>3 DEF Overlay, Require, At, workspace
  <2>. QED
    BY <1>1, <2>1, LoneGoto DEF Steps
<1>4. CASE Shoot(p)
  <2>1. PICK report \in Reports :
          job' = [job EXCEPT ![p].at = "captured",
            ![p].capture = [proposal |-> job[p].proposal, packs |-> packs, report |-> report]]
    BY <1>4 DEF Shoot
  <2> DEFINE capture == [proposal |-> job[p].proposal, packs |-> packs, report |-> report]
             new == [job[p] EXCEPT !.at = "captured", !.capture = capture]
  <2>2. /\ job' = [job EXCEPT ![p] = new] /\ job[p].at = "shoot"
        /\ UNCHANGED <<state, receipts, alone>>
    BY <1>4, <2>1 DEF Shoot, At, workspace, IInv, TypeOK
  <2>3. capture.proposal = job[p].proposal
    OBVIOUS
  <2> HIDE DEF capture
  <2>4. /\ new.at = "captured" /\ new.record = job[p].record /\ new.read = job[p].read
        /\ new.op = job[p].op /\ new.proposal = job[p].proposal /\ new.capture = capture
    BY JobFields DEF Jobs
  <2> HIDE DEF new
  <2>5. job'[p] = new /\ \A q \in Processes \ {p} : job'[q] = job[q]
    BY <2>2 DEF IInv, TypeOK
  <2>6. alone => LoneInv(p)'
    BY <1>1, <2>2, <2>3, <2>4, <2>5 DEF AloneInv, LoneInv
  <2>. QED
    BY <1>1, <2>2, <2>5, <2>6, LoneMove
<1>5. CASE Captured(p) /\ ~Refuse(p)
  <2> DEFINE record == [job[p].read EXCEPT !.capture = job[p].capture]
  <2>1. /\ Save(p, record, "evidence") /\ job[p].read.proposal = job[p].proposal
        /\ job[p].at = "captured" /\ job[p].read \in Records
        /\ alone => job[p].read = state /\ LoneInv(p)
    BY <1>5, LoneFetched DEF Captured, Updates
  <2>2. record \in Records
    BY <2>1, JobFields DEF Records
  <2>3. /\ record.compiled = job[p].read.compiled /\ record.render = job[p].read.render
        /\ record.proposal = job[p].read.proposal /\ record.capture = job[p].capture
        /\ record.receipt = job[p].read.receipt
    BY <2>1 DEF Records
  <2> HIDE DEF record
  <2>4. UNCHANGED <<receipts, alone>> /\ state' = record
    BY <2>1 DEF Save, workspace
  <2>5. alone => record.receipt = None
    BY <1>1, <2>1, <2>3 DEF LoneInv
  <2>6. RecordCoheres'
    BY <2>1, <2>3, <2>4, <2>5 DEF AloneInv, LoneInv, RecordCoheres
  <2>. QED
    BY <1>1, <2>1, <2>2, <2>5, <2>6, LoneSave DEF Steps, Ends
<1>6. CASE Evidence(p) /\ ~Refuse(p)
  BY <1>1, <1>6, LoneEnd DEF Evidence, Ends, workspace
<1>. QED
  BY <1>2, <1>3, <1>4, <1>5, <1>6

\* What a commit accepts is the record of now, and has no receipt yet or is
\* only confirmed.
LEMMA LoneCheck ==
  ASSUME IInv, AloneInv, NEW p \in Processes,
         Accept(p) \/ Recheck(p) \/ Reread(p) \/ Confirm(p)
  PROVE  AloneInv'
<1>1. Active(p) /\ job[p].op = "commit"
  BY DEF Accept, Recheck, Reread, Confirm, At, Active, Ends, IInv, JobInv, ControlInv
<1>2. CASE Refuse(p)
  BY <1>1, <1>2, LoneRefuse
<1>3. CASE Accept(p) /\ ~Refuse(p)
  <2>1. /\ job[p].at = "accept" /\ UNCHANGED <<state, receipts, alone>>
        /\ job[p].record.proposal = job[p].proposal
        /\ job[p].record.capture = job[p].capture
    BY <1>3 DEF Accept, Require, At, workspace
  <2>2. alone => LoneInv(p) /\ state.proposal = job[p].proposal /\ state.capture = job[p].capture
    BY <1>1, <2>1 DEF AloneInv, LoneInv
  <2>3. job[p].proposal # None
    BY <1>1, Types DEF IInv, JobInv, ControlInv
  <2>4. CASE /\ Goto(p, "prepare")
             /\ job[p].record.receipt # Receipt(job[p].proposal, job[p].capture)
    <3>1. alone => ~ReceiptExists(job[p].proposal)
      BY <2>1, <2>2, <2>3, <2>4 DEF LoneInv
    <3>. QED
      BY <1>1, <2>1, <2>2, <2>4, <3>1, LoneGoto DEF Steps
  <2>5. CASE Goto(p, "committed")
    BY <1>1, <2>1, <2>2, <2>5, LoneGoto DEF Steps, Updates
  <2>. QED
    BY <1>3, <2>4, <2>5 DEF Accept, Require
<1>4. CASE Recheck(p) /\ ~Refuse(p)
  <2>1. Goto(p, "reread") /\ job[p].at = "recheck" /\ UNCHANGED <<state, receipts, alone>>
    BY <1>4 DEF Recheck, Require, At, workspace
  <2>2. alone => LoneInv(p)
    BY <1>1 DEF AloneInv
  <2>. QED
    BY <1>1, <2>1, <2>2, LoneGoto DEF LoneInv, Steps
<1>5. CASE Reread(p) /\ ~Refuse(p)
  <2>1. Goto(p, "install") /\ job[p].at = "reread" /\ UNCHANGED <<state, receipts, alone>>
    BY <1>5 DEF Reread, Require, At, workspace
  <2>2. alone => LoneInv(p)
    BY <1>1 DEF AloneInv
  <2>. QED
    BY <1>1, <2>1, <2>2, LoneGoto DEF LoneInv, Steps
<1>6. CASE Confirm(p) /\ ~Refuse(p)
  <2>1. Goto(p, "committed") /\ job[p].at = "confirm" /\ UNCHANGED <<state, receipts, alone>>
    BY <1>6 DEF Confirm, Require, At, workspace
  <2>2. alone => LoneInv(p)
    BY <1>1 DEF AloneInv
  <2>. QED
    BY <1>1, <2>1, <2>2, LoneGoto DEF LoneInv, Steps, Updates
<1>. QED
  BY <1>2, <1>3, <1>4, <1>5, <1>6

\* The installation adds a receipt and leaves the record.
LEMMA LoneInstall ==
  ASSUME IInv, AloneInv, NEW p \in Processes, Install(p) \/ InstallBreaks(p)
  PROVE  AloneInv'
<1>1. Active(p) /\ job[p].at = "install" /\ job[p].op = "commit"
  BY DEF Install, InstallBreaks, At, Active, Ends, IInv, JobInv, ControlInv
<1>2. CASE Refuse(p)
  BY <1>1, <1>2, LoneRefuse
<1>3. CASE Install(p) /\ ~Refuse(p)
  <2>1. Goto(p, "confirm") /\ receipts \subseteq receipts' /\ UNCHANGED <<state, alone>>
    BY <1>3 DEF Install
  <2>2. Moved(p, "confirm")
    BY <2>1, GotoTurn DEF Steps
  <2>3. RecordCoheres'
    BY <2>1 DEF AloneInv, RecordCoheres
  <2>4. alone => LoneInv(p)'
    BY <1>1, <2>1, <2>2 DEF AloneInv, LoneInv, Moved
  <2>. QED
    BY <1>1, <2>1, <2>2, <2>3, <2>4, LoneTurn DEF Moved
<1>4. CASE InstallBreaks(p)
  <2>1. Finish(p, "idle") /\ receipts \subseteq receipts' /\ state' = state /\ alone' = alone
    BY <1>4 DEF InstallBreaks
  <2>. QED
    BY <1>1, <2>1, LoneEnd DEF Ends
<1>. QED
  BY <1>2, <1>3, <1>4

\* The receipt is recorded with the proposal and the capture it binds.
LEMMA LonePersist ==
  ASSUME IInv, AloneInv, NEW p \in Processes, Committed(p) \/ CommittedUnpersisted(p)
  PROVE  AloneInv'
<1>1. Active(p) /\ job[p].at = "committed" /\ job[p].op = "commit"
  BY DEF Committed, CommittedUnpersisted, Fetched, At, Active, Ends, IInv, JobInv, ControlInv
<1>2. CASE CommittedUnpersisted(p)
  BY <1>1, <1>2, LoneEnd DEF CommittedUnpersisted, Ends, workspace
<1>3. CASE Committed(p)
  <2> DEFINE receipt == Receipt(job[p].proposal, job[p].capture)
             persisted == [job[p].read EXCEPT !.receipt = receipt]
             record == IF job[p].read.proposal = job[p].proposal THEN persisted ELSE state
  <2>1. /\ Save(p, record, "success") /\ job[p].read \in Records
        /\ alone => job[p].read = state /\ LoneInv(p)
    BY <1>3, LoneFetched DEF Committed, Updates
  <2>2. receipt \in Receipts /\ receipt \in receipts
    BY <1>1, Types DEF IInv, JobInv, ControlInv, CommitInv
  <2>3. /\ persisted.compiled = job[p].read.compiled /\ persisted.render = job[p].read.render
        /\ persisted.proposal = job[p].read.proposal /\ persisted.capture = job[p].read.capture
        /\ persisted.receipt = receipt
    BY <2>1 DEF Records
  <2>4. persisted \in Records
    BY <2>1, <2>2 DEF Records, Option
  <2> HIDE DEF persisted
  <2>5. record \in Records
    BY <2>4 DEF IInv, TypeOK
  <2> HIDE DEF record
  <2>6. UNCHANGED <<receipts, alone>> /\ state' = record
    BY <2>1 DEF Save, workspace
  <2>7. RecordCoheres'
    <3>1. CASE job[p].read.proposal # job[p].proposal
      BY <2>6, <3>1 DEF record, AloneInv, RecordCoheres
    <3>2. CASE job[p].read.proposal = job[p].proposal
      <4>1. state' = persisted
        BY <2>6, <3>2 DEF record
      <4>2. alone => receipt = Receipt(persisted.proposal, persisted.capture)
        BY <1>1, <2>1, <2>3, <3>2 DEF LoneInv
      <4>. HIDE DEF receipt
      <4>. QED
        BY <2>1, <2>2, <2>3, <2>6, <4>1, <4>2 DEF AloneInv, RecordCoheres
    <3>. QED
      BY <3>1, <3>2
  <2>. QED
    BY <1>1, <2>1, <2>5, <2>7, LoneSave DEF Ends
<1>. QED
  BY <1>2, <1>3

\* A build only reads.
LEMMA LoneBuild ==
  ASSUME IInv, AloneInv, NEW p \in Processes, Building(p)
  PROVE  AloneInv'
<1>1. Active(p) /\ job[p].op = "build"
  BY DEF Building, CheckReadiness, Scan, Rescan, At, Active, Ends, IInv, JobInv, ControlInv
<1>2. CASE Refuse(p)
  BY <1>1, <1>2, LoneRefuse
<1>3. CASE CheckReadiness(p) /\ ~Refuse(p)
  <2>1. Goto(p, "scan") /\ job[p].at = "check" /\ UNCHANGED <<state, receipts, alone>>
    BY <1>3 DEF CheckReadiness, Require, At, workspace
  <2>. QED
    BY <1>1, <2>1, LoneGoto DEF Steps
<1>4. CASE Scan(p)
  <2> DEFINE new == [job[p] EXCEPT !.snapshot = [packs |-> packs, dest |-> dest], !.at = "rescan"]
  <2>1. job' = [job EXCEPT ![p] = new] /\ job[p].at = "scan" /\ UNCHANGED <<state, receipts, alone>>
    BY <1>4 DEF Scan, At, workspace, IInv, TypeOK
  <2>2. new.at = "rescan" /\ new.record = job[p].record /\ new.read = job[p].read /\ new.op = job[p].op
    BY JobFields DEF Jobs
  <2> HIDE DEF new
  <2>3. job'[p] = new /\ \A q \in Processes \ {p} : job'[q] = job[q]
    BY <2>1 DEF IInv, TypeOK
  <2>4. alone => LoneInv(p)'
    BY <1>1, <2>1, <2>2, <2>3 DEF AloneInv, LoneInv
  <2>. QED
    BY <1>1, <2>1, <2>3, <2>4, LoneMove
<1>5. CASE Rescan(p) /\ ~Refuse(p)
  BY <1>1, <1>5, LoneEnd DEF Rescan, Ends, workspace
<1>. QED
  BY <1>2, <1>3, <1>4, <1>5 DEF Building

\* Every step keeps what the processes know while they take turns.
LEMMA LoneNext == IInv /\ AloneInv /\ [Next]_vars => AloneInv'
<1> SUFFICES ASSUME IInv, AloneInv, [Next]_vars PROVE AloneInv'
  OBVIOUS
<1>1. ASSUME UNCHANGED <<state, receipts, job, alone>> PROVE AloneInv'
  <2>1. RecordCoheres'
    BY <1>1 DEF AloneInv, RecordCoheres
  <2>2. ASSUME NEW p \in Processes PROVE (Active(p)' <=> Active(p)) /\ (LoneInv(p)' <=> LoneInv(p))
    BY <1>1 DEF Active, LoneInv, ReceiptExists
  <2>. QED
    BY <1>1, <2>1, <2>2 DEF AloneInv
<1>2. ASSUME NEW p \in Processes, NEW op \in May[p], Begin(p, op) PROVE AloneInv'
  BY <1>2, LoneBegin
<1>3. ASSUME NEW p \in Processes, Drafting(p) PROVE AloneInv'
  BY <1>3, LoneLoad, LoneFetch, LoneCompile, LoneConnect, LoneCapture DEF Drafting
<1>4. ASSUME NEW p \in Processes, Committing(p) PROVE AloneInv'
  BY <1>4, LoneCheck, LoneInstall, LonePersist DEF Committing
<1>5. ASSUME NEW p \in Processes, Building(p) PROVE AloneInv'
  BY <1>5, LoneBuild
<1>6. ASSUME NEW p \in Processes, Fail(p) PROVE AloneInv'
  BY <1>6, LoneEnd DEF Fail, Active, Ends, workspace
<1>7. CASE EditPacks \/ EditDestination \/ TornJournal
  BY <1>1, <1>7 DEF EditPacks, EditDestination, TornJournal
<1>8. CASE UNCHANGED vars
  BY <1>1, <1>8 DEF vars, workspace
<1>. QED
  BY <1>2, <1>3, <1>4, <1>5, <1>6, <1>7, <1>8 DEF Next

\* Nobody is active in the first state, and the record is empty.
LEMMA LoneInit == Init => AloneInv
BY DEF Init, AloneInv, RecordCoheres, Active, Idle, Ends, Nothing

\* While the processes take turns, they know the record of now.
THEOREM LoneInvariance == Spec => []AloneInv
<1>1. Init => AloneInv
  BY LoneInit
<1>2. IInv /\ AloneInv /\ [Next]_vars => AloneInv'
  BY LoneNext
<1>. QED
  BY <1>1, <1>2, Invariance, PTL DEF Spec

\* While the processes take turns, crashes included, what the state file holds
\* of a revision belongs together (withoutCompiledDerivatives,
\* withoutCommittedTransaction, persistCommitReceipt).
THEOREM RecordBelongsTogether == Spec => []RecordCoheres
<1>1. AloneInv => RecordCoheres
  BY DEF AloneInv
<1>. QED
  BY <1>1, LoneInvariance, PTL

-----------------------------------------------------------------------------
(* A retry of what is committed is confirmed.                               *)

\* What a process does is a turn of that process.
LEMMA ActorTurn ==
  ASSUME IInv, NEW p \in Processes,
         (\E op \in May[p] : Begin(p, op)) \/ Drafting(p) \/ Committing(p) \/ Building(p) \/ Fail(p)
  PROVE  Turn(p)
<1>1. CASE \E op \in May[p] : Begin(p, op)
  BY <1>1, BeginTurn
<1>2. CASE Drafting(p)
  BY <1>2, LoadTurn, FetchTurn, CompileTurn, ConnectTurn, CaptureTurn DEF Drafting
<1>3. CASE Committing(p)
  BY <1>3, CheckTurn, InstallTurn, PersistTurn DEF Committing
<1>4. CASE Building(p)
  BY <1>4, BuildTurn
<1>5. CASE Fail(p)
  BY <1>5, FinishTurn DEF Fail, Ends, workspace
<1>. QED
  BY <1>1, <1>2, <1>3, <1>4, <1>5

\* p commits again what the workspace holds: the receipt of the current proposal
\* and capture is there, its outputs are in place, the packs are those captured
\* and no journal is retained.
Retries(p) ==
  /\ job[p].op = "commit" /\ alone
  /\ Receipt(job[p].proposal, job[p].capture) \in receipts
  /\ state.proposal = job[p].proposal /\ state.capture = job[p].capture
  /\ dest = job[p].proposal.art /\ packs = job[p].capture.packs /\ journals = {}

\* What a retry reads reconciles, and is accepted.
LEMMA RetryReconciles ==
  ASSUME IInv, AloneInv, NEW p \in Processes, Retries(p)
  PROVE  Reconciles(state) /\ OverlayReadable /\ Verifies(job[p].proposal, job[p].capture)
<1>1. job[p].proposal \in Proposals
  BY DEF Retries, IInv, JobInv, ControlInv
<1>2. Verifies(job[p].proposal, job[p].capture)
  BY DEF Retries, Verifies, JournalBlocks
<1>3. state.proposal # None /\ state.proposal.art = state.compiled
  BY <1>1, Types DEF Retries, AloneInv, RecordCoheres
<1>4. state.receipt \in {None, Receipt(state.proposal, state.capture)}
  BY DEF Retries, AloneInv, RecordCoheres
<1>5. Reconciles(state)
  BY <1>2, <1>3, <1>4 DEF Reconciles, Retries
<1>. QED
  BY <1>2, <1>3, <1>5 DEF OverlayReadable, Retries

\* No step of a retry refuses it.
LEMMA RetryGoesOn ==
  ASSUME IInv, AloneInv, NEW p \in Processes, Retries(p),
         (\E op \in May[p] : Begin(p, op)) \/ Drafting(p) \/ Committing(p) \/ Building(p) \/ Fail(p)
  PROVE  job'[p].at # "refused"
<1>1. /\ job[p].op = "commit" /\ Active(p) /\ LoneInv(p) /\ RecordCoheres
      /\ job[p].proposal \in Proposals /\ job[p].capture \in Captures
  <2>1. job[p].op = "commit" /\ alone
    BY DEF Retries
  <2>2. Active(p) /\ job[p].proposal \in Proposals /\ job[p].capture \in Captures
    BY <2>1, Types DEF Active, IInv, JobInv, ControlInv, Operations
  <2>. QED
    BY <2>1, <2>2 DEF AloneInv
<1>2. ReceiptExists(job[p].proposal)
  BY DEF Retries, ReceiptExists, Receipt
<1>3. /\ job[p].at \notin {"overlay", "shoot", "captured", "evidence", "hash", "connected", "rendered",
                           "check", "scan", "rescan"}
      /\ job[p].at \notin {"prepare", "compiled", "recheck", "reread", "install"}
  BY <1>1, <1>2 DEF IInv, JobInv, ControlInv, LoneInv
<1>4. /\ Reconciles(state) /\ OverlayReadable /\ Verifies(job[p].proposal, job[p].capture)
  BY RetryReconciles
<1>5. CASE \E op \in May[p] : Begin(p, op)
  BY <1>1, <1>5 DEF Begin, Active
<1>6. CASE Load(p) \/ Fetch(p)
  BY <1>6, <1>1 DEF Load, Fetch, Active, Ends, IInv, TypeOK, Jobs
<1>7. CASE Reconcile(p)
  <2>1. job[p].at = "reconcile" /\ job[p].record = state
    BY <1>1, <1>7 DEF Reconcile, At, LoneInv
  <2>2. PICK receipt : job' = [job EXCEPT ![p].at = "accept", ![p].record.receipt = receipt]
    BY <1>1, <1>4, <1>7, <2>1 DEF Reconcile, AfterLoad
  <2>3. job'[p].at = "accept"
    BY <2>2 DEF IInv, TypeOK, Jobs
  <2>. QED
    BY <2>3
<1>8. CASE Accept(p)
  <2>1. /\ job[p].at = "accept" /\ job[p].record.proposal = job[p].proposal
        /\ job[p].record.capture = job[p].capture /\ job[p].record.compiled = state.compiled
    BY <1>1, <1>8 DEF Accept, At, LoneInv, Retries
  <2>2. job[p].record.capture.report \in Passing
    <3>1. Receipt(job[p].proposal, job[p].capture).capture = job[p].capture
      BY DEF Receipt
    <3>. QED
      BY <2>1, <3>1 DEF Retries, IInv, InstalledIsReviewed
  <2>3. job[p].capture.proposal = job[p].proposal /\ job[p].proposal.art = state.compiled
    BY <1>1, Types DEF Retries, RecordCoheres
  <2>4. Accepted(job[p].record)
    BY <1>1, <1>4, <2>1, <2>2, <2>3, Types DEF Accepted, EvidenceVerifies, Retries
  <2>5. Goto(p, "committed") \/ Goto(p, "prepare")
    BY <1>8, <2>1, <2>4 DEF Accept, Require
  <2>. QED
    BY <2>5 DEF Goto, IInv, TypeOK, Jobs
<1>9. CASE Confirm(p)
  <2>1. Goto(p, "committed")
    BY <1>4, <1>9 DEF Confirm, Require
  <2>. QED
    BY <2>1 DEF Goto, IInv, TypeOK, Jobs
<1>10. CASE Committed(p) \/ CommittedUnpersisted(p) \/ Fail(p)
  <2>1. Finish(p, "success") \/ Finish(p, "idle")
    BY <1>10 DEF Committed, CommittedUnpersisted, Fail, Save, Ends
  <2>. QED
    BY <2>1 DEF Finish, Idle, IInv, TypeOK
<1>11. ~Prepare(p) /\ ~Compiled(p) /\ ~Recheck(p) /\ ~Reread(p) /\ ~Install(p) /\ ~InstallBreaks(p)
  BY <1>3 DEF Prepare, Compiled, Fetched, Recheck, Reread, Install, InstallBreaks, At
<1>12. /\ ~HashDestination(p) /\ ~Connected(p) /\ ~Rendered(p)
       /\ ~Overlay(p) /\ ~Shoot(p) /\ ~Captured(p) /\ ~Evidence(p) /\ ~Building(p)
  BY <1>3 DEF HashDestination, Connected, Rendered, Fetched, Overlay, Shoot, Captured, Evidence,
              Building, CheckReadiness, Scan, Rescan, At
<1>. QED
  BY <1>5, <1>6, <1>7, <1>8, <1>9, <1>10, <1>11, <1>12 DEF Drafting, Committing

\* A retry confirms a commit whose state update was lost, as the comment of
\* persistCommitReceipt promises, while what the receipt attests is unchanged
\* and the processes take turns.
THEOREM RetryIsConfirmed == Spec => RetryConfirms
<1> DEFINE Confirmed(p) ==
      /\ job[p].op = "commit" /\ job'[p].at = "refused" /\ alone
      /\ Receipt(job[p].proposal, job[p].capture) \in receipts
      /\ state.proposal = job[p].proposal /\ state.capture = job[p].capture
      => \/ dest # job[p].proposal.art \/ packs # job[p].capture.packs
         \/ journals # {}
<1>1. ASSUME IInv, AloneInv, [Next]_vars, NEW p \in Processes
      PROVE  Confirmed(p)
  <2> SUFFICES ASSUME Retries(p), job'[p].at = "refused" PROVE FALSE
    BY DEF Retries
  <2>1. job[p].at \notin Ends
    BY <1>1, Types DEF Retries, IInv, JobInv, ControlInv, Operations
  <2>2. job' # job
    BY <2>1 DEF Ends
  <2>3. PICK q \in Processes : \/ \E op \in May[q] : Begin(q, op)
                               \/ Drafting(q) \/ Committing(q) \/ Building(q) \/ Fail(q)
    BY <1>1, <2>2 DEF Next, vars, EditPacks, EditDestination, TornJournal
  <2>4. q = p
    BY <1>1, <2>1, <2>3, ActorTurn DEF Turn, Ends
  <2>. QED
    BY <1>1, <2>3, <2>4, RetryGoesOn
<1>2. IInv /\ AloneInv /\ [Next]_vars => [\A p \in Processes : Confirmed(p)]_vars
  BY <1>1
<1>. QED
  BY Invariance, LoneInvariance, <1>2, PTL DEF Spec, RetryConfirms
=============================================================================
