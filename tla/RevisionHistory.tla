--------------------------- MODULE RevisionHistory ---------------------------
(***************************************************************************)
(* How the revisions of one visual project come to be, in                  *)
(* src/visual/workflow.ts: a specification is upserted, textures are       *)
(* imported, repairs make child revisions, and a revision is compiled,     *)
(* over the run store (RunStore) and the workflow state file               *)
(* (workflow-state.ts) that says which revisions exist and which is the    *)
(* head.                                                                   *)
(*                                                                         *)
(* Everything in the store is named by its content, so a revision is the   *)
(* sequence of what led to it: the specification, then one import or       *)
(* repair after the other.  Upserting or repairing the same again names    *)
(* the same revision, which is merged with the record of its earlier life. *)
(*                                                                         *)
(* There is one material.  Renders, proposals, captures and receipts of a  *)
(* revision are in VisualCommit.                                           *)
(***************************************************************************)
EXTENDS RunStore, Sequences

CONSTANTS
  May,            \* May[p]: the operations process p runs
  Specs,          \* specifications, each upserted with one request
  Imports,        \* textures that callers import
  MaxLength,      \* bound: the changes on top of a specification, plus one
  MaxCalls,       \* bound: MaxCalls[p], the operations process p runs
  MaxAlterations, \* bound: the alterations of someone else
  Alterable,      \* the entries that someone may alter
  None

Operations == {"upsert", "import", "revise", "compile", "inspect", "review"}

\* A repair of a part keeps the material, a repair of the material changes its
\* colour.
Repairs == {"part", "colour"}
Textures == Imports \cup {"plain", "painted"}

Chains(n) == {r \in [1 .. n -> Specs \cup Imports \cup Repairs] :
               \A i \in 1 .. n : i = 1 <=> r[i] \in Specs}
Revisions == UNION {Chains(n) : n \in 1 .. MaxLength}

\* The specification of a revision: the upserted one with its repairs.
SpecOf(r) == <<r[1], {r[i] : i \in 2 .. Len(r)} \cap Repairs>>

\* solidTexture of the material's colour.
Generated(r) == IF "colour" \in SpecOf(r)[2] THEN "painted" ELSE "plain"

UsableBy(r) == Imports \cup {Generated(r)}

Run(r) == <<"run", r[1]>>
Revision(r) == <<"revision", r>>
Review(r) == <<"review", r>>
Png(t) == <<"png", t>>
Compiled(r, t) == <<"compiled", SpecOf(r), t>>

AllEntries ==
  UNION {{Run(r), Revision(r), Review(r)} \cup {Png(t) : t \in UsableBy(r)}
           \cup {Compiled(r, t) : t \in UsableBy(r)} : r \in Revisions}

ASSUME AllEntriesAssumption == Entries = AllEntries
ASSUME BoundsAssumption ==
  MaxLength \in Nat \ {0} /\ MaxCalls \in [Processes -> Nat] /\ MaxAlterations \in Nat
ASSUME AlterableAssumption == Alterable \subseteq Entries
ASSUME MayAssumption == May \in [Processes -> SUBSET Operations]

\* Specifications, imported textures, repairs and generated textures are not
\* each other.
ASSUME NamesAssumption ==
  /\ Specs \cap (Imports \cup Repairs) = {}
  /\ Imports \cap (Repairs \cup {"plain", "painted"}) = {}

\* A record of the state file; compiled is the texture the artifact was made with.
Records == [texture : Textures \cup {None}, compiled : Textures \cup {None}, review : BOOLEAN]
Indexes == [latest : Revisions \cup {None}, record : [Revisions -> Records \cup {None}]]

ASSUME NoneAssumption ==
  /\ None \notin Operations /\ None \notin Textures /\ None \notin Revisions
  /\ None \notin Records /\ None \notin Indexes

VARIABLES
  index, \* the workflow state file
  job,   \* job[p]: the operation process p is in
  calls  \* calls[p]: the operations process p has begun

vars == <<storeVars, index, job, calls>>

Ends == {"idle", "success"}
Points == Ends \cup {"load", "store", "fetch", "save"}

\* revision: the one the caller names or upserts; new: the one that is recorded;
\* texture: the imported one, or the one to compile with; todo: the entries still
\* to put and to read; then: what follows; record: of the revision, as loaded;
\* read: what an update has read.
\* History: used, the parts of entries that were looked at so far; base, those that
\* were altered at the start.
Idle == [op |-> None, at |-> "idle", revision |-> None, new |-> None, expect |-> None,
         texture |-> None, todo |-> <<>>, then |-> "idle",
         record |-> None, read |-> None, used |-> {}, base |-> {}]

Init ==
  /\ StoreInit
  /\ index = [latest |-> None, record |-> [r \in Revisions |-> None]]
  /\ job = [p \in Processes |-> Idle]
  /\ calls = [p \in Processes |-> 0]

Indexed == {r \in DOMAIN index.record : index.record[r] # None}

PutOf(e) == [do |-> "put", entry |-> e]
ReadOf(e) == [do |-> "read", entry |-> e]

\* What the operation relies on then: who reads, on all of the entry; who puts what
\* may be there already, on its content.
Relying(task) ==
  {task.entry} \X (IF task.do = "put" THEN {"content"} ELSE PartsOf(task.entry))

-----------------------------------------------------------------------------
(* An operation starts, goes through the store, and ends.                   *)

Start(p, changes) ==
  /\ job[p].at \in Ends /\ calls[p] < MaxCalls[p]
  /\ job' = [job EXCEPT ![p] = changes]
  /\ calls' = [calls EXCEPT ![p] = @ + 1]
  /\ UNCHANGED <<storeVars, index>>

\* upsertSpec: the run and its first revision are put before the state is read.
\* The caller may name the run and the specification it has seen at the head.
Upsert(p) ==
  \E s \in Specs, expect \in {None, index.latest} :
    Start(p, [Idle EXCEPT !.op = "upsert", !.at = "store", !.then = "fetch",
                          !.revision = <<s>>, !.new = <<s>>, !.expect = expect,
                          !.todo = <<PutOf(Run(<<s>>)), PutOf(Revision(<<s>>))>>,
                          !.base = altered])

\* The caller names a recorded revision, and the change that leads to a new one.
Import(p) ==
  \E r \in Indexed, t \in Imports :
    /\ Len(r) < MaxLength
    /\ Start(p, [Idle EXCEPT !.op = "import", !.at = "load", !.revision = r,
                             !.new = Append(r, t), !.texture = t, !.base = altered])

Revise(p) ==
  \E r \in Indexed, fix \in Repairs :
    /\ Len(r) < MaxLength
    /\ Start(p, [Idle EXCEPT !.op = "revise", !.at = "load", !.revision = r,
                             !.new = Append(r, fix), !.base = altered])

OnRevision(p, op) ==
  \E r \in Indexed :
    Start(p, [Idle EXCEPT !.op = op, !.at = "load", !.revision = r, !.new = r,
                          !.base = altered])

Begin(p, op) ==
  CASE op = "upsert" -> Upsert(p)
    [] op = "import" -> Import(p)
    [] op = "revise" -> Revise(p)
    [] OTHER -> OnRevision(p, op)

At(p, point) == job[p].at = point
Refuse(p) == job' = [job EXCEPT ![p] = Idle]
Succeed(p) == job' = [job EXCEPT ![p] = [Idle EXCEPT !.at = "success"]]

\* The texture the compiler uses: the recorded one, or a generated one.
TextureFor(r, record) == IF record.texture = None THEN Generated(r) ELSE record.texture

\* What each operation puts and reads once it has the record of its revision.
ImportPlan(j) ==
  <<PutOf(Png(j.texture)), ReadOf(Revision(j.revision)), PutOf(Revision(j.new))>>

RevisePlan(j) == <<ReadOf(Revision(j.revision)), PutOf(Revision(j.new)), PutOf(Review(j.new))>>

\* A texture that is not recorded is generated and put.
CompilePlan(j, record) ==
  LET t == TextureFor(j.revision, record)
  IN  (IF record.texture = None THEN <<PutOf(Png(t))>> ELSE <<>>)
      \o <<ReadOf(Png(t)), PutOf(Compiled(j.revision, t))>>

\* verifyRevisionArtifacts: an inspection that reports all ready.
InspectPlan(j, record) ==
  (IF record.texture = None THEN <<>> ELSE <<ReadOf(Png(record.texture))>>)
  \o (IF record.compiled = None THEN <<>> ELSE <<ReadOf(Compiled(j.revision, record.compiled))>>)

\* readResource of what the record names; a review stands for all that is read so.
ResourcePlan(j) == <<ReadOf(Review(j.revision))>>

Plan(j, record) ==
  CASE j.op = "import" -> ImportPlan(j)
    [] j.op = "revise" -> RevisePlan(j)
    [] j.op = "compile" -> CompilePlan(j, record)
    [] j.op = "inspect" -> InspectPlan(j, record)
    [] OTHER -> ResourcePlan(j)

\* loadRevision: the state names the revision; the run and the revision verify.
\* currentRevision, or findStateForRevision, refuses one that is not recorded.
Load(p) ==
  LET j == job[p]
      record == index.record[j.revision]
      verified == <<ReadOf(Run(j.revision)), ReadOf(Revision(j.revision))>>
  IN  /\ At(p, "load")
      /\ IF record = None \/ (j.op = "review" /\ ~record.review)
         THEN Refuse(p)
         ELSE job' = [job EXCEPT ![p] =
                [j EXCEPT !.at = "store",
                          !.then = IF j.op \in {"inspect", "review"} THEN "success" ELSE "fetch",
                          !.record = record,
                          !.texture = IF j.op = "compile" THEN TextureFor(j.revision, record)
                                                          ELSE @,
                          !.todo = verified \o Plan(j, record)]]
      /\ UNCHANGED <<storeVars, index, calls>>

\* The next entry, once the store is done with the one before.
Enter(p) ==
  LET j == job[p]
      next == Head(j.todo)
  IN  /\ At(p, "store") /\ work[p].at \in {"free", "done"} /\ j.todo # <<>>
      /\ IF next.do = "put" THEN Put(p, next.entry) ELSE Read(p, next.entry)
      /\ job' = [job EXCEPT ![p].todo = Tail(@), ![p].used = @ \cup Relying(next)]
      /\ UNCHANGED <<visible, stamp, altered, index, calls>>

\* Defect: the last call of the store is not awaited.
LeaveUnawaited(p) ==
  /\ At(p, "store") /\ job[p].todo = <<>>
  /\ IF job[p].then = "success" THEN Succeed(p)
     ELSE job' = [job EXCEPT ![p].at = job[p].then]
  /\ UNCHANGED <<storeVars, index, calls>>

\* The store has failed, or is through with all of them.
Leave(p) ==
  /\ At(p, "store")
  /\ \/ work[p].at = "failed" /\ Refuse(p)
     \/ /\ work[p].at \in {"free", "done"} /\ job[p].todo = <<>>
        /\ IF job[p].then = "success" THEN Succeed(p)
           ELSE job' = [job EXCEPT ![p].at = job[p].then]
  /\ Release(p) /\ UNCHANGED <<index, calls>>

-----------------------------------------------------------------------------
(* VisualWorkflowStateStore.update: a read, and a later rename.             *)

Fetch(p) ==
  /\ At(p, "fetch")
  /\ job' = [job EXCEPT ![p].read = index, ![p].at = "save"]
  /\ UNCHANGED <<storeVars, index, calls>>

\* Defect: the child inherits whatever texture the parent has.
InheritedAll(j) == j.record.texture

\* A repair of the material drops the texture generated from its old colour.
Inherited(j) ==
  IF j.new = Append(j.revision, "colour") /\ j.record.texture \notin Imports
  THEN None ELSE j.record.texture

\* recordWithRevision: merged with the earlier life of the same revision.
Merged(previous, texture, review) ==
  [texture |-> texture,
   compiled |-> IF previous = None THEN None ELSE previous.compiled,
   review |-> review \/ (previous # None /\ previous.review)]

WithHead(j, texture, review) ==
  [latest |-> j.new,
   record |-> [j.read.record EXCEPT ![j.new] = Merged(@, texture, review)]]

\* The guards of the updates: what the caller of an upsert saw at the head is there
\* still, what was compiled is recorded still, a parent is still the head.
SpecIsExpected(j) ==
  \/ j.expect = None
  \/ j.read.latest # None /\ SpecOf(j.read.latest) = SpecOf(j.expect)
StillRecorded(j) == j.read.record[j.revision] # None
ParentIsLatest(j) == j.read.latest = j.revision

Admits(j) ==
  CASE j.op = "upsert" -> SpecIsExpected(j)
    [] j.op = "compile" -> StillRecorded(j)
    [] OTHER -> ParentIsLatest(j)

Update(j) ==
  CASE j.op = "upsert" -> WithHead(j, None, FALSE)
    [] j.op = "import" -> WithHead(j, j.texture, FALSE)
    [] j.op = "revise" -> WithHead(j, Inherited(j), TRUE)
    [] OTHER -> [j.read EXCEPT !.record[j.revision] =
                   [@ EXCEPT !.texture = j.texture, !.compiled = j.texture]]

\* An import reads its texture back once the state names it.
Save(p) ==
  LET j == job[p]
  IN  /\ At(p, "save")
      /\ IF ~Admits(j) THEN Refuse(p) /\ UNCHANGED index
         ELSE /\ index' = Update(j)
              /\ IF j.op = "import"
                 THEN job' = [job EXCEPT ![p] =
                        [j EXCEPT !.at = "store", !.then = "success", !.read = None,
                                  !.todo = <<ReadOf(Png(j.texture))>>]]
                 ELSE Succeed(p)
      /\ UNCHANGED <<storeVars, calls>>

-----------------------------------------------------------------------------
\* An I/O error or an abort ends the operation, and the store call it is in.
Fail(p) ==
  /\ job[p].at \notin Ends /\ Refuse(p)
  /\ GiveUp(p)
  /\ UNCHANGED <<index, calls>>

\* The process dies: nothing is cleaned up.
Die(p) ==
  /\ job[p].at \notin Ends /\ Refuse(p)
  /\ Release(p) /\ UNCHANGED <<index, calls>>

InStore(p) == StoreStep(p) /\ UNCHANGED <<index, job, calls>>
Alteration ==
  /\ Cardinality(altered) < MaxAlterations /\ \E e \in Alterable : Tamper(e)
  /\ UNCHANGED <<index, job, calls>>

Next ==
  \/ \E p \in Processes :
       \/ \E op \in May[p] : Begin(p, op)
       \/ Load(p) \/ Enter(p) \/ InStore(p) \/ Leave(p) \/ Fetch(p) \/ Save(p)
       \/ Fail(p) \/ Die(p)
  \/ Alteration

Spec == Init /\ [][Next]_vars

-----------------------------------------------------------------------------
Awaited(p) == job[p].at # "store" => work[p] = Free

\* Every variable has its type, and no call of the store outlives its operation.
TypeOK ==
  /\ StoreTypeOK
  /\ index \in Indexes /\ calls \in [Processes -> Nat]
  /\ \A p \in Processes :
       /\ job[p].op \in Operations \cup {None} /\ job[p].at \in Points
       /\ {job[p].revision, job[p].new} \subseteq Revisions \cup {None}
       /\ job[p].record \in Records \cup {None} /\ job[p].read \in Indexes \cup {None}
       /\ Awaited(p)

Ancestors(r) == {SubSeq(r, 1, n) : n \in 1 .. Len(r)}

Relied(r) ==
  {Run(r)} \cup {Revision(a) : a \in Ancestors(r)}
  \cup (IF index.record[r].review THEN {Review(r)} ELSE {})
  \cup {Png(t) : t \in {index.record[r].texture} \ {None}}
  \cup {Compiled(r, t) : t \in {index.record[r].compiled} \ {None}}

\* Whatever fails, dies or overwrites the state file, the state names only
\* revisions that are whole in the store, with all their ancestors and artifacts.
IndexedIsPublished ==
  \A r \in Indexed : \A e \in Relied(r) : visible[e] = PartsOf(e)

ImportedAt(r) == {i \in 2 .. Len(r) : r[i] \in Imports}

\* t is the texture last imported into r or its ancestors, or one generated from
\* its own colour.
Due(r, t) ==
  \/ \E i \in ImportedAt(r) : r[i] = t /\ \A k \in ImportedAt(r) : k <= i
  \/ ImportedAt(r) = {} /\ t = Generated(r)

\* A revision has the texture last imported into it or its ancestors, or else
\* one generated from its own colour, and so does its compiled artifact: through
\* inheritance, repairs, rebuilt revisions and lost updates of the state file.
TexturesAreCurrent ==
  \A r \in Indexed :
    LET record == index.record[r]
    IN  /\ IF record.texture = None THEN ImportedAt(r) = {} ELSE Due(r, record.texture)
        /\ record.compiled # None => Due(r, record.compiled)

\* An operation that reports success has read no entry of which someone had altered
\* a part before it began, and has put none whose content had been.  (It may have put
\* one whose manifest had been, which nobody can read: then no operation that reads it
\* succeeds.)
NothingFromAltered ==
  [][\A p \in Processes :
       job[p].at \notin Ends /\ job'[p].at = "success" => job[p].used \cap job[p].base = {}]_vars
=============================================================================
