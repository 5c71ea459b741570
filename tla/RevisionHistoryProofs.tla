----------------------- MODULE RevisionHistoryProofs -----------------------
(* What RunStore and RevisionHistory guarantee for any processes, any       *)
(* specifications and textures, and any interleaving, failure or death:     *)
(* the store implements ImmutableStore, and the state file names only what  *)
(* is whole in it.                                                          *)
EXTENDS RevisionHistory, SequenceTheorems, TLAPS

-----------------------------------------------------------------------------
(* The run store.                                                           *)

\* e is whole at its name.
Sound(e) == e \in Entries /\ visible[e] = PartsOf(e)
Linking == {"chmod", "unlink"}

\* What a call of the store has done when it gets to a step.
WorkInv(p) ==
  /\ work[p].at # "free" => work[p].entry \in Entries
  /\ work[p].at = "stage" =>
       work[p].staged \subseteq PartsOf(work[p].entry) /\ work[p].staged # PartsOf(work[p].entry)
  /\ work[p].at = "install" => work[p].staged = PartsOf(work[p].entry)
  /\ work[p].at \in Linking \cup {"done"} => Sound(work[p].entry)
  /\ work[p].at = "chmod" => stamp[work[p].entry] = 0
  /\ work[p].at = "unlink" => stamp[work[p].entry] = 1

\* An entry is absent or whole, and one call at most has linked it and is at work on it.
StoreInv ==
  /\ StoreTypeOK
  /\ \A e \in Entries : visible[e] \in {{}, PartsOf(e)} /\ (visible[e] = {} => stamp[e] = 0)
  /\ \A change \in altered : change[2] \in visible[change[1]]
  /\ \A p \in Processes : WorkInv(p)
  /\ \A p, q \in Processes :
       work[p].at \in Linking /\ work[q].at \in Linking /\ work[p].entry = work[q].entry => p = q

\* A call of the store is a record like this, NoEntry is none of the entries.
Works == [entry : Entries \cup {NoEntry}, at : Steps, staged : SUBSET Parts, stamp : 0 .. 2]

\* Every entry has a part.
LEMMA PartsOfEntries == \A e : PartsOf(e) \in SUBSET Parts /\ PartsOf(e) # {}
BY DEF PartsOf, Parts

\* A process without a call is at rest.
LEMMA FreeWork == Free \in Works /\ Free.at = "free" /\ Free.staged = {}
BY DEF Free, Works, Steps, AtRest

\* The first state satisfies the invariant of the store.
LEMMA StoreInitInv == StoreInit => StoreInv
BY FreeWork DEF StoreInit, StoreInv, StoreTypeOK, Works, Free, WorkInv, Linking

\* Nothing that is whole is ever lost.
Keeps == \A e \in Entries : visible'[e] = visible[e] \/ (visible[e] = {} /\ Sound(e)')

\* Every step of a call of the store keeps its invariant.
LEMMA StoreStepInv ==
  ASSUME StoreInv, NEW p \in Processes, StoreStep(p)
  PROVE  StoreInv' /\ Keeps /\ altered' = altered
<1> DEFINE e == work[p].entry
<1>0. /\ work \in [Processes -> Works] /\ visible \in [Entries -> SUBSET Parts]
      /\ stamp \in [Entries -> 0 .. 2] /\ altered \subseteq Entries \X Parts
  BY DEF StoreInv, StoreTypeOK, Works
<1>00. /\ p \in Processes /\ WorkInv(p) /\ work[p] \in Works
       /\ work[p].at # "free" => e \in Entries
  BY <1>0 DEF StoreInv, WorkInv
<1> USE PartsOfEntries
<1>1. CASE WritePart(p)
  <2> DEFINE missing == PartsOf(e) \ work[p].staged
             next == IF "content" \in missing THEN "content" ELSE "manifest"
  <2>1. /\ work[p].at = "stage" /\ e \in Entries
        /\ work' = [work EXCEPT ![p].staged = @ \cup {next},
                                ![p].at = IF missing = {next} THEN "install" ELSE "stage"]
        /\ UNCHANGED <<visible, stamp, altered>>
    BY <1>00, <1>1 DEF WritePart, Working
  <2>2. work[p].staged \subseteq PartsOf(e) /\ missing \in SUBSET Parts
    BY <2>1, <1>00 DEF WorkInv
  <2>3. missing # {} /\ next \in missing
    BY <2>1, <2>2, <1>00 DEF Parts, WorkInv
  <2>. QED
    <3>1. /\ work'[p] \in Works /\ work'[p].entry = e /\ work'[p].staged = work[p].staged \cup {next}
          /\ work'[p].at = IF missing = {next} THEN "install" ELSE "stage"
          /\ \A q \in Processes \ {p} : work'[q] = work[q]
      BY <1>0, <1>00, <2>1, <2>2, <2>3 DEF Works, Steps, AtRest
    <3>2. work'[p].staged \subseteq PartsOf(e) /\ (work'[p].at = "install" <=> work'[p].staged = PartsOf(e))
      BY <3>1, <2>2, <2>3
    <3>. QED
      BY <1>0, <2>1, <3>1, <3>2
         DEF StoreInv, StoreTypeOK, WorkInv, Works, Linking, Sound, Published, Keeps
<1>2. CASE RenameDirectory(p)
  <2>1. /\ work[p].at = "install" /\ e \in Entries /\ work[p].staged = PartsOf(e)
        /\ UNCHANGED <<stamp, altered>>
    BY <1>00, <1>2 DEF RenameDirectory, Working, WorkInv
  <2>2. CASE Published(e)
    BY <1>0, <1>00, <1>2, <2>1, <2>2
       DEF RenameDirectory, StoreInv, StoreTypeOK, Move, WorkInv, Works, Steps, AtRest, Linking, Sound, Published, Keeps
  <2>3. CASE ~Published(e)
    <3>1. /\ visible' = [visible EXCEPT ![e] = PartsOf(e)]
          /\ work' = [work EXCEPT ![p].at = "done"]
      BY <1>2, <2>1, <2>3 DEF RenameDirectory, Move
    <3>. QED
      BY <1>0, <1>00, <2>1, <2>3, <3>1
         DEF StoreInv, StoreTypeOK, WorkInv, Works, Steps, AtRest, Linking, Sound, Published, Keeps
  <2>. QED
    BY <2>2, <2>3
<1>3. CASE LinkFile(p)
  BY <1>0, <1>00, <1>3
     DEF LinkFile, StoreInv, StoreTypeOK, Working, Move, WorkInv, Works, Steps, AtRest, Linking, Sound, Published, Keeps
<1>4. CASE Chmod(p)
  BY <1>0, <1>00, <1>4
     DEF Chmod, StoreInv, StoreTypeOK, Working, Move, WorkInv, Works, Steps, AtRest, Linking, Sound, Published, Keeps
<1>5. CASE Unlink(p)
  BY <1>0, <1>00, <1>5
     DEF Unlink, StoreInv, StoreTypeOK, Working, Move, WorkInv, Works, Steps, AtRest, Linking, Sound, Published, Keeps
<1>6. CASE OpenFile(p)
  BY <1>0, <1>00, <1>6
     DEF OpenFile, StoreInv, StoreTypeOK, Working, Move, WorkInv, Works, Steps, AtRest, Linking, Sound, Published, Keeps
<1>7. CASE CloseFile(p)
  BY <1>0, <1>00, <1>7
     DEF CloseFile, StoreInv, StoreTypeOK, Working, Move, WorkInv, Works, Steps, AtRest, Linking, Sound, Published, Keeps, Genuine
<1>9. CASE CompareDirectory(p)
  BY <1>0, <1>00, <1>9
     DEF CompareDirectory, StoreInv, StoreTypeOK, Working, Move, WorkInv, Works, Steps, AtRest, Linking, Sound, Published, Keeps, Genuine
<1>8. CASE VerifyDirectory(p)
  BY <1>0, <1>00, <1>8
     DEF VerifyDirectory, StoreInv, StoreTypeOK, Working, Move, WorkInv, Works, Steps, AtRest, Linking, Sound, Published, Keeps, Genuine
<1>. QED
  BY <1>1, <1>2, <1>3, <1>4, <1>5, <1>6, <1>7, <1>8, <1>9 DEF StoreStep

\* A call begins only where there is none, or an earlier one is done.
LEMMA CallInv ==
  ASSUME StoreInv, NEW p \in Processes, NEW e \in Entries, Put(p, e) \/ Read(p, e),
         UNCHANGED <<visible, stamp, altered>>
  PROVE  /\ StoreInv' /\ \A q \in Processes \ {p} : work'[q] = work[q]
         /\ work'[p].entry = e /\ work'[p].at \in {"stage", "before", "verify"}
         /\ ~Put(p, e) /\ IsDirectory(e) => work'[p].at = "verify"
<1>1. PICK step \in {"stage", "before", "verify"} :
        /\ work' = [work EXCEPT ![p] = [Free EXCEPT !.entry = e, !.at = step]]
        /\ ~Put(p, e) /\ IsDirectory(e) => step = "verify"
  <2>1. CASE Put(p, e)
    BY <2>1 DEF Put
  <2>2. CASE Read(p, e) /\ IsDirectory(e)
    BY <2>2 DEF Read
  <2>3. CASE Read(p, e) /\ ~IsDirectory(e)
    BY <2>3 DEF Read
  <2>. QED
    BY <2>1, <2>2, <2>3
<1>2. work \in [Processes -> Works] /\ step \in Steps
  BY <1>1 DEF StoreInv, StoreTypeOK, Works, Steps
<1>3. /\ [Free EXCEPT !.entry = e, !.at = step] \in Works
      /\ [Free EXCEPT !.entry = e, !.at = step].entry = e
      /\ [Free EXCEPT !.entry = e, !.at = step].at = step
      /\ [Free EXCEPT !.entry = e, !.at = step].staged = {}
  BY <1>2, FreeWork DEF Works
<1>4. work' \in [Processes -> Works]
  BY <1>1, <1>2, <1>3
<1>5. /\ work'[p].entry = e /\ work'[p].at = step /\ work'[p].staged = {}
      /\ \A q \in Processes \ {p} : work'[q] = work[q]
  BY <1>1, <1>2, <1>3
<1>6. StoreTypeOK'
  BY <1>4 DEF StoreInv, StoreTypeOK, Works
<1>7. \A q \in Processes : WorkInv(q)'
  <2>1. WorkInv(p)'
    BY <1>1, <1>5, PartsOfEntries DEF WorkInv, Linking
  <2>2. ASSUME NEW q \in Processes \ {p} PROVE WorkInv(q)'
    BY <1>5, <2>2 DEF StoreInv, WorkInv, Linking, Sound
  <2>. QED
    BY <2>1, <2>2
<1>8. StoreInv'
  BY <1>1, <1>5, <1>6, <1>7 DEF StoreInv, Linking, Published
<1>. QED
  BY <1>1, <1>5, <1>8

\* A call ends, given up or left.
LEMMA EndOfCallInv ==
  ASSUME StoreInv, NEW p \in Processes, Release(p) \/ GiveUp(p)
  PROVE  /\ StoreInv' /\ UNCHANGED <<visible, altered>>
         /\ work'[p] = Free /\ \A q \in Processes \ {p} : work'[q] = work[q]
<1>1. /\ work' = [work EXCEPT ![p] = Free] /\ UNCHANGED <<visible, altered>>
      /\ \/ stamp' = stamp
         \/ work[p].at \in Linking /\ stamp' = [stamp EXCEPT ![work[p].entry] = @ + 1]
  BY DEF Release, GiveUp, Linking
<1>2. /\ work \in [Processes -> Works] /\ stamp \in [Entries -> 0 .. 2]
      /\ work'[p] = Free /\ \A q \in Processes \ {p} : work'[q] = work[q]
      /\ work' \in [Processes -> Works]
  BY <1>1, FreeWork DEF StoreInv, StoreTypeOK, Works
<1>3. WorkInv(p)
  BY DEF StoreInv
<1>4. stamp' \in [Entries -> 0 .. 2]
  BY <1>1, <1>2, <1>3 DEF WorkInv, Linking
<1>5. \A e \in Entries : stamp'[e] = stamp[e] \/ (work[p].at \in Linking /\ e = work[p].entry /\ Sound(e))
  BY <1>1, <1>2, <1>3 DEF WorkInv, Linking
<1>6. StoreTypeOK'
  BY <1>1, <1>2, <1>4 DEF StoreInv, StoreTypeOK, Works
<1>7. ASSUME NEW q \in Processes PROVE WorkInv(q)'
  <2>1. CASE q = p
    BY <1>2, <2>1 DEF WorkInv, Free, Linking
  <2>2. CASE q # p
    BY <1>1, <1>2, <1>5, <2>2 DEF StoreInv, WorkInv, Linking, Sound
  <2>. QED
    BY <2>1, <2>2
<1>8. \A e \in Entries : visible'[e] = {} => stamp'[e] = 0
  BY <1>1, <1>5, PartsOfEntries DEF StoreInv, Sound
<1>9. \A q \in Processes : work'[q].at \in Linking => q # p /\ work'[q] = work[q]
  BY <1>2 DEF Free, Linking
<1>10. /\ \A e \in Entries : visible'[e] \in {{}, PartsOf(e)}
       /\ \A change \in altered' : change[2] \in visible'[change[1]]
       /\ \A q, s \in Processes :
            work'[q].at \in Linking /\ work'[s].at \in Linking /\ work'[q].entry = work'[s].entry => q = s
  BY <1>1, <1>9 DEF StoreInv, Published
<1>11. StoreInv'
  BY <1>6, <1>7, <1>8, <1>10 DEF StoreInv
<1>. QED
  BY <1>1, <1>2, <1>11

\* Others can alter only what is there.
LEMMA TamperInv ==
  ASSUME StoreInv, NEW e \in Entries, Tamper(e)
  PROVE  StoreInv' /\ UNCHANGED <<visible, work>> /\ altered \subseteq altered'
BY DEF Tamper, StoreInv, StoreTypeOK, WorkInv, Sound, Published

-----------------------------------------------------------------------------
(* The operations.                                                          *)

Tasks == [do : {"put", "read"}, entry : Entries]
Jobs == [op : Operations \cup {None}, at : Points,
         revision : Revisions \cup {None}, new : Revisions \cup {None},
         expect : Revisions \cup {None}, texture : Textures \cup {None},
         todo : Seq(Tasks), then : {"idle", "fetch", "success"},
         record : Records \cup {None}, read : Indexes \cup {None},
         used : SUBSET (Entries \X Parts), base : SUBSET (Entries \X Parts)]

\* What makes it right that the state names r with this record.
RecordOK(r, record) ==
  /\ Sound(Run(r)) /\ \A a \in Ancestors(r) : Sound(Revision(a))
  /\ record.review => Sound(Review(r))
  /\ IF record.texture = None THEN ImportedAt(r) = {}
     ELSE Due(r, record.texture) /\ Sound(Png(record.texture))
  /\ record.compiled # None => Due(r, record.compiled) /\ Sound(Compiled(r, record.compiled))

IndexOK(x) == \A r \in Revisions : x.record[r] # None => RecordOK(r, x.record[r])

Updating == {"upsert", "import", "revise", "compile"}

\* What an operation is about.
OriginInv(j) ==
  /\ j.op \in Operations /\ j.revision \in Revisions /\ j.new \in Revisions
  /\ j.op = "upsert" => \E s \in Specs : j.revision = <<s>> /\ j.new = <<s>>
  /\ j.op = "import" => j.texture \in Imports /\ j.new = Append(j.revision, j.texture)
  /\ j.op = "revise" => \E fix \in Repairs : j.new = Append(j.revision, fix)
  /\ j.op \in {"import", "revise"} => Len(j.revision) < MaxLength
  /\ j.op \notin {"upsert", "import", "revise"} => j.new = j.revision

\* What the update of the state will name.
Needed(j) ==
  CASE j.op = "upsert" -> {Run(j.new), Revision(j.new)}
    [] j.op = "import" -> {Png(j.texture), Revision(j.new)}
    [] j.op = "revise" -> {Revision(j.new), Review(j.new)}
    [] OTHER -> {Png(j.texture), Compiled(j.revision, j.texture)}

\* e is still to be put or read, or p is about it.
Busy(p) == work[p].at \notin {"free", "done"}
Awaiting(p, e) ==
  \/ Busy(p) /\ work[p].entry = e
  \/ \E i \in 1 .. Len(job[p].todo) : job[p].todo[i].entry = e

\* What an operation carries in its memory between its steps.
LoadedInv(j) ==
  /\ j.record \in Records /\ RecordOK(j.revision, j.record)
  /\ j.op = "compile" => j.texture = TextureFor(j.revision, j.record)

MemoryInv(p) ==
  LET j == job[p]
  IN  /\ j.at \notin Ends => OriginInv(j)
      /\ j.at = "load" => j.op # "upsert"
      /\ j.at \in {"store", "fetch", "save"} /\ j.op # "upsert" => LoadedInv(j)
      /\ j.at = "store" => j.then \in {"fetch", "success"}
      /\ j.at \in {"fetch", "save"} \/ (j.at = "store" /\ j.then = "fetch") => j.op \in Updating
      /\ j.at = "store" /\ j.then = "fetch" => \A e \in Needed(j) : Sound(e) \/ Awaiting(p, e)
      /\ j.at \in {"fetch", "save"} => \A e \in Needed(j) : Sound(e)
      /\ j.at = "save" => j.read \in Indexes /\ IndexOK(j.read)

\* A call of the store that has to look at an altered part will fail.
Failing(p, change) ==
  /\ Busy(p) /\ work[p].at \notin Linking /\ work[p].entry = change[1]
  /\ change[2] = "manifest" => work[p].at \in {"verify", "failed"}

\* What was altered before an operation began is relied on by it only in a call of
\* the store that will fail.
CleanInv(p) ==
  /\ job[p].base \subseteq altered
  /\ \A change \in job[p].used \cap job[p].base : Failing(p, change)

JobInv(p) == MemoryInv(p) /\ CleanInv(p) /\ Awaited(p)

IInv ==
  /\ StoreInv
  /\ index \in Indexes /\ IndexOK(index)
  /\ calls \in [Processes -> Nat]
  /\ job \in [Processes -> Jobs]
  /\ \A p \in Processes : JobInv(p)

-----------------------------------------------------------------------------
(* Revisions, as sequences of what led to them.                             *)

Changes == Imports \cup Repairs
Names == Specs \cup Changes

\* A revision is a specification with changes on top of it.
LEMMA RevisionIsSeq ==
  ASSUME NEW r \in Revisions
  PROVE  /\ r \in Seq(Names) /\ Len(r) \in 1 .. MaxLength /\ r[1] \in Specs
         /\ \A i \in 2 .. Len(r) : r[i] \in Changes
<1>1. PICK n \in 1 .. MaxLength : r \in Chains(n)
  BY DEF Revisions
<1>2. r \in [1 .. n -> Names] /\ n \in Nat /\ n <= MaxLength
  BY <1>1, BoundsAssumption DEF Chains, Names, Changes
<1>3. r \in Seq(Names) /\ Len(r) = n
  BY <1>2
<1>4. \A i \in 1 .. n : i = 1 <=> r[i] \in Specs
  BY <1>1 DEF Chains
<1>. QED
  BY <1>1, <1>2, <1>3, <1>4, BoundsAssumption DEF Names

\* A specification by itself is a revision.
LEMMA FirstRevision ==
  ASSUME NEW s \in Specs
  PROVE  <<s>> \in Revisions /\ Ancestors(<<s>>) = {<<s>>} /\ ImportedAt(<<s>>) = {}
<1>1. <<s>> \in [1 .. 1 -> Specs \cup Imports \cup Repairs] /\ Len(<<s>>) = 1 /\ <<s>>[1] = s
  OBVIOUS
<1>2. <<s>> \in Chains(1)
  BY <1>1 DEF Chains
<1>3. 1 \in 1 .. MaxLength
  BY BoundsAssumption
<1>4. SubSeq(<<s>>, 1, 1) = <<s>>
  <2>1. <<s>> \in Seq({s})
    OBVIOUS
  <2>. QED
    BY <1>1, <2>1, SubSeqFull
<1>5. Ancestors(<<s>>) = {<<s>>}
  <2>1. Ancestors(<<s>>) = {SubSeq(<<s>>, 1, n) : n \in {1}}
    BY <1>1 DEF Ancestors
  <2>. QED
    BY <2>1, <1>4
<1>. QED
  BY <1>1, <1>2, <1>3, <1>5 DEF Revisions, ImportedAt

\* A revision with a change on top is another one, until there are too many.
LEMMA NextRevision ==
  ASSUME NEW r \in Revisions, NEW x \in Changes
  PROVE  /\ Append(r, x) \in Seq(Names) /\ Len(Append(r, x)) = Len(r) + 1
         /\ Append(r, x)[Len(r) + 1] = x /\ \A i \in 1 .. Len(r) : Append(r, x)[i] = r[i]
         /\ Append(r, x)[1] = r[1]
         /\ Len(r) < MaxLength => Append(r, x) \in Revisions
<1> DEFINE a == Append(r, x)
<1>1. r \in Seq(Names) /\ Len(r) \in 1 .. MaxLength /\ r[1] \in Specs
      /\ \A i \in 2 .. Len(r) : r[i] \in Changes
  BY RevisionIsSeq
<1>2. /\ a \in Seq(Names) /\ Len(a) = Len(r) + 1
      /\ a[Len(r) + 1] = x /\ \A i \in 1 .. Len(r) : a[i] = r[i]
  BY <1>1 DEF Names
<1>3. ASSUME Len(r) < MaxLength PROVE a \in Revisions
  <2>1. a \in [1 .. Len(r) + 1 -> Specs \cup Imports \cup Repairs]
    <3>1. a \in [1 .. Len(a) -> Names]
      BY <1>2, LenProperties
    <3>. QED
      BY <1>2, <3>1 DEF Names, Changes
  <2>2. ASSUME NEW i \in 1 .. Len(r) + 1 PROVE i = 1 <=> a[i] \in Specs
    BY <1>1, <1>2, NamesAssumption DEF Changes
  <2>3. a \in Chains(Len(r) + 1)
    BY <2>1, <2>2 DEF Chains
  <2>4. Len(r) + 1 \in 1 .. MaxLength
    BY <1>1, <1>3, BoundsAssumption
  <2>. QED
    BY <2>3, <2>4 DEF Revisions
<1>. QED
  BY <1>1, <1>2, <1>3, BoundsAssumption

\* Its ancestors are those of the one below it, and itself.
LEMMA NextAncestors ==
  ASSUME NEW r \in Revisions, NEW x \in Changes
  PROVE  Ancestors(Append(r, x)) = Ancestors(r) \cup {Append(r, x)}
<1> DEFINE a == Append(r, x)
<1>1. /\ r \in Seq(Names) /\ Len(r) \in Nat /\ Len(r) >= 1
      /\ a \in Seq(Names) /\ Len(a) = Len(r) + 1 /\ \A i \in 1 .. Len(r) : a[i] = r[i]
  BY RevisionIsSeq, NextRevision, BoundsAssumption
<1>2. ASSUME NEW n \in 1 .. Len(r) PROVE SubSeq(a, 1, n) = SubSeq(r, 1, n)
  <2>1. /\ SubSeq(a, 1, n) \in Seq(Names) /\ Len(SubSeq(a, 1, n)) = n
        /\ \A i \in 1 .. n : SubSeq(a, 1, n)[i] = a[i]
    BY <1>1
  <2>2. /\ SubSeq(r, 1, n) \in Seq(Names) /\ Len(SubSeq(r, 1, n)) = n
        /\ \A i \in 1 .. n : SubSeq(r, 1, n)[i] = r[i]
    BY <1>1
  <2>. QED
    BY <1>1, <2>1, <2>2, SeqEqual
<1>3. SubSeq(a, 1, Len(a)) = a
  BY <1>1, SubSeqFull
<1>4. 1 .. Len(a) = 1 .. Len(r) \cup {Len(a)}
  BY <1>1
<1>. QED
  BY <1>2, <1>3, <1>4 DEF Ancestors

\* Where textures were imported into it.
LEMMA NextImports ==
  ASSUME NEW r \in Revisions, NEW x \in Changes
  PROVE  /\ ImportedAt(r) \subseteq 2 .. Len(r)
         /\ ImportedAt(Append(r, x)) = IF x \in Imports THEN ImportedAt(r) \cup {Len(r) + 1} ELSE ImportedAt(r)
<1>1. Len(r) \in Nat /\ Len(r) >= 1
  BY RevisionIsSeq, BoundsAssumption
<1>. QED
  BY <1>1, NextRevision DEF ImportedAt

\* Only a repair of the colour changes the texture that is generated.
LEMMA NextGenerated ==
  ASSUME NEW r \in Revisions, NEW x \in Changes, x # "colour"
  PROVE  Generated(Append(r, x)) = Generated(r)
<1>1. Len(r) \in Nat /\ Len(r) >= 1
  BY RevisionIsSeq, BoundsAssumption
<1>2. "colour" \in {Append(r, x)[i] : i \in 2 .. Len(Append(r, x))} <=> "colour" \in {r[i] : i \in 2 .. Len(r)}
  BY <1>1, NextRevision
<1>. QED
  BY <1>2 DEF Generated, SpecOf

-----------------------------------------------------------------------------
(* The texture that is due.                                                 *)

\* It is one of those that a revision may use.
LEMMA DueIsUsable ==
  ASSUME NEW r \in Revisions, NEW t, Due(r, t)
  PROVE  t \in UsableBy(r) /\ t \in Textures
<1>1. t \in Imports \cup {Generated(r)}
  BY DEF Due, ImportedAt
<1>. QED
  BY <1>1 DEF UsableBy, Textures, Generated

\* An import brings its own texture.
LEMMA ImportIsDue ==
  ASSUME NEW r \in Revisions, NEW t \in Imports
  PROVE  Due(Append(r, t), t)
<1>1. Len(r) \in Nat /\ t \in Changes
  BY RevisionIsSeq, BoundsAssumption DEF Changes
<1>. QED
  BY <1>1, NextImports, NextRevision DEF Due

\* What is due is due after a repair too, unless it is generated from a colour
\* that the repair changes.
LEMMA RepairKeepsDue ==
  ASSUME NEW r \in Revisions, NEW fix \in Repairs, NEW t, Due(r, t),
         fix # "colour" \/ t \in Imports
  PROVE  Due(Append(r, fix), t)
<1>1. fix \in Changes /\ fix \notin Imports
  BY NamesAssumption DEF Changes
<1>2. ImportedAt(Append(r, fix)) = ImportedAt(r) /\ ImportedAt(r) \subseteq 2 .. Len(r)
  BY <1>1, NextImports
<1>3. CASE ImportedAt(r) = {}
  <2>1. t = Generated(r) /\ t \notin Imports
    BY <1>3, NamesAssumption DEF Due, Generated
  <2>. QED
    BY <1>1, <1>2, <1>3, <2>1, NextGenerated DEF Due
<1>4. CASE ImportedAt(r) # {}
  <2>1. PICK i \in ImportedAt(r) : r[i] = t /\ \A k \in ImportedAt(r) : k <= i
    BY <1>4 DEF Due
  <2>2. Len(r) \in Nat /\ i \in 1 .. Len(r)
    BY <1>2, <2>1, RevisionIsSeq, BoundsAssumption
  <2>3. Append(r, fix)[i] = r[i]
    BY <1>1, <2>2, NextRevision
  <2>. QED
    BY <1>2, <2>1, <2>3 DEF Due
<1>. QED
  BY <1>3, <1>4

\* What the compiler uses is due.
LEMMA CompilesDue ==
  ASSUME NEW r \in Revisions, NEW record \in Records, RecordOK(r, record)
  PROVE  Due(r, TextureFor(r, record))
BY DEF RecordOK, TextureFor, Due

\* What a revision may use is in the cache directory under its own name.
LEMMA EntriesOf ==
  ASSUME NEW r \in Revisions
  PROVE  /\ {Run(r), Revision(r), Review(r)} \subseteq Entries
         /\ \A t \in UsableBy(r) : Png(t) \in Entries /\ Compiled(r, t) \in Entries
BY AllEntriesAssumption DEF AllEntries

-----------------------------------------------------------------------------
(* One process takes a step with its operation.                             *)

\* What is whole stays whole, and so what a record says stays right.
LEMMA Stays ==
  ASSUME Keeps
  PROVE  /\ \A e : Sound(e) => Sound(e)'
         /\ \A r, record : RecordOK(r, record) => RecordOK(r, record)'
         /\ \A x : IndexOK(x) => IndexOK(x)'
<1>1. \A e : Sound(e) => Sound(e)'
  BY PartsOfEntries DEF Keeps, Sound
<1>2. ASSUME NEW r, NEW record, RecordOK(r, record)
      PROVE  RecordOK(r, record)'
  BY <1>1, <1>2 DEF RecordOK
<1>. QED
  BY <1>1, <1>2 DEF IndexOK

\* Where nothing in the store changes.
LEMMA StoreStays ==
  ASSUME StoreInv, UNCHANGED storeVars
  PROVE  StoreInv' /\ Keeps
BY DEF StoreInv, storeVars, StoreTypeOK, WorkInv, Sound, Published, Keeps

\* The step of p leaves the operations of the others alone, and keeps the rest.
Turn(p) ==
  /\ StoreInv' /\ Keeps /\ altered \subseteq altered'
  /\ index' \in Indexes /\ IndexOK(index)'
  /\ calls' \in [Processes -> Nat]
  /\ job' \in [Processes -> Jobs]
  /\ \A q \in Processes \ {p} : job'[q] = job[q] /\ work'[q] = work[q]
  /\ JobInv(p)'
  /\ job[p].at \notin Ends /\ job'[p].at = "success" => job[p].used \cap job[p].base = {}

\* The operations of the others lose nothing by it.
LEMMA OthersStay ==
  ASSUME IInv, Keeps, altered \subseteq altered', NEW q \in Processes,
         job'[q] = job[q], work'[q] = work[q]
  PROVE  JobInv(q)'
<1>1. /\ \A e : Sound(e) => Sound(e)'
      /\ \A r, record : RecordOK(r, record) => RecordOK(r, record)'
      /\ \A x : IndexOK(x) => IndexOK(x)'
  BY Stays
<1>2. JobInv(q)
  BY DEF IInv
<1>3. CleanInv(q)'
  BY <1>2 DEF JobInv, CleanInv, Failing, Busy
<1>4. Awaited(q)'
  BY <1>2 DEF JobInv, Awaited
<1>5. MemoryInv(q)'
  BY <1>1, <1>2 DEF JobInv, MemoryInv, Awaiting, Busy, LoadedInv
<1>. QED
  BY <1>3, <1>4, <1>5 DEF JobInv

\* A turn keeps the invariant.
LEMMA TurnInv ==
  ASSUME IInv, NEW p \in Processes, Turn(p)
  PROVE  IInv'
<1>1. ASSUME NEW q \in Processes PROVE JobInv(q)'
  BY OthersStay DEF Turn
<1>. QED
  BY <1>1 DEF IInv, Turn

\* The operation of a process that has none.
LEMMA IdleJob == /\ Idle \in Jobs /\ Idle.at = "idle" /\ Idle.used = {} /\ Idle.base = {}
                 /\ Idle.op = None /\ Idle.revision = None /\ Idle.new = None
BY EmptySeq DEF Idle, Jobs, Points, Ends

\* What an operation starts with.
StartsRight(j) ==
  /\ j \in Jobs /\ j.used = {} /\ j.base = altered /\ OriginInv(j)
  /\ \/ j.at = "load" /\ j.op # "upsert"
     \/ /\ j.at = "store" /\ j.op = "upsert" /\ j.then = "fetch"
        /\ \A e \in Needed(j) : \E i \in 1 .. Len(j.todo) : j.todo[i].entry = e

\* An operation that starts right is a turn.
LEMMA StartTurn ==
  ASSUME IInv, NEW p \in Processes, NEW j, StartsRight(j), Start(p, j)
  PROVE  Turn(p)
<1>1. /\ job[p].at \in Ends /\ job' = [job EXCEPT ![p] = j] /\ calls' = [calls EXCEPT ![p] = @ + 1]
      /\ UNCHANGED <<storeVars, index>>
  BY DEF Start
<1>2. StoreInv' /\ Keeps
  BY <1>1, StoreStays DEF IInv
<1>3. job' \in [Processes -> Jobs] /\ job'[p] = j /\ \A q \in Processes \ {p} : job'[q] = job[q]
  BY <1>1 DEF IInv, StartsRight
<1>4. calls' \in [Processes -> Nat]
  BY <1>1 DEF IInv
<1>5. IndexOK(index)'
  BY <1>1, <1>2, Stays DEF IInv, IndexOK
<1>6. Awaited(p)'
  BY <1>1, <1>3 DEF IInv, JobInv, Awaited, storeVars, Ends
<1>7. CleanInv(p)'
  BY <1>1, <1>3 DEF StartsRight, CleanInv, storeVars
<1>8. MemoryInv(p)'
  BY <1>3 DEF StartsRight, MemoryInv, Ends, Updating, Awaiting
<1>. QED
  BY <1>1, <1>2, <1>3, <1>4, <1>5, <1>6, <1>7, <1>8 DEF Turn, IInv, JobInv, storeVars

\* An operation starts with a specification ...
LEMMA UpsertTurn ==
  ASSUME IInv, NEW p \in Processes, Upsert(p)
  PROVE  Turn(p)
<1>1. PICK s \in Specs, expect \in {None, index.latest} :
        Start(p, [Idle EXCEPT !.op = "upsert", !.at = "store", !.then = "fetch",
                              !.revision = <<s>>, !.new = <<s>>, !.expect = expect,
                              !.todo = <<PutOf(Run(<<s>>)), PutOf(Revision(<<s>>))>>,
                              !.base = altered])
  BY DEF Upsert
<1> DEFINE j == [Idle EXCEPT !.op = "upsert", !.at = "store", !.then = "fetch",
                             !.revision = <<s>>, !.new = <<s>>, !.expect = expect,
                             !.todo = <<PutOf(Run(<<s>>)), PutOf(Revision(<<s>>))>>,
                             !.base = altered]
<1>2. <<s>> \in Revisions
  BY <1>1, FirstRevision
<1>3. PutOf(Run(<<s>>)) \in Tasks /\ PutOf(Revision(<<s>>)) \in Tasks
  BY <1>2, EntriesOf DEF PutOf, Tasks
<1>4. <<PutOf(Run(<<s>>)), PutOf(Revision(<<s>>))>> \in Seq(Tasks)
  BY <1>3
<1>5. j \in Jobs
  <2>1. altered \in SUBSET (Entries \X Parts)
    BY DEF IInv, StoreInv, StoreTypeOK
  <2>2. expect \in Revisions \cup {None}
    BY <1>1 DEF IInv, Indexes
  <2>. QED
    BY <1>2, <1>4, <2>1, <2>2, IdleJob DEF Jobs, Operations, Points
<1>6. /\ j.op = "upsert" /\ j.at = "store" /\ j.then = "fetch" /\ j.revision = <<s>> /\ j.new = <<s>>
      /\ j.used = {} /\ j.base = altered /\ j.todo = <<PutOf(Run(<<s>>)), PutOf(Revision(<<s>>))>>
  BY IdleJob DEF Jobs
<1>7. \A e \in Needed(j) : \E i \in 1 .. Len(j.todo) : j.todo[i].entry = e
  <2>1. Needed(j) = {Run(<<s>>), Revision(<<s>>)}
    BY <1>6 DEF Needed
  <2>2. Len(j.todo) = 2 /\ j.todo[1].entry = Run(<<s>>) /\ j.todo[2].entry = Revision(<<s>>)
    BY <1>6 DEF PutOf
  <2>. QED
    BY <2>1, <2>2
<1>8. OriginInv(j)
  BY <1>1, <1>2, <1>6 DEF OriginInv, Operations
<1>9. StartsRight(j)
  BY <1>5, <1>6, <1>7, <1>8 DEF StartsRight
<1>. QED
  BY <1>1, <1>9, StartTurn

\* ... or with a recorded revision: a texture is imported, ...
LEMMA ImportTurn ==
  ASSUME IInv, NEW p \in Processes, Import(p)
  PROVE  Turn(p)
<1>1. PICK r \in Indexed, t \in Imports :
        /\ Len(r) < MaxLength
        /\ Start(p, [Idle EXCEPT !.op = "import", !.at = "load", !.revision = r,
                              !.new = Append(r, t), !.texture = t, !.base = altered])
  BY DEF Import
<1> DEFINE j == [Idle EXCEPT !.op = "import", !.at = "load", !.revision = r,
                              !.new = Append(r, t), !.texture = t, !.base = altered]
<1>2. r \in Revisions /\ t \in Changes
  BY <1>1 DEF Indexed, IInv, Indexes, Changes
<1>3. Append(r, t) \in Revisions
  BY <1>1, <1>2, NextRevision
<1>4. j \in Jobs
  <2>1. altered \in SUBSET (Entries \X Parts)
    BY DEF IInv, StoreInv, StoreTypeOK
  <2>. QED
    BY <1>1, <1>2, <1>3, <2>1, IdleJob DEF Jobs, Operations, Points, Textures
<1>5. /\ j.op = "import" /\ j.at = "load" /\ j.revision = r /\ j.texture = t
      /\ j.new = Append(r, t) /\ j.used = {} /\ j.base = altered
  BY IdleJob DEF Jobs
<1>6. OriginInv(j)
  BY <1>1, <1>2, <1>3, <1>5 DEF OriginInv, Operations
<1>7. StartsRight(j)
  BY <1>4, <1>5, <1>6 DEF StartsRight
<1>. QED
  BY <1>1, <1>7, StartTurn

\* ... one is repaired, ...
LEMMA ReviseTurn ==
  ASSUME IInv, NEW p \in Processes, Revise(p)
  PROVE  Turn(p)
<1>1. PICK r \in Indexed, fix \in Repairs :
        /\ Len(r) < MaxLength
        /\ Start(p, [Idle EXCEPT !.op = "revise", !.at = "load", !.revision = r,
                              !.new = Append(r, fix), !.base = altered])
  BY DEF Revise
<1> DEFINE j == [Idle EXCEPT !.op = "revise", !.at = "load", !.revision = r,
                              !.new = Append(r, fix), !.base = altered]
<1>2. r \in Revisions /\ fix \in Changes
  BY <1>1 DEF Indexed, IInv, Indexes, Changes
<1>3. Append(r, fix) \in Revisions
  BY <1>1, <1>2, NextRevision
<1>4. j \in Jobs
  <2>1. altered \in SUBSET (Entries \X Parts)
    BY DEF IInv, StoreInv, StoreTypeOK
  <2>. QED
    BY <1>1, <1>2, <1>3, <2>1, IdleJob DEF Jobs, Operations, Points, Textures
<1>5. /\ j.op = "revise" /\ j.at = "load" /\ j.revision = r
      /\ j.new = Append(r, fix) /\ j.used = {} /\ j.base = altered
  BY IdleJob DEF Jobs
<1>6. OriginInv(j)
  BY <1>1, <1>2, <1>3, <1>5 DEF OriginInv, Operations
<1>7. StartsRight(j)
  BY <1>4, <1>5, <1>6 DEF StartsRight
<1>. QED
  BY <1>1, <1>7, StartTurn

\* ... or it is compiled or looked at.
LEMMA OnRevisionTurn ==
  ASSUME IInv, NEW p \in Processes, NEW op \in Operations \ {"upsert", "import", "revise"}, OnRevision(p, op)
  PROVE  Turn(p)
<1>1. PICK r \in Indexed :
        Start(p, [Idle EXCEPT !.op = op, !.at = "load", !.revision = r, !.new = r, !.base = altered])
  BY DEF OnRevision
<1> DEFINE j == [Idle EXCEPT !.op = op, !.at = "load", !.revision = r, !.new = r, !.base = altered]
<1>2. r \in Revisions
  BY <1>1 DEF Indexed, IInv, Indexes
<1>3. j \in Jobs
  <2>1. altered \in SUBSET (Entries \X Parts)
    BY DEF IInv, StoreInv, StoreTypeOK
  <2>. QED
    BY <1>1, <1>2, <2>1, IdleJob DEF Jobs, Points
<1>4. /\ j.op = op /\ j.at = "load" /\ j.revision = r /\ j.new = r
      /\ j.used = {} /\ j.base = altered
  BY IdleJob DEF Jobs
<1>5. OriginInv(j)
  BY <1>2, <1>4 DEF OriginInv
<1>6. StartsRight(j)
  BY <1>3, <1>4, <1>5 DEF StartsRight
<1>. QED
  BY <1>1, <1>6, StartTurn

\* Whatever the operation, it starts right.
LEMMA BeginTurn ==
  ASSUME IInv, NEW p \in Processes, NEW op \in May[p], Begin(p, op)
  PROVE  Turn(p)
<1>1. op \in Operations
  BY MayAssumption
<1>2. CASE op = "upsert"
  BY <1>2, UpsertTurn DEF Begin
<1>3. CASE op = "import"
  BY <1>3, ImportTurn DEF Begin
<1>4. CASE op = "revise"
  BY <1>4, ReviseTurn DEF Begin
<1>5. CASE op \notin {"upsert", "import", "revise"}
  BY <1>1, <1>5, OnRevisionTurn DEF Begin
<1>. QED
  BY <1>2, <1>3, <1>4, <1>5

\* An operation ends: it is refused, or it succeeds and has used nothing that
\* was altered before it.
LEMMA EndTurn ==
  ASSUME IInv, NEW p \in Processes, NEW last \in {Idle, [Idle EXCEPT !.at = "success"]},
         StoreInv', Keeps, altered \subseteq altered', index' \in Indexes, IndexOK(index)',
         calls' = calls, work'[p] = Free, \A q \in Processes \ {p} : work'[q] = work[q],
         job' = [job EXCEPT ![p] = last],
         last # Idle => job[p].used \cap job[p].base = {}
  PROVE  Turn(p)
<1>1. /\ last \in Jobs /\ last.at \in Ends /\ last.used = {} /\ last.base = {}
      /\ last # Idle <=> last.at = "success"
  BY IdleJob DEF Jobs, Ends, Points
<1>2. job' \in [Processes -> Jobs] /\ job'[p] = last /\ \A q \in Processes \ {p} : job'[q] = job[q]
  BY <1>1 DEF IInv
<1>3. MemoryInv(p)'
  BY <1>1, <1>2 DEF MemoryInv, Ends
<1>4. CleanInv(p)'
  BY <1>1, <1>2 DEF CleanInv
<1>5. Awaited(p)'
  BY DEF Awaited
<1>. QED
  BY <1>1, <1>2, <1>3, <1>4, <1>5 DEF Turn, IInv, JobInv

\* A process that is not in the store has no call of it.
LEMMA OutOfStore ==
  ASSUME IInv, NEW p \in Processes, job[p].at # "store"
  PROVE  work[p] = Free
BY DEF IInv, JobInv, Awaited

-----------------------------------------------------------------------------
(* What an operation puts and reads.                                        *)

Has(todo, e) == \E i \in 1 .. Len(todo) : todo[i].entry = e

\* What is to be done still is, with something before or after it.
LEMMA ConcatHas ==
  ASSUME NEW s \in Seq(Tasks), NEW t \in Seq(Tasks), NEW e, Has(s, e) \/ Has(t, e)
  PROVE  Has(s \o t, e)
<1>1. /\ Len(s) \in Nat /\ Len(t) \in Nat /\ Len(s \o t) = Len(s) + Len(t)
      /\ \A i \in 1 .. Len(s) : (s \o t)[i] = s[i]
      /\ \A i \in 1 .. Len(t) : (s \o t)[Len(s) + i] = t[i]
  BY ConcatProperties, LenProperties
<1>2. CASE Has(s, e)
  <2>1. PICK i \in 1 .. Len(s) : s[i].entry = e
    BY <1>2 DEF Has
  <2>. QED
    BY <1>1, <2>1 DEF Has
<1>3. CASE Has(t, e)
  <2>1. PICK i \in 1 .. Len(t) : t[i].entry = e
    BY <1>3 DEF Has
  <2>2. Len(s) + i \in 1 .. Len(s \o t) /\ (s \o t)[Len(s) + i].entry = e
    BY <1>1, <2>1
  <2>. QED
    BY <2>2 DEF Has
<1>. QED
  BY <1>2, <1>3

\* An operation that has the record of its revision.
Loaded(j, record) ==
  /\ OriginInv(j) /\ j.op # "upsert"
  /\ record \in Records /\ RecordOK(j.revision, record)

\* An import puts its texture and its revision.
LEMMA ImportPlanIsRight ==
  ASSUME NEW j, NEW record, Loaded(j, record), j.op = "import"
  PROVE  /\ ImportPlan(j) \in Seq(Tasks)
         /\ \A e \in {Png(j.texture), Revision(j.new)} : Has(ImportPlan(j), e)
<1>1. /\ Png(j.texture) \in Entries /\ Revision(j.revision) \in Entries /\ Revision(j.new) \in Entries
  BY EntriesOf DEF Loaded, OriginInv, UsableBy
<1>2. /\ PutOf(Png(j.texture)) \in Tasks /\ ReadOf(Revision(j.revision)) \in Tasks
      /\ PutOf(Revision(j.new)) \in Tasks
  BY <1>1 DEF PutOf, ReadOf, Tasks
<1>3. /\ Len(ImportPlan(j)) = 3 /\ ImportPlan(j)[1].entry = Png(j.texture)
      /\ ImportPlan(j)[3].entry = Revision(j.new)
  BY DEF ImportPlan, PutOf
<1>. QED
  BY <1>2, <1>3 DEF ImportPlan, Has

\* A repair puts its revision and its review.
LEMMA RevisePlanIsRight ==
  ASSUME NEW j, NEW record, Loaded(j, record)
  PROVE  /\ RevisePlan(j) \in Seq(Tasks)
         /\ \A e \in {Revision(j.new), Review(j.new)} : Has(RevisePlan(j), e)
<1>1. Revision(j.revision) \in Entries /\ Revision(j.new) \in Entries /\ Review(j.new) \in Entries
  BY EntriesOf DEF Loaded, OriginInv
<1>2. /\ ReadOf(Revision(j.revision)) \in Tasks /\ PutOf(Revision(j.new)) \in Tasks
      /\ PutOf(Review(j.new)) \in Tasks
  BY <1>1 DEF PutOf, ReadOf, Tasks
<1>3. /\ Len(RevisePlan(j)) = 3 /\ RevisePlan(j)[2].entry = Revision(j.new)
      /\ RevisePlan(j)[3].entry = Review(j.new)
  BY DEF RevisePlan, PutOf
<1>. QED
  BY <1>2, <1>3 DEF RevisePlan, Has

\* A compilation puts or reads its texture, and puts its artifact.
LEMMA CompilePlanIsRight ==
  ASSUME NEW j, NEW record, Loaded(j, record)
  PROVE  LET t == TextureFor(j.revision, record)
         IN  /\ CompilePlan(j, record) \in Seq(Tasks) /\ t \in Textures
             /\ \A e \in {Png(t), Compiled(j.revision, t)} : Has(CompilePlan(j, record), e)
<1> DEFINE t == TextureFor(j.revision, record)
           first == IF record.texture = None THEN <<PutOf(Png(t))>> ELSE <<>>
           second == <<ReadOf(Png(t)), PutOf(Compiled(j.revision, t))>>
<1>1. t \in UsableBy(j.revision) /\ t \in Textures /\ j.revision \in Revisions
  BY CompilesDue, DueIsUsable DEF Loaded, OriginInv
<1>2. Png(t) \in Entries /\ Compiled(j.revision, t) \in Entries
  BY <1>1, EntriesOf
<1>3. PutOf(Png(t)) \in Tasks /\ ReadOf(Png(t)) \in Tasks /\ PutOf(Compiled(j.revision, t)) \in Tasks
  BY <1>2 DEF PutOf, ReadOf, Tasks
<1>4. first \in Seq(Tasks) /\ second \in Seq(Tasks)
  BY <1>3
<1>5. Len(second) = 2 /\ second[1].entry = Png(t) /\ second[2].entry = Compiled(j.revision, t)
  BY DEF PutOf, ReadOf
<1>6. \A e \in {Png(t), Compiled(j.revision, t)} : Has(second, e)
  BY <1>5 DEF Has
<1>7. CompilePlan(j, record) = first \o second
  BY DEF CompilePlan
<1> HIDE DEF first, second
<1>. QED
  BY <1>1, <1>4, <1>6, <1>7, ConcatHas, ConcatProperties

\* An inspection reads what the record names ...
LEMMA InspectPlanIsRight ==
  ASSUME NEW j, NEW record, Loaded(j, record)
  PROVE  InspectPlan(j, record) \in Seq(Tasks)
<1> DEFINE first == IF record.texture = None THEN <<>> ELSE <<ReadOf(Png(record.texture))>>
           second == IF record.compiled = None THEN <<>>
                     ELSE <<ReadOf(Compiled(j.revision, record.compiled))>>
<1>1. j.revision \in Revisions
  BY DEF Loaded, OriginInv
<1>2. record.texture # None => Png(record.texture) \in Entries
  BY <1>1, DueIsUsable, EntriesOf DEF Loaded, RecordOK
<1>3. record.compiled # None => Compiled(j.revision, record.compiled) \in Entries
  BY <1>1, DueIsUsable, EntriesOf DEF Loaded, RecordOK
<1>4. first \in Seq(Tasks)
  <2>1. CASE record.texture = None
    BY <2>1, EmptySeq
  <2>2. CASE record.texture # None
    <3>1. ReadOf(Png(record.texture)) \in Tasks
      BY <1>2, <2>2 DEF ReadOf, Tasks
    <3>. QED
      BY <2>2, <3>1
  <2>. QED
    BY <2>1, <2>2
<1>5. second \in Seq(Tasks)
  <2>1. CASE record.compiled = None
    BY <2>1, EmptySeq
  <2>2. CASE record.compiled # None
    <3>1. ReadOf(Compiled(j.revision, record.compiled)) \in Tasks
      BY <1>3, <2>2 DEF ReadOf, Tasks
    <3>. QED
      BY <2>2, <3>1
  <2>. QED
    BY <2>1, <2>2
<1>6. InspectPlan(j, record) = first \o second
  BY DEF InspectPlan
<1> HIDE DEF first, second
<1>. QED
  BY <1>4, <1>5, <1>6, ConcatProperties

\* ... and so does who reads a resource.
LEMMA ResourcePlanIsRight ==
  ASSUME NEW j, NEW record, Loaded(j, record)
  PROVE  ResourcePlan(j) \in Seq(Tasks)
<1>1. ReadOf(Review(j.revision)) \in Tasks
  BY EntriesOf DEF Loaded, OriginInv, ReadOf, Tasks
<1>. QED
  BY <1>1 DEF ResourcePlan

\* Whatever the operation, its plan leaves nothing out that the state will name.
LEMMA PlanIsRight ==
  ASSUME NEW j, NEW record, Loaded(j, record)
  PROVE  /\ Plan(j, record) \in Seq(Tasks)
         /\ j.op \in {"import", "revise"} => \A e \in Needed(j) : Has(Plan(j, record), e)
<1>1. CASE j.op = "import"
  BY <1>1, ImportPlanIsRight DEF Plan, Needed
<1>2. CASE j.op = "revise"
  BY <1>2, RevisePlanIsRight DEF Plan, Needed
<1>3. CASE j.op = "compile"
  BY <1>3, CompilePlanIsRight DEF Plan
<1>4. CASE j.op = "inspect"
  BY <1>4, InspectPlanIsRight DEF Plan
<1>5. CASE j.op \notin {"import", "revise", "compile", "inspect"}
  BY <1>5, ResourcePlanIsRight DEF Plan
<1>. QED
  BY <1>1, <1>2, <1>3, <1>4, <1>5

\* An operation that has been loaded.
LoadedAs(j, then, record, texture, todo) ==
  [j EXCEPT !.at = "store", !.then = then, !.record = record, !.texture = texture, !.todo = todo]

\* Loading sets five fields of an operation, and keeps the others.
LEMMA LoadedJob ==
  ASSUME NEW j \in Jobs, NEW then \in {"success", "fetch"}, NEW record \in Records,
         NEW texture \in Textures \cup {None}, NEW todo \in Seq(Tasks)
  PROVE  LET loaded == LoadedAs(j, then, record, texture, todo)
         IN  /\ loaded \in Jobs /\ loaded.at = "store" /\ loaded.then = then
             /\ loaded.record = record /\ loaded.texture = texture /\ loaded.todo = todo
             /\ loaded.op = j.op /\ loaded.revision = j.revision /\ loaded.new = j.new
             /\ loaded.used = j.used /\ loaded.base = j.base
<1> DEFINE loaded == LoadedAs(j, then, record, texture, todo)
<1> USE DEF LoadedAs
<1>0. "store" \in Points
  BY DEF Points
<1>1. loaded \in Jobs
  BY <1>0 DEF Jobs
<1>2. loaded.at = "store"
  BY DEF Jobs
<1>3. loaded.todo = todo
  BY DEF Jobs
<1>4. loaded.texture = texture /\ loaded.then = then
  BY DEF Jobs
<1>5. loaded.record = record
  BY DEF Jobs
<1>6. loaded.op = j.op /\ loaded.revision = j.revision /\ loaded.new = j.new
  BY DEF Jobs
<1>7. loaded.used = j.used /\ loaded.base = j.base
  BY DEF Jobs
<1>. QED
  BY <1>1, <1>2, <1>3, <1>4, <1>5, <1>6, <1>7
\* What is loaded is right, and so is what is planned with it.
LEMMA LoadTurn ==
  ASSUME IInv, NEW p \in Processes, Load(p)
  PROVE  Turn(p)
<1> DEFINE j == job[p]
           record == index.record[j.revision]
           verified == <<ReadOf(Run(j.revision)), ReadOf(Revision(j.revision))>>
           texture == IF j.op = "compile" THEN TextureFor(j.revision, record) ELSE j.texture
           then == IF j.op \in {"inspect", "review"} THEN "success" ELSE "fetch"
           todo == verified \o Plan(j, record)
           loaded == LoadedAs(j, then, record, texture, todo)
<1>1. /\ j \in Jobs /\ j.at = "load" /\ work[p] = Free /\ UNCHANGED <<storeVars, index, calls>>
      /\ OriginInv(j) /\ j.op # "upsert" /\ JobInv(p)
  BY OutOfStore DEF Load, At, IInv, JobInv, MemoryInv, Ends
<1>2. StoreInv' /\ Keeps /\ IndexOK(index)'
  BY <1>1, StoreStays, Stays DEF IInv, IndexOK
<1>3. CASE job' = [job EXCEPT ![p] = Idle]
  BY <1>1, <1>2, <1>3, EndTurn DEF IInv, storeVars
<1>4. CASE record # None /\ job' = [job EXCEPT ![p] = loaded]
  <2>1. record \in Records /\ RecordOK(j.revision, record)
    BY <1>1, <1>4 DEF IInv, Indexes, IndexOK, OriginInv
  <2>2. Loaded(j, record)
    BY <1>1, <2>1 DEF Loaded
  <2>3. verified \in Seq(Tasks)
    <3>1. ReadOf(Run(j.revision)) \in Tasks /\ ReadOf(Revision(j.revision)) \in Tasks
      BY <1>1, EntriesOf DEF OriginInv, ReadOf, Tasks
    <3>. QED
      BY <3>1
  <2>4. Plan(j, record) \in Seq(Tasks)
    BY <2>2, PlanIsRight
  <2>5. texture \in Textures \cup {None}
    BY <1>1, <2>2, CompilePlanIsRight DEF Jobs
  <2> HIDE DEF verified
  <2>6. todo \in Seq(Tasks)
    BY <2>3, <2>4, ConcatProperties
  <2>7. then \in {"success", "fetch"}
    OBVIOUS
  <2> HIDE DEF texture, then, record, todo
  <2>8. /\ loaded \in Jobs /\ loaded.at = "store" /\ loaded.then = then /\ loaded.record = record
        /\ loaded.texture = texture /\ loaded.todo = todo
        /\ loaded.op = j.op /\ loaded.revision = j.revision /\ loaded.new = j.new
        /\ loaded.used = j.used /\ loaded.base = j.base
    <3>1. j \in Jobs /\ record \in Records
      BY <1>1, <2>1
    <3> HIDE DEF j
    <3>. QED
      BY <3>1, <2>5, <2>6, <2>7, LoadedJob
  <2> HIDE DEF loaded
  <2>9. job' \in [Processes -> Jobs] /\ job'[p] = loaded /\ \A q \in Processes \ {p} : job'[q] = job[q]
    BY <1>4, <2>8 DEF IInv
  <2>10. OriginInv(loaded) /\ LoadedInv(loaded)
    <3>1. j.op = "import" => loaded.texture = j.texture
      BY <2>8 DEF texture
    <3>2. j.op = "compile" => loaded.texture = TextureFor(j.revision, record)
      BY <2>8 DEF texture
    <3>. QED
      BY <1>1, <2>1, <2>8, <3>1, <3>2 DEF OriginInv, LoadedInv
  <2>11. ASSUME loaded.then = "fetch" PROVE j.op \in {"import", "revise", "compile"}
    BY <1>1, <2>8, <2>11 DEF then, OriginInv, Operations
  <2>12. ASSUME loaded.then = "fetch", NEW e \in Needed(loaded)
         PROVE  Has(loaded.todo, e)
    <3>1. j.op \in {"import", "revise", "compile"}
      BY <2>12, <2>11
    <3>2. Has(Plan(j, record), e)
      <4>1. CASE j.op = "compile"
        <5>1. Needed(loaded) = {Png(texture), Compiled(j.revision, texture)}
          BY <2>8, <4>1 DEF Needed
        <5>2. texture = TextureFor(j.revision, record) /\ Plan(j, record) = CompilePlan(j, record)
          BY <4>1 DEF texture, Plan
        <5>. QED
          BY <2>2, <2>12, <5>1, <5>2, CompilePlanIsRight
      <4>2. CASE j.op \in {"import", "revise"}
        <5>1. Needed(loaded) = Needed(j)
          BY <2>8, <4>2 DEF Needed, texture
        <5>. QED
          BY <2>2, <2>12, <4>2, <5>1, PlanIsRight
      <4>. QED
        BY <3>1, <4>1, <4>2
    <3>3. Has(loaded.todo, e)
      BY <2>3, <2>4, <2>8, <3>2, ConcatHas DEF todo
    <3>. QED
      BY <3>3
  <2>13. MemoryInv(p)'
    <3>1. LoadedInv(job[p])'
      BY <1>2, <2>9, <2>10, Stays DEF LoadedInv
    <3>2. OriginInv(job[p])'
      BY <2>9, <2>10 DEF OriginInv
    <3>3. ASSUME job'[p].then = "fetch" PROVE \A e \in Needed(job[p])' : Awaiting(p, e)'
      BY <2>9, <2>12, <3>3 DEF Awaiting, Has, Needed
    <3>. QED
      BY <2>7, <2>8, <2>9, <2>11, <3>1, <3>2, <3>3 DEF MemoryInv, Ends, Updating
  <2>14. CleanInv(p)' /\ Awaited(p)'
    BY <1>1, <2>8, <2>9 DEF JobInv, CleanInv, Failing, Awaited, Busy, storeVars
  <2>. QED
    BY <1>1, <1>2, <2>8, <2>9, <2>13, <2>14 DEF Turn, IInv, JobInv, storeVars
<1>. QED
  BY <1>1, <1>3, <1>4 DEF Load, Refuse, LoadedAs

-----------------------------------------------------------------------------
(* Through the store, and to the state file.                                *)

\* The next entry is put or read, and used.
LEMMA EnterTurn ==
  ASSUME IInv, NEW p \in Processes, Enter(p)
  PROVE  Turn(p)
<1> DEFINE j == job[p]
           next == Head(j.todo)
<1>1. /\ j \in Jobs /\ j.at = "store" /\ ~Busy(p) /\ j.todo # <<>> /\ JobInv(p)
      /\ Put(p, next.entry) \/ Read(p, next.entry)
      /\ job' = [job EXCEPT ![p].todo = Tail(@), ![p].used = @ \cup Relying(next)]
      /\ UNCHANGED <<visible, stamp, altered, index, calls>>
  BY DEF Enter, At, IInv, Busy
<1>2. /\ next \in Tasks /\ Tail(j.todo) \in Seq(Tasks)
      /\ \A i \in 1 .. Len(j.todo) : j.todo[i] = next \/ \E k \in 1 .. Len(Tail(j.todo)) : Tail(j.todo)[k] = j.todo[i]
  <2>1. j.todo \in Seq(Tasks)
    BY <1>1 DEF Jobs
  <2>2. /\ next \in Tasks /\ next = j.todo[1] /\ Tail(j.todo) \in Seq(Tasks)
        /\ Len(j.todo) \in Nat /\ Len(Tail(j.todo)) = Len(j.todo) - 1
        /\ \A k \in 1 .. Len(Tail(j.todo)) : Tail(j.todo)[k] = j.todo[k + 1]
    BY <1>1, <2>1, HeadTailProperties
  <2>3. ASSUME NEW i \in 1 .. Len(j.todo), i # 1
        PROVE  \E k \in 1 .. Len(Tail(j.todo)) : Tail(j.todo)[k] = j.todo[i]
    <3>1. i - 1 \in 1 .. Len(Tail(j.todo)) /\ (i - 1) + 1 = i
      BY <2>2, <2>3
    <3>. QED
      BY <2>2, <3>1
  <2>. QED
    BY <2>2, <2>3
<1>3. next.entry \in Entries
  BY <1>2 DEF Tasks
<1>4. /\ StoreInv' /\ \A q \in Processes \ {p} : work'[q] = work[q]
      /\ work'[p].entry = next.entry /\ work'[p].at \in {"stage", "before", "verify"}
      /\ ~Put(p, next.entry) /\ IsDirectory(next.entry) => work'[p].at = "verify"
  BY <1>1, <1>3, CallInv DEF IInv
<1>5. Keeps /\ IndexOK(index)'
  BY <1>1, Stays DEF Keeps, IInv, IndexOK
<1>6. /\ job'[p] \in Jobs /\ job'[p].used = j.used \cup Relying(next) /\ job'[p].todo = Tail(j.todo)
      /\ job'[p].at = j.at /\ job'[p].base = j.base /\ job'[p].then = j.then
      /\ job'[p].op = j.op /\ job'[p].revision = j.revision /\ job'[p].new = j.new
      /\ job'[p].record = j.record /\ job'[p].texture = j.texture /\ job'[p].read = j.read
  <2>1. Relying(next) \subseteq Entries \X Parts
    BY <1>3, PartsOfEntries DEF Relying, Parts
  <2>2. job'[p] = [j EXCEPT !.todo = Tail(j.todo), !.used = j.used \cup Relying(next)]
    BY <1>1 DEF IInv
  <2>3. j.used \cup Relying(next) \in SUBSET (Entries \X Parts)
    BY <1>1, <2>1 DEF Jobs
  <2>. DEFINE k == job'[p]
              rest == Tail(j.todo)
              more == j.used \cup Relying(next)
  <2>4. j \in Jobs /\ rest \in Seq(Tasks) /\ more \in SUBSET (Entries \X Parts)
    BY <1>1, <1>2, <2>3
  <2>5. k = [j EXCEPT !.todo = rest, !.used = more]
    BY <2>2
  <2>6. /\ k \in Jobs /\ k.used = more /\ k.todo = rest
        /\ k.at = j.at /\ k.base = j.base /\ k.then = j.then
        /\ k.op = j.op /\ k.revision = j.revision /\ k.new = j.new
        /\ k.record = j.record /\ k.texture = j.texture /\ k.read = j.read
    <3>. HIDE DEF j, k, rest, more
    <3>1. k \in Jobs
      BY <2>4, <2>5 DEF Jobs
    <3>2. k.used = more /\ k.todo = rest /\ k.at = j.at /\ k.base = j.base /\ k.then = j.then
      BY <2>4, <2>5 DEF Jobs
    <3>3. /\ k.op = j.op /\ k.revision = j.revision /\ k.new = j.new
          /\ k.record = j.record /\ k.texture = j.texture /\ k.read = j.read
      BY <2>4, <2>5 DEF Jobs
    <3>. QED
      BY <3>1, <3>2, <3>3
  <2>. QED
    BY <2>6
<1>7. job' \in [Processes -> Jobs] /\ \A q \in Processes \ {p} : job'[q] = job[q]
  BY <1>1, <1>6 DEF IInv
<1>8. CleanInv(p)'
  <2>1. ASSUME NEW change \in Relying(next) PROVE Failing(p, change)'
    <3>1. change[1] = next.entry /\ (change[2] = "manifest" => next.do # "put" /\ IsDirectory(next.entry))
      BY DEF Relying, PartsOf
    <3>2. ASSUME change[2] = "manifest" PROVE work'[p].at = "verify"
      <4>1. Read(p, next.entry) /\ IsDirectory(next.entry)
        BY <3>1, <3>2 DEF Enter
      <4>2. work \in [Processes -> [entry : Entries \cup {NoEntry}, at : Steps, staged : SUBSET Parts, stamp : 0 .. 2]]
        BY DEF IInv, StoreInv, StoreTypeOK
      <4>. QED
        BY <4>1, <4>2 DEF Read, Free
    <3>. QED
      BY <1>4, <3>1, <3>2 DEF Failing, Busy, Linking
  <2>2. \A change \in j.used \cap j.base : Failing(p, change)
    BY <1>1 DEF JobInv, CleanInv
  <2>3. j.used \cap j.base = {} /\ j.base \subseteq altered
    BY <1>1, <2>2 DEF Failing, JobInv, CleanInv
  <2>. QED
    BY <1>1, <1>6, <2>1, <2>3 DEF CleanInv
<1>9. MemoryInv(p)'
  <2>1. LoadedInv(j) => LoadedInv(job[p])'
    BY <1>5, <1>6, Stays DEF LoadedInv
  <2>2. OriginInv(j) => OriginInv(job[p])'
    BY <1>6 DEF OriginInv
  <2>3. ASSUME j.then = "fetch", NEW e \in Needed(j)
        PROVE  Sound(e)' \/ Awaiting(p, e)'
    <3>1. Sound(e) \/ Awaiting(p, e)
      BY <1>1, <2>3 DEF JobInv, MemoryInv
    <3>2. Sound(e) => Sound(e)'
      BY <1>5, Stays
    <3>3. CASE Awaiting(p, e)
      <4>1. PICK i \in 1 .. Len(j.todo) : j.todo[i].entry = e
        BY <1>1, <3>3 DEF Awaiting
      <4>. QED
        BY <1>2, <1>4, <1>6, <4>1 DEF Awaiting, Busy
    <3>. QED
      BY <3>1, <3>2, <3>3
  <2>4. Needed(job[p])' = Needed(j)
    BY <1>6 DEF Needed
  <2>. QED
    BY <1>1, <1>6, <2>1, <2>2, <2>3, <2>4 DEF JobInv, MemoryInv, Ends
<1>10. Awaited(p)' /\ j.at \notin {"success"}
  BY <1>1, <1>6 DEF Awaited
<1>. QED
  BY <1>1, <1>4, <1>5, <1>6, <1>7, <1>8, <1>9, <1>10 DEF Turn, IInv, JobInv

\* A call of the store that finds an altered part at its name fails.
LEMMA StoreMoves ==
  ASSUME StoreInv, NEW p \in Processes, StoreStep(p)
  PROVE  /\ \A q \in Processes \ {p} : work'[q] = work[q]
         /\ work'[p].entry = work[p].entry /\ work[p].at \notin AtRest /\ work'[p].at # "free"
         /\ \A change \in altered : Failing(p, change) => Failing(p, change)'
<1>1. work \in [Processes -> Works]
  BY DEF StoreInv, StoreTypeOK, Works
<1>2. ASSUME NEW change \in altered, change[1] = work[p].entry
      PROVE  /\ change = <<work[p].entry, change[2]>> /\ change[2] \in Parts /\ Published(work[p].entry)
             /\ change[2] \in {"content", "manifest"} /\ ~Genuine(work[p].entry, Parts)
             /\ change[2] # "manifest" => ~Genuine(work[p].entry, {"content"})
             /\ ~IsDirectory(work[p].entry) => change[2] = "content"
  BY <1>2, PartsOfEntries DEF StoreInv, StoreTypeOK, Genuine, Published, Parts, PartsOf
<1> USE DEF Failing, Busy
<1>3. CASE WritePart(p)
  BY <1>1, <1>3 DEF WritePart, Working, Works, AtRest, Linking
<1>4. CASE RenameDirectory(p)
  BY <1>1, <1>2, <1>4 DEF RenameDirectory, Working, Move, Works, AtRest, Linking
<1>5. CASE LinkFile(p)
  BY <1>1, <1>2, <1>5 DEF LinkFile, Working, Move, Works, AtRest, Linking
<1>6. CASE Chmod(p) \/ Unlink(p)
  BY <1>1, <1>6 DEF Chmod, Unlink, Working, Move, Works, AtRest, Linking
<1>7. CASE OpenFile(p)
  BY <1>1, <1>7 DEF OpenFile, Working, Move, Works, AtRest, Linking
<1>8. CASE CloseFile(p)
  BY <1>1, <1>2, <1>8 DEF CloseFile, Working, Move, Works, AtRest, Linking
<1>9. CASE CompareDirectory(p)
  BY <1>1, <1>2, <1>9 DEF CompareDirectory, Working, Move, Works, AtRest, Linking
<1>10. CASE VerifyDirectory(p)
  BY <1>1, <1>2, <1>10 DEF VerifyDirectory, Working, Move, Works, AtRest, Linking
<1>. QED
  BY <1>3, <1>4, <1>5, <1>6, <1>7, <1>8, <1>9, <1>10 DEF StoreStep

\* A step of the store brings what is awaited, or fails at what is altered.
LEMMA InStoreTurn ==
  ASSUME IInv, NEW p \in Processes, InStore(p)
  PROVE  Turn(p)
<1>1. StoreStep(p) /\ UNCHANGED <<index, job, calls>> /\ JobInv(p)
  BY DEF InStore, IInv
<1>2. StoreInv' /\ Keeps /\ altered' = altered
  BY <1>1, StoreStepInv DEF IInv
<1>3. /\ \A q \in Processes \ {p} : work'[q] = work[q]
      /\ work'[p].entry = work[p].entry /\ work[p].at \notin AtRest /\ work'[p].at # "free"
      /\ \A change \in altered : Failing(p, change) => Failing(p, change)'
  BY <1>1, StoreMoves DEF IInv
<1>4. job[p].at = "store"
  BY <1>1, <1>3 DEF JobInv, Awaited, Free, AtRest
<1>5. IndexOK(index)'
  BY <1>1, <1>2, Stays DEF IInv, IndexOK
<1>6. CleanInv(p)'
  BY <1>1, <1>2, <1>3 DEF JobInv, CleanInv
<1>7. MemoryInv(p)'
  <2>1. LoadedInv(job[p]) => LoadedInv(job[p])'
    BY <1>1, <1>2, Stays DEF LoadedInv
  <2>2. ASSUME job[p].then = "fetch", NEW e \in Needed(job[p])
        PROVE  Sound(e)' \/ Awaiting(p, e)'
    <3>1. Sound(e) \/ Awaiting(p, e)
      BY <1>1, <1>4, <2>2 DEF JobInv, MemoryInv
    <3>2. Sound(e) => Sound(e)'
      BY <1>2, Stays
    <3>3. work'[p].at = "done" => Sound(work[p].entry)'
      BY <1>2, <1>3 DEF StoreInv, WorkInv, Sound
    <3>. QED
      BY <1>1, <1>3, <3>1, <3>2, <3>3 DEF Awaiting, Busy
  <2>. QED
    BY <1>1, <1>4, <2>1, <2>2 DEF JobInv, MemoryInv, Ends
<1>8. Awaited(p)'
  BY <1>1, <1>4 DEF Awaited
<1>. QED
  BY <1>1, <1>2, <1>3, <1>4, <1>5, <1>6, <1>7, <1>8 DEF Turn, IInv, JobInv, Ends

\* The operation goes on once the store is through with what it asked for.
LEMMA LeaveTurn ==
  ASSUME IInv, NEW p \in Processes, Leave(p)
  PROVE  Turn(p)
<1>1. job[p].at = "store" /\ Release(p) /\ UNCHANGED <<index, calls>> /\ JobInv(p) /\ job[p] \in Jobs
  BY DEF Leave, At, IInv
<1>2. /\ StoreInv' /\ UNCHANGED <<visible, altered>>
      /\ work'[p] = Free /\ \A q \in Processes \ {p} : work'[q] = work[q]
  BY <1>1, EndOfCallInv DEF IInv
<1>3. Keeps /\ IndexOK(index)'
  BY <1>1, <1>2, Stays DEF Keeps, IInv, IndexOK
<1>4. CASE job' = [job EXCEPT ![p] = Idle]
  BY <1>1, <1>2, <1>3, <1>4, EndTurn DEF IInv
<1>5. CASE ~Busy(p) /\ job[p].todo = <<>> /\ job[p].then = "success" /\ Succeed(p)
  <2>1. job[p].used \cap job[p].base = {}
    BY <1>1, <1>5 DEF JobInv, CleanInv, Failing
  <2>. QED
    BY <1>1, <1>2, <1>3, <1>5, <2>1, EndTurn DEF IInv, Succeed
<1>6. CASE /\ ~Busy(p) /\ job[p].todo = <<>> /\ job[p].then # "success"
           /\ job' = [job EXCEPT ![p].at = job[p].then]
  <2>1. job[p].then = "fetch"
    BY <1>1, <1>6 DEF JobInv, MemoryInv
  <2>2. /\ job'[p] \in Jobs /\ job'[p].at = "fetch"
        /\ job'[p].used = job[p].used /\ job'[p].base = job[p].base
        /\ job'[p].op = job[p].op /\ job'[p].revision = job[p].revision /\ job'[p].new = job[p].new
        /\ job'[p].record = job[p].record /\ job'[p].texture = job[p].texture
    <3>1. job'[p] = [job[p] EXCEPT !.at = "fetch"]
      BY <1>6, <2>1 DEF IInv
    <3>2. job'[p] \in Jobs
      BY <1>1, <3>1 DEF Jobs, Points
    <3>. QED
      BY <1>1, <3>1, <3>2 DEF Jobs
  <2>3. job' \in [Processes -> Jobs] /\ \A q \in Processes \ {p} : job'[q] = job[q]
    BY <1>6, <2>2 DEF IInv
  <2>4. \A e \in Needed(job[p]) : Sound(e)
    BY <1>1, <1>6, <2>1 DEF JobInv, MemoryInv, Awaiting
  <2>5. MemoryInv(p)'
    <3>1. LoadedInv(job[p]) => LoadedInv(job[p])'
      BY <1>3, <2>2, Stays DEF LoadedInv
    <3>2. OriginInv(job[p]) => OriginInv(job[p])'
      BY <2>2 DEF OriginInv
    <3>3. (\A e \in Needed(job[p]) : Sound(e))'
      BY <1>3, <2>2, <2>4, Stays DEF Needed
    <3>. QED
      BY <1>1, <2>1, <2>2, <3>1, <3>2, <3>3 DEF JobInv, MemoryInv, Ends
  <2>6. CleanInv(p)' /\ Awaited(p)'
    BY <1>1, <1>2, <1>6, <2>2 DEF JobInv, CleanInv, Failing, Awaited
  <2>. QED
    BY <1>1, <1>2, <1>3, <2>2, <2>3, <2>5, <2>6 DEF Turn, IInv, JobInv
<1>. QED
  BY <1>4, <1>5, <1>6 DEF Leave, Refuse, Busy

\* What an update reads is right.
LEMMA FetchTurn ==
  ASSUME IInv, NEW p \in Processes, Fetch(p)
  PROVE  Turn(p)
<1>1. /\ job[p].at = "fetch" /\ job' = [job EXCEPT ![p].read = index, ![p].at = "save"]
      /\ UNCHANGED <<storeVars, index, calls>> /\ JobInv(p) /\ job[p] \in Jobs
  BY DEF Fetch, At, IInv
<1>2. StoreInv' /\ Keeps /\ IndexOK(index)'
  BY <1>1, StoreStays, Stays DEF IInv, IndexOK
<1>3. /\ job'[p] \in Jobs /\ job'[p].at = "save" /\ job'[p].read = index
      /\ job'[p].used = job[p].used /\ job'[p].base = job[p].base
      /\ job'[p].op = job[p].op /\ job'[p].revision = job[p].revision /\ job'[p].new = job[p].new
      /\ job'[p].record = job[p].record /\ job'[p].texture = job[p].texture
  BY <1>1 DEF IInv, Jobs, Points
<1>4. job' \in [Processes -> Jobs] /\ \A q \in Processes \ {p} : job'[q] = job[q]
  BY <1>1, <1>3 DEF IInv
<1>5. MemoryInv(p)'
  <2>1. LoadedInv(job[p]) => LoadedInv(job[p])'
    BY <1>2, <1>3, Stays DEF LoadedInv
  <2>2. OriginInv(job[p]) => OriginInv(job[p])'
    BY <1>3 DEF OriginInv
  <2>3. (\A e \in Needed(job[p]) : Sound(e)) => (\A e \in Needed(job[p]) : Sound(e))'
    BY <1>2, <1>3, Stays DEF Needed
  <2>4. job'[p].read \in Indexes /\ IndexOK(job[p].read)'
    BY <1>1, <1>2, <1>3 DEF IInv, IndexOK
  <2>. QED
    BY <1>1, <1>3, <2>1, <2>2, <2>3, <2>4 DEF JobInv, MemoryInv, Ends
<1>6. CleanInv(p)' /\ Awaited(p)'
  BY <1>1, <1>3 DEF JobInv, CleanInv, Failing, Awaited, storeVars, Busy
<1>. QED
  BY <1>1, <1>2, <1>3, <1>4, <1>5, <1>6 DEF Turn, IInv, JobInv, storeVars

\* It fails, or the process dies.
LEMMA FailTurn ==
  ASSUME IInv, NEW p \in Processes, Fail(p) \/ Die(p)
  PROVE  Turn(p)
<1>1. /\ job' = [job EXCEPT ![p] = Idle] /\ UNCHANGED <<index, calls>>
      /\ Release(p) \/ GiveUp(p)
  BY DEF Fail, Die, Refuse
<1>2. /\ StoreInv' /\ UNCHANGED <<visible, altered>>
      /\ work'[p] = Free /\ \A q \in Processes \ {p} : work'[q] = work[q]
  BY <1>1, EndOfCallInv DEF IInv
<1>3. Keeps /\ IndexOK(index)'
  BY <1>1, <1>2, Stays DEF Keeps, IInv, IndexOK
<1>. QED
  BY <1>1, <1>2, <1>3, EndTurn DEF IInv

\* Who alters an entry takes nothing from what is whole.
LEMMA AlterationInv ==
  ASSUME IInv, Alteration
  PROVE  IInv'
<1>1. StoreInv' /\ UNCHANGED <<visible, work, index, job, calls>> /\ altered \subseteq altered'
  BY TamperInv, AlterableAssumption DEF Alteration, IInv
<1>2. Keeps /\ IndexOK(index)'
  BY <1>1, Stays DEF Keeps, IInv, IndexOK
<1>3. \A q \in Processes : JobInv(q)'
  BY <1>1, <1>2, OthersStay
<1>. QED
  BY <1>1, <1>2, <1>3 DEF IInv

-----------------------------------------------------------------------------
(* What an update of the state file writes.                                 *)

\* The new head is recorded, merged with its earlier life.
HeadedBy(x, r, record) == [latest |-> r, record |-> [x.record EXCEPT ![r] = record]]

\* A right record at the head leaves the others right.
LEMMA HeadIsRight ==
  ASSUME NEW x \in Indexes, IndexOK(x), NEW r \in Revisions, NEW record \in Records, RecordOK(r, record)
  PROVE  HeadedBy(x, r, record) \in Indexes /\ IndexOK(HeadedBy(x, r, record))
<1> DEFINE y == HeadedBy(x, r, record)
<1>1. x.record \in [Revisions -> Records \cup {None}]
  BY DEF Indexes
<1>2. y.latest = r /\ y.record = [x.record EXCEPT ![r] = record]
  BY DEF HeadedBy
<1>3. y.record \in [Revisions -> Records \cup {None}] /\ y.record[r] = record
      /\ \A a \in Revisions \ {r} : y.record[a] = x.record[a]
  BY <1>1, <1>2
<1>4. y \in Indexes
  BY <1>1 DEF HeadedBy, Indexes
<1>5. IndexOK(y)
  BY <1>3 DEF IndexOK
<1>. QED
  BY <1>4, <1>5

\* A record merged with the one of its earlier life is right if what is new is.
LEMMA MergedIsRight ==
  ASSUME NEW x \in Indexes, IndexOK(x), NEW r \in Revisions,
         NEW texture \in Textures \cup {None}, NEW review \in BOOLEAN,
         Sound(Run(r)), \A a \in Ancestors(r) : Sound(Revision(a)), review => Sound(Review(r)),
         IF texture = None THEN ImportedAt(r) = {} ELSE Due(r, texture) /\ Sound(Png(texture))
  PROVE  LET m == Merged(x.record[r], texture, review)
         IN  m \in Records /\ RecordOK(r, m)
<1> DEFINE previous == x.record[r]
           m == Merged(previous, texture, review)
<1>1. /\ previous \in Records \cup {None}
      /\ previous # None => previous \in Records /\ RecordOK(r, previous)
  BY DEF Indexes, IndexOK
<1> HIDE DEF previous
<1> DEFINE merged == review \/ (previous # None /\ previous.review)
           kept == IF previous = None THEN None ELSE previous.compiled
<1>2. m = [texture |-> texture, compiled |-> kept, review |-> merged]
  BY DEF Merged
<1>3. kept \in Textures \cup {None}
  BY <1>1 DEF Records
<1>4. kept # None => Due(r, kept) /\ Sound(Compiled(r, kept))
  BY <1>1 DEF RecordOK
<1>5. merged \in BOOLEAN
  OBVIOUS
<1>6. merged => Sound(Review(r))
  BY <1>1 DEF RecordOK
<1> HIDE DEF m, merged, kept
<1>7. m \in Records
  BY <1>2, <1>3, <1>5 DEF Records
<1>8. m.texture = texture /\ m.compiled = kept /\ m.review = merged
  BY <1>2
<1>9. m.review => Sound(Review(r))
  BY <1>6, <1>8
<1>10. RecordOK(r, m)
  BY <1>4, <1>8, <1>9 DEF RecordOK
<1>. QED
  BY <1>7, <1>10 DEF previous, m

\* What an operation is about to write is right if what it has read is.
LEMMA UpdateIsRight ==
  ASSUME NEW j \in Jobs, OriginInv(j), j.op \in Updating, j.op # "upsert" => LoadedInv(j),
         \A e \in Needed(j) : Sound(e), j.read \in Indexes, IndexOK(j.read), Admits(j)
  PROVE  Update(j) \in Indexes /\ IndexOK(Update(j))
<1> DEFINE r == j.revision
           new == j.new
<1>1. r \in Revisions /\ new \in Revisions
  BY DEF OriginInv
<1>2. ASSUME NEW texture \in Textures \cup {None}, NEW review \in BOOLEAN,
             Sound(Run(new)), \A a \in Ancestors(new) : Sound(Revision(a)), review => Sound(Review(new)),
             IF texture = None THEN ImportedAt(new) = {} ELSE Due(new, texture) /\ Sound(Png(texture))
      PROVE  WithHead(j, texture, review) \in Indexes /\ IndexOK(WithHead(j, texture, review))
  <2> DEFINE m == Merged(j.read.record[new], texture, review)
  <2>1. m \in Records /\ RecordOK(new, m)
    BY <1>1, <1>2, MergedIsRight
  <2>2. WithHead(j, texture, review) = HeadedBy(j.read, new, m)
    BY DEF WithHead, HeadedBy
  <2> HIDE DEF m, new
  <2>. QED
    BY <1>1, <2>1, <2>2, HeadIsRight DEF new
<1>3. CASE j.op = "upsert"
  <2>1. PICK s \in Specs : new = <<s>>
    BY <1>3 DEF OriginInv
  <2>2. Ancestors(new) = {new} /\ ImportedAt(new) = {}
    BY <2>1, FirstRevision
  <2>3. Sound(Run(new)) /\ Sound(Revision(new))
    BY <1>3 DEF Needed
  <2>4. Update(j) = WithHead(j, None, FALSE)
    BY <1>3 DEF Update
  <2>. QED
    BY <1>2, <2>2, <2>3, <2>4
<1>4. ASSUME NEW x \in Changes, new = Append(r, x), j.op # "upsert", Sound(Revision(new))
      PROVE  Sound(Run(new)) /\ \A a \in Ancestors(new) : Sound(Revision(a))
  <2>1. Run(new) = Run(r)
    BY <1>1, <1>4, NextRevision DEF Run
  <2>2. Ancestors(new) = Ancestors(r) \cup {new}
    BY <1>1, <1>4, NextAncestors
  <2>. QED
    BY <1>4, <2>1, <2>2 DEF LoadedInv, RecordOK
<1>5. CASE j.op = "import"
  <2>1. j.texture \in Imports /\ new = Append(r, j.texture) /\ j.texture \in Textures /\ j.texture # None
    BY <1>5, NoneAssumption DEF OriginInv, Textures
  <2>2. Sound(Png(j.texture)) /\ Sound(Revision(new))
    BY <1>5 DEF Needed
  <2>3. Sound(Run(new)) /\ \A a \in Ancestors(new) : Sound(Revision(a))
    BY <1>4, <1>5, <2>1, <2>2 DEF Changes
  <2>4. Due(new, j.texture)
    BY <1>1, <2>1, ImportIsDue
  <2>5. Update(j) = WithHead(j, j.texture, FALSE)
    BY <1>5 DEF Update
  <2>. QED
    BY <1>2, <2>1, <2>2, <2>3, <2>4, <2>5
<1>6. CASE j.op = "revise"
  <2>1. PICK fix \in Repairs : new = Append(r, fix)
    BY <1>6 DEF OriginInv
  <2>2. fix \in Changes /\ fix \notin Imports
    BY NamesAssumption DEF Changes
  <2>3. Sound(Review(new)) /\ Sound(Revision(new))
    BY <1>6 DEF Needed
  <2>4. Sound(Run(new)) /\ \A a \in Ancestors(new) : Sound(Revision(a))
    BY <1>4, <1>6, <2>1, <2>2, <2>3
  <2>5. ImportedAt(new) = ImportedAt(r)
    BY <1>1, <2>1, <2>2, NextImports
  <2>6. j.record \in Records /\ RecordOK(r, j.record)
    BY <1>6 DEF LoadedInv
  <2>7. Inherited(j) \in Textures \cup {None}
    BY <2>6 DEF Inherited, Records
  <2>8. IF Inherited(j) = None THEN ImportedAt(new) = {}
        ELSE Due(new, Inherited(j)) /\ Sound(Png(Inherited(j)))
    <3>1. CASE j.record.texture = None
      BY <2>5, <2>6, <3>1 DEF Inherited, RecordOK
    <3>2. CASE new = Append(r, "colour") /\ j.record.texture \notin Imports /\ j.record.texture # None
      <4>1. Inherited(j) = None
        BY <3>2 DEF Inherited
      <4>2. Due(r, j.record.texture)
        BY <2>6, <3>2 DEF RecordOK
      <4>3. ImportedAt(r) = {}
        BY <3>2, <4>2 DEF Due, ImportedAt
      <4>. QED
        BY <2>5, <4>1, <4>3
    <3>3. CASE (new # Append(r, "colour") \/ j.record.texture \in Imports) /\ j.record.texture # None
      <4>1. Inherited(j) = j.record.texture
        BY <3>3 DEF Inherited
      <4>2. Due(r, j.record.texture) /\ Sound(Png(j.record.texture))
        BY <2>6, <3>3 DEF RecordOK
      <4>3. fix # "colour" \/ j.record.texture \in Imports
        BY <2>1, <3>3
      <4>. QED
        BY <1>1, <2>1, <3>3, <4>1, <4>2, <4>3, RepairKeepsDue
    <3>. QED
      BY <3>1, <3>2, <3>3
  <2>9. Update(j) = WithHead(j, Inherited(j), TRUE)
    BY <1>6 DEF Update
  <2>. QED
    BY <1>2, <2>3, <2>4, <2>7, <2>8, <2>9
<1>7. CASE j.op = "compile"
  <2> DEFINE old == j.read.record[r]
             t == j.texture
             record == [old EXCEPT !.texture = t, !.compiled = t]
  <2>1. old \in Records /\ RecordOK(r, old)
    BY <1>1, <1>7 DEF Admits, StillRecorded, Indexes, IndexOK
  <2>2. Due(r, t) /\ t \in Textures
    BY <1>1, <1>7, CompilesDue, DueIsUsable DEF LoadedInv
  <2>3. Sound(Png(t)) /\ Sound(Compiled(r, t))
    BY <1>7 DEF Needed
  <2>4. record \in Records /\ record.texture = t /\ record.compiled = t /\ record.review = old.review
    BY <2>1, <2>2 DEF Records
  <2>5. RecordOK(r, record)
    BY <2>1, <2>2, <2>3, <2>4, NoneAssumption DEF RecordOK
  <2>6. Update(j) = [j.read EXCEPT !.record[r] = record]
    BY <1>7 DEF Update
  <2>7. /\ Update(j).record = [j.read.record EXCEPT ![r] = record]
        /\ Update(j) \in Indexes
    <3> HIDE DEF record, r
    <3>. QED
      BY <1>1, <2>4, <2>6 DEF Indexes
  <2>. QED
    BY <1>1, <2>4, <2>5, <2>7 DEF Indexes, IndexOK
<1>. QED
  BY <1>3, <1>5, <1>6, <1>7 DEF Updating

\* What an update writes is right, however old what it has read is.
LEMMA SaveTurn ==
  ASSUME IInv, NEW p \in Processes, Save(p)
  PROVE  Turn(p)
<1> DEFINE j == job[p]
<1>1. /\ j.at = "save" /\ UNCHANGED <<storeVars, calls>> /\ JobInv(p) /\ j \in Jobs
      /\ work[p] = Free /\ work' = work
  BY OutOfStore DEF Save, At, IInv, storeVars
<1>2. StoreInv' /\ Keeps
  BY <1>1, StoreStays DEF IInv
<1>3. j.used \cap j.base = {}
  BY <1>1 DEF JobInv, CleanInv, Failing, Busy, Free
<1>4. CASE job' = [job EXCEPT ![p] = Idle] /\ UNCHANGED index
  <2>1. IndexOK(index)'
    BY <1>2, <1>4, Stays DEF IInv, IndexOK
  <2>. QED
    BY <1>1, <1>2, <1>4, <2>1, EndTurn DEF IInv, storeVars
<1>5. CASE Admits(j) /\ index' = Update(j)
  <2>1. /\ OriginInv(j) /\ j.op \in Updating /\ j.read \in Indexes /\ IndexOK(j.read)
        /\ j.op # "upsert" => LoadedInv(j)
        /\ \A e \in Needed(j) : Sound(e)
    BY <1>1 DEF JobInv, MemoryInv, Ends
  <2>2. Update(j) \in Indexes /\ IndexOK(Update(j))
    BY <1>1, <1>5, <2>1, UpdateIsRight
  <2>3. index' \in Indexes /\ IndexOK(index)'
    BY <1>2, <1>5, <2>2, Stays DEF IndexOK
  <2>4. CASE Succeed(p)
    BY <1>1, <1>2, <1>3, <2>3, <2>4, EndTurn DEF IInv, storeVars, Succeed
  <2>5. CASE /\ j.op = "import"
             /\ job' = [job EXCEPT ![p] = [j EXCEPT !.at = "store", !.then = "success", !.read = None,
                                                   !.todo = <<ReadOf(Png(j.texture))>>]]
    <3>1. ReadOf(Png(j.texture)) \in Tasks
      BY <2>1, <2>5, EntriesOf DEF OriginInv, UsableBy, ReadOf, Tasks
    <3>2. <<ReadOf(Png(j.texture))>> \in Seq(Tasks)
      BY <3>1
    <3>3. /\ job'[p] \in Jobs /\ job'[p].at = "store" /\ job'[p].then = "success"
          /\ job'[p].used = j.used /\ job'[p].base = j.base
          /\ job'[p].op = j.op /\ job'[p].revision = j.revision /\ job'[p].new = j.new
          /\ job'[p].record = j.record /\ job'[p].texture = j.texture
      <4>1. job'[p] = [j EXCEPT !.at = "store", !.then = "success", !.read = None,
                                !.todo = <<ReadOf(Png(j.texture))>>]
        BY <2>5 DEF IInv
      <4>2. job'[p] \in Jobs
        BY <1>1, <3>2, <4>1 DEF Jobs, Points
      <4>. QED
        BY <1>1, <4>1, <4>2 DEF Jobs
    <3>4. job' \in [Processes -> Jobs] /\ \A q \in Processes \ {p} : job'[q] = job[q]
      BY <2>5, <3>3 DEF IInv
    <3>5. MemoryInv(p)'
      <4>1. LoadedInv(j) => LoadedInv(job[p])'
        BY <1>2, <3>3, Stays DEF LoadedInv
      <4>2. OriginInv(job[p])'
        BY <2>1, <3>3 DEF OriginInv
      <4>. QED
        BY <2>1, <3>3, <4>1, <4>2 DEF MemoryInv, Ends
    <3>6. CleanInv(p)' /\ Awaited(p)'
      BY <1>1, <1>3, <3>3 DEF JobInv, CleanInv, Awaited, storeVars
    <3>. QED
      BY <1>1, <1>2, <2>3, <3>3, <3>4, <3>5, <3>6 DEF Turn, IInv, JobInv, storeVars
  <2>. QED
    BY <1>5, <2>4, <2>5 DEF Save
<1>. QED
  BY <1>4, <1>5 DEF Save, Refuse

-----------------------------------------------------------------------------
\* The first state satisfies the invariant.
LEMMA InitInv == Init => IInv
<1> SUFFICES ASSUME Init PROVE IInv
  OBVIOUS
<1>1. StoreInv
  BY StoreInitInv DEF Init
<1>2. index \in Indexes /\ IndexOK(index)
  BY DEF Init, Indexes, IndexOK
<1>3. job \in [Processes -> Jobs] /\ \A p \in Processes : JobInv(p)
  BY IdleJob DEF Init, JobInv, MemoryInv, CleanInv, Awaited, Ends, StoreInit
<1>. QED
  BY <1>1, <1>2, <1>3 DEF Init, IInv

\* Every step that is not an alteration is a turn of one process.
LEMMA StepTurn ==
  ASSUME IInv, Next
  PROVE  Alteration \/ \E p \in Processes : Turn(p)
<1>1. ASSUME NEW p \in Processes, NEW op \in May[p], Begin(p, op) PROVE Turn(p)
  BY <1>1, BeginTurn
<1>2. ASSUME NEW p \in Processes,
             Load(p) \/ Enter(p) \/ InStore(p) \/ Leave(p) \/ Fetch(p) \/ Save(p) \/ Fail(p) \/ Die(p)
      PROVE  Turn(p)
  BY <1>2, LoadTurn, EnterTurn, InStoreTurn, LeaveTurn, FetchTurn, SaveTurn, FailTurn
<1>. QED
  BY <1>1, <1>2 DEF Next

\* A step that changes nothing keeps it.
LEMMA StutterInv ==
  ASSUME IInv, UNCHANGED vars
  PROVE  IInv'
<1>1. UNCHANGED <<storeVars, index, job, calls>> /\ UNCHANGED <<visible, stamp, altered, work>>
  BY DEF vars, storeVars
<1>2. StoreInv' /\ Keeps /\ IndexOK(index)'
  BY <1>1, StoreStays, Stays DEF IInv, IndexOK
<1>3. \A q \in Processes : JobInv(q)'
  BY <1>1, <1>2, OthersStay
<1>. QED
  BY <1>1, <1>2, <1>3 DEF IInv

\* The invariant holds in every state, whatever the operations, failures,
\* deaths and alterations.
THEOREM Invariance == Spec => []IInv
<1>1. Init => IInv
  BY InitInv
<1>2. IInv /\ [Next]_vars => IInv'
  BY StepTurn, TurnInv, AlterationInv, StutterInv
<1>. QED
  BY <1>1, <1>2, PTL DEF Spec

\* Every variable has its type, and no call of the store outlives its operation.
THEOREM TypeCorrect == Spec => []TypeOK
<1>1. IInv => TypeOK
  BY DEF IInv, TypeOK, StoreInv, JobInv, Jobs
<1>. QED
  BY <1>1, Invariance, PTL

\* The state file names only revisions that are whole in the store, with all
\* their ancestors and artifacts, whatever fails, dies or overwrites it.
THEOREM IndexedIsWhole == Spec => []IndexedIsPublished
<1>1. ASSUME IInv PROVE IndexedIsPublished
  <2>1. ASSUME NEW r \in Indexed, NEW e \in Relied(r) PROVE Sound(e)
    <3>1. r \in Revisions /\ RecordOK(r, index.record[r])
      BY <1>1, <2>1 DEF IInv, Indexed, Indexes, IndexOK
    <3>. QED
      BY <2>1, <3>1 DEF Relied, RecordOK
  <2>. QED
    BY <2>1 DEF IndexedIsPublished, Sound
<1>. QED
  BY <1>1, Invariance, PTL

\* A revision has the texture that is due to it, and so does its artifact,
\* through inheritance, repairs, rebuilt revisions and lost updates.
THEOREM TexturesCurrent == Spec => []TexturesAreCurrent
<1>1. ASSUME IInv PROVE TexturesAreCurrent
  <2>1. ASSUME NEW r \in Indexed PROVE RecordOK(r, index.record[r])
    BY <1>1, <2>1 DEF IInv, Indexed, Indexes, IndexOK
  <2>. QED
    BY <2>1 DEF TexturesAreCurrent, RecordOK
<1>. QED
  BY <1>1, Invariance, PTL

\* An operation that succeeds has read no entry of which a part was altered before it
\* began, and put none whose content was.
THEOREM SuccessUsesNothingAltered == Spec => NothingFromAltered
<1> DEFINE Clean(p) == job[p].at \notin Ends /\ job'[p].at = "success" => job[p].used \cap job[p].base = {}
<1>1. ASSUME IInv, [Next]_vars PROVE [\A p \in Processes : Clean(p)]_vars
  <2>1. CASE UNCHANGED vars
    BY <2>1
  <2>2. CASE Alteration
    BY <2>2 DEF Alteration, Ends
  <2>3. ASSUME NEW q \in Processes, Turn(q) PROVE \A p \in Processes : Clean(p)
    BY <2>3 DEF Turn, Ends
  <2>. QED
    BY <1>1, <2>1, <2>2, <2>3, StepTurn
<1>. QED
  BY <1>1, Invariance, PTL DEF Spec, NothingFromAltered

-----------------------------------------------------------------------------
(* The store implements ImmutableStore.                                     *)

\* Whatever is there is whole.
LEMMA PresentIsWhole ==
  ASSUME StoreInv
  PROVE  /\ Present = {e \in Entries : visible[e] # {}}
         /\ Whole = Present /\ \A e \in Present : Sound(e)
BY DEF StoreInv, StoreTypeOK, Present, Whole, Published, Sound

\* A step of the store touches one name at most.
LEMMA OneName ==
  ASSUME StoreInv, NEW p \in Processes, StoreStep(p)
  PROVE  \E e \in Entries : \A f \in Entries \ {e} : visible'[f] = visible[f]
<1>1. /\ visible \in [Entries -> SUBSET Parts] /\ WorkInv(p)
      /\ work[p].at # "free" => work[p].entry \in Entries
  BY DEF StoreInv, StoreTypeOK, WorkInv
<1>2. work[p].at \notin AtRest
  BY StoreMoves
<1>3. \A f \in Entries \ {work[p].entry} : visible'[f] = visible[f]
  BY <1>1 DEF StoreStep, WritePart, RenameDirectory, LinkFile, Chmod, Unlink, OpenFile, CloseFile, CompareDirectory, VerifyDirectory
<1>. QED
  BY <1>1, <1>2, <1>3 DEF AtRest

\* A turn in which one name at most has got its entry publishes it, or nothing.
LEMMA TurnPublishes ==
  ASSUME StoreInv, StoreInv', Keeps, altered' = altered, NEW e \in Entries,
         \A f \in Entries \ {e} : visible'[f] = visible[f]
  PROVE  [Readers!Next]_<<Present, Whole, Changed>>
<1>1. /\ Present = {f \in Entries : visible[f] # {}} /\ Whole = Present
      /\ Present' = {f \in Entries : visible'[f] # {}} /\ Whole' = Present'
  BY PresentIsWhole DEF StoreInv, StoreTypeOK, Present, Whole, Published
<1>2. CASE visible'[e] = visible[e]
  <2>1. Present' = Present /\ Changed' = Changed
    BY <1>1, <1>2 DEF Changed
  <2>. QED
    BY <1>1, <2>1
<1>3. CASE visible[e] = {} /\ Sound(e)'
  <2>1. visible'[e] # {}
    BY <1>3, PartsOfEntries DEF Sound
  <2>2. Present' = Present \cup {e} /\ e \in Present' \ Present
    BY <1>1, <1>3, <2>1
  <2>3. Changed' = Changed
    BY DEF Changed
  <2>. QED
    BY <1>1, <2>2, <2>3 DEF Readers!Next, Readers!Publish
<1>. QED
  BY <1>2, <1>3 DEF Keeps

\* Every step of the operations publishes one entry, alters one, or is not seen.
LEMMA StepPublishes ==
  ASSUME IInv, IInv', [Next]_vars
  PROVE  [Readers!Next]_<<Present, Whole, Changed>>
<1>1. CASE UNCHANGED <<visible, altered>>
  BY <1>1 DEF Present, Whole, Published, Changed
<1>2. CASE Alteration
  <2>1. PICK e \in Alterable : Tamper(e)
    BY <1>2 DEF Alteration
  <2>2. e \in Present /\ Changed' = Changed \cup {e} /\ UNCHANGED visible
    <3>1. PICK part \in visible[e] : altered' = altered \cup {<<e, part>>}
      BY <2>1 DEF Tamper
    <3>2. Changed' = Changed \cup {e}
      <4>1. \A x : x \in Changed <=> \E change \in altered : x = change[1]
        BY DEF Changed
      <4>2. \A x : x \in Changed' <=> \E change \in altered' : x = change[1]
        BY DEF Changed
      <4>3. <<e, part>>[1] = e
        OBVIOUS
      <4>. QED
        BY <3>1, <4>1, <4>2, <4>3
    <3>. QED
      BY <2>1, <3>1, <3>2, AlterableAssumption, PresentIsWhole DEF Tamper, IInv
  <2>3. UNCHANGED <<Present, Whole>>
    BY <2>2 DEF Present, Whole, Published
  <2>4. CASE e \in Changed
    BY <2>2, <2>3, <2>4
  <2>5. CASE e \notin Changed
    BY <2>2, <2>3, <2>5 DEF Readers!Next, Readers!Alter
  <2>. QED
    BY <2>4, <2>5
<1>3. ASSUME NEW p \in Processes, InStore(p) PROVE [Readers!Next]_<<Present, Whole, Changed>>
  <2>1. StoreStep(p)
    BY <1>3 DEF InStore
  <2>2. Keeps /\ altered' = altered
    BY <2>1, StoreStepInv DEF IInv
  <2>. QED
    BY <2>1, <2>2, OneName, TurnPublishes DEF IInv
<1>4. ASSUME NEW p \in Processes,
             \/ \E op \in May[p] : Begin(p, op)
             \/ Load(p) \/ Enter(p) \/ Leave(p) \/ Fetch(p) \/ Save(p) \/ Fail(p) \/ Die(p)
      PROVE  UNCHANGED <<visible, altered>>
  <2>1. ASSUME NEW op \in May[p], Begin(p, op) PROVE UNCHANGED <<visible, altered>>
    BY <2>1 DEF Begin, Upsert, Import, Revise, OnRevision, Start, storeVars
  <2>2. CASE Load(p) \/ Fetch(p) \/ Save(p)
    BY <2>2 DEF Load, Fetch, Save, storeVars
  <2>3. CASE Enter(p) \/ Leave(p) \/ Fail(p) \/ Die(p)
    BY <2>3 DEF Enter, Leave, Fail, Die, Release, GiveUp
  <2>. QED
    BY <1>4, <2>1, <2>2, <2>3
<1>5. CASE UNCHANGED vars
  BY <1>1, <1>5 DEF vars, storeVars
<1>. QED
  BY <1>1, <1>2, <1>3, <1>4, <1>5 DEF Next

\* Whatever two writers of one content do, and however they fail or die, a name
\* in the cache directory has nothing or the whole entry, once and for all.
THEOREM StoreIsImmutable == Spec => Publishes
<1>1. Init => Readers!Init
  BY DEF Init, StoreInit, Readers!Init, Present, Whole, Published, Changed
<1>2. IInv /\ IInv' /\ [Next]_vars => [Readers!Next]_<<Present, Whole, Changed>>
  BY StepPublishes
<1>. QED
  BY <1>1, <1>2, Invariance, PTL DEF Spec, Publishes, Readers!Spec
=============================================================================
