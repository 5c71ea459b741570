------------------------- MODULE RuntimeCacheProofs -------------------------
(* What RuntimeCache guarantees for any setups and readers, any platforms   *)
(* and libraries, and any interleaving, failure or change of a file: what   *)
(* the record says was prepared, and no remembered verdict is wrong.        *)
EXTENDS RuntimeCache, SequenceTheorems, TLAPS

-----------------------------------------------------------------------------
(* The inductive invariant.                                                 *)

SetupLevels == {"server", "assets", "capture"}
Points == {"idle", "look", "open", "close", "remove", "recheck", "fetch", "plan", "pool",
           "preflight", "stage", "commands", "registries", "write", "status", "success"}

Identities == [inode : Nat, version : Nat]
Cached == [there : BOOLEAN, inode : Nat, version : Nat, pinned : BOOLEAN]
Verdicts == [key : Identities, valid : BOOLEAN]
Jobs == [level : SetupLevels \cup {None}, at : Points, checks : BOOLEAN, todo : Seq(Files),
         ok : BOOLEAN, info : Identities, before : Identities, seen : BOOLEAN,
         found : SUBSET Parts, kept : SUBSET Parts, wanted : SUBSET Objects,
         running : SUBSET Objects, taken : SUBSET Objects, failure : BOOLEAN]

TypeInv ==
  /\ file \in [Files -> Cached] /\ \A f \in Files : file[f].inode <= file[f].version
  /\ record \in {None} \cup SUBSET Parts /\ manifest \in {None} \cup SUBSET Objects
  /\ reports \subseteq Reports /\ touched \subseteq Files
  /\ verdict \in [Readers -> [Jars -> Verdicts \cup {None}]]
  /\ job \in [Processes -> Jobs] /\ runs \in [Processes -> Nat]
  /\ edits \in Nat /\ disturbed \in [Setups -> BOOLEAN]

\* A file in place is the pinned one, or someone has touched it.
FilesInv == \A f \in Files : file[f].there => file[f].pinned \/ f \in touched

\* id is an identity that f has had, and valid what was true of f then.
Had(id, f) ==
  id.version <= file[f].version /\ (id.version = file[f].version => id.inode = file[f].inode)
Told(id, valid, f) ==
  /\ Had(id, f)
  /\ id.version = file[f].version /\ file[f].there => (valid <=> file[f].pinned)

VerdictInv ==
  \A p \in Readers, f \in Jars :
    verdict[p][f] # None => Told(verdict[p][f].key, verdict[p][f].valid, f)

\* What a process knows of the file it looks at.
HashInv(j) ==
  LET f == Head(j.todo)
  IN  /\ j.at \in {"open", "close", "remove", "recheck", "fetch"} => j.todo # <<>>
      /\ j.at \in {"open", "close", "remove", "recheck"} => f \in Jars
      /\ j.at = "open" => Had(j.info, f)
      /\ j.at = "close" => /\ Had(j.info, f) /\ j.info.version <= j.before.version
                           /\ Told(j.before, j.seen, f)

\* The last look of a setup, and what comes after the manifest.
Checking(j) == j.checks \/ j.at \in {"status", "success"}
Staged(j) == j.at \in {"commands", "registries", "write"} \/ Checking(j)

RoleInv(p, j) ==
  /\ j.running # {} => j.at = "pool"
  /\ p \in Readers => j.at \in {"idle", "look", "open", "close"} /\ (j.at # "idle" => j.checks)
  /\ p \in Setups =>
       /\ j.at # "idle" => j.level \in SetupLevels
       /\ j.checks => /\ j.at \in {"look", "open", "close"} /\ j.level # "server"
                      /\ j.todo \in {<<"client">>, <<>>}
       /\ j.at = "status" => j.level # "server"
       /\ j.at \in {"plan", "pool", "preflight"} => j.level = "capture"
       /\ j.at \in {"pool", "preflight"} => j.wanted = Artifacts(PlatformOf[p])
       /\ j.at = "preflight" => j.taken \subseteq j.wanted

\* What setups have prepared stays.
PreparedInv(j) ==
  /\ j.at = "registries" => "commands" \in reports
  /\ j.at = "write" => reports = Reports
  /\ j.level = "capture" /\ (j.at = "stage" \/ Staged(j)) => manifest # None
  /\ "capture" \in j.kept => manifest # None

RecordInv ==
  record # None => reports = Reports /\ ("capture" \in record => manifest # None)

\* What a setup has done is there as long as nobody disturbs it.
DoneInv(p, j) ==
  ~disturbed[p] /\ j.at # "idle" =>
    /\ IF Checking(j) THEN record = Prepares(j.level) \cup j.found
       ELSE Recorded = j.found /\ j.kept = j.found \ Prepares(j.level)
    /\ Staged(j) => Verifies("server")
    /\ j.level = "capture" /\ (j.at = "stage" \/ Staged(j)) =>
         manifest = Artifacts(PlatformOf[p]) /\ \A o \in Artifacts(PlatformOf[p]) : Verifies(o)
    /\ j.at = "preflight" => \A o \in j.taken : Verifies(o)
    /\ j.checks /\ j.ok /\ j.todo = <<>> => Verifies("client")
    /\ j.at = "success" /\ j.level # "server" => Verifies("client")

JobInv(p, j) ==
  /\ HashInv(j) /\ RoleInv(p, j)
  /\ p \in Setups => PreparedInv(j) /\ DoneInv(p, j)

IInv ==
  /\ TypeInv /\ FilesInv /\ VerdictInv /\ RecordInv
  /\ \A p \in Processes : JobInv(p, job[p])

-----------------------------------------------------------------------------
(* What every step leaves.                                                  *)

\* A file changes its version, is removed, or stays as it is.
Moves(f) ==
  \/ file'[f] = file[f]
  \/ /\ ~file'[f].there
     /\ file'[f].version = file[f].version /\ file'[f].inode = file[f].inode
  \/ file'[f].version > file[f].version

\* What was learnt of a file is not made wrong by what happens to it later.
LEMMA ToldStays ==
  ASSUME TypeInv, TypeInv', NEW f \in Files, Moves(f)
  PROVE  /\ \A id \in Identities : Had(id, f) => Had(id, f)'
         /\ \A id \in Identities : \A valid : Told(id, valid, f) => Told(id, valid, f)'
<1>1. /\ file[f] \in Cached /\ file'[f] \in Cached
      /\ file[f].version \in Nat /\ file'[f].version \in Nat
  BY DEF TypeInv, Cached
<1>2. ASSUME NEW id \in Identities PROVE Had(id, f) => Had(id, f)'
  BY <1>1 DEF Identities, Had, Moves
<1>3. ASSUME NEW id \in Identities, NEW valid, Told(id, valid, f) PROVE Told(id, valid, f)'
  <2>1. Had(id, f)'
    BY <1>2, <1>3 DEF Told
  <2>2. ASSUME id.version = file'[f].version, file'[f].there
        PROVE  file'[f] = file[f] /\ file[f].there /\ id.version = file[f].version
    BY <1>1, <1>3, <2>2 DEF Moves, Told, Had, Identities
  <2>3. id.version = file'[f].version /\ file'[f].there => (valid <=> file'[f].pinned)
    BY <1>3, <2>2 DEF Told
  <2>. QED
    BY <2>1, <2>3 DEF Told
<1>. QED
  BY <1>2, <1>3

\* A setup that is not disturbed keeps what it relies on.
Gentle(p) ==
  ~disturbed'[p] =>
    /\ ~disturbed[p] /\ record' = record
    /\ job[p].level = "capture" => manifest' = manifest
    /\ \A f \in Files : Verifies(f) => Verifies(f)'

\* p takes a step; the calls of the others stay.
Step(p) ==
  /\ TypeInv' /\ FilesInv' /\ VerdictInv' /\ RecordInv'
  /\ \A f \in Files : Moves(f)
  /\ reports \subseteq reports' /\ (manifest # None => manifest' # None)
  /\ \A q \in Processes \ {p} : job'[q] = job[q]
  /\ \A q \in Setups \ {p} : Gentle(q)
  /\ JobInv(p, job[p])'

\* The JARs, the metadata and the artifacts of every platform are files of the cache.
LEMMA FilesOfRuntime ==
  /\ Jars \subseteq Files /\ "metadata" \in Files
  /\ \A p \in Setups : Artifacts(PlatformOf[p]) \subseteq Objects
  /\ Objects \subseteq Files
BY DEF Files, Jars, Objects

\* The calls of the others lose nothing by it.
LEMMA OthersStay ==
  ASSUME IInv, TypeInv', \A f \in Files : Moves(f), reports \subseteq reports', reports' \subseteq Reports,
         manifest # None => manifest' # None,
         NEW q \in Processes, job'[q] = job[q], q \in Setups => Gentle(q)
  PROVE  JobInv(q, job[q])'
<1> DEFINE j == job[q]
<1>1. j \in Jobs /\ JobInv(q, j) /\ TypeInv
  BY DEF IInv, TypeInv
<1>2. HashInv(j)'
  <2>1. CASE j.at \in {"open", "close"}
    <3>1. Head(j.todo) \in Jars /\ Head(j.todo) \in Files /\ HashInv(j)
      BY <1>1, <2>1, FilesOfRuntime DEF JobInv, HashInv
    <3>2. j.info \in Identities /\ j.before \in Identities
      BY <1>1 DEF Jobs
    <3>3. /\ Had(j.info, Head(j.todo)) => Had(j.info, Head(j.todo))'
          /\ Told(j.before, j.seen, Head(j.todo)) => Told(j.before, j.seen, Head(j.todo))'
      BY <1>1, <3>1, <3>2, ToldStays DEF Had, Told
    <3>. QED
      BY <2>1, <3>1, <3>3 DEF HashInv
  <2>2. CASE j.at \notin {"open", "close"}
    BY <1>1, <2>2 DEF JobInv, HashInv
  <2>. QED
    BY <2>1, <2>2
<1>3. RoleInv(q, j)'
  BY <1>1 DEF JobInv, RoleInv, Checking, Staged
<1>4. ASSUME q \in Setups PROVE PreparedInv(j)'
  BY <1>1, <1>4 DEF JobInv, PreparedInv, Staged, Checking
<1>5. ASSUME q \in Setups PROVE DoneInv(q, j)'
  <2>1. CASE disturbed'[q] \/ j.at = "idle"
    BY <2>1 DEF DoneInv
  <2>2. CASE ~disturbed'[q] /\ j.at # "idle"
    <3>1. DoneInv(q, j) /\ Gentle(q)
      BY <1>1, <1>5 DEF JobInv
    <3>2. ~disturbed[q] /\ record' = record /\ Recorded' = Recorded
      BY <2>2, <3>1 DEF Gentle, Recorded
    <3>3. \A f \in Files : Verifies(f) => Verifies(f)'
      BY <2>2, <3>1 DEF Gentle
    <3>4. j.level = "capture" => manifest' = manifest
      BY <2>2, <3>1 DEF Gentle
    <3>5. "server" \in Files /\ "client" \in Files /\ Artifacts(PlatformOf[q]) \subseteq Files /\ j.taken \subseteq Files
      BY <1>1, <1>5, FilesOfRuntime DEF Jars, Jobs
    <3>. QED
      BY <2>2, <3>1, <3>2, <3>3, <3>4, <3>5 DEF DoneInv, Staged, Checking
  <2>. QED
    BY <2>1, <2>2
<1>. QED
  BY <1>2, <1>3, <1>4, <1>5 DEF JobInv

\* So a step of a process preserves the invariant.
LEMMA StepInv ==
  ASSUME IInv, NEW p \in Processes, Step(p)
  PROVE  IInv'
<1>1. ASSUME NEW q \in Processes PROVE JobInv(q, job[q])'
  <2>1. CASE q = p
    BY <2>1 DEF Step
  <2>2. CASE q # p
    BY <2>2, OthersStay DEF Step, TypeInv
  <2>. QED
    BY <2>1, <2>2
<1>. QED
  BY <1>1 DEF IInv, Step

-----------------------------------------------------------------------------
(* Steps that change the call only.                                         *)

\* p goes on with j, and no file, record, manifest or report changes.
LEMMA CallStep ==
  ASSUME IInv, NEW p \in Processes, NEW j \in Jobs, Change(p, j),
         UNCHANGED <<cache, edits, touched>>, runs' \in [Processes -> Nat],
         verdict' \in [Readers -> [Jars -> Verdicts \cup {None}]], VerdictInv',
         disturbed' \in [Setups -> BOOLEAN],
         \A q \in Setups \ {p} : disturbed'[q] = disturbed[q],
         HashInv(j), RoleInv(p, j), p \in Setups => PreparedInv(j) /\ DoneInv(p, job[p])'
  PROVE  Step(p)
<1>1. UNCHANGED <<file, record, manifest, reports, edits, touched>>
  BY DEF cache
<1>2. job' \in [Processes -> Jobs] /\ job'[p] = j /\ \A q \in Processes \ {p} : job'[q] = job[q]
  BY DEF Change, IInv, TypeInv
<1>3. TypeInv' /\ FilesInv' /\ RecordInv'
  BY <1>1, <1>2 DEF IInv, TypeInv, FilesInv, RecordInv
<1>5. JobInv(p, job[p])'
  <2>1. HashInv(j) => HashInv(job[p])'
    BY <1>1, <1>2 DEF HashInv, Told, Had
  <2>2. RoleInv(p, j) => RoleInv(p, job[p])'
    BY <1>2 DEF RoleInv
  <2>3. PreparedInv(j) => PreparedInv(job[p])'
    BY <1>1, <1>2 DEF PreparedInv, Staged, Checking
  <2>. QED
    BY <2>1, <2>2, <2>3 DEF JobInv
<1>6. \A f \in Files : Moves(f)
  BY <1>1 DEF Moves
<1>7. \A q \in Setups \ {p} : Gentle(q)
  BY <1>1 DEF Gentle, Verifies
<1>. QED
  BY <1>1, <1>2, <1>3, <1>5, <1>6, <1>7 DEF Step

\* p goes on with j, and nothing else changes.
LEMMA QuietStep ==
  ASSUME IInv, NEW p \in Processes, NEW j \in Jobs, Change(p, j), JobInv(p, j),
         UNCHANGED <<cache, verdict, runs, edits, touched, disturbed>>
  PROVE  Step(p)
<1>1. UNCHANGED <<file, record, manifest, reports, verdict, runs, edits, touched, disturbed>>
  BY DEF cache
<1>2. job'[p] = j
  BY DEF Change, IInv, TypeInv
<1>3. VerdictInv'
  BY <1>1 DEF IInv, VerdictInv, Told, Had
<1>4. p \in Setups => DoneInv(p, job[p])'
  BY <1>1, <1>2 DEF JobInv, DoneInv, Staged, Checking, Recorded, Verifies
<1>5. /\ runs' \in [Processes -> Nat] /\ disturbed' \in [Setups -> BOOLEAN]
      /\ verdict' \in [Readers -> [Jars -> Verdicts \cup {None}]]
      /\ \A q \in Setups \ {p} : disturbed'[q] = disturbed[q]
  BY <1>1 DEF IInv, TypeInv
<1>6. HashInv(j) /\ RoleInv(p, j) /\ (p \in Setups => PreparedInv(j))
  BY DEF JobInv
<1>. QED
  BY <1>3, <1>4, <1>5, <1>6, CallStep

\* A process without a call.
LEMMA IdleJob ==
  /\ Idle \in Jobs /\ Idle.at = "idle" /\ Idle.level = None /\ ~Idle.checks
  /\ Idle.kept = {} /\ Idle.running = {}
  /\ \A p \in Processes : JobInv(p, Idle)
<1>1. /\ Idle.at = "idle" /\ Idle.level = None /\ Idle.checks = FALSE /\ Idle.kept = {}
      /\ Idle.running = {}
  BY DEF Idle
<1>2. Identity(Absent) \in Identities
  BY DEF Identity, Absent, Identities
<1>3. <<>> \in Seq(Files)
  BY EmptySeq
<1>4. Idle \in Jobs
  BY <1>2, <1>3 DEF Idle, Jobs, Points
<1>5. ASSUME NEW p \in Processes PROVE JobInv(p, Idle)
  BY <1>1 DEF JobInv, HashInv, RoleInv, PreparedInv, DoneInv, Staged, Checking
<1>. QED
  BY <1>1, <1>4, <1>5

\* A call ends without success.
LEMMA IdleStep ==
  ASSUME IInv, NEW p \in Processes, Change(p, Idle),
         UNCHANGED <<cache, verdict, runs, edits, touched, disturbed>>
  PROVE  Step(p)
BY IdleJob, QuietStep

\* A call fails, is aborted, or dies with its process.
LEMMA StopStep ==
  ASSUME IInv, NEW p \in Processes, Stop(p)
  PROVE  Step(p)
BY IdleStep DEF Stop

\* A setup that has all it was asked for.
LEMMA SucceededJob ==
  ASSUME NEW j \in Jobs
  PROVE  /\ Succeeded(j) \in Jobs /\ Succeeded(j).at = "success" /\ Succeeded(j).level = j.level
         /\ Succeeded(j).found = j.found /\ ~Succeeded(j).checks /\ Succeeded(j).kept = {}
         /\ Succeeded(j).running = {}
BY IdleJob DEF Succeeded, Jobs, Points

\* The call j that goes on at another point, with this file or with the next.
PutAt(j, at) == [j EXCEPT !.at = at]
Passed(j) == [j EXCEPT !.at = "look", !.todo = Tail(@)]

\* A call that goes on elsewhere has the same in every other field.
LEMMA AtJob ==
  ASSUME NEW j \in Jobs, NEW at \in Points
  PROVE  /\ PutAt(j, at) \in Jobs /\ PutAt(j, at).at = at /\ PutAt(j, at).level = j.level
         /\ PutAt(j, at).checks = j.checks /\ PutAt(j, at).todo = j.todo /\ PutAt(j, at).ok = j.ok
         /\ PutAt(j, at).info = j.info /\ PutAt(j, at).before = j.before /\ PutAt(j, at).seen = j.seen
         /\ PutAt(j, at).found = j.found /\ PutAt(j, at).kept = j.kept /\ PutAt(j, at).wanted = j.wanted
         /\ PutAt(j, at).running = j.running /\ PutAt(j, at).taken = j.taken
<1>1. PutAt(j, at) \in Jobs
  BY DEF Jobs, PutAt
<1>2. /\ PutAt(j, at).at = at /\ PutAt(j, at).level = j.level
      /\ PutAt(j, at).checks = j.checks /\ PutAt(j, at).todo = j.todo /\ PutAt(j, at).ok = j.ok
  BY DEF Jobs, PutAt
<1>3. /\ PutAt(j, at).info = j.info /\ PutAt(j, at).before = j.before /\ PutAt(j, at).seen = j.seen
      /\ PutAt(j, at).found = j.found /\ PutAt(j, at).kept = j.kept
  BY DEF Jobs, PutAt
<1>4. /\ PutAt(j, at).wanted = j.wanted /\ PutAt(j, at).running = j.running
      /\ PutAt(j, at).taken = j.taken
  BY DEF Jobs, PutAt
<1>. QED
  BY <1>1, <1>2, <1>3, <1>4

\* A call that goes on with the next file has one file fewer to look at.
LEMMA PassedJob ==
  ASSUME NEW j \in Jobs, j.todo # <<>>
  PROVE  /\ Passed(j) \in Jobs /\ Passed(j).at = "look" /\ Passed(j).level = j.level
         /\ Passed(j).checks = j.checks /\ Passed(j).todo = Tail(j.todo) /\ Passed(j).ok = j.ok
         /\ Passed(j).found = j.found /\ Passed(j).kept = j.kept /\ Passed(j).running = j.running
<1>1. Tail(j.todo) \in Seq(Files) /\ "look" \in Points
  <2>1. j.todo \in Seq(Files)
    BY DEF Jobs
  <2>. QED
    BY <2>1, HeadTailProperties DEF Points
<1>2. Passed(j) \in Jobs
  BY <1>1 DEF Jobs, Passed
<1>3. /\ Passed(j).at = "look" /\ Passed(j).level = j.level
      /\ Passed(j).checks = j.checks /\ Passed(j).todo = Tail(j.todo) /\ Passed(j).ok = j.ok
  BY DEF Jobs, Passed
<1>4. Passed(j).found = j.found /\ Passed(j).kept = j.kept /\ Passed(j).running = j.running
  BY DEF Jobs, Passed
<1>. QED
  BY <1>2, <1>3, <1>4

\* A setup goes on from point to point, with the same else.
LEMMA GotoIsPut ==
  ASSUME TypeInv, NEW p \in Processes, NEW at, Goto(p, at)
  PROVE  Change(p, PutAt(job[p], at))
BY DEF TypeInv, Goto, Change, PutAt

\* The files are done.
LEMMA LookStep ==
  ASSUME IInv, NEW p \in Processes, Look(p)
  PROVE  Step(p)
<1> DEFINE j == job[p]
<1>1. j \in Jobs /\ JobInv(p, j) /\ j.at = "look" /\ j.todo = <<>>
  BY DEF IInv, TypeInv, Look, At
<1>2. UNCHANGED <<cache, verdict, runs, edits, touched, disturbed>>
  BY DEF Look
<1>3. CASE Change(p, Idle)
  BY <1>2, <1>3, IdleStep
<1>4. CASE j.checks /\ p \in Setups /\ j.ok /\ Change(p, Succeeded(j))
  <2>1. /\ Succeeded(j) \in Jobs /\ Succeeded(j).at = "success" /\ Succeeded(j).level = j.level
        /\ Succeeded(j).found = j.found /\ ~Succeeded(j).checks /\ Succeeded(j).kept = {}
        /\ Succeeded(j).running = {}
    BY <1>1, SucceededJob
  <2>2. RoleInv(p, j) /\ PreparedInv(j) /\ DoneInv(p, j)
    BY <1>1, <1>4 DEF JobInv
  <2>3. HashInv(Succeeded(j)) /\ RoleInv(p, Succeeded(j))
    BY <1>1, <1>4, <2>1, <2>2, ProcessesAssumption DEF HashInv, RoleInv
  <2>4. PreparedInv(Succeeded(j))
    BY <1>4, <2>1, <2>2 DEF PreparedInv, Staged, Checking
  <2>5. DoneInv(p, Succeeded(j))
    BY <1>1, <1>4, <2>1, <2>2 DEF DoneInv, Staged, Checking
  <2>. QED
    BY <1>2, <1>4, <2>1, <2>3, <2>4, <2>5, QuietStep DEF JobInv
<1>5. ASSUME ~j.checks, NEW next \in {"plan", "stage"}, Change(p, PutAt(j, next)),
             next = "plan" <=> j.level = "capture"
      PROVE  Step(p)
  <2> DEFINE n == PutAt(j, next)
  <2>1. next \in Points
    BY DEF Points
  <2>2. /\ n \in Jobs /\ n.at = next /\ n.level = j.level /\ n.checks = j.checks
        /\ n.found = j.found /\ n.kept = j.kept /\ n.running = j.running
    BY <1>1, <2>1, AtJob
  <2> HIDE DEF n
  <2>3. HashInv(n) /\ RoleInv(p, n)
    BY <1>1, <1>5, <2>2, ProcessesAssumption DEF JobInv, HashInv, RoleInv
  <2>4. p \in Setups => PreparedInv(n)
    BY <1>1, <1>5, <2>2 DEF JobInv, PreparedInv, Staged, Checking
  <2>5. p \in Setups => DoneInv(p, n)
    BY <1>1, <1>5, <2>2 DEF JobInv, DoneInv, Staged, Checking
  <2>6. Change(p, n)
    BY <1>5 DEF n
  <2>. QED
    BY <1>2, <2>2, <2>3, <2>4, <2>5, <2>6, QuietStep DEF JobInv
<1>6. CASE j.checks
  <2>1. Change(p, IF p \in Setups /\ j.ok THEN Succeeded(j) ELSE Idle)
    BY <1>6 DEF Look
  <2>2. CASE p \in Setups /\ j.ok
    BY <1>4, <1>6, <2>1, <2>2
  <2>3. CASE ~(p \in Setups /\ j.ok)
    <3>1. Change(p, Idle)
      BY <2>1, <2>3
    <3>. QED
      BY <1>3, <3>1
  <2>. QED
    BY <2>2, <2>3
<1>7. CASE ~j.checks /\ j.level = "capture"
  BY <1>5, <1>7 DEF Look, PutAt
<1>8. CASE ~j.checks /\ j.level # "capture"
  BY <1>5, <1>8 DEF Look, PutAt
<1>. QED
  BY <1>6, <1>7, <1>8

\* The metadata do, or are fetched.
LEMMA LookAtMetadataStep ==
  ASSUME IInv, NEW p \in Setups, LookAtMetadata(p)
  PROVE  Step(p)
<1> DEFINE j == job[p]
<1>1. j \in Jobs /\ JobInv(p, j) /\ j.at = "look" /\ j.todo # <<>> /\ Head(j.todo) = "metadata" /\ p \in Processes
  BY DEF IInv, TypeInv, LookAtMetadata, At, Processes
<1>2. UNCHANGED <<cache, verdict, runs, edits, touched, disturbed>>
  BY DEF LookAtMetadata
<1>3. ~j.checks /\ p \notin Readers
  <2>1. j.todo # <<"client">>
    BY <1>1
  <2>. QED
    BY <1>1, <2>1, ProcessesAssumption DEF JobInv, RoleInv
<1>4. CASE Change(p, Passed(j))
  <2> DEFINE n == Passed(j)
  <2>1. /\ n \in Jobs /\ n.at = "look" /\ n.level = j.level /\ n.checks = j.checks
        /\ n.found = j.found /\ n.kept = j.kept /\ n.running = j.running
    BY <1>1, PassedJob
  <2>2. Change(p, n)
    BY <1>4
  <2> HIDE DEF n
  <2>3. JobInv(p, n)
    BY <1>1, <1>3, <2>1 DEF JobInv, HashInv, RoleInv, PreparedInv, DoneInv, Staged, Checking
  <2>. QED
    BY <1>1, <1>2, <2>1, <2>2, <2>3, QuietStep
<1>5. CASE Goto(p, "fetch")
  <2> DEFINE f == PutAt(j, "fetch")
  <2>1. /\ f \in Jobs /\ f.at = "fetch" /\ f.level = j.level /\ f.checks = j.checks /\ f.todo = j.todo
        /\ f.found = j.found /\ f.kept = j.kept /\ f.running = j.running
    BY <1>1, AtJob DEF Points
  <2>2. Change(p, f)
    BY <1>1, <1>5, GotoIsPut DEF IInv
  <2> HIDE DEF f
  <2>3. JobInv(p, f)
    BY <1>1, <1>3, <2>1 DEF JobInv, HashInv, RoleInv, PreparedInv, DoneInv, Staged, Checking
  <2>. QED
    BY <1>1, <1>2, <2>1, <2>2, <2>3, QuietStep
<1>6. [j EXCEPT !.todo = Tail(@)] = Passed(j)
  BY <1>1 DEF Jobs, Passed
<1>. QED
  BY <1>4, <1>5, <1>6 DEF LookAtMetadata

-----------------------------------------------------------------------------
(* Verification of a JAR.                                                   *)

\* What a verdict changes of a call.
LEMMA ConcludedJob ==
  ASSUME NEW j \in Jobs, j.todo # <<>>, NEW valid \in BOOLEAN
  PROVE  LET n == Concluded(j, valid)
         IN  /\ n \in Jobs /\ n.level = j.level /\ n.checks = j.checks /\ n.found = j.found
             /\ n.kept = j.kept /\ n.running = j.running
             /\ j.checks => n.at = "look" /\ n.todo = Tail(j.todo) /\ n.ok = (j.ok /\ valid)
             /\ ~j.checks => n.at \in {"recheck", "remove"} /\ n.todo = j.todo
<1> DEFINE told == [j EXCEPT !.info = Idle.info, !.before = Idle.before, !.seen = FALSE]
           n == Concluded(j, valid)
<1>1. Idle.info \in Identities /\ Idle.before \in Identities
  BY IdleJob DEF Jobs
<1>2. told \in Jobs
  BY <1>1 DEF Jobs
<1>3. /\ told.level = j.level /\ told.checks = j.checks /\ told.found = j.found
      /\ told.kept = j.kept /\ told.running = j.running /\ told.todo = j.todo /\ told.ok = j.ok
  BY DEF Jobs
<1>4. Tail(j.todo) \in Seq(Files)
  <2>1. j.todo \in Seq(Files)
    BY DEF Jobs
  <2>. QED
    BY <2>1, HeadTailProperties
<1>5. CASE j.checks
  <2>1. n = [told EXCEPT !.at = "look", !.todo = Tail(@), !.ok = @ /\ valid]
    BY <1>5 DEF Concluded
  <2> HIDE DEF n, told
  <2>2. (told.ok /\ valid) \in BOOLEAN /\ "look" \in Points
    BY DEF Points
  <2>3. n \in Jobs
    BY <1>2, <1>3, <1>4, <2>1, <2>2 DEF Jobs
  <2>4. n.level = told.level /\ n.checks = told.checks /\ n.found = told.found
    BY <1>2, <2>1 DEF Jobs
  <2>5. n.kept = told.kept /\ n.running = told.running /\ n.at = "look" /\ n.todo = Tail(told.todo)
    BY <1>2, <2>1 DEF Jobs
  <2>6. n.ok = (told.ok /\ valid)
    BY <1>2, <2>1, <2>2 DEF Jobs
  <2>. QED
    BY <1>3, <1>5, <2>3, <2>4, <2>5, <2>6 DEF n
<1>6. CASE ~j.checks
  <2> DEFINE at == IF valid THEN "recheck" ELSE "remove"
  <2>1. n = [told EXCEPT !.at = at]
    BY <1>6 DEF Concluded
  <2>2. at \in {"recheck", "remove"} /\ at \in Points
    BY DEF Points
  <2> HIDE DEF n, told, at
  <2>3. n \in Jobs
    BY <1>2, <2>1, <2>2 DEF Jobs
  <2>4. n.level = told.level /\ n.checks = told.checks /\ n.found = told.found
    BY <1>2, <2>1 DEF Jobs
  <2>5. n.kept = told.kept /\ n.running = told.running /\ n.at = at /\ n.todo = told.todo
    BY <1>2, <2>1 DEF Jobs
  <2>. QED
    BY <1>3, <1>6, <2>2, <2>3, <2>4, <2>5 DEF n
<1>. QED
  BY <1>5, <1>6

\* A verdict on a JAR that is true of the file, where the call is a setup's last look.
LEMMA ConcludedInv ==
  ASSUME IInv, NEW p \in Processes, NEW valid \in BOOLEAN,
         job[p].at \in {"look", "open", "close"}, job[p].todo # <<>>, Head(job[p].todo) \in Jars,
         valid /\ p \in Setups /\ job[p].checks => Verifies(Head(job[p].todo))
  PROVE  Concluded(job[p], valid) \in Jobs /\ JobInv(p, Concluded(job[p], valid))
<1> DEFINE j == job[p]
           n == Concluded(j, valid)
<1>1. j \in Jobs /\ HashInv(j) /\ RoleInv(p, j)
  BY DEF IInv, TypeInv, JobInv
<1>2. p \in Setups => PreparedInv(j) /\ DoneInv(p, j)
  BY DEF IInv, JobInv
<1>3. /\ n \in Jobs /\ n.level = j.level /\ n.checks = j.checks /\ n.found = j.found
      /\ n.kept = j.kept /\ n.running = j.running
      /\ j.checks => n.at = "look" /\ n.todo = Tail(j.todo) /\ n.ok = (j.ok /\ valid)
      /\ ~j.checks => n.at \in {"recheck", "remove"} /\ n.todo = j.todo
  BY <1>1, ConcludedJob
<1> HIDE DEF n
<1>4. ASSUME p \in Setups, j.checks
      PROVE  Head(j.todo) = "client" /\ Tail(j.todo) = <<>> /\ j.level # "server"
  <2>1. j.todo = <<"client">> /\ j.level # "server"
    BY <1>1, <1>4 DEF RoleInv
  <2>2. Head(<<"client">>) = "client" /\ Tail(<<"client">>) = <<>>
    OBVIOUS
  <2>. QED
    BY <2>1, <2>2
<1>5. HashInv(n)
  BY <1>3 DEF HashInv
<1>6. RoleInv(p, n)
  BY <1>1, <1>3, <1>4, ProcessesAssumption DEF RoleInv
<1>7. p \in Setups => PreparedInv(n)
  BY <1>2, <1>3 DEF PreparedInv, Staged, Checking
<1>8. ASSUME p \in Setups PROVE DoneInv(p, n)
  BY <1>2, <1>3, <1>4, <1>8 DEF DoneInv, Staged, Checking
<1>9. JobInv(p, n)
  BY <1>5, <1>6, <1>7, <1>8 DEF JobInv
<1>. QED
  BY <1>3, <1>9 DEF n

\* A verdict that changes nothing else.
LEMMA ConcludedStep ==
  ASSUME IInv, NEW p \in Processes, NEW valid \in BOOLEAN,
         job[p].at \in {"look", "open", "close"}, job[p].todo # <<>>, Head(job[p].todo) \in Jars,
         valid /\ p \in Setups /\ job[p].checks => Verifies(Head(job[p].todo)),
         Change(p, Concluded(job[p], valid)),
         UNCHANGED <<cache, verdict, runs, edits, touched, disturbed>>
  PROVE  Step(p)
BY ConcludedInv, QuietStep

\* lstat: the file is missing, or known from memory, or to be opened.
LEMMA LstatStep ==
  ASSUME IInv, NEW p \in Processes, Lstat(p)
  PROVE  Step(p)
<1> DEFINE j == job[p]
           f == Head(j.todo)
           opened == [j EXCEPT !.at = "open", !.info = Identity(file[f])]
<1>1. j \in Jobs /\ JobInv(p, j) /\ j.at = "look" /\ j.todo # <<>> /\ f \in Jars /\ file[f] \in Cached
  BY FilesOfRuntime DEF IInv, TypeInv, Lstat, At
<1>2. UNCHANGED <<cache, verdict, runs, edits, touched, disturbed>>
  BY DEF Lstat
<1>3. CASE ~file[f].there /\ j.checks
  <2>1. Change(p, Concluded(j, FALSE))
    BY <1>3 DEF Lstat
  <2>. QED
    BY <1>1, <1>2, <2>1, ConcludedStep
<1>4. CASE ~file[f].there /\ ~j.checks
  <2> DEFINE n == PutAt(j, "recheck")
  <2>1. Change(p, n)
    BY <1>4 DEF Lstat, PutAt
  <2>2. /\ n \in Jobs /\ n.at = "recheck" /\ n.level = j.level /\ n.checks = j.checks /\ n.todo = j.todo
        /\ n.found = j.found /\ n.kept = j.kept /\ n.running = j.running
    BY <1>1, AtJob DEF Points
  <2> HIDE DEF n
  <2>3. JobInv(p, n)
    BY <1>1, <1>4, <2>2, ProcessesAssumption DEF JobInv, HashInv, RoleInv, PreparedInv, DoneInv, Staged, Checking
  <2>. QED
    BY <1>2, <2>1, <2>2, <2>3, QuietStep
<1>5. CASE file[f].there /\ Remembers(p, f)
  <2>1. Change(p, Concluded(j, verdict[p][f].valid))
    BY <1>5 DEF Lstat
  <2>2. p \in Readers /\ verdict[p][f].valid \in BOOLEAN
    BY <1>1, <1>5 DEF Remembers, IInv, TypeInv, Verdicts
  <2>3. p \notin Setups
    BY <2>2, ProcessesAssumption
  <2>. QED
    BY <1>1, <1>2, <2>1, <2>2, <2>3, ConcludedStep
<1>6. CASE file[f].there /\ ~Remembers(p, f)
  <2>1. Change(p, opened)
    BY <1>6 DEF Lstat
  <2>2. Identity(file[f]) \in Identities /\ "open" \in Points /\ Had(Identity(file[f]), f)
    BY <1>1 DEF Identity, Identities, Cached, Points, Had
  <2>3. opened \in Jobs
    BY <1>1, <2>2 DEF Jobs
  <2>4. /\ opened.at = "open" /\ opened.level = j.level /\ opened.checks = j.checks
        /\ opened.todo = j.todo /\ opened.info = Identity(file[f]) /\ opened.ok = j.ok
    BY <1>1 DEF Jobs
  <2>5. opened.found = j.found /\ opened.kept = j.kept /\ opened.running = j.running
    BY <1>1 DEF Jobs
  <2> HIDE DEF opened
  <2>6. HashInv(opened)
    BY <1>1, <2>2, <2>4 DEF HashInv
  <2>7. RoleInv(p, opened)
    BY <1>1, <2>4, <2>5 DEF JobInv, RoleInv
  <2>8. p \in Setups => PreparedInv(opened) /\ DoneInv(p, opened)
    BY <1>1, <2>4, <2>5 DEF JobInv, PreparedInv, DoneInv, Staged, Checking
  <2>. QED
    BY <1>2, <2>1, <2>3, <2>6, <2>7, <2>8, QuietStep DEF JobInv
<1>. QED
  BY <1>3, <1>4, <1>5, <1>6

\* open, stat and hash.
LEMMA OpenStep ==
  ASSUME IInv, NEW p \in Processes, Open(p)
  PROVE  Step(p)
<1> DEFINE j == job[p]
           f == Head(j.todo)
           hashed == [j EXCEPT !.at = "close", !.before = Identity(file[f]), !.seen = file[f].pinned]
<1>1. j \in Jobs /\ JobInv(p, j) /\ j.at = "open" /\ j.todo # <<>> /\ f \in Jars /\ file[f] \in Cached
  BY FilesOfRuntime DEF IInv, TypeInv, Open, At, JobInv, HashInv
<1>2. UNCHANGED <<cache, verdict, runs, edits, touched, disturbed>>
  BY DEF Open
<1>3. CASE ~file[f].there \/ file[f].inode # j.info.inode
  <2>1. Change(p, Concluded(j, FALSE))
    BY <1>3 DEF Open
  <2>. QED
    BY <1>1, <1>2, <2>1, ConcludedStep
<1>4. CASE file[f].there /\ file[f].inode = j.info.inode
  <2>1. Change(p, hashed)
    BY <1>4 DEF Open
  <2>2. /\ Identity(file[f]) \in Identities /\ "close" \in Points /\ Told(Identity(file[f]), file[f].pinned, f)
        /\ Identity(file[f]).version = file[f].version
    BY <1>1 DEF Identity, Identities, Cached, Points, Had, Told
  <2>3. file[f].pinned \in BOOLEAN
    BY <1>1 DEF Cached
  <2>4. hashed \in Jobs
    BY <1>1, <2>2, <2>3 DEF Jobs
  <2>5. /\ hashed.at = "close" /\ hashed.level = j.level /\ hashed.checks = j.checks
        /\ hashed.todo = j.todo /\ hashed.info = j.info /\ hashed.before = Identity(file[f])
    BY <1>1 DEF Jobs
  <2>6. hashed.found = j.found /\ hashed.kept = j.kept /\ hashed.running = j.running
    BY <1>1 DEF Jobs
  <2>7. hashed.seen = file[f].pinned
    BY <1>1, <2>3 DEF Jobs
  <2> HIDE DEF hashed
  <2>8. HashInv(hashed)
    <3>1. Had(j.info, f)
      BY <1>1 DEF JobInv, HashInv
    <3>2. j.info.version <= file[f].version
      BY <3>1 DEF Had
    <3>. QED
      BY <1>1, <2>2, <2>5, <2>7, <3>1, <3>2 DEF HashInv
  <2>9. RoleInv(p, hashed)
    BY <1>1, <2>5, <2>6 DEF JobInv, RoleInv
  <2>10. p \in Setups => PreparedInv(hashed) /\ DoneInv(p, hashed)
    BY <1>1, <2>5, <2>6 DEF JobInv, PreparedInv, DoneInv, Staged, Checking
  <2>. QED
    BY <1>2, <2>1, <2>4, <2>8, <2>9, <2>10, QuietStep DEF JobInv
<1>. QED
  BY <1>3, <1>4

\* stat and lstat again, and the verdict.
LEMMA CloseStep ==
  ASSUME IInv, NEW p \in Processes, Close(p)
  PROVE  Step(p)
<1> DEFINE j == job[p]
           f == Head(j.todo)
           valid == j.seen /\ file[f].there /\ j.before = Identity(file[f])
<1>1. j \in Jobs /\ JobInv(p, j) /\ j.at = "close" /\ j.todo # <<>> /\ f \in Jars /\ f \in Files /\ file[f] \in Cached
  BY FilesOfRuntime DEF IInv, TypeInv, Close, At, JobInv, HashInv
<1>2. /\ UNCHANGED <<cache, runs, edits, touched, disturbed>> /\ Change(p, Concluded(j, valid))
      /\ verdict' = IF p \in Readers /\ file[f].there
                    THEN [verdict EXCEPT ![p][f] = [key |-> j.info, valid |-> valid]]
                    ELSE verdict
  BY DEF Close
<1>3. /\ j.seen \in BOOLEAN /\ j.info \in Identities /\ j.before \in Identities
      /\ file[f].there \in BOOLEAN /\ file[f].version \in Nat /\ file[f].inode \in Nat
  BY <1>1 DEF Jobs, Cached
<1>4. Had(j.info, f) /\ j.info.version <= j.before.version /\ Told(j.before, j.seen, f)
  BY <1>1 DEF JobInv, HashInv
<1>5. valid => Verifies(f)
  BY <1>4 DEF Told, Verifies, Identity
<1>6. Told(j.info, valid, f)
  <2>1. ASSUME j.info.version = file[f].version, file[f].there
        PROVE  valid <=> file[f].pinned
    <3>1. j.before.version = file[f].version
      BY <1>3, <1>4, <2>1 DEF Told, Had, Identities
    <3>2. j.before = Identity(file[f])
      BY <1>3, <1>4, <3>1 DEF Told, Had, Identity, Identities
    <3>. QED
      BY <1>4, <2>1, <3>1, <3>2 DEF Told
  <2>. QED
    BY <1>4, <2>1 DEF Told
<1>7. valid \in BOOLEAN
  BY <1>3
<1> HIDE DEF valid
<1>8. Concluded(j, valid) \in Jobs /\ JobInv(p, Concluded(j, valid))
  BY <1>1, <1>5, <1>7, ConcludedInv
<1>9. /\ verdict' \in [Readers -> [Jars -> Verdicts \cup {None}]]
      /\ VerdictInv'
  <2>1. VerdictInv /\ verdict \in [Readers -> [Jars -> Verdicts \cup {None}]]
    BY DEF IInv, TypeInv
  <2>2. UNCHANGED file
    BY <1>2 DEF cache
  <2>3. [key |-> j.info, valid |-> valid] \in Verdicts
    BY <1>3, <1>7 DEF Verdicts
  <2>4. CASE p \in Readers /\ file[f].there
    <3>1. verdict' = [verdict EXCEPT ![p][f] = [key |-> j.info, valid |-> valid]]
      BY <1>2, <2>4
    <3> DEFINE told == [key |-> j.info, valid |-> valid]
               row == [verdict[p] EXCEPT ![f] = told]
    <3>5. told \in Verdicts /\ told.key = j.info /\ told.valid = valid
      BY <2>3
    <3> HIDE DEF told
    <3>6. /\ row \in [Jars -> Verdicts \cup {None}] /\ row[f] = told
          /\ \A g \in Jars \ {f} : row[g] = verdict[p][g]
      BY <1>1, <2>1, <2>4, <3>5
    <3>7. verdict' = [verdict EXCEPT ![p] = row]
      BY <3>1 DEF told
    <3> HIDE DEF row
    <3>2. /\ verdict' \in [Readers -> [Jars -> Verdicts \cup {None}]] /\ verdict'[p] = row
          /\ \A q \in Readers \ {p} : verdict'[q] = verdict[q]
      BY <2>1, <2>4, <3>6, <3>7
    <3>3. verdict'[p][f].key = j.info /\ verdict'[p][f].valid = valid
      BY <3>2, <3>5, <3>6
    <3>4. ASSUME NEW q \in Readers, NEW g \in Jars, verdict'[q][g] # None
          PROVE  Told(verdict[q][g].key, verdict[q][g].valid, g)'
      <4>1. CASE q = p /\ g = f
        BY <1>6, <2>2, <3>3, <4>1 DEF Told, Had
      <4>2. CASE ~(q = p /\ g = f)
        <5>1. verdict'[q][g] = verdict[q][g]
          BY <3>2, <3>6, <4>2
        <5>. QED
          BY <2>1, <2>2, <3>4, <5>1 DEF VerdictInv, Told, Had
      <4>. QED
        BY <4>1, <4>2
    <3>. QED
      BY <3>2, <3>4 DEF VerdictInv
  <2>5. CASE ~(p \in Readers /\ file[f].there)
    BY <1>2, <2>1, <2>2, <2>5 DEF VerdictInv, Told, Had
  <2>. QED
    BY <2>4, <2>5
<1> DEFINE n == Concluded(j, valid)
<1>10. n \in Jobs /\ Change(p, n) /\ JobInv(p, n)
  BY <1>2, <1>8 DEF valid
<1> HIDE DEF n
<1>11. job'[p] = n
  BY <1>10 DEF Change, IInv, TypeInv
<1>12. p \in Setups => DoneInv(p, job[p])'
  BY <1>2, <1>10, <1>11 DEF JobInv, DoneInv, Staged, Checking, Recorded, Verifies, cache
<1>13. /\ runs' \in [Processes -> Nat] /\ disturbed' \in [Setups -> BOOLEAN]
       /\ \A q \in Setups \ {p} : disturbed'[q] = disturbed[q]
  BY <1>2 DEF IInv, TypeInv
<1>14. HashInv(n) /\ RoleInv(p, n) /\ (p \in Setups => PreparedInv(n))
  BY <1>10 DEF JobInv
<1>15. UNCHANGED <<cache, edits, touched>>
  BY <1>2
<1>. QED
  BY <1>9, <1>10, <1>12, <1>13, <1>14, <1>15, CallStep

-----------------------------------------------------------------------------
(* The other steps that change the call only.                               *)

\* A file that is there now is taken as it is, and another is fetched.
LEMMA RecheckStep ==
  ASSUME IInv, NEW p \in Setups, Recheck(p)
  PROVE  Step(p)
<1> DEFINE j == job[p]
<1>1. j \in Jobs /\ JobInv(p, j) /\ j.at = "recheck" /\ j.todo # <<>> /\ p \in Processes
  BY DEF IInv, TypeInv, Recheck, At, JobInv, HashInv, Processes
<1>2. UNCHANGED <<cache, verdict, runs, edits, touched, disturbed>>
  BY DEF Recheck
<1>3. ~j.checks /\ p \notin Readers
  BY <1>1, ProcessesAssumption DEF JobInv, RoleInv
<1>4. CASE Change(p, Passed(j))
  <2> DEFINE n == Passed(j)
  <2>1. /\ n \in Jobs /\ n.at = "look" /\ n.level = j.level /\ n.checks = j.checks
        /\ n.found = j.found /\ n.kept = j.kept /\ n.running = j.running
    BY <1>1, PassedJob
  <2>2. Change(p, n)
    BY <1>4
  <2> HIDE DEF n
  <2>3. JobInv(p, n)
    BY <1>1, <1>3, <2>1 DEF JobInv, HashInv, RoleInv, PreparedInv, DoneInv, Staged, Checking
  <2>. QED
    BY <1>1, <1>2, <2>1, <2>2, <2>3, QuietStep
<1>5. CASE Change(p, PutAt(j, "fetch"))
  <2> DEFINE n == PutAt(j, "fetch")
  <2>1. /\ n \in Jobs /\ n.at = "fetch" /\ n.level = j.level /\ n.checks = j.checks /\ n.todo = j.todo
        /\ n.found = j.found /\ n.kept = j.kept /\ n.running = j.running
    BY <1>1, AtJob DEF Points
  <2>2. Change(p, n)
    BY <1>5
  <2> HIDE DEF n
  <2>3. JobInv(p, n)
    BY <1>1, <1>3, <2>1 DEF JobInv, HashInv, RoleInv, PreparedInv, DoneInv, Staged, Checking
  <2>. QED
    BY <1>1, <1>2, <2>1, <2>2, <2>3, QuietStep
<1>. QED
  BY <1>4, <1>5 DEF Recheck, Passed, PutAt

\* The artifacts of the client runtime are known.
LEMMA PlanRuntimeStep ==
  ASSUME IInv, NEW p \in Setups, PlanRuntime(p)
  PROVE  Step(p)
<1> DEFINE j == job[p]
           n == [j EXCEPT !.at = "pool", !.wanted = Artifacts(PlatformOf[p])]
<1>1. j \in Jobs /\ JobInv(p, j) /\ j.at = "plan" /\ p \in Processes
  BY DEF IInv, TypeInv, PlanRuntime, At, Processes
<1>2. UNCHANGED <<cache, verdict, runs, edits, touched, disturbed>> /\ Change(p, n)
  BY DEF PlanRuntime
<1>3. ~j.checks /\ p \notin Readers /\ j.level = "capture"
  BY <1>1, ProcessesAssumption DEF JobInv, RoleInv
<1>4. n \in Jobs
  BY <1>1, FilesOfRuntime DEF Jobs, Points
<1>5. /\ n.at = "pool" /\ n.level = j.level /\ n.checks = j.checks /\ n.todo = j.todo
      /\ n.found = j.found /\ n.kept = j.kept
  BY <1>1 DEF Jobs
<1>6. n.wanted = Artifacts(PlatformOf[p])
  BY <1>1 DEF Jobs
<1> HIDE DEF n
<1>7. JobInv(p, n)
  BY <1>1, <1>3, <1>5, <1>6 DEF JobInv, HashInv, RoleInv, PreparedInv, DoneInv, Staged, Checking
<1>. QED
  BY <1>1, <1>2, <1>4, <1>7, QuietStep

\* A call in the pool that goes on in the pool.
LEMMA PoolStep ==
  ASSUME IInv, NEW p \in Setups, At(p, "pool"), NEW n \in Jobs, Change(p, n),
         n.at = "pool", n.level = job[p].level, n.checks = job[p].checks, n.todo = job[p].todo,
         n.found = job[p].found, n.kept = job[p].kept, n.wanted = job[p].wanted
  PROVE  JobInv(p, n)
<1> DEFINE j == job[p]
<1>1. j \in Jobs /\ JobInv(p, j) /\ j.at = "pool" /\ p \in Processes
  BY DEF IInv, TypeInv, At, Processes
<1>2. ~j.checks /\ p \notin Readers /\ j.level = "capture" /\ j.wanted = Artifacts(PlatformOf[p])
  BY <1>1, ProcessesAssumption DEF JobInv, RoleInv
<1>. QED
  BY <1>1, <1>2 DEF JobInv, HashInv, RoleInv, PreparedInv, DoneInv, Staged, Checking

\* A worker takes an artifact.
LEMMA TakeStep ==
  ASSUME IInv, NEW p \in Setups, Take(p)
  PROVE  Step(p)
<1> DEFINE j == job[p]
           left == j.wanted \ j.taken
           next == CHOOSE o \in left : TRUE
           n == [j EXCEPT !.taken = @ \cup {next}, !.running = @ \cup {next}]
<1>1. j \in Jobs /\ p \in Processes /\ j.at = "pool" /\ left # {}
  BY DEF IInv, TypeInv, Take, At, Processes
<1>2. UNCHANGED <<cache, verdict, runs, edits, touched, disturbed>> /\ Change(p, n) /\ At(p, "pool")
  BY DEF Take
<1>3. next \in left /\ left \subseteq Objects
  BY <1>1 DEF Jobs
<1> HIDE DEF next
<1>4. n \in Jobs
  BY <1>1, <1>3 DEF Jobs
<1>5. /\ n.at = "pool" /\ n.level = j.level /\ n.checks = j.checks /\ n.todo = j.todo
      /\ n.found = j.found /\ n.kept = j.kept
  BY <1>1 DEF Jobs
<1>6. n.wanted = j.wanted
  BY <1>1 DEF Jobs
<1> HIDE DEF n
<1>7. JobInv(p, n)
  BY <1>2, <1>4, <1>5, <1>6, PoolStep
<1>. QED
  BY <1>1, <1>2, <1>4, <1>7, QuietStep

\* A worker fails.
LEMMA WorkFailsStep ==
  ASSUME IInv, NEW p \in Setups, WorkFails(p)
  PROVE  Step(p)
<1> DEFINE j == job[p]
<1>1. j \in Jobs /\ p \in Processes /\ JobInv(p, j)
  BY DEF IInv, TypeInv, Processes
<1>2. PICK o \in j.running :
        /\ Change(p, [j EXCEPT !.running = @ \ {o}, !.failure = TRUE])
        /\ UNCHANGED <<cache, verdict, runs, edits, touched, disturbed>>
  BY DEF WorkFails
<1> DEFINE n == [j EXCEPT !.running = @ \ {o}, !.failure = TRUE]
<1>3. At(p, "pool")
  BY <1>1, <1>2 DEF JobInv, RoleInv, At
<1>4. n \in Jobs
  BY <1>1 DEF Jobs
<1>5. /\ n.at = j.at /\ n.level = j.level /\ n.checks = j.checks /\ n.todo = j.todo
      /\ n.found = j.found /\ n.kept = j.kept
  BY <1>1 DEF Jobs
<1>6. n.wanted = j.wanted
  BY <1>1 DEF Jobs
<1>7. Change(p, n)
  BY <1>2
<1> HIDE DEF n
<1>8. JobInv(p, n)
  BY <1>3, <1>4, <1>5, <1>6, <1>7, PoolStep DEF At
<1>. QED
  BY <1>1, <1>2, <1>4, <1>7, <1>8, QuietStep

\* Every worker has ended.
LEMMA PoolEndsStep ==
  ASSUME IInv, NEW p \in Setups, PoolEnds(p)
  PROVE  Step(p)
<1> DEFINE j == job[p]
           n == [j EXCEPT !.at = "preflight", !.taken = {}]
<1>1. j \in Jobs /\ JobInv(p, j) /\ j.at = "pool" /\ j.running = {} /\ p \in Processes
  BY DEF IInv, TypeInv, PoolEnds, At, Processes
<1>2. UNCHANGED <<cache, verdict, runs, edits, touched, disturbed>>
  BY DEF PoolEnds
<1>3. ~j.checks /\ p \notin Readers /\ j.level = "capture" /\ j.wanted = Artifacts(PlatformOf[p])
  BY <1>1, ProcessesAssumption DEF JobInv, RoleInv
<1>4. CASE Change(p, Idle)
  BY <1>1, <1>2, <1>4, IdleStep
<1>5. CASE Change(p, n)
  <2>1. n \in Jobs
    BY <1>1 DEF Jobs, Points
  <2>2. /\ n.at = "preflight" /\ n.level = j.level /\ n.checks = j.checks /\ n.todo = j.todo
        /\ n.found = j.found /\ n.kept = j.kept
    BY <1>1 DEF Jobs
  <2>3. n.wanted = j.wanted /\ n.running = j.running /\ n.taken = {}
    BY <1>1 DEF Jobs
  <2> HIDE DEF n
  <2>4. JobInv(p, n)
    BY <1>1, <1>3, <2>2, <2>3 DEF JobInv, HashInv, RoleInv, PreparedInv, DoneInv, Staged, Checking
  <2>. QED
    BY <1>1, <1>2, <1>5, <2>1, <2>4, QuietStep
<1>. QED
  BY <1>4, <1>5 DEF PoolEnds

\* An artifact is hashed again.
LEMMA PreflightStep ==
  ASSUME IInv, NEW p \in Setups, Preflight(p)
  PROVE  Step(p)
<1> DEFINE j == job[p]
           next == CHOOSE o \in j.wanted \ j.taken : TRUE
           n == [j EXCEPT !.taken = @ \cup {next}]
<1>1. j \in Jobs /\ JobInv(p, j) /\ j.at = "preflight" /\ j.taken # j.wanted /\ p \in Processes
  BY DEF IInv, TypeInv, Preflight, At, Processes
<1>2. UNCHANGED <<cache, verdict, runs, edits, touched, disturbed>>
  BY DEF Preflight
<1>3. Change(p, IF Verifies(next) THEN n ELSE Idle)
  BY DEF Preflight
<1>4. /\ ~j.checks /\ p \notin Readers /\ j.level = "capture" /\ j.running = {}
      /\ j.wanted = Artifacts(PlatformOf[p]) /\ j.taken \subseteq j.wanted
  BY <1>1, ProcessesAssumption DEF JobInv, RoleInv
<1>5. next \in j.wanted /\ j.wanted \subseteq Objects
  <2>1. j.wanted \ j.taken # {}
    BY <1>1, <1>4
  <2>. QED
    BY <1>1, <2>1 DEF Jobs
<1> HIDE DEF next
<1>6. CASE ~Verifies(next)
  BY <1>1, <1>2, <1>3, <1>6, IdleStep
<1>7. CASE Verifies(next)
  <2>1. n \in Jobs
    BY <1>1, <1>5 DEF Jobs
  <2>2. /\ n.at = "preflight" /\ n.level = j.level /\ n.checks = j.checks /\ n.todo = j.todo
        /\ n.found = j.found /\ n.kept = j.kept
    BY <1>1 DEF Jobs
  <2>3. n.wanted = j.wanted /\ n.running = j.running /\ n.taken = j.taken \cup {next}
    BY <1>1 DEF Jobs
  <2>4. Change(p, n)
    BY <1>3, <1>7
  <2> HIDE DEF n
  <2>5. HashInv(n) /\ RoleInv(p, n)
    BY <1>1, <1>4, <1>5, <2>2, <2>3 DEF JobInv, HashInv, RoleInv
  <2>6. PreparedInv(n)
    BY <1>1, <2>2 DEF JobInv, PreparedInv, Staged, Checking
  <2>7. DoneInv(p, n)
    BY <1>1, <1>4, <1>7, <2>2, <2>3 DEF JobInv, DoneInv, Staged, Checking
  <2>. QED
    BY <1>1, <1>2, <2>1, <2>4, <2>5, <2>6, <2>7, QuietStep DEF JobInv
<1>. QED
  BY <1>6, <1>7

\* The server JAR is copied where Java runs it, if it is the pinned one.
LEMMA StageStep ==
  ASSUME IInv, NEW p \in Setups, Stage(p)
  PROVE  Step(p)
<1> DEFINE j == job[p]
           n == PutAt(j, "commands")
<1>1. j \in Jobs /\ JobInv(p, j) /\ j.at = "stage" /\ p \in Processes
  BY DEF IInv, TypeInv, Stage, At, Processes
<1>2. UNCHANGED <<cache, verdict, runs, edits, touched, disturbed>>
  BY DEF Stage
<1>3. ~j.checks /\ p \notin Readers
  BY <1>1, ProcessesAssumption DEF JobInv, RoleInv
<1>4. Change(p, IF Verifies("server") THEN n ELSE Idle)
  BY DEF Stage, Verifies, PutAt
<1>5. CASE ~Verifies("server")
  BY <1>1, <1>2, <1>4, <1>5, IdleStep
<1>6. CASE Verifies("server")
  <2>1. /\ n \in Jobs /\ n.at = "commands" /\ n.level = j.level /\ n.checks = j.checks /\ n.todo = j.todo
        /\ n.found = j.found /\ n.kept = j.kept /\ n.running = j.running
    BY <1>1, AtJob DEF Points
  <2>2. Change(p, n)
    BY <1>4, <1>6
  <2> HIDE DEF n
  <2>3. HashInv(n) /\ RoleInv(p, n)
    BY <1>1, <1>3, <2>1 DEF JobInv, HashInv, RoleInv
  <2>4. PreparedInv(n)
    BY <1>1, <2>1 DEF JobInv, PreparedInv, Staged, Checking
  <2>5. DoneInv(p, n)
    BY <1>1, <1>3, <1>6, <2>1 DEF JobInv, DoneInv, Staged, Checking
  <2>. QED
    BY <1>1, <1>2, <2>1, <2>2, <2>3, <2>4, <2>5, QuietStep DEF JobInv
<1>. QED
  BY <1>5, <1>6

\* The last look at the client JAR.
LEMMA BeginCheckStep ==
  ASSUME IInv, NEW p \in Setups, BeginCheck(p)
  PROVE  Step(p)
<1> DEFINE j == job[p]
           n == [j EXCEPT !.at = "look", !.checks = TRUE, !.todo = <<"client">>]
<1>1. j \in Jobs /\ JobInv(p, j) /\ j.at = "status" /\ p \in Processes
  BY DEF IInv, TypeInv, BeginCheck, At, Processes
<1>2. UNCHANGED <<cache, verdict, runs, edits, touched, disturbed>>
  BY DEF BeginCheck
<1>3. ~j.checks /\ p \notin Readers /\ j.level # "server" /\ j.level \in SetupLevels /\ j.running = {}
  BY <1>1, ProcessesAssumption DEF JobInv, RoleInv
<1>4. CASE Change(p, Idle)
  BY <1>1, <1>2, <1>4, IdleStep
<1>5. CASE Change(p, n)
  <2>1. <<"client">> \in Seq(Files)
    BY FilesOfRuntime DEF Jars
  <2>2. n \in Jobs
    BY <1>1, <2>1 DEF Jobs, Points
  <2>3. /\ n.at = "look" /\ n.level = j.level /\ n.checks = TRUE /\ n.todo = <<"client">>
        /\ n.found = j.found /\ n.kept = j.kept /\ n.running = j.running
    BY <1>1 DEF Jobs
  <2>4. n.todo # <<>>
    BY <2>3
  <2> HIDE DEF n
  <2>5. HashInv(n) /\ RoleInv(p, n)
    BY <1>1, <1>3, <2>3 DEF JobInv, HashInv, RoleInv
  <2>6. PreparedInv(n)
    BY <1>1, <2>3 DEF JobInv, PreparedInv, Staged, Checking
  <2>7. DoneInv(p, n)
    BY <1>1, <1>3, <2>3, <2>4 DEF JobInv, DoneInv, Staged, Checking
  <2>. QED
    BY <1>1, <1>2, <1>5, <2>2, <2>5, <2>6, <2>7, QuietStep DEF JobInv
<1>. QED
  BY <1>4, <1>5 DEF BeginCheck

\* A setup begins: what the record says now is found, and kept unless it is prepared anew.
LEMMA BeginSetupStep ==
  ASSUME IInv, NEW p \in Setups, BeginSetup(p)
  PROVE  Step(p)
<1>1. p \in Processes /\ TypeInv /\ VerdictInv /\ RecordInv
  BY DEF IInv, Processes
<1>2. PICK level \in Levels[p] :
        Change(p, [Idle EXCEPT !.level = level, !.at = "look", !.found = Recorded,
                    !.kept = Kept(level),
                    !.todo = IF level = "server" THEN <<"metadata", "server">>
                             ELSE <<"metadata", "server", "client">>])
  BY DEF BeginSetup
<1>3. /\ UNCHANGED <<cache, verdict, edits, touched>> /\ runs' = [runs EXCEPT ![p] = @ + 1]
      /\ disturbed' = [disturbed EXCEPT ![p] = FALSE]
  BY DEF BeginSetup
<1> DEFINE todo == IF level = "server" THEN <<"metadata", "server">> ELSE <<"metadata", "server", "client">>
<1>4. todo \in Seq(Files)
  <2>1. "metadata" \in Files /\ "server" \in Files /\ "client" \in Files
    BY FilesOfRuntime DEF Jars
  <2>2. CASE level = "server"
    BY <2>1, <2>2
  <2>3. CASE level # "server"
    BY <2>1, <2>3
  <2>. QED
    BY <2>2, <2>3
<1>5. level \in SetupLevels
  BY <1>2, LevelsAssumption DEF SetupLevels
<1>6. Recorded \in SUBSET Parts /\ Kept(level) = Recorded \ Prepares(level)
  BY <1>1 DEF TypeInv, Recorded, Kept
<1> HIDE DEF todo
<1> DEFINE n == [Idle EXCEPT !.level = level, !.at = "look", !.found = Recorded,
                    !.kept = Kept(level), !.todo = todo]
<1>7. Change(p, n)
  BY <1>2 DEF todo
<1>8. n \in Jobs
  BY <1>4, <1>5, <1>6, IdleJob DEF Jobs, Points
<1>9. n.at = "look" /\ n.level = level /\ n.checks = Idle.checks /\ n.running = Idle.running
  BY IdleJob DEF Jobs
<1>10. n.found = Recorded /\ n.kept = Kept(level)
  BY IdleJob DEF Jobs
<1> HIDE DEF n
<1>11. n.at = "look" /\ n.level = level /\ ~n.checks /\ n.running = {}
  BY <1>9, IdleJob
<1>12. HashInv(n) /\ RoleInv(p, n)
  BY <1>5, <1>11, ProcessesAssumption DEF HashInv, RoleInv
<1>13. PreparedInv(n)
  BY <1>1, <1>6, <1>10, <1>11 DEF PreparedInv, RecordInv, Recorded, Staged, Checking
<1>14. job'[p] = n /\ Recorded' = Recorded
  BY <1>1, <1>3, <1>7 DEF Change, TypeInv, Recorded, cache
<1>15. DoneInv(p, job[p])'
  BY <1>6, <1>10, <1>11, <1>14 DEF DoneInv, Staged, Checking
<1>16. /\ runs' \in [Processes -> Nat] /\ disturbed' \in [Setups -> BOOLEAN]
       /\ verdict' \in [Readers -> [Jars -> Verdicts \cup {None}]]
       /\ \A q \in Setups \ {p} : disturbed'[q] = disturbed[q]
  BY <1>1, <1>3 DEF TypeInv
<1>17. VerdictInv'
  BY <1>1, <1>3 DEF VerdictInv, Told, Had, cache
<1>. QED
  BY <1>1, <1>3, <1>7, <1>8, <1>12, <1>13, <1>15, <1>16, <1>17, CallStep

\* A server process asks for the status or the references.
LEMMA BeginReadStep ==
  ASSUME IInv, NEW p \in Readers, BeginRead(p)
  PROVE  Step(p)
<1>1. p \in Processes /\ TypeInv /\ VerdictInv /\ p \notin Setups
  BY ProcessesAssumption DEF IInv, Processes
<1> DEFINE n == [Idle EXCEPT !.at = "look", !.checks = TRUE, !.todo = ToCheck]
<1>2. /\ UNCHANGED <<cache, verdict, edits, touched, disturbed>> /\ runs' = [runs EXCEPT ![p] = @ + 1]
      /\ Change(p, n)
  BY DEF BeginRead
<1>3. ToCheck \in Seq(Files)
  <2> DEFINE server == IF file["server"].there THEN <<"server">> ELSE <<>>
             vouched == "assets" \in record /\ file["metadata"].there /\ file["metadata"].pinned
             client == IF vouched /\ file["client"].there THEN <<"client">> ELSE <<>>
  <2>1. <<"server">> \in Seq(Files) /\ <<"client">> \in Seq(Files) /\ <<>> \in Seq(Files)
    BY FilesOfRuntime DEF Jars
  <2>2. server \in Seq(Files) /\ client \in Seq(Files)
    BY <2>1
  <2>3. ToCheck = server \o client
    BY DEF ToCheck
  <2> HIDE DEF server, client
  <2>. QED
    BY <2>2, <2>3
<1> HIDE DEF n
<1>4. n \in Jobs
  BY <1>3, IdleJob DEF Jobs, Points, n
<1>5. n.at = "look" /\ n.checks = TRUE /\ n.running = Idle.running
  BY IdleJob DEF Jobs, n
<1>6. HashInv(n) /\ RoleInv(p, n)
  BY <1>1, <1>5, IdleJob DEF HashInv, RoleInv
<1>7. /\ runs' \in [Processes -> Nat] /\ disturbed' \in [Setups -> BOOLEAN]
      /\ verdict' \in [Readers -> [Jars -> Verdicts \cup {None}]]
      /\ \A q \in Setups \ {p} : disturbed'[q] = disturbed[q]
  BY <1>1, <1>2 DEF TypeInv
<1>8. VerdictInv'
  BY <1>1, <1>2 DEF VerdictInv, Told, Had, cache
<1>. QED
  BY <1>1, <1>2, <1>4, <1>6, <1>7, <1>8, CallStep

-----------------------------------------------------------------------------
(* Steps that change files, the manifest, the reports or the record.        *)

\* No remembered verdict is made wrong by what happens to its file.
LEMMA VerdictsStay ==
  ASSUME TypeInv, TypeInv', VerdictInv, UNCHANGED verdict, \A f \in Files : Moves(f)
  PROVE  VerdictInv'
<1>1. VerdictInv /\ TypeInv
  OBVIOUS
<1>2. ASSUME NEW q \in Readers, NEW f \in Jars, verdict[q][f] # None
      PROVE  Told(verdict[q][f].key, verdict[q][f].valid, f)'
  <2>1. verdict[q][f].key \in Identities
    BY <1>1, <1>2 DEF TypeInv, Verdicts
  <2>2. f \in Files /\ Moves(f)
    BY FilesOfRuntime
  <2>3. Told(verdict[q][f].key, verdict[q][f].valid, f)
    BY <1>1, <1>2 DEF VerdictInv
  <2> DEFINE id == verdict[q][f].key
             valid == verdict[q][f].valid
  <2> HIDE DEF id, valid
  <2>4. Told(id, valid, f)'
    <3>1. id \in Identities /\ Told(id, valid, f)
      BY <2>1, <2>3 DEF id, valid
    <3>2. id' = id /\ valid' = valid
      BY DEF id, valid
    <3>3. /\ id.version <= file'[f].version /\ (id.version = file'[f].version => id.inode = file'[f].inode)
          /\ id.version = file'[f].version /\ file'[f].there => (valid <=> file'[f].pinned)
      BY <1>1, <2>2, <3>1, ToldStays DEF Told, Had
    <3>. QED
      BY <3>2, <3>3 DEF Told, Had
  <2>. QED
    BY <2>4 DEF id, valid
<1>. QED
  BY <1>2 DEF VerdictInv

\* p goes on with j, which has hashed nothing, and no file changes back.
LEMMA DataStep ==
  ASSUME IInv, NEW p \in Processes, NEW j \in Jobs, Change(p, j), TypeInv', FilesInv', RecordInv',
         UNCHANGED verdict, \A f \in Files : Moves(f), reports \subseteq reports',
         manifest # None => manifest' # None, \A q \in Setups \ {p} : Gentle(q),
         j.at \notin {"open", "close"}, HashInv(j), RoleInv(p, j),
         p \in Setups => PreparedInv(job[p])' /\ DoneInv(p, job[p])'
  PROVE  Step(p)
<1>1. job'[p] = j /\ \A q \in Processes \ {p} : job'[q] = job[q]
  BY DEF Change, IInv, TypeInv
<1>2. VerdictInv'
  BY VerdictsStay DEF IInv
<1>3. JobInv(p, job[p])'
  BY <1>1 DEF JobInv, HashInv, RoleInv
<1>. QED
  BY <1>1, <1>2, <1>3 DEF Step

\* A file that did not verify is removed by name.
LEMMA RemoveStep ==
  ASSUME IInv, NEW p \in Setups, Remove(p)
  PROVE  Step(p)
<1> DEFINE j == job[p]
           f == Head(j.todo)
           n == PutAt(j, "recheck")
<1>1. /\ j \in Jobs /\ JobInv(p, j) /\ j.at = "remove" /\ j.todo # <<>> /\ f \in Jars /\ f \in Files
      /\ p \in Processes /\ TypeInv /\ FilesInv /\ RecordInv
  BY FilesOfRuntime DEF IInv, TypeInv, Remove, At, JobInv, HashInv, Processes
<1>2. /\ file' = [file EXCEPT ![f].there = FALSE]
      /\ UNCHANGED <<record, manifest, reports, verdict, runs, edits, touched>>
      /\ IF file[f].there THEN Disturbs(p) ELSE UNCHANGED disturbed
  BY DEF Remove
<1>3. ~j.checks /\ p \notin Readers
  BY <1>1, ProcessesAssumption DEF JobInv, RoleInv
<1>4. /\ n \in Jobs /\ n.at = "recheck" /\ n.level = j.level /\ n.checks = j.checks /\ n.todo = j.todo
      /\ n.found = j.found /\ n.kept = j.kept /\ n.running = j.running
  BY <1>1, AtJob DEF Points
<1>5. Change(p, n)
  BY <1>1, GotoIsPut DEF Remove
<1> HIDE DEF n
<1>6. job' \in [Processes -> Jobs] /\ job'[p] = n
  BY <1>1, <1>4, <1>5 DEF Change, TypeInv
<1>7. /\ file' \in [Files -> Cached] /\ \A g \in Files \ {f} : file'[g] = file[g]
      /\ file'[f].there = FALSE /\ file'[f].version = file[f].version /\ file'[f].inode = file[f].inode
  BY <1>1, <1>2 DEF TypeInv, Cached
<1>8. /\ disturbed' \in [Setups -> BOOLEAN] /\ disturbed'[p] = disturbed[p]
      /\ \A q \in Setups \ {p} : (~file[f].there /\ disturbed'[q] = disturbed[q]) \/ disturbed'[q]
  BY <1>1, <1>2 DEF TypeInv, Disturbs
<1>9. TypeInv'
  BY <1>1, <1>2, <1>6, <1>7, <1>8 DEF TypeInv
<1>10. FilesInv' /\ RecordInv' /\ \A g \in Files : Moves(g)
  <2>1. \A g \in Files : Moves(g)
    BY <1>7 DEF Moves
  <2>2. FilesInv'
    BY <1>1, <1>2, <1>7 DEF FilesInv
  <2>. QED
    BY <1>1, <1>2, <2>1, <2>2 DEF RecordInv
<1>11. ASSUME NEW q \in Setups \ {p} PROVE Gentle(q)
  <2>1. ~file[f].there => \A g \in Files : Verifies(g) => Verifies(g)'
    BY <1>7 DEF Verifies
  <2>. QED
    BY <1>2, <1>8, <2>1 DEF Gentle
<1>12. HashInv(n) /\ RoleInv(p, n)
  BY <1>1, <1>3, <1>4 DEF JobInv, HashInv, RoleInv
<1>13. PreparedInv(job[p])'
  BY <1>1, <1>2, <1>3, <1>4, <1>6 DEF JobInv, PreparedInv, Staged, Checking
<1>14. DoneInv(p, job[p])'
  BY <1>1, <1>2, <1>3, <1>4, <1>6, <1>8 DEF JobInv, DoneInv, Staged, Checking, Recorded
<1>. QED
  BY <1>1, <1>2, <1>4, <1>5, <1>9, <1>10, <1>11, <1>12, <1>13, <1>14, DataStep

\* A verified download takes the place of what was there.
LEMMA InstallKeeps ==
  ASSUME TypeInv, FilesInv, NEW f \in Files, file' = [file EXCEPT ![f] = Installed(f, TRUE)],
         touched' = touched \ {f}
  PROVE  /\ file' \in [Files -> Cached] /\ \A g \in Files : file'[g].inode <= file'[g].version
         /\ touched' \subseteq Files /\ FilesInv'
         /\ \A g \in Files : Moves(g) /\ (Verifies(g) => Verifies(g)')
         /\ Verifies(f)'
<1>1. /\ Installed(f, TRUE) \in Cached /\ Installed(f, TRUE).pinned /\ Installed(f, TRUE).there
      /\ Installed(f, TRUE).version > file[f].version
      /\ Installed(f, TRUE).inode <= Installed(f, TRUE).version
  BY DEF TypeInv, Cached, Installed
<1>2. /\ file' \in [Files -> Cached] /\ file'[f] = Installed(f, TRUE)
      /\ \A g \in Files \ {f} : file'[g] = file[g]
  BY <1>1 DEF TypeInv
<1>3. \A g \in Files : file'[g].inode <= file'[g].version
  BY <1>1, <1>2 DEF TypeInv
<1>4. touched' \subseteq Files /\ FilesInv'
  BY <1>1, <1>2 DEF TypeInv, FilesInv
<1>5. ASSUME NEW g \in Files PROVE Moves(g)
  BY <1>1, <1>2 DEF Moves
<1>6. Verifies(f)' /\ \A g \in Files : Verifies(g) => Verifies(g)'
  BY <1>1, <1>2 DEF Verifies
<1>. QED
  BY <1>2, <1>3, <1>4, <1>5, <1>6

\* A file that was missing or did not verify is fetched.
LEMMA FetchStep ==
  ASSUME IInv, NEW p \in Setups, Fetch(p)
  PROVE  Step(p)
<1> DEFINE j == job[p]
           f == Head(j.todo)
           n == Passed(j)
<1>1. /\ j \in Jobs /\ JobInv(p, j) /\ j.at = "fetch" /\ j.todo # <<>>
      /\ p \in Processes /\ TypeInv /\ FilesInv /\ RecordInv
  BY DEF IInv, TypeInv, Fetch, At, JobInv, HashInv, Processes
<1>2. f \in Files
  <2>1. j.todo \in Seq(Files)
    BY <1>1 DEF Jobs
  <2>. QED
    BY <1>1, <2>1, HeadTailProperties
<1>3. /\ file' = [file EXCEPT ![f] = Installed(f, TRUE)] /\ touched' = touched \ {f} /\ Change(p, n)
      /\ UNCHANGED <<record, manifest, reports, verdict, runs, edits, disturbed>>
  BY DEF Fetch, Passed
<1>4. ~j.checks /\ p \notin Readers
  BY <1>1, ProcessesAssumption DEF JobInv, RoleInv
<1>5. /\ n \in Jobs /\ n.at = "look" /\ n.level = j.level /\ n.checks = j.checks
      /\ n.found = j.found /\ n.kept = j.kept /\ n.running = j.running
  BY <1>1, PassedJob
<1> HIDE DEF n, f
<1>6. job' \in [Processes -> Jobs] /\ job'[p] = n
  BY <1>1, <1>3, <1>5 DEF Change, TypeInv
<1>7. /\ file' \in [Files -> Cached] /\ \A g \in Files : file'[g].inode <= file'[g].version
      /\ touched' \subseteq Files /\ FilesInv'
      /\ \A g \in Files : Moves(g) /\ (Verifies(g) => Verifies(g)')
  BY <1>1, <1>2, <1>3, InstallKeeps
<1>8. TypeInv' /\ RecordInv'
  BY <1>1, <1>3, <1>6, <1>7 DEF TypeInv, RecordInv
<1>9. \A q \in Setups : Gentle(q)
  BY <1>3, <1>7 DEF Gentle
<1>10. HashInv(n) /\ RoleInv(p, n)
  BY <1>1, <1>4, <1>5 DEF JobInv, HashInv, RoleInv
<1>11. PreparedInv(job[p])'
  BY <1>1, <1>3, <1>4, <1>5, <1>6 DEF JobInv, PreparedInv, Staged, Checking
<1>12. DoneInv(p, job[p])'
  BY <1>1, <1>3, <1>4, <1>5, <1>6 DEF JobInv, DoneInv, Staged, Checking, Recorded
<1>. QED
  BY <1>1, <1>3, <1>5, <1>7, <1>8, <1>9, <1>10, <1>11, <1>12, DataStep

\* A worker leaves an artifact that matches alone, and replaces another.
LEMMA WorkStep ==
  ASSUME IInv, NEW p \in Setups, Work(p)
  PROVE  Step(p)
<1> DEFINE j == job[p]
<1>1. j \in Jobs /\ JobInv(p, j) /\ p \in Processes /\ TypeInv /\ FilesInv /\ RecordInv
  BY DEF IInv, TypeInv, Processes
<1>2. PICK o \in j.running :
        /\ Change(p, [j EXCEPT !.running = @ \ {o}])
        /\ IF file[o].there /\ file[o].pinned
           THEN UNCHANGED <<file, touched>>
           ELSE file' = [file EXCEPT ![o] = Installed(o, TRUE)] /\ touched' = touched \ {o}
        /\ UNCHANGED <<record, manifest, reports, verdict, runs, edits, disturbed>>
  BY DEF Work
<1> DEFINE n == [j EXCEPT !.running = @ \ {o}]
<1>3. j.at = "pool" /\ At(p, "pool") /\ o \in Files
  BY <1>1, <1>2, FilesOfRuntime DEF JobInv, RoleInv, At, Jobs
<1>4. n \in Jobs
  BY <1>1 DEF Jobs
<1>5. /\ n.at = j.at /\ n.level = j.level /\ n.checks = j.checks /\ n.todo = j.todo
      /\ n.found = j.found /\ n.kept = j.kept
  BY <1>1 DEF Jobs
<1>6. n.wanted = j.wanted
  BY <1>1 DEF Jobs
<1>7. Change(p, n)
  BY <1>2
<1> HIDE DEF n
<1>8. JobInv(p, n)
  BY <1>3, <1>4, <1>5, <1>6, <1>7, PoolStep
<1>9. job' \in [Processes -> Jobs] /\ job'[p] = n
  BY <1>1, <1>4, <1>7 DEF Change, TypeInv
<1>10. /\ file' \in [Files -> Cached] /\ \A g \in Files : file'[g].inode <= file'[g].version
       /\ touched' \subseteq Files /\ FilesInv'
       /\ \A g \in Files : Moves(g) /\ (Verifies(g) => Verifies(g)')
  <2>1. CASE file[o].there /\ file[o].pinned
    <3>1. UNCHANGED <<file, touched>>
      BY <1>2, <2>1
    <3>. QED
      BY <1>1, <3>1 DEF TypeInv, FilesInv, Moves, Verifies
  <2>2. CASE ~(file[o].there /\ file[o].pinned)
    BY <1>1, <1>2, <1>3, <2>2, InstallKeeps
  <2>. QED
    BY <2>1, <2>2
<1>11. TypeInv' /\ RecordInv'
  BY <1>1, <1>2, <1>9, <1>10 DEF TypeInv, RecordInv
<1>12. \A q \in Setups : Gentle(q)
  BY <1>2, <1>10 DEF Gentle
<1>13. ~n.checks
  BY <1>1, <1>3, <1>5 DEF JobInv, RoleInv
<1>14. PreparedInv(job[p])'
  BY <1>2, <1>8, <1>9 DEF JobInv, PreparedInv, Staged, Checking
<1>15. DoneInv(p, job[p])'
  BY <1>2, <1>3, <1>5, <1>8, <1>9, <1>13 DEF JobInv, DoneInv, Staged, Checking, Recorded
<1>16. n.at = "pool" /\ HashInv(n) /\ RoleInv(p, n)
  BY <1>3, <1>5, <1>8 DEF JobInv
<1>. QED
  BY <1>1, <1>2, <1>4, <1>7, <1>10, <1>11, <1>12, <1>14, <1>15, <1>16, DataStep

\* The artifacts that were all hashed again are listed.
LEMMA WriteManifestStep ==
  ASSUME IInv, NEW p \in Setups, WriteManifest(p)
  PROVE  Step(p)
<1> DEFINE j == job[p]
           n == [j EXCEPT !.at = "stage", !.taken = {}, !.wanted = {}]
<1>1. /\ j \in Jobs /\ JobInv(p, j) /\ j.at = "preflight" /\ j.taken = j.wanted
      /\ p \in Processes /\ TypeInv /\ FilesInv /\ RecordInv
  BY DEF IInv, TypeInv, WriteManifest, At, Processes
<1>2. /\ Change(p, n) /\ manifest' = j.wanted
      /\ disturbed' = [q \in Setups |-> disturbed[q] \/ (q # p /\ job[q].level = "capture")]
      /\ UNCHANGED <<file, record, reports, verdict, runs, edits, touched>>
  BY DEF WriteManifest
<1>3. /\ ~j.checks /\ p \notin Readers /\ j.level = "capture" /\ j.running = {}
      /\ j.wanted = Artifacts(PlatformOf[p])
  BY <1>1, ProcessesAssumption DEF JobInv, RoleInv
<1>4. n \in Jobs
  BY <1>1 DEF Jobs, Points
<1>5. /\ n.at = "stage" /\ n.level = j.level /\ n.checks = j.checks /\ n.todo = j.todo
      /\ n.found = j.found /\ n.kept = j.kept
  BY <1>1 DEF Jobs
<1>6. n.running = j.running
  BY <1>1 DEF Jobs
<1> HIDE DEF n
<1>7. job' \in [Processes -> Jobs] /\ job'[p] = n
  BY <1>1, <1>2, <1>4 DEF Change, TypeInv
<1>8. manifest' \in SUBSET Objects /\ manifest' # None /\ manifest' = Artifacts(PlatformOf[p])
  BY <1>1, <1>2, <1>3, NoValueAssumption DEF Jobs, None
<1>9. /\ disturbed' \in [Setups -> BOOLEAN] /\ disturbed'[p] = disturbed[p]
      /\ \A q \in Setups \ {p} : (job[q].level # "capture" /\ disturbed'[q] = disturbed[q]) \/ disturbed'[q]
  BY <1>1, <1>2 DEF TypeInv
<1>10. TypeInv' /\ FilesInv' /\ RecordInv'
  BY <1>1, <1>2, <1>7, <1>8, <1>9 DEF TypeInv, FilesInv, RecordInv
<1>11. \A f \in Files : Moves(f)
  BY <1>2 DEF Moves
<1>12. ASSUME NEW q \in Setups \ {p} PROVE Gentle(q)
  BY <1>2, <1>9 DEF Gentle, Verifies
<1>13. HashInv(n) /\ RoleInv(p, n)
  BY <1>1, <1>3, <1>5, <1>6 DEF JobInv, HashInv, RoleInv
<1>14. PreparedInv(job[p])'
  BY <1>5, <1>7, <1>8 DEF PreparedInv
<1>15. DoneInv(p, job[p])'
  BY <1>1, <1>2, <1>3, <1>5, <1>7, <1>8, <1>9 DEF JobInv, DoneInv, Staged, Checking, Recorded, Verifies
<1>. QED
  BY <1>1, <1>2, <1>4, <1>5, <1>8, <1>10, <1>11, <1>12, <1>13, <1>14, <1>15, DataStep

\* A report is copied from what the server wrote.
LEMMA CopyReportStep ==
  ASSUME IInv, NEW p \in Setups, CopyReport(p)
  PROVE  Step(p)
<1> DEFINE j == job[p]
<1>1. j \in Jobs /\ JobInv(p, j) /\ p \in Processes /\ TypeInv /\ FilesInv /\ RecordInv
  BY DEF IInv, TypeInv, Processes
<1>2. UNCHANGED <<file, record, manifest, verdict, runs, edits, touched, disturbed>>
  BY DEF CopyReport
<1>3. PICK next \in {"registries", "write"} :
        /\ j.at = (IF next = "registries" THEN "commands" ELSE "registries") /\ Goto(p, next)
        /\ reports' = reports \cup {j.at}
  BY DEF CopyReport, At
<1> DEFINE n == PutAt(j, next)
<1>4. next \in Points
  BY <1>3 DEF Points
<1>5. /\ n \in Jobs /\ n.at = next /\ n.level = j.level /\ n.checks = j.checks /\ n.todo = j.todo
      /\ n.found = j.found /\ n.kept = j.kept /\ n.running = j.running
  BY <1>1, <1>4, AtJob
<1>6. Change(p, n)
  BY <1>1, <1>3, <1>4, GotoIsPut
<1> HIDE DEF n
<1>7. ~j.checks /\ p \notin Readers
  BY <1>1, <1>3, ProcessesAssumption DEF JobInv, RoleInv
<1>8. job' \in [Processes -> Jobs] /\ job'[p] = n
  BY <1>1, <1>5, <1>6 DEF Change, TypeInv
<1>9. reports' \subseteq Reports /\ reports \subseteq reports' /\ (reports = Reports => reports' = Reports)
  BY <1>1, <1>3 DEF TypeInv, Reports
<1>10. TypeInv' /\ FilesInv' /\ RecordInv'
  BY <1>1, <1>2, <1>8, <1>9 DEF TypeInv, FilesInv, RecordInv
<1>11. \A f \in Files : Moves(f)
  BY <1>2 DEF Moves
<1>12. \A q \in Setups : Gentle(q)
  BY <1>2 DEF Gentle, Verifies
<1>13. HashInv(n) /\ RoleInv(p, n)
  BY <1>1, <1>3, <1>5, <1>7 DEF JobInv, HashInv, RoleInv
<1>14. PreparedInv(job[p])'
  <2>1. PreparedInv(j)
    BY <1>1 DEF JobInv
  <2>2. n.at = "registries" => "commands" \in reports'
    BY <1>3, <1>5
  <2>3. n.at = "write" => reports' = Reports
    BY <1>1, <1>3, <1>5, <1>9, <2>1 DEF PreparedInv, Reports
  <2>. QED
    BY <1>2, <1>3, <1>5, <1>8, <2>1, <2>2, <2>3 DEF PreparedInv, Staged, Checking
<1>15. DoneInv(p, job[p])'
  BY <1>1, <1>2, <1>3, <1>5, <1>7, <1>8 DEF JobInv, DoneInv, Staged, Checking, Recorded, Verifies
<1>. QED
  BY <1>1, <1>2, <1>3, <1>5, <1>6, <1>9, <1>10, <1>11, <1>12, <1>13, <1>14, <1>15, DataStep

\* The parts are recorded.
LEMMA WriteRecordStep ==
  ASSUME IInv, NEW p \in Setups, WriteRecord(p)
  PROVE  Step(p)
<1> DEFINE j == job[p]
           n == IF j.level = "server" THEN Succeeded(j) ELSE PutAt(j, "status")
<1>1. /\ j \in Jobs /\ JobInv(p, j) /\ j.at = "write"
      /\ p \in Processes /\ TypeInv /\ FilesInv /\ RecordInv
  BY DEF IInv, TypeInv, WriteRecord, At, Processes
<1>2. /\ Change(p, n) /\ record' = Prepares(j.level) \cup j.kept
      /\ Disturbs(p)
      /\ UNCHANGED <<file, manifest, reports, verdict, runs, edits, touched>>
  BY DEF WriteRecord, PutAt
<1>3. /\ ~j.checks /\ p \notin Readers /\ j.running = {} /\ j.level \in SetupLevels
      /\ reports = Reports /\ PreparedInv(j)
  BY <1>1, ProcessesAssumption DEF JobInv, RoleInv, PreparedInv
<1>4. /\ n \in Jobs /\ n.at = (IF j.level = "server" THEN "success" ELSE "status")
      /\ n.level = j.level /\ n.found = j.found /\ ~n.checks /\ n.kept \subseteq j.kept /\ n.running = {}
  <2>1. CASE j.level = "server"
    BY <1>1, <2>1, SucceededJob
  <2>2. CASE j.level # "server"
    BY <1>1, <1>3, <2>2, AtJob DEF Points
  <2>. QED
    BY <2>1, <2>2
<1> HIDE DEF n
<1>5. job' \in [Processes -> Jobs] /\ job'[p] = n
  BY <1>1, <1>2, <1>4 DEF Change, TypeInv
<1>6. /\ disturbed' \in [Setups -> BOOLEAN] /\ disturbed'[p] = disturbed[p]
      /\ \A q \in Setups \ {p} : disturbed'[q]
  BY <1>1, <1>2 DEF TypeInv, Disturbs
<1>7. Prepares(j.level) \subseteq Parts /\ ("capture" \in Prepares(j.level) => j.level = "capture")
  BY <1>3 DEF Prepares, SetupLevels, Parts
<1>8. record' \subseteq Parts /\ ("capture" \in record' => manifest # None)
  <2>1. j.kept \subseteq Parts
    BY <1>1 DEF Jobs
  <2>2. "capture" \in record' => j.level = "capture" \/ "capture" \in j.kept
    BY <1>2, <1>7
  <2>. QED
    BY <1>1, <1>2, <1>3, <1>7, <2>1, <2>2 DEF PreparedInv, Staged
<1>9. TypeInv' /\ FilesInv' /\ RecordInv'
  BY <1>1, <1>2, <1>3, <1>5, <1>6, <1>8 DEF TypeInv, FilesInv, RecordInv
<1>10. \A f \in Files : Moves(f)
  BY <1>2 DEF Moves
<1>11. \A q \in Setups \ {p} : Gentle(q)
  BY <1>6 DEF Gentle
<1>12. HashInv(n) /\ RoleInv(p, n)
  BY <1>3, <1>4 DEF HashInv, RoleInv
<1>13. PreparedInv(job[p])'
  BY <1>1, <1>2, <1>3, <1>4, <1>5 DEF PreparedInv, Staged, Checking
<1>14. DoneInv(p, job[p])'
  <2>1. ~disturbed[p] => /\ Recorded = j.found /\ j.kept = j.found \ Prepares(j.level) /\ Verifies("server")
                         /\ j.level = "capture" => /\ manifest = Artifacts(PlatformOf[p])
                                                   /\ \A o \in Artifacts(PlatformOf[p]) : Verifies(o)
    BY <1>1, <1>3 DEF JobInv, DoneInv, Staged, Checking
  <2>2. ~disturbed[p] => record' = Prepares(n.level) \cup n.found
    BY <1>2, <1>4, <2>1
  <2>3. Checking(n) /\ ~(n.checks)
    BY <1>4 DEF Checking
  <2>. QED
    BY <1>2, <1>4, <1>5, <1>6, <2>1, <2>2, <2>3 DEF DoneInv, Staged, Checking, Verifies
<1>. QED
  BY <1>1, <1>2, <1>4, <1>9, <1>10, <1>11, <1>12, <1>13, <1>14, DataStep

-----------------------------------------------------------------------------
(* The invariant, and what it means.                                        *)

\* Initially nothing is cached, and no process has a call.
LEMMA InitInv ==
  ASSUME Init
  PROVE  IInv
<1>1. Absent \in Cached /\ ~Absent.there /\ Absent.inode <= Absent.version
  BY DEF Absent, Cached
<1>2. TypeInv
  <2>1. job \in [Processes -> Jobs]
    BY IdleJob DEF Init
  <2>. QED
    BY <1>1, <2>1 DEF Init, TypeInv, Reports
<1>3. FilesInv /\ VerdictInv /\ RecordInv
  BY <1>1 DEF Init, FilesInv, VerdictInv, RecordInv
<1>. QED
  BY <1>2, <1>3, IdleJob DEF Init, IInv

\* Someone else's change of a file: no undisturbed setup is left.
LEMMA EditInv ==
  ASSUME IInv, NEW f \in Editable, Edit(f)
  PROVE  IInv'
<1>1. TypeInv /\ FilesInv /\ VerdictInv /\ RecordInv /\ f \in Files
  BY EditableAssumption DEF IInv
<1>2. /\ touched' = touched \cup {f} /\ disturbed' = [q \in Setups |-> TRUE] /\ edits' = edits + 1
      /\ UNCHANGED <<record, manifest, reports, verdict, job, runs>>
  BY DEF Edit
<1>3. /\ file' \in [Files -> Cached] /\ \A g \in Files \ {f} : file'[g] = file[g]
      /\ file'[f].inode <= file'[f].version /\ Moves(f)
  <2>1. file[f] \in Cached /\ file[f].inode <= file[f].version /\ file \in [Files -> Cached]
    BY <1>1 DEF TypeInv
  <2>2. CASE \E renamed \in {0, 1} :
               file' = [file EXCEPT ![f].version = @ + 1, ![f].inode = @ + renamed, ![f].pinned = FALSE]
    <3>1. PICK renamed \in {0, 1} :
            file' = [file EXCEPT ![f].version = @ + 1, ![f].inode = @ + renamed, ![f].pinned = FALSE]
      BY <2>2
    <3> DEFINE new == [file[f] EXCEPT !.version = @ + 1, !.inode = @ + renamed, !.pinned = FALSE]
    <3>2. /\ new \in Cached /\ new.version = file[f].version + 1 /\ new.inode <= new.version
          /\ file[f].version \in Nat
      <4> DEFINE old == file[f]
      <4>1. old \in Cached /\ old.inode <= old.version /\ old.version \in Nat /\ old.inode \in Nat
        BY <2>1 DEF Cached
      <4> HIDE DEF old
      <4>2. renamed \in Nat /\ renamed <= 1
        BY <3>1
      <4>3. new = [old EXCEPT !.version = @ + 1, !.inode = @ + renamed, !.pinned = FALSE]
        BY DEF old
      <4> HIDE DEF new
      <4>6. new = [there |-> old.there, inode |-> old.inode + renamed, version |-> old.version + 1,
                   pinned |-> FALSE]
        BY <4>1, <4>3, Zenon DEF Cached
      <4>7. old.there \in BOOLEAN /\ old.inode + renamed \in Nat /\ old.version + 1 \in Nat
        BY <4>1, <4>2 DEF Cached
      <4>4. new \in Cached
        BY <4>6, <4>7 DEF Cached
      <4>5. new.version = old.version + 1 /\ new.inode = old.inode + renamed
        BY <4>6
      <4>. QED
        BY <4>1, <4>2, <4>4, <4>5 DEF old
    <3>3. file' = [file EXCEPT ![f] = new]
      BY <1>1, <2>1, <3>1
    <3> HIDE DEF new
    <3>4. file' \in [Files -> Cached] /\ file'[f] = new /\ \A g \in Files \ {f} : file'[g] = file[g]
      BY <1>1, <2>1, <3>2, <3>3
    <3>. QED
      BY <3>2, <3>4 DEF Moves
  <2>3. CASE file' = [file EXCEPT ![f].there = FALSE, ![f].pinned = FALSE]
    BY <1>1, <2>1, <2>3 DEF Cached, Moves
  <2>. QED
    BY <2>2, <2>3 DEF Edit
<1>4. \A g \in Files : Moves(g) /\ file'[g].inode <= file'[g].version
  BY <1>1, <1>3 DEF Moves, TypeInv
<1>5. TypeInv'
  BY <1>1, <1>2, <1>3, <1>4 DEF TypeInv
<1>6. FilesInv' /\ RecordInv'
  BY <1>1, <1>2, <1>3 DEF FilesInv, RecordInv
<1>7. VerdictInv'
  BY <1>1, <1>2, <1>4, <1>5, VerdictsStay
<1>8. ASSUME NEW q \in Processes PROVE JobInv(q, job[q])'
  <2>1. q \in Setups => Gentle(q)
    BY <1>2 DEF Gentle
  <2>2. reports \subseteq reports' /\ reports' \subseteq Reports /\ job'[q] = job[q]
    BY <1>1, <1>2 DEF TypeInv
  <2>. QED
    BY <1>2, <1>4, <1>5, <2>1, <2>2, OthersStay
<1>. QED
  BY <1>5, <1>6, <1>7, <1>8 DEF IInv

\* A step that changes nothing.
LEMMA StutterInv ==
  ASSUME IInv, UNCHANGED vars
  PROVE  IInv'
<1>1. UNCHANGED <<file, record, manifest, reports, verdict, job, runs, edits, touched, disturbed>>
  BY DEF vars, cache
<1>2. TypeInv' /\ FilesInv' /\ RecordInv' /\ VerdictInv'
  BY <1>1 DEF IInv, TypeInv, FilesInv, RecordInv, VerdictInv, Told, Had
<1>3. ASSUME NEW q \in Processes PROVE JobInv(q, job[q])'
  <2>1. \A g \in Files : Moves(g)
    BY <1>1 DEF Moves
  <2>2. q \in Setups => Gentle(q)
    BY <1>1 DEF Gentle, Verifies
  <2>3. reports' \subseteq Reports
    BY <1>2 DEF TypeInv
  <2>. QED
    BY <1>1, <1>2, <2>1, <2>2, <2>3, OthersStay
<1>. QED
  BY <1>2, <1>3 DEF IInv

\* Every state of the cache, of the calls and of the verdicts satisfies IInv, however
\* many setups and readers overlap, fail, die or are disturbed.
THEOREM Invariance == Spec => []IInv
<1>1. Init => IInv
  BY InitInv
<1>2. ASSUME IInv, [Next]_vars PROVE IInv'
  <2>1. ASSUME NEW p \in Setups, SetupStep(p) PROVE IInv'
    <3>1. p \in Processes
      BY DEF Processes
    <3>2. CASE BeginSetup(p) \/ LookAtMetadata(p) \/ Remove(p) \/ Recheck(p) \/ Fetch(p) \/ PlanRuntime(p)
      BY <1>2, <3>1, <3>2, StepInv, BeginSetupStep, LookAtMetadataStep, RemoveStep, RecheckStep,
         FetchStep, PlanRuntimeStep
    <3>3. CASE Take(p) \/ Work(p) \/ WorkFails(p) \/ PoolEnds(p) \/ Preflight(p) \/ WriteManifest(p)
      BY <1>2, <3>1, <3>3, StepInv, TakeStep, WorkStep, WorkFailsStep, PoolEndsStep, PreflightStep,
         WriteManifestStep
    <3>4. CASE Stage(p) \/ CopyReport(p) \/ WriteRecord(p) \/ BeginCheck(p) \/ Stop(p)
      BY <1>2, <3>1, <3>4, StepInv, StageStep, CopyReportStep, WriteRecordStep, BeginCheckStep, StopStep
    <3>. QED
      BY <2>1, <3>2, <3>3, <3>4 DEF SetupStep
  <2>2. ASSUME NEW p \in Readers, BeginRead(p) PROVE IInv'
    BY <1>2, <2>2, StepInv, BeginReadStep DEF Processes
  <2>3. ASSUME NEW p \in Processes, Look(p) \/ Lstat(p) \/ Open(p) \/ Close(p) PROVE IInv'
    BY <1>2, <2>3, StepInv, LookStep, LstatStep, OpenStep, CloseStep
  <2>4. ASSUME NEW f \in Editable, Edit(f) PROVE IInv'
    BY <1>2, <2>4, EditInv
  <2>5. CASE UNCHANGED vars
    BY <1>2, <2>5, StutterInv
  <2>. QED
    BY <1>2, <2>1, <2>2, <2>3, <2>4, <2>5 DEF Next
<1>. QED
  BY <1>1, <1>2, PTL DEF Spec

\* The state has its types, and downloads are under way in the pool only: when runPool
\* returns or throws, every worker has ended.
THEOREM TypeCorrect == Spec => []TypeOK
<1>1. IInv => TypeOK
  BY FilesOfRuntime DEF IInv, TypeInv, Cached, JobInv, RoleInv, TypeOK, At
<1>. QED
  BY <1>1, Invariance, PTL

\* A verdict of artifactVerificationCache that getCacheStatus would still use is right,
\* whatever was changed while the file was hashed or since.
THEOREM VerdictsAreRight == Spec => []RememberedVerdictsAreRight
<1>1. ASSUME IInv PROVE RememberedVerdictsAreRight
  <2>1. ASSUME NEW p \in Readers, NEW f \in Jars, file[f].there, Remembers(p, f)
        PROVE  verdict[p][f].valid <=> file[f].pinned
    <3>1. verdict[p][f] # None /\ verdict[p][f].key.version = file[f].version
      BY <2>1 DEF Remembers, Identity
    <3>2. Told(verdict[p][f].key, verdict[p][f].valid, f)
      BY <1>1, <3>1 DEF IInv, VerdictInv
    <3>. QED
      BY <2>1, <3>1, <3>2 DEF Told
  <2>. QED
    BY <2>1 DEF RememberedVerdictsAreRight
<1>. QED
  BY <1>1, Invariance, PTL

\* What setup.json and the manifest vouch for was prepared, by setups that may overlap,
\* fail or die at any point, and is there unless others have changed it.
THEOREM RecordBacked == Spec => []RecordIsBacked
<1>1. ASSUME IInv PROVE RecordIsBacked
  <2> DEFINE sound(f) == file[f].there => file[f].pinned \/ f \in touched
  <2>1. \A f \in Files : sound(f)
    BY <1>1 DEF IInv, FilesInv
  <2>2. sound("server") /\ sound("client") /\ sound("metadata")
    BY <2>1, FilesOfRuntime DEF Jars
  <2>3. manifest # None => \A o \in manifest : sound(o)
    BY <1>1, <2>1, FilesOfRuntime DEF IInv, TypeInv
  <2>4. record # None => reports = Reports /\ ("capture" \in record => manifest # None)
    BY <1>1 DEF IInv, RecordInv
  <2> HIDE DEF sound
  <2>5. /\ record # None => /\ reports = Reports /\ sound("server")
                            /\ record # {} => sound("client") /\ sound("metadata")
                            /\ "capture" \in record => manifest # None
        /\ manifest # None => \A o \in manifest : sound(o)
    BY <2>2, <2>3, <2>4
  <2>. QED
    BY <2>5 DEF RecordIsBacked, sound
<1>. QED
  BY <1>1, Invariance, PTL

\* A setup-version that succeeds, with nobody changing a file, the record or the manifest
\* it prepares meanwhile, leaves all that was asked for ready and forgets nothing.
THEOREM SuccessIsReady == Spec => []SuccessMeansReady
<1>1. ASSUME IInv PROVE SuccessMeansReady
  <2>1. ASSUME NEW p \in Setups, At(p, "success"), ~disturbed[p]
        PROVE  /\ record = Prepares(job[p].level) \cup job[p].found
               /\ reports = Reports /\ Verifies("server")
               /\ job[p].level # "server" => Verifies("client")
               /\ job[p].level = "capture" =>
                    manifest = Artifacts(PlatformOf[p]) /\ \A o \in manifest : Verifies(o)
    <3>1. job[p] \in Jobs /\ DoneInv(p, job[p]) /\ RoleInv(p, job[p]) /\ job[p].at = "success"
      BY <1>1, <2>1 DEF IInv, TypeInv, JobInv, Processes, At
    <3>2. /\ record = Prepares(job[p].level) \cup job[p].found /\ Verifies("server")
          /\ job[p].level # "server" => Verifies("client")
          /\ job[p].level = "capture" =>
               manifest = Artifacts(PlatformOf[p]) /\ \A o \in manifest : Verifies(o)
      BY <2>1, <3>1 DEF DoneInv, Staged, Checking
    <3>3. job[p].level \in SetupLevels
      BY <2>1, <3>1 DEF RoleInv
    <3>4. record \in SUBSET Parts
      BY <3>1, <3>2, <3>3 DEF Prepares, SetupLevels, Parts, Jobs
    <3>5. reports = Reports
      BY <1>1, <3>4, NoValueAssumption DEF IInv, RecordInv, None
    <3>. QED
      BY <3>2, <3>5
  <2>. QED
    BY <2>1 DEF SuccessMeansReady, Verifies
<1>. QED
  BY <1>1, Invariance, PTL

-----------------------------------------------------------------------------
(* The client runtime that the manifest lists.                              *)

\* The manifest is that of the platform of one of the setups.
ManifestInv == manifest # None => \E p \in Setups : manifest = Artifacts(PlatformOf[p])

\* A native archive that is among the artifacts of a platform is there because its
\* library applies to it, and no library of another path or kind stands for it.
LEMMA NativeApplies ==
  ASSUME NEW platform \in Platforms, NEW l \in Classified, l.path \in Artifacts(platform)
  PROVE  ClassifierMatches(l.classifier, platform)
<1>1. PICK a \in Added(platform) : a.path = l.path
  BY DEF Artifacts
<1>2. a \notin AddedBesides(platform)
  BY <1>1, PathsAssumption
<1>3. PICK m \in Given(platform) : a = [path |-> m.path, hash |-> m.hash]
  BY <1>1, <1>2 DEF Added
<1>4. PICK i \in DOMAIN Libraries : Applies(Libraries[i], platform) /\ m = Libraries[i]
  BY <1>3 DEF Given
<1>5. Libraries[i] = l
  BY <1>1, <1>3, <1>4, PathsAssumption
<1>. QED
  BY <1>4, <1>5 DEF Applies

\* A library with a classifier that is among the artifacts of a platform is of its
\* system and of its architecture, as far as the classifier tells them.
LEMMA ClassifierTells ==
  ASSUME NEW platform \in Platforms, NEW l \in Classified, l.path \in Artifacts(platform)
  PROVE  /\ l.classifier.os \in {NoValue, platform.os}
         /\ ArchitectureOf(l.classifier) \in {NoValue, platform.architecture}
<1>1. ClassifierMatches(l.classifier, platform)
  BY NativeApplies
<1>2. l.classifier # NoValue
  BY DEF Classified
<1>. QED
  BY <1>1, <1>2 DEF ClassifierMatches

\* The manifest changes when a setup of client capture has hashed all artifacts again.
LEMMA ManifestKept ==
  ASSUME IInv, ManifestInv, [Next]_vars
  PROVE  ManifestInv'
<1>1. CASE UNCHANGED manifest
  BY <1>1 DEF ManifestInv
<1>2. ASSUME NEW p \in Setups, WriteManifest(p) PROVE ManifestInv'
  <2>1. JobInv(p, job[p]) /\ job[p].at = "preflight"
    BY <1>2 DEF IInv, Processes, WriteManifest, At
  <2>2. manifest' = Artifacts(PlatformOf[p])
    BY <1>2, <2>1 DEF JobInv, RoleInv, WriteManifest
  <2>. QED
    BY <2>2 DEF ManifestInv
<1>3. ASSUME NEW p \in Setups, SetupStep(p), ~WriteManifest(p) PROVE UNCHANGED manifest
  <2>1. CASE BeginSetup(p) \/ LookAtMetadata(p) \/ Remove(p) \/ Recheck(p) \/ Fetch(p) \/ PlanRuntime(p)
    BY <2>1 DEF BeginSetup, LookAtMetadata, Remove, Recheck, Fetch, PlanRuntime, cache
  <2>2. CASE Take(p) \/ Work(p) \/ WorkFails(p) \/ PoolEnds(p) \/ Preflight(p)
    BY <2>2 DEF Take, Work, WorkFails, PoolEnds, Preflight, cache
  <2>3. CASE Stage(p) \/ CopyReport(p) \/ WriteRecord(p) \/ BeginCheck(p) \/ Stop(p)
    BY <2>3 DEF Stage, CopyReport, WriteRecord, BeginCheck, Stop, cache
  <2>. QED
    BY <1>3, <2>1, <2>2, <2>3 DEF SetupStep
<1>4. ASSUME NEW p \in Readers, BeginRead(p) PROVE UNCHANGED manifest
  BY <1>4 DEF BeginRead, cache
<1>5. ASSUME NEW p \in Processes, Look(p) \/ Lstat(p) \/ Open(p) \/ Close(p) PROVE UNCHANGED manifest
  BY <1>5 DEF Look, Lstat, Open, Close, cache
<1>6. ASSUME NEW f \in Editable, Edit(f) PROVE UNCHANGED manifest
  BY <1>6 DEF Edit
<1>7. UNCHANGED vars => UNCHANGED manifest
  BY DEF vars, cache
<1>. QED
  BY <1>1, <1>2, <1>3, <1>4, <1>5, <1>6, <1>7 DEF Next

\* The class path that client-capture-runtime.json lists has natives of one system and
\* one architecture, as far as their classifiers tell, for any platforms of the setups
\* and any libraries that have paths of their own.
THEOREM OneArchitecture == Spec => []OneNativeArchitecture
<1>1. Init => ManifestInv
  BY DEF Init, ManifestInv
<1>2. Spec => []ManifestInv
  BY <1>1, ManifestKept, Invariance, PTL DEF Spec
<1>3. ManifestInv => OneNativeArchitecture
  <2> SUFFICES ASSUME ManifestInv, manifest # None,
                      NEW a \in Classified, a.path \in manifest,
                      NEW b \in Classified, b.path \in manifest
               PROVE  /\ NoValue \notin {a.classifier.os, b.classifier.os} =>
                           a.classifier.os = b.classifier.os
                      /\ NoValue \notin {ArchitectureOf(a.classifier), ArchitectureOf(b.classifier)} =>
                           ArchitectureOf(a.classifier) = ArchitectureOf(b.classifier)
    BY DEF OneNativeArchitecture
  <2>1. PICK p \in Setups : manifest = Artifacts(PlatformOf[p])
    BY DEF ManifestInv
  <2>2. PlatformOf[p] \in Platforms
    BY PlatformAssumption
  <2>. QED
    BY <2>1, <2>2, ClassifierTells
<1>. QED
  BY <1>2, <1>3, PTL
=============================================================================
