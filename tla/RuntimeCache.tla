---------------------------- MODULE RuntimeCache ----------------------------
(***************************************************************************)
(* The Minecraft runtime cache: setup-version of src/minecraft/cache.ts    *)
(* and client-runtime-setup.ts, which processes of the command line run to *)
(* download, verify and record the official files, and the status and the  *)
(* references that a server process keeps asking for, with its memory of   *)
(* earlier verdicts.                                                       *)
(*                                                                         *)
(* A file has an inode and a version: any change gives it another version  *)
(* (the size and the times), a rename another inode too.  Its content is   *)
(* the pinned one or not.  A download goes to a random name, is verified   *)
(* and renamed into place; only the rename is a step.  The client JAR and  *)
(* the asset index, which one function prepares alike, are one file here.  *)
(***************************************************************************)
EXTENDS ClientRuntime

CONSTANTS
  Setups,      \* processes that run setup-version
  Readers,     \* processes that ask for status and references
  Levels,      \* Levels[p]: what setup p may prepare
  PlatformOf,  \* PlatformOf[p]: the platform setup p sees (of its Node build)
  Concurrency, \* DOWNLOAD_CONCURRENCY
  Editable,    \* the files that others may change
  MaxEdits,    \* bound: how often they do
  MaxRuns      \* bound: MaxRuns[p], the calls of process p

Processes == Setups \cup Readers
Jars == {"server", "client"}
Objects == UNION {Artifacts(PlatformOf[p]) : p \in Setups}
Files == {"metadata"} \cup Jars \cup Objects
Parts == {"assets", "capture"}
Reports == {"commands", "registries"}

ASSUME LevelsAssumption == Levels \in [Setups -> SUBSET {"server", "assets", "capture"}]
ASSUME PlatformAssumption == PlatformOf \in [Setups -> Platforms]
ASSUME BoundsAssumption == MaxRuns \in [Processes -> Nat] /\ MaxEdits \in Nat
ASSUME EditableAssumption == Editable \subseteq Files

\* A server process runs no setup.
ASSUME ProcessesAssumption == Setups \cap Readers = {}
ASSUME NoValueAssumption ==
  /\ \A parts \in SUBSET Parts : parts # NoValue
  /\ \A p \in Setups : Artifacts(PlatformOf[p]) # NoValue

VARIABLES
  file,     \* file[f]: the file in the cache
  record,   \* setup.json: the parts it records, or None
  manifest, \* client-capture-runtime.json: the artifacts it lists, or None
  reports,  \* the reports that are there
  verdict,  \* verdict[p][f]: artifactVerificationCache of reader p
  job,      \* job[p]: the call process p is in
  runs,     \* runs[p]: the calls p has begun
  edits,    \* counts the changes by others
  touched,  \* history: the files others have changed since they were installed
  disturbed \* history: disturbed[p], since p began, someone has changed or
            \* removed a file, or another setup has written the record, or the
            \* manifest that p prepares too

None == NoValue
cache == <<file, record, manifest, reports>>
vars == <<cache, verdict, job, runs, edits, touched, disturbed>>

Absent == [there |-> FALSE, inode |-> 0, version |-> 0, pinned |-> FALSE]
Identity(f) == [inode |-> f.inode, version |-> f.version]

\* todo: the files still to look at, to prepare or to check them; ok: every
\* check so far; info, before, seen: what verifyCachedArtifact has learnt; found,
\* kept: the parts recorded when it began (history), and those that the setup
\* keeps; wanted: the artifacts of the client runtime; running, taken, failure: of
\* runPool.
Idle == [level |-> None, at |-> "idle", checks |-> FALSE, todo |-> <<>>, ok |-> TRUE,
         info |-> Identity(Absent), before |-> Identity(Absent), seen |-> FALSE,
         found |-> {}, kept |-> {}, wanted |-> {}, running |-> {}, taken |-> {}, failure |-> FALSE]

Init ==
  /\ file = [f \in Files |-> Absent]
  /\ record = None /\ manifest = None /\ reports = {}
  /\ verdict = [p \in Readers |-> [f \in Jars |-> None]]
  /\ job = [p \in Processes |-> Idle]
  /\ runs = [p \in Processes |-> 0] /\ edits = 0
  /\ touched = {} /\ disturbed = [p \in Setups |-> FALSE]

Succeeded(j) == [Idle EXCEPT !.level = j.level, !.at = "success", !.found = j.found]

At(p, point) == job[p].at = point
Change(p, changed) == job' = [job EXCEPT ![p] = changed]
Goto(p, point) == job' = [job EXCEPT ![p].at = point]
Disturbs(p) == disturbed' = [q \in Setups |-> disturbed[q] \/ q # p]

Prepares(level) == CASE level = "server" -> {} [] level = "assets" -> {"assets"}
                     [] OTHER -> Parts
Recorded == IF record = None THEN {} ELSE record

-----------------------------------------------------------------------------
(* Calls begin: setupVersion, loadReferenceCache.                           *)

\* Defect: what was prepared before is forgotten.
KeptNothing(level) == {}

\* The parts of the record that this setup does not prepare.
Kept(level) == Recorded \ Prepares(level)

BeginSetup(p) ==
  /\ job[p].at \in {"idle", "success"} /\ runs[p] < MaxRuns[p]
  /\ runs' = [runs EXCEPT ![p] = @ + 1]
  /\ \E level \in Levels[p] :
       Change(p, [Idle EXCEPT !.level = level, !.at = "look", !.found = Recorded,
                    !.kept = Kept(level),
                    !.todo = IF level = "server" THEN <<"metadata", "server">>
                             ELSE <<"metadata", "server", "client">>])
  /\ disturbed' = [disturbed EXCEPT ![p] = FALSE]
  /\ UNCHANGED <<cache, verdict, edits, touched>>

\* getCacheStatus looks at the JARs that are there and that the record and the
\* metadata vouch for; without a record it says at once that nothing is ready.
ToCheck ==
  LET vouched == "assets" \in record /\ file["metadata"].there /\ file["metadata"].pinned
  IN  (IF file["server"].there THEN <<"server">> ELSE <<>>)
      \o (IF vouched /\ file["client"].there THEN <<"client">> ELSE <<>>)

BeginRead(p) ==
  /\ At(p, "idle") /\ runs[p] < MaxRuns[p] /\ record # None
  /\ runs' = [runs EXCEPT ![p] = @ + 1]
  /\ Change(p, [Idle EXCEPT !.at = "look", !.checks = TRUE, !.todo = ToCheck])
  /\ UNCHANGED <<cache, verdict, edits, touched, disturbed>>

\* The files are done: a setup goes on with the client runtime or at once with
\* the reports, or returns; a reader reads the reports or says setup is needed.
Look(p) ==
  LET j == job[p]
  IN  /\ At(p, "look") /\ j.todo = <<>>
      /\ Change(p, CASE j.checks -> IF p \in Setups /\ j.ok THEN Succeeded(j) ELSE Idle
                     [] ~j.checks /\ j.level = "capture" -> [j EXCEPT !.at = "plan"]
                     [] OTHER -> [j EXCEPT !.at = "stage"])
      /\ UNCHANGED <<cache, verdict, runs, edits, touched, disturbed>>

\* readCachedVersionMetadata: other metadata than the pinned may still do for
\* the server, if it parses.
LookAtMetadata(p) ==
  LET j == job[p]
  IN  /\ At(p, "look") /\ j.todo # <<>> /\ Head(j.todo) = "metadata"
      /\ \/ /\ file["metadata"].there
            /\ file["metadata"].pinned \/ j.level = "server"
            /\ Change(p, [j EXCEPT !.todo = Tail(@)])
         \/ ~file["metadata"].pinned /\ Goto(p, "fetch")
      /\ UNCHANGED <<cache, verdict, runs, edits, touched, disturbed>>

-----------------------------------------------------------------------------
(* verifyCachedArtifact of the file at the head of todo.                    *)

\* What follows a verdict: the next file, or, in preparing, the removal of this.
Concluded(j, valid) ==
  LET told == [j EXCEPT !.info = Idle.info, !.before = Idle.before, !.seen = FALSE]
  IN  IF j.checks THEN [told EXCEPT !.at = "look", !.todo = Tail(@), !.ok = @ /\ valid]
      ELSE [told EXCEPT !.at = IF valid THEN "recheck" ELSE "remove"]

Remembers(p, f) ==
  p \in Readers /\ verdict[p][f] # None /\ verdict[p][f].key = Identity(file[f])

\* lstat, and the memory of an earlier verdict unless the caller forces.
Lstat(p) ==
  LET j == job[p]
      f == Head(j.todo)
  IN  /\ At(p, "look") /\ j.todo # <<>> /\ f \in Jars
      /\ Change(p, IF ~file[f].there
                   THEN IF j.checks THEN Concluded(j, FALSE) ELSE [j EXCEPT !.at = "recheck"]
                   ELSE IF Remembers(p, f) THEN Concluded(j, verdict[p][f].valid)
                   ELSE [j EXCEPT !.at = "open", !.info = Identity(file[f])])
      /\ UNCHANGED <<cache, verdict, runs, edits, touched, disturbed>>

\* open, stat and hash.  The handle keeps what it has opened.
Open(p) ==
  LET j == job[p]
      f == Head(j.todo)
  IN  /\ At(p, "open")
      /\ Change(p, IF ~file[f].there \/ file[f].inode # j.info.inode
                   THEN Concluded(j, FALSE)
                   ELSE [j EXCEPT !.at = "close", !.before = Identity(file[f]),
                                  !.seen = file[f].pinned])
      /\ UNCHANGED <<cache, verdict, runs, edits, touched, disturbed>>

\* Defect: the verdict is remembered under the identity found after hashing.
CloseLate(p) ==
  LET j == job[p]
      f == Head(j.todo)
  IN  /\ At(p, "close")
      /\ Change(p, Concluded(j, j.seen))
      /\ verdict' = IF p \in Readers /\ file[f].there
                    THEN [verdict EXCEPT ![p][f] =
                            [key |-> Identity(file[f]), valid |-> j.seen]]
                    ELSE verdict
      /\ UNCHANGED <<cache, runs, edits, touched, disturbed>>

\* stat and lstat again; the verdict is remembered under the first lstat, unless
\* the path has gone.
Close(p) ==
  LET j == job[p]
      f == Head(j.todo)
      valid == j.seen /\ file[f].there /\ j.before = Identity(file[f])
  IN  /\ At(p, "close")
      /\ Change(p, Concluded(j, valid))
      /\ verdict' = IF p \in Readers /\ file[f].there
                    THEN [verdict EXCEPT ![p][f] = [key |-> j.info, valid |-> valid]]
                    ELSE verdict
      /\ UNCHANGED <<cache, runs, edits, touched, disturbed>>

\* rm of a file that did not verify, by name.
Remove(p) ==
  LET f == Head(job[p].todo)
  IN  /\ At(p, "remove") /\ Goto(p, "recheck")
      /\ file' = [file EXCEPT ![f].there = FALSE]
      /\ IF file[f].there THEN Disturbs(p) ELSE UNCHANGED disturbed
      /\ UNCHANGED <<record, manifest, reports, verdict, runs, edits, touched>>

\* fileExists again: a file that someone has installed meanwhile is taken as it is.
Recheck(p) ==
  LET j == job[p]
  IN  /\ At(p, "recheck")
      /\ Change(p, IF file[Head(j.todo)].there
                   THEN [j EXCEPT !.at = "look", !.todo = Tail(@)]
                   ELSE [j EXCEPT !.at = "fetch"])
      /\ UNCHANGED <<cache, verdict, runs, edits, touched, disturbed>>

Installed(f, pinned) ==
  [there |-> TRUE, inode |-> file[f].inode + 1, version |-> file[f].version + 1,
   pinned |-> pinned]

\* Defect: what arrives is renamed into place unverified.
FetchUnverified(p) ==
  LET f == Head(job[p].todo)
  IN  /\ At(p, "fetch")
      /\ Change(p, [job[p] EXCEPT !.at = "look", !.todo = Tail(@)])
      /\ \E pinned \in BOOLEAN : file' = [file EXCEPT ![f] = Installed(f, pinned)]
      /\ touched' = touched \ {f}
      /\ UNCHANGED <<record, manifest, reports, verdict, runs, edits, disturbed>>

\* downloadVerified, or fetchPinnedVersionMetadata and writeTextAtomic.
Fetch(p) ==
  LET f == Head(job[p].todo)
  IN  /\ At(p, "fetch")
      /\ Change(p, [job[p] EXCEPT !.at = "look", !.todo = Tail(@)])
      /\ file' = [file EXCEPT ![f] = Installed(f, TRUE)]
      /\ touched' = touched \ {f}
      /\ UNCHANGED <<record, manifest, reports, verdict, runs, edits, disturbed>>

-----------------------------------------------------------------------------
(* prepareClientCaptureRuntime.                                             *)

\* createClientCaptureRuntimeManifest, of metadata that have to be the pinned ones.
PlanRuntime(p) ==
  /\ At(p, "plan")
  /\ file["metadata"].there /\ file["metadata"].pinned /\ Consistent(PlatformOf[p])
  /\ Change(p, [job[p] EXCEPT !.at = "pool", !.wanted = Artifacts(PlatformOf[p])])
  /\ UNCHANGED <<cache, verdict, runs, edits, touched, disturbed>>

\* A worker takes the next artifact.
Take(p) ==
  LET j == job[p]
      left == j.wanted \ j.taken
  IN  /\ At(p, "pool") /\ ~j.failure /\ left # {} /\ Cardinality(j.running) < Concurrency
      /\ LET next == CHOOSE o \in left : TRUE
         IN  Change(p, [j EXCEPT !.taken = @ \cup {next}, !.running = @ \cup {next}])
      /\ UNCHANGED <<cache, verdict, runs, edits, touched, disturbed>>

\* downloadArtifact: a file that matches is left alone, another is replaced.
Work(p) ==
  \E o \in job[p].running :
    /\ Change(p, [job[p] EXCEPT !.running = @ \ {o}])
    /\ IF file[o].there /\ file[o].pinned
       THEN UNCHANGED <<file, touched>>
       ELSE file' = [file EXCEPT ![o] = Installed(o, TRUE)] /\ touched' = touched \ {o}
    /\ UNCHANGED <<record, manifest, reports, verdict, runs, edits, disturbed>>

WorkFails(p) ==
  \E o \in job[p].running :
    /\ Change(p, [job[p] EXCEPT !.running = @ \ {o}, !.failure = TRUE])
    /\ UNCHANGED <<cache, verdict, runs, edits, touched, disturbed>>

\* Defect: the first failure ends the pool, whatever the other workers do.
PoolGivesUp(p) ==
  LET j == job[p]
  IN  /\ At(p, "pool") /\ (j.failure \/ (j.running = {} /\ j.taken = j.wanted))
      /\ Change(p, IF j.failure THEN [j EXCEPT !.at = "idle"]
                   ELSE [j EXCEPT !.at = "preflight", !.taken = {}])
      /\ UNCHANGED <<cache, verdict, runs, edits, touched, disturbed>>

\* Promise.all: every worker has ended.
PoolEnds(p) ==
  LET j == job[p]
  IN  /\ At(p, "pool") /\ j.running = {} /\ (j.failure \/ j.taken = job[p].wanted)
      /\ Change(p, IF j.failure THEN Idle ELSE [j EXCEPT !.at = "preflight", !.taken = {}])
      /\ UNCHANGED <<cache, verdict, runs, edits, touched, disturbed>>

\* verifyRuntimeArtifact: there, and with the pinned hash.
Verifies(o) == file[o].there /\ file[o].pinned

\* preflightClientRuntime: each artifact is hashed again.
Preflight(p) ==
  LET j == job[p]
  IN  /\ At(p, "preflight")
      /\ j.taken # j.wanted
      /\ LET next == CHOOSE o \in j.wanted \ j.taken : TRUE
         IN  Change(p, IF Verifies(next) THEN [j EXCEPT !.taken = @ \cup {next}] ELSE Idle)
      /\ UNCHANGED <<cache, verdict, runs, edits, touched, disturbed>>

WriteManifest(p) ==
  /\ At(p, "preflight") /\ job[p].taken = job[p].wanted
  /\ Change(p, [job[p] EXCEPT !.at = "stage", !.taken = {}, !.wanted = {}])
  /\ manifest' = job[p].wanted
  /\ disturbed' = [q \in Setups |-> disturbed[q] \/ (q # p /\ job[q].level = "capture")]
  /\ UNCHANGED <<file, record, reports, verdict, runs, edits, touched>>

-----------------------------------------------------------------------------
(* The reports, the record and the last look.                               *)

\* copyVerifiedServerJar: the private copy that Java runs is the pinned one.
Stage(p) ==
  /\ At(p, "stage")
  /\ Change(p, IF file["server"].there /\ file["server"].pinned
               THEN [job[p] EXCEPT !.at = "commands"] ELSE Idle)
  /\ UNCHANGED <<cache, verdict, runs, edits, touched, disturbed>>

CopyReport(p) ==
  /\ \/ At(p, "commands") /\ Goto(p, "registries") /\ reports' = reports \cup {"commands"}
     \/ At(p, "registries") /\ Goto(p, "write") /\ reports' = reports \cup {"registries"}
  /\ UNCHANGED <<file, record, manifest, verdict, runs, edits, touched, disturbed>>

\* writeJsonAtomic of setup.json.
WriteRecord(p) ==
  LET j == job[p]
  IN  /\ At(p, "write")
      /\ record' = Prepares(j.level) \cup j.kept
      /\ Change(p, IF j.level = "server" THEN Succeeded(j) ELSE [j EXCEPT !.at = "status"])
      /\ Disturbs(p)
      /\ UNCHANGED <<file, manifest, reports, verdict, runs, edits, touched>>

\* The last getCacheStatus.  A setup of client assets fails unless they are ready;
\* a setup of the server alone heeds no part of the answer.
BeginCheck(p) ==
  LET vouched == \E i \in DOMAIN ToCheck : ToCheck[i] = "client"
  IN  /\ At(p, "status")
      /\ Change(p, IF vouched
                   THEN [job[p] EXCEPT !.at = "look", !.checks = TRUE, !.todo = <<"client">>]
                   ELSE Idle)
      /\ UNCHANGED <<cache, verdict, runs, edits, touched, disturbed>>

-----------------------------------------------------------------------------
\* An error, an abort, or the death of the process that runs the setup.
Stop(p) ==
  /\ job[p].at \notin {"idle", "success"}
  /\ Change(p, Idle)
  /\ UNCHANGED <<cache, verdict, runs, edits, touched, disturbed>>

\* Someone else changes a file, in place or by a rename, or removes it.
Edit(f) ==
  /\ file[f].there /\ edits < MaxEdits
  /\ edits' = edits + 1
  /\ \/ \E renamed \in {0, 1} :
          file' = [file EXCEPT ![f].version = @ + 1, ![f].inode = @ + renamed,
                               ![f].pinned = FALSE]
     \/ file' = [file EXCEPT ![f].there = FALSE, ![f].pinned = FALSE]
  /\ touched' = touched \cup {f}
  /\ disturbed' = [q \in Setups |-> TRUE]
  /\ UNCHANGED <<record, manifest, reports, verdict, job, runs>>

SetupStep(p) ==
  \/ BeginSetup(p) \/ LookAtMetadata(p) \/ Remove(p) \/ Recheck(p) \/ Fetch(p)
  \/ PlanRuntime(p) \/ Take(p) \/ Work(p) \/ WorkFails(p) \/ PoolEnds(p)
  \/ Preflight(p) \/ WriteManifest(p) \/ Stage(p) \/ CopyReport(p)
  \/ WriteRecord(p) \/ BeginCheck(p) \/ Stop(p)

Next ==
  \/ \E p \in Setups : SetupStep(p)
  \/ \E p \in Readers : BeginRead(p)
  \/ \E p \in Processes : Look(p) \/ Lstat(p) \/ Open(p) \/ Close(p)
  \/ \E f \in Editable : Edit(f)

Spec == Init /\ [][Next]_vars

-----------------------------------------------------------------------------
\* Types, and: outside the pool no download is under way.
TypeOK ==
  /\ \A f \in DOMAIN file : /\ file[f].inode <= file[f].version
                            /\ {file[f].there, file[f].pinned} \subseteq BOOLEAN
  /\ record \in {None} \cup SUBSET Parts
  /\ manifest # None => manifest \subseteq DOMAIN file
  /\ reports \subseteq Reports /\ touched \subseteq DOMAIN file
  /\ \A p \in Processes : job[p].running # {} => At(p, "pool")

\* A verdict that the status would still use is right: the file verifies if and
\* only if it is the pinned one, however the file was changed while or since it
\* was hashed.
RememberedVerdictsAreRight ==
  \A p \in Readers, f \in Jars :
    file[f].there /\ Remembers(p, f) => (verdict[p][f].valid <=> file[f].pinned)

\* Whatever the record says is prepared was prepared, by setups that overlap,
\* fail or die: the reports are there, and every file it vouches for, with those
\* of the manifest, is the pinned one unless someone else has changed it or it is
\* being replaced.
RecordIsBacked ==
  LET sound(f) == file[f].there => file[f].pinned \/ f \in touched
  IN  /\ record # None => /\ reports = Reports /\ sound("server")
                          /\ record # {} => sound("client") /\ sound("metadata")
                          /\ "capture" \in record => manifest # None
      /\ manifest # None => \A o \in manifest : sound(o)

\* A setup that succeeds undisturbed leaves all it was asked for ready, and what
\* was recorded before it still recorded.
SuccessMeansReady ==
  \A p \in Setups :
    At(p, "success") /\ ~disturbed[p] =>
      /\ record = Prepares(job[p].level) \cup job[p].found
      /\ reports = Reports /\ file["server"].pinned /\ file["server"].there
      /\ record # {} /\ job[p].level # "server" => file["client"].there /\ file["client"].pinned
      /\ job[p].level = "capture" =>
           /\ manifest = Artifacts(PlatformOf[p])
           /\ \A o \in manifest : file[o].there /\ file[o].pinned

\* "Keep exactly one native architecture on the classpath": whichever setups, of Nodes
\* built for different architectures, wrote the manifest one over the other, the
\* libraries it lists agree in the system and in the architecture that their
\* classifiers tell.  (A classifier that tells none is listed on every architecture.)
OneNativeArchitecture ==
  manifest # None =>
    \A a, b \in {l \in Classified : l.path \in manifest} :
      /\ NoValue \notin {a.classifier.os, b.classifier.os} => a.classifier.os = b.classifier.os
      /\ NoValue \notin {ArchitectureOf(a.classifier), ArchitectureOf(b.classifier)} =>
           ArchitectureOf(a.classifier) = ArchitectureOf(b.classifier)
=============================================================================
