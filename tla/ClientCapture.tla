--------------------------- MODULE ClientCapture ---------------------------
(***************************************************************************)
(* One capture call from its start to its end: the host that prepares it,  *)
(* launches Minecraft, and keeps and verifies the evidence                 *)
(* (src/visual/workflow.ts, src/minecraft/client-capture.ts), the capture  *)
(* mod that photographs the planned scenes one by one (CaptureCoordinator, *)
(* SceneFixtureExecutor and ClientFixtureObserver of src/capture-mod), and *)
(* the integrated server whose world the client sees with a delay.         *)
(*                                                                         *)
(* The scenes of a plan are taken in one fixed order, whatever it is.      *)
(* What the client and the server do between two of their steps happens at *)
(* once unless a step says that it comes later.                            *)
(***************************************************************************)
EXTENDS ClientCapturePlan, ClientCaptureReport

CONSTANTS
  Requests,   \* the calls there may be: names to requests of ClientCapturePlan
  InOrder(_), \* the scenes of a plan in the order in which they are taken
  MaxEvents   \* bound on what happens besides: edits, faults, late packets

ASSUME RequestsAssumption == Requests # <<>> /\ MaxEvents \in Nat

\* No value is no measured value, and no record of what was captured.
ASSUME NoValueAssumption ==
  NoValue \notin {"passed", "failed", "reference_arm"} /\ NoValue \notin [packs : Nat, proposal : Nat, evidence : Nat]

\* Every request says what ClientCapturePlan names; a chest armor is declared or not.
ASSUME FieldsAssumption ==
  \A name \in DOMAIN Requests :
    LET r == Requests[name].representation
    IN  /\ DOMAIN Requests[name] =
             {"profile", "representation", "held", "gui", "scaleViews", "hitboxViews", "settling"}
        /\ Requests[name].scaleViews \in BOOLEAN /\ Requests[name].hitboxViews \in BOOLEAN
        /\ Requests[name].held.hand \in {"right", "left"}
        /\ IsFiniteSet(Requests[name].gui.counts) /\ Cardinality(Requests[name].gui.counts) <= 3
        /\ r.states \in Seq(Range(r.states))
        /\ r.target = "headwear" => r.review.chestArmor \in BOOLEAN

VARIABLES
  request,    \* the name of the request that the call is given
  pc,         \* the next step of the host
  outcome,    \* how the call ended, or NoValue
  held,       \* what the host has read: packs, proposal, runtime
  disk,       \* what is there: the same; committed, a session, a ready runtime
  cancelled,  \* the caller has aborted
  events,     \* how many of the events that MaxEvents bounds have happened
  process,    \* the Minecraft process
  client,     \* the coordinator of the mod
  world,      \* server: what the server has staged; seen: what the client has received
  views,      \* the photographs, with what was different from the plan when they were taken
  output,     \* the files the mod has written: report, sentinel; poor: a measurement that is not good
  record      \* the capture that the revision refers to, or NoValue

hostVars == <<pc, outcome, held, record>>
modVars == <<client, world, views, output>>
vars == <<request, hostVars, disk, cancelled, events, process, modVars>>

-----------------------------------------------------------------------------
(* Plans.                                                                   *)

Representation == Requests[request].representation

Planned == {name \in DOMAIN Requests : ~Refused(Requests[name])}
Scenes == [name \in Planned |-> ScenesOf(Requests[name])]
Plans == [name \in Planned |-> InOrder(Scenes[name])]
Plan == Plans[request]

\* A plan has every scene once.
ASSUME OrderAssumption ==
  \A name \in Planned :
    /\ Plans[name] \in Seq(Scenes[name]) /\ Range(Plans[name]) = Scenes[name]
    /\ Len(Plans[name]) = Cardinality(Scenes[name])

\* The requests whose plans the protocol accepts.
Accepted == {name \in Planned : PlanAccepted(Requests[name].representation, Scenes[name])}

\* Defect: the settled ticks of a measurement control are taken for those asked for.
RederivedOfAny(q, scenes) ==
  [q EXCEPT
     !.scaleViews = \E s \in scenes : s.kind = "first_person_scale_reference",
     !.hitboxViews = \E s \in scenes : s.kind = "debug_hitbox_reference",
     !.settling = IF q.representation.strategy \in DisplayKinds
                  THEN CHOOSE ticks \in {s.settling : s \in scenes} : TRUE
                  ELSE NoValue]

\* The options that the verification of a capture derives from its scenes.
Rederived(q, scenes) ==
  [q EXCEPT
     !.scaleViews = \E s \in scenes : s.kind = "first_person_scale_reference",
     !.hitboxViews = \E s \in scenes : s.kind = "debug_hitbox_reference",
     !.settling = IF q.representation.strategy \in DisplayKinds
                  THEN CHOOSE ticks \in {s.settling : s \in {v \in scenes : v.required}} : TRUE
                  ELSE NoValue]

\* The names that the scenes of a plan are given by its states.
NamesIn(name) == {NameIn(Requests[name].representation, s.base) : s \in Scenes[name]}

\* The requests whose plan, made again from the stored scenes, is the stored one.
Rederivable ==
  {name \in Planned :
     LET again == Rederived(Requests[name], Scenes[name])
     IN  ~Refused(again) /\ ScenesOf(again) = Scenes[name]}

-----------------------------------------------------------------------------
(* The studio.                                                              *)

IsControl(s) == s.fixture.kind = "measurement_control"

\* environmentAnchorScene: the studio of a control is that of its stock scene.
Anchor(s) == IF IsControl(s) THEN CHOOSE v \in Scenes[request] : v.required /\ v.base = s.base ELSE s

\* The scenes whose subject is an entity that the server hands over.
Spawns(s) ==
  \/ s.fixture.kind \in {"native_entity", "native_placeable_entity", "display_rig"}
  \/ s.fixture.kind = "block_display" /\ s.context # "inventory"
  \/ s.fixture.kind = "equippable_head" /\ s.fixture.subject = "armor_stand"

\* The subject of these scenes is equipped or put in a slot by the client itself.
IsLocal(s) == s.target \in {"held_item", "gui_item", "headwear"} \/ s.context = "inventory"

\* What the player holds, wears or has in the first slot.
HandsOf(s) ==
  LET f == s.fixture
  IN  IF s.target \in {"held_item", "gui_item"} THEN <<f.state, s.context, s.hand, s.presentation>>
        ELSE IF f.kind = "equippable_head" THEN
             IF f.subject = "player" THEN <<f.state, f.chest>> ELSE <<"bare", f.chest>>
        ELSE IF s.context = "inventory" /\ ~IsControl(s) THEN <<"inventory item">>
        ELSE <<>>

\* The block at the origin.
SubjectOf(s) ==
  IF s.fixture.kind \in {"native_block_state", "native_placeable_block"} /\ ~IsLocal(s)
  THEN <<s.fixture.state>> ELSE <<"air">>

\* The blocks put around the subject.
AroundOf(s) ==
  LET f == Anchor(s).fixture
  IN  CASE s.target = "block" -> <<f.layout>>
        [] s.target = "placeable" -> <<f.attachment, f.orientation, f.context>>
        [] OTHER -> <<>>

\* Scene s, the one at this place.  Entities are known by the scene that spawned them.
Staging(s, at) ==
  [environment |-> <<s.low, s.biome>>, hands |-> HandsOf(s), subject |-> SubjectOf(s),
   around |-> AroundOf(s), entities |-> IF Spawns(s) THEN at ELSE 0]

Empty == [environment |-> <<>>, hands |-> <<>>, subject |-> <<"air">>, around |-> <<>>, entities |-> 0]

\* The blocks that are read back: only those which a layout has.
LayoutSeen(seen, wanted) ==
  \/ seen = wanted
  \/ wanted \in {<<"single">>, <<"inventory">>}
  \/ {seen, wanted} = {<<"transparency_light">>, <<"transparency_overlap">>}

\* Defect: any entity will do, the one of the scene before too.
FixtureSeenAnyEntity(s, wanted, seen) ==
  /\ Spawns(s) => seen.entities # 0
  /\ IsLocal(s) => seen.hands = wanted.hands
  /\ ~IsLocal(s) /\ ~Spawns(s) /\ s.target # "entity" => seen.subject = wanted.subject
  /\ s.target = "block" /\ ~IsControl(s) => LayoutSeen(seen.around, wanted.around)
  /\ s.target = "placeable" => seen.around = wanted.around

\* ClientFixtureObserver.observe: what has to be seen before a frame counts.
FixtureSeen(s, wanted, seen) ==
  /\ Spawns(s) => seen.entities = wanted.entities
  /\ IsLocal(s) => seen.hands = wanted.hands
  /\ ~IsLocal(s) /\ ~Spawns(s) /\ s.target # "entity" => seen.subject = wanted.subject
  /\ s.target = "block" /\ ~IsControl(s) => LayoutSeen(seen.around, wanted.around)
  /\ s.target = "placeable" => seen.around = wanted.around

-----------------------------------------------------------------------------
(* The host.                                                                *)

Init ==
  /\ request \in DOMAIN Requests
  /\ pc = "loading" /\ outcome = NoValue /\ record = NoValue
  /\ held = [packs |-> NoValue, proposal |-> NoValue, runtime |-> NoValue, evidence |-> NoValue]
  /\ disk \in [packs : {0}, proposal : {0}, runtime : {0}, evidence : {0},
            committed : BOOLEAN, session : BOOLEAN, ready : BOOLEAN]
  /\ cancelled = FALSE /\ events = 0 /\ process = "none"
  /\ client = [phase |-> "none", at |-> 1, frames |-> 0, settled |-> 0, ticks |-> 0, acted |-> 0,
               setup |-> "none", use |-> "none", grab |-> "none", shot |-> {}]
  /\ world = [server |-> Empty, seen |-> Empty]
  /\ views = <<>>
  /\ output = [report |-> "none", sentinel |-> FALSE, poor |-> NoValue]

Keep(what) == held' = [held EXCEPT ![what] = disk[what]]
Goes(to) == pc' = to /\ UNCHANGED outcome
Ends(result) == pc' = "ended" /\ outcome' = result

UnfitOptions(q) ==
  \/ q.scaleViews /\ q.profile # "held_item"
  \/ q.hitboxViews /\ TargetOf(q.profile) \notin {"entity", "placeable"}

\* captureUnlocked up to the check of the proposal.
Load ==
  /\ pc = "loading"
  /\ IF cancelled \/ disk.committed \/ UnfitOptions(Requests[request]) THEN Ends("thrown")
       ELSE IF Requests[request].profile \in {"projectile", "armor"} THEN Ends("failed")
       ELSE Goes("probing")
  /\ Keep("proposal")
  /\ UNCHANGED <<process, modVars, record>>

\* preflightGraphicalSession: a cancelled probe fails, and finds no session.
SessionReady == ~cancelled /\ disk.session

\* preflightMinecraftClientCapture up to the probes of Java and of the session.
Probe ==
  /\ pc = "probing"
  /\ IF SessionReady THEN Goes("preflight") ELSE Ends("setup_required")
  /\ UNCHANGED <<held, process, modVars, record>>

\* preflightClientRuntime: all artifacts of the runtime are there.
RuntimeReady == disk.ready

\* preflightMinecraftClientCapture: what is pinned for this capture.
Preflight ==
  /\ pc = "preflight"
  /\ IF cancelled THEN Ends("thrown")
       ELSE IF ~RuntimeReady THEN Ends("setup_required")
       ELSE Goes("snapshot")
  /\ Keep("runtime")
  /\ UNCHANGED <<process, modVars, record>>

\* The packs, with the files of the proposal over them.
Snapshot ==
  /\ pc = "snapshot"
  /\ IF cancelled THEN Ends("thrown") ELSE Goes("planning")
  /\ Keep("packs")
  /\ UNCHANGED <<process, modVars, record>>

\* clientCaptureIdentityForPlan: what the provenance of the plan binds.
Identity == [request |-> request, packs |-> held.packs, proposal |-> held.proposal, runtime |-> held.runtime]

\* createPlan: what createVisualClientCapturePlan throws ends the call.
MakePlan ==
  /\ pc = "planning"
  /\ IF cancelled THEN Ends("cancelled")
       ELSE IF request \notin Accepted THEN Ends("failed")
       ELSE Goes("staging")
  /\ UNCHANGED <<held, process, modVars, record>>

\* extractNativeRequirement and stageCaptureFiles, in a directory of this call only.
Stage ==
  /\ pc = "staging"
  /\ IF cancelled THEN Ends("cancelled") ELSE Goes("launching")
  /\ UNCHANGED <<held, process, modVars, record>>

\* The reader of the mod wants the attack pose on a zombie.
PlanIsRead ==
  \A s \in Scenes[request] : s.fixture.kind = "native_entity" /\ s.fixture.pose = "attack" =>
    ContentOf(Representation, s.fixture.state).type = "zombie"

Launch ==
  /\ pc = "launching" /\ Goes("waiting")
  /\ process' = "alive"
  /\ client' = [client EXCEPT !.phase = IF PlanIsRead THEN "waiting_for_world" ELSE "not_read"]
  /\ UNCHANGED <<held, world, views, output, record>>

\* The process runner has settled.
Settled ==
  /\ pc = "waiting" /\ process \notin {"none", "alive"}
  /\ CASE process = "cancelled" -> Ends("cancelled")
       [] process = "timed_out" -> Ends("timeout")
       [] process = "crashed" -> Ends("failed")
       [] OTHER -> Goes("pinning")
  /\ UNCHANGED <<held, process, modVars, record>>

\* verifyRuntimeStayedPinned.
Pin ==
  /\ pc = "pinning"
  /\ IF cancelled THEN Ends("cancelled")
       ELSE IF disk.runtime # held.runtime THEN Ends("failed")
       ELSE Goes("verifying")
  /\ UNCHANGED <<held, process, modVars, record>>

\* The report as the mod has composed it of its views.
Report ==
  LET scenes == Scenes[request]
      augmented == Augmented(scenes)
      ValueOf(intent) == IF output.poor # NoValue /\ output.poor[1] = intent.id THEN output.poor[2] ELSE "passed"
  IN  [identity |-> Identity,
       views |-> [i \in DOMAIN views |->
                    [scene |-> Plan[i], observed |-> Observed(Representation, Plan[i]),
                     evidence |-> Evidence(Representation, Plan[i]),
                     settled |-> views[i].settled, frames |-> views[i].frames, tick |-> views[i].tick,
                     environment |-> <<Plan[i].low, Plan[i].biome>>]],
       measurements |-> UNION {{Measured(augmented, s, intent, ValueOf(intent)) : intent \in s.intents} : s \in scenes}]

\* One report is composed, and what is asked is asked of it.
ReportIsAccepted ==
  \E report \in {Report} : ReportAccepted(Representation, Scenes[request], Identity, report)
CaptureIsReady == \E report \in {Report} : CaptureReady(Scenes[request], report)

\* verifyClientCaptureOutput finds a sentinel, and a report that says it is complete.
Completed == output.sentinel /\ output.report = "complete"

\* verifyClientCaptureComplete: the report, the images and the log.
VerifyOutput ==
  /\ pc = "verifying"
  /\ IF ~cancelled /\ Completed /\ ReportIsAccepted THEN Goes("collecting") ELSE Ends("failed")
  /\ UNCHANGED <<held, process, modVars, record>>

\* collectEvidenceArtifacts; the temporary directory is removed.
Collect ==
  /\ pc = "collecting" /\ Goes("storing")
  /\ UNCHANGED <<held, process, modVars, record>>

\* The blobs and the review of the run store, which nothing refers to yet.  Their
\* labels end as the ids of the scenes do, where a last dash is made a zero.
Store ==
  /\ pc = "storing"
  /\ IF cancelled \/ "underscore" \in NamesIn(request) THEN Ends("thrown") ELSE Goes("recording")
  /\ Keep("evidence")
  /\ UNCHANGED <<process, modVars, record>>

\* states.update: refuses another proposal; that it may be committed is not looked at.
Record ==
  /\ pc = "recording"
  /\ IF disk.proposal = held.proposal
     THEN Goes("reverifying") /\ record' = Restrict(held, {"packs", "proposal", "evidence"})
     ELSE Ends("thrown") /\ UNCHANGED record
  /\ UNCHANGED <<held, process, modVars>>

\* The artifacts of the revision are those that were captured.
IdentityHolds == disk.proposal = record.proposal

\* parseStoredClientCaptureEvidence: the report is one that was accepted, but every
\* scene id has to be a label, as it is.
EvidenceParses == "dash" \notin NamesIn(request)

\* The packs with the proposal over them still have the contents that were captured.
PacksHold == disk.packs = record.packs

\* The stored report, sentinel, log, photographs and sheets have the recorded hashes.
ArtifactsHold == disk.evidence = record.evidence

\* verifyClientCaptureEvidence of what has just been recorded.
Reverify ==
  /\ pc = "reverifying"
  /\ LET verified == /\ ~cancelled /\ IdentityHolds /\ EvidenceParses /\ PacksHold
                     /\ request \in Rederivable /\ ArtifactsHold
     IN  IF ~verified THEN Ends("unverified")
         ELSE IF CaptureIsReady THEN Ends("passed")
         ELSE Ends("failed")
  /\ UNCHANGED <<held, process, modVars, record>>

HostStep ==
  /\ \/ Load \/ Probe \/ Preflight \/ Snapshot \/ MakePlan \/ Stage \/ Launch \/ Settled
     \/ Pin \/ VerifyOutput \/ Collect \/ Store \/ Record \/ Reverify
  /\ UNCHANGED <<request, disk, cancelled, events>>

-----------------------------------------------------------------------------
(* The capture mod, on the ticks and frames of the client; s is the scene    *)
(* that is being taken, wanted what has to be staged for it.                 *)

At(phase) == process = "alive" /\ client.phase = phase
UNCHANGEDByMod == UNCHANGED <<request, hostVars, disk, cancelled, process>>

StartUp == [waiting_for_world |-> "creating_world", creating_world |-> "configuring_world",
            configuring_world |-> "reloading_resources",
            reloading_resources |-> "waiting_for_reload_overlay",
            waiting_for_reload_overlay |-> "preparing_scene"]

\* The world is made and configured, and the resource pack loaded, without a failure.
StartsUp ==
  /\ client.phase \in DOMAIN StartUp /\ process = "alive"
  /\ client' = [client EXCEPT !.phase = StartUp[client.phase]]
  /\ UNCHANGED <<world, views, output>>

\* prepareScene: empties the hands or equips the player, and hands the server the studio to set up.
PrepareScene(s) ==
  /\ At("preparing_scene")
  /\ client' = [client EXCEPT !.phase = "waiting_for_equip", !.frames = 0, !.settled = 0, !.ticks = 0,
                              !.acted = 0, !.setup = "submitted", !.use = "none"]
  /\ world' = [world EXCEPT !.seen.hands = HandsOf(s)]
  /\ UNCHANGED <<views, output>>

\* The task of the server; the client has received what it staged, or none of it yet.
ServerSetsUp(wanted, late) ==
  /\ process = "alive" /\ client.setup = "submitted"
  /\ client' = [client EXCEPT !.setup = "done"]
  /\ world' = [server |-> wanted, seen |-> IF late THEN world.seen ELSE wanted]
  /\ UNCHANGED <<views, output>>

Received == [environment |-> {"environment"}, blocks |-> {"subject", "around"}, entities |-> {"entities"}]

\* Packets that were late.
ClientSees(kind) ==
  /\ process = "alive"
  /\ \E part \in Received[kind] : world.seen[part] # world.server[part]
  /\ world' = [world EXCEPT !.seen = [part \in DOMAIN @ |->
                 IF part \in Received[kind] THEN world.server[part] ELSE @[part]]]
  /\ UNCHANGED <<client, views, output>>

EnvironmentSeen(wanted) == world.seen.environment = wanted.environment
Acts(s) == s.target = "held_item" /\ s.animation[1] # "idle"

\* The fixture is there; its ticks are counted, then the player acts or the frames begin.
WaitForEquip(s, wanted) ==
  /\ At("waiting_for_equip") /\ client.setup = "done" /\ EnvironmentSeen(wanted)
  /\ client' =
       LET ticks == IF IsControl(s) \/ "tick" \notin DOMAIN s.fixture THEN 0 ELSE s.fixture.tick
       IN  IF client.settled < s.settling THEN [client EXCEPT !.settled = @ + 1]
             ELSE IF client.ticks < ticks THEN [client EXCEPT !.ticks = @ + 1]
             ELSE IF Acts(s) THEN [client EXCEPT !.phase = "waiting_for_animation",
                                              !.use = IF s.animation[1] = "swing" THEN "done" ELSE "submitted"]
             ELSE [client EXCEPT !.phase = "waiting_for_frames"]
  /\ UNCHANGED <<world, views, output>>

ServerUsesItem ==
  /\ process = "alive" /\ client.use = "submitted"
  /\ client' = [client EXCEPT !.use = "done"]
  /\ UNCHANGED <<world, views, output>>

\* The first frame at the tick that was asked for is the photograph.
WaitForAnimation(s) ==
  /\ At("waiting_for_animation") /\ client.use = "done"
  /\ client' = IF client.acted < s.animation[2] THEN [client EXCEPT !.acted = @ + 1]
               ELSE [client EXCEPT !.phase = "waiting_for_frames", !.frames = SettleFrames - 1]
  /\ UNCHANGED <<world, views, output>>

\* A frame counts if all that is read back is as planned; others count from the start.
Frame(s, wanted, ready) ==
  LET frames == IF ready /\ FixtureSeen(s, wanted, world.seen) THEN client.frames + 1 ELSE 0
  IN  /\ At("waiting_for_frames") /\ EnvironmentSeen(wanted)
      /\ ~ready => client.frames > 0
      /\ client' = IF frames < SettleFrames THEN [client EXCEPT !.frames = frames]
                   ELSE [client EXCEPT !.phase = "capturing", !.frames = frames, !.grab = "pending",
                                       !.shot = {part \in DOMAIN wanted : world.seen[part] # wanted[part]}]
      /\ UNCHANGED <<world, views, output>>

\* completeScreenshot, on a thread of its own.
ScreenshotCompletes ==
  /\ process = "alive" /\ client.grab = "pending"
  /\ client' = [client EXCEPT !.grab = "ready"]
  /\ UNCHANGED <<world, views, output>>

PollScreenshot(s) ==
  /\ At("capturing") /\ client.grab = "ready"
  /\ views' = Append(views, [settled |-> client.settled, frames |-> client.frames, differs |-> client.shot,
                             tick |-> IF s.target = "held_item" THEN s.animation[2] ELSE client.ticks])
  /\ client' = IF client.at = Len(Plan) THEN [client EXCEPT !.phase = "finalizing", !.grab = "none"]
               ELSE [client EXCEPT !.phase = "preparing_scene", !.grab = "none", !.at = @ + 1, !.shot = {}]
  /\ UNCHANGED <<world, output>>

\* Measurements that their scenes ask for in the same way; one of each sort may be poor.
Sort(intent) == <<intent.critical, intent.calibrated>>
Samples ==
  LET intents == UNION {s.intents : s \in Scenes[request]}
  IN  {(CHOOSE intent \in intents : Sort(intent) = sort).id : sort \in {Sort(intent) : intent \in intents}}

\* finish: the measurements of all views and the report, then the sentinel.
WriteReport ==
  /\ At("finalizing") /\ output.report = "none"
  /\ \E poor \in {NoValue} \cup (Samples \X {"failed", NoValue}) :
       output' = [output EXCEPT !.report = "complete", !.poor = poor]
  /\ UNCHANGED <<client, world, views>>

WriteSentinel ==
  /\ At("finalizing") /\ output.report = "complete"
  /\ output' = [output EXCEPT !.sentinel = TRUE]
  /\ client' = [client EXCEPT !.phase = "done"]
  /\ UNCHANGED <<world, views>>

\* fail: an exception or a limit, in any phase; it writes over no report.
Fail ==
  /\ process = "alive" /\ client.phase \notin {"none", "not_read", "done", "failed"}
  /\ client' = [client EXCEPT !.phase = "failed"]
  /\ output' = IF output.report = "none" THEN [output EXCEPT !.report = "failed", !.sentinel = TRUE] ELSE output
  /\ UNCHANGED <<world, views>>

SceneStep(s, wanted) ==
  \/ PrepareScene(s) \/ ServerSetsUp(wanted, FALSE) \/ WaitForEquip(s, wanted)
  \/ WaitForAnimation(s) \/ PollScreenshot(s)
  \/ \E ready \in BOOLEAN : Frame(s, wanted, ready)

\* The scene that is being taken; Wanted(s) has to be staged for it.
OnScene == IF process = "alive" THEN {Plan[client.at]} ELSE {}
Wanted(s) == Staging(s, client.at)

ModStep ==
  /\ \/ StartsUp \/ (\E s \in OnScene : SceneStep(s, Wanted(s))) \/ ServerUsesItem \/ ScreenshotCompletes
     \/ WriteReport \/ WriteSentinel \/ Fail
     \/ \E kind \in DOMAIN Received : ClientSees(kind)
  /\ UNCHANGEDByMod /\ UNCHANGED events

-----------------------------------------------------------------------------
(* The process, its caller and the rest of the machine.                     *)

Becomes(how) == process' = IF cancelled THEN "cancelled" ELSE how

\* Minecraft ends because the mod stopped it, or at any time by itself.
Exits ==
  /\ process = "alive" /\ client.phase \in {"done", "failed", "not_read"}
  /\ Becomes("exited")

Dies == process = "alive" /\ \E how \in {"exited", "crashed"} : Becomes(how)

\* Defect: only a mod that has finished is waited for with a limit.
TimeOutWhenIdle == process = "alive" /\ client.phase \in {"done", "failed"} /\ Becomes("timed_out")

\* The timeout of the process runner, and its answer to the abort of the caller.
TimeOut == process = "alive" /\ Becomes("timed_out")
Kill == process = "alive" /\ cancelled /\ Becomes("cancelled")

RunnerStep ==
  /\ TimeOut \/ Kill
  /\ UNCHANGED <<request, hostVars, disk, cancelled, events, modVars>>

ProcessStep ==
  /\ Exits \/ Dies
  /\ UNCHANGED <<request, hostVars, disk, cancelled, events, modVars>>

Cancel ==
  /\ pc # "ended" /\ ~cancelled /\ cancelled' = TRUE
  /\ UNCHANGED <<request, hostVars, disk, events, process, modVars>>

\* The packs are edited, another process makes a proposal, the cache is repaired,
\* what was stored is damaged.
Replace(what) ==
  /\ what = "evidence" => pc \in {"recording", "reverifying"}
  /\ disk' = [disk EXCEPT ![what] = @ + 1]
  /\ UNCHANGED <<hostVars, modVars>>

\* A file of the host cannot be read or written.
FaultEnds ==
  [loading |-> "thrown", probing |-> "setup_required", preflight |-> "thrown", snapshot |-> "thrown",
   planning |-> "failed", staging |-> "failed", launching |-> "failed", pinning |-> "failed",
   verifying |-> "failed", collecting |-> "failed", storing |-> "thrown", recording |-> "thrown",
   reverifying |-> "thrown"]
HostFault ==
  /\ pc \in DOMAIN FaultEnds /\ Ends(FaultEnds[pc])
  /\ UNCHANGED <<disk, held, record, modVars>>

Event ==
  /\ pc # "ended" /\ events < MaxEvents /\ events' = events + 1
  /\ \/ \E what \in DOMAIN held : Replace(what)
     \/ HostFault
     \/ (\E s \in OnScene : ServerSetsUp(Wanted(s), TRUE)) /\ UNCHANGED <<hostVars, disk>>
  /\ UNCHANGED <<request, cancelled, process>>

Next == HostStep \/ ModStep \/ ProcessStep \/ RunnerStep \/ Cancel \/ Event

\* The host goes on, and the runner ends the process on a cancellation and at its timeout.
Fairness == WF_vars(HostStep) /\ WF_vars(RunnerStep)
Spec == Init /\ [][Next]_vars /\ Fairness

-----------------------------------------------------------------------------
(* Properties.                                                              *)

\* The planner of src/visual/client-capture-plan.ts and the schemas of
\* src/minecraft/client-capture-protocol.ts agree: every plan that the planner
\* makes of a request it does not refuse is one that the protocol accepts, unless
\* the name of a state, which the representation may have, is too long in an id.
PlansAreAccepted ==
  pc = "planning" /\ request \in Planned => (request \in Accepted <=> "long" \notin NamesIn(request))

\* A capture that the revision refers to was taken by a process that ended by
\* itself, of every planned scene, and on each photograph the client had the
\* environment and the subject (in the hands, at the origin or spawned) of that
\* scene before it, never those of an earlier one: whatever packets came late.
EvidenceShowsThePlan ==
  record # NoValue =>
    /\ process = "exited" /\ Len(views) = Len(Plan)
    /\ \A i \in DOMAIN views :
         /\ views[i].differs \cap {"environment", "hands"} = {}
         /\ ~IsLocal(Plan[i]) => "subject" \notin views[i].differs
         /\ Spawns(Plan[i]) => "entities" \notin views[i].differs
         /\ Plan[i].target = "placeable" => "around" \notin views[i].differs

Changed == \E what \in DOMAIN record : disk[what] # record[what]

\* A placeable that has no interaction gets no frames with its hitbox, and
\* nothing in its scenes tells that they were asked for.
HitboxesUnseen ==
  Requests[request].hitboxViews /\ \A s \in Scenes[request] : s.kind # "debug_hitbox_reference"

CompleteAndUndisturbed ==
  /\ events = 0 /\ ~cancelled
  /\ process = "exited" /\ Completed

\* What a capture has recorded is verified by what the workflow makes of it
\* again, as long as nobody changes its inputs or aborts it.  The exceptions are
\* hitboxes that no scene shows, and the name of a state that ends in a dash.
RecordedIsVerified ==
  pc = "ended" /\ outcome = "unverified" =>
    cancelled \/ Changed \/ HitboxesUnseen \/ "dash" \in NamesIn(request)

\* A complete report of an undisturbed call is recorded, unless the name of a state
\* ends in an underscore, the call ends with its verdict, and only a critical
\* measurement of an authoritative scene makes that verdict a failure.
CompleteIsRecorded ==
  pc = "ended" /\ CompleteAndUndisturbed /\ NamesIn(request) \subseteq {"plain", "dash"} =>
    /\ record # NoValue
    /\ HitboxesUnseen \/ "dash" \in NamesIn(request) \/ outcome \in {"passed", "failed"}
    /\ outcome = "failed" =>
         \E s \in Scenes[request] : s.required /\ \E intent \in s.intents :
           intent.critical /\ intent.id = output.poor[1]

\* What an undisturbed call has captured is kept, verified and judged as it was planned.
UndisturbedEvidenceVerifies == RecordedIsVerified /\ CompleteIsRecorded

\* docs/mcp-reference.md: a measurement control never makes a capture
\* authoritative or unready; only a change of its inputs or the caller makes
\* the verification fail that follows the recording of a capture.
EveryPlanIsVerified == outcome = "unverified" => cancelled \/ Changed

\* Every capture call ends, whatever Minecraft does.
EveryCaptureEnds == <>(pc = "ended")
=============================================================================
