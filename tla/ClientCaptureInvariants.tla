---------------------- MODULE ClientCaptureInvariants ----------------------
(* The terms that ClientCaptureProofs is written in: the inductive           *)
(* invariants of a capture, and what the descriptions of a plan are made of. *)
EXTENDS ClientCapture

Parts == {"environment", "hands", "subject", "around", "entities"}

\* The phases in which a scene is taken, before and while it is shown.
Starting == DOMAIN StartUp \cup {"preparing_scene"}
Showing == {"waiting_for_equip", "waiting_for_animation", "waiting_for_frames"}
Phases == Starting \cup Showing
            \cup {"none", "not_read", "capturing", "finalizing", "done", "failed"}

\* The steps of the host: before the launch, the session, and what follows it.
Preparing == {"loading", "probing", "preflight", "snapshot", "planning", "staging", "launching"}
Keeping == {"collecting", "storing", "recording", "reverifying"}
After == {"pinning", "verifying"} \cup Keeping
Clients == [phase : Phases, at : Nat, frames : Nat, settled : Nat, ticks : Nat, acted : Nat,
            setup : {"none", "submitted", "done"}, use : {"none", "submitted", "done"},
            grab : {"none", "pending", "ready"}, shot : SUBSET Parts]

\* The scenes and the sorts of measurements of a call that has a plan.
Pictured == IF request \in Planned THEN Scenes[request] ELSE {}
Poor == {NoValue} \cup IF request \in Planned THEN Samples \X {"failed", NoValue} ELSE {}

\* What a world may have staged, of the scenes of the plan or of none.
Staged ==
  [environment : {<<>>} \cup {<<s.low, s.biome>> : s \in Pictured},
   hands : {<<>>} \cup {HandsOf(s) : s \in Pictured},
   subject : {<<"air">>} \cup {SubjectOf(s) : s \in Pictured},
   around : {<<>>} \cup {AroundOf(s) : s \in Pictured},
   entities : Nat]
View == [settled : Nat, frames : Nat, differs : SUBSET Parts,
         tick : Nat \cup {s.animation[2] : s \in Pictured}]
Outputs == [report : {"none", "complete", "failed"}, sentinel : BOOLEAN, poor : Poor]
TypeInv ==
  /\ request \in DOMAIN Requests
  /\ pc \in Preparing \cup After \cup {"waiting", "ended"}
  /\ process \in {"none", "alive", "exited", "crashed", "timed_out", "cancelled"}
  /\ client \in Clients
  /\ world \in [server : Staged, seen : Staged]
  /\ views \in Seq(View)
  /\ output \in Outputs

\* Where the host is tells what has become of the process; what it keeps comes
\* from a process that ended by itself with a complete report.
CallInv ==
  /\ pc \in Preparing => process = "none"
  /\ pc \in {"staging", "launching"} => request \in Accepted
  /\ pc \in After => process = "exited"
  /\ pc \in Keeping => Completed
  /\ record # NoValue => process = "exited" /\ Completed
  /\ process = "none" => /\ client.phase = "none" /\ client.at = 1
                         /\ views = <<>> /\ output.report = "none"

\* The photograph of scene i differs from the plan in nothing that matters.
Shows(i, differs) ==
  /\ differs \cap {"environment", "hands"} = {}
  /\ ~IsLocal(Plan[i]) => "subject" \notin differs
  /\ Spawns(Plan[i]) => "entities" \notin differs
  /\ Plan[i].target = "placeable" => "around" \notin differs

\* The scenes are taken one after another, each with the hands it asks for.
SceneInv ==
  /\ request \in Accepted
  /\ client.at \in 1 .. Len(Plan)
  /\ client.phase \in Starting \cup Showing \cup {"capturing"} => Len(views) = client.at - 1
  /\ client.phase \in {"finalizing", "done"} => Len(views) = Len(Plan)
  /\ output.report = "complete" =>
       client.phase \in {"finalizing", "done", "failed"} /\ Len(views) = Len(Plan)
  /\ client.phase \in Showing => world.seen.hands = HandsOf(Plan[client.at])
  /\ client.phase = "capturing" => Shows(client.at, client.shot)
  /\ \A i \in DOMAIN views : Shows(i, views[i].differs)
IInv == TypeInv /\ CallInv /\ (process # "none" => SceneInv)

-----------------------------------------------------------------------------
(* The mod.                                                                 *)

\* A step of the mod as the invariant sees it.
Calm == process = "alive" /\ UNCHANGED <<request, hostVars, process>>

-----------------------------------------------------------------------------
(* Descriptions of scenes, and what they are lowered to.                    *)

\* The fields of a description of a scene.
Fields == {"base", "kind", "camera", "context", "hand", "player", "fov", "guiScale", "shot",
           "low", "biome", "animation", "fixture", "intents", "comparisons", "presentation"}
SceneFields == Fields \cup {"target", "required", "settling", "eye"}

\* Requests that may differ in the ticks that their scenes settle.
Alike(p, q) ==
  /\ p.profile = q.profile /\ p.held = q.held /\ p.gui = q.gui
  /\ p.scaleViews = q.scaleViews /\ p.hitboxViews = q.hitboxViews

\* The scenes that are lowered from descriptions, with controls for some of them.
LowerAll(r, settling, D, ids) == WithControls({Lower(r, settling, d) : d \in D}, ids)

\* The ticks that the scenes settle which the planner lowers.
Settling(r, settling) ==
  IF r.strategy \notin DisplayKinds THEN 0 ELSE IF settling = NoValue THEN 2 ELSE settling

\* What a scene has of the description that it is lowered from, with or without a control.
Taken(s, r, settling, d) ==
  /\ DOMAIN s = SceneFields
  /\ s.kind = d.kind /\ s.animation = d.animation /\ s.fixture = d.fixture
  /\ s.target = r.target /\ s.required = (d.kind \notin SupplementalKinds) /\ s.settling = Settling(r, settling)

-----------------------------------------------------------------------------
(* What becomes of what is recorded.                                        *)

\* The record of a capture has what its verification compares, and holds the
\* verdict that the call ends with.
VerdictInv ==
  /\ pc = "reverifying" => DOMAIN record = {"packs", "proposal", "evidence"}
  /\ RecordedIsVerified

-----------------------------------------------------------------------------
(* The scenes of an accepted plan and what the mod reports of them.         *)

\* A scene is of the target that its fixture is put up for; only held items are animated.
Aimed(s, target) ==
  /\ {"fixture", "animation", "target"} \subseteq DOMAIN s
  /\ s.target = target /\ s.fixture.target = target /\ (target # "held_item" => s.animation[2] = 0)

\* A scene of an accepted plan, for a representation that is accepted.
Fit(r, s) ==
  /\ r.target \in TargetsOf(r.strategy)
  /\ r.target = "headwear" => r.review.chestArmor \in BOOLEAN
  /\ SceneAccepted(s) /\ Aimed(s, r.target)
  /\ s.fixture.kind \in {r.strategy, "measurement_control"}
  /\ s.fixture.kind = "equippable_head" => (s.fixture.chest => r.review.chestArmor)

-----------------------------------------------------------------------------
(* The counters of the mod.                                                 *)

\* The ticks that a fixture is given before its frames begin.
FixtureTicks(s) == IF IsControl(s) \/ "tick" \notin DOMAIN s.fixture THEN 0 ELSE s.fixture.tick

\* A view has the counters that are expected of its scene.
Counted(s, view) == view.settled = s.settling /\ view.frames = SettleFrames /\ view.tick = ExpectedTick(s)

\* A coordinator that takes scene s has counted no more than it asks for.
CountAt(c, s) ==
  /\ c.phase = "waiting_for_equip" =>
       c.frames = 0 /\ c.settled <= s.settling /\ c.ticks <= FixtureTicks(s)
  /\ c.phase \in {"waiting_for_animation", "waiting_for_frames", "capturing"} =>
       c.settled = s.settling /\ c.ticks = FixtureTicks(s)
  /\ c.phase = "waiting_for_frames" => c.frames < SettleFrames
  /\ c.phase = "capturing" => c.frames = SettleFrames
CountInv ==
  /\ \A i \in DOMAIN views : Counted(Plan[i], views[i])
  /\ CountAt(client, Plan[client.at])

-----------------------------------------------------------------------------
(* The report.                                                              *)

\* The value of a measurement: only one of each sort may be poor.
ValueOf(intent) == IF output.poor # NoValue /\ output.poor[1] = intent.id THEN output.poor[2] ELSE "passed"

\* The view that is reported of the photograph of the scene at i.
ViewAt(i) ==
  [scene |-> Plan[i], observed |-> Observed(Representation, Plan[i]),
   evidence |-> Evidence(Representation, Plan[i]),
   settled |-> views[i].settled, frames |-> views[i].frames, tick |-> views[i].tick,
   environment |-> <<Plan[i].low, Plan[i].biome>>]

\* The measurements that are reported of a scene.
MeasuredOf(s) == {Measured(Augmented(Scenes[request]), s, intent, ValueOf(intent)) : intent \in s.intents}

-----------------------------------------------------------------------------
(* What becomes of a complete report.                                       *)

Kept == {"packs", "proposal", "runtime", "evidence"}

\* Until something happens, what the host has read is what is there.
Undisturbed ==
  /\ disk.packs = 0 /\ disk.proposal = 0 /\ disk.runtime = 0 /\ disk.evidence = 0
  /\ pc \notin {"loading", "ended"} => held.proposal = 0
  /\ pc \notin {"loading", "probing", "preflight", "ended"} => held.runtime = 0
  /\ pc \notin {"loading", "probing", "preflight", "snapshot", "ended"} => held.packs = 0
  /\ pc \in {"recording", "reverifying"} => held.evidence = 0
  /\ pc = "reverifying" => record = [packs |-> 0, proposal |-> 0, evidence |-> 0]

\* Minecraft runs only while the host waits for it.
CalmInv ==
  /\ events \in Nat /\ DOMAIN held = Kept
  /\ process = "alive" => pc = "waiting"
  /\ events = 0 => Undisturbed
  /\ CompleteIsRecorded

-----------------------------------------------------------------------------
(* Sets of few elements.                                                    *)

AtMost(n, S) == IsFiniteSet(S) /\ Cardinality(S) <= n

-----------------------------------------------------------------------------
(* Scenes with controls for some of them.                                   *)

\* Stock scenes and each sort of aid may share a base name; of one sort, the base
\* name tells the scene.
SortOf(kind) ==
  IF kind \in {"measurement_control", "debug_hitbox_reference", "first_person_scale_reference"} THEN kind ELSE "stock"
Keyed(S) == \A a, b \in S : a.base = b.base /\ SortOf(a.kind) = SortOf(b.kind) => a = b

\* A measurement is named after its scene.  A critical one is of that and of one of the
\* anchors, which are authoritative; ids are the scenes that will have controls.
Boxed == {"hitbox", "hitbox_containment", "hitbox_empty_space"}
Own(s, ids) == {IdOf(s)} \cup s.comparisons \cup When(IdOf(s) \in ids, {Control(s.base)})
Measurable(s, i, anchors, ids) ==
  /\ i.id = <<s.base, i.id[2]>> /\ i.id[2] # "foreground_control"
  /\ (i.id[2] \in Boxed) = (s.kind = "debug_hitbox_reference")
  /\ i.sources # {} => IdOf(s) \in i.sources /\ i.sources \subseteq Own(s, ids)
  /\ i.critical =>
       /\ s.kind \notin SupplementalKinds /\ IdOf(s) \notin ids
       /\ i.calibrated /\ i.metric \in ReadinessMetrics
       /\ \E other \in anchors :
            other # IdOf(s) /\ (IF i.sources = {} THEN s.comparisons = {other} ELSE i.sources = {IdOf(s), other})

\* What a scene is compared with will be there.
Linked(s, anchors, ids) ==
  /\ \A i \in s.intents : Measurable(s, i, anchors, ids)
  /\ s.kind = "first_person_scale_reference" => s.intents = {}
  /\ AtMost(3, s.comparisons)
  /\ \A id \in s.comparisons : id \in anchors \/ \E e \in ids : id = Control(e.base)
  /\ s.kind \in {"comparison_reference", "world_scale_reference"} =>
       s.comparisons # {} /\ s.comparisons \subseteq anchors

\* A scene that is no control suits the representation.
Suited(r, s) ==
  /\ DOMAIN s = SceneFields /\ SceneAccepted(s) /\ s.kind # "measurement_control"
  /\ NameIn(r, s.base) # "long" /\ s.target = r.target
  /\ s.fixture.kind = r.strategy /\ s.fixture.state \in Declared(r)
  /\ s.fixture.kind = "equippable_head" => (s.fixture.chest => r.review.chestArmor)

\* The anchors and the scenes that will have controls are there.
Supported(S, anchors, ids) ==
  /\ \A id \in anchors : id.kind = "minecraft_vanilla" /\ \E s \in S : IdOf(s) = id
  /\ \A id \in ids : id.kind \in {"first_person_vanilla", "minecraft_vanilla"} /\ \E s \in S : IdOf(s) = id

\* Every scale reference and every hitbox has a stock scene that shows the same.
Paired(S) ==
  \A s \in S : s.kind \in {"first_person_scale_reference", "debug_hitbox_reference"} =>
    \E v \in StockOf(S, s) : Shown(s, s.kind) = Shown(v, s.kind)
Controlling(r, S, anchors, ids) ==
  /\ S # {} /\ Keyed(S) /\ Paired(S) /\ Supported(S, anchors, ids)
  /\ \A s \in S : Suited(r, s) /\ Linked(s, anchors, ids)
  /\ ids # {} => r.target \in {"block", "headwear", "entity", "placeable"}

\* A scene as it is with its control, if it gets one.
Seen(s, ids) == IF IdOf(s) \in ids THEN [s EXCEPT !.comparisons = @ \cup {Control(s.base)}] ELSE s

\* What it is then; and what the control of a stock scene is.
AsSeen(r, v, s, ids) ==
  /\ v = Seen(s, ids) /\ Suited(r, v) /\ IdOf(v) = IdOf(s)
  /\ v.comparisons = s.comparisons \cup When(IdOf(s) \in ids, {Control(s.base)})
  /\ \A field \in SceneFields \ {"comparisons"} : v[field] = s[field]
AsControl(v, s) ==
  /\ v = ControlOf(s) /\ SceneAccepted(v) /\ IdOf(v) = Control(s.base) /\ DOMAIN v = SceneFields
  /\ v.kind = "measurement_control" /\ v.required = FALSE /\ v.settling = 0 /\ v.presentation = NoValue
  /\ v.fixture = [kind |-> "measurement_control", target |-> s.target, state |-> s.fixture.state]
  /\ v.intents = {Intent(s.base, "foreground_control", "pairwise_pixel_delta",
                         {IdOf(s), Control(s.base)}, FALSE)}
  /\ v.comparisons = {IdOf(s)}
  /\ \A field \in SceneFields \ {"kind", "required", "settling", "presentation", "fixture",
                                 "intents", "comparisons"} : v[field] = s[field]

-----------------------------------------------------------------------------
(* Descriptions of scenes that the protocol accepts when they are lowered.  *)

\* A fixture is put up for the representation, as its layout or its place asks for.
Arranged(f) ==
  /\ "layout" \in DOMAIN f =>
       <<f.backdrop, f.copies>> =
         CASE f.layout = "transparency_light" -> <<"light", 1>>
           [] f.layout = "transparency_dark" -> <<"dark", 1>>
           [] f.layout = "transparency_overlap" -> <<"light", 2>>
           [] OTHER -> <<"studio", 1>>
  /\ "attachment" \in DOMAIN f =>
       f.height = CASE f.attachment = "floor" -> 80 [] f.attachment = "wall" -> 82 [] OTHER -> 83
  /\ f.kind \in DisplayKinds \cup {"native_block_state"} => f.tick = 0
PutUp(r, f) ==
  /\ f.kind = r.strategy /\ f.target = r.target /\ f.state \in Declared(r)
  /\ FixtureShaped(f) /\ Arranged(f)

\* A description is of the kind that its camera and its fixture make it.
Viewed(r, d) ==
  LET f == d.fixture
  IN  /\ d.kind # "measurement_control"
      /\ IF FirstPersonWorld(d)
         THEN /\ d.kind \in {"first_person_vanilla", "first_person_scale_reference"}
              /\ IF r.target = "headwear" THEN f.framing = "first_person" ELSE r.target \in {"held_item", "gui_item"}
         ELSE d.kind \notin {"first_person_vanilla", "first_person_scale_reference"}
      /\ (d.kind = "first_person_scale_reference") = (d.presentation = "reference_arm")
      /\ d.kind = "debug_hitbox_reference" => r.target \in {"entity", "placeable"}
      /\ d.kind = "comparison_reference" => r.target = "headwear"
      /\ (d.kind = "world_scale_reference") = (r.target = "entity" /\ "scale" \in DOMAIN f /\ f.scale)
      /\ r.target = "headwear" =>
           /\ f.subject = "bare_control" => d.kind = "comparison_reference"
           /\ f.chest => f.subject = "player" /\ f.framing = "full_body" /\ r.review.chestArmor
Filmed(d) ==
  /\ d.camera \in {"first_person", "third_person_back", "third_person_front", "neutral"}
  /\ d.context \in {"world", "inventory", "hotbar", "tooltip", "item_inspection"}
  /\ d.hand \in {"right", "left"} /\ d.player \in {"steve", "alex"} /\ d.fov \in 30..120
  /\ d.animation[1] \in {"idle", "swing", "use", "fire", "aim", "release", "impact"}
  /\ d.animation[2] \in Ticks(MaxFrame) /\ (d.fixture.target # "held_item" => d.animation[2] = 0)
Drawn(r, d) ==
  /\ DOMAIN d = Fields /\ Filmed(d) /\ PutUp(r, d.fixture) /\ Viewed(r, d)
  /\ AtMost(3, d.intents) /\ AtMost(3, d.comparisons)
  /\ IdOf(d) \notin d.comparisons
  /\ \A a, b \in d.intents : a.id = b.id => a = b

\* Lowering adds four fields to a description.
EyeOf(r, d) ==
  IF r.target = "headwear" THEN d.fixture.framing = "first_person"
  ELSE r.target \in {"held_item", "gui_item"} /\ d.context = "world" /\ d.camera \in {"first_person", "neutral"}
IsLowered(s, r, settling, d) ==
  /\ DOMAIN s = SceneFields /\ \A field \in Fields : s[field] = d[field]
  /\ s.target = r.target /\ s.required = (d.kind \notin SupplementalKinds)
  /\ s.settling = Settling(r, settling) /\ s.eye = EyeOf(r, d)

\* A description that shows what another one shows, as an aid of it.
Twin(d, e) ==
  /\ e.base = d.base /\ e.presentation = NoValue
  /\ e.kind \in IF d.kind = "first_person_scale_reference" THEN {"first_person_vanilla"}
                ELSE {"first_person_vanilla", "minecraft_vanilla"}
  /\ \A field \in Fields \ {"kind", "intents", "comparisons", "presentation"} : d[field] = e[field]

\* Descriptions that are a plan when they are lowered and given controls.
Laid(r, D, anchors, ids) ==
  /\ D # {} /\ Keyed(D) /\ Supported(D, anchors, ids)
  /\ \A d \in D : Drawn(r, d) /\ Linked(d, anchors, ids)
  /\ \A d \in D : d.kind \in {"first_person_scale_reference", "debug_hitbox_reference"} => \E e \in D : Twin(d, e)
  /\ ids # {} => r.target \in {"block", "headwear", "entity", "placeable"}

-----------------------------------------------------------------------------
(* Families of descriptions.                                                *)

\* Descriptions of one sort whose base names begin with some words, which the base
\* name tells apart.
Family(D, sort, words, n) ==
  /\ AtMost(n, D) /\ \A d \in D : SortOf(d.kind) = sort /\ d.base[1] \in words
  /\ \A d, e \in D : d.base = e.base => d = e

-----------------------------------------------------------------------------
(* Stock scenes as the planner describes them.                              *)

\* A stock scene of this fixture, of which these measurements are taken.
Plain(d, base, f, intents, comparisons) ==
  /\ DOMAIN d = Fields /\ Filmed(d) /\ ~FirstPersonWorld(d)
  /\ d.base = base /\ d.kind = "minecraft_vanilla" /\ d.fixture = f /\ d.presentation = NoValue
  /\ d.intents = intents /\ d.comparisons = comparisons

\* A measurement of a stock scene that is compared with these; all of them.
Score(i, base, comparisons, anchors, ids) ==
  /\ i.id = <<base, i.id[2]>> /\ i.id[2] \notin Boxed \cup {"foreground_control"}
  /\ i.sources # {} => Vanilla(base) \in i.sources /\ i.sources \subseteq {Vanilla(base)} \cup comparisons
  /\ i.critical =>
       /\ Vanilla(base) \notin ids /\ i.calibrated /\ i.metric \in ReadinessMetrics
       /\ \E other \in anchors :
            /\ other # Vanilla(base)
            /\ IF i.sources = {} THEN comparisons = {other} ELSE i.sources = {Vanilla(base), other}
Scored(base, intents, comparisons, anchors, ids) ==
  /\ AtMost(3, intents) /\ \A a, b \in intents : a.id = b.id => a = b
  /\ \A i \in intents : Score(i, base, comparisons, anchors, ids)

\* A fixture is no scale and wears nothing that headwear does not declare.
Upright(r, f) ==
  /\ r.target = "entity" => ~("scale" \in DOMAIN f /\ f.scale)
  /\ r.target = "headwear" =>
       /\ f.subject # "bare_control"
       /\ f.chest => f.subject = "player" /\ f.framing = "full_body" /\ r.review.chestArmor
Ready(r, d, anchors, ids) == Drawn(r, d) /\ Linked(d, anchors, ids)

\* Stock scenes that are named after what they show are a family.
NamedAfter(D, X, f, word) ==
  /\ \A d \in D : \E x \in X : d = f[x]
  /\ \A x \in X : f[x].kind = "minecraft_vanilla" /\ f[x].base = <<word, x>>

-----------------------------------------------------------------------------
(* Groups of descriptions that are ready for the plan.                      *)

Group(r, D, sort, words, n, anchors, ids) ==
  Family(D, sort, words, n) /\ \A d \in D : Ready(r, d, anchors, ids)

\* Requests that are alike are lowered from the same descriptions, with the same
\* controls; an option of theirs tells whether there are aids.
Lowers(q, r, D, ids) ==
  \A p : Alike(p, q) /\ p.representation = r => ScenesOf(p) = LowerAll(r, p.settling, D, ids)
Optional(q, D) ==
  /\ \A d \in D : /\ d.kind = "debug_hitbox_reference" => q.hitboxViews
                  /\ d.kind = "first_person_scale_reference" => q.scaleViews
  /\ q.scaleViews => \E d \in D : d.kind = "first_person_scale_reference"

\* What is ready is a plan if what it is compared with and controlled is there.
Plannable(q, r) ==
  \E D, anchors, ids : \E n, k \in Nat :
    /\ Lowers(q, r, D, ids) /\ Optional(q, D) /\ Laid(r, D, anchors, ids)
    /\ r.strategy \in DisplayKinds => anchors # {}
    /\ AtMost(n, D) /\ AtMost(k, ids) /\ n + k <= 64

-----------------------------------------------------------------------------
(* Blocks.                                                                  *)

\* What the planner may make a block fixture of.
BlockGiven(r) ==
  /\ r.target = "block" /\ r.strategy \in {"native_block_state", "block_display"}
  /\ FirstState(r) \in Declared(r)

\* The scenes of blocks that the others are compared with, and the one with a control.
BlockAnchors(r) == {Vanilla(Hero), Vanilla(<<"block_light_day">>)}
                     \cup When(r.review.transparency, {Vanilla(<<"block_transparency", "light">>)})
BlockIds == {Vanilla(Hero)}
BlockGroup(r, D, words, n) == Group(r, D, "stock", words, n, BlockAnchors(r), BlockIds)

-----------------------------------------------------------------------------
(* Headwear.                                                                *)

\* What is described for each of some things, and things that the base name tells apart.
ImageOf(D, X, f) == \A d \in D : \E x \in X : d = f[x]
Told(D, sort, word) ==
  /\ \A d \in D : SortOf(d.kind) = sort /\ d.base[1] = word
  /\ \A d, e \in D : d.base = e.base => d = e

\* The scenes that others are compared with, and those with controls.
HeadAnchors == {Vanilla(<<"head", player, "front", "head">>) : player \in Players} \cup {Vanilla(Body(player)) : player \in Players}
HeadIds(r) == {Vanilla(<<"head", "steve", "front", "head">>)} \cup {IdOf(d) : d \in EyeScenes(r)}
HeadGroup(r, D, words, n) == Group(r, D, "stock", words, n, HeadAnchors, HeadIds(r))

\* What the planner may make a worn fixture of.
HeadGiven(r) ==
  /\ r.target = "headwear" /\ r.strategy = "equippable_head" /\ r.review.chestArmor \in BOOLEAN
  /\ FirstState(r) \in Declared(r)
  /\ \A state \in Declared(r) : r.review.statePoses[state] \in Poses

\* What a worn fixture is then.
WornFit(r, f, subject, framing, pose, state, angle, chest) ==
  /\ PutUp(r, f) /\ f.subject = subject /\ f.framing = framing /\ f.chest = chest /\ f.state = state
  /\ f.pose = pose /\ f.angle = angle
  /\ subject # "bare_control" /\ (chest => subject = "player" /\ framing = "full_body" /\ r.review.chestArmor)
       => Upright(r, f)

\* Around both players.
HeadView(r, player, angle, framing) ==
  LET base == <<"head", player, angle, framing>>
      camera == IF angle = "front" THEN "third_person_front" ELSE "third_person_back"
      fit == IF angle = "front" THEN "face_eye_clearance" ELSE "head_penetration"
  IN  Worn(base, WornFixture("player", framing, "idle", FirstState(r), angle, FALSE), camera, player,
           {Advisory(base, fit)} \cup Framed(base))
HeadViews(r) ==
  {HeadView(r, player, angle, framing) : player \in Players, angle \in {"front", "side", "rear"},
     framing \in {"head", "full_body"}}

\* The bare heads are references for comparison.
BareHeads(r) ==
  {LET base == <<"head_bare", player>>
   IN  [Against(Worn(base, WornFixture("bare_control", "head", "idle", FirstState(r), "front", FALSE),
                     "third_person_front", player, {Advisory(base, "variant_fit_delta")}),
                <<"head", player, "front", "head">>) EXCEPT !.kind = "comparison_reference"] : player \in Players}

\* What the wearer sees.
EyeView(r, base, fov, metric) ==
  [Worn(base, WornFixture("player", "first_person", "idle", FirstState(r), "front", FALSE),
        "first_person", "steve",
        {Intent(base, metric, metric, {[kind |-> "first_person_vanilla", base |-> base], Control(base)}, FALSE)})
     EXCEPT !.kind = "first_person_vanilla", !.fov = fov]

\* On armor stands.
HeadStands(r) ==
  {LET base == <<"head_stand", angle>>
   IN  Worn(base, WornFixture("armor_stand", "full_body", "idle", FirstState(r), angle, FALSE), "neutral", "steve",
            {Advisory(base, "armor_stand_alignment")}) : angle \in {"front", "side"}}
OnStand(r, d, angle) ==
  /\ IdOf(d) = Vanilla(<<"head_stand", angle>>) /\ IdOf(d) \notin HeadIds(r)
  /\ d.camera = "neutral" /\ d.context = "world" /\ d.shot = <<angle, "full_body">>
  /\ d.fixture.state = FirstState(r)
  /\ d.fixture.subject = "armor_stand" /\ d.fixture.framing = "full_body"
  /\ d.fixture.pose = "idle" /\ d.fixture.angle = angle /\ ~d.fixture.chest

\* In the states after the first.
HeadStates(r) ==
  {LET base == <<"head_state", state>>
   IN  Against(Worn(base, WornFixture("player", "full_body", r.review.statePoses[state], state, "front", FALSE),
                    "third_person_front", "steve", {Advisory(base, "pairwise_pixel_delta")}), Body("steve")) :
     state \in Declared(r) \ {FirstState(r)}}

\* What a plan makes of a description keeps all of it, and may add a comparison.
Keeps(s, d) ==
  /\ s.kind = d.kind /\ s.base = d.base /\ d.comparisons \subseteq s.comparisons
  /\ \A field \in Fields \ {"comparisons"} : s[field] = d[field]

-----------------------------------------------------------------------------
(* Entities.                                                                *)

\* Stock scenes that are named after what they show, each with one such measurement.
PutEach(r, X, g) == \A x \in X : PutUp(r, g[x]) /\ Upright(r, g[x])
AdvisedEach(X, f, g, word, metric, comparisons) ==
  \A x \in X : Plain(f[x], <<word, x>>, g[x], {Advisory(<<word, x>>, metric)}, comparisons)
AnchorEach(X, word, comparisons, anchors) ==
  comparisons = {} \/ \E other : /\ comparisons = {Vanilla(other)} /\ Vanilla(other) \in anchors
                                 /\ \A x \in X : other # <<word, x>>

\* The scenes that others are compared with, and those with controls.
EntityAnchors == {Vanilla(Front), Vanilla(<<"entity", 90>>), Vanilla(<<"entity_pose", "walk">>)}
EntityIds(q) == {Vanilla(Front)} \cup When(q.hitboxViews, {Vanilla(<<"entity", 90>>)})
EntityGroup(r, q, D, words, n) == Group(r, D, "stock", words, n, EntityAnchors, EntityIds(q))

\* What the planner may make an entity fixture of.
Turns == {45 * k : k \in 0..7}
Stances == {"idle", "walk", "attack"}
EntityGiven(r) ==
  /\ r.target = "entity" /\ r.strategy \in {"native_entity", "display_rig"} /\ FirstState(r) \in Declared(r)
  /\ \A pose \in Stances : PoseState(r, pose) \in Declared(r)
  /\ r.review.animationTicks \in Seq(Ticks(1200)) /\ Len(r.review.animationTicks) <= 8
  /\ r.strategy = "display_rig" => r.review.animationTicks = <<>>
EntityFit(r, f, scale) == PutUp(r, f) /\ f.scale = scale /\ (~scale => Upright(r, f))
EntityMade(r, f, pose, turn, scale, tick, state) ==
  /\ DOMAIN f = {"kind", "target", "state", "pose", "turn", "scale", "tick"}
  /\ f.kind = r.strategy /\ f.target = "entity" /\ f.state = state /\ f.pose = pose
  /\ f.turn = turn /\ f.scale = scale /\ f.tick = tick

\* From all sides.
EntityTurned(r, turn) ==
  Describe(<<"entity", turn>>, <<"front">>, [IdleEntity(r) EXCEPT !.turn = turn], Framed(<<"entity", turn>>))
EntityTurns(r) == {EntityTurned(r, turn) : turn \in Turns}

\* In its stances, at the first of the ticks.
FirstTick(r) == IF r.review.animationTicks = <<>> THEN 0 ELSE r.review.animationTicks[1]
EntityStances(r) ==
  {Describe(<<"entity_pose", pose>>, <<"front">>,
            EntityFixture(r, pose, 0, FALSE, IF pose = "idle" THEN 0 ELSE FirstTick(r), PoseState(r, pose)),
            {Advisory(<<"entity_pose", pose>>, "self_intersection")}) : pose \in Stances}

\* At the other ticks, each compared with the walk at the first.
EntitySamples(r) ==
  {Against(Describe(<<"entity_walk_sample", k>>, <<"front">>,
                    EntityFixture(r, "walk", 0, FALSE, r.review.animationTicks[k], PoseState(r, "walk")),
                    {Critical(<<"entity_walk_sample", k>>, "animation_stability")}),
           <<"entity_pose", "walk">>) : k \in 2..Len(r.review.animationTicks)}

\* In the states after the first that are no pose of a rig.
EntityOthers(r) ==
  Declared(r) \ ({FirstState(r)} \cup (IF r.review.poseStates = NoValue THEN {} ELSE Range(r.review.poseStates)))
EntityStates(r) ==
  {LET base == <<"entity_state", state>>
   IN  Against(Describe(base, <<"front">>, [IdleEntity(r) EXCEPT !.state = state],
                        {Advisory(base, "texture_variant_resolution")}), Front) : state \in EntityOthers(r)}

\* Its shadow, and in low light.
EntityShadow(r) ==
  Describe(<<"entity_ground_shadow">>, <<"front">>, IdleEntity(r),
           {Advisory(<<"entity_ground_shadow">>, "silhouette_grounding")})
EntityLow(r) ==
  [Against(Describe(<<"entity_low_light">>, <<"front">>, IdleEntity(r),
                    {Critical(<<"entity_low_light">>, "pairwise_pixel_delta")}), Front) EXCEPT !.low = TRUE]

\* Beside the scale of a player.
EntityScaled(r) ==
  [Against(Describe(<<"entity_player_scale">>, <<"front">>, [IdleEntity(r) EXCEPT !.scale = TRUE],
                    {Advisory(<<"entity_player_scale">>, "player_scale")}), Front) EXCEPT !.kind = "world_scale_reference"]

\* The hitboxes from the front and from the side.
EntityBoxes(r, q) == When(q.hitboxViews, {EntityHitbox(r, 0), EntityHitbox(r, 90)})

-----------------------------------------------------------------------------
(* Placeables.                                                              *)

\* What the planner may make a placed fixture of.
Sides == {"north", "east", "south", "west"}
PlaceGiven(r) ==
  /\ r.target = "placeable"
  /\ r.strategy \in {"display_rig", "native_placeable_block", "native_placeable_entity"}
  /\ FirstState(r) \in Declared(r)
  /\ "floor" \in r.review.attachments /\ r.review.attachments \subseteq Attachments
  /\ DOMAIN r.review.placementStates = Sides \X r.review.attachments
  /\ \A place \in Sides \X r.review.attachments : r.review.placementStates[place] \in Declared(r)
  /\ \A state \in Declared(r) \ {FirstState(r)} : PlacesOf(r, state) # {}

\* Where the camera stands, and what is built around it.
Distances == {"close", "player_eye", "near", "mid"}
Contexts == {"plain", "corner", "doorway", "occlusion"}

\* The scenes that others are compared with, and those with controls.
PlaceAnchors == {Vanilla(<<"place_floor_contact">>), Vanilla(<<"place_range", "near">>), Vanilla(<<"place_range", "mid">>),
                 Vanilla(<<"place", "east", "close">>)}
PlaceIds(q) == {Vanilla(<<"place_floor_contact">>), Vanilla(<<"place_range", "mid">>)}
                 \cup When(q.hitboxViews, {Vanilla(<<"place", "east", "close">>)})
PlaceGroup(r, q, D, words, n) == Group(r, D, "stock", words, n, PlaceAnchors, PlaceIds(q))

\* A stock scene of a fixture that is put up.
PlacedAs(r, d, base, intents, comparisons) ==
  \E f : PutUp(r, f) /\ Upright(r, f) /\ Plain(d, base, f, intents, comparisons)
AdvisoryOf(base, metrics) == {Advisory(base, metric) : metric \in metrics}

\* Facing every side, from two distances.
PlaceFacings(r) == {PlaceFacing(r, side, distance) : side \in Sides, distance \in {"player_eye", "close"}}

\* In a corner, and in a doorway.
PlaceCorner(r) ==
  Place(r, <<"place_footprint_corner">>, <<"quarter">>, "north", "floor", "close", "corner",
        {"collision_interaction_footprint_delta"})
PlaceDoor(r) ==
  Place(r, <<"place_doorway">>, <<"front">>, "east", "floor", "player_eye", "doorway", {"frame_retention"})

\* A stock scene may be given other measurements and comparisons.
Recast(d, intents, comparisons) == [d EXCEPT !.comparisons = comparisons, !.intents = intents]

\* From near, from the middle distance, and there behind something.
Near == <<"place_range", "near">>
Mid == <<"place_range", "mid">>
Hidden == <<"place_occluded">>
NearScene(r) == Place(r, Near, <<"near">>, "north", "floor", "near", "plain", {})
MidScene(r) ==
  Recast(Place(r, Mid, <<"mid">>, "north", "floor", "mid", "plain", {}),
         {Intent(Mid, "delta", "pairwise_pixel_delta", {Vanilla(Mid), Vanilla(Near)}, FALSE)}, {Vanilla(Near)})
HiddenScene(r) ==
  Recast(Place(r, Hidden, <<"mid">>, "north", "floor", "mid", "occlusion", {}),
         {Intent(Hidden, "visibility", "visibility_occlusion", {Vanilla(Hidden), Vanilla(Mid), Control(Mid)}, FALSE),
          Intent(Hidden, "delta", "pairwise_pixel_delta", {Vanilla(Hidden), Vanilla(Mid)}, TRUE)},
         {Vanilla(Mid), Control(Mid)})

\* On the other attachments.
PlaceContacts(r) ==
  {Place(r, <<"place_contact", attachment>>, <<"quarter", attachment>>, "north", attachment, "close", "plain",
         {"attachment_gap"}) : attachment \in r.review.attachments \ {"floor"}}

\* In the states after the first, where they are first placed.
FloorBase == <<"place_floor_contact">>
PlaceStates(r) ==
  {LET base == <<"place_state", state>>
   IN  Against(Describe(base, <<"front">>, PlaceFixture(r, PlaceOf(r, state), "close", "plain", state),
                        {Advisory(base, "pairwise_pixel_delta")}), FloorBase) :
     state \in Declared(r) \ {FirstState(r)}}

\* The hitboxes of the two scenes that have one, where a display can be touched.
Touched(r) == r.strategy = "display_rig" /\ \E s \in Range(r.states) : s.content.interaction
PlaceBoxes(r, q) ==
  When(q.hitboxViews /\ Touched(r), {PlaceHitbox(d) : d \in {FloorContact(r), PlaceFacing(r, "east", "close")}})

-----------------------------------------------------------------------------
(* Items.                                                                   *)

\* A view of an item that one reviews.
ItemView(d, f) ==
  /\ DOMAIN d = Fields /\ Filmed(d) /\ d.kind = "minecraft_vanilla" /\ d.fixture = f
  /\ d.presentation # "reference_arm" /\ (FirstPersonWorld(d) => d.presentation = NoValue)
  /\ d.intents = Framed(d.base) /\ d.comparisons = {}
ItemGroup(D, f, words, n) == Family(D, "stock", words, n) /\ \A d \in D : ItemView(d, f)

\* A view for each of some things.
ItemEach(X, v, f, word) ==
  \A x \in X : ItemView(v[x], f) /\ v[x].base[1] = word /\ \A y \in X : v[x].base = v[y].base => x = y

\* A scene of an item that a camera takes of a player.
Cameras == {"first_person", "third_person_back", "third_person_front", "neutral"}
Hands == {"right", "left"}
ItemFrom(base, shot, f, camera, hand, player, fov) ==
  [Describe(base, shot, f, Framed(base)) EXCEPT !.camera = camera, !.hand = hand, !.player = player, !.fov = fov]

\* A scene of an item on a screen.
Screens == {"inventory", "hotbar", "tooltip"}
OnScreen(base, shot, f, context, presentation) ==
  [Describe(base, shot, f, Framed(base)) EXCEPT !.context = context, !.presentation = presentation]
ItemShown(d, f, base) ==
  /\ ItemView(d, f) /\ d.base = base
  /\ \A scale : ItemView([d EXCEPT !.guiScale = scale], f) /\ [d EXCEPT !.guiScale = scale].base = base

\* Views of both hands of both players.
ItemPairs(v, f, word) ==
  \A hand \in {"right", "left"}, player \in {"steve", "alex"} :
    ItemView(v[<<hand, player>>], f) /\ v[<<hand, player>>].base = <<word, hand, player>>
PairsImage(D, v) ==
  \A d \in D : \E hand \in {"right", "left"}, player \in {"steve", "alex"} : d = v[<<hand, player>>]

\* What the planner may make an item fixture of.
ItemGiven(r) ==
  r.target \in {"held_item", "gui_item"} /\ r.strategy = "item_stack" /\ FirstState(r) \in Declared(r)
ItemFixture(r) == [kind |-> "item_stack", target |-> r.target, state |-> FirstState(r)]

\* A reviewed view is a stock scene of its own kind, and from the eyes of another.
StockView(d) == IF FirstPersonWorld(d) THEN [d EXCEPT !.kind = "first_person_vanilla"] ELSE d
ScaleView(d) == [d EXCEPT !.kind = "first_person_scale_reference", !.intents = {}, !.presentation = "reference_arm"]

\* What a request gives the planner of items.
ItemAsked(q, r) ==
  /\ ItemGiven(r) /\ r.target = TargetOf(q.profile)
  /\ q.held.hand \in {"right", "left"} /\ AtMost(3, q.gui.counts)
ItemReviewed(q, r) == IF q.profile = "gui_item" THEN GuiScenes(q.gui, ItemFixture(r)) ELSE HeldScenes(q.held, ItemFixture(r))

-----------------------------------------------------------------------------
(* Every request that is not refused.                                       *)

\* A request that the planner does not refuse, of the fields that it has.
Answered(q) ==
  LET r == q.representation
  IN  /\ ~Refused(q) /\ NoValue # "reference_arm"
      /\ q.held.hand \in {"right", "left"} /\ IsFiniteSet(q.gui.counts) /\ Cardinality(q.gui.counts) <= 3
      /\ r.states \in Seq(Range(r.states))
      /\ r.target = "headwear" => r.review.chestArmor \in BOOLEAN
Evident(r, scenes) == r.strategy = "equippable_head" => HeadwearEvidenceAccepted(r, scenes)
=============================================================================
