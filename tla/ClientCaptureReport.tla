------------------------ MODULE ClientCaptureReport ------------------------
(***************************************************************************)
(* The report of a capture session.  The first half is what the capture    *)
(* mod writes of a scene it photographed, the second half what the         *)
(* protocol and the workflow ask of it (src/minecraft/                     *)
(* client-capture-protocol.ts, src/visual/workflow.ts).  Equal records     *)
(* stand for equal canonical bytes and hashes; a measured value is         *)
(* identified by the side of its thresholds that it lies on.               *)
(***************************************************************************)
EXTENDS ClientCaptureProtocol

\* A field that is left out has no value.
Given(condition, value) == IF condition THEN value ELSE NoValue

-----------------------------------------------------------------------------
(* What the mod writes.                                                     *)

\* putEntityFixture and putPlaceableFixture.
ObservedEntity(r, s) ==
  LET f == s.fixture
  IN  [kind |-> r.strategy, target |-> s.target, state |-> f.state, content |-> ContentOf(r, f.state),
       pose |-> f.pose, turn |-> f.turn, scale |-> f.scale, tick |-> f.tick]
ObservedPlaceable(r, s) ==
  LET f == s.fixture
  IN  [kind |-> r.strategy, target |-> s.target, state |-> f.state, content |-> ContentOf(r, f.state),
       orientation |-> f.orientation, attachment |-> f.attachment, distance |-> f.distance,
       occluded |-> f.occluded, tick |-> f.tick, context |-> f.context, height |-> f.height]

\* expectedObservedFixture: what the client has read back of the fixture.
Observed(r, s) ==
  LET f == s.fixture
      content == ContentOf(r, f.state)
  IN  IF f.kind = "measurement_control"
        THEN [kind |-> f.kind, target |-> s.target, state |-> f.state, base |-> s.base, subjectOmitted |-> TRUE]
      ELSE IF r.strategy = "item_stack"
        THEN [kind |-> r.strategy, target |-> s.target, state |-> f.state, content |-> content,
              equipped |-> s.context = "world"]
      ELSE IF r.strategy \in {"native_block_state", "block_display"}
        THEN [kind |-> r.strategy, target |-> s.target, state |-> f.state, content |-> content,
              layout |-> f.layout, backdrop |-> f.backdrop, copies |-> f.copies, tick |-> f.tick,
              inventory |-> Given(f.layout = "inventory" /\ r.review.inventory, TRUE)]
      ELSE IF r.strategy = "equippable_head"
        THEN [kind |-> r.strategy, target |-> s.target, state |-> f.state,
              content |-> Given(f.subject # "bare_control", content), subject |-> f.subject,
              framing |-> f.framing, pose |-> f.pose, angle |-> f.angle, renderMode |-> r.review.renderMode,
              chestArmor |-> Given(f.chest, r.review.chestArmor)]
      ELSE IF r.strategy = "native_entity" \/ s.target = "entity" THEN ObservedEntity(r, s)
      ELSE ObservedPlaceable(r, s)

\* FixtureEvidence.toReport: what setting the fixture up has returned.
Evidence(r, s) ==
  LET f == s.fixture
      content == ContentOf(r, f.state)
      nothing == [strategy |-> f.kind, state |-> f.state, item |-> NoValue, equipReady |-> NoValue,
                  subject |-> NoValue, renderMode |-> NoValue, chestArmor |-> NoValue, chestArmorReady |-> NoValue,
                  inventory |-> NoValue, placed |-> NoValue, nodes |-> NoValue, entity |-> NoValue,
                  rig |-> NoValue, scaleReference |-> NoValue, subjectOmitted |-> NoValue]
      scaled == Given(f.target = "entity" /\ f.scale, TRUE)
  IN  IF f.kind = "measurement_control" THEN [nothing EXCEPT !.subjectOmitted = TRUE]
      ELSE IF f.kind = "item_stack"
        THEN [nothing EXCEPT !.item = content, !.equipReady = Given(s.context = "world", TRUE)]
      ELSE IF f.kind = "equippable_head"
        THEN [nothing EXCEPT !.subject = f.subject, !.renderMode = r.review.renderMode,
                             !.item = Given(f.subject # "bare_control", content),
                             !.equipReady = Given(f.subject # "bare_control", TRUE),
                             !.chestArmor = Given(f.chest, r.review.chestArmor),
                             !.chestArmorReady = Given(f.chest, TRUE)]
      ELSE IF f.target = "block" /\ f.layout = "inventory" THEN [nothing EXCEPT !.inventory = r.review.inventory]
      ELSE IF f.kind \in {"native_block_state", "native_placeable_block"} THEN [nothing EXCEPT !.placed = content]
      ELSE IF f.kind = "block_display" THEN [nothing EXCEPT !.placed = content, !.nodes = 1]
      ELSE IF f.kind = "display_rig" THEN [nothing EXCEPT !.rig = content, !.scaleReference = scaled]
      ELSE [nothing EXCEPT !.entity = content, !.scaleReference = scaled]

\* The frames that have aids in them.
Augmented(scenes) == {IdOf(v) : v \in {s \in scenes : ~s.required /\ s.kind # "measurement_control"}}

\* analyzeMeasurements: such frames are not measured, but for hitboxes in their own scene.
Measured(augmented, s, intent, value) ==
  LET skipped == \/ value = NoValue
                 \/ \E id \in Sources(s, intent) \cap augmented :
                      ~(id = IdOf(s) /\ s.kind = "debug_hitbox_reference")
  IN  [id |-> intent.id, metric |-> intent.metric, critical |-> intent.critical,
       calibrated |-> intent.calibrated, sources |-> Sources(s, intent),
       value |-> IF skipped THEN NoValue ELSE value,
       status |-> IF skipped THEN "skipped"
                    ELSE IF ~intent.calibrated THEN "warning"
                    ELSE value]

-----------------------------------------------------------------------------
(* What is accepted.                                                        *)

\* The fields that are read back of a fixture, besides those it is known by.
ObservedFields(observed) ==
  IF observed.kind = "measurement_control" THEN {"base", "subjectOmitted"}
  ELSE IF observed.kind = "item_stack" THEN {"content", "equipped"}
  ELSE IF observed.kind = "equippable_head"
    THEN {"subject", "framing", "pose", "angle", "renderMode", "content", "chestArmor"}
  ELSE IF observed.target = "block" THEN DOMAIN BlockShape \cup {"content", "inventory"}
  ELSE IF observed.target = "entity" THEN DOMAIN EntityShape \cup {"content"}
  ELSE DOMAIN PlaceableShape \cup {"content"}
ObservedShaped(observed) ==
  /\ DOMAIN observed = {"kind", "target", "state"} \cup ObservedFields(observed)
  /\ \A field \in DOMAIN observed \cap DOMAIN ShapeOf(observed) : observed[field] \in ShapeOf(observed)[field]

\* expectedClientCaptureObservedFixture: an empty studio, items, blocks and headwear.
ExpectedStill(r, s) ==
  LET f == s.fixture
      content == ContentOf(r, f.state)
  IN  IF f.kind = "measurement_control"
        THEN [kind |-> f.kind, target |-> s.target, state |-> f.state, base |-> s.base, subjectOmitted |-> TRUE]
      ELSE IF r.strategy = "item_stack"
        THEN [kind |-> f.kind, target |-> r.target, state |-> f.state, content |-> content,
              equipped |-> s.context = "world"]
      ELSE IF r.strategy = "equippable_head"
        THEN [kind |-> f.kind, target |-> "headwear", state |-> f.state, subject |-> f.subject,
              framing |-> f.framing, pose |-> f.pose, angle |-> f.angle, renderMode |-> r.review.renderMode,
              content |-> IF f.subject = "bare_control" THEN NoValue ELSE content,
              chestArmor |-> Given(f.chest /\ r.review.chestArmor, TRUE)]
      ELSE [kind |-> f.kind, target |-> "block", state |-> f.state, layout |-> f.layout, backdrop |-> f.backdrop,
            copies |-> f.copies, tick |-> f.tick, content |-> content,
            inventory |-> Given(f.layout = "inventory" /\ r.review.inventory, TRUE)]

\* The same of entities and of what is placed: all that the fixture says, and its content.
ExpectedFixture(r, s) ==
  LET f == s.fixture
      fields == DOMAIN ShapeOf(f) \cup {"kind", "state"}
  IN  IF f.kind = "measurement_control" \/ r.strategy \in {"item_stack", "equippable_head", "native_block_state", "block_display"}
      THEN ExpectedStill(r, s)
      ELSE [field \in fields \cup {"target", "content"} |->
              IF field \in fields THEN f[field]
              ELSE IF field = "content" THEN ContentOf(r, f.state)
              ELSE IF f.kind = "display_rig" THEN f.target
              ELSE IF f.kind = "native_entity" THEN "entity" ELSE "placeable"]

\* assertFixtureEvidence: the fields that a strategy may report.
Only(evidence, fields) ==
  \A field \in DOMAIN evidence \ ({"strategy", "state"} \cup fields) : evidence[field] = NoValue

ItemEvidenceFits(s, content, evidence) ==
  /\ Only(evidence, {"item", "equipReady"}) /\ evidence.item = content
  /\ s.context = "world" => evidence.equipReady = TRUE

HeadwearEvidenceFits(r, f, content, evidence) ==
  /\ Only(evidence, {"item", "equipReady", "chestArmor", "chestArmorReady", "subject", "renderMode"})
  /\ evidence.subject = f.subject /\ evidence.renderMode = r.review.renderMode
  /\ IF f.subject = "bare_control" THEN evidence.item = NoValue /\ evidence.equipReady = NoValue
     ELSE evidence.item = content /\ evidence.equipReady = TRUE
  /\ IF f.chest THEN evidence.chestArmor = TRUE /\ evidence.chestArmorReady = TRUE
     ELSE evidence.chestArmor = NoValue /\ evidence.chestArmorReady = NoValue

\* A placed block, a slot, or a block display with its one node.
BlockEvidenceFits(r, f, content, evidence) ==
  /\ Only(evidence, {"placed", "inventory"} \cup IF f.kind = "block_display" THEN {"nodes"} ELSE {})
  /\ IF f.kind # "native_placeable_block" /\ f.layout = "inventory"
     THEN evidence.placed = NoValue /\ evidence.nodes = NoValue /\ evidence.inventory = r.review.inventory
     ELSE /\ evidence.inventory = NoValue /\ evidence.placed = content
          /\ f.kind = "block_display" => evidence.nodes = 1

\* What was spawned, with the player beside it in the scene that shows its size.
SpawnEvidenceFits(f, content, evidence) ==
  /\ IF f.kind = "display_rig" THEN Only(evidence, {"rig", "scaleReference"}) /\ evidence.rig = content
     ELSE Only(evidence, {"entity", "scaleReference"}) /\ evidence.entity = content
  /\ f.target = "entity" => evidence.scaleReference = Given(f.scale, TRUE)

EvidenceFits(r, s, evidence) ==
  LET f == s.fixture
      content == ContentOf(r, f.state)
  IN  /\ evidence.strategy = f.kind /\ evidence.state = f.state
      /\ IF f.kind = "measurement_control"
           THEN Only(evidence, {"subjectOmitted"}) /\ evidence.subjectOmitted = TRUE
         ELSE IF r.strategy = "item_stack" THEN ItemEvidenceFits(s, content, evidence)
         ELSE IF r.strategy = "equippable_head" THEN HeadwearEvidenceFits(r, f, content, evidence)
         ELSE IF r.strategy \in {"native_block_state", "native_placeable_block", "block_display"}
           THEN BlockEvidenceFits(r, f, content, evidence)
         ELSE SpawnEvidenceFits(f, content, evidence)

\* CLIENT_CAPTURE_MIN_SETTLE_FRAMES, and SETTLE_FRAMES of the mod.
SettleFrames == 3

ExpectedTick(s) == IF "tick" \in DOMAIN s.fixture THEN s.fixture.tick ELSE s.animation[2]

\* What the counters of a view may be.
ViewShaped(view) ==
  /\ view.settled \in Ticks(40) /\ view.frames \in 0..120 /\ view.tick \in Ticks(MaxFrame)
  /\ ObservedShaped(view.observed)

\* assertCompleteViews, for one view.
ViewFits(r, s, view) ==
  /\ ViewShaped(view)
  /\ view.scene = s
  /\ view.observed = ExpectedFixture(r, s)
  /\ view.settled = s.settling
  /\ view.frames >= SettleFrames
  /\ view.tick = ExpectedTick(s)
  /\ view.environment = <<s.low, s.biome>>
  /\ EvidenceFits(r, s, view.evidence)

\* A measurement is skipped if and only if it has no value.
MeasurementShaped(m) ==
  /\ m.status \in {"passed", "warning", "failed", "skipped"}
  /\ (m.status = "skipped") = (m.value = NoValue)

\* assertCompleteViews, for one measurement: the status is that of the value.
MeasurementFits(s, intent, m) ==
  /\ MeasurementShaped(m)
  /\ m.sources = Sources(s, intent)
  /\ <<m.metric, m.critical, m.calibrated>> = <<intent.metric, intent.critical, intent.calibrated>>
  /\ m.status # "skipped" => m.status = IF intent.calibrated THEN m.value ELSE "warning"

\* ClientCaptureCompleteReportSchema: no scene and no measurement is reported twice.
ReportShaped(report) ==
  /\ Len(report.views) \in 1..64
  /\ Cardinality({view.scene : view \in Range(report.views)}) = Len(report.views)
  /\ \A a, b \in report.measurements : a.id = b.id => a = b

\* parseClientCaptureReport of a report that says it is complete.
ReportAccepted(r, scenes, identity, report) ==
  /\ ReportShaped(report)
  /\ report.identity = identity
  /\ LET views == Range(report.views)
     IN  {view.scene : view \in views} = scenes /\ \A view \in views : ViewFits(r, view.scene, view)
  /\ {m.id : m \in report.measurements} = {intent.id : intent \in UNION {s.intents : s \in scenes}}
  /\ \A s \in scenes : \A intent \in s.intents : \E m \in report.measurements :
       m.id = intent.id /\ MeasurementFits(s, intent, m)

\* authoritativeClientMeasurementIds.
AuthoritativeMeasurements(scenes) ==
  UNION {{intent.id : intent \in {i \in s.intents : i.critical
                                   /\ \A id \in Sources(s, i) : id = IdOf(s) \/ Authoritative(scenes, id)}} :
           s \in {v \in scenes : v.required}}

\* summarizeClientCaptureAuthorityMeasurements.
CaptureReady(scenes, report) ==
  LET authoritative == AuthoritativeMeasurements(scenes)
  IN  \A m \in report.measurements : m.id \in authoritative => m.status \notin {"failed", "skipped"}
=============================================================================
