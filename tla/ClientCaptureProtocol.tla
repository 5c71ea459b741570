----------------------- MODULE ClientCaptureProtocol -----------------------
(***************************************************************************)
(* What the capture protocol accepts as the representation of a proposal   *)
(* and as a plan of scenes: the refinements of the schemas of              *)
(* src/minecraft/client-capture-protocol.ts.  Names are identities, a      *)
(* scene is identified by its kind and its base name, and a camera by what *)
(* it is computed from (its shot).  The states of a representation are in  *)
(* the ASCII order of their names, which the schema asks for.              *)
(***************************************************************************)
EXTENDS Integers, Sequences, FiniteSets, Functions

CONSTANT NoValue

-----------------------------------------------------------------------------
(* Representations.                                                         *)

\* The kinds of target that a strategy can represent.
TargetsOf(strategy) ==
  CASE strategy = "item_stack" -> {"held_item", "gui_item"}
    [] strategy \in {"native_block_state", "block_display"} -> {"block"}
    [] strategy = "equippable_head" -> {"headwear"}
    [] strategy = "native_entity" -> {"entity"}
    [] strategy = "display_rig" -> {"entity", "placeable"}
    [] strategy \in {"native_placeable_block", "native_placeable_entity"} -> {"placeable"}
    [] OTHER -> {}

Declared(r) == {r.states[i].id : i \in DOMAIN r.states}
FirstState(r) == r.states[1].id
StateOf(r, id) == CHOOSE s \in Range(r.states) : s.id = id
ContentOf(r, id) == StateOf(r, id).content

\* The bases that are made of the name of a state: is that too long for an id,
\* or does it end in a dash or an underscore?
StateBases == {"block_state", "head_state", "entity_state", "place_state"}
NameIn(r, base) == IF base[1] \in StateBases THEN StateOf(r, base[2]).name ELSE "plain"

\* The declaration of the equippable component is the one the headwear claims.
Poses == {"idle", "walk", "crouch", "swim", "glide"}
HeadwearAccepted(r) ==
  /\ DOMAIN r.review.statePoses = Declared(r) /\ Range(r.review.statePoses) \subseteq Poses
  /\ \A s \in Range(r.states) :
       /\ s.content.slot = "head"
       /\ s.content.asset = (r.review.renderMode = "equipment_model")
       /\ s.content.overlay = r.review.cameraOverlay

\* Every declared place has one state, a block's facing where it is put.
Attachments == {"floor", "wall", "ceiling"}
PlaceableAccepted(r) ==
  LET places == DOMAIN r.review.placementStates
      native == r.strategy # "display_rig"
  IN  /\ "floor" \in r.review.attachments /\ r.review.attachments \subseteq Attachments
      /\ native => r.review.attachments = {"floor"}
      /\ places = {"north", "east", "south", "west"} \X r.review.attachments
      /\ \A place \in places :
           /\ r.review.placementStates[place] \in Declared(r)
           /\ r.strategy = "native_placeable_block" =>
                ContentOf(r, r.review.placementStates[place]).facing = place[1]

VariantTypes == {"cat", "chicken", "cow", "frog", "pig", "wolf"}
NativeEntityAccepted(entity) ==
  /\ (entity.variant # NoValue) = (entity.type \in VariantTypes)
  /\ ~(entity.type = "armor_stand" /\ entity.baby)

\* What the fields of a scene may be; no animation is longer than MaxFrame.
MaxFrame == 72000
Ticks(last) == 0..last

\* Native poses need ticks and a default zombie, a rig a state for each pose.
EntityAccepted(r) ==
  LET ticks == r.review.animationTicks
  IN  /\ ticks \in Seq(Ticks(1200)) /\ Len(ticks) <= 8
      /\ r.review.poseStates # NoValue => DOMAIN r.review.poseStates = {"idle", "walk", "attack"}
      /\ \A i, k \in DOMAIN ticks : i < k => ticks[i] < ticks[k]
      /\ r.strategy = "native_entity" =>
           /\ \A s \in Range(r.states) : NativeEntityAccepted(s.content)
           /\ ticks # <<>> /\ ticks[1] >= 2
           /\ "default" \in Declared(r) /\ ContentOf(r, "default").type = "zombie"
      /\ r.strategy = "display_rig" =>
           /\ ticks = <<>> /\ r.review.poseStates # NoValue
           /\ Range(r.review.poseStates) \subseteq Declared(r)

RepresentationAccepted(r) ==
  /\ r.target \in TargetsOf(r.strategy)
  /\ Len(r.states) \in 1..32 /\ Cardinality(Declared(r)) = Len(r.states)
  /\ r.strategy = "item_stack" => Len(r.states) = 1
  /\ r.target = "headwear" => HeadwearAccepted(r)
  /\ r.target = "placeable" => PlaceableAccepted(r)
  /\ r.target = "entity" => EntityAccepted(r)
  /\ r.target = "block" =>
       /\ IsFiniteSet(r.review.biomes) /\ Cardinality(r.review.biomes) <= 4
       /\ r.review.animatedTextureTicks = <<>>
  /\ r.strategy \in {"block_display", "display_rig"} => \A s \in Range(r.states) : s.content.still

-----------------------------------------------------------------------------
(* Scenes.                                                                  *)

SupplementalKinds == {"first_person_scale_reference", "debug_hitbox_reference",
                      "comparison_reference", "world_scale_reference", "measurement_control"}
DisplayKinds == {"display_rig", "block_display"}

IdOf(scene) == [kind |-> scene.kind, base |-> scene.base]
Vanilla(base) == [kind |-> "minecraft_vanilla", base |-> base]
Control(base) == [kind |-> "measurement_control", base |-> base]

FirstPersonWorld(s) == s.camera = "first_person" /\ s.context = "world"

\* The kind of a scene is what its camera, target and fixture make of it.
KindFits(s) ==
  LET f == s.fixture
  IN  /\ s.required = (s.kind \notin SupplementalKinds)
      /\ IF FirstPersonWorld(s)
         THEN /\ s.kind \in {"first_person_vanilla", "first_person_scale_reference", "measurement_control"}
              /\ s.eye
         ELSE s.kind \notin {"first_person_vanilla", "first_person_scale_reference"}
      /\ (s.kind = "first_person_scale_reference") = (s.presentation = "reference_arm")
      /\ s.kind = "debug_hitbox_reference" => s.target \in {"entity", "placeable"}
      /\ s.kind = "comparison_reference" => s.target = "headwear"
      /\ s.kind = "world_scale_reference" => s.target = "entity"
      /\ (s.kind = "world_scale_reference") = (f.target = "entity" /\ "scale" \in DOMAIN f /\ f.scale)
      /\ (s.kind = "measurement_control") = (f.kind = "measurement_control")
      /\ s.kind = "measurement_control" => f.target = s.target /\ s.presentation = NoValue

\* What the fields of a fixture may be.
BlockShape ==
  [layout |-> {"single", "adjacency", "culling", "inventory",
               "transparency_light", "transparency_dark", "transparency_overlap"},
   backdrop |-> {"studio", "light", "dark"}, copies |-> {1, 2}, tick |-> Ticks(MaxFrame)]
HeadwearShape ==
  [subject |-> {"player", "armor_stand", "bare_control"}, framing |-> {"head", "full_body", "first_person"},
   pose |-> Poses, angle |-> {"front", "side", "rear"}, chest |-> BOOLEAN]
EntityShape ==
  [pose |-> {"idle", "walk", "attack"}, turn |-> {45 * k : k \in 0..7}, scale |-> BOOLEAN, tick |-> Ticks(1200)]
PlaceableShape ==
  [orientation |-> {"north", "east", "south", "west"}, attachment |-> Attachments,
   distance |-> {"close", "player_eye", "near", "mid"}, occluded |-> BOOLEAN, tick |-> Ticks(1200),
   context |-> {"plain", "corner", "doorway", "occlusion"}, height |-> 64..96]
ShapeOf(f) ==
  IF f.kind \in {"item_stack", "measurement_control"} THEN <<>>
    ELSE IF f.kind \in {"native_block_state", "block_display"} THEN BlockShape
    ELSE IF f.kind = "equippable_head" THEN HeadwearShape
    ELSE IF f.target = "entity" THEN EntityShape
    ELSE PlaceableShape
FixtureShaped(f) ==
  LET shape == ShapeOf(f)
  IN  /\ DOMAIN f = {"kind", "target", "state"} \cup DOMAIN shape
      /\ \A field \in DOMAIN shape : f[field] \in shape[field]
      /\ f.kind = "measurement_control" => f.target \in {"block", "headwear", "entity", "placeable"}

\* What the other fields of a scene may be.
SceneShaped(s) ==
  /\ s.camera \in {"first_person", "third_person_back", "third_person_front", "neutral"}
  /\ s.context \in {"world", "inventory", "hotbar", "tooltip", "item_inspection"}
  /\ s.hand \in {"right", "left"} /\ s.player \in {"steve", "alex"} /\ s.fov \in 30..120
  /\ s.animation[1] \in {"idle", "swing", "use", "fire", "aim", "release", "impact"}
  /\ s.animation[2] \in Ticks(MaxFrame) /\ s.settling \in Ticks(40)
  /\ Cardinality(s.intents) <= 16 /\ Cardinality(s.comparisons) <= 16

\* A fixture is put together as its layout or its place asks for.
FixtureFits(s) ==
  LET f == s.fixture
  IN  /\ "layout" \in DOMAIN f =>
           <<f.backdrop, f.copies>> =
             CASE f.layout = "transparency_light" -> <<"light", 1>>
               [] f.layout = "transparency_dark" -> <<"dark", 1>>
               [] f.layout = "transparency_overlap" -> <<"light", 2>>
               [] OTHER -> <<"studio", 1>>
      /\ "attachment" \in DOMAIN f =>
           f.height = CASE f.attachment = "floor" -> 80 [] f.attachment = "wall" -> 82 [] OTHER -> 83
      /\ f.kind = "equippable_head" =>
           /\ f.subject = "bare_control" => s.kind = "comparison_reference"
           /\ f.chest => f.subject = "player" /\ f.framing = "full_body"
      /\ IF f.kind \in DisplayKinds THEN s.settling >= 2 ELSE s.settling = 0
      /\ f.kind \in DisplayKinds \cup {"native_block_state"} => f.tick = 0

SceneAccepted(s) ==
  /\ SceneShaped(s) /\ FixtureShaped(s.fixture)
  /\ KindFits(s) /\ FixtureFits(s)
  /\ IdOf(s) \notin s.comparisons
  /\ \A a, b \in s.intents : a.id = b.id => a = b

-----------------------------------------------------------------------------
(* Plans: a set of scenes, which createClientCapturePlan sorts by id.       *)

SceneNamed(scenes, id) == {s \in scenes : IdOf(s) = id}
Authoritative(scenes, id) == \E s \in SceneNamed(scenes, id) : s.required

\* The stock scenes of the same base.
StockOf(scenes, s) ==
  {v \in scenes : v.base = s.base
     /\ v.kind \in IF s.kind = "first_person_scale_reference" THEN {"first_person_vanilla"}
                   ELSE {"first_person_vanilla", "minecraft_vanilla"}}

\* What a scene shows, as far as an aid of this kind has to show it too.
Shown(s, aid) ==
  LET shown == [s EXCEPT !.kind = NoValue, !.required = NoValue, !.intents = {}, !.comparisons = {},
                         !.presentation = IF aid # "first_person_scale_reference" \/ @ = "reference_arm"
                                          THEN NoValue ELSE @]
  IN  IF aid = "measurement_control" THEN [shown EXCEPT !.settling = 0, !.fixture = s.fixture.state]
      ELSE shown

\* Every aid shows what its stock scene shows; control and scene are compared.
AidsArePaired(scenes) ==
  \A s \in scenes :
    s.kind \in {"first_person_scale_reference", "debug_hitbox_reference", "measurement_control"} =>
      \E v \in StockOf(scenes, s) :
        /\ Shown(s, s.kind) = Shown(v, s.kind)
        /\ s.kind = "measurement_control" => s.comparisons = {IdOf(v)} /\ IdOf(s) \in v.comparisons

ReadinessMetrics == {"animation_stability", "lighting_separation", "pairwise_pixel_delta",
                     "texture_variant_resolution"}

Sources(s, intent) == IF intent.sources = {} THEN {IdOf(s)} \cup s.comparisons ELSE intent.sources

\* A critical measurement is calibrated and of two authoritative frames.
IntentAccepted(scenes, s, intent) ==
  /\ intent.critical =>
       /\ s.required /\ intent.calibrated /\ intent.metric \in ReadinessMetrics
       /\ Cardinality(Sources(s, intent)) = 2
       /\ \A id \in Sources(s, intent) : Authoritative(scenes, id)
  /\ intent.sources # {} =>
       IdOf(s) \in intent.sources /\ intent.sources \subseteq {IdOf(s)} \cup s.comparisons

\* Headwear is shown on both armor stands, and with the chest armor declared.
HeadwearEvidenceAccepted(r, scenes) ==
  /\ \A angle \in {"front", "side"} :
       \E s \in SceneNamed(scenes, Vanilla(<<"head_stand", angle>>)) :
         /\ s.camera = "neutral" /\ s.context = "world" /\ s.shot = <<angle, "full_body">>
         /\ s.fixture.state = FirstState(r)
         /\ s.fixture.subject = "armor_stand" /\ s.fixture.framing = "full_body"
         /\ s.fixture.pose = "idle" /\ s.fixture.angle = angle /\ ~s.fixture.chest
  /\ r.review.chestArmor => \A player \in {"steve", "alex"} :
       \E s \in SceneNamed(scenes, Vanilla(<<"head_chest", player>>)) :
         /\ s.player = player /\ s.fixture.chest
         /\ Vanilla(<<"head", player, "front", "full_body">>) \in s.comparisons

PlanAccepted(r, scenes) ==
  /\ Cardinality(scenes) \in 1..64
  /\ \A a, b \in scenes : a # b => IdOf(a) # IdOf(b) /\ {i.id : i \in a.intents} \cap {i.id : i \in b.intents} = {}
  /\ AidsArePaired(scenes)
  /\ \A s \in scenes :
       /\ SceneAccepted(s) /\ NameIn(r, s.base) # "long"
       /\ s.target = r.target
       /\ s.fixture.kind \in {r.strategy, "measurement_control"}
       /\ s.fixture.state \in Declared(r)
       /\ s.fixture.kind = "equippable_head" => (s.fixture.chest => r.review.chestArmor)
       /\ \A id \in s.comparisons : SceneNamed(scenes, id) # {}
       /\ s.kind \in {"comparison_reference", "world_scale_reference", "measurement_control"} =>
            s.comparisons # {} /\ \A id \in s.comparisons : Authoritative(scenes, id)
       /\ \A intent \in s.intents : IntentAccepted(scenes, s, intent)
  /\ r.strategy = "equippable_head" => HeadwearEvidenceAccepted(r, scenes)
=============================================================================
