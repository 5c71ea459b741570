------------------------- MODULE ClientCapturePlan -------------------------
(***************************************************************************)
(* The scenes that src/visual/client-capture-plan.ts lowers a profile and  *)
(* a representation to.  A request says what one call is given:            *)
(*   profile         the review profile                                    *)
(*   representation  what is captured                                      *)
(*   held, gui       what the specification says of the item               *)
(*   scaleViews, hitboxViews, settling   the options of the call           *)
(* Angles and distances of a camera are not computed: a shot stands for    *)
(* what they are computed from.                                            *)
(***************************************************************************)
EXTENDS ClientCaptureProtocol

\* The target that a profile must be represented by.
TargetOf(profile) ==
  CASE profile = "head_wearable" -> "headwear"
    [] profile = "entity_model" -> "entity"
    [] OTHER -> profile

Calibrated == ReadinessMetrics \cup
  {"frame_retention", "unexpected_culling", "head_penetration", "self_intersection",
   "first_person_obstruction", "player_scale", "hitbox_containment", "hitbox_empty_space",
   "orientation_alignment", "billboard_correctness"}

\* The id of a measurement is made of the base name of its scene.  Without sources
\* it is of its scene and of what that is compared with.
Intent(base, suffix, metric, sources, critical) ==
  [id |-> <<base, suffix>>, metric |-> metric, sources |-> sources, critical |-> critical,
   calibrated |-> metric \in Calibrated]
Advisory(base, metric) == Intent(base, metric, metric, {}, FALSE)
Critical(base, metric) == Intent(base, metric, metric, {}, TRUE)

Describe(base, shot, fixture, intents) ==
  [base |-> base, kind |-> "minecraft_vanilla", camera |-> "neutral", context |-> "world",
   hand |-> "right", player |-> "steve", fov |-> 70, guiScale |-> "given", shot |-> shot,
   low |-> FALSE, biome |-> "plains", animation |-> <<"idle", 0>>, fixture |-> fixture,
   intents |-> intents, comparisons |-> {}, presentation |-> NoValue]

\* lowerDescriptor; eye: the frame is taken from the eyes above the feet anchor.
Lower(r, settling, d) ==
  LET added ==
        [target |-> r.target,
         required |-> d.kind \notin SupplementalKinds,
         settling |-> IF r.strategy \notin DisplayKinds THEN 0 ELSE IF settling = NoValue THEN 2 ELSE settling,
         eye |-> IF r.target = "headwear" THEN d.fixture.framing = "first_person"
                 ELSE /\ r.target \in {"held_item", "gui_item"} /\ d.context = "world"
                      /\ d.camera \in {"first_person", "neutral"}]
  IN  [field \in DOMAIN added \cup DOMAIN d |-> IF field \in DOMAIN added THEN added[field] ELSE d[field]]

\* Defect: a control waits for the settled ticks of its scene.
ControlOfSettled(s) ==
  [s EXCEPT !.kind = "measurement_control", !.required = FALSE, !.presentation = NoValue,
            !.fixture = [kind |-> "measurement_control", target |-> s.target, state |-> s.fixture.state],
            !.intents = {Intent(s.base, "foreground_control", "pairwise_pixel_delta",
                                {IdOf(s), Control(s.base)}, FALSE)},
            !.comparisons = {IdOf(s)}]

\* The control of a scene shows its studio without the subject.
ControlOf(s) ==
  [s EXCEPT !.kind = "measurement_control", !.required = FALSE, !.settling = 0, !.presentation = NoValue,
            !.fixture = [kind |-> "measurement_control", target |-> s.target, state |-> s.fixture.state],
            !.intents = {Intent(s.base, "foreground_control", "pairwise_pixel_delta",
                                {IdOf(s), Control(s.base)}, FALSE)},
            !.comparisons = {IdOf(s)}]

WithControls(scenes, ids) ==
  LET controlled == {s \in scenes : IdOf(s) \in ids}
  IN  (scenes \ controlled)
        \cup {[s EXCEPT !.comparisons = @ \cup {Control(s.base)}] : s \in controlled}
        \cup {ControlOf(s) : s \in controlled}

-----------------------------------------------------------------------------
(* Items: the scenes of their review profiles.                              *)

Framed(base) == {Advisory(base, "frame_retention")}
When(condition, set) == IF condition THEN set ELSE {}

\* Where a held item is seen: from the eyes, over the shoulder, and by itself.
HeldScenes(item, fixture) ==
  LET From(base, camera, hand, player, fov) ==
        [Describe(base, base, fixture, Framed(base)) EXCEPT
           !.camera = camera, !.hand = hand, !.player = player, !.fov = fov]
      Eyes(base, hand, player) == From(base, "first_person", hand, player, 70)
      Acting(base, animation) == [Eyes(base, item.hand, "steve") EXCEPT !.animation = animation]
      aim == IF item.pose = "aim" THEN "aim" ELSE "idle"
  IN  {Eyes(<<"fp", hand, player>>, hand, player) : hand \in {"right", "left"}, player \in {"steve", "alex"}}
      \cup {From(<<"fp_right_wide">>, "first_person", "right", "steve", 100)}
      \cup {From(<<"tp_rear", hand, player>>, "third_person_back", hand, player, 50) :
              hand \in {"right", "left"}, player \in {"steve", "alex"}}
      \cup {From(<<"tp_front", "right", player>>, "third_person_front", "right", player, 50) :
              player \in {"steve", "alex"}}
      \cup {[From(<<"item_neutral">>, "neutral", "right", "steve", 70) EXCEPT !.context = "item_inspection"]}
      \cup When(item.kind \in {"weapon", "tool"} \/ item.pose = "swing",
                {Acting(<<"swing_midpoint">>, <<"swing", 4>>)})
      \cup When(item.pose \notin {"none", "swing"},
                {Acting(<<"active_use">>, <<IF item.pose = "aim" THEN "aim" ELSE "use", 10>>)})
      \cup When(item.aims, {Acting(<<"aiming">>, <<aim, 0>>)})

\* Where a GUI item is seen: slots, overlays and the tooltip.
GuiScenes(gui, fixture) ==
  LET In(base, context, presentation) ==
        [Describe(base, <<"gui">>, fixture, Framed(base)) EXCEPT
           !.context = context, !.presentation = presentation]
  IN  {[In(<<"gui_inventory", scale>>, "inventory", NoValue) EXCEPT !.guiScale = scale] : scale \in {"2", "4"}}
      \cup {In(<<"gui_hotbar">>, "hotbar", NoValue), In(<<"gui_hotbar_selected">>, "hotbar", "selected_hotbar"),
            In(<<"gui_tooltip">>, "tooltip", NoValue)}
      \cup {In(<<"gui_count", count>>, "inventory", "stack_count") : count \in gui.counts}
      \cup When(gui.durability, {In(<<"gui_durability">>, "inventory", "durability")})
      \cup When(gui.glint, {In(<<"gui_glint">>, "inventory", "glint")})

\* First-person views are stock views, with a scale reference beside them on request.
ItemScenes(q, r) ==
  LET fixture == [kind |-> "item_stack", target |-> r.target, state |-> FirstState(r)]
      reviewed == IF q.profile = "gui_item" THEN GuiScenes(q.gui, fixture) ELSE HeldScenes(q.held, fixture)
      eyes == {d \in reviewed : FirstPersonWorld(d)}
  IN  {Lower(r, q.settling, d) : d \in
         (reviewed \ eyes)
         \cup {[d EXCEPT !.kind = "first_person_vanilla"] : d \in eyes}
         \cup When(q.scaleViews, {[d EXCEPT !.kind = "first_person_scale_reference", !.intents = {},
                                            !.presentation = "reference_arm"] : d \in eyes})}

-----------------------------------------------------------------------------
(* Blocks.                                                                  *)

Against(d, other) == [d EXCEPT !.comparisons = {Vanilla(other)}]

BlockFixture(r, layout, backdrop, copies, state) ==
  [kind |-> r.strategy, target |-> "block", layout |-> layout, backdrop |-> backdrop,
   copies |-> copies, state |-> state, tick |-> 0]
Studio(r, layout) == BlockFixture(r, layout, "studio", 1, FirstState(r))
Hero == <<"block_hero">>

\* Through something light, something dark, and itself.
TransparencyScenes(r) ==
  LET light == <<"block_transparency", "light">>
      Through(name, layout, backdrop, copies) ==
        Describe(<<"block_transparency", name>>, <<"front">>,
              BlockFixture(r, layout, backdrop, copies, FirstState(r)),
              {Advisory(<<"block_transparency", name>>, "alpha_order_artifacts")})
  IN  {Through("light", "transparency_light", "light", 1),
       Against(Through("dark", "transparency_dark", "dark", 1), light),
       Against(Through("overlap", "transparency_overlap", "light", 2), light)}

\* The biomes that tint it, and the states after the first.
BlockVariants(r) ==
  {LET base == <<"block_biome", biome>>
   IN  [Against(Describe(base, <<"front">>, Studio(r, "single"),
                      {Intent(base, "delta", "pairwise_pixel_delta", {}, biome # "plains")}), Hero) EXCEPT
          !.biome = biome] : biome \in r.review.biomes}
  \cup {LET base == <<"block_state", state>>
        IN  Against(Describe(base, <<"front">>, BlockFixture(r, "single", "studio", 1, state),
                          {Advisory(base, "pairwise_pixel_delta")}), Hero) :
          state \in Declared(r) \ {FirstState(r)}}

\* Animated textures, which no accepted block asks for, have no scenes here.
BlockScenes(q, r) ==
  LET day == <<"block_light_day">>   low == <<"block_light_low">>   slot == <<"block", "inventory">>
      scenes ==
        {Describe(Hero, <<"quarter">>, Studio(r, "single"), Framed(Hero)),
         Describe(day, <<"front">>, Studio(r, "single"), {}),
         [Against(Describe(low, <<"front">>, Studio(r, "single"),
                        {Critical(low, "pairwise_pixel_delta"), Critical(low, "lighting_separation")}), day) EXCEPT
            !.low = TRUE]}
        \cup {Describe(<<"block_face", face>>, <<face>>, Studio(r, "single"),
                    {Advisory(<<"block_face", face>>, metric) : metric \in {"frame_retention", "visible_faces"}}) :
                face \in {"north", "south", "east", "west", "up", "down"}}
        \cup {Describe(<<"block", layout>>, <<"quarter">>, Studio(r, layout),
                    {Advisory(<<"block", layout>>, IF layout = "culling" THEN "unexpected_culling"
                                                   ELSE "adjacency_seam")}) :
                layout \in {"adjacency", "culling"}}
        \cup When(r.review.inventory,
               {[Describe(slot, <<"front">>, Studio(r, "inventory"), Framed(slot)) EXCEPT !.context = "inventory"]})
        \cup When(r.review.transparency, TransparencyScenes(r))
        \cup BlockVariants(r)
  IN  WithControls({Lower(r, q.settling, d) : d \in scenes}, {Vanilla(Hero)})

-----------------------------------------------------------------------------
(* Headwear.                                                                *)

WornFixture(subject, framing, pose, state, angle, chest) ==
  [kind |-> "equippable_head", target |-> "headwear", state |-> state, subject |-> subject,
   framing |-> framing, pose |-> pose, angle |-> angle, chest |-> chest]
Worn(base, fixture, camera, player, intents) ==
  [Describe(base, <<fixture.angle, fixture.framing>>, fixture, intents) EXCEPT !.camera = camera, !.player = player]
Players == {"steve", "alex"}
Body(player) == <<"head", player, "front", "full_body">>

\* Around both players, and their bare heads.
PlayerScenes(r) ==
  LET Camera(angle) == IF angle = "front" THEN "third_person_front" ELSE "third_person_back"
      Around(player, angle, framing) ==
        LET base == <<"head", player, angle, framing>>
            fit == IF angle = "front" THEN "face_eye_clearance" ELSE "head_penetration"
        IN  Worn(base, WornFixture("player", framing, "idle", FirstState(r), angle, FALSE), Camera(angle), player,
                 {Advisory(base, fit)} \cup Framed(base))
      Bare(player) ==
        LET base == <<"head_bare", player>>
        IN  [Against(Worn(base, WornFixture("bare_control", "head", "idle", FirstState(r), "front", FALSE),
                          "third_person_front", player, {Advisory(base, "variant_fit_delta")}),
                     <<"head", player, "front", "head">>) EXCEPT !.kind = "comparison_reference"]
  IN  {Around(player, angle, framing) : player \in Players, angle \in {"front", "side", "rear"},
         framing \in {"head", "full_body"}}
      \cup {Bare(player) : player \in Players}

ChestScenes(r) ==
  {LET base == <<"head_chest", player>>
   IN  Against(Worn(base, WornFixture("player", "full_body", "idle", FirstState(r), "front", TRUE),
                    "third_person_front", player,
                    {Critical(base, "pairwise_pixel_delta"), Advisory(base, "self_intersection")}), Body(player)) :
     player \in Players}

\* What the wearer sees: each frame is compared with its control.
EyeScenes(r) ==
  LET Eyes(base, fov, metric) ==
        [Worn(base, WornFixture("player", "first_person", "idle", FirstState(r), "front", FALSE),
              "first_person", "steve",
              {Intent(base, metric, metric, {[kind |-> "first_person_vanilla", base |-> base], Control(base)},
                      FALSE)}) EXCEPT !.kind = "first_person_vanilla", !.fov = fov]
  IN  {Eyes(<<"head_first_person">>, 70, "first_person_obstruction")}
      \cup When(r.review.wideFov, {Eyes(<<"head_first_person_wide">>, 100, "first_person_obstruction")})
      \cup When(r.review.cameraOverlay # NoValue, {Eyes(<<"head_camera_overlay">>, 70, "overlay_coverage")})

StandAndStateScenes(r) ==
  {LET base == <<"head_stand", angle>>
   IN  Worn(base, WornFixture("armor_stand", "full_body", "idle", FirstState(r), angle, FALSE), "neutral", "steve",
            {Advisory(base, "armor_stand_alignment")}) : angle \in {"front", "side"}}
  \cup {LET base == <<"head_state", state>>
        IN  Against(Worn(base, WornFixture("player", "full_body", r.review.statePoses[state], state, "front", FALSE),
                         "third_person_front", "steve", {Advisory(base, "pairwise_pixel_delta")}), Body("steve")) :
          state \in Declared(r) \ {FirstState(r)}}

HeadwearScenes(q, r) ==
  LET scenes == EyeScenes(r) \cup PlayerScenes(r) \cup When(r.review.chestArmor, ChestScenes(r))
                  \cup StandAndStateScenes(r)
  IN  WithControls({Lower(r, q.settling, d) : d \in scenes},
                   {Vanilla(<<"head", "steve", "front", "head">>)} \cup {IdOf(d) : d \in EyeScenes(r)})

-----------------------------------------------------------------------------
(* Entities and their rigs.                                                 *)

PoseState(r, pose) == IF r.strategy = "display_rig" THEN r.review.poseStates[pose] ELSE FirstState(r)
EntityFixture(r, pose, turn, scale, tick, state) ==
  [kind |-> r.strategy, target |-> "entity", state |-> state, pose |-> pose, turn |-> turn,
   scale |-> scale, tick |-> tick]
IdleEntity(r) == EntityFixture(r, "idle", 0, FALSE, 0, PoseState(r, "idle"))
Front == <<"entity", 0>>

\* A rig has a state for each pose; a native entity is posed in its first state.
PoseScenes(r) ==
  LET ticks == r.review.animationTicks
      firstTick == IF ticks = <<>> THEN 0 ELSE ticks[1]
  IN  {Describe(<<"entity_pose", pose>>, <<"front">>,
             EntityFixture(r, pose, 0, FALSE, IF pose = "idle" THEN 0 ELSE firstTick, PoseState(r, pose)),
             {Advisory(<<"entity_pose", pose>>, "self_intersection")}) : pose \in {"idle", "walk", "attack"}}
      \cup {Against(Describe(<<"entity_walk_sample", k>>, <<"front">>,
                          EntityFixture(r, "walk", 0, FALSE, ticks[k], PoseState(r, "walk")),
                          {Critical(<<"entity_walk_sample", k>>, "animation_stability")}),
                    <<"entity_pose", "walk">>) : k \in 2..Len(ticks)}

\* The states after the first that are no pose of a rig, and the first in low light.
EntityVariants(r) ==
  LET poses == IF r.review.poseStates = NoValue THEN {} ELSE Range(r.review.poseStates)
      low == <<"entity_low_light">>
  IN  {LET base == <<"entity_state", state>>
       IN  Against(Describe(base, <<"front">>, [IdleEntity(r) EXCEPT !.state = state],
                         {Advisory(base, "texture_variant_resolution")}), Front) :
         state \in Declared(r) \ ({FirstState(r)} \cup poses)}
      \cup When(r.review.lowLight,
             {[Against(Describe(low, <<"front">>, IdleEntity(r), {Critical(low, "pairwise_pixel_delta")}), Front) EXCEPT
                 !.low = TRUE]})

EntityHitbox(r, turn) ==
  LET base == <<"entity", turn>>
      frames == {[kind |-> "debug_hitbox_reference", base |-> base], Vanilla(base), Control(base)}
  IN  [Describe(base, <<"front">>, [IdleEntity(r) EXCEPT !.turn = turn],
             {Intent(base, metric, metric, frames, FALSE) :
                metric \in {"hitbox_containment", "hitbox_empty_space"}}) EXCEPT
         !.kind = "debug_hitbox_reference", !.comparisons = {Vanilla(base), Control(base)}]

EntityScenes(q, r) ==
  LET shadow == <<"entity_ground_shadow">>   scale == <<"entity_player_scale">>
      scenes ==
        {Describe(<<"entity", turn>>, <<"front">>, [IdleEntity(r) EXCEPT !.turn = turn], Framed(<<"entity", turn>>)) :
           turn \in {45 * k : k \in 0..7}}
        \cup {Describe(shadow, <<"front">>, IdleEntity(r), {Advisory(shadow, "silhouette_grounding")}),
              [Against(Describe(scale, <<"front">>, [IdleEntity(r) EXCEPT !.scale = TRUE],
                             {Advisory(scale, "player_scale")}), Front) EXCEPT !.kind = "world_scale_reference"]}
        \cup PoseScenes(r) \cup EntityVariants(r)
        \cup When(q.hitboxViews, {EntityHitbox(r, 0), EntityHitbox(r, 90)})
  IN  WithControls({Lower(r, q.settling, d) : d \in scenes},
                   {Vanilla(Front)} \cup When(q.hitboxViews, {Vanilla(<<"entity", 90>>)}))

-----------------------------------------------------------------------------
(* Placeables.                                                              *)

Rank == [floor |-> 0, north |-> 1, east |-> 2, south |-> 3, west |-> 4, wall |-> 10, ceiling |-> 11]
PlacesOf(r, state) == {p \in DOMAIN r.review.placementStates : r.review.placementStates[p] = state}

\* The first floor place of a state in the order of the review, or its first place.
PlaceOf(r, state) ==
  LET Before(p) == (IF p[2] = "floor" THEN 0 ELSE 1000) + 20 * Rank[p[1]] + Rank[p[2]]
  IN  CHOOSE p \in PlacesOf(r, state) : \A other \in PlacesOf(r, state) : Before(p) <= Before(other)

PlaceFixture(r, place, distance, context, state) ==
  [kind |-> r.strategy, target |-> "placeable", state |-> state, orientation |-> place[1],
   attachment |-> place[2], distance |-> distance, occluded |-> context = "occlusion",
   context |-> context, tick |-> 0,
   height |-> CASE place[2] = "floor" -> 80 [] place[2] = "wall" -> 82 [] OTHER -> 83]
Place(r, base, shot, side, attachment, distance, context, metrics) ==
  LET place == <<side, attachment>>
  IN  Describe(base, shot, PlaceFixture(r, place, distance, context, r.review.placementStates[place]),
               {Advisory(base, metric) : metric \in metrics})

FloorContact(r) ==
  Place(r, <<"place_floor_contact">>, <<"close">>, "north", "floor", "close", "corner",
        {"attachment_gap", "z_fighting"} \cup When(r.strategy = "display_rig", {"billboard_correctness"}))
PlaceFacing(r, side, distance) ==
  Place(r, <<"place", side, distance>>, <<side, distance>>, side, "floor", distance, "plain", {"orientation_alignment"})

\* From near, from the middle distance, and there behind something.
RangeScenes(r) ==
  LET near == <<"place_range", "near">>   mid == <<"place_range", "mid">>   hidden == <<"place_occluded">>
  IN  {Place(r, near, <<"near">>, "north", "floor", "near", "plain", {}),
       [Place(r, mid, <<"mid">>, "north", "floor", "mid", "plain", {}) EXCEPT
          !.comparisons = {Vanilla(near)},
          !.intents = {Intent(mid, "delta", "pairwise_pixel_delta", {Vanilla(mid), Vanilla(near)}, FALSE)}],
       [Place(r, hidden, <<"mid">>, "north", "floor", "mid", "occlusion", {}) EXCEPT
          !.comparisons = {Vanilla(mid), Control(mid)},
          !.intents = {Intent(hidden, "visibility", "visibility_occlusion",
                              {Vanilla(hidden), Vanilla(mid), Control(mid)}, FALSE),
                       Intent(hidden, "delta", "pairwise_pixel_delta", {Vanilla(hidden), Vanilla(mid)}, TRUE)}]}

\* The other attachments, and the states after the first.
PlaceVariants(r) ==
  {Place(r, <<"place_contact", attachment>>, <<"quarter", attachment>>, "north", attachment, "close", "plain",
         {"attachment_gap"}) : attachment \in r.review.attachments \ {"floor"}}
  \cup {LET base == <<"place_state", state>>
        IN  Against(Describe(base, <<"front">>, PlaceFixture(r, PlaceOf(r, state), "close", "plain", state),
                             {Advisory(base, "pairwise_pixel_delta")}), <<"place_floor_contact">>) :
          state \in Declared(r) \ {FirstState(r)}}

\* The frame again with the hitbox of the interaction.
PlaceHitbox(d) ==
  LET aid == [kind |-> "debug_hitbox_reference", base |-> d.base]
  IN  [d EXCEPT !.kind = aid.kind, !.comparisons = {Vanilla(d.base), Control(d.base)},
                !.intents = {Intent(d.base, "hitbox", "collision_interaction_footprint_delta",
                                    {aid, Vanilla(d.base), Control(d.base)}, FALSE)}]

PlaceableScenes(q, r) ==
  LET touched == r.strategy = "display_rig" /\ \E s \in Range(r.states) : s.content.interaction
      scenes ==
        {PlaceFacing(r, side, distance) : side \in {"north", "east", "south", "west"},
           distance \in {"player_eye", "close"}}
        \cup {FloorContact(r),
              Place(r, <<"place_footprint_corner">>, <<"quarter">>, "north", "floor", "close", "corner",
                    {"collision_interaction_footprint_delta"}),
              Place(r, <<"place_doorway">>, <<"front">>, "east", "floor", "player_eye", "doorway", {"frame_retention"})}
        \cup RangeScenes(r) \cup PlaceVariants(r)
        \cup When(q.hitboxViews /\ touched, {PlaceHitbox(d) : d \in {FloorContact(r), PlaceFacing(r, "east", "close")}})
  IN  WithControls({Lower(r, q.settling, d) : d \in scenes},
                   {Vanilla(<<"place_floor_contact">>), Vanilla(<<"place_range", "mid">>)}
                     \cup When(q.hitboxViews, {Vanilla(<<"place", "east", "close">>)}))

-----------------------------------------------------------------------------
(* createVisualClientCapturePlan.                                           *)

\* Ticks of settling, of what has none or out of their range.
SettlingRefused(q) ==
  q.settling # NoValue /\ (q.settling \notin 2..40 \/ q.representation.strategy \notin DisplayKinds)

\* The mod does not pose the second hand.
GripUnsupported(q) == q.profile = "held_item" /\ q.held.secondaryGrip

\* A state that no place of the review has.
StateUnplaced(r) ==
  r.target = "placeable" /\ \E state \in Declared(r) \ {FirstState(r)} : PlacesOf(r, state) = {}

\* What makes the planner throw, before or while it lowers the scenes.
Refused(q) ==
  LET r == q.representation
  IN  \/ q.profile \in {"projectile", "armor"}
      \/ ~RepresentationAccepted(r)
      \/ r.target # TargetOf(q.profile)
      \/ q.scaleViews /\ q.profile # "held_item"
      \/ q.hitboxViews /\ r.target \notin {"entity", "placeable"}
      \/ SettlingRefused(q) \/ GripUnsupported(q) \/ StateUnplaced(r)

ScenesOf(q) ==
  LET r == q.representation
  IN  CASE r.target \in {"held_item", "gui_item"} -> ItemScenes(q, r)
        [] r.target = "block" -> BlockScenes(q, r)
        [] r.target = "headwear" -> HeadwearScenes(q, r)
        [] r.target = "entity" -> EntityScenes(q, r)
        [] OTHER -> PlaceableScenes(q, r)
=============================================================================
