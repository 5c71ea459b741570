-------------------------- MODULE MCClientCapture --------------------------
(* Requests of every profile and strategy.  A representation has the states  *)
(* that its review names and, where the planner makes scenes of them, one    *)
(* more.                                                                     *)
EXTENDS ClientCapture, FiniteSetsExt, TLC

Named(ids, contents) == [i \in DOMAIN ids |-> [id |-> ids[i], content |-> contents[i], name |-> "plain"]]
Asked(profile, target, strategy, states, review) ==
  [profile |-> profile,
   representation |-> [target |-> target, strategy |-> strategy, states |-> states, review |-> review],
   held |-> [kind |-> "generic", pose |-> "none", hand |-> "right", aims |-> FALSE, secondaryGrip |-> FALSE],
   gui |-> [counts |-> {16}, durability |-> TRUE, glint |-> TRUE],
   scaleViews |-> FALSE, hitboxViews |-> FALSE, settling |-> NoValue]

NoReview == [none |-> TRUE]
Still == [still |-> TRUE]
Held == Asked("held_item", "held_item", "item_stack", Named(<<"default">>, <<Still>>), NoReview)
Gui == Asked("gui_item", "gui_item", "item_stack", Named(<<"default">>, <<Still>>), NoReview)
Block(strategy) ==
  Asked("block", "block", strategy, Named(<<"a", "b">>, <<Still, Still>>),
        [inventory |-> TRUE, transparency |-> TRUE, biomes |-> {"plains", "desert"}, animatedTextureTicks |-> <<>>])
Hat == [slot |-> "head", asset |-> TRUE, overlay |-> "pumpkin"]
Headwear ==
  Asked("head_wearable", "headwear", "equippable_head", Named(<<"a", "b">>, <<Hat, Hat>>),
        [statePoses |-> [a |-> "idle", b |-> "crouch"], renderMode |-> "equipment_model",
         cameraOverlay |-> "pumpkin", wideFov |-> TRUE, chestArmor |-> TRUE])
Zombie == [type |-> "zombie", variant |-> NoValue, baby |-> FALSE]
Cow == [type |-> "cow", variant |-> "cold", baby |-> FALSE]
Entity(ids, contents) ==
  Asked("entity_model", "entity", "native_entity", Named(ids, contents),
        [lowLight |-> TRUE, animationTicks |-> <<2, 3>>, poseStates |-> NoValue])
Part(interaction) == [still |-> TRUE, interaction |-> interaction]
Rig == Asked("entity_model", "entity", "display_rig", Named(<<"a", "b">>, <<Part(TRUE), Part(FALSE)>>),
        [lowLight |-> FALSE, animationTicks |-> <<>>, poseStates |-> [idle |-> "a", walk |-> "a", attack |-> "b"]])

Sides == {"north", "east", "south", "west"}
Placed(strategy, states, attachments, placement) ==
  Asked("placeable", "placeable", strategy, states, [attachments |-> attachments, placementStates |-> placement])
Floor(f) == [place \in Sides \X {"floor"} |-> f[place[1]]]
NativeBlock ==
  Placed("native_placeable_block", Named(<<"e", "n", "s", "w">>,
           <<[facing |-> "east"], [facing |-> "north"], [facing |-> "south"], [facing |-> "west"]>>),
         {"floor"}, Floor([north |-> "n", east |-> "e", south |-> "s", west |-> "w"]))
NativePlaced ==
  Placed("native_placeable_entity", Named(<<"a">>, <<Still>>), {"floor"}, Floor([side \in Sides |-> "a"]))
PlacedRig(interaction) ==
  Placed("display_rig", Named(<<"a", "b">>, <<Part(interaction), Part(FALSE)>>), {"floor", "wall", "ceiling"},
         [place \in Sides \X {"floor", "wall", "ceiling"} |-> IF place[2] = "wall" THEN "b" ELSE "a"])

WithHitboxes(q) == [q EXCEPT !.hitboxViews = TRUE]
LastNamed(q, name) == [q EXCEPT !.representation.states[2].name = name]

\* Wrong options, profiles that are not captured, and states that are not accepted.
NotTaken ==
  [refusedScale |-> [Gui EXCEPT !.scaleViews = TRUE],
   refusedHitbox |-> WithHitboxes(Held),
   refusedProfile |-> [Held EXCEPT !.profile = "projectile"],
   refusedGrip |-> [Held EXCEPT !.held.secondaryGrip = TRUE],
   refusedSettling |-> [Held EXCEPT !.settling = 3],
   refusedTexture |-> [Block("block_display") EXCEPT !.representation.review.animatedTextureTicks = <<2>>],
   nameTooLong |-> LastNamed(Block("native_block_state"), "long"),
   notRead |-> Entity(<<"a", "default">>, <<Cow, Zombie>>)]

Taken ==
  [held |-> Held,
   weapon |-> [Held EXCEPT !.scaleViews = TRUE, !.held.pose = "aim", !.held.aims = TRUE, !.held.kind = "weapon"],
   gui |-> Gui,
   block |-> Block("native_block_state"),
   blockDisplay |-> [Block("block_display") EXCEPT !.settling = 3],
   headwear |-> Headwear,
   plainHeadwear |-> [Headwear EXCEPT !.representation.review.chestArmor = FALSE,
                                      !.representation.review.wideFov = FALSE],
   entity |-> Entity(<<"default", "z">>, <<Zombie, Cow>>),
   nameWithDash |-> LastNamed(Block("native_block_state"), "dash"),
   nameWithUnderscore |-> LastNamed(Entity(<<"default", "z">>, <<Zombie, Cow>>), "underscore"),
   entityBoxes |-> WithHitboxes(Entity(<<"default">>, <<Zombie>>)),
   rig |-> Rig,
   rigBoxes |-> WithHitboxes([Rig EXCEPT !.settling = 3]),
   placedBlock |-> NativeBlock,
   placedEntity |-> NativePlaced,
   placedRig |-> PlacedRig(TRUE),
   placedRigBoxes |-> WithHitboxes(PlacedRig(TRUE)),
   placedRigUntouched |-> WithHitboxes(PlacedRig(FALSE))]

MCRequests == NotTaken @@ Taken

\* The scenes in the order in which the fold meets them.
MCInOrder(scenes) == FoldSet(LAMBDA scene, plan : Append(plan, scene), <<>>, scenes)

\* Only the calls whose plan is said to be verified, and is not.
MCUntouched == [placedBlock |-> WithHitboxes(NativeBlock)]
=============================================================================
