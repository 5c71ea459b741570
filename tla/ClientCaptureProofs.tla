------------------------ MODULE ClientCaptureProofs ------------------------
(* What ClientCapture guarantees of the evidence that a capture records, for *)
(* any requests, any order of the scenes, and any number of late packets,    *)
(* edits and faults.                                                         *)
EXTENDS ClientCaptureInvariants, TLAPS, FiniteSetTheorems, WellFoundedInduction

-----------------------------------------------------------------------------

\* What a call is asked for does not change, nor what is made of it.
LEMMA Asked ==
  ASSUME request' = request
  PROVE  /\ Pictured' = Pictured /\ Plan' = Plan /\ Staged' = Staged /\ View' = View /\ Outputs' = Outputs
         /\ \A i, differs : Shows(i, differs)' <=> Shows(i, differs)
<1>1. Pictured' = Pictured /\ Plan' = Plan
  BY DEF Pictured, Plan
<1>2. View' = View
  BY <1>1 DEF View
<1>3. Outputs' = Outputs
  BY DEF Outputs, Poor, Samples
<1>4. \A s : AroundOf(s)' = AroundOf(s)
  BY DEF AroundOf, Anchor
<1>5. Staged' = Staged
  BY <1>1, <1>4 DEF Staged
<1>6. \A i, differs : Shows(i, differs)' <=> Shows(i, differs)
  BY <1>1 DEF Shows
<1>. QED
  BY <1>1, <1>2, <1>3, <1>5, <1>6

\* An accepted plan has a scene, every scene is one of the request's, and all
\* are of its target and of its strategy, or controls.
LEMMA AcceptedPlan ==
  ASSUME request \in Accepted
  PROVE  /\ request \in Planned /\ Pictured = Scenes[request]
         /\ Plan \in Seq(Pictured) /\ Len(Plan) \in Nat \ {0}
         /\ \A i \in 1 .. Len(Plan) : Plan[i] \in Pictured
         /\ RepresentationAccepted(Representation)
         /\ \A s \in Pictured : s.target = Representation.target
         /\ \A s \in Pictured : s.fixture.kind \in {Representation.strategy, "measurement_control"}
<1>1. request \in Planned /\ PlanAccepted(Representation, Scenes[request])
  BY DEF Accepted, Representation
<1>2. Pictured = Scenes[request]
  BY <1>1 DEF Pictured
<1>3. Plan \in Seq(Pictured) /\ Len(Plan) = Cardinality(Pictured)
  BY <1>1, <1>2, OrderAssumption DEF Plan
<1>4. Cardinality(Pictured) \in 1 .. 64
  BY <1>1, <1>2 DEF PlanAccepted
<1>5. ASSUME NEW s \in Pictured
      PROVE  /\ s.target = Representation.target
             /\ s.fixture.kind \in {Representation.strategy, "measurement_control"}
  <2>1. s \in Scenes[request] /\ PlanAccepted(Representation, Scenes[request])
    BY <1>1, <1>2, <1>5
  <2>2. s.target = Representation.target
    BY <2>1, ZenonT(30) DEF PlanAccepted
  <2>3. s.fixture.kind \in {Representation.strategy, "measurement_control"}
    BY <2>1, ZenonT(30) DEF PlanAccepted
  <2>. QED
    BY <2>2, <2>3
<1>6. RepresentationAccepted(Representation)
  BY <1>1 DEF Planned, Refused, Representation
<1>7. Len(Plan) \in Nat \ {0}
  <2>1. \A n \in 1 .. 64 : n \in Nat \ {0}
    OBVIOUS
  <2>. QED
    BY <1>3, <1>4, <2>1, Zenon
<1>8. \A i \in 1 .. Len(Plan) : Plan[i] \in Pictured
  BY <1>3
<1>. QED
  BY <1>1, <1>2, <1>3, <1>5, <1>6, <1>7, <1>8

\* Where scenes spawn their subject no scene puts one at the origin.
LEMMA OriginIsClear ==
  ASSUME request \in Accepted, NEW s \in Pictured, Spawns(s) \/ s.target = "entity"
  PROVE  \A v \in Pictured : SubjectOf(v) = <<"air">>
<1> DEFINE blocks == {"native_block_state", "native_placeable_block"}
<1>1. Representation.strategy \notin blocks
  <2>1. CASE Spawns(s)
    BY <2>1, AcceptedPlan DEF Spawns
  <2>2. CASE s.target = "entity"
    <3>1. "entity" \in TargetsOf(Representation.strategy)
      BY <2>2, AcceptedPlan DEF RepresentationAccepted
    <3>. QED
      BY <3>1 DEF TargetsOf
  <2>. QED
    BY <2>1, <2>2
<1>2. \A v \in Pictured : v.fixture.kind \notin blocks
  BY <1>1, AcceptedPlan
<1>. QED
  BY <1>2 DEF SubjectOf

\* What is staged for a scene of the plan.
LEMMA StagingStaged ==
  ASSUME NEW s \in Pictured, NEW at \in Nat
  PROVE  /\ Staging(s, at) \in Staged /\ Staging(s, at).hands = HandsOf(s)
         /\ Staging(s, at).environment = <<s.low, s.biome>> /\ Staging(s, at).subject = SubjectOf(s)
         /\ DOMAIN Staging(s, at) = Parts
BY DEF Staging, Staged, Parts

\* A frame that counts as the last shows what the plan wants.
LEMMA ShotShows ==
  ASSUME TypeInv, request \in Accepted, NEW i \in 1 .. Len(Plan),
         world.seen.hands = HandsOf(Plan[i]), EnvironmentSeen(Staging(Plan[i], i)),
         FixtureSeen(Plan[i], Staging(Plan[i], i), world.seen)
  PROVE  LET wanted == Staging(Plan[i], i)
         IN  Shows(i, {part \in DOMAIN wanted : world.seen[part] # wanted[part]})
<1> DEFINE wanted == Staging(Plan[i], i)
           differs == {part \in DOMAIN wanted : world.seen[part] # wanted[part]}
<1>1. Plan[i] \in Pictured /\ i \in Nat
  BY AcceptedPlan
<1>2. /\ wanted \in Staged /\ wanted.hands = HandsOf(Plan[i]) /\ wanted.subject = SubjectOf(Plan[i])
  BY <1>1, StagingStaged
<1> HIDE DEF wanted
<1>3. differs \cap {"environment", "hands"} = {}
  BY <1>2 DEF EnvironmentSeen, wanted
<1>4. ASSUME ~IsLocal(Plan[i]) PROVE "subject" \notin differs
  <2>1. CASE Spawns(Plan[i]) \/ Plan[i].target = "entity"
    <3>1. \A v \in Pictured : SubjectOf(v) = <<"air">>
      BY <1>1, <2>1, OriginIsClear
    <3>2. world.seen.subject = <<"air">>
      BY <3>1 DEF TypeInv, Staged
    <3>. QED
      BY <1>1, <1>2, <3>1, <3>2
  <2>2. CASE ~Spawns(Plan[i]) /\ Plan[i].target # "entity"
    BY <1>4, <2>2 DEF FixtureSeen, wanted
  <2>. QED
    BY <2>1, <2>2
<1>5. Spawns(Plan[i]) => "entities" \notin differs
  BY DEF FixtureSeen, wanted
<1>6. Plan[i].target = "placeable" => "around" \notin differs
  BY DEF FixtureSeen, wanted
<1>7. Shows(i, differs)
  BY <1>3, <1>4, <1>5, <1>6 DEF Shows
<1>. QED
  BY <1>7 DEF wanted

-----------------------------------------------------------------------------
(* The host.                                                                *)

\* The first state satisfies the invariant.
LEMMA InitInv == Init => IInv
<1> SUFFICES ASSUME Init PROVE IInv
  OBVIOUS
<1>1. client \in Clients /\ client.phase = "none" /\ client.at = 1
  BY DEF Init, Clients, Phases
<1>2. world \in [server : Staged, seen : Staged]
  BY DEF Init, Empty, Staged
<1>3. views = <<>> /\ views \in Seq(View) /\ process = "none" /\ record = NoValue /\ pc = "loading"
  BY DEF Init
<1>4. output.report = "none" /\ output \in Outputs
  BY DEF Init, Outputs, Poor
<1>5. TypeInv
  BY <1>1, <1>2, <1>3, <1>4 DEF Init, TypeInv, Preparing
<1>6. CallInv
  BY <1>1, <1>3, <1>4 DEF CallInv, After, Keeping
<1>. QED
  BY <1>3, <1>5, <1>6 DEF IInv

\* What the session has done does not change while it does nothing.
LEMMA Untouched ==
  ASSUME UNCHANGED <<request, client, world, views, output>>
  PROVE  /\ SceneInv' <=> SceneInv
         /\ Completed' <=> Completed
         /\ TypeInv /\ pc' \in Preparing \cup After \cup {"waiting", "ended"}
              /\ process' \in {"none", "alive", "exited", "crashed", "timed_out", "cancelled"} => TypeInv'
<1>1. Accepted' = Accepted
  BY DEF Accepted
<1>2. SceneInv' <=> SceneInv
  BY <1>1, Asked DEF SceneInv
<1>3. Completed' <=> Completed
  BY DEF Completed
<1>. QED
  BY <1>2, <1>3, Asked DEF TypeInv

\* The host goes on while the session is not yet there, or over.
LEMMA HostMove ==
  ASSUME IInv, UNCHANGED <<request, process, modVars>>,
         pc' \in Preparing \cup After \cup {"waiting", "ended"},
         pc' \in Preparing => pc \in Preparing,
         pc' \in {"staging", "launching"} => request \in Accepted,
         pc' \in After => process = "exited",
         pc' \in Keeping => Completed,
         record' # NoValue => process = "exited" /\ Completed
  PROVE  IInv'
<1>1. UNCHANGED <<request, client, world, views, output>>
  BY DEF modVars
<1>2. TypeInv' /\ (SceneInv' <=> SceneInv) /\ (Completed' <=> Completed)
  BY <1>1, Untouched DEF IInv, TypeInv
<1>3. CallInv'
  BY <1>1, <1>2 DEF IInv, CallInv
<1>. QED
  BY <1>2, <1>3 DEF IInv

\* Up to the launch there is no process; only an accepted plan gets there.
LEMMA PreparingKeeps ==
  ASSUME IInv, UNCHANGED request, Load \/ Probe \/ Preflight \/ Snapshot \/ MakePlan \/ Stage
  PROVE  IInv'
<1> USE DEF IInv, CallInv, Preparing, After, Keeping, Goes, Ends
<1>1. CASE Load
  BY <1>1, HostMove DEF Load
<1>2. CASE Probe
  BY <1>2, HostMove DEF Probe
<1>3. CASE Preflight
  BY <1>3, HostMove DEF Preflight
<1>4. CASE Snapshot
  BY <1>4, HostMove DEF Snapshot
<1>5. CASE MakePlan
  BY <1>5, HostMove DEF MakePlan
<1>6. CASE Stage
  BY <1>6, HostMove DEF Stage
<1>. QED
  BY <1>1, <1>2, <1>3, <1>4, <1>5, <1>6

\* After the session the process has exited; what is kept has a complete report.
LEMMA KeepingKeeps ==
  ASSUME IInv, UNCHANGED request,
         Settled \/ Pin \/ VerifyOutput \/ Collect \/ Store \/ Record \/ Reverify
  PROVE  IInv'
<1> USE DEF IInv, CallInv, Preparing, After, Keeping, Goes, Ends
<1>1. CASE Settled
  <2>1. process \notin {"cancelled", "timed_out", "crashed"} => process = "exited"
    BY <1>1 DEF Settled, TypeInv
  <2>2. pc' = "ended" \/ (pc' = "pinning" /\ process = "exited")
    BY <1>1, <2>1 DEF Settled
  <2>. QED
    BY <1>1, <2>2, HostMove DEF Settled
<1>2. CASE Pin
  BY <1>2, HostMove DEF Pin
<1>3. CASE VerifyOutput
  BY <1>3, HostMove DEF VerifyOutput
<1>4. CASE Collect
  BY <1>4, HostMove DEF Collect
<1>5. CASE Store
  BY <1>5, HostMove DEF Store
<1>6. CASE Record
  BY <1>6, HostMove DEF Record
<1>7. CASE Reverify
  BY <1>7, HostMove DEF Reverify
<1>. QED
  BY <1>1, <1>2, <1>3, <1>4, <1>5, <1>6, <1>7

\* The launch starts the session of an accepted plan at its first scene.
LEMMA LaunchKeeps ==
  ASSUME IInv, UNCHANGED request, Launch
  PROVE  IInv'
<1> DEFINE first == IF PlanIsRead THEN "waiting_for_world" ELSE "not_read"
<1>1. /\ client' = [client EXCEPT !.phase = first] /\ process' = "alive" /\ pc' = "waiting"
      /\ UNCHANGED <<request, world, views, output, record>>
  BY DEF Launch, Goes
<1>2. /\ request \in Accepted /\ process = "none" /\ record = NoValue
      /\ client.phase = "none" /\ client.at = 1 /\ views = <<>> /\ output.report = "none"
  BY DEF IInv, CallInv, Launch, Preparing
<1>3. first \in Starting \cup {"not_read"}
  BY DEF Starting, StartUp
<1>4. client' \in Clients /\ client'.phase = first /\ client'.at = 1
  BY <1>1, <1>2, <1>3 DEF IInv, TypeInv, Clients, Phases
<1> HIDE DEF first
<1>5. TypeInv'
  BY <1>1, <1>4, Asked DEF IInv, TypeInv
<1>6. CallInv'
  BY <1>1, <1>2 DEF CallInv, Preparing, After, Keeping
<1>7. Len(Plan) \in Nat \ {0}
  BY <1>2, AcceptedPlan
<1>8. Accepted' = Accepted /\ Plan' = Plan
  BY <1>1, Asked DEF Accepted
<1>9. SceneInv'
  BY <1>1, <1>2, <1>3, <1>4, <1>7, <1>8 DEF SceneInv, Starting, Showing, StartUp
<1>. QED
  BY <1>5, <1>6, <1>9 DEF IInv

-----------------------------------------------------------------------------
(* The mod.                                                                 *)

\* While the process is there the host waits, and has recorded nothing.
LEMMA ModMove ==
  ASSUME IInv, process = "alive", UNCHANGED <<request, hostVars, process>>,
         client' \in Clients, world' \in [server : Staged, seen : Staged],
         views' \in Seq(View), output' \in Outputs, SceneInv'
  PROVE  IInv'
<1>1. TypeInv'
  BY Asked DEF IInv, TypeInv, hostVars
<1>2. pc \notin Preparing /\ pc \notin After /\ record = NoValue
  BY DEF IInv, CallInv
<1>3. CallInv'
  BY <1>2 DEF CallInv, hostVars, Preparing, After, Keeping
<1>. QED
  BY <1>1, <1>3 DEF IInv

\* What a step has to keep that takes no photograph and goes to no other scene.
LEMMA SceneKept ==
  ASSUME SceneInv, UNCHANGED <<request, views>>, client'.at = client.at,
         client'.phase \in Starting \cup Showing \cup {"capturing"}
           => client.phase \in Starting \cup Showing \cup {"capturing"},
         client'.phase \in {"finalizing", "done"} => client.phase \in {"finalizing", "done"},
         output'.report = "complete"
           => client'.phase \in {"finalizing", "done", "failed"} /\ Len(views) = Len(Plan),
         client'.phase \in Showing => world'.seen.hands = HandsOf(Plan[client.at]),
         client'.phase = "capturing" => Shows(client.at, client'.shot)
  PROVE  SceneInv'
<1>1. Accepted' = Accepted /\ Plan' = Plan
  BY Asked DEF Accepted
<1>2. (\A i \in DOMAIN views : Shows(i, views[i].differs))'
  BY <1>1 DEF SceneInv, Shows
<1>3. (client.phase = "capturing" => Shows(client.at, client.shot))'
  BY <1>1 DEF Shows
<1>. QED
  BY <1>1, <1>2, <1>3 DEF SceneInv

\* The scene that is being taken.
LEMMA SceneAt ==
  ASSUME IInv, NEW s \in OnScene
  PROVE  /\ process = "alive" /\ s = Plan[client.at] /\ s \in Pictured
         /\ request \in Accepted /\ client.at \in 1 .. Len(Plan) /\ client.at \in Nat
         /\ Wanted(s) \in Staged
<1>1. process = "alive" /\ s = Plan[client.at]
  BY DEF OnScene
<1>2. request \in Accepted /\ client.at \in 1 .. Len(Plan)
  BY <1>1 DEF IInv, SceneInv
<1>3. s \in Pictured /\ client.at \in Nat
  BY <1>1, <1>2, AcceptedPlan
<1>4. Wanted(s) \in Staged
  BY <1>3, StagingStaged DEF Wanted
<1>. QED
  BY <1>1, <1>2, <1>3, <1>4

\* The start of the session goes through its phases without a scene.
LEMMA StartsUpKeeps ==
  ASSUME IInv, Calm, StartsUp
  PROVE  IInv'
<1>1. /\ client' = [client EXCEPT !.phase = StartUp[client.phase]]
      /\ client.phase \in DOMAIN StartUp /\ UNCHANGED <<world, views, output>>
  BY DEF StartsUp
<1>2. StartUp[client.phase] \in Starting
  BY <1>1 DEF Starting, StartUp
<1>3. client' \in Clients /\ client'.at = client.at /\ client'.phase = StartUp[client.phase]
  BY <1>1, <1>2 DEF IInv, TypeInv, Clients, Phases
<1>4. SceneInv /\ TypeInv
  BY DEF IInv, Calm
<1>5. client.phase \in Starting
  BY <1>1 DEF Starting
<1>6. output.report # "complete"
  BY <1>4, <1>5 DEF SceneInv, Starting, StartUp
<1>7. SceneInv'
  BY <1>1, <1>2, <1>3, <1>4, <1>5, <1>6, SceneKept DEF Calm, Starting, StartUp, Showing
<1>. QED
  BY <1>1, <1>3, <1>4, <1>7, ModMove DEF Calm, TypeInv

\* A scene begins with the hands it asks for.
LEMMA PrepareSceneKeeps ==
  ASSUME IInv, Calm, NEW s \in OnScene, PrepareScene(s)
  PROVE  IInv'
<1>1. /\ client' = [client EXCEPT !.phase = "waiting_for_equip", !.frames = 0, !.settled = 0, !.ticks = 0,
                                  !.acted = 0, !.setup = "submitted", !.use = "none"]
      /\ client.phase = "preparing_scene"
      /\ world' = [world EXCEPT !.seen.hands = HandsOf(s)]
      /\ UNCHANGED <<views, output>>
  BY DEF PrepareScene, At
<1>2. SceneInv /\ TypeInv
  BY DEF IInv, Calm
<1>3. client' \in Clients /\ client'.at = client.at /\ client'.phase = "waiting_for_equip"
  BY <1>1, <1>2 DEF TypeInv, Clients, Phases, Showing
<1>4. s = Plan[client.at] /\ s \in Pictured
  BY SceneAt
<1>5. world' \in [server : Staged, seen : Staged] /\ world'.seen.hands = HandsOf(s)
  BY <1>1, <1>2, <1>4 DEF TypeInv, Staged
<1>6. output.report # "complete"
  BY <1>1, <1>2 DEF SceneInv
<1>7. SceneInv'
  BY <1>1, <1>2, <1>3, <1>4, <1>5, <1>6, SceneKept DEF Calm, Starting, Showing
<1>. QED
  BY <1>1, <1>2, <1>3, <1>5, <1>7, ModMove DEF Calm, TypeInv

\* The server stages what the plan wants, and nothing but the hands is late.
LEMMA ServerKeeps ==
  ASSUME IInv, Calm, NEW s \in OnScene, NEW late \in BOOLEAN, ServerSetsUp(Wanted(s), late)
  PROVE  IInv'
<1>1. /\ client' = [client EXCEPT !.setup = "done"]
      /\ world' = [server |-> Wanted(s), seen |-> IF late THEN world.seen ELSE Wanted(s)]
      /\ UNCHANGED <<views, output>>
  BY DEF ServerSetsUp
<1>2. SceneInv /\ TypeInv
  BY DEF IInv, Calm
<1>3. /\ client' \in Clients /\ client'.at = client.at
      /\ client'.phase = client.phase /\ client'.shot = client.shot
  BY <1>1, <1>2 DEF TypeInv, Clients
<1>4. /\ s = Plan[client.at] /\ Wanted(s) \in Staged /\ Wanted(s).hands = HandsOf(s)
  BY SceneAt, StagingStaged DEF Wanted
<1>5. world' \in [server : Staged, seen : Staged]
  BY <1>1, <1>2, <1>4 DEF TypeInv
<1>6. world'.seen.hands \in {world.seen.hands, HandsOf(s)}
  BY <1>1, <1>4
<1>7. SceneInv'
  BY <1>1, <1>2, <1>3, <1>4, <1>6, SceneKept DEF Calm, SceneInv
<1>. QED
  BY <1>1, <1>2, <1>3, <1>5, <1>7, ModMove DEF Calm, TypeInv

\* Packets that were late bring nothing to the hands.
LEMMA ClientSeesKeeps ==
  ASSUME IInv, Calm, NEW kind \in DOMAIN Received, ClientSees(kind)
  PROVE  IInv'
<1>1. /\ world' = [world EXCEPT !.seen = [part \in DOMAIN @ |->
                     IF part \in Received[kind] THEN world.server[part] ELSE @[part]]]
      /\ UNCHANGED <<client, views, output>>
  BY DEF ClientSees
<1>2. SceneInv /\ TypeInv
  BY DEF IInv, Calm
<1>3. world.seen \in Staged /\ world.server \in Staged
  BY <1>2 DEF TypeInv
<1>4. /\ world'.server = world.server
      /\ world'.seen = [part \in Parts |->
           IF part \in Received[kind] THEN world.server[part] ELSE world.seen[part]]
      /\ world' = [server |-> world'.server, seen |-> world'.seen]
  BY <1>1, <1>2, <1>3 DEF TypeInv, Staged, Parts
<1>5. "hands" \notin Received[kind]
  BY DEF Received
<1>6. world'.seen \in Staged /\ world'.seen.hands = world.seen.hands
  <2> DEFINE new == [part \in Parts |-> IF part \in Received[kind] THEN world.server[part] ELSE world.seen[part]]
  <2>1. DOMAIN new = Parts /\ \A part \in Parts : new[part] \in {world.server[part], world.seen[part]}
    OBVIOUS
  <2>2. new.hands = world.seen.hands
    BY <1>5 DEF Parts
  <2>3. new = [environment |-> new.environment, hands |-> new.hands, subject |-> new.subject,
               around |-> new.around, entities |-> new.entities]
    BY DEF Parts
  <2> HIDE DEF new
  <2>4. new \in Staged
    BY <1>3, <2>1, <2>3 DEF Staged, Parts
  <2>. QED
    BY <1>4, <2>2, <2>4 DEF new
<1>7. world' \in [server : Staged, seen : Staged]
  BY <1>3, <1>4, <1>6
<1>8. SceneInv'
  BY <1>1, <1>2, <1>6, SceneKept DEF Calm, SceneInv
<1>. QED
  BY <1>1, <1>2, <1>7, <1>8, ModMove DEF Calm, TypeInv

\* Steps of the coordinator that change nothing but its own counters and stages.
LEMMA Counting ==
  ASSUME IInv, Calm, UNCHANGED <<world, views, output>>,
         client' \in Clients, client'.at = client.at, client'.shot = client.shot,
         \/ client'.phase = client.phase
         \/ client.phase \in Showing /\ client'.phase \in Showing
  PROVE  IInv'
<1>1. SceneInv /\ TypeInv
  BY DEF IInv, Calm
<1>2. client.phase \in Showing => world.seen.hands = HandsOf(Plan[client.at])
  BY <1>1 DEF SceneInv
<1>3. output.report = "complete" => client'.phase \in {"finalizing", "done", "failed"} /\ Len(views) = Len(Plan)
  BY <1>1 DEF SceneInv, Showing
<1>4. client'.phase = "capturing" => Shows(client.at, client'.shot)
  BY <1>1 DEF SceneInv, Showing
<1>5. SceneInv'
  BY <1>1, <1>2, <1>3, <1>4, SceneKept DEF Calm, Showing
<1>. QED
  BY <1>1, <1>5, ModMove DEF Calm, TypeInv

\* The ticks that a fixture settles are counted, then the player acts or the frames begin.
LEMMA WaitForEquipKeeps ==
  ASSUME IInv, Calm, NEW s, WaitForEquip(s, Wanted(s))
  PROVE  IInv'
<1>1. client.phase = "waiting_for_equip" /\ client \in Clients /\ UNCHANGED <<world, views, output>>
  BY DEF WaitForEquip, At, IInv, TypeInv
<1> DEFINE use == IF s.animation[1] = "swing" THEN "done" ELSE "submitted"
<1>2. \/ client' = [client EXCEPT !.settled = @ + 1]
      \/ client' = [client EXCEPT !.ticks = @ + 1]
      \/ client' = [client EXCEPT !.phase = "waiting_for_animation", !.use = use]
      \/ client' = [client EXCEPT !.phase = "waiting_for_frames"]
  BY Zenon DEF WaitForEquip
<1>3. use \in {"done", "submitted"}
  OBVIOUS
<1> HIDE DEF use
<1>4. /\ client' \in Clients /\ client'.at = client.at /\ client'.shot = client.shot
      /\ client'.phase \in Showing
  <2>1. CASE client' = [client EXCEPT !.settled = @ + 1]
    BY <1>1, <1>3, <2>1 DEF Clients, Phases, Showing
  <2>2. CASE client' = [client EXCEPT !.ticks = @ + 1]
    BY <1>1, <1>3, <2>2 DEF Clients, Phases, Showing
  <2>3. CASE client' = [client EXCEPT !.phase = "waiting_for_animation", !.use = use]
    BY <1>1, <1>3, <2>3 DEF Clients, Phases, Showing
  <2>4. CASE client' = [client EXCEPT !.phase = "waiting_for_frames"]
    BY <1>1, <1>3, <2>4 DEF Clients, Phases, Showing
  <2>. QED
    BY <1>2, <2>1, <2>2, <2>3, <2>4
<1>. QED
  BY <1>1, <1>4, Counting DEF Showing

\* The server lets the player use the item.
LEMMA ServerUsesItemKeeps ==
  ASSUME IInv, Calm, ServerUsesItem
  PROVE  IInv'
<1>1. client' = [client EXCEPT !.use = "done"] /\ UNCHANGED <<world, views, output>>
  BY DEF ServerUsesItem
<1>2. /\ client' \in Clients /\ client'.at = client.at /\ client'.shot = client.shot
      /\ client'.phase = client.phase
  BY <1>1 DEF IInv, TypeInv, Clients
<1>. QED
  BY <1>1, <1>2, Counting

\* The ticks of an animation are counted up to the one that was asked for.
LEMMA WaitForAnimationKeeps ==
  ASSUME IInv, Calm, NEW s, WaitForAnimation(s)
  PROVE  IInv'
<1>1. client.phase = "waiting_for_animation" /\ client \in Clients /\ UNCHANGED <<world, views, output>>
  BY DEF WaitForAnimation, At, IInv, TypeInv
<1>2. \/ client' = [client EXCEPT !.acted = @ + 1]
      \/ client' = [client EXCEPT !.phase = "waiting_for_frames", !.frames = SettleFrames - 1]
  BY Zenon DEF WaitForAnimation
<1>3. SettleFrames - 1 \in Nat
  BY DEF SettleFrames
<1>4. /\ client' \in Clients /\ client'.at = client.at /\ client'.shot = client.shot
      /\ client'.phase \in Showing
  <2>1. CASE client' = [client EXCEPT !.acted = @ + 1]
    BY <1>1, <1>3, <2>1 DEF Clients, Phases, Showing
  <2>2. CASE client' = [client EXCEPT !.phase = "waiting_for_frames", !.frames = SettleFrames - 1]
    BY <1>1, <1>3, <2>2 DEF Clients, Phases, Showing
  <2>. QED
    BY <1>2, <2>1, <2>2
<1>. QED
  BY <1>1, <1>4, Counting DEF Showing

\* A screenshot that completes is only seen.
LEMMA ScreenshotKeeps ==
  ASSUME IInv, Calm, ScreenshotCompletes
  PROVE  IInv'
<1>1. client' = [client EXCEPT !.grab = "ready"] /\ UNCHANGED <<world, views, output>>
  BY DEF ScreenshotCompletes
<1>2. /\ client' \in Clients /\ client'.at = client.at /\ client'.shot = client.shot
      /\ client'.phase = client.phase
  BY <1>1 DEF IInv, TypeInv, Clients
<1>. QED
  BY <1>1, <1>2, Counting

\* Only a frame that shows what the plan wants is the one that is photographed.
LEMMA FrameKeeps ==
  ASSUME IInv, Calm, NEW s \in OnScene, NEW ready \in BOOLEAN, Frame(s, Wanted(s), ready)
  PROVE  IInv'
<1> DEFINE counts == ready /\ FixtureSeen(s, Wanted(s), world.seen)
           frames == IF counts THEN client.frames + 1 ELSE 0
           differs == {part \in DOMAIN Wanted(s) : world.seen[part] # Wanted(s)[part]}
<1>1. client.phase = "waiting_for_frames" /\ client \in Clients /\ UNCHANGED <<world, views, output>>
  BY DEF Frame, At, IInv, TypeInv
<1>2. /\ EnvironmentSeen(Wanted(s))
      /\ client' = IF frames < SettleFrames THEN [client EXCEPT !.frames = frames]
                   ELSE [client EXCEPT !.phase = "capturing", !.frames = frames, !.grab = "pending",
                                       !.shot = differs]
  BY DEF Frame
<1>3. frames \in Nat /\ (~counts => frames < SettleFrames)
  BY <1>1 DEF Clients, SettleFrames
<1>4. /\ s = Plan[client.at] /\ s \in Pictured /\ request \in Accepted
      /\ client.at \in 1 .. Len(Plan) /\ client.at \in Nat
  BY SceneAt
<1>5. DOMAIN Wanted(s) = Parts
  BY <1>4, StagingStaged DEF Wanted
<1>6. differs \in SUBSET Parts
  BY <1>5
<1>7. SceneInv /\ TypeInv
  BY DEF IInv, Calm
<1>8. CASE frames < SettleFrames
  <2>1. client' = [client EXCEPT !.frames = frames]
    BY <1>2, <1>8
  <2> HIDE DEF frames
  <2>2. /\ client' \in Clients /\ client'.at = client.at /\ client'.shot = client.shot
        /\ client'.phase = client.phase
    BY <1>1, <1>3, <2>1 DEF Clients
  <2>. QED
    BY <1>1, <2>2, Counting
<1>9. CASE ~(frames < SettleFrames)
  <2>1. client' = [client EXCEPT !.phase = "capturing", !.frames = frames, !.grab = "pending",
                                 !.shot = differs]
    BY <1>2, <1>9
  <2>2. counts
    BY <1>3, <1>9
  <2>3. world.seen.hands = HandsOf(Plan[client.at])
    BY <1>1, <1>7 DEF SceneInv, Showing
  <2>4. Wanted(s) = Staging(Plan[client.at], client.at)
    BY <1>4 DEF Wanted
  <2>5. FixtureSeen(Plan[client.at], Staging(Plan[client.at], client.at), world.seen)
    BY <1>4, <2>2, <2>4
  <2>6. Shows(client.at, differs)
    BY <1>2, <1>4, <1>7, <2>3, <2>4, <2>5, ShotShows
  <2> HIDE DEF frames, differs
  <2>7. /\ client' \in Clients /\ client'.at = client.at
        /\ client'.phase = "capturing" /\ client'.shot = differs
    BY <1>1, <1>3, <1>6, <2>1 DEF Clients, Phases
  <2>8. output.report # "complete"
    BY <1>1, <1>7 DEF SceneInv
  <2>9. SceneInv'
    BY <1>1, <1>7, <2>6, <2>7, <2>8, SceneKept DEF Calm, Showing
  <2>. QED
    BY <1>1, <1>7, <2>7, <2>9, ModMove DEF Calm, TypeInv
<1>. QED
  BY <1>8, <1>9

\* The photograph of the scene is one more view, and the next scene begins.
LEMMA PollScreenshotKeeps ==
  ASSUME IInv, Calm, NEW s \in OnScene, PollScreenshot(s)
  PROVE  IInv'
<1> DEFINE tick == IF s.target = "held_item" THEN s.animation[2] ELSE client.ticks
           view == [settled |-> client.settled, frames |-> client.frames, differs |-> client.shot, tick |-> tick]
<1>1. /\ client.phase = "capturing" /\ views' = Append(views, view) /\ UNCHANGED <<world, output>>
      /\ client' = IF client.at = Len(Plan) THEN [client EXCEPT !.phase = "finalizing", !.grab = "none"]
                   ELSE [client EXCEPT !.phase = "preparing_scene", !.grab = "none", !.at = @ + 1, !.shot = {}]
  BY DEF PollScreenshot, At
<1>2. SceneInv /\ TypeInv /\ client \in Clients
  BY DEF IInv, Calm, TypeInv
<1>3. s \in Pictured /\ client.at \in 1 .. Len(Plan) /\ client.at \in Nat /\ Len(Plan) \in Nat
  BY SceneAt, AcceptedPlan
<1>4. view \in View /\ view.differs = client.shot
  BY <1>2, <1>3 DEF View, Clients
<1> HIDE DEF view, tick
<1>5. views' \in Seq(View) /\ Len(views') = client.at
  BY <1>1, <1>2, <1>3, <1>4 DEF SceneInv, TypeInv
<1>6. Shows(client.at, client.shot) /\ output.report # "complete"
  BY <1>1, <1>2 DEF SceneInv
<1>7. Accepted' = Accepted /\ Plan' = Plan
  BY Asked DEF Accepted, Calm
<1>8. (\A i \in DOMAIN views : Shows(i, views[i].differs))'
  <2> SUFFICES ASSUME NEW i \in DOMAIN views' PROVE Shows(i, views'[i].differs)
    BY <1>7 DEF Shows
  <2>1. CASE i \in DOMAIN views
    BY <1>1, <1>2, <1>4, <2>1 DEF SceneInv, TypeInv
  <2>2. CASE i = client.at
    <3>1. views'[i] = view
      BY <1>1, <1>2, <1>4, <1>5, <2>2 DEF SceneInv, TypeInv
    <3>. QED
      BY <1>4, <1>6, <2>2, <3>1
  <2>. QED
    BY <1>1, <1>2, <1>3, <1>4, <1>5, <2>1, <2>2 DEF SceneInv, TypeInv
<1>9. CASE client.at = Len(Plan)
  <2>1. /\ client' \in Clients /\ client'.at = client.at /\ client'.phase = "finalizing"
    BY <1>1, <1>2, <1>9 DEF Clients, Phases
  <2>2. SceneInv'
    BY <1>1, <1>2, <1>3, <1>5, <1>6, <1>7, <1>8, <1>9, <2>1 DEF SceneInv, Calm, Starting, StartUp, Showing
  <2>. QED
    BY <1>1, <1>2, <1>5, <2>1, <2>2, ModMove DEF Calm, TypeInv
<1>10. CASE client.at # Len(Plan)
  <2>1. /\ client' \in Clients /\ client'.at = client.at + 1 /\ client'.phase = "preparing_scene"
    <3>1. client' = [client EXCEPT !.phase = "preparing_scene", !.grab = "none", !.at = @ + 1, !.shot = {}]
      BY <1>1, <1>10
    <3>2. "preparing_scene" \in Phases /\ client.at + 1 \in Nat /\ {} \in SUBSET Parts
      BY <1>3 DEF Phases, Starting
    <3>. QED
      BY <1>2, <3>1, <3>2 DEF Clients
  <2>2. SceneInv'
    BY <1>1, <1>2, <1>3, <1>5, <1>6, <1>7, <1>8, <1>10, <2>1 DEF SceneInv, Calm, Starting, StartUp, Showing
  <2>. QED
    BY <1>1, <1>2, <1>5, <2>1, <2>2, ModMove DEF Calm, TypeInv
<1>. QED
  BY <1>9, <1>10

\* The report and the sentinel are written when every scene has been taken.
LEMMA WritingKeeps ==
  ASSUME IInv, Calm, WriteReport \/ WriteSentinel
  PROVE  IInv'
<1>1. SceneInv /\ TypeInv /\ client \in Clients /\ output \in Outputs /\ request \in Planned
  BY DEF IInv, Calm, TypeInv, SceneInv, Accepted
<1>2. CASE WriteReport
  <2>1. PICK poor \in {NoValue} \cup (Samples \X {"failed", NoValue}) :
          output' = [output EXCEPT !.report = "complete", !.poor = poor]
    BY <1>2 DEF WriteReport
  <2>2. client.phase = "finalizing" /\ UNCHANGED <<client, world, views>>
    BY <1>2 DEF WriteReport, At
  <2>3. poor \in Poor
    BY <1>1, <2>1 DEF Poor
  <2>4. output' \in Outputs
    BY <1>1, <2>1, <2>3 DEF Outputs
  <2>5. SceneInv'
    BY <1>1, <2>2, SceneKept DEF Calm, SceneInv, Starting, StartUp, Showing
  <2>. QED
    BY <1>1, <2>2, <2>4, <2>5, ModMove DEF Calm, TypeInv
<1>3. CASE WriteSentinel
  <2>1. /\ output' = [output EXCEPT !.sentinel = TRUE] /\ client' = [client EXCEPT !.phase = "done"]
        /\ client.phase = "finalizing" /\ UNCHANGED <<world, views>>
    BY <1>3 DEF WriteSentinel, At
  <2>2. output' \in Outputs /\ output'.report = output.report
    BY <1>1, <2>1 DEF Outputs
  <2>3. client' \in Clients /\ client'.at = client.at /\ client'.phase = "done"
    BY <1>1, <2>1 DEF Clients, Phases
  <2>4. SceneInv'
    BY <1>1, <2>1, <2>2, <2>3, SceneKept DEF Calm, SceneInv, Starting, StartUp, Showing
  <2>. QED
    BY <1>1, <2>1, <2>2, <2>3, <2>4, ModMove DEF Calm, TypeInv
<1>. QED
  BY <1>2, <1>3

\* A failure writes over no report.
LEMMA FailKeeps ==
  ASSUME IInv, Calm, Fail
  PROVE  IInv'
<1>1. SceneInv /\ TypeInv /\ client \in Clients /\ output \in Outputs
  BY DEF IInv, Calm, TypeInv
<1>2. client' = [client EXCEPT !.phase = "failed"] /\ UNCHANGED <<world, views>>
  BY DEF Fail
<1>3. client' \in Clients /\ client'.at = client.at /\ client'.phase = "failed"
  BY <1>1, <1>2 DEF Clients, Phases
<1>4. output' \in Outputs /\ (output'.report = "complete" => output.report = "complete")
  <2>1. CASE output.report = "none"
    BY <1>1, <2>1 DEF Fail, Outputs
  <2>2. CASE output.report # "none"
    BY <1>1, <2>2 DEF Fail
  <2>. QED
    BY <2>1, <2>2
<1>5. SceneInv'
  BY <1>1, <1>2, <1>3, <1>4, SceneKept DEF Calm, SceneInv, Starting, StartUp, Showing
<1>. QED
  BY <1>1, <1>2, <1>3, <1>4, <1>5, ModMove DEF Calm, TypeInv

\* Every step of the mod keeps the invariant.
LEMMA ModKeeps ==
  ASSUME IInv, ModStep
  PROVE  IInv'
<1>1. UNCHANGED <<request, hostVars, process>>
  BY DEF ModStep, UNCHANGEDByMod
<1>2. process = "alive"
  BY DEF ModStep, OnScene, StartsUp, ServerUsesItem, ScreenshotCompletes, WriteReport, WriteSentinel, Fail, ClientSees, At
<1>3. Calm
  BY <1>1, <1>2 DEF Calm
<1>4. ASSUME NEW s \in OnScene, SceneStep(s, Wanted(s)) PROVE IInv'
  <2>1. CASE PrepareScene(s)
    BY <1>3, <2>1, PrepareSceneKeeps
  <2>2. CASE ServerSetsUp(Wanted(s), FALSE)
    BY <1>3, <2>2, ServerKeeps
  <2>3. CASE WaitForEquip(s, Wanted(s))
    BY <1>3, <2>3, WaitForEquipKeeps
  <2>4. CASE WaitForAnimation(s)
    BY <1>3, <2>4, WaitForAnimationKeeps
  <2>5. CASE PollScreenshot(s)
    BY <1>3, <2>5, PollScreenshotKeeps
  <2>6. ASSUME NEW ready \in BOOLEAN, Frame(s, Wanted(s), ready) PROVE IInv'
    BY <1>3, <2>6, FrameKeeps
  <2>. QED
    BY <1>4, <2>1, <2>2, <2>3, <2>4, <2>5, <2>6 DEF SceneStep
<1>5. CASE StartsUp
  BY <1>3, <1>5, StartsUpKeeps
<1>6. CASE ServerUsesItem
  BY <1>3, <1>6, ServerUsesItemKeeps
<1>7. CASE ScreenshotCompletes
  BY <1>3, <1>7, ScreenshotKeeps
<1>8. CASE WriteReport \/ WriteSentinel
  BY <1>3, <1>8, WritingKeeps
<1>9. CASE Fail
  BY <1>3, <1>9, FailKeeps
<1>10. ASSUME NEW kind \in DOMAIN Received, ClientSees(kind) PROVE IInv'
  BY <1>3, <1>10, ClientSeesKeeps
<1>. QED
  BY <1>4, <1>5, <1>6, <1>7, <1>8, <1>9, <1>10 DEF ModStep

-----------------------------------------------------------------------------
(* The process and what happens besides.                                    *)

\* The end of the process leaves everything that it has made as it is.
LEMMA EndKeeps ==
  ASSUME IInv, RunnerStep \/ ProcessStep
  PROVE  IInv'
<1>1. /\ process = "alive" /\ process' \in {"exited", "crashed", "timed_out", "cancelled"}
      /\ UNCHANGED <<request, hostVars, modVars>>
  BY DEF RunnerStep, ProcessStep, Exits, Dies, TimeOut, Kill, Becomes
<1>2. UNCHANGED <<request, client, world, views, output, pc, record>>
  BY <1>1 DEF hostVars, modVars
<1>3. TypeInv' /\ SceneInv'
  BY <1>1, <1>2, Untouched DEF IInv, TypeInv
<1>4. pc \notin Preparing /\ pc \notin After /\ record = NoValue
  BY <1>1 DEF IInv, CallInv
<1>5. CallInv'
  BY <1>1, <1>2, <1>4 DEF CallInv, Preparing, After, Keeping
<1>. QED
  BY <1>3, <1>5 DEF IInv

\* An event is no step of the host but its end, and none of the mod but a late delivery.
LEMMA EventKeeps ==
  ASSUME IInv, Event
  PROVE  IInv'
<1>1. UNCHANGED <<request, process>>
  BY DEF Event
<1>2. ASSUME NEW what \in DOMAIN held, Replace(what) PROVE IInv'
  <2>1. UNCHANGED <<request, process, hostVars, modVars>>
    BY <1>1, <1>2 DEF Replace
  <2>. QED
    BY <2>1, HostMove DEF hostVars, IInv, CallInv, TypeInv
<1>3. CASE HostFault
  BY <1>1, <1>3, HostMove DEF HostFault, Ends, IInv, CallInv, Preparing, After, Keeping
<1>4. ASSUME NEW s \in OnScene, ServerSetsUp(Wanted(s), TRUE), UNCHANGED hostVars PROVE IInv'
  <2>1. Calm
    BY <1>1, <1>4 DEF Calm, OnScene
  <2>. QED
    BY <1>4, <2>1, ServerKeeps
<1>. QED
  BY <1>2, <1>3, <1>4 DEF Event

\* Every step keeps the invariant.
LEMMA NextInv == IInv /\ [Next]_vars => IInv'
<1> SUFFICES ASSUME IInv, [Next]_vars PROVE IInv'
  OBVIOUS
<1>1. CASE HostStep
  <2>1. UNCHANGED request
    BY <1>1 DEF HostStep
  <2>. QED
    BY <1>1, <2>1, PreparingKeeps, LaunchKeeps, KeepingKeeps DEF HostStep
<1>2. CASE ModStep
  BY <1>2, ModKeeps
<1>3. CASE RunnerStep \/ ProcessStep
  BY <1>3, EndKeeps
<1>4. CASE Cancel \/ UNCHANGED vars
  <2>1. UNCHANGED <<request, process, hostVars, modVars>>
    BY <1>4 DEF Cancel, vars
  <2>. QED
    BY <2>1, HostMove DEF hostVars, IInv, CallInv, TypeInv
<1>5. CASE Event
  BY <1>5, EventKeeps
<1>. QED
  BY <1>1, <1>2, <1>3, <1>4, <1>5 DEF Next

-----------------------------------------------------------------------------
\* The host, the process, the mod and its world keep to IInv in every reachable state.
THEOREM Invariance == Spec => []IInv
BY InitInv, NextInv, PTL DEF Spec

\* What a revision refers to has a photograph of every planned scene that shows
\* what was planned, from a process that ended by itself, whatever the requests,
\* the order of their scenes and the number of late packets, edits and faults.
THEOREM EvidenceIsOfThePlan == Spec => []EvidenceShowsThePlan
<1>1. IInv => EvidenceShowsThePlan
  <2> SUFFICES ASSUME IInv, record # NoValue PROVE EvidenceShowsThePlan
    BY DEF EvidenceShowsThePlan
  <2>1. process = "exited" /\ output.report = "complete" /\ SceneInv
    BY DEF IInv, CallInv, Completed
  <2>. QED
    BY <2>1 DEF EvidenceShowsThePlan, SceneInv, Shows
<1>. QED
  BY <1>1, Invariance, PTL

-----------------------------------------------------------------------------
(* Sets of few elements.                                                    *)

\* Two sets together have no more elements than both.
LEMMA AtMostUnion ==
  ASSUME NEW S, NEW T, NEW m \in Nat, NEW n \in Nat, AtMost(m, S), AtMost(n, T)
  PROVE  AtMost(m + n, S \cup T)
<1>1. /\ IsFiniteSet(S \cup T) /\ Cardinality(S) \in Nat /\ Cardinality(T) \in Nat
      /\ Cardinality(S \cup T) = Cardinality(S) + Cardinality(T) - Cardinality(S \cap T)
  BY FS_Union, FS_CardinalityType DEF AtMost
<1>2. Cardinality(S \cap T) \in Nat
  BY FS_Intersection, FS_CardinalityType DEF AtMost
<1>. QED
  BY <1>1, <1>2 DEF AtMost

\* A part of a set has no more elements than the set.
LEMMA AtMostPart ==
  ASSUME NEW S, NEW T, NEW n \in Nat, AtMost(n, S), T \subseteq S
  PROVE  AtMost(n, T)
<1>1. IsFiniteSet(T) /\ Cardinality(T) <= Cardinality(S)
  BY FS_Subset DEF AtMost
<1>2. Cardinality(T) \in Nat /\ Cardinality(S) \in Nat
  BY <1>1, FS_CardinalityType DEF AtMost
<1>. QED
  BY <1>1, <1>2 DEF AtMost

\* A function has no more values than arguments.
LEMMA AtMostImage ==
  ASSUME NEW S, NEW n \in Nat, NEW f, AtMost(n, S)
  PROVE  AtMost(n, {f[x] : x \in S})
<1> DEFINE T == {f[x] : x \in S}
           g == [x \in S |-> f[x]]
<1>1. g \in Surjection(S, T)
  BY DEF Surjection
<1>2. IsFiniteSet(T) /\ Cardinality(T) <= Cardinality(S)
  BY <1>1, FS_Surjection DEF AtMost
<1>3. Cardinality(T) \in Nat /\ Cardinality(S) \in Nat
  BY <1>2, FS_CardinalityType DEF AtMost
<1>. QED
  BY <1>2, <1>3 DEF AtMost

\* Pairs are as many as the product of their parts.
LEMMA AtMostPairs ==
  ASSUME NEW S, NEW T, NEW m \in Nat, NEW n \in Nat, AtMost(m, S), AtMost(n, T)
  PROVE  AtMost(m * n, S \X T)
<1>1. IsFiniteSet(S \X T) /\ Cardinality(S \X T) = Cardinality(S) * Cardinality(T)
  BY FS_Product DEF AtMost
<1>2. Cardinality(S) \in Nat /\ Cardinality(T) \in Nat /\ Cardinality(S) <= m /\ Cardinality(T) <= n
  BY FS_CardinalityType DEF AtMost
<1>3. \A a, b, c, d \in Nat : a <= c /\ b <= d => a * b <= c * d
  OBVIOUS
<1>. QED
  BY <1>1, <1>2, <1>3 DEF AtMost

\* A set is finite whose elements are listed, and the list bounds it.
LEMMA AtMostFew ==
  /\ \A n \in Nat : AtMost(n, {})
  /\ \A a : AtMost(1, {a})
  /\ \A a, b : AtMost(2, {a, b})
  /\ \A a, b, c : AtMost(3, {a, b, c})
<1>1. \A n \in Nat : AtMost(n, {})
  BY FS_EmptySet DEF AtMost
<1>2. ASSUME NEW a PROVE AtMost(1, {a})
  <2>1. IsFiniteSet({a}) /\ Cardinality({a}) = 1
    BY FS_Singleton, Zenon
  <2>. QED
    BY <2>1 DEF AtMost
<1>3. ASSUME NEW a, NEW b PROVE AtMost(2, {a, b})
  <2>1. AtMost(1 + 1, {a} \cup {b})
    BY <1>2, AtMostUnion
  <2>2. {a} \cup {b} = {a, b} /\ 1 + 1 = 2
    OBVIOUS
  <2>. QED
    BY <2>1, <2>2
<1>4. ASSUME NEW a, NEW b, NEW c PROVE AtMost(3, {a, b, c})
  <2>1. AtMost(2 + 1, {a, b} \cup {c})
    BY <1>2, <1>3, AtMostUnion
  <2>2. {a, b} \cup {c} = {a, b, c} /\ 2 + 1 = 3
    OBVIOUS
  <2>. QED
    BY <2>1, <2>2
<1>. QED
  BY <1>1, <1>2, <1>3, <1>4

\* What is few is fewer than more.
LEMMA AtMostMore ==
  ASSUME NEW S, NEW m \in Nat, NEW n \in Nat, AtMost(m, S), m <= n
  PROVE  AtMost(n, S)
BY FS_CardinalityType DEF AtMost

\* A condition on a set takes nothing to it.
LEMMA AtMostWhen ==
  ASSUME NEW S, NEW n \in Nat, NEW condition, AtMost(n, S)
  PROVE  AtMost(n, When(condition, S))
BY AtMostFew DEF When

-----------------------------------------------------------------------------
(* Scenes with controls for some of them.                                   *)

\* A scene with a control stays acceptable.
LEMMA SeenAccepted ==
  ASSUME NEW s, DOMAIN s = SceneFields, SceneAccepted(s), AtMost(3, s.comparisons),
         s.kind # "measurement_control"
  PROVE  LET t == [s EXCEPT !.comparisons = @ \cup {Control(s.base)}]
         IN  /\ SceneAccepted(t) /\ IdOf(t) = IdOf(s) /\ DOMAIN t = SceneFields
             /\ t.comparisons = s.comparisons \cup {Control(s.base)}
             /\ \A field \in SceneFields \ {"comparisons"} : t[field] = s[field]
<1> DEFINE t == [s EXCEPT !.comparisons = @ \cup {Control(s.base)}]
<1>1. /\ DOMAIN t = SceneFields /\ t.comparisons = s.comparisons \cup {Control(s.base)}
      /\ \A field \in SceneFields \ {"comparisons"} : t[field] = s[field]
  BY DEF SceneFields, Fields
<1>2. AtMost(3 + 1, s.comparisons \cup {Control(s.base)})
  BY AtMostFew, AtMostUnion
<1> HIDE DEF t
<1>3. Cardinality(t.comparisons) <= 16
  <2>1. Cardinality(t.comparisons) <= 3 + 1 /\ Cardinality(t.comparisons) \in Nat
    BY <1>1, <1>2, FS_CardinalityType DEF AtMost
  <2>. QED
    BY <2>1
<1>4. /\ t.kind = s.kind /\ t.base = s.base /\ t.camera = s.camera /\ t.context = s.context /\ t.hand = s.hand
      /\ t.player = s.player /\ t.fov = s.fov /\ t.animation = s.animation /\ t.settling = s.settling
      /\ t.intents = s.intents /\ t.fixture = s.fixture /\ t.target = s.target /\ t.required = s.required
      /\ t.eye = s.eye /\ t.presentation = s.presentation
  BY <1>1 DEF SceneFields, Fields
<1>5. SceneShaped(t)
  BY <1>3, <1>4 DEF SceneAccepted, SceneShaped
<1>6. KindFits(t) /\ FixtureFits(t) /\ FixtureShaped(t.fixture)
  <2>1. KindFits(t)
    BY <1>4 DEF SceneAccepted, KindFits, FirstPersonWorld
  <2>2. FixtureFits(t) /\ FixtureShaped(t.fixture)
    BY <1>4 DEF SceneAccepted, FixtureFits
  <2>. QED
    BY <2>1, <2>2
<1>7. IdOf(t) = IdOf(s) /\ IdOf(t) \notin t.comparisons
  BY <1>1, <1>4 DEF IdOf, Control, SceneAccepted
<1>8. SceneAccepted(t)
  BY <1>4, <1>5, <1>6, <1>7 DEF SceneAccepted
<1>. QED
  BY <1>1, <1>7, <1>8 DEF t

\* The control of a stock scene is acceptable.
LEMMA ControlAccepted ==
  ASSUME NEW s, DOMAIN s = SceneFields, SceneAccepted(s),
         s.kind \in {"first_person_vanilla", "minecraft_vanilla"},
         s.target \in {"block", "headwear", "entity", "placeable"}
  PROVE  LET t == ControlOf(s)
         IN  /\ SceneAccepted(t) /\ IdOf(t) = Control(s.base) /\ DOMAIN t = SceneFields
             /\ t.kind = "measurement_control" /\ t.required = FALSE /\ t.settling = 0 /\ t.presentation = NoValue
             /\ t.fixture = [kind |-> "measurement_control", target |-> s.target, state |-> s.fixture.state]
             /\ t.intents = {Intent(s.base, "foreground_control", "pairwise_pixel_delta",
                                    {IdOf(s), Control(s.base)}, FALSE)}
             /\ t.comparisons = {IdOf(s)}
             /\ \A field \in SceneFields \ {"kind", "required", "settling", "presentation", "fixture",
                                            "intents", "comparisons"} : t[field] = s[field]
<1> DEFINE t == ControlOf(s)
           f == [kind |-> "measurement_control", target |-> s.target, state |-> s.fixture.state]
           intents == {Intent(s.base, "foreground_control", "pairwise_pixel_delta",
                              {IdOf(s), Control(s.base)}, FALSE)}
<1>1. /\ DOMAIN t = SceneFields
      /\ t.kind = "measurement_control" /\ t.required = FALSE /\ t.settling = 0 /\ t.presentation = NoValue
      /\ t.fixture = f /\ t.intents = intents /\ t.comparisons = {IdOf(s)}
      /\ \A field \in SceneFields \ {"kind", "required", "settling", "presentation", "fixture",
                                     "intents", "comparisons"} : t[field] = s[field]
  <2> HIDE DEF f, intents
  <2>1. t = [s EXCEPT !.kind = "measurement_control", !.required = FALSE, !.settling = 0, !.presentation = NoValue,
                      !.fixture = f, !.intents = intents, !.comparisons = {IdOf(s)}]
    BY Zenon DEF ControlOf, f, intents
  <2> HIDE DEF t
  <2>. QED
    BY <2>1 DEF SceneFields, Fields
<1> HIDE DEF t
<1>2. /\ t.base = s.base /\ t.camera = s.camera /\ t.context = s.context /\ t.hand = s.hand
      /\ t.player = s.player /\ t.fov = s.fov /\ t.animation = s.animation /\ t.target = s.target /\ t.eye = s.eye
  BY <1>1 DEF SceneFields, Fields
<1>3. Cardinality(t.comparisons) = 1 /\ Cardinality(t.intents) = 1
  <2>1. \A x : Cardinality({x}) = 1
    BY FS_Singleton, Zenon
  <2> HIDE DEF f
  <2>. QED
    BY <1>1, <2>1, Zenon
<1>4. SceneShaped(t)
  <2>1. 0 \in Ticks(40)
    BY DEF Ticks
  <2>2. Cardinality(t.comparisons) <= 16 /\ Cardinality(t.intents) <= 16
    BY <1>3
  <2>3. t.settling = 0
    BY <1>1
  <2>4. SceneShaped(s)
    BY Zenon DEF SceneAccepted
  <2>. QED
    BY <1>2, <2>1, <2>2, <2>3, <2>4 DEF SceneShaped
<1>5. FixtureShaped(t.fixture)
  BY <1>1 DEF FixtureShaped, ShapeOf
<1>6. KindFits(t)
  <2>1. NoValue # "reference_arm"
    BY NoValueAssumption
  <2>2. FirstPersonWorld(t) => t.eye
    BY <1>2 DEF SceneAccepted, KindFits, FirstPersonWorld
  <2>3. /\ t.kind = "measurement_control" /\ t.required = FALSE /\ t.presentation = NoValue
        /\ t.fixture.kind = "measurement_control" /\ t.fixture.target = t.target
        /\ ~("scale" \in DOMAIN t.fixture)
    BY <1>1, <1>2
  <2>. QED
    BY <2>1, <2>2, <2>3 DEF KindFits, SupplementalKinds
<1>7. FixtureFits(t)
  BY <1>1 DEF FixtureFits, DisplayKinds
<1>8. IdOf(t) = Control(s.base) /\ IdOf(t) # IdOf(s)
  BY <1>1, <1>2 DEF IdOf, Control
<1>9. SceneAccepted(t)
  BY <1>1, <1>4, <1>5, <1>6, <1>7, <1>8 DEF SceneAccepted
<1>. QED
  BY <1>1, <1>8, <1>9 DEF t

\* The scenes that are given controls, and the controls.
LEMMA WithTheControls ==
  ASSUME NEW S, NEW ids
  PROVE  WithControls(S, ids) =
           {Seen(s, ids) : s \in S} \cup {ControlOf(s) : s \in {x \in S : IdOf(x) \in ids}}
<1> DEFINE controlled == {s \in S : IdOf(s) \in ids}
           Marked(s) == [s EXCEPT !.comparisons = @ \cup {Control(s.base)}]
<1>1. WithControls(S, ids) = (S \ controlled) \cup {Marked(s) : s \in controlled} \cup {ControlOf(s) : s \in controlled}
  BY DEF WithControls
<1>2. \A s : Seen(s, ids) = IF IdOf(s) \in ids THEN Marked(s) ELSE s
  BY DEF Seen
<1> HIDE DEF Marked
<1>3. {Seen(s, ids) : s \in S} = (S \ controlled) \cup {Marked(s) : s \in controlled}
  BY <1>2
<1>. QED
  BY <1>1, <1>3

\* What a scene is, with its control.
LEMMA SeenSuits ==
  ASSUME NEW r, NEW s, NEW ids, NEW anchors, Suited(r, s), Linked(s, anchors, ids)
  PROVE  AsSeen(r, Seen(s, ids), s, ids)
<1>1. CASE IdOf(s) \in ids
  <2>1. Seen(s, ids) = [s EXCEPT !.comparisons = @ \cup {Control(s.base)}]
    BY <1>1 DEF Seen
  <2> DEFINE t == [s EXCEPT !.comparisons = @ \cup {Control(s.base)}]
  <2>2. /\ SceneAccepted(t) /\ IdOf(t) = IdOf(s) /\ DOMAIN t = SceneFields
        /\ t.comparisons = s.comparisons \cup {Control(s.base)}
        /\ \A field \in SceneFields \ {"comparisons"} : t[field] = s[field]
    BY SeenAccepted DEF Suited, Linked
  <2> HIDE DEF t
  <2>3. t.kind = s.kind /\ t.base = s.base /\ t.target = s.target /\ t.fixture = s.fixture
    BY <2>2 DEF SceneFields, Fields
  <2>4. Suited(r, t)
    BY <2>2, <2>3, Zenon DEF Suited
  <2>. QED
    BY <1>1, <2>1, <2>2, <2>4 DEF When, t, AsSeen
<1>2. CASE IdOf(s) \notin ids
  BY <1>2 DEF Seen, When, AsSeen
<1>. QED
  BY <1>1, <1>2

\* The scenes of a plan: scenes with what they are compared with, and controls of
\* stock scenes.
LEMMA Members ==
  ASSUME NEW r, NEW S, NEW anchors, NEW ids, Controlling(r, S, anchors, ids), NEW v \in WithControls(S, ids)
  PROVE  \E s \in S :
           \/ AsSeen(r, v, s, ids)
           \/ /\ AsControl(v, s) /\ IdOf(s) \in ids /\ s.kind \in {"first_person_vanilla", "minecraft_vanilla"}
<1>1. CASE v \in {Seen(s, ids) : s \in S}
  <2>1. PICK s \in S : v = Seen(s, ids)
    BY <1>1
  <2>2. Suited(r, s) /\ Linked(s, anchors, ids)
    BY DEF Controlling
  <2>3. AsSeen(r, Seen(s, ids), s, ids)
    BY <2>2, SeenSuits
  <2>. QED
    BY <2>1, <2>3
<1>2. CASE v \in {ControlOf(s) : s \in {x \in S : IdOf(x) \in ids}}
  <2>1. PICK s \in S : v = ControlOf(s) /\ IdOf(s) \in ids
    BY <1>2
  <2>2. /\ DOMAIN s = SceneFields /\ SceneAccepted(s) /\ s.target = r.target
    BY DEF Controlling, Suited
  <2>3. s.kind \in {"first_person_vanilla", "minecraft_vanilla"}
    BY <2>1 DEF Controlling, Supported, IdOf
  <2>4. s.target \in {"block", "headwear", "entity", "placeable"}
    BY <2>1, <2>2 DEF Controlling
  <2>5. AsControl(ControlOf(s), s)
    BY <2>2, <2>3, <2>4, ControlAccepted, Zenon DEF AsControl
  <2>. QED
    BY <2>1, <2>3, <2>5
<1>. QED
  BY <1>1, <1>2, WithTheControls

\* Scenes and measurements of such a plan have names of their own.
LEMMA NamesDiffer ==
  ASSUME NEW r, NEW S, NEW anchors, NEW ids, Controlling(r, S, anchors, ids),
         NEW a \in WithControls(S, ids), NEW b \in WithControls(S, ids), a # b
  PROVE  IdOf(a) # IdOf(b) /\ {i.id : i \in a.intents} \cap {i.id : i \in b.intents} = {}
<1>1. PICK s \in S : \/ AsSeen(r, a, s, ids)
                     \/ AsControl(a, s) /\ IdOf(s) \in ids /\ s.kind \in {"first_person_vanilla", "minecraft_vanilla"}
  BY Members
<1>2. PICK t \in S : \/ AsSeen(r, b, t, ids)
                     \/ AsControl(b, t) /\ IdOf(t) \in ids /\ t.kind \in {"first_person_vanilla", "minecraft_vanilla"}
  BY Members
<1>3. \A x \in S : x.kind # "measurement_control" /\ Linked(x, anchors, ids)
  BY DEF Controlling, Suited
<1>4. s.base = t.base /\ SortOf(s.kind) = SortOf(t.kind) => s = t
  BY DEF Controlling, Keyed
<1>5. \A v, x : AsSeen(r, v, x, ids) => v.kind = x.kind /\ v.base = x.base /\ v.intents = x.intents
  BY DEF AsSeen, SceneFields, Fields
<1>6. \A x, y \in {s, t} : IdOf(x) = IdOf(y) => x.base = y.base /\ x.kind = y.kind
  BY DEF IdOf
<1>7. \A x \in S : \A i \in x.intents :
        i.id = <<x.base, i.id[2]>> /\ i.id[2] # "foreground_control"
        /\ (i.id[2] \in Boxed) = (x.kind = "debug_hitbox_reference") /\ x.kind # "first_person_scale_reference"
  BY <1>3 DEF Linked, Measurable
<1>8. \A v, x : AsControl(v, x) =>
        /\ v.base = x.base /\ v.kind = "measurement_control" /\ IdOf(v) = Control(x.base)
        /\ \A i \in v.intents : i.id = <<x.base, "foreground_control">>
  <2> SUFFICES ASSUME NEW v, NEW x, AsControl(v, x)
               PROVE  /\ v.base = x.base /\ v.kind = "measurement_control" /\ IdOf(v) = Control(x.base)
                      /\ \A i \in v.intents : i.id = <<x.base, "foreground_control">>
    OBVIOUS
  <2>1. v.base = x.base /\ v.kind = "measurement_control" /\ IdOf(v) = Control(x.base)
    BY DEF AsControl, SceneFields, Fields
  <2>2. \A i \in v.intents : i.id = <<x.base, "foreground_control">>
    BY DEF AsControl, Intent
  <2>. QED
    BY <2>1, <2>2
<1>9. CASE AsSeen(r, a, s, ids) /\ AsSeen(r, b, t, ids)
  <2>1. s # t /\ IdOf(a) = IdOf(s) /\ IdOf(b) = IdOf(t) /\ a.intents = s.intents /\ b.intents = t.intents
    BY <1>5, <1>9 DEF AsSeen
  <2>2. IdOf(s) # IdOf(t)
    BY <1>4, <1>6, <2>1
  <2>3. ASSUME NEW i \in s.intents, NEW k \in t.intents, i.id = k.id PROVE FALSE
    <3>1. s.base = t.base /\ i.id[2] = k.id[2]
      BY <1>7, <2>3
    <3>2. /\ s.kind # "first_person_scale_reference" /\ t.kind # "first_person_scale_reference"
          /\ (s.kind = "debug_hitbox_reference") = (t.kind = "debug_hitbox_reference")
      BY <1>7, <2>3, <3>1
    <3>3. SortOf(s.kind) = SortOf(t.kind)
      BY <1>3, <3>2 DEF SortOf
    <3>. QED
      BY <1>4, <2>1, <3>1, <3>3
  <2>. QED
    BY <2>1, <2>2, <2>3
<1>10. CASE AsControl(a, s) /\ AsControl(b, t) /\ {s.kind, t.kind} \subseteq {"first_person_vanilla", "minecraft_vanilla"}
  <2>1. SortOf(s.kind) = SortOf(t.kind)
    BY <1>10 DEF SortOf
  <2>2. s # t
    BY <1>10 DEF AsControl
  <2>3. s.base # t.base
    BY <1>4, <2>1, <2>2
  <2>4. IdOf(a) # IdOf(b)
    BY <1>8, <1>10, <2>3 DEF Control
  <2>5. \A i \in a.intents, k \in b.intents : i.id # k.id
    <3>1. \A i \in a.intents : i.id = <<s.base, "foreground_control">>
      BY <1>8, <1>10
    <3>2. \A i \in b.intents : i.id = <<t.base, "foreground_control">>
      BY <1>8, <1>10
    <3>3. <<s.base, "foreground_control">> # <<t.base, "foreground_control">>
      BY <2>3
    <3>. QED
      BY <3>1, <3>2, <3>3
  <2>. QED
    BY <2>4, <2>5
<1>11. ASSUME NEW v, NEW w, NEW x \in S, NEW y \in S, AsSeen(r, v, x, ids), AsControl(w, y)
       PROVE  IdOf(v) # IdOf(w) /\ \A i \in v.intents, k \in w.intents : i.id # k.id
  <2>1. IdOf(v) # IdOf(w)
    BY <1>3, <1>5, <1>8, <1>11 DEF IdOf, Control
  <2>2. ASSUME NEW i \in v.intents, NEW k \in w.intents PROVE i.id # k.id
    <3>1. i.id[2] # "foreground_control"
      BY <1>5, <1>7, <1>11
    <3>2. k.id = <<y.base, "foreground_control">>
      BY <1>8, <1>11
    <3>3. k.id[2] = "foreground_control"
      BY <3>2
    <3>. QED
      BY <3>1, <3>3
  <2>. QED
    BY <2>1, <2>2
<1>12. CASE AsSeen(r, a, s, ids) /\ AsControl(b, t)
  BY <1>11, <1>12
<1>13. CASE AsControl(a, s) /\ AsSeen(r, b, t, ids)
  BY <1>11, <1>13
<1>. QED
  BY <1>1, <1>2, <1>9, <1>10, <1>12, <1>13

\* All scenes are there, with the names they had; anchors are authoritative.
LEMMA NamesThere ==
  ASSUME NEW r, NEW S, NEW anchors, NEW ids, Controlling(r, S, anchors, ids)
  PROVE  /\ \A s \in S : Seen(s, ids) \in WithControls(S, ids) /\ AsSeen(r, Seen(s, ids), s, ids)
         /\ \A s \in S : SceneNamed(WithControls(S, ids), IdOf(s)) # {}
         /\ \A s \in S : s.kind \notin SupplementalKinds => Authoritative(WithControls(S, ids), IdOf(s))
         /\ \A s \in S : IdOf(s) \in ids =>
              ControlOf(s) \in WithControls(S, ids) /\ IdOf(ControlOf(s)) = Control(s.base)
         /\ \A id \in anchors : Authoritative(WithControls(S, ids), id)
         /\ \A id \in ids : SceneNamed(WithControls(S, ids), Control(id.base)) # {}
<1> DEFINE T == WithControls(S, ids)
<1>1. \A s \in S : Suited(r, s) /\ Linked(s, anchors, ids)
  BY DEF Controlling
<1>2. ASSUME NEW s \in S PROVE Seen(s, ids) \in T /\ AsSeen(r, Seen(s, ids), s, ids)
  BY <1>1, SeenSuits, WithTheControls
<1>3. ASSUME NEW s \in S PROVE IdOf(Seen(s, ids)) = IdOf(s) /\ Seen(s, ids).kind = s.kind /\ Seen(s, ids).required = s.required
  BY <1>2 DEF AsSeen, SceneFields, Fields
<1>4. ASSUME NEW s \in S, IdOf(s) \in ids PROVE ControlOf(s) \in T /\ IdOf(ControlOf(s)) = Control(s.base)
  <2>1. ControlOf(s) \in T
    BY <1>4, WithTheControls
  <2>2. s.kind \in {"first_person_vanilla", "minecraft_vanilla"}
    BY <1>4 DEF Controlling, Supported, IdOf
  <2>3. DOMAIN s = SceneFields /\ SceneAccepted(s) /\ s.target = r.target
    BY <1>1 DEF Suited
  <2>4. s.target \in {"block", "headwear", "entity", "placeable"}
    BY <1>4, <2>3 DEF Controlling
  <2>5. IdOf(ControlOf(s)) = Control(s.base)
    BY <2>2, <2>3, <2>4, ControlAccepted
  <2>. QED
    BY <2>1, <2>5
<1>5. \A s \in S : SceneNamed(T, IdOf(s)) # {}
  BY <1>2, <1>3 DEF SceneNamed
<1>6. ASSUME NEW s \in S, s.kind \notin SupplementalKinds PROVE Authoritative(T, IdOf(s))
  <2>1. s.required
    BY <1>1, <1>6 DEF Suited, SceneAccepted, KindFits
  <2>2. Seen(s, ids) \in SceneNamed(T, IdOf(s)) /\ Seen(s, ids).required
    BY <1>2, <1>3, <2>1 DEF SceneNamed
  <2>. QED
    BY <2>2 DEF Authoritative
<1>7. ASSUME NEW id \in anchors PROVE Authoritative(T, id)
  <2>1. PICK s \in S : IdOf(s) = id /\ s.kind = "minecraft_vanilla"
    BY DEF Controlling, Supported, IdOf
  <2>. QED
    BY <1>6, <2>1 DEF SupplementalKinds
<1>8. ASSUME NEW id \in ids PROVE SceneNamed(T, Control(id.base)) # {}
  <2>1. PICK s \in S : IdOf(s) = id
    BY DEF Controlling, Supported
  <2>2. s.base = id.base
    BY <2>1 DEF IdOf
  <2>3. ControlOf(s) \in T /\ IdOf(ControlOf(s)) = Control(id.base)
    BY <1>4, <2>1, <2>2
  <2>. QED
    BY <2>3 DEF SceneNamed
<1>. QED
  BY <1>2, <1>4, <1>5, <1>6, <1>7, <1>8

\* What a scene shows is not what it is compared with.
LEMMA ShownSame ==
  ASSUME NEW s, NEW v, NEW aid, DOMAIN s = SceneFields, DOMAIN v = SceneFields,
         \A field \in SceneFields \ {"comparisons"} : v[field] = s[field]
  PROVE  Shown(v, aid) = Shown(s, aid)
<1> DEFINE Bare(x) == [x EXCEPT !.kind = NoValue, !.required = NoValue, !.intents = {}, !.comparisons = {},
                                !.presentation = IF aid # "first_person_scale_reference" \/ @ = "reference_arm"
                                                 THEN NoValue ELSE @]
<1>1. /\ DOMAIN Bare(v) = SceneFields /\ DOMAIN Bare(s) = SceneFields
      /\ \A field \in SceneFields : Bare(v)[field] = Bare(s)[field]
  BY DEF SceneFields, Fields
<1>2. Bare(v) = Bare(s)
  <2>1. Bare(v) = [field \in SceneFields |-> Bare(v)[field]] /\ Bare(s) = [field \in SceneFields |-> Bare(s)[field]]
    BY <1>1
  <2> HIDE DEF Bare
  <2>. QED
    BY <1>1, <2>1
<1>3. v.fixture = s.fixture
  BY DEF SceneFields, Fields
<1>4. \A x : Shown(x, aid) = IF aid = "measurement_control" THEN [Bare(x) EXCEPT !.settling = 0, !.fixture = x.fixture.state]
                             ELSE Bare(x)
  BY DEF Shown
<1> DEFINE Left(x) == [Bare(x) EXCEPT !.settling = 0, !.fixture = x.fixture.state]
<1>5. Left(v) = Left(s)
  <2> HIDE DEF Bare
  <2>. QED
    BY <1>2, <1>3
<1>6. \A x : Shown(x, aid) = IF aid = "measurement_control" THEN Left(x) ELSE Bare(x)
  BY <1>4
<1> HIDE DEF Bare, Left
<1>. QED
  BY <1>2, <1>5, <1>6

\* A control shows what its scene shows.
LEMMA ControlShows ==
  ASSUME NEW s, NEW v, NEW t, DOMAIN s = SceneFields, DOMAIN v = SceneFields, AsControl(t, s),
         \A field \in SceneFields \ {"comparisons"} : v[field] = s[field]
  PROVE  Shown(t, "measurement_control") = Shown(v, "measurement_control")
<1> DEFINE Left(x) == [[x EXCEPT !.kind = NoValue, !.required = NoValue, !.intents = {}, !.comparisons = {},
                                 !.presentation = NoValue] EXCEPT !.settling = 0, !.fixture = x.fixture.state]
<1>1. \A x : DOMAIN x = SceneFields => Shown(x, "measurement_control") = Left(x)
  BY DEF Shown, SceneFields, Fields
<1>2. t.fixture.state = v.fixture.state
  BY DEF AsControl, SceneFields, Fields
<1>3. DOMAIN t = SceneFields /\ DOMAIN Left(t) = SceneFields /\ DOMAIN Left(v) = SceneFields
  BY DEF AsControl
<1>4. \A field \in SceneFields : Left(t)[field] = Left(v)[field]
  <2> DEFINE Rest == SceneFields \ {"kind", "required", "settling", "presentation", "fixture", "intents", "comparisons"}
  <2>1. ASSUME NEW x, DOMAIN x = SceneFields
        PROVE  /\ Left(x).kind = NoValue /\ Left(x).required = NoValue /\ Left(x).presentation = NoValue
               /\ Left(x).intents = {} /\ Left(x).comparisons = {}
               /\ Left(x).settling = 0 /\ Left(x).fixture = x.fixture.state
               /\ \A field \in Rest : Left(x)[field] = x[field]
    BY <2>1 DEF SceneFields, Fields
  <2>2. \A field \in Rest : t[field] = v[field]
    BY DEF AsControl
  <2> HIDE DEF Left
  <2>3. \A field \in Rest : Left(t)[field] = Left(v)[field]
    BY <1>3, <2>1, <2>2
  <2>. QED
    BY <1>2, <1>3, <2>1, <2>3
<1>5. Left(t) = Left(v)
  <2>1. Left(t) = [field \in SceneFields |-> Left(t)[field]] /\ Left(v) = [field \in SceneFields |-> Left(v)[field]]
    BY <1>3
  <2> HIDE DEF Left
  <2>. QED
    BY <1>4, <2>1
<1>. QED
  BY <1>1, <1>3, <1>5

\* Every aid has its stock scene.
LEMMA AidsPaired ==
  ASSUME NEW r, NEW S, NEW anchors, NEW ids, Controlling(r, S, anchors, ids)
  PROVE  AidsArePaired(WithControls(S, ids))
<1> DEFINE T == WithControls(S, ids)
<1> SUFFICES ASSUME NEW a \in T,
                    a.kind \in {"first_person_scale_reference", "debug_hitbox_reference", "measurement_control"}
             PROVE  \E v \in StockOf(T, a) :
                      /\ Shown(a, a.kind) = Shown(v, a.kind)
                      /\ a.kind = "measurement_control" => a.comparisons = {IdOf(v)} /\ IdOf(a) \in v.comparisons
  BY DEF AidsArePaired
<1>1. PICK s \in S : \/ AsSeen(r, a, s, ids)
                     \/ AsControl(a, s) /\ IdOf(s) \in ids /\ s.kind \in {"first_person_vanilla", "minecraft_vanilla"}
  BY Members
<1>2. \A x \in S : /\ Seen(x, ids) \in T /\ AsSeen(r, Seen(x, ids), x, ids)
                   /\ Suited(r, x) /\ DOMAIN x = SceneFields /\ DOMAIN Seen(x, ids) = SceneFields
  <2>1. \A x \in S : Suited(r, x)
    BY DEF Controlling
  <2>2. \A x \in S : Seen(x, ids) \in T /\ AsSeen(r, Seen(x, ids), x, ids)
    BY NamesThere
  <2>. QED
    BY <2>1, <2>2 DEF Suited, AsSeen
<1>3. \A x \in S : Seen(x, ids).kind = x.kind /\ Seen(x, ids).base = x.base
  BY <1>2 DEF AsSeen, SceneFields, Fields
<1>4. \A x \in S : \A field \in SceneFields \ {"comparisons"} : Seen(x, ids)[field] = x[field]
  BY <1>2 DEF AsSeen
<1>5. CASE AsSeen(r, a, s, ids)
  <2>1. a = Seen(s, ids) /\ a.kind = s.kind /\ a.base = s.base /\ s.kind # "measurement_control"
    BY <1>2, <1>3, <1>5 DEF AsSeen, Suited
  <2>2. s.kind \in {"first_person_scale_reference", "debug_hitbox_reference"}
    BY <2>1
  <2>3. PICK v \in StockOf(S, s) : Shown(s, s.kind) = Shown(v, s.kind)
    BY <2>2 DEF Controlling, Paired
  <2>4. v \in S /\ v.base = s.base
        /\ v.kind \in IF s.kind = "first_person_scale_reference" THEN {"first_person_vanilla"}
                      ELSE {"first_person_vanilla", "minecraft_vanilla"}
    BY <2>3 DEF StockOf
  <2>5. Seen(v, ids) \in StockOf(T, a)
    BY <1>2, <1>3, <2>1, <2>4 DEF StockOf
  <2>6. Shown(Seen(v, ids), s.kind) = Shown(v, s.kind)
    BY <1>2, <1>4, <2>4, ShownSame
  <2>7. Shown(a, s.kind) = Shown(s, s.kind)
    BY <1>2, <1>4, <2>1, ShownSame
  <2>. QED
    BY <2>1, <2>2, <2>3, <2>5, <2>6, <2>7
<1>6. CASE AsControl(a, s) /\ IdOf(s) \in ids /\ s.kind \in {"first_person_vanilla", "minecraft_vanilla"}
  <2> DEFINE v == Seen(s, ids)
  <2>1. v \in T /\ v.kind = s.kind /\ v.base = s.base /\ IdOf(v) = IdOf(s)
    BY <1>2, <1>3 DEF AsSeen
  <2>2. a.base = s.base /\ a.kind = "measurement_control" /\ a.comparisons = {IdOf(s)} /\ IdOf(a) = Control(s.base)
    BY <1>6 DEF AsControl, SceneFields, Fields
  <2>3. v \in StockOf(T, a)
    BY <1>6, <2>1, <2>2 DEF StockOf
  <2>4. Control(s.base) \in v.comparisons
    BY <1>2, <1>6 DEF AsSeen, When
  <2>5. Shown(a, "measurement_control") = Shown(v, "measurement_control")
    BY <1>2, <1>4, <1>6, ControlShows
  <2> HIDE DEF v, T
  <2>. QED
    BY <2>1, <2>2, <2>3, <2>4, <2>5
<1>. QED
  BY <1>1, <1>5, <1>6

\* No plan has more scenes than the protocol takes.
LEMMA FewScenes ==
  ASSUME NEW r, NEW S, NEW anchors, NEW ids, Controlling(r, S, anchors, ids),
         NEW n \in Nat, NEW k \in Nat, AtMost(n, S), AtMost(k, ids), n + k <= 64
  PROVE  Cardinality(WithControls(S, ids)) \in 1..64
<1> DEFINE controlled == {x \in S : IdOf(x) \in ids}
           seen == {Seen(s, ids) : s \in S}
           controls == {ControlOf(s) : s \in controlled}
           Ctl == [id \in ids |-> ControlOf(CHOOSE s \in S : IdOf(s) = id)]
           See == [s \in S |-> Seen(s, ids)]
<1>1. AtMost(n, seen)
  <2>1. seen = {See[s] : s \in S}
    OBVIOUS
  <2> HIDE DEF See, seen, controls, controlled, Ctl
  <2>2. AtMost(n, {See[s] : s \in S})
    BY AtMostImage
  <2>. QED
    BY <2>1, <2>2
<1>2. AtMost(k, controls)
  <2>1. ASSUME NEW s \in controlled PROVE ControlOf(s) = Ctl[IdOf(s)] /\ IdOf(s) \in ids
    <3> DEFINE t == CHOOSE x \in S : IdOf(x) = IdOf(s)
    <3>1. t \in S /\ IdOf(t) = IdOf(s)
      OBVIOUS
    <3>2. t.base = s.base /\ t.kind = s.kind
      BY <3>1 DEF IdOf
    <3>3. t = s
      BY <3>1, <3>2 DEF Controlling, Keyed
    <3>. QED
      BY <3>3
  <2>2. controls \subseteq {Ctl[id] : id \in ids}
    BY <2>1
  <2> HIDE DEF Ctl, controls
  <2>3. AtMost(k, {Ctl[id] : id \in ids})
    BY AtMostImage
  <2>. QED
    BY <2>2, <2>3, AtMostPart
<1>3. WithControls(S, ids) = seen \cup controls
  BY WithTheControls
<1>4. seen # {}
  BY DEF Controlling
<1> HIDE DEF seen, controls
<1>5. AtMost(n + k, seen \cup controls)
  BY <1>1, <1>2, AtMostUnion
<1>6. Cardinality(seen \cup controls) \in Nat /\ Cardinality(seen \cup controls) # 0
  BY <1>4, <1>5, FS_CardinalityType, FS_EmptySet DEF AtMost
<1>. QED
  BY <1>3, <1>5, <1>6 DEF AtMost

\* What a scene is compared with is there, and authoritative where it has to be.
LEMMA ComparedThere ==
  ASSUME NEW r, NEW S, NEW anchors, NEW ids, Controlling(r, S, anchors, ids), NEW v \in WithControls(S, ids)
  PROVE  /\ \A id \in v.comparisons : SceneNamed(WithControls(S, ids), id) # {}
         /\ v.kind \in {"comparison_reference", "world_scale_reference", "measurement_control"} =>
              v.comparisons # {} /\ \A id \in v.comparisons : Authoritative(WithControls(S, ids), id)
<1> DEFINE T == WithControls(S, ids)
<1>1. PICK s \in S : \/ AsSeen(r, v, s, ids)
                     \/ AsControl(v, s) /\ IdOf(s) \in ids /\ s.kind \in {"first_person_vanilla", "minecraft_vanilla"}
  BY Members
<1>2. \A id \in anchors : Authoritative(T, id) /\ SceneNamed(T, id) # {}
  BY NamesThere DEF Authoritative
<1>3. \A id \in ids : SceneNamed(T, Control(id.base)) # {}
  BY NamesThere
<1>4. CASE AsSeen(r, v, s, ids)
  <2>1. /\ v.kind = s.kind /\ v.kind # "measurement_control"
        /\ v.comparisons = s.comparisons \cup When(IdOf(s) \in ids, {Control(s.base)})
    BY <1>4 DEF AsSeen, Suited, SceneFields, Fields
  <2>2. Linked(s, anchors, ids) /\ Supported(S, anchors, ids)
    BY DEF Controlling
  <2>3. \A id \in s.comparisons : SceneNamed(T, id) # {}
    <3>1. \A id \in s.comparisons : id \in anchors \/ \E e \in ids : id = Control(e.base)
      BY <2>2 DEF Linked
    <3> HIDE DEF T
    <3>. QED
      BY <1>2, <1>3, <3>1
  <2>4. IdOf(s) \in ids => SceneNamed(T, Control(s.base)) # {}
    BY <1>3 DEF IdOf
  <2>5. \A id \in v.comparisons : SceneNamed(T, id) # {}
    BY <2>1, <2>3, <2>4 DEF When
  <2>6. s.kind \in {"comparison_reference", "world_scale_reference"} =>
          s.comparisons # {} /\ s.comparisons \subseteq anchors /\ IdOf(s) \notin ids
    BY <2>2 DEF Linked, Supported, IdOf
  <2>7. v.kind \in {"comparison_reference", "world_scale_reference"} =>
          v.comparisons # {} /\ \A id \in v.comparisons : Authoritative(T, id)
    BY <1>2, <2>1, <2>6 DEF When
  <2>. QED
    BY <2>1, <2>5, <2>7
<1>5. CASE AsControl(v, s) /\ s.kind \in {"first_person_vanilla", "minecraft_vanilla"}
  <2>1. v.comparisons = {IdOf(s)}
    BY <1>5 DEF AsControl
  <2>2. SceneNamed(T, IdOf(s)) # {} /\ Authoritative(T, IdOf(s))
    BY <1>5, NamesThere DEF SupplementalKinds
  <2>. QED
    BY <2>1, <2>2
<1>. QED
  BY <1>1, <1>4, <1>5

\* A measurement is of frames that are there; a critical one of two that are authoritative.
LEMMA MeasurementsAccepted ==
  ASSUME NEW r, NEW S, NEW anchors, NEW ids, Controlling(r, S, anchors, ids),
         NEW v \in WithControls(S, ids), NEW i \in v.intents
  PROVE  IntentAccepted(WithControls(S, ids), v, i)
<1> DEFINE T == WithControls(S, ids)
<1>1. PICK s \in S : \/ AsSeen(r, v, s, ids)
                     \/ AsControl(v, s) /\ IdOf(s) \in ids /\ s.kind \in {"first_person_vanilla", "minecraft_vanilla"}
  BY Members
<1>2. CASE AsSeen(r, v, s, ids)
  <2>1. /\ v.kind = s.kind /\ v.intents = s.intents /\ v.required = s.required /\ IdOf(v) = IdOf(s)
        /\ v.comparisons = s.comparisons \cup When(IdOf(s) \in ids, {Control(s.base)})
    BY <1>2 DEF AsSeen, SceneFields, Fields
  <2>2. Linked(s, anchors, ids) /\ Suited(r, s)
    BY DEF Controlling
  <2>3. Measurable(s, i, anchors, ids)
    BY <2>1, <2>2 DEF Linked
  <2>4. i.sources # {} => IdOf(v) \in i.sources /\ i.sources \subseteq {IdOf(v)} \cup v.comparisons
    BY <2>1, <2>3 DEF Measurable, Own
  <2>5. ASSUME i.critical
        PROVE  /\ v.required /\ i.calibrated /\ i.metric \in ReadinessMetrics
               /\ Cardinality(Sources(v, i)) = 2
               /\ \A id \in Sources(v, i) : Authoritative(T, id)
    <3>1. PICK other \in anchors :
             other # IdOf(s) /\ (IF i.sources = {} THEN s.comparisons = {other} ELSE i.sources = {IdOf(s), other})
      BY <2>3, <2>5 DEF Measurable
    <3>2. s.kind \notin SupplementalKinds /\ IdOf(s) \notin ids /\ i.calibrated /\ i.metric \in ReadinessMetrics
      BY <2>3, <2>5 DEF Measurable
    <3>3. Sources(v, i) = {IdOf(s), other}
      BY <2>1, <3>1, <3>2 DEF Sources, When
    <3>4. Cardinality({IdOf(s)} \cup {other}) = 2
      <4>1. IsFiniteSet({IdOf(s)}) /\ Cardinality({IdOf(s)}) = 1
        BY FS_Singleton, Zenon
      <4>2. Cardinality({IdOf(s)} \cup {other}) = Cardinality({IdOf(s)}) + 1
        BY <3>1, <4>1, FS_AddElement
      <4>. QED
        BY <4>1, <4>2
    <3>5. {IdOf(s)} \cup {other} = {IdOf(s), other}
      OBVIOUS
    <3>6. Authoritative(T, IdOf(s)) /\ Authoritative(T, other)
      BY <3>1, <3>2, NamesThere
    <3>7. s.required
      BY <2>2, <3>2 DEF Suited, SceneAccepted, KindFits
    <3>. QED
      BY <2>1, <3>2, <3>3, <3>4, <3>5, <3>6, <3>7
  <2>. QED
    BY <2>4, <2>5 DEF IntentAccepted
<1>3. CASE AsControl(v, s)
  <2>1. v.comparisons = {IdOf(s)} /\ IdOf(v) = Control(s.base)
    BY <1>3 DEF AsControl
  <2>2. i = Intent(s.base, "foreground_control", "pairwise_pixel_delta", {IdOf(s), Control(s.base)}, FALSE)
    BY <1>3 DEF AsControl
  <2>3. i.sources = {IdOf(s), Control(s.base)} /\ ~i.critical
    BY <2>2 DEF Intent
  <2>. QED
    BY <2>1, <2>3 DEF IntentAccepted
<1>. QED
  BY <1>1, <1>2, <1>3

\* The protocol accepts such a plan.
LEMMA ControlledAccepted ==
  ASSUME NEW r, NEW S, NEW anchors, NEW ids, Controlling(r, S, anchors, ids),
         NEW n \in Nat, NEW k \in Nat, AtMost(n, S), AtMost(k, ids), n + k <= 64,
         r.strategy = "equippable_head" => HeadwearEvidenceAccepted(r, WithControls(S, ids))
  PROVE  PlanAccepted(r, WithControls(S, ids))
<1> DEFINE T == WithControls(S, ids)
<1>1. ASSUME NEW v \in T
      PROVE  /\ SceneAccepted(v) /\ NameIn(r, v.base) # "long" /\ v.target = r.target
             /\ v.fixture.kind \in {r.strategy, "measurement_control"} /\ v.fixture.state \in Declared(r)
             /\ v.fixture.kind = "equippable_head" => (v.fixture.chest => r.review.chestArmor)
  <2>1. PICK s \in S : AsSeen(r, v, s, ids) \/ AsControl(v, s)
    BY <1>1, Members
  <2>2. CASE AsSeen(r, v, s, ids)
    <3>1. Suited(r, v)
      BY <2>2 DEF AsSeen
    <3>. QED
      BY <3>1 DEF Suited
  <2>3. CASE AsControl(v, s)
    <3>1. SceneAccepted(v) /\ v.fixture.kind = "measurement_control" /\ v.fixture.state = s.fixture.state
      BY <2>3 DEF AsControl
    <3>2. v.target = s.target /\ v.base = s.base
      BY <2>3 DEF AsControl, SceneFields, Fields
    <3>3. NameIn(r, s.base) # "long" /\ s.target = r.target /\ s.fixture.state \in Declared(r)
      BY DEF Controlling, Suited
    <3>. QED
      BY <3>1, <3>2, <3>3
  <2>. QED
    BY <2>1, <2>2, <2>3
<1>2. \A a, b \in T : a # b => IdOf(a) # IdOf(b) /\ {i.id : i \in a.intents} \cap {i.id : i \in b.intents} = {}
  BY NamesDiffer
<1>3. Cardinality(T) \in 1..64
  BY FewScenes
<1>4. AidsArePaired(T)
  BY AidsPaired
<1>5. \A v \in T : /\ \A id \in v.comparisons : SceneNamed(T, id) # {}
                   /\ v.kind \in {"comparison_reference", "world_scale_reference", "measurement_control"} =>
                        v.comparisons # {} /\ \A id \in v.comparisons : Authoritative(T, id)
  BY ComparedThere
<1>6. \A v \in T : \A i \in v.intents : IntentAccepted(T, v, i)
  BY MeasurementsAccepted
<1> HIDE DEF T
<1>. QED
  BY <1>1, <1>2, <1>3, <1>4, <1>5, <1>6, ZenonT(30) DEF PlanAccepted, T

-----------------------------------------------------------------------------
(* Descriptions of scenes that the protocol accepts when they are lowered.  *)

\* Lowering a description gives it these fields and no others.
LEMMA LowerFields ==
  ASSUME NEW r, NEW settling, NEW d, DOMAIN d = Fields
  PROVE  IsLowered(Lower(r, settling, d), r, settling, d)
<1> DEFINE added ==
             [target |-> r.target,
              required |-> d.kind \notin SupplementalKinds,
              settling |-> Settling(r, settling),
              eye |-> EyeOf(r, d)]
<1>1. Lower(r, settling, d) =
        [field \in DOMAIN added \cup DOMAIN d |-> IF field \in DOMAIN added THEN added[field] ELSE d[field]]
  BY DEF Lower, Settling, EyeOf
<1>2. DOMAIN added = {"target", "required", "settling", "eye"}
  OBVIOUS
<1> HIDE DEF added
<1>3. \A field \in {"target", "required", "settling", "eye"} : Lower(r, settling, d)[field] = added[field]
  BY <1>1, <1>2
<1>4. DOMAIN Lower(r, settling, d) = SceneFields /\ \A field \in Fields : Lower(r, settling, d)[field] = d[field]
  BY <1>1, <1>2 DEF SceneFields, Fields
<1>5. /\ Lower(r, settling, d).target = added.target /\ Lower(r, settling, d).required = added.required
      /\ Lower(r, settling, d).settling = added.settling /\ Lower(r, settling, d).eye = added.eye
  BY <1>3
<1>6. /\ added.target = r.target /\ added.required = (d.kind \notin SupplementalKinds)
      /\ added.settling = Settling(r, settling)
      /\ added.eye = EyeOf(r, d)
  BY DEF added
<1>. QED
  BY <1>4, <1>5, <1>6 DEF IsLowered

\* A description that is drawn as it should be is lowered to a scene that suits.
LEMMA LowerSuits ==
  ASSUME NEW r, NEW settling, NEW d, Drawn(r, d), NameIn(r, d.base) # "long",
         r.target \in TargetsOf(r.strategy), settling = NoValue \/ settling \in 2..40
  PROVE  Suited(r, Lower(r, settling, d))
<1> DEFINE s == Lower(r, settling, d)
<1>0. DOMAIN d = Fields
  BY DEF Drawn
<1>1. IsLowered(s, r, settling, d)
  BY <1>0, LowerFields
<1> HIDE DEF s
<1>2. /\ s.kind = d.kind /\ s.base = d.base /\ s.camera = d.camera /\ s.context = d.context /\ s.hand = d.hand
      /\ s.player = d.player /\ s.fov = d.fov /\ s.animation = d.animation /\ s.fixture = d.fixture
      /\ s.intents = d.intents /\ s.comparisons = d.comparisons /\ s.presentation = d.presentation
  BY <1>1 DEF Fields, IsLowered
<1>3. r.strategy # "measurement_control" /\ (r.strategy = "equippable_head" => r.target = "headwear")
  BY DEF TargetsOf
<1>4. s.settling \in Ticks(40) /\ (IF r.strategy \in DisplayKinds THEN s.settling >= 2 ELSE s.settling = 0)
  <2>1. s.settling = Settling(r, settling)
    BY <1>1 DEF IsLowered
  <2>2. CASE r.strategy \notin DisplayKinds
    BY <2>1, <2>2 DEF Settling, Ticks
  <2>3. CASE r.strategy \in DisplayKinds /\ settling = NoValue
    BY <2>1, <2>3 DEF Settling, Ticks
  <2>4. CASE r.strategy \in DisplayKinds /\ settling # NoValue
    BY <2>1, <2>4 DEF Settling, Ticks
  <2>. QED
    BY <2>2, <2>3, <2>4
<1>5. Cardinality(s.intents) <= 16 /\ Cardinality(s.comparisons) <= 16
  <2>1. \A S : AtMost(3, S) => Cardinality(S) <= 16
    BY FS_CardinalityType DEF AtMost
  <2>. QED
    BY <1>2, <2>1 DEF Drawn
<1>6. SceneShaped(s)
  <2>1. Filmed(d)
    BY DEF Drawn
  <2>. QED
    BY <1>2, <1>4, <1>5, <2>1 DEF Filmed, SceneShaped
<1>7. PutUp(r, s.fixture) /\ Viewed(r, d)
  BY <1>2 DEF Drawn
<1>8. KindFits(s)
  <2>1. s.fixture.kind = r.strategy /\ s.fixture.target = r.target
    BY <1>7 DEF PutUp
  <2>2. FirstPersonWorld(d) => s.eye
    <3>1. s.eye = EyeOf(r, d)
      BY <1>1 DEF IsLowered
    <3>2. FirstPersonWorld(d) => EyeOf(r, d)
      BY <1>7 DEF Viewed, FirstPersonWorld, EyeOf
    <3>. QED
      BY <3>1, <3>2
  <2>3. FirstPersonWorld(s) = FirstPersonWorld(d)
    BY <1>2 DEF FirstPersonWorld
  <2>4. s.required = (s.kind \notin SupplementalKinds) /\ s.target = r.target
    BY <1>1, <1>2 DEF IsLowered
  <2>. QED
    BY <1>2, <1>3, <1>7, <2>1, <2>2, <2>3, <2>4 DEF KindFits, Viewed
<1>9. FixtureFits(s)
  <2>1. Arranged(s.fixture) /\ s.fixture.kind = r.strategy
    BY <1>7 DEF PutUp
  <2>2. s.fixture.kind = "equippable_head" =>
          /\ s.fixture.subject = "bare_control" => s.kind = "comparison_reference"
          /\ s.fixture.chest => s.fixture.subject = "player" /\ s.fixture.framing = "full_body"
    BY <1>2, <1>3, <1>7, <2>1 DEF Viewed
  <2>. QED
    BY <1>4, <2>1, <2>2 DEF FixtureFits, Arranged
<1>10. FixtureShaped(s.fixture) /\ s.fixture.kind = r.strategy /\ s.fixture.state \in Declared(r)
  BY <1>7 DEF PutUp
<1>11. IdOf(s) \notin s.comparisons /\ (\A a, b \in s.intents : a.id = b.id => a = b)
  BY <1>2 DEF Drawn, IdOf
<1>12. SceneAccepted(s)
  BY <1>6, <1>8, <1>9, <1>10, <1>11, Zenon DEF SceneAccepted
<1>13. s.fixture.kind = "equippable_head" => (s.fixture.chest => r.review.chestArmor)
  BY <1>2, <1>3, <1>7, <1>10 DEF Viewed
<1>14. s.kind # "measurement_control" /\ NameIn(r, s.base) # "long"
  BY <1>2, <1>7 DEF Viewed, Drawn
<1>. QED
  BY <1>1, <1>10, <1>12, <1>13, <1>14 DEF Suited, IsLowered, s

\* A twin shows the same.
LEMMA TwinsShow ==
  ASSUME NEW r, NEW settling, NEW d, NEW e, DOMAIN d = Fields, DOMAIN e = Fields, Twin(d, e),
         d.kind = "first_person_scale_reference" => d.presentation = "reference_arm",
         d.kind # "measurement_control"
  PROVE  Shown(Lower(r, settling, d), d.kind) = Shown(Lower(r, settling, e), d.kind)
<1> DEFINE s == Lower(r, settling, d)
           v == Lower(r, settling, e)
           Bare(x) == [x EXCEPT !.kind = NoValue, !.required = NoValue, !.intents = {}, !.comparisons = {},
                                !.presentation = IF d.kind # "first_person_scale_reference" \/ @ = "reference_arm"
                                                 THEN NoValue ELSE @]
<1>1. IsLowered(s, r, settling, d) /\ IsLowered(v, r, settling, e)
  BY LowerFields
<1> HIDE DEF s, v
<1>2. s.eye = v.eye
  <2>1. d.fixture = e.fixture /\ d.context = e.context /\ d.camera = e.camera
    BY DEF Twin, Fields
  <2>2. EyeOf(r, d) = EyeOf(r, e)
    BY <2>1 DEF EyeOf
  <2>. QED
    BY <1>1, <2>2 DEF IsLowered
<1>3. \A field \in SceneFields \ {"kind", "required", "intents", "comparisons", "presentation"} : s[field] = v[field]
  BY <1>1, <1>2 DEF Twin, SceneFields, IsLowered
<1>4. /\ v.presentation = NoValue
      /\ d.kind # "first_person_scale_reference" \/ s.presentation = "reference_arm"
  BY <1>1 DEF Twin, Fields, IsLowered
<1>5. ASSUME NEW x, DOMAIN x = SceneFields,
             \/ d.kind # "first_person_scale_reference"
             \/ x.presentation = "reference_arm" \/ x.presentation = NoValue
      PROVE  /\ DOMAIN Bare(x) = SceneFields
             /\ Bare(x).kind = NoValue /\ Bare(x).required = NoValue /\ Bare(x).presentation = NoValue
             /\ Bare(x).intents = {} /\ Bare(x).comparisons = {}
             /\ \A field \in SceneFields \ {"kind", "required", "intents", "comparisons", "presentation"} :
                  Bare(x)[field] = x[field]
  <2> DEFINE presentation == IF d.kind # "first_person_scale_reference" \/ x.presentation = "reference_arm"
                             THEN NoValue ELSE x.presentation
             Blank == [x EXCEPT !.kind = NoValue, !.required = NoValue, !.intents = {}, !.comparisons = {},
                                !.presentation = NoValue]
  <2>1. presentation = NoValue
    BY <1>5
  <2>2. Bare(x) = [x EXCEPT !.kind = NoValue, !.required = NoValue, !.intents = {}, !.comparisons = {},
                            !.presentation = presentation]
    BY <1>5 DEF SceneFields, Fields
  <2>3. Bare(x) = Blank
    <3> HIDE DEF Bare, presentation
    <3>. QED
      BY <2>1, <2>2
  <2> HIDE DEF Bare
  <2>. QED
    BY <1>5, <2>3 DEF SceneFields, Fields
<1>6. \A x : d.kind # "measurement_control" => Shown(x, d.kind) = Bare(x)
  BY DEF Shown
<1> HIDE DEF Bare
<1>7. \A field \in SceneFields : Bare(s)[field] = Bare(v)[field]
  BY <1>1, <1>3, <1>4, <1>5 DEF IsLowered
<1>8. Bare(s) = Bare(v)
  <2>1. Bare(s) = [field \in DOMAIN s |-> Bare(s)[field]] /\ Bare(v) = [field \in DOMAIN v |-> Bare(v)[field]]
    BY DEF Bare
  <2>. QED
    BY <1>1, <1>7, <2>1 DEF IsLowered
<1>. QED
  BY <1>6, <1>8 DEF s, v

\* What the descriptions are, the scenes are.
LEMMA LaidControlling ==
  ASSUME NEW r, NEW settling, NEW D, NEW anchors, NEW ids, Laid(r, D, anchors, ids),
         \A d \in D : NameIn(r, d.base) # "long", r.target \in TargetsOf(r.strategy), settling = NoValue \/ settling \in 2..40
  PROVE  Controlling(r, {Lower(r, settling, d) : d \in D}, anchors, ids)
<1> DEFINE S == {Lower(r, settling, d) : d \in D}
<1>1. \A d \in D : DOMAIN d = Fields /\ Drawn(r, d) /\ Linked(d, anchors, ids)
  BY DEF Laid, Drawn
<1>2. \A d \in D : IsLowered(Lower(r, settling, d), r, settling, d)
  BY <1>1, LowerFields
<1>3. ASSUME NEW d \in D
      PROVE  LET s == Lower(r, settling, d)
             IN  /\ s.base = d.base /\ s.kind = d.kind /\ s.intents = d.intents /\ s.comparisons = d.comparisons
                 /\ IdOf(s) = IdOf(d)
  BY <1>2 DEF IsLowered, Fields, IdOf
<1>4. \A d \in D : Suited(r, Lower(r, settling, d))
  BY <1>1, LowerSuits
<1>5. ASSUME NEW d \in D PROVE Linked(Lower(r, settling, d), anchors, ids)
  <2> DEFINE s == Lower(r, settling, d)
  <2>1. Linked(d, anchors, ids)
    BY <1>1
  <2>2. s.base = d.base /\ s.kind = d.kind /\ s.intents = d.intents /\ s.comparisons = d.comparisons /\ IdOf(s) = IdOf(d)
    BY <1>3
  <2> HIDE DEF s
  <2>3. \A i : Measurable(d, i, anchors, ids) => Measurable(s, i, anchors, ids)
    BY <2>2 DEF Measurable, Own
  <2>4. Linked(s, anchors, ids)
    BY <2>1, <2>2, <2>3 DEF Linked
  <2>. QED
    BY <2>4 DEF s
<1>6. Keyed(S)
  <2>1. Keyed(D)
    BY DEF Laid
  <2>2. ASSUME NEW d \in D, NEW e \in D, Lower(r, settling, d).base = Lower(r, settling, e).base,
               SortOf(Lower(r, settling, d).kind) = SortOf(Lower(r, settling, e).kind)
        PROVE  d = e
    BY <1>3, <2>1, <2>2 DEF Keyed
  <2>. QED
    BY <2>2 DEF Keyed
<1>7. Supported(S, anchors, ids)
  BY <1>3 DEF Laid, Supported
<1>8. Paired(S)
  <2> SUFFICES ASSUME NEW d \in D, d.kind \in {"first_person_scale_reference", "debug_hitbox_reference"}
               PROVE  \E v \in StockOf(S, Lower(r, settling, d)) : Shown(Lower(r, settling, d), d.kind) = Shown(v, d.kind)
    BY <1>3 DEF Paired
  <2>1. PICK e \in D : Twin(d, e)
    BY DEF Laid
  <2>2. d.kind = "first_person_scale_reference" => d.presentation = "reference_arm"
    BY <1>1 DEF Drawn, Viewed
  <2>3. Shown(Lower(r, settling, d), d.kind) = Shown(Lower(r, settling, e), d.kind)
    BY <1>1, <2>1, <2>2, TwinsShow
  <2>4. Lower(r, settling, e) \in StockOf(S, Lower(r, settling, d))
    BY <1>3, <2>1 DEF StockOf, Twin
  <2>. QED
    BY <2>3, <2>4
<1>9. S # {} /\ (ids # {} => r.target \in {"block", "headwear", "entity", "placeable"})
  BY DEF Laid
<1> HIDE DEF S
<1>10. \A s \in S : Suited(r, s) /\ Linked(s, anchors, ids)
  BY <1>4, <1>5 DEF S
<1>. QED
  BY <1>6, <1>7, <1>8, <1>9, <1>10 DEF Controlling, S

\* The protocol accepts what is lowered from such descriptions.
LEMMA LaidAccepted ==
  ASSUME NEW r, NEW settling, NEW D, NEW anchors, NEW ids, Laid(r, D, anchors, ids),
         \A d \in D : NameIn(r, d.base) # "long", r.target \in TargetsOf(r.strategy), settling = NoValue \/ settling \in 2..40,
         NEW n \in Nat, NEW k \in Nat, AtMost(n, D), AtMost(k, ids), n + k <= 64,
         r.strategy = "equippable_head" => HeadwearEvidenceAccepted(r, LowerAll(r, settling, D, ids))
  PROVE  PlanAccepted(r, LowerAll(r, settling, D, ids))
<1> DEFINE S == {Lower(r, settling, d) : d \in D}
           lowered == [d \in D |-> Lower(r, settling, d)]
<1>1. Controlling(r, S, anchors, ids)
  BY LaidControlling
<1>2. AtMost(n, S)
  <2>1. S = {lowered[d] : d \in D}
    OBVIOUS
  <2> HIDE DEF lowered, S
  <2>. QED
    BY <2>1, AtMostImage
<1>3. LowerAll(r, settling, D, ids) = WithControls(S, ids)
  BY DEF LowerAll
<1> HIDE DEF S
<1>. QED
  BY <1>1, <1>2, <1>3, ControlledAccepted

-----------------------------------------------------------------------------
(* Families of descriptions.                                                *)

\* Families of other words are one.
LEMMA FamilyUnion ==
  ASSUME NEW D, NEW E, NEW sort, NEW V, NEW W, NEW m \in Nat, NEW n \in Nat,
         Family(D, sort, V, m), Family(E, sort, W, n), V \cap W = {}
  PROVE  Family(D \cup E, sort, V \cup W, m + n)
<1>1. AtMost(m + n, D \cup E)
  BY AtMostUnion DEF Family
<1>2. \A d \in D \cup E : SortOf(d.kind) = sort /\ d.base[1] \in V \cup W
  BY DEF Family
<1>3. ASSUME NEW d \in D \cup E, NEW e \in D \cup E, d.base = e.base PROVE d = e
  BY <1>3 DEF Family
<1>. QED
  BY <1>1, <1>2, <1>3 DEF Family

\* One description is a family, and so is none.
LEMMA FamilyOne ==
  ASSUME NEW d
  PROVE  Family({d}, SortOf(d.kind), {d.base[1]}, 1)
BY AtMostFew DEF Family

\* A condition on a family takes nothing to it.
LEMMA FamilyWhen ==
  ASSUME NEW D, NEW sort, NEW W, NEW n \in Nat, NEW condition, Family(D, sort, W, n)
  PROVE  Family(When(condition, D), sort, W, n)
BY AtMostWhen DEF Family, When

\* Families of two sorts are told apart.
LEMMA FamiliesKeyed ==
  ASSUME NEW D, NEW E, NEW sort, NEW other, NEW V, NEW W, NEW m \in Nat, NEW n \in Nat,
         Family(D, sort, V, m), Family(E, other, W, n), sort # other
  PROVE  Keyed(D \cup E) /\ AtMost(m + n, D \cup E)
<1>1. AtMost(m + n, D \cup E)
  BY AtMostUnion DEF Family
<1>2. Keyed(D \cup E)
  BY DEF Family, Keyed
<1>. QED
  BY <1>1, <1>2

\* One or two are no more than three.
LEMMA NoMoreThanThree ==
  /\ \A a : AtMost(3, {a})
  /\ \A a, b : AtMost(3, {a, b})
  /\ AtMost(3, {})
<1>1. \A S : AtMost(1, S) \/ AtMost(2, S) => AtMost(3, S)
  BY FS_CardinalityType DEF AtMost
<1>2. (\A a : AtMost(1, {a})) /\ (\A a, b : AtMost(2, {a, b}))
  BY AtMostFew
<1>. QED
  BY <1>1, <1>2, AtMostFew

-----------------------------------------------------------------------------
(* Stock scenes as the planner describes them.                              *)

\* A description is of a stock scene until the planner says otherwise.
LEMMA Drafted ==
  ASSUME NEW base, NEW shot, NEW f, NEW intents
  PROVE  Plain(Describe(base, shot, f, intents), base, f, intents, {})
<1> DEFINE d == Describe(base, shot, f, intents)
<1>1. /\ DOMAIN d = Fields /\ d.camera = "neutral" /\ d.context = "world" /\ d.hand = "right" /\ d.player = "steve"
      /\ d.fov = 70 /\ d.animation = <<"idle", 0>> /\ d.base = base /\ d.kind = "minecraft_vanilla"
      /\ d.fixture = f /\ d.presentation = NoValue /\ d.intents = intents /\ d.comparisons = {}
  BY DEF Describe, Fields
<1> HIDE DEF d
<1>2. 0 \in Ticks(MaxFrame)
  BY DEF Ticks, MaxFrame
<1>3. Filmed(d)
  BY <1>1, <1>2 DEF Filmed
<1>4. Plain(d, base, f, intents, {})
  BY <1>1, <1>3 DEF Plain, FirstPersonWorld
<1>. QED
  BY <1>4 DEF d

\* So it stays, compared with another, in low light, in another biome or in a slot.
LEMMA Redrafted ==
  ASSUME NEW d, NEW base, NEW f, NEW intents, NEW comparisons, Plain(d, base, f, intents, comparisons)
  PROVE  /\ \A other : Plain(Against(d, other), base, f, intents, {Vanilla(other)})
         /\ Plain([d EXCEPT !.low = TRUE], base, f, intents, comparisons)
         /\ Plain([d EXCEPT !.context = "inventory"], base, f, intents, comparisons)
         /\ \A biome : Plain([d EXCEPT !.biome = biome], base, f, intents, comparisons)
<1>1. ASSUME NEW other PROVE Plain(Against(d, other), base, f, intents, {Vanilla(other)})
  BY DEF Against, Plain, Fields, Filmed, FirstPersonWorld
<1>2. Plain([d EXCEPT !.low = TRUE], base, f, intents, comparisons)
  BY DEF Plain, Fields, Filmed, FirstPersonWorld
<1>3. Plain([d EXCEPT !.context = "inventory"], base, f, intents, comparisons)
  BY DEF Plain, Fields, Filmed, FirstPersonWorld
<1>4. ASSUME NEW biome PROVE Plain([d EXCEPT !.biome = biome], base, f, intents, comparisons)
  BY DEF Plain, Fields, Filmed, FirstPersonWorld
<1>. QED
  BY <1>1, <1>2, <1>3, <1>4

\* A measurement against one other frame, which an anchor shows if it is critical.
LEMMA ScoreAgainst ==
  ASSUME NEW base, NEW suffix, NEW metric, NEW critical, NEW other, NEW sources, NEW comparisons, NEW anchors, NEW ids,
         suffix \notin Boxed \cup {"foreground_control"}, other # Vanilla(base),
         \/ sources = {} /\ comparisons = {other}
         \/ sources = {Vanilla(base), other} /\ other \in comparisons,
         critical => metric \in ReadinessMetrics /\ other \in anchors /\ Vanilla(base) \notin ids
  PROVE  Score(Intent(base, suffix, metric, sources, critical), base, comparisons, anchors, ids)
      /\ Intent(base, suffix, metric, sources, critical).id = <<base, suffix>>
<1> DEFINE i == Intent(base, suffix, metric, sources, critical)
<1>1. /\ i.id = <<base, suffix>> /\ i.metric = metric /\ i.sources = sources /\ i.critical = critical
      /\ i.calibrated = (metric \in Calibrated)
  BY DEF Intent
<1> HIDE DEF i
<1>2. metric \in ReadinessMetrics => i.calibrated
  BY <1>1, Zenon DEF Calibrated
<1>3. i.id = <<base, i.id[2]>> /\ i.id[2] = suffix
  BY <1>1
<1>4. critical => i.calibrated
  BY <1>2
<1>5. i.critical <=> critical
  BY <1>1, Zenon
<1>6. i.sources # {} => Vanilla(base) \in i.sources /\ i.sources \subseteq {Vanilla(base)} \cup comparisons
  BY <1>1
<1>7. i.critical => IF i.sources = {} THEN comparisons = {other} ELSE i.sources = {Vanilla(base), other}
  BY <1>1
<1>8. i.critical => /\ Vanilla(base) \notin ids /\ i.calibrated /\ i.metric \in ReadinessMetrics
                   /\ \E o \in anchors :
                        o # Vanilla(base) /\ IF i.sources = {} THEN comparisons = {o} ELSE i.sources = {Vanilla(base), o}
  BY <1>1, <1>4, <1>5, <1>7, Zenon
<1>9. Score(i, base, comparisons, anchors, ids)
  BY <1>3, <1>6, <1>8 DEF Score
<1>. QED
  BY <1>1, <1>9 DEF i

\* Advisory measurements are of their scene.
LEMMA Advised ==
  ASSUME NEW base, NEW metrics, NEW comparisons, NEW anchors, NEW ids,
         AtMost(3, metrics), metrics \cap (Boxed \cup {"foreground_control"}) = {}
  PROVE  Scored(base, {Advisory(base, metric) : metric \in metrics}, comparisons, anchors, ids)
<1> DEFINE f == [metric \in metrics |-> Advisory(base, metric)]
           intents == {Advisory(base, metric) : metric \in metrics}
<1>1. intents = {f[metric] : metric \in metrics}
  OBVIOUS
<1>2. \A metric : /\ Advisory(base, metric).id = <<base, metric>> /\ Advisory(base, metric).sources = {}
                  /\ Advisory(base, metric).critical = FALSE
  BY DEF Advisory, Intent
<1>3. AtMost(3, intents)
  <2> HIDE DEF f, intents
  <2>. QED
    BY <1>1, AtMostImage
<1> HIDE DEF f
<1>4. \A i \in intents : \E metric \in metrics : i = Advisory(base, metric)
  OBVIOUS
<1> HIDE DEF intents
<1>5. ASSUME NEW a \in intents, NEW b \in intents, a.id = b.id PROVE a = b
  <2>1. PICK m \in metrics : a = Advisory(base, m)
    BY <1>4
  <2>2. PICK k \in metrics : b = Advisory(base, k)
    BY <1>4
  <2>3. <<base, m>> = <<base, k>>
    BY <1>2, <1>5, <2>1, <2>2
  <2>4. m = k
    BY <2>3
  <2>. QED
    BY <2>1, <2>2, <2>4
<1>6. ASSUME NEW i \in intents PROVE Score(i, base, comparisons, anchors, ids)
  <2>1. i.id = <<base, i.id[2]>> /\ i.id[2] \notin Boxed \cup {"foreground_control"} /\ i.sources = {} /\ i.critical = FALSE
    BY <1>2, <1>4
  <2>. QED
    BY <2>1 DEF Score
<1>7. Scored(base, intents, comparisons, anchors, ids)
  BY <1>3, <1>5, <1>6 DEF Scored
<1>. QED
  BY <1>7 DEF intents

\* One measurement, or one and an advisory one.
LEMMA AdvisedOne ==
  ASSUME NEW base, NEW metric, NEW comparisons, NEW anchors, NEW ids,
         metric \notin Boxed \cup {"foreground_control"}
  PROVE  Scored(base, {Advisory(base, metric)}, comparisons, anchors, ids)
<1>1. {Advisory(base, m) : m \in {metric}} = {Advisory(base, metric)}
  OBVIOUS
<1>2. AtMost(3, {metric})
  BY NoMoreThanThree
<1>. QED
  BY <1>1, <1>2, Advised

\* A stock scene of a fixture that is put up is ready for the plan.
LEMMA PlainReady ==
  ASSUME NEW r, NEW d, NEW base, NEW f, NEW intents, NEW comparisons, NEW anchors, NEW ids,
         Plain(d, base, f, intents, comparisons), PutUp(r, f), Upright(r, f), NoValue # "reference_arm",
         Scored(base, intents, comparisons, anchors, ids),
         AtMost(3, comparisons), Vanilla(base) \notin comparisons,
         \A id \in comparisons : id \in anchors \/ \E e \in ids : id = Control(e.base)
  PROVE  Ready(r, d, anchors, ids)
<1>1. /\ DOMAIN d = Fields /\ Filmed(d) /\ d.base = base /\ d.kind = "minecraft_vanilla" /\ d.fixture = f
      /\ d.presentation = NoValue /\ d.intents = intents /\ d.comparisons = comparisons /\ ~FirstPersonWorld(d)
  BY DEF Plain
<1>2. IdOf(d) = Vanilla(base)
  BY <1>1 DEF IdOf, Vanilla
<1>3. Viewed(r, d)
  <2>1. (d.kind = "world_scale_reference") = (r.target = "entity" /\ "scale" \in DOMAIN f /\ f.scale)
    BY <1>1 DEF Upright
  <2>. QED
    BY <1>1, <2>1 DEF Viewed, Upright
<1>4. Drawn(r, d)
  BY <1>1, <1>2, <1>3 DEF Drawn, Scored
<1>5. ASSUME NEW i \in intents PROVE Measurable(d, i, anchors, ids)
  <2>1. Score(i, base, comparisons, anchors, ids)
    BY DEF Scored
  <2>2. {Vanilla(base)} \cup comparisons \subseteq Own(d, ids)
    BY <1>1, <1>2 DEF Own
  <2>. QED
    BY <1>1, <1>2, <2>1, <2>2 DEF Measurable, Score, SupplementalKinds
<1>6. Linked(d, anchors, ids)
  BY <1>1, <1>5 DEF Linked
<1>. QED
  BY <1>4, <1>6 DEF Ready

\* So is one that is compared with nothing, or with one anchor.
LEMMA AloneReady ==
  ASSUME NEW r, NEW d, NEW base, NEW f, NEW intents, NEW anchors, NEW ids,
         Plain(d, base, f, intents, {}), PutUp(r, f), Upright(r, f), NoValue # "reference_arm",
         Scored(base, intents, {}, anchors, ids)
  PROVE  Ready(r, d, anchors, ids)
<1>1. AtMost(3, {})
  BY NoMoreThanThree
<1>. QED
  BY <1>1, PlainReady

\* A stock scene that is compared with an anchor is ready if its measurements are.
LEMMA AgainstReady ==
  ASSUME NEW r, NEW d, NEW base, NEW f, NEW intents, NEW other, NEW anchors, NEW ids,
         Plain(d, base, f, intents, {Vanilla(other)}), PutUp(r, f), Upright(r, f), NoValue # "reference_arm",
         Scored(base, intents, {Vanilla(other)}, anchors, ids),
         Vanilla(other) \in anchors, other # base
  PROVE  Ready(r, d, anchors, ids)
<1>1. AtMost(3, {Vanilla(other)})
  BY NoMoreThanThree
<1>2. Vanilla(base) \notin {Vanilla(other)}
  BY DEF Vanilla
<1>3. \A id \in {Vanilla(other)} : id \in anchors
  OBVIOUS
<1>. QED
  BY <1>1, <1>2, <1>3, PlainReady

\* Such scenes are no more than the things they are named after.
LEMMA FamilyNamed ==
  ASSUME NEW D, NEW X, NEW f, NEW word, NEW n \in Nat, AtMost(n, X), NamedAfter(D, X, f, word)
  PROVE  Family(D, "stock", {word}, n)
<1>0. /\ \A d \in D : \E x \in X : d = f[x]
      /\ \A x \in X : f[x].kind = "minecraft_vanilla" /\ f[x].base = <<word, x>>
  BY DEF NamedAfter
<1>1. \A d \in D : SortOf(d.kind) = "stock" /\ d.base[1] = word
  BY <1>0 DEF SortOf
<1>2. ASSUME NEW d \in D, NEW e \in D, d.base = e.base PROVE d = e
  <2>1. PICK x \in X : d = f[x]
    BY <1>0
  <2>2. PICK y \in X : e = f[y]
    BY <1>0
  <2>3. <<word, x>> = <<word, y>>
    BY <1>0, <1>2, <2>1, <2>2
  <2>. QED
    BY <2>1, <2>2, <2>3
<1>3. AtMost(n, {f[x] : x \in X})
  BY AtMostImage
<1>4. D \subseteq {f[x] : x \in X}
  BY <1>0
<1>5. AtMost(n, D)
  BY <1>3, <1>4, AtMostPart
<1>. QED
  BY <1>1, <1>2, <1>5 DEF Family

\* One stock scene is a family.
LEMMA FamilyStock ==
  ASSUME NEW d, NEW base, NEW f, NEW intents, NEW comparisons, Plain(d, base, f, intents, comparisons)
  PROVE  Family({d}, "stock", {base[1]}, 1)
<1>1. SortOf(d.kind) = "stock" /\ d.base[1] = base[1]
  BY DEF Plain, SortOf
<1>. QED
  BY <1>1, FamilyOne

\* A representation has its first state and at most thirty-one others.
LEMMA StatesFew ==
  ASSUME NEW r, r.states \in Seq(Range(r.states)), Len(r.states) \in 1..32
  PROVE  FirstState(r) \in Declared(r) /\ AtMost(31, Declared(r) \ {FirstState(r)})
<1> DEFINE n == Len(r.states)
           others == [i \in 2..n |-> r.states[i].id]
<1>1. DOMAIN r.states = 1..n /\ n \in 1..32
  OBVIOUS
<1>2. FirstState(r) \in Declared(r)
  BY <1>1 DEF FirstState, Declared
<1>3. Declared(r) \ {FirstState(r)} \subseteq {others[i] : i \in 2..n}
  <2> SUFFICES ASSUME NEW i \in 1..n, r.states[i].id # r.states[1].id
               PROVE  \E k \in 2..n : r.states[i].id = others[k]
    BY <1>1 DEF FirstState, Declared
  <2>1. i \in 2..n
    BY <1>1
  <2>. QED
    BY <2>1
<1>4. AtMost(31, 2..n)
  <2> HIDE DEF n, others
  <2>0. n \in Int /\ 2 \in Int
    BY <1>1
  <2>1. IsFiniteSet(2..n) /\ Cardinality(2..n) = IF 2 > n THEN 0 ELSE n - 2 + 1
    BY <2>0, FS_Interval, Zenon
  <2>. QED
    BY <1>1, <2>1 DEF AtMost
<1> HIDE DEF n, others
<1>5. AtMost(31, {others[i] : i \in 2..n})
  <2>1. 31 \in Nat
    OBVIOUS
  <2> DEFINE S == 2..n
  <2>2. AtMost(31, S)
    BY <1>4
  <2> HIDE DEF S
  <2>3. AtMost(31, {others[i] : i \in S})
    BY <2>1, <2>2, AtMostImage
  <2>. QED
    BY <2>3 DEF S
<1>. QED
  BY <1>2, <1>3, <1>5, AtMostPart

-----------------------------------------------------------------------------
(* Groups of descriptions that are ready for the plan.                      *)

\* Groups of other words are one group.
LEMMA GroupUnion ==
  ASSUME NEW r, NEW anchors, NEW ids, NEW D, NEW E, NEW sort, NEW V, NEW W, NEW m \in Nat, NEW n \in Nat,
         Group(r, D, sort, V, m, anchors, ids), Group(r, E, sort, W, n, anchors, ids), V \cap W = {}
  PROVE  Group(r, D \cup E, sort, V \cup W, m + n, anchors, ids)
<1>1. Family(D \cup E, sort, V \cup W, m + n)
  BY FamilyUnion DEF Group
<1>. QED
  BY <1>1 DEF Group

\* A group that is there on a condition is a group.
LEMMA GroupWhen ==
  ASSUME NEW r, NEW anchors, NEW ids, NEW D, NEW sort, NEW W, NEW n \in Nat, NEW condition,
         condition => Group(r, D, sort, W, n, anchors, ids)
  PROVE  Group(r, When(condition, D), sort, W, n, anchors, ids)
<1>1. CASE condition
  BY <1>1 DEF When
<1>2. CASE ~condition
  BY <1>2, AtMostFew DEF When, Group, Family
<1>. QED
  BY <1>1, <1>2

\* A ready description is a group of its own.
LEMMA GroupOne ==
  ASSUME NEW r, NEW anchors, NEW ids, NEW d, Ready(r, d, anchors, ids)
  PROVE  Group(r, {d}, SortOf(d.kind), {d.base[1]}, 1, anchors, ids)
BY FamilyOne DEF Group

\* Ready scenes that are named after what they show are a group.
LEMMA GroupNamed ==
  ASSUME NEW r, NEW anchors, NEW ids, NEW D, NEW X, NEW f, NEW word, NEW n \in Nat, AtMost(n, X),
         \A d \in D : \E x \in X : d = f[x],
         \A x \in X : f[x].kind = "minecraft_vanilla" /\ f[x].base = <<word, x>>,
         \A x \in X : Ready(r, f[x], anchors, ids)
  PROVE  Group(r, D, "stock", {word}, n, anchors, ids)
<1>1. Family(D, "stock", {word}, n)
  <2>1. NamedAfter(D, X, f, word)
    BY DEF NamedAfter
  <2>. QED
    BY <2>1, FamilyNamed
<1>. QED
  BY <1>1 DEF Group

\* Groups of at most 64 scenes, with twins for the aids, make a plan.
LEMMA GroupsLaid ==
  ASSUME NEW q, NEW r, NEW anchors, NEW ids, NEW D, NEW E, NEW sort, NEW V, NEW W,
         NEW m \in Nat, NEW n \in Nat, NEW k \in Nat,
         Group(r, D, "stock", V, m, anchors, ids), Group(r, E, sort, W, n, anchors, ids), sort # "stock",
         D # {}, Supported(D \cup E, anchors, ids),
         \A e \in E : \E d \in D : Twin(e, d),
         AtMost(k, ids), m + n + k <= 64,
         ids # {} => r.target \in {"block", "headwear", "entity", "placeable"},
         r.strategy \in DisplayKinds => anchors # {},
         Lowers(q, r, D \cup E, ids), Optional(q, D \cup E)
  PROVE  Plannable(q, r)
<1>1. Keyed(D \cup E) /\ AtMost(m + n, D \cup E)
  BY FamiliesKeyed DEF Group
<1>2. \A d \in D \cup E : Drawn(r, d) /\ Linked(d, anchors, ids)
  BY DEF Group, Ready
<1>3. ASSUME NEW d \in D \cup E, d.kind \in {"first_person_scale_reference", "debug_hitbox_reference"}
      PROVE  \E e \in D \cup E : Twin(d, e)
  <2>1. d \notin D
    BY <1>3 DEF Group, Family, SortOf
  <2>. QED
    BY <1>3, <2>1
<1>4. Laid(r, D \cup E, anchors, ids)
  BY <1>1, <1>2, <1>3 DEF Laid
<1>. QED
  BY <1>1, <1>4 DEF Plannable

\* Without aids that are twins of others.
LEMMA GroupLaid ==
  ASSUME NEW q, NEW r, NEW anchors, NEW ids, NEW D, NEW V, NEW m \in Nat, NEW k \in Nat,
         Group(r, D, "stock", V, m, anchors, ids), D # {}, Supported(D, anchors, ids), AtMost(k, ids), m + k <= 64,
         ids # {} => r.target \in {"block", "headwear", "entity", "placeable"},
         r.strategy \in DisplayKinds => anchors # {}, Lowers(q, r, D, ids), ~q.scaleViews
  PROVE  Plannable(q, r)
<1>1. Keyed(D) /\ AtMost(m, D)
  BY DEF Group, Family, Keyed
<1>2. \A d \in D : Drawn(r, d) /\ Linked(d, anchors, ids)
  BY DEF Group, Ready
<1>3. \A d \in D : d.kind \notin {"first_person_scale_reference", "debug_hitbox_reference"}
  BY DEF Group, Family, SortOf
<1>4. Laid(r, D, anchors, ids)
  BY <1>1, <1>2, <1>3 DEF Laid
<1>5. Optional(q, D)
  BY <1>3 DEF Optional
<1>. QED
  BY <1>1, <1>4, <1>5 DEF Plannable

-----------------------------------------------------------------------------
(* Blocks.                                                                  *)

\* A block fixture of a declared state has the shape the protocol asks for.
LEMMA BlockPutUp ==
  ASSUME NEW r, BlockGiven(r), NEW state \in Declared(r), NEW layout, NEW backdrop, NEW copies,
         layout \in {"single", "adjacency", "culling", "inventory",
                     "transparency_light", "transparency_dark", "transparency_overlap"},
         <<backdrop, copies>> =
           CASE layout = "transparency_light" -> <<"light", 1>>
             [] layout = "transparency_dark" -> <<"dark", 1>>
             [] layout = "transparency_overlap" -> <<"light", 2>>
             [] OTHER -> <<"studio", 1>>
  PROVE  PutUp(r, BlockFixture(r, layout, backdrop, copies, state))
      /\ Upright(r, BlockFixture(r, layout, backdrop, copies, state))
<1> DEFINE f == BlockFixture(r, layout, backdrop, copies, state)
<1>1. /\ DOMAIN f = {"kind", "target", "layout", "backdrop", "copies", "state", "tick"}
      /\ f.kind = r.strategy /\ f.target = "block" /\ f.layout = layout /\ f.backdrop = backdrop
      /\ f.copies = copies /\ f.state = state /\ f.tick = 0
  BY DEF BlockFixture
<1> HIDE DEF f
<1>2. backdrop \in {"studio", "light", "dark"} /\ copies \in {1, 2}
  OBVIOUS
<1>3. 0 \in Ticks(MaxFrame)
  BY DEF Ticks, MaxFrame
<1>4. ShapeOf(f) = BlockShape
  BY <1>1 DEF BlockGiven, ShapeOf
<1>5. /\ DOMAIN BlockShape = {"layout", "backdrop", "copies", "tick"}
      /\ f.layout \in BlockShape.layout /\ f.backdrop \in BlockShape.backdrop
      /\ f.copies \in BlockShape.copies /\ f.tick \in BlockShape.tick
  BY <1>1, <1>2, <1>3 DEF BlockShape
<1>6. FixtureShaped(f)
  BY <1>1, <1>4, <1>5 DEF FixtureShaped, BlockGiven
<1>7. Arranged(f)
  BY <1>1 DEF Arranged
<1>8. PutUp(r, f) /\ Upright(r, f)
  BY <1>1, <1>6, <1>7 DEF PutUp, Upright, BlockGiven
<1>. QED
  BY <1>8 DEF f

\* So has a block in the studio.
LEMMA StudioPutUp ==
  ASSUME NEW r, BlockGiven(r), NEW layout \in {"single", "adjacency", "culling", "inventory"}
  PROVE  PutUp(r, Studio(r, layout)) /\ Upright(r, Studio(r, layout))
<1>1. /\ PutUp(r, BlockFixture(r, layout, "studio", 1, FirstState(r)))
      /\ Upright(r, BlockFixture(r, layout, "studio", 1, FirstState(r)))
  BY BlockPutUp DEF BlockGiven
<1>. QED
  BY <1>1 DEF Studio

\* A scene with advisory measurements only, and one that is compared with an anchor.
LEMMA BlockAlone ==
  ASSUME NEW r, NoValue # "reference_arm", NEW d, NEW base, NEW f, NEW metrics, AtMost(3, metrics),
         metrics \cap (Boxed \cup {"foreground_control"}) = {},
         Plain(d, base, f, {Advisory(base, metric) : metric \in metrics}, {}), PutUp(r, f), Upright(r, f)
  PROVE  Ready(r, d, BlockAnchors(r), BlockIds)
<1> DEFINE intents == {Advisory(base, metric) : metric \in metrics}
           anchors == BlockAnchors(r)
<1>1. Scored(base, intents, {}, anchors, BlockIds)
  BY Advised
<1> HIDE DEF intents, anchors
<1>2. Ready(r, d, anchors, BlockIds)
  BY <1>1, AloneReady DEF intents
<1>. QED
  BY <1>2 DEF anchors

\* In daylight, in low light, and as an item.
LEMMA BlockLights ==
  ASSUME NEW r, BlockGiven(r), NoValue # "reference_arm"
  PROVE  LET hero == Describe(Hero, <<"quarter">>, Studio(r, "single"), Framed(Hero))
             day == Describe(<<"block_light_day">>, <<"front">>, Studio(r, "single"), {})
             low == [Against(Describe(<<"block_light_low">>, <<"front">>, Studio(r, "single"),
                              {Critical(<<"block_light_low">>, "pairwise_pixel_delta"),
                               Critical(<<"block_light_low">>, "lighting_separation")}), <<"block_light_day">>)
                       EXCEPT !.low = TRUE]
             slot == [Describe(<<"block", "inventory">>, <<"front">>, Studio(r, "inventory"),
                               Framed(<<"block", "inventory">>)) EXCEPT !.context = "inventory"]
         IN  /\ BlockGroup(r, {hero}, {"block_hero"}, 1) /\ BlockGroup(r, {day}, {"block_light_day"}, 1)
             /\ BlockGroup(r, {low}, {"block_light_low"}, 1) /\ BlockGroup(r, {slot}, {"block"}, 1)
             /\ IdOf(hero) = Vanilla(Hero) /\ IdOf(day) = Vanilla(<<"block_light_day">>)
             /\ slot.base = <<"block", "inventory">>
<1> DEFINE dim == Against(Describe(<<"block_light_low">>, <<"front">>, Studio(r, "single"),
                              {Critical(<<"block_light_low">>, "pairwise_pixel_delta"),
                               Critical(<<"block_light_low">>, "lighting_separation")}), <<"block_light_day">>)
           hero == Describe(Hero, <<"quarter">>, Studio(r, "single"), Framed(Hero))
           day == Describe(<<"block_light_day">>, <<"front">>, Studio(r, "single"), {})
           low == [dim EXCEPT !.low = TRUE]
           item == Describe(<<"block", "inventory">>, <<"front">>, Studio(r, "inventory"),
                            Framed(<<"block", "inventory">>))
           slot == [item EXCEPT !.context = "inventory"]
           single == Studio(r, "single")
           cell == Studio(r, "inventory")
           framed == {"frame_retention"}
           Of(base, metrics) == {Advisory(base, metric) : metric \in metrics}
           darker == {Critical(<<"block_light_low">>, "pairwise_pixel_delta"),
                      Critical(<<"block_light_low">>, "lighting_separation")}
<1>1. /\ PutUp(r, single) /\ Upright(r, single) /\ PutUp(r, cell) /\ Upright(r, cell)
  BY StudioPutUp
<1>2. /\ Plain(hero, Hero, single, Of(Hero, framed), {}) /\ Plain(day, <<"block_light_day">>, single, Of(<<"block_light_day">>, {}), {})
      /\ Plain(slot, <<"block", "inventory">>, cell, Of(<<"block", "inventory">>, framed), {})
      /\ Plain(low, <<"block_light_low">>, single, darker, {Vanilla(<<"block_light_day">>)})
  <2>1. /\ Framed(Hero) = Of(Hero, framed) /\ Framed(<<"block", "inventory">>) = Of(<<"block", "inventory">>, framed)
        /\ {} = Of(<<"block_light_day">>, {})
    BY DEF Framed
  <2>2. Plain(hero, Hero, single, Of(Hero, framed), {})
    BY <2>1, Drafted
  <2>3. Plain(day, <<"block_light_day">>, single, Of(<<"block_light_day">>, {}), {})
    BY <2>1, Drafted
  <2>4. Plain(item, <<"block", "inventory">>, cell, Of(<<"block", "inventory">>, framed), {})
    BY <2>1, Drafted
  <2>5. Plain(dim, <<"block_light_low">>, single, darker, {Vanilla(<<"block_light_day">>)})
    BY Drafted, Redrafted
  <2> HIDE DEF item, dim, single, cell, Of, darker
  <2>. QED
    BY <2>2, <2>3, <2>4, <2>5, Redrafted
<1>3. AtMost(3, framed) /\ AtMost(3, {}) /\ framed \cap (Boxed \cup {"foreground_control"}) = {}
  BY NoMoreThanThree DEF Boxed
<1> HIDE DEF dim, hero, day, low, item, slot, single, cell, framed
<1>4. /\ Ready(r, hero, BlockAnchors(r), BlockIds) /\ Ready(r, day, BlockAnchors(r), BlockIds)
      /\ Ready(r, slot, BlockAnchors(r), BlockIds)
  BY <1>1, <1>2, <1>3, BlockAlone
<1>5. Scored(<<"block_light_low">>, darker, {Vanilla(<<"block_light_day">>)}, BlockAnchors(r), BlockIds)
  <2> DEFINE base == <<"block_light_low">>
             other == Vanilla(<<"block_light_day">>)
  <2>1. Vanilla(base) \notin BlockIds /\ other # Vanilla(base) /\ other \in BlockAnchors(r)
    BY DEF BlockIds, BlockAnchors, Vanilla, Hero
  <2>2. ASSUME NEW metric \in {"pairwise_pixel_delta", "lighting_separation"}
        PROVE  Score(Critical(base, metric), base, {other}, BlockAnchors(r), BlockIds) /\ Critical(base, metric).id = <<base, metric>>
    <3>1. metric \notin Boxed \cup {"foreground_control"} /\ metric \in ReadinessMetrics
      BY DEF Boxed, ReadinessMetrics
    <3> HIDE DEF base, other
    <3>. QED
      BY <2>1, <3>1, ScoreAgainst DEF Critical
  <2>3. AtMost(3, darker)
    BY NoMoreThanThree
  <2>4. \A i \in darker : \E metric \in {"pairwise_pixel_delta", "lighting_separation"} : i = Critical(base, metric)
    OBVIOUS
  <2> HIDE DEF darker, base, other
  <2>5. \A a, b \in darker : a.id = b.id => a = b
    BY <2>2, <2>4
  <2>6. Scored(base, darker, {other}, BlockAnchors(r), BlockIds)
    BY <2>2, <2>3, <2>4, <2>5 DEF Scored
  <2>. QED
    BY <2>6 DEF base, other
<1>6. Ready(r, low, BlockAnchors(r), BlockIds)
  <2>1. Vanilla(<<"block_light_day">>) \in BlockAnchors(r)
    BY DEF BlockAnchors
  <2> HIDE DEF darker
  <2>. QED
    BY <1>1, <1>2, <1>5, <2>1, AgainstReady
<1>7. /\ Family({hero}, "stock", {Hero[1]}, 1) /\ Family({day}, "stock", {<<"block_light_day">>[1]}, 1)
      /\ Family({low}, "stock", {<<"block_light_low">>[1]}, 1) /\ Family({slot}, "stock", {<<"block", "inventory">>[1]}, 1)
  BY <1>2, FamilyStock
<1>8. IdOf(hero) = Vanilla(Hero) /\ IdOf(day) = Vanilla(<<"block_light_day">>) /\ slot.base = <<"block", "inventory">>
  BY <1>2 DEF Plain, IdOf, Vanilla
<1>9. /\ BlockGroup(r, {hero}, {"block_hero"}, 1) /\ BlockGroup(r, {day}, {"block_light_day"}, 1)
      /\ BlockGroup(r, {low}, {"block_light_low"}, 1) /\ BlockGroup(r, {slot}, {"block"}, 1)
  <2>1. Hero[1] = "block_hero" /\ <<"block_light_day">>[1] = "block_light_day"
        /\ <<"block_light_low">>[1] = "block_light_low" /\ <<"block", "inventory">>[1] = "block"
    BY DEF Hero
  <2>. QED
    BY <1>4, <1>6, <1>7, <2>1 DEF BlockGroup, Group
<1>. QED
  BY <1>8, <1>9 DEF hero, day, low, slot, dim, item

\* A few things are listed.
LEMMA AtMostSix ==
  /\ AtMost(6, {"north", "south", "east", "west", "up", "down"}) /\ AtMost(2, {"adjacency", "culling"})
<1>1. AtMost(3, {"north", "south", "east"}) /\ AtMost(3, {"west", "up", "down"})
  BY AtMostFew
<1>2. {"north", "south", "east", "west", "up", "down"} = {"north", "south", "east"} \cup {"west", "up", "down"}
  OBVIOUS
<1>3. AtMost(6, {"north", "south", "east"} \cup {"west", "up", "down"})
  <2> DEFINE S == {"north", "south", "east"}
             T == {"west", "up", "down"}
  <2>1. AtMost(3, S) /\ AtMost(3, T) /\ 3 \in Nat
    BY <1>1
  <2> HIDE DEF S, T
  <2>2. AtMost(3 + 3, S \cup T)
    BY <2>1, AtMostUnion
  <2>3. AtMost(6, S \cup T)
    BY <2>2
  <2>. QED
    BY <2>3 DEF S, T
<1>. QED
  BY <1>2, <1>3, AtMostFew

\* The faces of a block.
LEMMA BlockFaces ==
  ASSUME NEW r, BlockGiven(r), NoValue # "reference_arm"
  PROVE  BlockGroup(r, {Describe(<<"block_face", face>>, <<face>>, Studio(r, "single"),
                                 {Advisory(<<"block_face", face>>, metric) :
                                    metric \in {"frame_retention", "visible_faces"}}) :
                          face \in {"north", "south", "east", "west", "up", "down"}}, {"block_face"}, 6)
<1> DEFINE faces == {"north", "south", "east", "west", "up", "down"}
           metrics == {"frame_retention", "visible_faces"}
           Of(base) == {Advisory(base, metric) : metric \in metrics}
           f == [face \in faces |->
                   Describe(<<"block_face", face>>, <<face>>, Studio(r, "single"), Of(<<"block_face", face>>))]
<1>1. PutUp(r, Studio(r, "single")) /\ Upright(r, Studio(r, "single"))
  BY StudioPutUp
<1>2. \A face \in faces : Plain(f[face], <<"block_face", face>>, Studio(r, "single"), Of(<<"block_face", face>>), {})
  BY Drafted
<1>3. AtMost(3, metrics) /\ metrics \cap (Boxed \cup {"foreground_control"}) = {}
  BY NoMoreThanThree DEF Boxed
<1>4. {Describe(<<"block_face", face>>, <<face>>, Studio(r, "single"), Of(<<"block_face", face>>)) : face \in faces}
        = {f[face] : face \in faces}
  OBVIOUS
<1>5. AtMost(6, faces)
  BY AtMostSix
<1> HIDE DEF faces, metrics, f
<1>6. \A face \in faces : Ready(r, f[face], BlockAnchors(r), BlockIds)
  BY <1>1, <1>2, <1>3, BlockAlone
<1>7. \A face \in faces : f[face].kind = "minecraft_vanilla" /\ f[face].base = <<"block_face", face>>
  BY <1>2 DEF Plain
<1>8. Group(r, {f[face] : face \in faces}, "stock", {"block_face"}, 6, BlockAnchors(r), BlockIds)
  <2>1. 6 \in Nat
    OBVIOUS
  <2>. QED
    BY <1>5, <1>6, <1>7, <2>1, GroupNamed
<1>9. BlockGroup(r, {Describe(<<"block_face", face>>, <<face>>, Studio(r, "single"), Of(<<"block_face", face>>)) :
                       face \in faces}, {"block_face"}, 6)
  BY <1>4, <1>8 DEF BlockGroup
<1>. QED
  BY <1>9 DEF faces, metrics

\* Beside other blocks.
LEMMA BlockLayouts ==
  ASSUME NEW r, BlockGiven(r), NoValue # "reference_arm"
  PROVE  LET layouts == {Describe(<<"block", layout>>, <<"quarter">>, Studio(r, layout),
                           {Advisory(<<"block", layout>>, IF layout = "culling" THEN "unexpected_culling"
                                                          ELSE "adjacency_seam")}) :
                           layout \in {"adjacency", "culling"}}
         IN  /\ BlockGroup(r, layouts, {"block"}, 2)
             /\ \A d \in layouts : d.base \in {<<"block", "adjacency">>, <<"block", "culling">>}
<1> DEFINE names == {"adjacency", "culling"}
           Metric(layout) == IF layout = "culling" THEN "unexpected_culling" ELSE "adjacency_seam"
           Of(base, metrics) == {Advisory(base, metric) : metric \in metrics}
           f == [layout \in names |->
                   Describe(<<"block", layout>>, <<"quarter">>, Studio(r, layout),
                            {Advisory(<<"block", layout>>, Metric(layout))})]
           layouts == {Describe(<<"block", layout>>, <<"quarter">>, Studio(r, layout),
                                {Advisory(<<"block", layout>>, Metric(layout))}) : layout \in names}
<1>1. \A layout \in names : PutUp(r, Studio(r, layout)) /\ Upright(r, Studio(r, layout))
  BY StudioPutUp
<1>2. \A layout \in names :
        Plain(f[layout], <<"block", layout>>, Studio(r, layout), Of(<<"block", layout>>, {Metric(layout)}), {})
  <2>1. \A base, metric : {Advisory(base, metric)} = Of(base, {metric})
    OBVIOUS
  <2> SUFFICES ASSUME NEW layout \in names
               PROVE  Plain(f[layout], <<"block", layout>>, Studio(r, layout), Of(<<"block", layout>>, {Metric(layout)}), {})
    OBVIOUS
  <2>2. f[layout] = Describe(<<"block", layout>>, <<"quarter">>, Studio(r, layout), Of(<<"block", layout>>, {Metric(layout)}))
    BY <2>1
  <2> HIDE DEF f, Of, Metric, names
  <2>. QED
    BY <2>2, Drafted
<1>3. \A layout : AtMost(3, {Metric(layout)}) /\ {Metric(layout)} \cap (Boxed \cup {"foreground_control"}) = {}
  BY NoMoreThanThree DEF Boxed
<1>4. layouts = {f[layout] : layout \in names}
  OBVIOUS
<1>5. AtMost(2, names)
  BY AtMostSix
<1>0. \A layout \in names : layout \in {"adjacency", "culling"}
  OBVIOUS
<1> HIDE DEF names, f, Metric, layouts
<1>6. \A layout \in names : Ready(r, f[layout], BlockAnchors(r), BlockIds)
  BY <1>1, <1>2, <1>3, BlockAlone
<1>7. \A layout \in names : f[layout].kind = "minecraft_vanilla" /\ f[layout].base = <<"block", layout>>
  BY <1>2 DEF Plain
<1>8. Group(r, {f[layout] : layout \in names}, "stock", {"block"}, 2, BlockAnchors(r), BlockIds)
  <2>1. 2 \in Nat
    OBVIOUS
  <2>. QED
    BY <1>5, <1>6, <1>7, <2>1, GroupNamed
<1>9. BlockGroup(r, layouts, {"block"}, 2) /\ \A d \in layouts : d.base \in {<<"block", "adjacency">>, <<"block", "culling">>}
  <2>1. \A d \in layouts : d.base \in {<<"block", "adjacency">>, <<"block", "culling">>}
    BY <1>0, <1>4, <1>7
  <2>. QED
    BY <1>4, <1>8, <2>1 DEF BlockGroup
<1>. QED
  BY <1>9 DEF names, layouts, Metric

\* Through something light, something dark and itself.
LEMMA BlockTransparency ==
  ASSUME NEW r, BlockGiven(r), NoValue # "reference_arm", r.review.transparency
  PROVE  BlockGroup(r, TransparencyScenes(r), {"block_transparency"}, 3)
      /\ \E d \in TransparencyScenes(r) : IdOf(d) = Vanilla(<<"block_transparency", "light">>)
<1> DEFINE base(name) == <<"block_transparency", name>>
           light == base("light")
           anchors == BlockAnchors(r)
           Fix(layout, backdrop, copies) == BlockFixture(r, layout, backdrop, copies, FirstState(r))
           Through(name, layout, backdrop, copies) ==
             Describe(base(name), <<"front">>, Fix(layout, backdrop, copies),
                      {Advisory(base(name), "alpha_order_artifacts")})
           one == Through("light", "transparency_light", "light", 1)
           two == Against(Through("dark", "transparency_dark", "dark", 1), light)
           three == Against(Through("overlap", "transparency_overlap", "light", 2), light)
<1>1. TransparencyScenes(r) = {one, two, three}
  BY DEF TransparencyScenes
<1>2. /\ PutUp(r, Fix("transparency_light", "light", 1)) /\ Upright(r, Fix("transparency_light", "light", 1))
      /\ PutUp(r, Fix("transparency_dark", "dark", 1)) /\ Upright(r, Fix("transparency_dark", "dark", 1))
      /\ PutUp(r, Fix("transparency_overlap", "light", 2)) /\ Upright(r, Fix("transparency_overlap", "light", 2))
  <2>1. FirstState(r) \in Declared(r)
    BY DEF BlockGiven
  <2>. QED
    BY <2>1, BlockPutUp
<1>3. \A name, layout, backdrop, copies :
        Plain(Through(name, layout, backdrop, copies), base(name), Fix(layout, backdrop, copies),
              {Advisory(base(name), "alpha_order_artifacts")}, {})
  BY Drafted
<1> HIDE DEF Through, Fix
<1>4. /\ Plain(one, base("light"), Fix("transparency_light", "light", 1), {Advisory(base("light"), "alpha_order_artifacts")}, {})
      /\ Plain(two, base("dark"), Fix("transparency_dark", "dark", 1), {Advisory(base("dark"), "alpha_order_artifacts")}, {Vanilla(light)})
      /\ Plain(three, base("overlap"), Fix("transparency_overlap", "light", 2),
               {Advisory(base("overlap"), "alpha_order_artifacts")}, {Vanilla(light)})
  BY <1>3, Redrafted
<1>5. \A b, comparisons : Scored(b, {Advisory(b, "alpha_order_artifacts")}, comparisons, anchors, BlockIds)
  BY AdvisedOne DEF Boxed
<1>6. Vanilla(light) \in anchors /\ base("dark") # light /\ base("overlap") # light
  BY DEF BlockAnchors, When
<1>. HIDE DEF one, two, three, base, light, anchors
<1>7. Ready(r, one, anchors, BlockIds) /\ Ready(r, two, anchors, BlockIds) /\ Ready(r, three, anchors, BlockIds)
  BY <1>2, <1>4, <1>5, <1>6, AloneReady, AgainstReady
<1>8. AtMost(3, TransparencyScenes(r))
  <2>1. AtMost(3, {one, two, three})
    BY AtMostFew, Zenon
  <2>. QED
    BY <1>1, <2>1, Zenon
<1>9. /\ one.base = base("light") /\ two.base = base("dark") /\ three.base = base("overlap")
      /\ one.kind = "minecraft_vanilla" /\ two.kind = "minecraft_vanilla" /\ three.kind = "minecraft_vanilla"
  BY <1>4 DEF Plain
<1>10. Family(TransparencyScenes(r), "stock", {"block_transparency"}, 3)
  <2>1. \A name : base(name)[1] = "block_transparency"
    BY DEF base
  <2>2. base("light") # base("dark") /\ base("light") # base("overlap") /\ base("dark") # base("overlap")
    BY DEF base
  <2>. QED
    BY <1>1, <1>8, <1>9, <2>1, <2>2 DEF Family, SortOf
<1>11. IdOf(one) = Vanilla(<<"block_transparency", "light">>)
  BY <1>9 DEF IdOf, Vanilla, base
<1>. QED
  BY <1>1, <1>7, <1>10, <1>11 DEF BlockGroup, Group, anchors

\* In the biomes that tint it.
LEMMA BlockBiomes ==
  ASSUME NEW r, BlockGiven(r), NoValue # "reference_arm", AtMost(4, r.review.biomes)
  PROVE  BlockGroup(r,
           {LET base == <<"block_biome", biome>>
            IN  [Against(Describe(base, <<"front">>, Studio(r, "single"),
                      {Intent(base, "delta", "pairwise_pixel_delta", {}, biome # "plains")}), Hero) EXCEPT
                   !.biome = biome] : biome \in r.review.biomes}, {"block_biome"}, 4)
<1> DEFINE base(biome) == <<"block_biome", biome>>
           delta(biome) == {Intent(base(biome), "delta", "pairwise_pixel_delta", {}, biome # "plains")}
           tinted(biome) == Against(Describe(base(biome), <<"front">>, Studio(r, "single"), delta(biome)), Hero)
           f == [biome \in r.review.biomes |-> [tinted(biome) EXCEPT !.biome = biome]]
           anchors == BlockAnchors(r)
<1>1. PutUp(r, Studio(r, "single")) /\ Upright(r, Studio(r, "single"))
  BY StudioPutUp
<1>2. \A biome \in r.review.biomes : Plain(f[biome], base(biome), Studio(r, "single"), delta(biome), {Vanilla(Hero)})
  <2>1. \A biome : Plain(tinted(biome), base(biome), Studio(r, "single"), delta(biome), {Vanilla(Hero)})
    BY Drafted, Redrafted
  <2> HIDE DEF tinted, delta, base
  <2>2. \A biome : Plain([tinted(biome) EXCEPT !.biome = biome], base(biome), Studio(r, "single"), delta(biome), {Vanilla(Hero)})
    BY <2>1, Redrafted
  <2>. QED
    BY <2>2
<1>3. {[tinted(biome) EXCEPT !.biome = biome] : biome \in r.review.biomes} = {f[biome] : biome \in r.review.biomes}
  OBVIOUS
<1>4. \A biome : Scored(base(biome), delta(biome), {Vanilla(Hero)}, anchors, BlockIds)
  <2> SUFFICES ASSUME NEW biome PROVE Scored(base(biome), delta(biome), {Vanilla(Hero)}, anchors, BlockIds)
    OBVIOUS
  <2> DEFINE i == Intent(base(biome), "delta", "pairwise_pixel_delta", {}, biome # "plains")
             critical == biome # "plains"
  <2>1. Vanilla(base(biome)) # Vanilla(Hero) /\ Vanilla(base(biome)) \notin BlockIds /\ Vanilla(Hero) \in anchors
    BY DEF Vanilla, Hero, BlockIds, BlockAnchors
  <2>2. "delta" \notin Boxed \cup {"foreground_control"} /\ "pairwise_pixel_delta" \in ReadinessMetrics
    BY DEF Boxed, ReadinessMetrics
  <2>3. Score(i, base(biome), {Vanilla(Hero)}, anchors, BlockIds)
    <3> HIDE DEF base, anchors, critical
    <3>1. Score(Intent(base(biome), "delta", "pairwise_pixel_delta", {}, critical), base(biome), {Vanilla(Hero)}, anchors, BlockIds)
      BY <2>1, <2>2, ScoreAgainst
    <3>. QED
      BY <3>1 DEF critical
  <2>4. delta(biome) = {i}
    OBVIOUS
  <2> HIDE DEF i, delta, base, anchors
  <2>. QED
    BY <2>3, <2>4, NoMoreThanThree DEF Scored
<1>5. \A biome : base(biome) # Hero /\ Vanilla(Hero) \in anchors
  BY DEF Hero, BlockAnchors
<1>0. \A biome : base(biome) = <<"block_biome", biome>>
  OBVIOUS
<1> HIDE DEF f, base, delta, anchors
<1>6. \A biome \in r.review.biomes : Ready(r, f[biome], anchors, BlockIds)
  BY <1>1, <1>2, <1>4, <1>5, AgainstReady
<1>7. \A biome \in r.review.biomes : f[biome].kind = "minecraft_vanilla" /\ f[biome].base = <<"block_biome", biome>>
  BY <1>0, <1>2 DEF Plain
<1>8. Group(r, {f[biome] : biome \in r.review.biomes}, "stock", {"block_biome"}, 4, anchors, BlockIds)
  <2> DEFINE X == r.review.biomes
  <2>0. 4 \in Nat /\ AtMost(4, X)
    OBVIOUS
  <2>2. \A x \in X : f[x].kind = "minecraft_vanilla" /\ f[x].base = <<"block_biome", x>>
    BY <1>7
  <2>3. \A x \in X : Ready(r, f[x], anchors, BlockIds)
    BY <1>6
  <2> HIDE DEF X
  <2>1. Group(r, {f[biome] : biome \in X}, "stock", {"block_biome"}, 4, anchors, BlockIds)
    BY <2>0, <2>2, <2>3, GroupNamed
  <2>. QED
    BY <2>1 DEF X
<1>9. BlockGroup(r, {[tinted(biome) EXCEPT !.biome = biome] : biome \in r.review.biomes}, {"block_biome"}, 4)
  BY <1>3, <1>8 DEF BlockGroup, anchors
<1>. QED
  BY <1>9 DEF base, delta

\* In the states after the first.
LEMMA BlockStates ==
  ASSUME NEW r, BlockGiven(r), NoValue # "reference_arm", AtMost(31, Declared(r) \ {FirstState(r)})
  PROVE  BlockGroup(r,
           {LET base == <<"block_state", state>>
            IN  Against(Describe(base, <<"front">>, BlockFixture(r, "single", "studio", 1, state),
                          {Advisory(base, "pairwise_pixel_delta")}), Hero) :
              state \in Declared(r) \ {FirstState(r)}}, {"block_state"}, 31)
<1> DEFINE base(state) == <<"block_state", state>>
           others == Declared(r) \ {FirstState(r)}
           fix(state) == BlockFixture(r, "single", "studio", 1, state)
           Of(state) == Against(Describe(base(state), <<"front">>, fix(state),
                                         {Advisory(base(state), "pairwise_pixel_delta")}), Hero)
           f == [state \in others |-> Of(state)]
           D == {Of(state) : state \in others}
           anchors == BlockAnchors(r)
<1>1. \A state \in others : PutUp(r, fix(state)) /\ Upright(r, fix(state))
  BY BlockPutUp
<1>2. \A state \in others : Plain(f[state], base(state), fix(state), {Advisory(base(state), "pairwise_pixel_delta")}, {Vanilla(Hero)})
  BY Drafted, Redrafted
<1>3. \A state : Scored(base(state), {Advisory(base(state), "pairwise_pixel_delta")}, {Vanilla(Hero)}, anchors, BlockIds)
  BY AdvisedOne DEF Boxed
<1>4. \A state : base(state) # Hero /\ Vanilla(Hero) \in anchors /\ base(state) = <<"block_state", state>>
  BY DEF Hero, BlockAnchors
<1>5. \A d \in D : \E state \in others : d = f[state]
  OBVIOUS
<1>6. AtMost(31, others)
  OBVIOUS
<1> HIDE DEF f, base, fix, others, anchors, D
<1>7. \A state \in others : Ready(r, f[state], anchors, BlockIds)
  BY <1>1, <1>2, <1>3, <1>4, AgainstReady
<1>8. \A state \in others : f[state].kind = "minecraft_vanilla" /\ f[state].base = <<"block_state", state>>
  BY <1>2, <1>4 DEF Plain
<1>9. Group(r, D, "stock", {"block_state"}, 31, anchors, BlockIds)
  <2>1. 31 \in Nat
    OBVIOUS
  <2>. QED
    BY <1>5, <1>6, <1>7, <1>8, <2>1, GroupNamed
<1>10. BlockGroup(r, D, {"block_state"}, 31)
  BY <1>9 DEF BlockGroup, anchors
<1>. QED
  BY <1>10 DEF D, others, base, fix

\* Groups of blocks together.
LEMMA BlockTogether ==
  ASSUME NEW r, NEW D, NEW E, NEW V, NEW W, NEW m \in Nat, NEW n \in Nat,
         BlockGroup(r, D, V, m), BlockGroup(r, E, W, n), V \cap W = {}
  PROVE  BlockGroup(r, D \cup E, V \cup W, m + n)
BY GroupUnion DEF BlockGroup

\* The scenes of an accepted block are a plan.
LEMMA BlocksPlannable ==
  ASSUME NEW q, NEW r, ~q.scaleViews, BlockGiven(r), NoValue # "reference_arm", AtMost(31, Declared(r) \ {FirstState(r)}),
         AtMost(4, r.review.biomes)
  PROVE  Plannable(q, r)
<1> DEFINE
      hero == Describe(Hero, <<"quarter">>, Studio(r, "single"), Framed(Hero))
      day == Describe(<<"block_light_day">>, <<"front">>, Studio(r, "single"), {})
      low == [Against(Describe(<<"block_light_low">>, <<"front">>, Studio(r, "single"),
                       {Critical(<<"block_light_low">>, "pairwise_pixel_delta"),
                        Critical(<<"block_light_low">>, "lighting_separation")}), <<"block_light_day">>)
                EXCEPT !.low = TRUE]
      faces == {Describe(<<"block_face", face>>, <<face>>, Studio(r, "single"),
                    {Advisory(<<"block_face", face>>, metric) : metric \in {"frame_retention", "visible_faces"}}) :
                face \in {"north", "south", "east", "west", "up", "down"}}
      layouts == {Describe(<<"block", layout>>, <<"quarter">>, Studio(r, layout),
                    {Advisory(<<"block", layout>>, IF layout = "culling" THEN "unexpected_culling"
                                                   ELSE "adjacency_seam")}) :
                layout \in {"adjacency", "culling"}}
      slot == [Describe(<<"block", "inventory">>, <<"front">>, Studio(r, "inventory"),
                        Framed(<<"block", "inventory">>)) EXCEPT !.context = "inventory"]
      slots == When(r.review.inventory, {slot})
      clear == When(r.review.transparency, TransparencyScenes(r))
      biomes == {LET base == <<"block_biome", biome>>
                 IN  [Against(Describe(base, <<"front">>, Studio(r, "single"),
                           {Intent(base, "delta", "pairwise_pixel_delta", {}, biome # "plains")}), Hero) EXCEPT
                        !.biome = biome] : biome \in r.review.biomes}
      states == {LET base == <<"block_state", state>>
                 IN  Against(Describe(base, <<"front">>, BlockFixture(r, "single", "studio", 1, state),
                               {Advisory(base, "pairwise_pixel_delta")}), Hero) :
                   state \in Declared(r) \ {FirstState(r)}}
      lit == ({hero} \cup {day}) \cup {low}
      put == layouts \cup slots
      D == (((lit \cup faces) \cup put) \cup clear) \cup (biomes \cup states)
<1>1. ASSUME NEW p, p.representation = r PROVE ScenesOf(p) = LowerAll(r, p.settling, D, BlockIds)
  <2>0. ScenesOf(p) = BlockScenes(p, r)
    BY <1>1 DEF ScenesOf, BlockGiven
  <2>1. BlockVariants(r) = biomes \cup states
    BY DEF BlockVariants
  <2>2. BlockScenes(p, r) = LowerAll(r, p.settling,
          {hero, day, low} \cup faces \cup layouts \cup slots \cup clear \cup BlockVariants(r), {Vanilla(Hero)})
    BY DEF BlockScenes, LowerAll
  <2> HIDE DEF hero, day, low, faces, layouts, slots, clear, biomes, states
  <2>3. D = {hero, day, low} \cup faces \cup layouts \cup slots \cup clear \cup BlockVariants(r)
    BY <2>1
  <2> HIDE DEF D
  <2>. QED
    BY <2>0, <2>2, <2>3 DEF BlockIds
<1>2. /\ BlockGroup(r, {hero}, {"block_hero"}, 1) /\ BlockGroup(r, {day}, {"block_light_day"}, 1)
      /\ BlockGroup(r, {low}, {"block_light_low"}, 1) /\ BlockGroup(r, {slot}, {"block"}, 1)
      /\ IdOf(hero) = Vanilla(Hero) /\ IdOf(day) = Vanilla(<<"block_light_day">>)
      /\ slot.base = <<"block", "inventory">>
  BY BlockLights
<1>3. BlockGroup(r, faces, {"block_face"}, 6)
  BY BlockFaces
<1>4. /\ BlockGroup(r, layouts, {"block"}, 2)
      /\ \A d \in layouts : d.base \in {<<"block", "adjacency">>, <<"block", "culling">>}
  BY BlockLayouts
<1>5. r.review.transparency =>
        /\ BlockGroup(r, TransparencyScenes(r), {"block_transparency"}, 3)
        /\ \E d \in TransparencyScenes(r) : IdOf(d) = Vanilla(<<"block_transparency", "light">>)
  BY BlockTransparency
<1>6. BlockGroup(r, biomes, {"block_biome"}, 4)
  BY BlockBiomes
<1>7. BlockGroup(r, states, {"block_state"}, 31)
  BY BlockStates
<1>8. BlockGroup(r, clear, {"block_transparency"}, 3)
  BY <1>5, GroupWhen DEF BlockGroup
<1>9. BlockGroup(r, slots, {"block"}, 1)
  <2> HIDE DEF slot
  <2>. QED
    BY <1>2, GroupWhen DEF BlockGroup
<1>10. \A d \in slots : d.base = <<"block", "inventory">>
  <2> HIDE DEF slot
  <2>. QED
    BY <1>2 DEF When
<1> HIDE DEF hero, day, low, faces, layouts, slot, slots, clear, biomes, states
<1>11. BlockGroup(r, put, {"block"}, 3)
  <2>1. AtMost(2 + 1, layouts \cup slots)
    <3>1. AtMost(2, layouts) /\ AtMost(1, slots) /\ 1 \in Nat /\ 2 \in Nat
      BY <1>4, <1>9 DEF BlockGroup, Group, Family
    <3>. QED
      BY <3>1, AtMostUnion
  <2>2. AtMost(3, put)
    BY <2>1
  <2>3. \A d \in put, e \in put : d.base = e.base => d = e
    <3>1. \A d \in layouts, e \in slots : d.base # e.base
      BY <1>4, <1>10
    <3>. QED
      BY <1>4, <1>9, <3>1 DEF BlockGroup, Group, Family
  <2>. QED
    BY <1>4, <1>9, <2>2, <2>3 DEF BlockGroup, Group, Family
<1> HIDE DEF put
<1>12. BlockGroup(r, lit, {"block_hero", "block_light_day", "block_light_low"}, 3)
  <2>1. BlockGroup(r, {hero} \cup {day}, {"block_hero"} \cup {"block_light_day"}, 1 + 1)
    BY <1>2, BlockTogether
  <2>2. BlockGroup(r, {hero} \cup {day}, {"block_hero", "block_light_day"}, 2)
    BY <2>1
  <2>3. BlockGroup(r, lit, {"block_hero", "block_light_day"} \cup {"block_light_low"}, 2 + 1)
    BY <1>2, <2>2, BlockTogether
  <2>. QED
    BY <2>3
<1>0. hero \in lit /\ day \in lit
  OBVIOUS
<1> HIDE DEF lit
<1> DEFINE first == {"block_hero", "block_light_day", "block_light_low"}
           words == first \cup {"block_face", "block", "block_transparency", "block_biome", "block_state"}
<1>13. BlockGroup(r, D, words, 50)
  <2>1. BlockGroup(r, lit \cup faces, first \cup {"block_face"}, 3 + 6)
    BY <1>3, <1>12, BlockTogether
  <2>2. BlockGroup(r, lit \cup faces, first \cup {"block_face"}, 9)
    BY <2>1
  <2>3. BlockGroup(r, (lit \cup faces) \cup put, (first \cup {"block_face"}) \cup {"block"}, 9 + 3)
    BY <1>11, <2>2, BlockTogether
  <2>4. BlockGroup(r, (lit \cup faces) \cup put, first \cup {"block_face", "block"}, 12)
    BY <2>3
  <2>5. BlockGroup(r, ((lit \cup faces) \cup put) \cup clear,
                   (first \cup {"block_face", "block"}) \cup {"block_transparency"}, 12 + 3)
    BY <1>8, <2>4, BlockTogether
  <2>6. BlockGroup(r, ((lit \cup faces) \cup put) \cup clear,
                   first \cup {"block_face", "block", "block_transparency"}, 15)
    BY <2>5
  <2>7. BlockGroup(r, biomes \cup states, {"block_biome"} \cup {"block_state"}, 4 + 31)
    BY <1>6, <1>7, BlockTogether
  <2>8. BlockGroup(r, biomes \cup states, {"block_biome", "block_state"}, 35)
    BY <2>7
  <2>9. BlockGroup(r, D, (first \cup {"block_face", "block", "block_transparency"}) \cup {"block_biome", "block_state"}, 15 + 35)
    BY <2>6, <2>8, BlockTogether
  <2>10. words = (first \cup {"block_face", "block", "block_transparency"}) \cup {"block_biome", "block_state"}
    OBVIOUS
  <2>. QED
    BY <2>9, <2>10
<1>14. Supported(D, BlockAnchors(r), BlockIds)
  <2>1. r.review.transparency => \E d \in D : IdOf(d) = Vanilla(<<"block_transparency", "light">>)
    BY <1>5 DEF When, clear
  <2>2. (\E d \in D : IdOf(d) = Vanilla(Hero)) /\ \E d \in D : IdOf(d) = Vanilla(<<"block_light_day">>)
    BY <1>0, <1>2
  <2>3. \A base : Vanilla(base).kind = "minecraft_vanilla"
    BY DEF Vanilla
  <2> HIDE DEF D
  <2>. QED
    BY <2>1, <2>2, <2>3 DEF Supported, BlockAnchors, BlockIds, When
<1>15. D # {}
  BY <1>0
<1> HIDE DEF D, words
<1>16. AtMost(1, BlockIds) /\ r.target = "block"
  BY AtMostFew DEF BlockIds, BlockGiven
<1>17. Lowers(q, r, D, BlockIds) /\ BlockAnchors(r) # {} /\ 50 \in Nat /\ 1 \in Nat /\ 50 + 1 <= 64
  BY <1>1 DEF Lowers, BlockAnchors
<1>. QED
  BY <1>13, <1>14, <1>15, <1>16, <1>17, GroupLaid DEF BlockGroup

-----------------------------------------------------------------------------
(* Headwear.                                                                *)

\* Such descriptions are no more than the things.
LEMMA FamilyImage ==
  ASSUME NEW D, NEW X, NEW f, NEW sort, NEW word, NEW n \in Nat, AtMost(n, X),
         ImageOf(D, X, f), Told(D, sort, word)
  PROVE  Family(D, sort, {word}, n)
<1>0. \A d \in D : \E x \in X : d = f[x]
  BY DEF ImageOf
<1>1. AtMost(n, {f[x] : x \in X})
  BY AtMostImage
<1>2. D \subseteq {f[x] : x \in X}
  BY <1>0
<1>3. AtMost(n, D)
  BY <1>1, <1>2, AtMostPart
<1>. QED
  BY <1>3 DEF Told, Family

\* Every worn fixture of the planner is so.
LEMMA WornPutUp ==
  ASSUME NEW r, HeadGiven(r), NEW state \in Declared(r), NEW subject \in {"player", "armor_stand", "bare_control"},
         NEW framing \in {"head", "full_body", "first_person"}, NEW pose \in Poses,
         NEW angle \in {"front", "side", "rear"}, NEW chest \in BOOLEAN
  PROVE  WornFit(r, WornFixture(subject, framing, pose, state, angle, chest), subject, framing, pose, state, angle, chest)
<1> DEFINE f == WornFixture(subject, framing, pose, state, angle, chest)
<1>1. /\ DOMAIN f = {"kind", "target", "state", "subject", "framing", "pose", "angle", "chest"}
      /\ f.kind = "equippable_head" /\ f.target = "headwear" /\ f.state = state /\ f.subject = subject
      /\ f.framing = framing /\ f.pose = pose /\ f.angle = angle /\ f.chest = chest
  BY DEF WornFixture
<1> HIDE DEF f
<1>2. ShapeOf(f) = HeadwearShape
  BY <1>1 DEF ShapeOf
<1>3. /\ DOMAIN HeadwearShape = {"subject", "framing", "pose", "angle", "chest"}
      /\ f.subject \in HeadwearShape.subject /\ f.framing \in HeadwearShape.framing /\ f.pose \in HeadwearShape.pose
      /\ f.angle \in HeadwearShape.angle /\ f.chest \in HeadwearShape.chest
  BY <1>1 DEF HeadwearShape
<1>4. FixtureShaped(f)
  BY <1>1, <1>2, <1>3 DEF FixtureShaped
<1>5. PutUp(r, f)
  BY <1>1, <1>4 DEF PutUp, Arranged, HeadGiven, DisplayKinds
<1>6. subject # "bare_control" /\ (chest => subject = "player" /\ framing = "full_body" /\ r.review.chestArmor)
        => Upright(r, f)
  BY <1>1 DEF Upright, HeadGiven
<1>. QED
  BY <1>1, <1>5, <1>6 DEF f, WornFit

\* What is worn is described as a stock scene until the planner says otherwise.
LEMMA WornDrafted ==
  ASSUME NEW base, NEW f, NEW intents, NEW player \in Players,
         NEW camera \in {"third_person_back", "third_person_front", "neutral"}
  PROVE  /\ Plain(Worn(base, f, camera, player, intents), base, f, intents, {})
         /\ Worn(base, f, camera, player, intents).camera = camera
         /\ Worn(base, f, camera, player, intents).player = player
         /\ Worn(base, f, camera, player, intents).context = "world"
         /\ Worn(base, f, camera, player, intents).shot = <<f.angle, f.framing>>
<1> DEFINE shot == <<f.angle, f.framing>>
           d == Describe(base, shot, f, intents)
<1>1. Plain(d, base, f, intents, {}) /\ d.context = "world" /\ d.shot = shot
  <2>1. Plain(d, base, f, intents, {})
    BY Drafted
  <2>2. d.context = "world" /\ d.shot = shot
    BY DEF Describe
  <2>. QED
    BY <2>1, <2>2
<1>2. Worn(base, f, camera, player, intents) = [d EXCEPT !.camera = camera, !.player = player]
  BY DEF Worn
<1> HIDE DEF d, shot
<1> DEFINE w == [d EXCEPT !.camera = camera, !.player = player]
<1>3. DOMAIN w = Fields /\ w.camera = camera /\ w.player = player /\ \A field \in Fields \ {"camera", "player"} : w[field] = d[field]
  BY <1>1 DEF Plain, Fields
<1> HIDE DEF w
<1>4. Plain(w, base, f, intents, {}) /\ w.context = "world" /\ w.shot = shot
  BY <1>1, <1>3 DEF Plain, Fields, Filmed, FirstPersonWorld, Players
<1>. QED
  BY <1>2, <1>3, <1>4 DEF w, shot

\* A worn scene with advisory measurements, alone or compared with an anchor.
LEMMA WornReady ==
  ASSUME NEW r, NoValue # "reference_arm", NEW d, NEW base, NEW f, NEW metrics, AtMost(3, metrics),
         metrics \cap (Boxed \cup {"foreground_control"}) = {}, PutUp(r, f), Upright(r, f)
  PROVE  /\ Plain(d, base, f, {Advisory(base, metric) : metric \in metrics}, {}) => Ready(r, d, HeadAnchors, HeadIds(r))
         /\ \A other : Plain(d, base, f, {Advisory(base, metric) : metric \in metrics}, {Vanilla(other)})
                /\ other # base /\ Vanilla(other) \in HeadAnchors => Ready(r, d, HeadAnchors, HeadIds(r))
<1> DEFINE intents == {Advisory(base, metric) : metric \in metrics}
           anchors == HeadAnchors
           ids == HeadIds(r)
<1>1. \A comparisons : Scored(base, intents, comparisons, anchors, ids)
  BY Advised
<1> HIDE DEF intents, anchors, ids
<1>2. Plain(d, base, f, intents, {}) => Ready(r, d, anchors, ids)
  BY <1>1, AloneReady
<1>3. \A other : Plain(d, base, f, intents, {Vanilla(other)}) /\ other # base /\ Vanilla(other) \in anchors => Ready(r, d, anchors, ids)
  BY <1>1, AgainstReady
<1>. QED
  BY <1>2, <1>3 DEF intents, anchors, ids

\* Both players, and triples of a player, an angle and a framing.
LEMMA PlayersFew ==
  /\ AtMost(2, Players)
  /\ AtMost(12, (Players \X {"front", "side", "rear"}) \X {"head", "full_body"})
<1> DEFINE angles == {"front", "side", "rear"}
           framings == {"head", "full_body"}
<1>1. AtMost(2, Players) /\ AtMost(3, angles) /\ AtMost(2, framings)
  BY AtMostFew DEF Players
<1>2. 2 \in Nat /\ 3 \in Nat /\ 6 \in Nat
  OBVIOUS
<1> HIDE DEF angles, framings
<1>3. AtMost(2 * 3, Players \X angles)
  BY <1>1, <1>2, AtMostPairs
<1>4. AtMost(6, Players \X angles)
  BY <1>3
<1>5. AtMost(6 * 2, (Players \X angles) \X framings)
  BY <1>1, <1>2, <1>4, AtMostPairs
<1>. QED
  BY <1>1, <1>5 DEF angles, framings

\* The heads around are a group of twelve, with the anchors among them.
LEMMA HeadAround ==
  ASSUME NEW r, HeadGiven(r), NoValue # "reference_arm"
  PROVE  /\ HeadGroup(r, HeadViews(r), {"head"}, 12)
         /\ \A player \in Players, framing \in {"head", "full_body"} :
              \E d \in HeadViews(r) : IdOf(d) = Vanilla(<<"head", player, "front", framing>>)
<1> DEFINE Camera(angle) == IF angle = "front" THEN "third_person_front" ELSE "third_person_back"
           angles == {"front", "side", "rear"}
           framings == {"head", "full_body"}
           base(player, angle, framing) == <<"head", player, angle, framing>>
           metrics(angle) == {IF angle = "front" THEN "face_eye_clearance" ELSE "head_penetration", "frame_retention"}
           fix(angle, framing) == WornFixture("player", framing, "idle", FirstState(r), angle, FALSE)
           Around(player, angle, framing) == HeadView(r, player, angle, framing)
           D == HeadViews(r)
           X == (Players \X angles) \X framings
           f == [x \in X |-> Around(x[1][1], x[1][2], x[2])]
<1>1. ASSUME NEW player \in Players, NEW angle \in angles, NEW framing \in framings
      PROVE  /\ Ready(r, Around(player, angle, framing), HeadAnchors, HeadIds(r))
             /\ Around(player, angle, framing).base = base(player, angle, framing)
             /\ Around(player, angle, framing).kind = "minecraft_vanilla"
  <2> DEFINE b == base(player, angle, framing)
             d == Around(player, angle, framing)
             g == fix(angle, framing)
             c == Camera(angle)
             m == metrics(angle)
  <2>1. PutUp(r, g) /\ Upright(r, g)
    <3>1. FirstState(r) \in Declared(r) /\ "idle" \in Poses
      BY DEF HeadGiven, Poses
    <3>2. framing \in {"head", "full_body", "first_person"} /\ angle \in {"front", "side", "rear"}
      OBVIOUS
    <3> HIDE DEF angles, framings
    <3>3. WornFit(r, WornFixture("player", framing, "idle", FirstState(r), angle, FALSE),
                  "player", framing, "idle", FirstState(r), angle, FALSE)
      BY <3>1, <3>2, WornPutUp
    <3>. QED
      BY <3>3 DEF WornFit
  <2>2. {Advisory(b, IF angle = "front" THEN "face_eye_clearance" ELSE "head_penetration")} \cup Framed(b)
          = {Advisory(b, metric) : metric \in m}
    <3> HIDE DEF b
    <3>. QED
      BY DEF Framed
  <2>3. c \in {"third_person_back", "third_person_front", "neutral"}
    OBVIOUS
  <2>4. AtMost(3, m) /\ m \cap (Boxed \cup {"foreground_control"}) = {}
    BY NoMoreThanThree DEF Boxed
  <2>5. d = Worn(b, g, c, player, {Advisory(b, metric) : metric \in m})
    BY <2>2 DEF HeadView
  <2> HIDE DEF b, d, g, c, m
  <2>6. Plain(d, b, g, {Advisory(b, metric) : metric \in m}, {})
    BY <2>3, <2>5, WornDrafted
  <2>7. Ready(r, d, HeadAnchors, HeadIds(r))
    BY <2>1, <2>4, <2>6, WornReady
  <2>8. d.base = b /\ d.kind = "minecraft_vanilla"
    BY <2>6 DEF Plain
  <2>. QED
    BY <2>7, <2>8 DEF b, d
<1>0. \A framing \in {"head", "full_body"} : framing \in framings /\ "front" \in angles
  OBVIOUS
<1>3. AtMost(12, X)
  BY PlayersFew
<1>4. \A d \in D : \E player \in Players, angle \in angles, framing \in framings : d = Around(player, angle, framing)
  BY DEF HeadViews
<1>5. \A player \in Players, angle \in angles, framing \in framings : Around(player, angle, framing) \in D
  BY DEF HeadViews
<1> HIDE DEF Around, D
<1>2. ImageOf(D, X, f)
  <2> SUFFICES ASSUME NEW d \in D PROVE  \E x \in X : d = f[x]
    BY DEF ImageOf
  <2>0. PICK player \in Players, angle \in angles, framing \in framings : d = Around(player, angle, framing)
    BY <1>4
  <2> DEFINE x == <<<<player, angle>>, framing>>
  <2>1. x \in X /\ x[1][1] = player /\ x[1][2] = angle /\ x[2] = framing
    OBVIOUS
  <2>2. f[x] = Around(player, angle, framing)
    BY <2>1
  <2>. QED
    BY <2>0, <2>1, <2>2
<1> HIDE DEF X, f, angles, framings
<1>6. \A d \in D : SortOf(d.kind) = "stock" /\ d.base[1] = "head"
  BY <1>1, <1>4 DEF SortOf
<1>7. ASSUME NEW d \in D, NEW e \in D, d.base = e.base PROVE d = e
  <2>1. PICK p \in Players, a \in angles, m \in framings : d = Around(p, a, m)
    BY <1>4
  <2>2. PICK pp \in Players, aa \in angles, mm \in framings : e = Around(pp, aa, mm)
    BY <1>4
  <2>3. base(p, a, m) = base(pp, aa, mm)
    BY <1>1, <1>7, <2>1, <2>2
  <2>4. p = pp /\ a = aa /\ m = mm
    BY <2>3
  <2>. QED
    BY <2>1, <2>2, <2>4
<1>8. Family(D, "stock", {"head"}, 12)
  <2>1. 12 \in Nat /\ Told(D, "stock", "head")
    BY <1>6, <1>7 DEF Told
  <2>. QED
    BY <1>2, <1>3, <2>1, FamilyImage
<1>9. HeadGroup(r, D, {"head"}, 12)
  BY <1>1, <1>4, <1>8 DEF HeadGroup, Group
<1>10. \A player \in Players, framing \in {"head", "full_body"} : \E d \in D : IdOf(d) = Vanilla(<<"head", player, "front", framing>>)
  BY <1>0, <1>1, <1>5 DEF IdOf, Vanilla
<1>. QED
  BY <1>9, <1>10 DEF D

\* The bare heads are a group of two.
LEMMA HeadBare ==
  ASSUME NEW r, HeadGiven(r), NoValue # "reference_arm"
  PROVE  HeadGroup(r, BareHeads(r), {"head_bare"}, 2)
<1> DEFINE base(player) == <<"head_bare", player>>
           other(player) == <<"head", player, "front", "head">>
           fix == WornFixture("bare_control", "head", "idle", FirstState(r), "front", FALSE)
           intents(player) == {Advisory(base(player), "variant_fit_delta")}
           worn(player) == Against(Worn(base(player), fix, "third_person_front", player, intents(player)), other(player))
           Of(player) == [worn(player) EXCEPT !.kind = "comparison_reference"]
           f == [player \in Players |-> Of(player)]
           D == {Of(player) : player \in Players}
           anchors == HeadAnchors
           ids == HeadIds(r)
<1>1. PutUp(r, fix) /\ fix.subject = "bare_control" /\ fix.chest = FALSE
  <2>1. FirstState(r) \in Declared(r) /\ "idle" \in Poses
    BY DEF HeadGiven, Poses
  <2>2. WornFit(r, fix, "bare_control", "head", "idle", FirstState(r), "front", FALSE)
    BY <2>1, WornPutUp
  <2>. QED
    BY <2>2 DEF WornFit
<1>2. \A player \in Players : Plain(worn(player), base(player), fix, intents(player), {Vanilla(other(player))})
  BY WornDrafted, Redrafted
<1>3. \A player \in Players : Vanilla(other(player)) \in anchors /\ base(player) # other(player)
  BY DEF HeadAnchors
<1>4. ASSUME NEW player \in Players
      PROVE  /\ Ready(r, Of(player), anchors, ids) /\ Of(player).base = base(player)
             /\ Of(player).kind = "comparison_reference"
  <2> DEFINE w == worn(player)
             d == Of(player)
             b == base(player)
             o == Vanilla(other(player))
             i == Advisory(b, "variant_fit_delta")
  <2>1. Plain(w, b, fix, {i}, {o}) /\ d = [w EXCEPT !.kind = "comparison_reference"]
    BY <1>2
  <2>2. i.id = <<b, "variant_fit_delta">> /\ i.sources = {} /\ i.critical = FALSE
    BY DEF Advisory, Intent
  <2>3. o \in anchors /\ o.kind = "minecraft_vanilla"
    BY <1>3 DEF Vanilla
  <2> HIDE DEF w, d, b, o, i, fix, anchors, ids
  <2>4. /\ DOMAIN w = Fields /\ Filmed(w) /\ ~FirstPersonWorld(w)
        /\ w.base = b /\ w.fixture = fix /\ w.presentation = NoValue
        /\ w.intents = {i} /\ w.comparisons = {o}
    BY <2>1 DEF Plain
  <2>5. DOMAIN d = Fields /\ d.kind = "comparison_reference" /\ \A field \in Fields \ {"kind"} : d[field] = w[field]
    BY <2>1, <2>4 DEF Fields
  <2>6. /\ Filmed(d) /\ ~FirstPersonWorld(d) /\ d.base = b /\ d.fixture = fix /\ d.presentation = NoValue
        /\ d.intents = {i} /\ d.comparisons = {o}
    BY <2>4, <2>5 DEF Fields, Filmed, FirstPersonWorld
  <2>7. Viewed(r, d)
    BY <1>1, <2>5, <2>6 DEF Viewed, HeadGiven
  <2>8. IdOf(d).kind = "comparison_reference"
    BY <2>5 DEF IdOf
  <2>9. AtMost(3, {i}) /\ AtMost(3, {o})
    BY NoMoreThanThree
  <2>10. Drawn(r, d)
    BY <1>1, <2>3, <2>5, <2>6, <2>7, <2>8, <2>9 DEF Drawn
  <2>11. Measurable(d, i, anchors, ids)
    BY <2>2, <2>5, <2>6 DEF Measurable, Boxed
  <2>12. Linked(d, anchors, ids)
    BY <2>3, <2>5, <2>6, <2>9, <2>11 DEF Linked
  <2>13. Ready(r, d, anchors, ids)
    BY <2>10, <2>12 DEF Ready
  <2>. QED
    BY <2>5, <2>6, <2>13 DEF d, b
<1>5. ImageOf(D, Players, f)
  BY DEF ImageOf
<1>6. \A player \in Players : f[player] = Of(player)
  OBVIOUS
<1> HIDE DEF D, f, Of, anchors, ids
<1>7. \A d \in D : SortOf(d.kind) = "stock" /\ d.base[1] = "head_bare"
  BY <1>4, <1>5, <1>6 DEF SortOf, ImageOf
<1>8. ASSUME NEW d \in D, NEW e \in D, d.base = e.base PROVE d = e
  <2>1. PICK p \in Players : d = Of(p)
    BY <1>5, <1>6 DEF ImageOf
  <2>2. PICK pp \in Players : e = Of(pp)
    BY <1>5, <1>6 DEF ImageOf
  <2>3. base(p) = base(pp)
    BY <1>4, <1>8, <2>1, <2>2
  <2>. QED
    BY <2>1, <2>2, <2>3
<1>9. Family(D, "stock", {"head_bare"}, 2)
  <2>1. 2 \in Nat /\ AtMost(2, Players)
    BY PlayersFew
  <2>2. Told(D, "stock", "head_bare")
    BY <1>7, <1>8 DEF Told
  <2>. QED
    BY <1>5, <2>1, <2>2, FamilyImage
<1>10. HeadGroup(r, D, {"head_bare"}, 2)
  BY <1>4, <1>5, <1>6, <1>9 DEF HeadGroup, Group, anchors, ids, ImageOf
<1>. QED
  BY <1>10 DEF D, Of, BareHeads

\* A scene from the eyes of the wearer is ready: its control is made.
LEMMA EyesReady ==
  ASSUME NEW r, HeadGiven(r), NoValue # "reference_arm", NEW base, NEW fov \in {70, 100},
         NEW metric \in {"first_person_obstruction", "overlay_coverage"},
         IdOf(EyeView(r, base, fov, metric)) \in HeadIds(r)
  PROVE  /\ Ready(r, EyeView(r, base, fov, metric), HeadAnchors, HeadIds(r))
         /\ EyeView(r, base, fov, metric).base = base
         /\ EyeView(r, base, fov, metric).kind = "first_person_vanilla"
<1> DEFINE fix == WornFixture("player", "first_person", "idle", FirstState(r), "front", FALSE)
           own == [kind |-> "first_person_vanilla", base |-> base]
           sources == {own, Control(base)}
           i == Intent(base, metric, metric, sources, FALSE)
           shot == <<fix.angle, fix.framing>>
           plain == Describe(base, shot, fix, {i})
           w == [plain EXCEPT !.camera = "first_person", !.player = "steve"]
           d == [w EXCEPT !.kind = "first_person_vanilla", !.fov = fov]
           anchors == HeadAnchors
           ids == HeadIds(r)
<1>1. PutUp(r, fix) /\ Upright(r, fix) /\ fix.framing = "first_person" /\ fix.chest = FALSE /\ fix.subject = "player"
  <2>1. FirstState(r) \in Declared(r) /\ "idle" \in Poses
    BY DEF HeadGiven, Poses
  <2>2. WornFit(r, fix, "player", "first_person", "idle", FirstState(r), "front", FALSE)
    BY <2>1, WornPutUp
  <2>. QED
    BY <2>2 DEF WornFit
<1>2. EyeView(r, base, fov, metric) = d
  BY DEF EyeView, Worn
<1>3. Plain(plain, base, fix, {i}, {}) /\ plain.context = "world"
  <2>1. plain.context = "world"
    BY DEF Describe
  <2> HIDE DEF fix, i, shot
  <2>2. Plain(plain, base, fix, {i}, {})
    BY Drafted
  <2>. QED
    BY <2>1, <2>2
<1>4. i.id = <<base, metric>> /\ i.sources = sources /\ i.critical = FALSE
  BY DEF Intent
<1>5. IdOf(d) \in ids
  BY <1>2
<1> HIDE DEF fix, i, plain, anchors, ids
<1>6. /\ DOMAIN d = Fields /\ d.kind = "first_person_vanilla" /\ d.fov = fov /\ d.camera = "first_person"
      /\ d.player = "steve"
      /\ \A field \in Fields \ {"kind", "fov", "camera", "player"} : d[field] = plain[field]
  BY <1>3 DEF Plain, Fields
<1> HIDE DEF d
<1>7. /\ Filmed(d) /\ FirstPersonWorld(d) /\ d.base = base /\ d.fixture = fix /\ d.presentation = NoValue
      /\ d.intents = {i} /\ d.comparisons = {}
  BY <1>3, <1>6 DEF Plain, Fields, Filmed, FirstPersonWorld
<1>8. Viewed(r, d)
  BY <1>1, <1>6, <1>7 DEF Viewed, HeadGiven
<1>9. AtMost(3, {i}) /\ AtMost(3, {})
  BY NoMoreThanThree
<1>10. Drawn(r, d)
  BY <1>1, <1>6, <1>7, <1>8, <1>9 DEF Drawn
<1>11. IdOf(d) = own
  BY <1>6, <1>7 DEF IdOf
<1>12. Measurable(d, i, anchors, ids)
  BY <1>4, <1>5, <1>6, <1>7, <1>11 DEF Measurable, Boxed, Own, When
<1>13. Linked(d, anchors, ids)
  BY <1>6, <1>7, <1>9, <1>12 DEF Linked
<1>14. Ready(r, d, anchors, ids)
  BY <1>10, <1>13 DEF Ready
<1>. QED
  BY <1>2, <1>6, <1>7, <1>14 DEF anchors, ids

\* The scenes from the eyes are a group of at most three.
LEMMA HeadEyes ==
  ASSUME NEW r, HeadGiven(r), NoValue # "reference_arm"
  PROVE  /\ HeadGroup(r, EyeScenes(r), {"head_first_person", "head_first_person_wide", "head_camera_overlay"}, 3)
         /\ \A d \in EyeScenes(r) : d.kind = "first_person_vanilla"
<1> DEFINE own == EyeView(r, <<"head_first_person">>, 70, "first_person_obstruction")
           wide == EyeView(r, <<"head_first_person_wide">>, 100, "first_person_obstruction")
           overlay == EyeView(r, <<"head_camera_overlay">>, 70, "overlay_coverage")
           wides == When(r.review.wideFov, {wide})
           overlays == When(r.review.cameraOverlay # NoValue, {overlay})
           D == EyeScenes(r)
<1>1. D = ({own} \cup wides) \cup overlays
  BY DEF EyeScenes, EyeView
<1>2. \A d \in D : IdOf(d) \in HeadIds(r)
  BY DEF HeadIds
<1>3. own \in D /\ (wides # {} => wide \in D) /\ (overlays # {} => overlay \in D)
  <2> HIDE DEF own, wide, overlay
  <2>. QED
    BY <1>1 DEF When
<1> HIDE DEF D
<1>4. /\ Ready(r, own, HeadAnchors, HeadIds(r)) /\ own.base = <<"head_first_person">> /\ own.kind = "first_person_vanilla"
  BY <1>2, <1>3, EyesReady
<1>5. wides # {} => /\ Ready(r, wide, HeadAnchors, HeadIds(r)) /\ wide.base = <<"head_first_person_wide">>
                    /\ wide.kind = "first_person_vanilla"
  BY <1>2, <1>3, EyesReady
<1>6. overlays # {} => /\ Ready(r, overlay, HeadAnchors, HeadIds(r)) /\ overlay.base = <<"head_camera_overlay">>
                       /\ overlay.kind = "first_person_vanilla"
  BY <1>2, <1>3, EyesReady
<1> HIDE DEF own, wide, overlay
<1>7. \A d \in D : \/ d = own
                   \/ d = wide /\ wides # {}
                   \/ d = overlay /\ overlays # {}
  BY <1>1 DEF When
<1>8. AtMost(3, D)
  <2>1. AtMost(3, {own, wide, overlay}) /\ D \subseteq {own, wide, overlay}
    BY <1>7, AtMostFew
  <2>. QED
    BY <2>1, AtMostPart
<1>9. /\ \A d \in D : /\ SortOf(d.kind) = "stock" /\ d.kind = "first_person_vanilla"
                      /\ d.base[1] \in {"head_first_person", "head_first_person_wide", "head_camera_overlay"}
      /\ \A d \in D : Ready(r, d, HeadAnchors, HeadIds(r))
  BY <1>4, <1>5, <1>6, <1>7 DEF SortOf
<1>10. \A d, e \in D : d.base = e.base => d = e
  BY <1>4, <1>5, <1>6, <1>7
<1>. QED
  BY <1>8, <1>9, <1>10 DEF D, HeadGroup, Group, Family

\* With the chest armor that is declared.
LEMMA HeadChest ==
  ASSUME NEW r, HeadGiven(r), NoValue # "reference_arm", r.review.chestArmor
  PROVE  /\ HeadGroup(r, ChestScenes(r), {"head_chest"}, 2)
         /\ \A player \in Players : \E d \in ChestScenes(r) :
              /\ IdOf(d) = Vanilla(<<"head_chest", player>>) /\ d.player = player /\ d.fixture.chest
              /\ Vanilla(Body(player)) \in d.comparisons
<1> DEFINE base(player) == <<"head_chest", player>>
           fix == WornFixture("player", "full_body", "idle", FirstState(r), "front", TRUE)
           critical(player) == Critical(base(player), "pairwise_pixel_delta")
           touching(player) == Advisory(base(player), "self_intersection")
           alone(player) == Worn(base(player), fix, "third_person_front", player, {critical(player), touching(player)})
           Of(player) == Against(alone(player), Body(player))
           f == [player \in Players |-> Of(player)]
           D == ChestScenes(r)
           anchors == HeadAnchors
           ids == HeadIds(r)
<1>1. PutUp(r, fix) /\ Upright(r, fix) /\ fix.chest = TRUE
  <2>1. FirstState(r) \in Declared(r) /\ "idle" \in Poses
    BY DEF HeadGiven, Poses
  <2>2. WornFit(r, fix, "player", "full_body", "idle", FirstState(r), "front", TRUE)
    BY <2>1, WornPutUp
  <2>. QED
    BY <2>2 DEF WornFit
<1>2. ASSUME NEW player \in Players
      PROVE  /\ Plain(Of(player), base(player), fix, {critical(player), touching(player)}, {Vanilla(Body(player))})
             /\ Of(player).player = player
  <2> DEFINE intents == {critical(player), touching(player)}
             b == base(player)
             w == Worn(b, fix, "third_person_front", player, intents)
  <2> HIDE DEF intents, b, fix
  <2>1. Plain(w, b, fix, intents, {}) /\ w.player = player
    BY WornDrafted
  <2> HIDE DEF w
  <2>2. Plain(Against(w, Body(player)), b, fix, intents, {Vanilla(Body(player))})
    BY <2>1, Redrafted
  <2>3. Against(w, Body(player)).player = player
    BY <2>1 DEF Against, Plain, Fields
  <2>. QED
    BY <2>2, <2>3 DEF w, b, intents
<1>3. ASSUME NEW player \in Players
      PROVE  Scored(base(player), {critical(player), touching(player)}, {Vanilla(Body(player))}, anchors, ids)
  <2> DEFINE b == base(player)
             o == Vanilla(Body(player))
             i == critical(player)
             j == touching(player)
  <2>1. o # Vanilla(b) /\ o \in anchors
    BY DEF Vanilla, Body, HeadAnchors
  <2>2. Vanilla(b) \notin ids
    <3>1. \A d \in EyeScenes(r) : d.kind = "first_person_vanilla"
      BY HeadEyes
    <3>2. \A d \in EyeScenes(r) : IdOf(d) # Vanilla(b)
      BY <3>1 DEF IdOf, Vanilla
    <3>3. Vanilla(b) # Vanilla(<<"head", "steve", "front", "head">>)
      BY DEF Vanilla
    <3>. QED
      BY <3>2, <3>3 DEF HeadIds
  <2>3. "pairwise_pixel_delta" \notin Boxed \cup {"foreground_control"} /\ "pairwise_pixel_delta" \in ReadinessMetrics
        /\ "self_intersection" \notin Boxed \cup {"foreground_control"}
    BY DEF Boxed, ReadinessMetrics
  <2>4. i = Intent(b, "pairwise_pixel_delta", "pairwise_pixel_delta", {}, TRUE)
        /\ j = Intent(b, "self_intersection", "self_intersection", {}, FALSE)
    BY DEF Critical, Advisory
  <2> HIDE DEF b, o, i, j, anchors, ids
  <2>5. Score(i, b, {o}, anchors, ids) /\ i.id = <<b, "pairwise_pixel_delta">>
    BY <2>1, <2>2, <2>3, <2>4, ScoreAgainst
  <2>6. Score(j, b, {o}, anchors, ids) /\ j.id = <<b, "self_intersection">>
    BY <2>1, <2>2, <2>3, <2>4, ScoreAgainst
  <2>7. Scored(b, {i, j}, {o}, anchors, ids)
    <3>1. i.id # j.id
      BY <2>5, <2>6
    <3>2. AtMost(3, {i, j})
      BY NoMoreThanThree
    <3>. QED
      BY <2>5, <2>6, <3>1, <3>2 DEF Scored
  <2>. QED
    BY <2>7 DEF b, o, i, j
<1>4. \A player \in Players : Vanilla(Body(player)) \in anchors /\ Body(player) # base(player)
  BY DEF HeadAnchors, Body
<1>5. \A d \in D : \E player \in Players : d = f[player]
  BY DEF ChestScenes
<1>6. \A player \in Players : f[player] = Of(player) /\ Of(player) \in D
  BY DEF ChestScenes
<1> HIDE DEF D, f, Of, critical, touching, fix, anchors, ids
<1>7. \A player \in Players : Ready(r, f[player], anchors, ids)
  BY <1>1, <1>2, <1>3, <1>4, <1>6, AgainstReady
<1>8. \A player \in Players : f[player].kind = "minecraft_vanilla" /\ f[player].base = <<"head_chest", player>>
  BY <1>2, <1>6 DEF Plain
<1>9. Group(r, D, "stock", {"head_chest"}, 2, anchors, ids)
  <2>1. 2 \in Nat /\ AtMost(2, Players)
    BY PlayersFew
  <2>. QED
    BY <1>5, <1>7, <1>8, <2>1, GroupNamed
<1>10. ASSUME NEW player \in Players
       PROVE  \E d \in D :
                /\ IdOf(d) = Vanilla(<<"head_chest", player>>) /\ d.player = player /\ d.fixture.chest
                /\ Vanilla(Body(player)) \in d.comparisons
  <2>1. IdOf(Of(player)) = Vanilla(<<"head_chest", player>>)
    BY <1>6, <1>8 DEF IdOf, Vanilla
  <2>2. Of(player).fixture.chest /\ Vanilla(Body(player)) \in Of(player).comparisons /\ Of(player).player = player
    BY <1>1, <1>2 DEF Plain
  <2>. QED
    BY <1>6, <2>1, <2>2
<1>. QED
  BY <1>9, <1>10 DEF D, HeadGroup, anchors, ids

\* The scenes on stands are a group of two, one for each side.
LEMMA HeadOnStands ==
  ASSUME NEW r, HeadGiven(r), NoValue # "reference_arm"
  PROVE  /\ HeadGroup(r, HeadStands(r), {"head_stand"}, 2)
         /\ \A angle \in {"front", "side"} : \E d \in HeadStands(r) : OnStand(r, d, angle)
<1> DEFINE angles == {"front", "side"}
           base(angle) == <<"head_stand", angle>>
           fix(angle) == WornFixture("armor_stand", "full_body", "idle", FirstState(r), angle, FALSE)
           Of(angle) == Worn(base(angle), fix(angle), "neutral", "steve", {Advisory(base(angle), "armor_stand_alignment")})
           f == [angle \in angles |-> Of(angle)]
           D == HeadStands(r)
           anchors == HeadAnchors
           ids == HeadIds(r)
<1>1. ASSUME NEW angle \in angles
      PROVE  /\ PutUp(r, fix(angle)) /\ Upright(r, fix(angle))
             /\ fix(angle).state = FirstState(r) /\ fix(angle).subject = "armor_stand"
             /\ fix(angle).framing = "full_body" /\ fix(angle).pose = "idle" /\ fix(angle).angle = angle
             /\ fix(angle).chest = FALSE
  <2>1. FirstState(r) \in Declared(r) /\ "idle" \in Poses
    BY DEF HeadGiven, Poses
  <2>2. WornFit(r, fix(angle), "armor_stand", "full_body", "idle", FirstState(r), angle, FALSE)
    BY <2>1, WornPutUp
  <2>3. PutUp(r, fix(angle)) /\ Upright(r, fix(angle))
    BY <2>2 DEF WornFit
  <2>. QED
    BY <2>3 DEF WornFixture
<1>2. ASSUME NEW angle \in angles
      PROVE  /\ Plain(Of(angle), base(angle), fix(angle), {Advisory(base(angle), "armor_stand_alignment")}, {})
             /\ Of(angle).camera = "neutral" /\ Of(angle).context = "world" /\ Of(angle).shot = <<angle, "full_body">>
  <2> DEFINE b == base(angle)
             g == fix(angle)
             intents == {Advisory(b, "armor_stand_alignment")}
             c == "neutral"
             p == "steve"
  <2>1. g.angle = angle /\ g.framing = "full_body"
    BY <1>1
  <2>2. c \in {"third_person_back", "third_person_front", "neutral"} /\ p \in Players
    BY DEF Players
  <2> HIDE DEF b, g, intents, c, p
  <2>3. /\ Plain(Worn(b, g, c, p, intents), b, g, intents, {})
        /\ Worn(b, g, c, p, intents).camera = c /\ Worn(b, g, c, p, intents).context = "world"
        /\ Worn(b, g, c, p, intents).shot = <<g.angle, g.framing>>
    BY <2>2, WornDrafted
  <2>. QED
    BY <2>1, <2>3 DEF b, g, intents, c, p
<1>3. ASSUME NEW angle \in angles PROVE Ready(r, Of(angle), anchors, ids)
  <2> DEFINE b == base(angle)
             metrics == {"armor_stand_alignment"}
             intents == {Advisory(b, metric) : metric \in metrics}
             d == Of(angle)
             g == fix(angle)
  <2>1. intents = {Advisory(b, "armor_stand_alignment")}
    OBVIOUS
  <2>2. AtMost(3, metrics) /\ metrics \cap (Boxed \cup {"foreground_control"}) = {}
    BY NoMoreThanThree DEF Boxed
  <2>3. Plain(d, b, g, intents, {})
    BY <1>2, <2>1
  <2>4. PutUp(r, g) /\ Upright(r, g)
    BY <1>1
  <2> HIDE DEF b, d, g, metrics
  <2>5. Ready(r, d, HeadAnchors, HeadIds(r))
    BY <2>2, <2>3, <2>4, WornReady
  <2>. QED
    BY <2>5 DEF d
<1>4. \A d \in D : \E angle \in angles : d = f[angle]
  BY DEF HeadStands
<1>5. \A angle \in angles : f[angle] = Of(angle) /\ Of(angle) \in D
  BY DEF HeadStands
<1>6. ASSUME NEW angle \in angles PROVE Vanilla(base(angle)) \notin ids
  <2>1. \A d \in EyeScenes(r) : d.kind = "first_person_vanilla"
    BY HeadEyes
  <2>2. \A d \in EyeScenes(r) : IdOf(d) # Vanilla(base(angle))
    BY <2>1 DEF IdOf, Vanilla
  <2>3. Vanilla(base(angle)) # Vanilla(<<"head", "steve", "front", "head">>)
    BY DEF Vanilla
  <2>. QED
    BY <2>2, <2>3 DEF HeadIds
<1> HIDE DEF D, f, Of, fix, anchors, ids
<1>7. \A angle \in angles : f[angle].kind = "minecraft_vanilla" /\ f[angle].base = <<"head_stand", angle>>
  BY <1>2, <1>5 DEF Plain
<1>8. Group(r, D, "stock", {"head_stand"}, 2, anchors, ids)
  <2>1. 2 \in Nat /\ AtMost(2, angles)
    BY AtMostFew
  <2>2. \A angle \in angles : Ready(r, f[angle], anchors, ids)
    BY <1>3, <1>5
  <2> HIDE DEF angles
  <2>. QED
    BY <1>4, <1>7, <2>1, <2>2, GroupNamed
<1>9. ASSUME NEW angle \in angles PROVE OnStand(r, Of(angle), angle)
  <2>1. IdOf(Of(angle)) = Vanilla(<<"head_stand", angle>>)
    BY <1>5, <1>7 DEF IdOf, Vanilla
  <2>2. Of(angle).fixture = fix(angle)
    BY <1>2 DEF Plain
  <2>3. IdOf(Of(angle)) \notin HeadIds(r)
    BY <1>6, <2>1 DEF ids
  <2>. QED
    BY <1>1, <1>2, <2>1, <2>2, <2>3 DEF OnStand
<1>. QED
  BY <1>5, <1>8, <1>9 DEF D, HeadGroup, anchors, ids

\* The scenes of the other states are a group of at most 31.
LEMMA HeadInStates ==
  ASSUME NEW r, HeadGiven(r), NoValue # "reference_arm", AtMost(31, Declared(r) \ {FirstState(r)})
  PROVE  HeadGroup(r, HeadStates(r), {"head_state"}, 31)
<1> DEFINE base(state) == <<"head_state", state>>
           others == Declared(r) \ {FirstState(r)}
           fix(state) == WornFixture("player", "full_body", r.review.statePoses[state], state, "front", FALSE)
           metrics == {"pairwise_pixel_delta"}
           worn(state) == Worn(base(state), fix(state), "third_person_front", "steve",
                               {Advisory(base(state), "pairwise_pixel_delta")})
           Of(state) == Against(worn(state), Body("steve"))
           f == [state \in others |-> Of(state)]
           D == HeadStates(r)
           anchors == HeadAnchors
           ids == HeadIds(r)
<1>1. ASSUME NEW state \in others PROVE PutUp(r, fix(state)) /\ Upright(r, fix(state))
  <2>1. state \in Declared(r) /\ r.review.statePoses[state] \in Poses
    BY DEF HeadGiven
  <2>2. WornFit(r, fix(state), "player", "full_body", r.review.statePoses[state], state, "front", FALSE)
    BY <2>1, WornPutUp
  <2>. QED
    BY <2>2 DEF WornFit
<1>2. ASSUME NEW state \in others
      PROVE  Plain(Of(state), base(state), fix(state), {Advisory(base(state), metric) : metric \in metrics}, {Vanilla(Body("steve"))})
  <2> DEFINE b == base(state)
             g == fix(state)
             intents == {Advisory(b, "pairwise_pixel_delta")}
             w == worn(state)
             c == "third_person_front"
             p == "steve"
  <2>1. c \in {"third_person_back", "third_person_front", "neutral"} /\ p \in Players
    BY DEF Players
  <2>2. w = Worn(b, g, c, p, intents)
    OBVIOUS
  <2>0. {Advisory(b, metric) : metric \in metrics} = intents
    OBVIOUS
  <2> HIDE DEF b, g, intents, w, c, p
  <2>3. Plain(w, b, g, intents, {})
    BY <2>1, <2>2, WornDrafted
  <2>4. Plain(Against(w, Body("steve")), b, g, intents, {Vanilla(Body("steve"))})
    BY <2>3, Redrafted
  <2>. QED
    BY <2>0, <2>4 DEF b, g, w
<1>3. AtMost(3, metrics) /\ metrics \cap (Boxed \cup {"foreground_control"}) = {}
  BY NoMoreThanThree DEF Boxed
<1>4. \A state : Body("steve") # base(state) /\ Vanilla(Body("steve")) \in anchors /\ base(state) = <<"head_state", state>>
  BY DEF HeadAnchors, Body, Players
<1>5. \A d \in D : \E state \in others : d = f[state]
  BY DEF HeadStates
<1>6. \A state \in others : f[state] = Of(state)
  OBVIOUS
<1>7. AtMost(31, others) /\ 31 \in Nat
  OBVIOUS
<1> HIDE DEF f, base, fix, others, D, Of, metrics
<1>8. ASSUME NEW state \in others PROVE Ready(r, f[state], HeadAnchors, HeadIds(r))
  <2> DEFINE b == base(state)
             d == Of(state)
             g == fix(state)
  <2>1. Plain(d, b, g, {Advisory(b, metric) : metric \in metrics}, {Vanilla(Body("steve"))})
    BY <1>2
  <2>2. Body("steve") # b /\ Vanilla(Body("steve")) \in HeadAnchors
    BY <1>4
  <2>3. PutUp(r, g) /\ Upright(r, g) /\ f[state] = d
    BY <1>1, <1>6
  <2> HIDE DEF b, d, g
  <2>4. Ready(r, d, HeadAnchors, HeadIds(r))
    BY <1>3, <2>1, <2>2, <2>3, WornReady
  <2>. QED
    BY <2>3, <2>4
<1>9. \A state \in others : f[state].kind = "minecraft_vanilla" /\ f[state].base = <<"head_state", state>>
  BY <1>2, <1>4, <1>6 DEF Plain
<1> HIDE DEF anchors, ids
<1>10. Group(r, D, "stock", {"head_state"}, 31, anchors, ids)
  BY <1>5, <1>7, <1>8, <1>9, GroupNamed DEF anchors, ids
<1>. QED
  BY <1>10 DEF D, HeadGroup, anchors, ids

\* Every description is kept by a scene of the plan.
LEMMA LowerKeeps ==
  ASSUME NEW r, NEW settling, NEW D, NEW ids, NEW d \in D, DOMAIN d = Fields
  PROVE  \E s \in LowerAll(r, settling, D, ids) : Keeps(s, d)
<1> DEFINE S == {Lower(r, settling, e) : e \in D}
           s == Lower(r, settling, d)
<1>1. s \in S
  OBVIOUS
<1>2. LowerAll(r, settling, D, ids) = WithControls(S, ids)
  BY DEF LowerAll
<1>3. IsLowered(s, r, settling, d)
  BY LowerFields
<1> HIDE DEF S, s
<1>4. Seen(s, ids) \in LowerAll(r, settling, D, ids)
  <2>1. WithControls(S, ids) = {Seen(x, ids) : x \in S} \cup {ControlOf(x) : x \in {y \in S : IdOf(y) \in ids}}
    BY WithTheControls
  <2>. QED
    BY <1>1, <1>2, <2>1
<1>5. Keeps(Seen(s, ids), d)
  <2>1. /\ DOMAIN s = SceneFields /\ \A field \in Fields : s[field] = d[field]
    BY <1>3 DEF IsLowered
  <2>2. CASE IdOf(s) \notin ids
    BY <2>1, <2>2 DEF Seen, Keeps, Fields
  <2>3. CASE IdOf(s) \in ids
    <3> DEFINE v == [s EXCEPT !.comparisons = @ \cup {Control(s.base)}]
    <3>1. v.comparisons = s.comparisons \cup {Control(s.base)} /\ \A field \in SceneFields \ {"comparisons"} : v[field] = s[field]
      BY <2>1 DEF SceneFields, Fields
    <3>2. Seen(s, ids) = v
      BY <2>3 DEF Seen
    <3> HIDE DEF v
    <3>. QED
      BY <2>1, <3>1, <3>2 DEF Keeps, SceneFields, Fields
  <2>. QED
    BY <2>2, <2>3
<1>. QED
  BY <1>4, <1>5

\* Groups of headwear together.
LEMMA HeadTogether ==
  ASSUME NEW r, NEW D, NEW E, NEW V, NEW W, NEW m \in Nat, NEW n \in Nat,
         HeadGroup(r, D, V, m), HeadGroup(r, E, W, n), V \cap W = {}
  PROVE  HeadGroup(r, D \cup E, V \cup W, m + n)
BY GroupUnion DEF HeadGroup

\* Controls are for a head and for what the wearer sees.
LEMMA HeadIdsFew ==
  ASSUME NEW r, AtMost(3, EyeScenes(r))
  PROVE  AtMost(4, HeadIds(r))
<1> DEFINE E == EyeScenes(r)
           own == Vanilla(<<"head", "steve", "front", "head">>)
           f == [d \in E |-> IdOf(d)]
           ids == {f[d] : d \in E}
<1>1. {IdOf(d) : d \in E} = ids
  OBVIOUS
<1>2. 3 \in Nat /\ 1 \in Nat /\ AtMost(1, {own})
  BY AtMostFew
<1> HIDE DEF f, E
<1>3. AtMost(3, ids)
  BY <1>2, AtMostImage DEF E
<1> HIDE DEF ids, own
<1>4. AtMost(1 + 3, {own} \cup ids)
  BY <1>2, <1>3, AtMostUnion
<1>. QED
  BY <1>1, <1>4 DEF HeadIds, own, E

\* The stands and the chest armor that are asked for are shown.
LEMMA HeadShown ==
  ASSUME NEW r, NEW settling, NEW D, NEW ids, \A d \in D : DOMAIN d = Fields,
         \A angle \in {"front", "side"} : \E d \in D : OnStand(r, d, angle),
         r.review.chestArmor =>
           \A player \in Players : \E d \in D :
              /\ IdOf(d) = Vanilla(<<"head_chest", player>>) /\ d.player = player /\ d.fixture.chest
              /\ Vanilla(Body(player)) \in d.comparisons
  PROVE  HeadwearEvidenceAccepted(r, LowerAll(r, settling, D, ids))
<1> DEFINE L == LowerAll(r, settling, D, ids)
<1>1. \A d \in D : \E s \in L : Keeps(s, d)
  BY LowerKeeps
<1> HIDE DEF L
<1>2. \A s, d : Keeps(s, d) => /\ IdOf(s) = IdOf(d) /\ s.camera = d.camera /\ s.context = d.context /\ s.shot = d.shot
                               /\ s.fixture = d.fixture /\ s.player = d.player /\ d.comparisons \subseteq s.comparisons
  BY DEF Keeps, Fields, IdOf
<1>3. ASSUME NEW angle \in {"front", "side"}
      PROVE  \E s \in SceneNamed(L, Vanilla(<<"head_stand", angle>>)) :
               /\ s.camera = "neutral" /\ s.context = "world" /\ s.shot = <<angle, "full_body">>
               /\ s.fixture.state = FirstState(r)
               /\ s.fixture.subject = "armor_stand" /\ s.fixture.framing = "full_body"
               /\ s.fixture.pose = "idle" /\ s.fixture.angle = angle /\ ~s.fixture.chest
  <2>1. PICK d \in D : OnStand(r, d, angle)
    OBVIOUS
  <2>2. PICK s \in L : Keeps(s, d)
    BY <1>1
  <2>3. s \in SceneNamed(L, Vanilla(<<"head_stand", angle>>))
    BY <1>2, <2>1, <2>2 DEF OnStand, SceneNamed
  <2>. QED
    BY <1>2, <2>1, <2>2, <2>3 DEF OnStand
<1>4. ASSUME r.review.chestArmor, NEW player \in {"steve", "alex"}
      PROVE  \E s \in SceneNamed(L, Vanilla(<<"head_chest", player>>)) :
               /\ s.player = player /\ s.fixture.chest
               /\ Vanilla(<<"head", player, "front", "full_body">>) \in s.comparisons
  <2>1. PICK d \in D : /\ IdOf(d) = Vanilla(<<"head_chest", player>>) /\ d.player = player /\ d.fixture.chest
                       /\ Vanilla(Body(player)) \in d.comparisons
    BY <1>4 DEF Players
  <2>2. PICK s \in L : Keeps(s, d)
    BY <1>1
  <2>3. s \in SceneNamed(L, Vanilla(<<"head_chest", player>>))
    BY <1>2, <2>1, <2>2 DEF SceneNamed
  <2>. QED
    BY <1>2, <2>1, <2>2, <2>3 DEF Body
<1>. QED
  BY <1>3, <1>4 DEF HeadwearEvidenceAccepted, L

\* The scenes of accepted headwear are a plan with the evidence for headwear.
LEMMA HeadwearPlannable ==
  ASSUME NEW q, NEW r, ~q.scaleViews, HeadGiven(r), NoValue # "reference_arm", AtMost(31, Declared(r) \ {FirstState(r)})
  PROVE  Plannable(q, r) /\ HeadwearEvidenceAccepted(r, HeadwearScenes(q, r))
<1> DEFINE eyes == EyeScenes(r)
           around == HeadViews(r)
           bare == BareHeads(r)
           chests == When(r.review.chestArmor, ChestScenes(r))
           stands == HeadStands(r)
           states == HeadStates(r)
           D == ((((eyes \cup around) \cup bare) \cup chests) \cup stands) \cup states
           ids == HeadIds(r)
<1>1. ASSUME NEW p PROVE HeadwearScenes(p, r) = LowerAll(r, p.settling, D, ids)
  <2>1. PlayerScenes(r) = around \cup bare
    BY DEF PlayerScenes, HeadViews, HeadView, BareHeads
  <2>2. StandAndStateScenes(r) = stands \cup states
    BY DEF StandAndStateScenes, HeadStands, HeadStates
  <2>3. HeadwearScenes(p, r) = LowerAll(r, p.settling,
          eyes \cup PlayerScenes(r) \cup chests \cup StandAndStateScenes(r), ids)
    BY DEF HeadwearScenes, LowerAll, HeadIds
  <2> HIDE DEF eyes, around, bare, chests, stands, states
  <2>4. D = eyes \cup PlayerScenes(r) \cup chests \cup StandAndStateScenes(r)
    BY <2>1, <2>2
  <2> HIDE DEF D
  <2>. QED
    BY <2>3, <2>4
<1>2. /\ HeadGroup(r, eyes, {"head_first_person", "head_first_person_wide", "head_camera_overlay"}, 3)
      /\ \A d \in eyes : d.kind = "first_person_vanilla"
  BY HeadEyes
<1>3. /\ HeadGroup(r, around, {"head"}, 12)
      /\ \A player \in Players, framing \in {"head", "full_body"} :
           \E d \in around : IdOf(d) = Vanilla(<<"head", player, "front", framing>>)
  BY HeadAround
<1>4. HeadGroup(r, bare, {"head_bare"}, 2)
  BY HeadBare
<1>5. r.review.chestArmor =>
        /\ HeadGroup(r, ChestScenes(r), {"head_chest"}, 2)
        /\ \A player \in Players : \E d \in ChestScenes(r) :
              /\ IdOf(d) = Vanilla(<<"head_chest", player>>) /\ d.player = player /\ d.fixture.chest
              /\ Vanilla(Body(player)) \in d.comparisons
  BY HeadChest
<1>6. HeadGroup(r, chests, {"head_chest"}, 2)
  BY <1>5, GroupWhen DEF HeadGroup
<1>7. /\ HeadGroup(r, stands, {"head_stand"}, 2)
      /\ \A angle \in {"front", "side"} : \E d \in stands : OnStand(r, d, angle)
  BY HeadOnStands
<1>8. HeadGroup(r, states, {"head_state"}, 31)
  BY HeadInStates
<1>9. r.review.chestArmor => chests = ChestScenes(r)
  BY DEF When
<1>10. AtMost(4, ids)
  BY <1>2, HeadIdsFew DEF HeadGroup, Group, Family
<1>11. ids = {Vanilla(<<"head", "steve", "front", "head">>)} \cup {IdOf(d) : d \in eyes}
  BY DEF HeadIds
<1> HIDE DEF eyes, around, bare, chests, stands, states, ids
<1> DEFINE seen == {"head_first_person", "head_first_person_wide", "head_camera_overlay"}
           words == seen \cup {"head", "head_bare", "head_chest", "head_stand", "head_state"}
<1>12. HeadGroup(r, D, words, 52)
  <2>1. HeadGroup(r, eyes \cup around, seen \cup {"head"}, 3 + 12)
    BY <1>2, <1>3, HeadTogether
  <2>2. HeadGroup(r, eyes \cup around, seen \cup {"head"}, 15)
    BY <2>1
  <2>3. HeadGroup(r, (eyes \cup around) \cup bare, (seen \cup {"head"}) \cup {"head_bare"}, 15 + 2)
    BY <1>4, <2>2, HeadTogether
  <2>4. HeadGroup(r, (eyes \cup around) \cup bare, seen \cup {"head", "head_bare"}, 17)
    BY <2>3
  <2>5. HeadGroup(r, ((eyes \cup around) \cup bare) \cup chests,
                  (seen \cup {"head", "head_bare"}) \cup {"head_chest"}, 17 + 2)
    BY <1>6, <2>4, HeadTogether
  <2>6. HeadGroup(r, ((eyes \cup around) \cup bare) \cup chests, seen \cup {"head", "head_bare", "head_chest"}, 19)
    BY <2>5
  <2>7. HeadGroup(r, (((eyes \cup around) \cup bare) \cup chests) \cup stands,
                  (seen \cup {"head", "head_bare", "head_chest"}) \cup {"head_stand"}, 19 + 2)
    BY <1>7, <2>6, HeadTogether
  <2>8. HeadGroup(r, (((eyes \cup around) \cup bare) \cup chests) \cup stands,
                  seen \cup {"head", "head_bare", "head_chest", "head_stand"}, 21)
    BY <2>7
  <2>9. HeadGroup(r, D, (seen \cup {"head", "head_bare", "head_chest", "head_stand"}) \cup {"head_state"}, 21 + 31)
    BY <1>8, <2>8, HeadTogether
  <2>10. words = (seen \cup {"head", "head_bare", "head_chest", "head_stand"}) \cup {"head_state"}
    OBVIOUS
  <2>. QED
    BY <2>9, <2>10
<1>13. /\ \A d \in eyes : d \in D
       /\ \A d \in around : d \in D
       /\ \A d \in stands : d \in D
       /\ \A d \in chests : d \in D
  OBVIOUS
<1>14. \E d \in around : IdOf(d) = Vanilla(<<"head", "steve", "front", "head">>)
  BY <1>3 DEF Players
<1> HIDE DEF D, words
<1>15. Supported(D, HeadAnchors, ids)
  <2>1. ASSUME NEW id \in HeadAnchors PROVE id.kind = "minecraft_vanilla" /\ \E d \in D : IdOf(d) = id
    <3>1. \E player \in Players, framing \in {"head", "full_body"} : id = Vanilla(<<"head", player, "front", framing>>)
      BY DEF HeadAnchors, Body
    <3>. QED
      BY <1>3, <1>13, <3>1 DEF Vanilla
  <2>2. ASSUME NEW id \in ids PROVE id.kind \in {"first_person_vanilla", "minecraft_vanilla"} /\ \E d \in D : IdOf(d) = id
    <3>1. CASE id = Vanilla(<<"head", "steve", "front", "head">>)
      BY <1>13, <1>14, <3>1 DEF Vanilla
    <3>2. CASE id \in {IdOf(d) : d \in eyes}
      BY <1>2, <1>13, <3>2 DEF IdOf
    <3>. QED
      BY <1>11, <3>1, <3>2
  <2>. QED
    BY <2>1, <2>2 DEF Supported
<1>16. D # {} /\ r.target = "headwear"
  BY <1>13, <1>14 DEF HeadGiven
<1>17. Plannable(q, r)
  <2>1. Lowers(q, r, D, ids)
    BY <1>1 DEF Lowers, ScenesOf, HeadGiven
  <2>2. r.strategy \notin DisplayKinds /\ 52 \in Nat /\ 4 \in Nat /\ 52 + 4 <= 64
    BY DEF HeadGiven, DisplayKinds
  <2>3. Group(r, D, "stock", words, 52, HeadAnchors, ids)
    BY <1>12 DEF HeadGroup, ids
  <2>. QED
    BY <1>10, <1>15, <1>16, <2>1, <2>2, <2>3, GroupLaid
<1>18. HeadwearEvidenceAccepted(r, LowerAll(r, q.settling, D, ids))
  <2>1. \A d \in D : DOMAIN d = Fields
    BY <1>12 DEF HeadGroup, Group, Ready, Drawn
  <2>2. \A angle \in {"front", "side"} : \E d \in D : OnStand(r, d, angle)
    BY <1>7, <1>13
  <2>3. ASSUME r.review.chestArmor, NEW player \in Players
        PROVE  \E d \in D :
              /\ IdOf(d) = Vanilla(<<"head_chest", player>>) /\ d.player = player /\ d.fixture.chest
              /\ Vanilla(Body(player)) \in d.comparisons
    BY <1>5, <1>9, <1>13, <2>3
  <2>. QED
    BY <2>1, <2>2, <2>3, HeadShown
<1>. QED
  BY <1>1, <1>17, <1>18

-----------------------------------------------------------------------------
(* Entities.                                                                *)

\* A stock scene with one measurement is ready, alone or compared with an anchor.
LEMMA AdvisedReady ==
  ASSUME NEW r, NoValue # "reference_arm", NEW anchors, NEW ids, NEW d, NEW base, NEW f, NEW metric,
         metric \notin Boxed \cup {"foreground_control"}, PutUp(r, f), Upright(r, f)
  PROVE  /\ Plain(d, base, f, {Advisory(base, metric)}, {}) => Ready(r, d, anchors, ids)
         /\ \A other : Plain(d, base, f, {Advisory(base, metric)}, {Vanilla(other)})
                /\ other # base /\ Vanilla(other) \in anchors => Ready(r, d, anchors, ids)
<1> DEFINE intents == {Advisory(base, metric)}
<1>1. \A comparisons : Scored(base, intents, comparisons, anchors, ids)
  BY AdvisedOne
<1> HIDE DEF intents
<1>2. Plain(d, base, f, intents, {}) => Ready(r, d, anchors, ids)
  BY <1>1, AloneReady
<1>3. \A other : Plain(d, base, f, intents, {Vanilla(other)}) /\ other # base /\ Vanilla(other) \in anchors
                   => Ready(r, d, anchors, ids)
  BY <1>1, AgainstReady
<1>. QED
  BY <1>2, <1>3 DEF intents

\* A stock scene with one critical measurement against an anchor is ready.
LEMMA CriticalReady ==
  ASSUME NEW r, NoValue # "reference_arm", NEW anchors, NEW ids, NEW d, NEW base, NEW f, NEW metric, NEW other,
         metric \in ReadinessMetrics, PutUp(r, f), Upright(r, f), Vanilla(base) \notin ids,
         Plain(d, base, f, {Critical(base, metric)}, {Vanilla(other)}), other # base, Vanilla(other) \in anchors
  PROVE  Ready(r, d, anchors, ids)
<1> DEFINE i == Critical(base, metric)
           o == Vanilla(other)
<1>1. metric \notin Boxed \cup {"foreground_control"}
  BY DEF Boxed, ReadinessMetrics
<1>2. o # Vanilla(base)
  BY DEF Vanilla
<1>3. i = Intent(base, metric, metric, {}, TRUE)
  BY DEF Critical
<1> HIDE DEF i, o
<1>4. Score(i, base, {o}, anchors, ids)
  BY <1>1, <1>2, <1>3, ScoreAgainst DEF o
<1>5. Scored(base, {i}, {o}, anchors, ids)
  BY <1>4, NoMoreThanThree DEF Scored
<1>6. Plain(d, base, f, {i}, {Vanilla(other)}) /\ Scored(base, {i}, {Vanilla(other)}, anchors, ids)
  BY <1>5 DEF i, o
<1>. QED
  BY <1>6, AgainstReady

\* Stock scenes of several things with one advisory measurement are a group.
LEMMA GroupAdvised ==
  ASSUME NEW r, NoValue # "reference_arm", NEW anchors, NEW ids, NEW D, NEW X, NEW f, NEW g, NEW word, NEW metric,
         NEW n \in Nat, NEW comparisons, AtMost(n, X), ImageOf(D, X, f), PutEach(r, X, g),
         metric \notin Boxed \cup {"foreground_control"},
         AdvisedEach(X, f, g, word, metric, comparisons), AnchorEach(X, word, comparisons, anchors)
  PROVE  Group(r, D, "stock", {word}, n, anchors, ids)
<1>1. ASSUME NEW x \in X PROVE Ready(r, f[x], anchors, ids) /\ f[x].kind = "minecraft_vanilla" /\ f[x].base = <<word, x>>
  <2> DEFINE b == <<word, x>>
             d == f[x]
             h == g[x]
  <2>1. Plain(d, b, h, {Advisory(b, metric)}, comparisons) /\ PutUp(r, h) /\ Upright(r, h)
    BY DEF AdvisedEach, PutEach
  <2>2. comparisons = {} \/ \E other : comparisons = {Vanilla(other)} /\ Vanilla(other) \in anchors /\ other # b
    BY DEF AnchorEach
  <2> HIDE DEF b, d, h
  <2>3. Ready(r, d, anchors, ids)
    BY <2>1, <2>2, AdvisedReady
  <2>. QED
    BY <2>1, <2>3 DEF d, b, Plain
<1>2. \A d \in D : \E x \in X : d = f[x]
  BY DEF ImageOf
<1>. QED
  BY <1>1, <1>2, GroupNamed

\* A fixture that is made so has the shape the protocol asks for.
LEMMA EntityPutUp ==
  ASSUME NEW r, EntityGiven(r), NEW f, NEW pose \in Stances, NEW turn \in Turns, NEW scale \in BOOLEAN,
         NEW tick \in Ticks(1200), NEW state \in Declared(r), r.strategy = "display_rig" => tick = 0,
         EntityMade(r, f, pose, turn, scale, tick, state)
  PROVE  EntityFit(r, f, scale)
<1>1. /\ DOMAIN f = {"kind", "target", "state", "pose", "turn", "scale", "tick"}
      /\ f.kind = r.strategy /\ f.target = "entity" /\ f.state = state /\ f.pose = pose
      /\ f.turn = turn /\ f.scale = scale /\ f.tick = tick
  BY DEF EntityMade
<1>2. ShapeOf(f) = EntityShape
  BY <1>1 DEF ShapeOf, EntityGiven
<1>3. /\ DOMAIN EntityShape = {"pose", "turn", "scale", "tick"}
      /\ EntityShape.pose = Stances /\ EntityShape.turn = Turns /\ EntityShape.scale = BOOLEAN
      /\ EntityShape.tick = Ticks(1200)
  BY DEF EntityShape, Stances, Turns
<1>4. \A field \in DOMAIN EntityShape : f[field] \in EntityShape[field]
  BY <1>1, <1>3
<1>5. f.kind # "measurement_control" /\ DOMAIN f = {"kind", "target", "state"} \cup DOMAIN EntityShape
  BY <1>1, <1>3 DEF EntityGiven
<1>6. FixtureShaped(f)
  BY <1>2, <1>4, <1>5 DEF FixtureShaped
<1>7. Arranged(f)
  <2>1. f.kind \in DisplayKinds \cup {"native_block_state"} => f.kind = "display_rig"
    BY <1>1 DEF EntityGiven, DisplayKinds
  <2>. QED
    BY <1>1, <2>1 DEF Arranged
<1>8. PutUp(r, f)
  BY <1>1, <1>6, <1>7 DEF PutUp, EntityGiven
<1>9. ~scale => Upright(r, f)
  BY <1>1 DEF Upright, EntityGiven
<1>. QED
  BY <1>1, <1>8, <1>9 DEF EntityFit

\* The idle entity, turned, beside the scale or in another state.
LEMMA IdlePutUp ==
  ASSUME NEW r, EntityGiven(r)
  PROVE  /\ EntityFit(r, IdleEntity(r), FALSE)
         /\ \A turn \in Turns : EntityFit(r, [IdleEntity(r) EXCEPT !.turn = turn], FALSE)
         /\ EntityFit(r, [IdleEntity(r) EXCEPT !.scale = TRUE], TRUE)
         /\ \A state \in Declared(r) : EntityFit(r, [IdleEntity(r) EXCEPT !.state = state], FALSE)
<1> DEFINE own == PoseState(r, "idle")
           Made(f, turn, scale, state) == EntityMade(r, f, "idle", turn, scale, 0, state)
<1>1. "idle" \in Stances /\ 0 \in Turns /\ own \in Declared(r) /\ 0 \in Ticks(1200)
  <2>1. 0 \in Turns
    <3>1. 0 = 45 * 0 /\ 0 \in 0..7
      OBVIOUS
    <3>. QED
      BY <3>1 DEF Turns
  <2>2. 0 \in Ticks(1200)
    BY DEF Ticks
  <2>3. "idle" \in Stances
    BY DEF Stances
  <2>. QED
    BY <2>1, <2>2, <2>3 DEF EntityGiven
<1>2. ASSUME NEW f, NEW turn \in Turns, NEW scale \in BOOLEAN, NEW state \in Declared(r), Made(f, turn, scale, state)
      PROVE  EntityFit(r, f, scale)
  BY <1>1, <1>2, EntityPutUp
<1>3. Made(IdleEntity(r), 0, FALSE, own)
  BY DEF IdleEntity, EntityFixture, EntityMade
<1> HIDE DEF own
<1>4. EntityFit(r, IdleEntity(r), FALSE)
  <2> HIDE DEF Made
  <2>. QED
    BY <1>1, <1>2, <1>3
<1>5. ASSUME NEW turn \in Turns PROVE EntityFit(r, [IdleEntity(r) EXCEPT !.turn = turn], FALSE)
  <2> DEFINE e == [IdleEntity(r) EXCEPT !.turn = turn]
  <2>1. Made(e, turn, FALSE, own)
    BY <1>3 DEF EntityMade
  <2> HIDE DEF e, Made
  <2>2. EntityFit(r, e, FALSE)
    BY <1>1, <1>2, <2>1
  <2>. QED
    BY <2>2 DEF e
<1>6. EntityFit(r, [IdleEntity(r) EXCEPT !.scale = TRUE], TRUE)
  <2> DEFINE e == [IdleEntity(r) EXCEPT !.scale = TRUE]
  <2>1. Made(e, 0, TRUE, own)
    BY <1>3 DEF EntityMade
  <2> HIDE DEF e, Made
  <2>2. EntityFit(r, e, TRUE)
    BY <1>1, <1>2, <2>1
  <2>. QED
    BY <2>2 DEF e
<1>7. ASSUME NEW state \in Declared(r) PROVE EntityFit(r, [IdleEntity(r) EXCEPT !.state = state], FALSE)
  <2> DEFINE e == [IdleEntity(r) EXCEPT !.state = state]
  <2>1. Made(e, 0, FALSE, state)
    BY <1>3 DEF EntityMade
  <2> HIDE DEF e, Made
  <2>2. EntityFit(r, e, FALSE)
    BY <1>1, <1>2, <2>1
  <2>. QED
    BY <2>2 DEF e
<1>. QED
  BY <1>4, <1>5, <1>6, <1>7

\* Eight turns, three stances, at most seven further samples.
LEMMA TurnsFew ==
  AtMost(8, Turns) /\ AtMost(3, Stances) /\ \A n \in Nat : n <= 8 => AtMost(7, 2..n)
<1>1. AtMost(8, Turns)
  <2> DEFINE f == [k \in 0..7 |-> 45 * k]
             X == 0..7
  <2>1. 0 \in Int /\ 7 \in Int /\ 8 \in Nat
    OBVIOUS
  <2>2. IsFiniteSet(0..7) /\ Cardinality(0..7) = IF 0 > 7 THEN 0 ELSE 7 - 0 + 1
    BY <2>1, FS_Interval, Zenon
  <2>3. AtMost(8, X)
    BY <2>2 DEF AtMost
  <2>4. Turns = {f[k] : k \in X}
    BY DEF Turns
  <2> HIDE DEF f, X
  <2>5. AtMost(8, {f[k] : k \in X})
    BY <2>1, <2>3, AtMostImage
  <2>. QED
    BY <2>4, <2>5
<1>2. AtMost(3, Stances)
  BY AtMostFew DEF Stances
<1>3. ASSUME NEW n \in Nat, n <= 8 PROVE AtMost(7, 2..n)
  <2>1. n \in Int /\ 2 \in Int
    OBVIOUS
  <2>2. IsFiniteSet(2..n) /\ Cardinality(2..n) = IF 2 > n THEN 0 ELSE n - 2 + 1
    BY <2>1, FS_Interval, Zenon
  <2>. QED
    BY <1>3, <2>2 DEF AtMost
<1>. QED
  BY <1>1, <1>2, <1>3

\* The turned entities are a group of eight.
LEMMA EntityAround ==
  ASSUME NEW r, NEW q, EntityGiven(r), NoValue # "reference_arm"
  PROVE  /\ EntityGroup(r, q, EntityTurns(r), {"entity"}, 8)
         /\ \A turn \in Turns : EntityTurned(r, turn) \in EntityTurns(r)
         /\ \A turn \in Turns : IdOf(EntityTurned(r, turn)) = Vanilla(<<"entity", turn>>)
<1> DEFINE X == Turns
           D == EntityTurns(r)
           f == [turn \in X |-> EntityTurned(r, turn)]
           g == [turn \in X |-> [IdleEntity(r) EXCEPT !.turn = turn]]
           word == "entity"
           metric == "frame_retention"
           none == {}
           anchors == EntityAnchors
           ids == EntityIds(q)
<1>1. ASSUME NEW turn \in X PROVE Plain(f[turn], <<word, turn>>, g[turn], {Advisory(<<word, turn>>, metric)}, none)
  <2> DEFINE b == <<"entity", turn>>
             h == [IdleEntity(r) EXCEPT !.turn = turn]
             intents == {Advisory(b, "frame_retention")}
             shot == <<"front">>
  <2>1. f[turn] = Describe(b, shot, h, intents) /\ g[turn] = h
    BY DEF EntityTurned, Framed
  <2> HIDE DEF b, h, intents, shot
  <2>2. Plain(Describe(b, shot, h, intents), b, h, intents, {})
    BY Drafted
  <2> HIDE DEF f, g
  <2>3. Plain(f[turn], b, g[turn], intents, {})
    BY <2>1, <2>2
  <2>. QED
    BY <2>3 DEF b, intents
<1>2. PutEach(r, X, g)
  <2> SUFFICES ASSUME NEW turn \in X PROVE PutUp(r, g[turn]) /\ Upright(r, g[turn])
    BY DEF PutEach
  <2> DEFINE h == [IdleEntity(r) EXCEPT !.turn = turn]
  <2>1. EntityFit(r, h, FALSE)
    BY IdlePutUp
  <2>2. g[turn] = h
    OBVIOUS
  <2> HIDE DEF h, g
  <2>. QED
    BY <2>1, <2>2 DEF EntityFit
<1>3. ImageOf(D, X, f)
  BY DEF ImageOf, EntityTurns
<1>4. metric \notin Boxed \cup {"foreground_control"} /\ AnchorEach(X, word, none, anchors)
  BY DEF Boxed, AnchorEach
<1>5. \A turn \in X : f[turn] \in D /\ f[turn] = EntityTurned(r, turn)
  BY DEF EntityTurns
<1>6. AtMost(8, X) /\ 8 \in Nat
  BY TurnsFew
<1> HIDE DEF X, f, g, D, metric, none, anchors, ids
<1>7. AdvisedEach(X, f, g, word, metric, none)
  BY <1>1 DEF AdvisedEach
<1>8. Group(r, D, "stock", {word}, 8, anchors, ids)
  BY <1>2, <1>3, <1>4, <1>6, <1>7, GroupAdvised
<1>9. \A turn \in X : IdOf(f[turn]) = Vanilla(<<"entity", turn>>)
  BY <1>1 DEF Plain, IdOf, Vanilla
<1>. QED
  BY <1>5, <1>8, <1>9 DEF X, D, EntityGroup, anchors, ids

\* The ticks of the review can be ticks of a fixture, which a rig does not have.
LEMMA TicksGiven ==
  ASSUME NEW r, EntityGiven(r)
  PROVE  /\ FirstTick(r) \in Ticks(1200) /\ (r.strategy = "display_rig" => FirstTick(r) = 0)
         /\ \A k \in 2..Len(r.review.animationTicks) : r.review.animationTicks[k] \in Ticks(1200)
         /\ r.strategy = "display_rig" => 2..Len(r.review.animationTicks) = {}
         /\ AtMost(7, 2..Len(r.review.animationTicks))
         /\ 0 \in Ticks(1200) /\ 0 \in Turns
<1> DEFINE ticks == r.review.animationTicks
           T == Ticks(1200)
<1>1. ticks \in Seq(T) /\ Len(ticks) <= 8 /\ (r.strategy = "display_rig" => ticks = <<>>)
  BY DEF EntityGiven
<1>2. 0 \in T
  BY DEF Ticks
<1>3. FirstTick(r) = IF ticks = <<>> THEN 0 ELSE ticks[1]
  BY DEF FirstTick
<1>4. 0 \in Turns
  <2>1. 0 = 45 * 0 /\ 0 \in 0..7
    OBVIOUS
  <2>. QED
    BY <2>1 DEF Turns
<1> HIDE DEF ticks, T
<1>5. Len(ticks) \in Nat /\ (ticks # <<>> => ticks[1] \in T) /\ \A k \in 2..Len(ticks) : ticks[k] \in T
  BY <1>1
<1>6. r.strategy = "display_rig" => 2..Len(ticks) = {}
  BY <1>1
<1>7. AtMost(7, 2..Len(ticks))
  BY <1>1, <1>5, TurnsFew
<1>. QED
  BY <1>1, <1>2, <1>3, <1>4, <1>5, <1>6, <1>7 DEF ticks, T

\* The poses are a group of three, with the walk among them.
LEMMA EntityPosed ==
  ASSUME NEW r, NEW q, EntityGiven(r), NoValue # "reference_arm"
  PROVE  /\ EntityGroup(r, q, EntityStances(r), {"entity_pose"}, 3)
         /\ \E d \in EntityStances(r) : IdOf(d) = Vanilla(<<"entity_pose", "walk">>)
<1> DEFINE X == Stances
           D == EntityStances(r)
           fix(pose) == EntityFixture(r, pose, 0, FALSE, IF pose = "idle" THEN 0 ELSE FirstTick(r), PoseState(r, pose))
           Of(pose) == Describe(<<"entity_pose", pose>>, <<"front">>, fix(pose),
                                {Advisory(<<"entity_pose", pose>>, "self_intersection")})
           f == [pose \in X |-> Of(pose)]
           g == [pose \in X |-> fix(pose)]
           word == "entity_pose"
           metric == "self_intersection"
           none == {}
           anchors == EntityAnchors
           ids == EntityIds(q)
<1>1. ASSUME NEW pose \in X PROVE Plain(f[pose], <<word, pose>>, g[pose], {Advisory(<<word, pose>>, metric)}, none)
  <2> DEFINE b == <<"entity_pose", pose>>
             h == fix(pose)
             intents == {Advisory(b, "self_intersection")}
             shot == <<"front">>
  <2>1. f[pose] = Describe(b, shot, h, intents) /\ g[pose] = h
    OBVIOUS
  <2> HIDE DEF b, h, intents, shot
  <2>2. Plain(Describe(b, shot, h, intents), b, h, intents, {})
    BY Drafted
  <2> HIDE DEF f, g
  <2>3. Plain(f[pose], b, g[pose], intents, {})
    BY <2>1, <2>2
  <2>. QED
    BY <2>3 DEF b, intents
<1>2. PutEach(r, X, g)
  <2> SUFFICES ASSUME NEW pose \in X PROVE PutUp(r, g[pose]) /\ Upright(r, g[pose])
    BY DEF PutEach
  <2> DEFINE tick == IF pose = "idle" THEN 0 ELSE FirstTick(r)
             own == PoseState(r, pose)
             h == EntityFixture(r, pose, 0, FALSE, tick, own)
             T == Ticks(1200)
  <2>1. tick \in T /\ (r.strategy = "display_rig" => tick = 0) /\ 0 \in Turns
    BY TicksGiven
  <2>2. own \in Declared(r)
    BY DEF EntityGiven
  <2>3. g[pose] = h
    OBVIOUS
  <2>4. EntityMade(r, h, pose, 0, FALSE, tick, own)
    BY DEF EntityFixture, EntityMade
  <2> HIDE DEF tick, own, h, g
  <2>5. ASSUME NEW scale \in BOOLEAN, EntityMade(r, h, pose, 0, scale, tick, own) PROVE EntityFit(r, h, scale)
    BY <2>1, <2>2, <2>5, EntityPutUp
  <2>6. EntityFit(r, h, FALSE)
    BY <2>4, <2>5
  <2>. QED
    BY <2>3, <2>6 DEF EntityFit
<1>3. ImageOf(D, X, f)
  BY DEF ImageOf, EntityStances
<1>4. metric \notin Boxed \cup {"foreground_control"} /\ AnchorEach(X, word, none, anchors)
  BY DEF Boxed, AnchorEach
<1>5. f["walk"] \in D /\ "walk" \in X
  BY DEF EntityStances, Stances
<1>6. AtMost(3, X) /\ 3 \in Nat
  BY TurnsFew
<1> HIDE DEF X, f, g, D, metric, none, anchors, ids
<1>7. AdvisedEach(X, f, g, word, metric, none)
  BY <1>1 DEF AdvisedEach
<1>8. Group(r, D, "stock", {word}, 3, anchors, ids)
  BY <1>2, <1>3, <1>4, <1>6, <1>7, GroupAdvised
<1>9. IdOf(f["walk"]) = Vanilla(<<"entity_pose", "walk">>)
  BY <1>1, <1>5 DEF Plain, IdOf, Vanilla
<1>. QED
  BY <1>5, <1>8, <1>9 DEF D, EntityGroup, anchors, ids

\* The samples of the walk are a group of at most seven.
LEMMA EntitySampled ==
  ASSUME NEW r, NEW q, EntityGiven(r), NoValue # "reference_arm"
  PROVE  EntityGroup(r, q, EntitySamples(r), {"entity_walk_sample"}, 7)
<1> DEFINE X == 2..Len(r.review.animationTicks)
           D == EntitySamples(r)
           fix(k) == EntityFixture(r, "walk", 0, FALSE, r.review.animationTicks[k], PoseState(r, "walk"))
           drafted(k) == Describe(<<"entity_walk_sample", k>>, <<"front">>, fix(k),
                                  {Critical(<<"entity_walk_sample", k>>, "animation_stability")})
           Of(k) == Against(drafted(k), <<"entity_pose", "walk">>)
           f == [k \in X |-> Of(k)]
           word == "entity_walk_sample"
           anchors == EntityAnchors
           ids == EntityIds(q)
<1>1. ASSUME NEW k \in X PROVE PutUp(r, fix(k)) /\ Upright(r, fix(k))
  <2> DEFINE tick == r.review.animationTicks[k]
             own == PoseState(r, "walk")
             h == EntityFixture(r, "walk", 0, FALSE, tick, own)
  <2>1. tick \in Ticks(1200) /\ r.strategy # "display_rig" /\ 0 \in Turns
    BY TicksGiven
  <2>2. own \in Declared(r) /\ "walk" \in Stances
    BY DEF EntityGiven, Stances
  <2>3. EntityMade(r, h, "walk", 0, FALSE, tick, own)
    BY DEF EntityFixture, EntityMade
  <2>4. fix(k) = h
    OBVIOUS
  <2> HIDE DEF tick, own, h, fix
  <2>5. ASSUME NEW scale \in BOOLEAN, EntityMade(r, h, "walk", 0, scale, tick, own) PROVE EntityFit(r, h, scale)
    BY <2>1, <2>2, <2>5, EntityPutUp
  <2>6. EntityFit(r, h, FALSE)
    BY <2>3, <2>5
  <2>. QED
    BY <2>4, <2>6 DEF EntityFit
<1>2. ASSUME NEW k \in X
      PROVE  /\ Ready(r, f[k], anchors, ids)
             /\ f[k].kind = "minecraft_vanilla" /\ f[k].base = <<word, k>>
  <2> DEFINE b == <<"entity_walk_sample", k>>
             h == fix(k)
             metric == "animation_stability"
             intents == {Critical(b, metric)}
             shot == <<"front">>
             w == drafted(k)
             other == <<"entity_pose", "walk">>
             d == Against(w, other)
  <2>1. w = Describe(b, shot, h, intents) /\ f[k] = d
    OBVIOUS
  <2>2. PutUp(r, h) /\ Upright(r, h)
    BY <1>1
  <2>3. metric \in ReadinessMetrics /\ other # b /\ Vanilla(other) \in anchors /\ Vanilla(b) \notin ids
    BY DEF ReadinessMetrics, EntityAnchors, EntityIds, Vanilla, Front, When
  <2> HIDE DEF b, h, intents, shot, w, d, other, f, anchors, ids, metric, fix
  <2>4. Plain(Describe(b, shot, h, intents), b, h, intents, {})
    BY Drafted
  <2>5. Plain(w, b, h, intents, {})
    BY <2>1, <2>4
  <2>6. Plain(d, b, h, intents, {Vanilla(other)})
    BY <2>5, Redrafted DEF d
  <2>7. Ready(r, d, anchors, ids)
    BY <2>2, <2>3, <2>6, CriticalReady DEF intents
  <2>. QED
    BY <2>1, <2>6, <2>7 DEF Plain, b
<1>3. \A d \in D : \E k \in X : d = f[k]
  BY DEF EntitySamples
<1>4. AtMost(7, X) /\ 7 \in Nat
  BY TicksGiven
<1> HIDE DEF X, f, D, anchors, ids
<1>5. Group(r, D, "stock", {word}, 7, anchors, ids)
  BY <1>2, <1>3, <1>4, GroupNamed
<1>. QED
  BY <1>5 DEF D, EntityGroup, anchors, ids

\* The scenes of the other states are a group of at most 31.
LEMMA EntityInStates ==
  ASSUME NEW r, NEW q, EntityGiven(r), NoValue # "reference_arm", AtMost(31, Declared(r) \ {FirstState(r)})
  PROVE  EntityGroup(r, q, EntityStates(r), {"entity_state"}, 31)
<1> DEFINE X == EntityOthers(r)
           D == EntityStates(r)
           fix(state) == [IdleEntity(r) EXCEPT !.state = state]
           Of(state) == Against(Describe(<<"entity_state", state>>, <<"front">>, fix(state),
                                         {Advisory(<<"entity_state", state>>, "texture_variant_resolution")}), Front)
           f == [state \in X |-> Of(state)]
           g == [state \in X |-> fix(state)]
           word == "entity_state"
           metric == "texture_variant_resolution"
           fronts == {Vanilla(Front)}
           anchors == EntityAnchors
           ids == EntityIds(q)
<1>1. ASSUME NEW state \in X PROVE Plain(f[state], <<word, state>>, g[state], {Advisory(<<word, state>>, metric)}, fronts)
  <2> DEFINE b == <<"entity_state", state>>
             h == fix(state)
             intents == {Advisory(b, "texture_variant_resolution")}
             shot == <<"front">>
             w == Describe(b, shot, h, intents)
  <2>1. f[state] = Against(w, Front) /\ g[state] = h
    OBVIOUS
  <2> HIDE DEF b, h, intents, shot, f, g
  <2>2. Plain(w, b, h, intents, {})
    BY Drafted
  <2> HIDE DEF w
  <2>3. Plain(Against(w, Front), b, h, intents, {Vanilla(Front)})
    BY <2>2, Redrafted
  <2>4. Plain(f[state], b, g[state], intents, fronts)
    BY <2>1, <2>3
  <2>. QED
    BY <2>4 DEF b, intents
<1>2. PutEach(r, X, g)
  <2> SUFFICES ASSUME NEW state \in X PROVE PutUp(r, g[state]) /\ Upright(r, g[state])
    BY DEF PutEach
  <2> DEFINE h == [IdleEntity(r) EXCEPT !.state = state]
  <2>1. state \in Declared(r)
    BY DEF EntityOthers
  <2>2. EntityFit(r, h, FALSE)
    BY <2>1, IdlePutUp
  <2>3. g[state] = h
    OBVIOUS
  <2> HIDE DEF h, g
  <2>. QED
    BY <2>2, <2>3 DEF EntityFit
<1>3. ImageOf(D, X, f)
  BY DEF ImageOf, EntityStates
<1>4. metric \notin Boxed \cup {"foreground_control"}
  BY DEF Boxed
<1>5. AnchorEach(X, word, fronts, anchors)
  <2>1. Vanilla(Front) \in anchors /\ \A x \in X : Front # <<word, x>>
    BY DEF EntityAnchors, Front
  <2>. QED
    BY <2>1 DEF AnchorEach
<1>6. AtMost(31, X) /\ 31 \in Nat
  <2>1. X \subseteq Declared(r) \ {FirstState(r)} /\ 31 \in Nat
    BY DEF EntityOthers
  <2> HIDE DEF X
  <2>. QED
    BY <2>1, AtMostPart
<1> HIDE DEF X, f, g, D, metric, fronts, anchors, ids
<1>7. AdvisedEach(X, f, g, word, metric, fronts)
  BY <1>1 DEF AdvisedEach
<1>8. Group(r, D, "stock", {word}, 31, anchors, ids)
  BY <1>2, <1>3, <1>4, <1>5, <1>6, <1>7, GroupAdvised
<1>. QED
  BY <1>8 DEF D, EntityGroup, anchors, ids

\* The shadow and the low light are groups of one.
LEMMA EntityLights ==
  ASSUME NEW r, NEW q, EntityGiven(r), NoValue # "reference_arm"
  PROVE  /\ EntityGroup(r, q, {EntityShadow(r)}, {"entity_ground_shadow"}, 1)
         /\ EntityGroup(r, q, {EntityLow(r)}, {"entity_low_light"}, 1)
<1> DEFINE fix == IdleEntity(r)
           anchors == EntityAnchors
           ids == EntityIds(q)
           shot == <<"front">>
<1>1. PutUp(r, fix) /\ Upright(r, fix)
  BY IdlePutUp DEF EntityFit
<1>2. /\ Ready(r, EntityShadow(r), anchors, ids)
      /\ EntityShadow(r).kind = "minecraft_vanilla" /\ EntityShadow(r).base = <<"entity_ground_shadow">>
  <2> DEFINE b == <<"entity_ground_shadow">>
             metric == "silhouette_grounding"
             intents == {Advisory(b, metric)}
             d == Describe(b, shot, fix, intents)
  <2>1. EntityShadow(r) = d
    BY DEF EntityShadow
  <2>2. metric \notin Boxed \cup {"foreground_control"}
    BY DEF Boxed
  <2> HIDE DEF b, metric, intents, fix, anchors, ids, shot
  <2>3. Plain(d, b, fix, intents, {})
    BY Drafted
  <2> HIDE DEF d
  <2>4. Ready(r, d, anchors, ids)
    BY <1>1, <2>2, <2>3, AdvisedReady DEF intents
  <2>. QED
    BY <2>1, <2>3, <2>4 DEF Plain, b
<1>3. /\ Ready(r, EntityLow(r), anchors, ids)
      /\ EntityLow(r).kind = "minecraft_vanilla" /\ EntityLow(r).base = <<"entity_low_light">>
  <2> DEFINE b == <<"entity_low_light">>
             metric == "pairwise_pixel_delta"
             intents == {Critical(b, metric)}
             w == Describe(b, shot, fix, intents)
             x == Against(w, Front)
             d == [x EXCEPT !.low = TRUE]
  <2>1. EntityLow(r) = d
    BY DEF EntityLow
  <2>2. metric \in ReadinessMetrics /\ Front # b /\ Vanilla(Front) \in anchors /\ Vanilla(b) \notin ids
    BY DEF ReadinessMetrics, EntityAnchors, EntityIds, Vanilla, Front, When
  <2> HIDE DEF b, metric, intents, fix, anchors, ids, shot
  <2>3. Plain(w, b, fix, intents, {})
    BY Drafted
  <2> HIDE DEF w
  <2>4. Plain(x, b, fix, intents, {Vanilla(Front)})
    BY <2>3, Redrafted
  <2> HIDE DEF x
  <2>5. Plain(d, b, fix, intents, {Vanilla(Front)})
    BY <2>4, Redrafted
  <2> HIDE DEF d
  <2>6. Ready(r, d, anchors, ids)
    BY <1>1, <2>2, <2>5, CriticalReady DEF intents
  <2>. QED
    BY <2>1, <2>5, <2>6 DEF Plain, b
<1> HIDE DEF anchors, ids
<1>4. /\ Group(r, {EntityShadow(r)}, SortOf(EntityShadow(r).kind), {EntityShadow(r).base[1]}, 1, anchors, ids)
      /\ Group(r, {EntityLow(r)}, SortOf(EntityLow(r).kind), {EntityLow(r).base[1]}, 1, anchors, ids)
  BY <1>2, <1>3, GroupOne
<1>5. /\ SortOf(EntityShadow(r).kind) = "stock" /\ EntityShadow(r).base[1] = "entity_ground_shadow"
      /\ SortOf(EntityLow(r).kind) = "stock" /\ EntityLow(r).base[1] = "entity_low_light"
  BY <1>2, <1>3 DEF SortOf
<1>. QED
  BY <1>4, <1>5 DEF EntityGroup, anchors, ids

\* The scene beside a player is a group of one.
LEMMA EntityBesideScale ==
  ASSUME NEW r, NEW q, EntityGiven(r), NoValue # "reference_arm"
  PROVE  EntityGroup(r, q, {EntityScaled(r)}, {"entity_player_scale"}, 1)
<1> DEFINE fix == [IdleEntity(r) EXCEPT !.scale = TRUE]
           b == <<"entity_player_scale">>
           i == Advisory(b, "player_scale")
           shot == <<"front">>
           x == Describe(b, shot, fix, {i})
           w == Against(x, Front)
           d == [w EXCEPT !.kind = "world_scale_reference"]
           o == Vanilla(Front)
           anchors == EntityAnchors
           ids == EntityIds(q)
<1>1. PutUp(r, fix) /\ fix.scale = TRUE /\ "scale" \in DOMAIN fix /\ r.target = "entity"
  <2>1. EntityFit(r, fix, TRUE)
    BY IdlePutUp
  <2>2. "scale" \in DOMAIN fix
    BY DEF IdleEntity, EntityFixture
  <2>. QED
    BY <2>1, <2>2 DEF EntityFit, EntityGiven
<1>2. EntityScaled(r) = d
  BY DEF EntityScaled
<1>3. o \in anchors /\ o.kind = "minecraft_vanilla" /\ b[1] = "entity_player_scale"
  BY DEF EntityAnchors, Vanilla
<1>4. i.id = <<b, "player_scale">> /\ i.sources = {} /\ i.critical = FALSE
  BY DEF Advisory, Intent
<1> HIDE DEF fix, b, i, shot, anchors, ids
<1>5. Plain(x, b, fix, {i}, {})
  BY Drafted
<1> HIDE DEF x
<1>6. Plain(w, b, fix, {i}, {o})
  BY <1>5, Redrafted
<1> HIDE DEF w, o
<1>7. /\ DOMAIN w = Fields /\ Filmed(w) /\ ~FirstPersonWorld(w)
      /\ w.base = b /\ w.fixture = fix /\ w.presentation = NoValue
      /\ w.intents = {i} /\ w.comparisons = {o}
  BY <1>6 DEF Plain
<1>8. DOMAIN d = Fields /\ d.kind = "world_scale_reference" /\ \A field \in Fields \ {"kind"} : d[field] = w[field]
  BY <1>7 DEF Fields
<1> HIDE DEF d
<1>9. /\ Filmed(d) /\ ~FirstPersonWorld(d) /\ d.base = b /\ d.fixture = fix /\ d.presentation = NoValue
      /\ d.intents = {i} /\ d.comparisons = {o}
  BY <1>7, <1>8 DEF Fields, Filmed, FirstPersonWorld
<1>10. Viewed(r, d)
  BY <1>1, <1>8, <1>9 DEF Viewed
<1>11. IdOf(d).kind = "world_scale_reference"
  BY <1>8 DEF IdOf
<1>12. AtMost(3, {i}) /\ AtMost(3, {o})
  BY NoMoreThanThree
<1>13. Drawn(r, d)
  BY <1>1, <1>3, <1>8, <1>9, <1>10, <1>11, <1>12 DEF Drawn
<1>14. Measurable(d, i, anchors, ids)
  BY <1>4, <1>8, <1>9 DEF Measurable, Boxed
<1>15. Linked(d, anchors, ids)
  BY <1>3, <1>8, <1>9, <1>12, <1>14 DEF Linked
<1>16. Ready(r, d, anchors, ids)
  BY <1>13, <1>15 DEF Ready
<1>17. Group(r, {d}, SortOf(d.kind), {d.base[1]}, 1, anchors, ids)
  BY <1>16, GroupOne
<1>18. SortOf(d.kind) = "stock" /\ d.base[1] = "entity_player_scale"
  BY <1>3, <1>8, <1>9 DEF SortOf
<1>. QED
  BY <1>2, <1>17, <1>18 DEF EntityGroup, anchors, ids

\* With its hitbox, which its stock scene shows without.
LEMMA EntityBoxed ==
  ASSUME NEW r, NEW q, EntityGiven(r), NoValue # "reference_arm", q.hitboxViews, NEW turn \in {0, 90}
  PROVE  /\ Ready(r, EntityHitbox(r, turn), EntityAnchors, EntityIds(q))
         /\ EntityHitbox(r, turn).base = <<"entity", turn>>
         /\ EntityHitbox(r, turn).kind = "debug_hitbox_reference"
         /\ Twin(EntityHitbox(r, turn), EntityTurned(r, turn))
<1> DEFINE b == <<"entity", turn>>
           fix == [IdleEntity(r) EXCEPT !.turn = turn]
           own == [kind |-> "debug_hitbox_reference", base |-> b]
           frames == {own, Vanilla(b), Control(b)}
           i == Intent(b, "hitbox_containment", "hitbox_containment", frames, FALSE)
           j == Intent(b, "hitbox_empty_space", "hitbox_empty_space", frames, FALSE)
           shot == <<"front">>
           intents == {i, j}
           others == {Vanilla(b), Control(b)}
           w == Describe(b, shot, fix, intents)
           d == [w EXCEPT !.kind = "debug_hitbox_reference", !.comparisons = others]
           anchors == EntityAnchors
           ids == EntityIds(q)
<1>1. PutUp(r, fix) /\ Upright(r, fix) /\ r.target = "entity"
  <2>1. turn \in Turns
    <3>1. 0 = 45 * 0 /\ 90 = 45 * 2 /\ 0 \in 0..7 /\ 2 \in 0..7
      OBVIOUS
    <3>. QED
      BY <3>1 DEF Turns
  <2>2. EntityFit(r, fix, FALSE)
    BY <2>1, IdlePutUp
  <2>. QED
    BY <2>2 DEF EntityFit, EntityGiven
<1>2. EntityHitbox(r, turn) = d
  <2>1. {Intent(b, metric, metric, frames, FALSE) : metric \in {"hitbox_containment", "hitbox_empty_space"}} = intents
    OBVIOUS
  <2>2. EntityHitbox(r, turn) =
          [Describe(b, shot, fix, {Intent(b, metric, metric, frames, FALSE) :
                                     metric \in {"hitbox_containment", "hitbox_empty_space"}}) EXCEPT
             !.kind = "debug_hitbox_reference", !.comparisons = others]
    BY DEF EntityHitbox
  <2> HIDE DEF intents, b, fix, frames, others, shot
  <2>. QED
    BY <2>1, <2>2
<1>3. Vanilla(b) \in anchors /\ Vanilla(b) \in ids /\ Vanilla(b).base = b
  BY DEF EntityAnchors, EntityIds, Vanilla, Front, When
<1>4. /\ i.id = <<b, "hitbox_containment">> /\ i.sources = frames /\ i.critical = FALSE
      /\ j.id = <<b, "hitbox_empty_space">> /\ j.sources = frames /\ j.critical = FALSE
  BY DEF Intent
<1>5. own \notin others /\ frames = {own} \cup others
  BY DEF Vanilla, Control
<1>6. /\ \A field \in Fields \ {"kind", "intents", "comparisons", "presentation"} :
           w[field] = EntityTurned(r, turn)[field]
      /\ EntityTurned(r, turn).base = b /\ EntityTurned(r, turn).kind = "minecraft_vanilla"
      /\ EntityTurned(r, turn).presentation = NoValue
  <2> DEFINE framed == Framed(b)
  <2>1. EntityTurned(r, turn) = Describe(b, shot, fix, framed)
    BY DEF EntityTurned
  <2> HIDE DEF b, fix, intents, framed, shot
  <2> DEFINE Common(x) ==
               /\ x.base = b /\ x.camera = "neutral" /\ x.context = "world" /\ x.hand = "right" /\ x.player = "steve"
               /\ x.fov = 70 /\ x.guiScale = "given" /\ x.shot = shot /\ x.low = FALSE /\ x.biome = "plains"
               /\ x.animation = <<"idle", 0>> /\ x.fixture = fix
  <2>4. \A some : Common(Describe(b, shot, fix, some))
    BY DEF Describe
  <2>2. ASSUME NEW x, NEW y, Common(x), Common(y), NEW field \in Fields \ {"kind", "intents", "comparisons", "presentation"}
        PROVE  x[field] = y[field]
    <3>1. /\ x.base = y.base /\ x.camera = y.camera /\ x.context = y.context /\ x.hand = y.hand /\ x.player = y.player
          /\ x.fov = y.fov /\ x.guiScale = y.guiScale /\ x.shot = y.shot /\ x.low = y.low /\ x.biome = y.biome
          /\ x.animation = y.animation /\ x.fixture = y.fixture
      BY <2>2
    <3>2. field \in {"base", "camera", "context", "hand", "player", "fov", "guiScale", "shot", "low", "biome",
                     "animation", "fixture"}
      BY DEF Fields
    <3>. QED
      BY <3>1, <3>2
  <2>3. /\ Describe(b, shot, fix, framed).base = b /\ Describe(b, shot, fix, framed).kind = "minecraft_vanilla"
        /\ Describe(b, shot, fix, framed).presentation = NoValue
    BY DEF Describe
  <2>5. Common(w) /\ Common(EntityTurned(r, turn))
    BY <2>1, <2>4
  <2> HIDE DEF Common
  <2>. QED
    BY <2>1, <2>2, <2>3, <2>5
<1>7. others = {Vanilla(b), Control(b)} /\ own.kind = "debug_hitbox_reference" /\ own.base = b
  OBVIOUS
<1>8. AtMost(3, intents) /\ AtMost(3, others)
  <2> DEFINE v == Vanilla(b)
             c == Control(b)
  <2>1. intents = {i, j} /\ others = {v, c}
    OBVIOUS
  <2> HIDE DEF i, j, v, c, intents, others
  <2>. QED
    BY <2>1, NoMoreThanThree
<1>9. \A x \in intents : x = i \/ x = j
  OBVIOUS
<1>10. Plain(w, b, fix, intents, {})
  <2> HIDE DEF b, fix, intents, shot
  <2>. QED
    BY Drafted
<1>11. own = [kind |-> "debug_hitbox_reference", base |-> b]
  OBVIOUS
<1> HIDE DEF b, fix, frames, i, j, shot, intents, others, own, anchors, ids, w
<1>12. /\ DOMAIN w = Fields /\ Filmed(w) /\ ~FirstPersonWorld(w)
       /\ w.base = b /\ w.fixture = fix /\ w.presentation = NoValue /\ w.intents = intents
  BY <1>10 DEF Plain
<1>13. /\ DOMAIN d = Fields /\ d.kind = "debug_hitbox_reference" /\ d.comparisons = others
       /\ \A field \in Fields \ {"kind", "comparisons"} : d[field] = w[field]
  BY <1>12 DEF Fields
<1> HIDE DEF d
<1>14. /\ Filmed(d) /\ ~FirstPersonWorld(d) /\ d.base = b /\ d.fixture = fix /\ d.presentation = NoValue
       /\ d.intents = intents
  BY <1>12, <1>13 DEF Fields, Filmed, FirstPersonWorld
<1>15. Viewed(r, d)
  BY <1>1, <1>13, <1>14 DEF Viewed, Upright
<1>16. IdOf(d) = own
  BY <1>11, <1>13, <1>14 DEF IdOf
<1>17. Drawn(r, d)
  <2>1. \A x, y \in intents : x.id = y.id => x = y
    BY <1>4, <1>9
  <2>. QED
    BY <1>1, <1>5, <1>8, <1>13, <1>14, <1>15, <1>16, <2>1 DEF Drawn
<1>18. ASSUME NEW a \in intents PROVE Measurable(d, a, anchors, ids)
  <2>1. /\ a.id = <<b, a.id[2]>> /\ a.id[2] \in {"hitbox_containment", "hitbox_empty_space"}
        /\ a.sources = frames /\ a.critical = FALSE
    BY <1>4, <1>9
  <2>2. IdOf(d) \in frames /\ frames \subseteq Own(d, ids)
    BY <1>5, <1>13, <1>16 DEF Own
  <2>. QED
    BY <1>13, <1>14, <2>1, <2>2 DEF Measurable, Boxed
<1>19. Linked(d, anchors, ids)
  BY <1>3, <1>7, <1>8, <1>13, <1>14, <1>18 DEF Linked
<1>20. Ready(r, d, anchors, ids)
  BY <1>17, <1>19 DEF Ready
<1>21. Twin(d, EntityTurned(r, turn))
  BY <1>6, <1>13, <1>14 DEF Twin
<1>. QED
  BY <1>2, <1>13, <1>14, <1>20, <1>21 DEF b, anchors, ids

\* Groups of an entity together.
LEMMA EntityTogether ==
  ASSUME NEW r, NEW q, NEW D, NEW E, NEW V, NEW W, NEW m \in Nat, NEW n \in Nat,
         EntityGroup(r, q, D, V, m), EntityGroup(r, q, E, W, n), V \cap W = {}
  PROVE  EntityGroup(r, q, D \cup E, V \cup W, m + n)
BY GroupUnion DEF EntityGroup

\* There are at most two, of turned entities.
LEMMA EntityInBoxes ==
  ASSUME NEW r, NEW q, EntityGiven(r), NoValue # "reference_arm"
  PROVE  /\ Group(r, EntityBoxes(r, q), "debug_hitbox_reference", {"entity"}, 2, EntityAnchors, EntityIds(q))
         /\ \A e \in EntityBoxes(r, q) : \E turn \in Turns : Twin(e, EntityTurned(r, turn))
<1> DEFINE a == EntityHitbox(r, 0)
           b == EntityHitbox(r, 90)
           E == {a, b}
           anchors == EntityAnchors
           ids == EntityIds(q)
<1>1. 0 \in Turns /\ 90 \in Turns
  <2>1. 0 = 45 * 0 /\ 90 = 45 * 2 /\ 0 \in 0..7 /\ 2 \in 0..7
    OBVIOUS
  <2>. QED
    BY <2>1 DEF Turns
<1>2. q.hitboxViews =>
        /\ Ready(r, a, anchors, ids) /\ a.base = <<"entity", 0>> /\ a.kind = "debug_hitbox_reference"
        /\ Twin(a, EntityTurned(r, 0))
        /\ Ready(r, b, anchors, ids) /\ b.base = <<"entity", 90>> /\ b.kind = "debug_hitbox_reference"
        /\ Twin(b, EntityTurned(r, 90))
  BY EntityBoxed
<1>3. AtMost(2, E) /\ 2 \in Nat
  BY AtMostFew
<1>4. EntityBoxes(r, q) = When(q.hitboxViews, E)
  BY DEF EntityBoxes
<1>5. \A d \in E : d = a \/ d = b
  OBVIOUS
<1> HIDE DEF a, b, E, anchors, ids
<1>6. q.hitboxViews => Group(r, E, "debug_hitbox_reference", {"entity"}, 2, anchors, ids)
  BY <1>2, <1>3, <1>5 DEF Group, Family, SortOf
<1>7. Group(r, When(q.hitboxViews, E), "debug_hitbox_reference", {"entity"}, 2, anchors, ids)
  BY <1>3, <1>6, GroupWhen
<1>8. \A e \in EntityBoxes(r, q) : e \in E /\ q.hitboxViews
  BY <1>4 DEF When
<1>. QED
  BY <1>1, <1>2, <1>4, <1>5, <1>7, <1>8 DEF anchors, ids

\* The scenes of an accepted entity are a plan.
LEMMA EntitiesPlannable ==
  ASSUME NEW q, NEW r, ~q.scaleViews, EntityGiven(r), NoValue # "reference_arm", AtMost(31, Declared(r) \ {FirstState(r)})
  PROVE  Plannable(q, r)
<1> DEFINE turns == EntityTurns(r)
           shadow == EntityShadow(r)
           scaled == EntityScaled(r)
           stances == EntityStances(r)
           samples == EntitySamples(r)
           states == EntityStates(r)
           low == EntityLow(r)
           lows == When(r.review.lowLight, {low})
           boxes == EntityBoxes(r, q)
           D == (((((turns \cup {shadow}) \cup {scaled}) \cup stances) \cup samples) \cup states) \cup lows
           ids == EntityIds(q)
           anchors == EntityAnchors
<1>1. ASSUME NEW p, Alike(p, q) PROVE EntityScenes(p, r) = LowerAll(r, p.settling, D \cup boxes, ids)
  <2>1. PoseScenes(r) = stances \cup samples
    BY DEF PoseScenes, EntityStances, EntitySamples, FirstTick, Stances
  <2>2. EntityVariants(r) = states \cup lows
    BY DEF EntityVariants, EntityStates, EntityOthers, EntityLow
  <2>3. EntityScenes(p, r) = LowerAll(r, p.settling,
          turns \cup {shadow, scaled} \cup PoseScenes(r) \cup EntityVariants(r) \cup EntityBoxes(r, p), EntityIds(p))
    BY DEF EntityScenes, LowerAll, EntityIds, EntityTurns, EntityTurned, EntityShadow, EntityScaled, EntityBoxes, Turns
  <2> HIDE DEF turns, shadow, scaled, stances, samples, states, lows, boxes
  <2>4. D \cup boxes = turns \cup {shadow, scaled} \cup PoseScenes(r) \cup EntityVariants(r) \cup boxes
    BY <2>1, <2>2
  <2>5. boxes = EntityBoxes(r, p) /\ ids = EntityIds(p)
    BY <1>1 DEF boxes, EntityBoxes, EntityIds, Alike
  <2> HIDE DEF D, ids
  <2>. QED
    BY <2>3, <2>4, <2>5
<1>2. /\ EntityGroup(r, q, turns, {"entity"}, 8)
      /\ \A turn \in Turns : EntityTurned(r, turn) \in turns
      /\ \A turn \in Turns : IdOf(EntityTurned(r, turn)) = Vanilla(<<"entity", turn>>)
  BY EntityAround
<1>3. EntityGroup(r, q, {shadow}, {"entity_ground_shadow"}, 1) /\ EntityGroup(r, q, {low}, {"entity_low_light"}, 1)
  BY EntityLights
<1>4. EntityGroup(r, q, {scaled}, {"entity_player_scale"}, 1)
  BY EntityBesideScale
<1>5. /\ EntityGroup(r, q, stances, {"entity_pose"}, 3)
      /\ \E d \in stances : IdOf(d) = Vanilla(<<"entity_pose", "walk">>)
  BY EntityPosed
<1>6. EntityGroup(r, q, samples, {"entity_walk_sample"}, 7)
  BY EntitySampled
<1>7. EntityGroup(r, q, states, {"entity_state"}, 31)
  BY EntityInStates
<1> HIDE DEF turns, shadow, scaled, stances, samples, states, low, boxes
<1>8. EntityGroup(r, q, lows, {"entity_low_light"}, 1)
  BY <1>3, GroupWhen DEF EntityGroup
<1>9. /\ Group(r, boxes, "debug_hitbox_reference", {"entity"}, 2, anchors, ids)
      /\ \A e \in boxes : \E turn \in Turns : Twin(e, EntityTurned(r, turn))
  BY EntityInBoxes DEF boxes
<1> HIDE DEF lows, ids, anchors
<1> DEFINE words == {"entity", "entity_ground_shadow", "entity_player_scale", "entity_pose", "entity_walk_sample",
                     "entity_state", "entity_low_light"}
<1>10. EntityGroup(r, q, D, words, 52)
  <2>1. EntityGroup(r, q, turns \cup {shadow}, {"entity"} \cup {"entity_ground_shadow"}, 8 + 1)
    BY <1>2, <1>3, EntityTogether
  <2>2. EntityGroup(r, q, turns \cup {shadow}, {"entity", "entity_ground_shadow"}, 9)
    BY <2>1
  <2>3. EntityGroup(r, q, (turns \cup {shadow}) \cup {scaled},
                    {"entity", "entity_ground_shadow"} \cup {"entity_player_scale"}, 9 + 1)
    BY <1>4, <2>2, EntityTogether
  <2>4. EntityGroup(r, q, (turns \cup {shadow}) \cup {scaled},
                    {"entity", "entity_ground_shadow", "entity_player_scale"}, 10)
    BY <2>3
  <2>5. EntityGroup(r, q, ((turns \cup {shadow}) \cup {scaled}) \cup stances,
                    {"entity", "entity_ground_shadow", "entity_player_scale"} \cup {"entity_pose"}, 10 + 3)
    BY <1>5, <2>4, EntityTogether
  <2>6. EntityGroup(r, q, ((turns \cup {shadow}) \cup {scaled}) \cup stances,
                    {"entity", "entity_ground_shadow", "entity_player_scale", "entity_pose"}, 13)
    BY <2>5
  <2>7. EntityGroup(r, q, (((turns \cup {shadow}) \cup {scaled}) \cup stances) \cup samples,
                    {"entity", "entity_ground_shadow", "entity_player_scale", "entity_pose"} \cup {"entity_walk_sample"},
                    13 + 7)
    BY <1>6, <2>6, EntityTogether
  <2>8. EntityGroup(r, q, (((turns \cup {shadow}) \cup {scaled}) \cup stances) \cup samples,
                    {"entity", "entity_ground_shadow", "entity_player_scale", "entity_pose", "entity_walk_sample"}, 20)
    BY <2>7
  <2>9. EntityGroup(r, q, states \cup lows, {"entity_state"} \cup {"entity_low_light"}, 31 + 1)
    BY <1>7, <1>8, EntityTogether
  <2>10. EntityGroup(r, q, states \cup lows, {"entity_state", "entity_low_light"}, 32)
    BY <2>9
  <2> DEFINE most == (((turns \cup {shadow}) \cup {scaled}) \cup stances) \cup samples
             rest == states \cup lows
             some == {"entity", "entity_ground_shadow", "entity_player_scale", "entity_pose", "entity_walk_sample"}
             more == {"entity_state", "entity_low_light"}
  <2>11. some \cap more = {} /\ words = some \cup more /\ 20 + 32 = 52 /\ D = most \cup rest
    OBVIOUS
  <2>12. EntityGroup(r, q, most, some, 20) /\ EntityGroup(r, q, rest, more, 32) /\ 20 \in Nat /\ 32 \in Nat
    BY <2>8, <2>10
  <2> HIDE DEF most, rest, some, more, words, D
  <2>13. EntityGroup(r, q, most \cup rest, some \cup more, 20 + 32)
    BY <2>11, <2>12, EntityTogether
  <2>. QED
    BY <2>11, <2>13
<1>11. (\A d \in turns : d \in D) /\ (\A d \in stances : d \in D)
  OBVIOUS
<1> HIDE DEF D, words
<1>12. 0 \in Turns /\ 90 \in Turns
  <2>1. 0 = 45 * 0 /\ 90 = 45 * 2 /\ 0 \in 0..7 /\ 2 \in 0..7
    OBVIOUS
  <2>. QED
    BY <2>1 DEF Turns
<1>13. /\ EntityTurned(r, 0) \in D /\ IdOf(EntityTurned(r, 0)) = Vanilla(Front)
       /\ EntityTurned(r, 90) \in D /\ IdOf(EntityTurned(r, 90)) = Vanilla(<<"entity", 90>>)
       /\ \E d \in D : IdOf(d) = Vanilla(<<"entity_pose", "walk">>)
  BY <1>2, <1>5, <1>11, <1>12 DEF Front
<1>14. /\ \A id \in anchors : \/ id = Vanilla(Front) \/ id = Vanilla(<<"entity", 90>>)
                              \/ id = Vanilla(<<"entity_pose", "walk">>)
       /\ \A id \in ids : id = Vanilla(Front) \/ id = Vanilla(<<"entity", 90>>)
       /\ \A b : Vanilla(b).kind = "minecraft_vanilla"
  BY DEF anchors, ids, EntityAnchors, EntityIds, When, Vanilla
<1>15. Supported(D \cup boxes, anchors, ids)
  BY <1>13, <1>14 DEF Supported
<1>16. AtMost(2, ids)
  <2> DEFINE all == {Vanilla(Front), Vanilla(<<"entity", 90>>)}
  <2>1. AtMost(2, all) /\ ids \subseteq all /\ 2 \in Nat
    BY <1>14, AtMostFew
  <2> HIDE DEF all
  <2>. QED
    BY <2>1, AtMostPart
<1>17. \A e \in boxes : \E d \in D : Twin(e, d)
  BY <1>2, <1>9, <1>11
<1>18. Lowers(q, r, D \cup boxes, ids)
  BY <1>1 DEF Lowers, ScenesOf, EntityGiven
<1>19. Group(r, D, "stock", words, 52, anchors, ids) /\ anchors # {}
  BY <1>10 DEF EntityGroup, anchors, ids, EntityAnchors
<1>20. Optional(q, D \cup boxes)
  <2>1. /\ \A d \in D : d.kind \notin {"debug_hitbox_reference", "first_person_scale_reference"}
        /\ \A d \in boxes : d.kind # "first_person_scale_reference" /\ q.hitboxViews
    BY <1>9, <1>19 DEF Group, Family, SortOf, boxes, EntityBoxes, When
  <2>. QED
    BY <2>1 DEF Optional
<1>21. D # {} /\ r.target = "entity" /\ "debug_hitbox_reference" # "stock"
  BY <1>13 DEF EntityGiven
<1>22. 52 \in Nat /\ 2 \in Nat /\ 52 + 2 + 2 <= 64
  OBVIOUS
<1>. QED
  BY <1>9, <1>15, <1>16, <1>17, <1>18, <1>19, <1>20, <1>21, <1>22, GroupsLaid

-----------------------------------------------------------------------------
(* Placeables.                                                              *)

\* Of natural numbers there is a least one.
LEMMA LeastNat ==
  ASSUME NEW T, T \subseteq Nat, T # {}
  PROVE  \E x \in T : \A y \in T : x <= y
<1> DEFINE R == OpToRel(<, Nat)
<1>1. IsWellFoundedOn(R, Nat)
  BY NatLessThanWellFounded
<1>2. \A x, y \in Nat : x < y => <<x, y>> \in R
  BY DEF OpToRel
<1> HIDE DEF R
<1>3. PICK x \in T : \A y \in T : ~(<<y, x>> \in R)
  BY <1>1, WFMin
<1>4. ASSUME NEW y \in T PROVE x <= y
  <2>1. ~(y < x) /\ x \in Nat /\ y \in Nat
    BY <1>2, <1>3
  <2>. QED
    BY <2>1
<1>. QED
  BY <1>4

\* A state that is put somewhere has a first place.
LEMMA FirstPlace ==
  ASSUME NEW r, PlaceGiven(r), NEW state, PlacesOf(r, state) # {}
  PROVE  PlaceOf(r, state) \in Sides \X Attachments
<1> DEFINE Before(p) == (IF p[2] = "floor" THEN 0 ELSE 1000) + 20 * Rank[p[1]] + Rank[p[2]]
           S == PlacesOf(r, state)
           T == {Before(p) : p \in S}
<1>1. \A p \in S : p \in Sides \X Attachments
  BY DEF PlacesOf, PlaceGiven
<1>2. ASSUME NEW p \in S PROVE Before(p) \in Nat
  <2>1. \A side \in Sides : Rank[side] \in Nat
    BY DEF Rank, Sides
  <2>2. \A attachment \in Attachments : Rank[attachment] \in Nat
    BY DEF Rank, Attachments
  <2>3. p[1] \in Sides /\ p[2] \in Attachments
    BY <1>1
  <2> DEFINE a == Rank[p[1]]
             b == Rank[p[2]]
  <2>4. a \in Nat /\ b \in Nat
    BY <2>1, <2>2, <2>3
  <2> HIDE DEF a, b
  <2>5. (IF p[2] = "floor" THEN 0 ELSE 1000) + 20 * a + b \in Nat
    BY <2>4
  <2>. QED
    BY <2>5 DEF a, b
<1>3. PlaceOf(r, state) = CHOOSE p \in S : \A other \in S : Before(p) <= Before(other)
  BY DEF PlaceOf
<1> HIDE DEF S, Before
<1>4. T \subseteq Nat /\ T # {}
  BY <1>2 DEF S
<1>5. PICK least \in T : \A y \in T : least <= y
  <2> HIDE DEF T
  <2>. QED
    BY <1>4, LeastNat
<1>6. PICK p \in S : least = Before(p)
  OBVIOUS
<1>7. \A other \in S : Before(p) <= Before(other)
  BY <1>5, <1>6
<1>8. PlaceOf(r, state) \in S
  BY <1>3, <1>6, <1>7
<1>. QED
  BY <1>1, <1>8

\* A fixture in a declared state at any place is put up as the protocol asks.
LEMMA PlacePutUp ==
  ASSUME NEW r, PlaceGiven(r), NEW side \in Sides, NEW attachment \in Attachments, NEW distance \in Distances,
         NEW context \in Contexts, NEW state \in Declared(r)
  PROVE  /\ PutUp(r, PlaceFixture(r, <<side, attachment>>, distance, context, state))
         /\ Upright(r, PlaceFixture(r, <<side, attachment>>, distance, context, state))
<1> DEFINE f == PlaceFixture(r, <<side, attachment>>, distance, context, state)
           height == CASE attachment = "floor" -> 80 [] attachment = "wall" -> 82 [] OTHER -> 83
<1>1. /\ DOMAIN f = {"kind", "target", "state", "orientation", "attachment", "distance", "occluded", "context", "tick",
                     "height"}
      /\ f.kind = r.strategy /\ f.target = "placeable" /\ f.state = state /\ f.orientation = side
      /\ f.attachment = attachment /\ f.distance = distance /\ f.occluded = (context = "occlusion")
      /\ f.context = context /\ f.tick = 0 /\ f.height = height
  BY DEF PlaceFixture
<1>2. height \in 64..96
  OBVIOUS
<1>3. 0 \in Ticks(1200)
  BY DEF Ticks
<1> HIDE DEF f
<1>4. ShapeOf(f) = PlaceableShape
  BY <1>1 DEF ShapeOf, PlaceGiven
<1>5. /\ DOMAIN PlaceableShape = {"orientation", "attachment", "distance", "occluded", "tick", "context", "height"}
      /\ PlaceableShape.orientation = Sides /\ PlaceableShape.attachment = Attachments
      /\ PlaceableShape.distance = Distances /\ PlaceableShape.occluded = BOOLEAN
      /\ PlaceableShape.tick = Ticks(1200) /\ PlaceableShape.context = Contexts /\ PlaceableShape.height = 64..96
  BY DEF PlaceableShape, Sides, Distances, Contexts
<1>6. /\ f.height = CASE f.attachment = "floor" -> 80 [] f.attachment = "wall" -> 82 [] OTHER -> 83
  BY <1>1
<1> HIDE DEF height
<1>7. \A field \in DOMAIN PlaceableShape : f[field] \in PlaceableShape[field]
  <2>1. /\ f.orientation \in PlaceableShape.orientation /\ f.attachment \in PlaceableShape.attachment
        /\ f.distance \in PlaceableShape.distance /\ f.context \in PlaceableShape.context
    BY <1>1, <1>5
  <2>2. f.tick \in PlaceableShape.tick
    BY <1>1, <1>3, <1>5
  <2>3. f.height \in PlaceableShape.height
    BY <1>1, <1>2, <1>5
  <2>4. f.occluded \in PlaceableShape.occluded
    <3>1. (context = "occlusion") \in BOOLEAN
      OBVIOUS
    <3>2. f.occluded = (context = "occlusion") /\ PlaceableShape.occluded = BOOLEAN
      BY <1>1, <1>5, Zenon
    <3>. QED
      BY <3>1, <3>2, Zenon
  <2>. QED
    BY <1>5, <2>1, <2>2, <2>3, <2>4
<1>8. f.kind # "measurement_control" /\ DOMAIN f = {"kind", "target", "state"} \cup DOMAIN PlaceableShape
  BY <1>1, <1>5 DEF PlaceGiven
<1>9. FixtureShaped(f)
  BY <1>4, <1>7, <1>8 DEF FixtureShaped
<1>10. Arranged(f)
  BY <1>1, <1>6 DEF Arranged
<1>11. PutUp(r, f) /\ Upright(r, f)
  BY <1>1, <1>9, <1>10 DEF PutUp, Upright, PlaceGiven
<1>. QED
  BY <1>11 DEF f

\* A placed fixture is described as a stock scene.
LEMMA Placed ==
  ASSUME NEW r, PlaceGiven(r), NEW side \in Sides, NEW attachment \in r.review.attachments, NEW distance \in Distances,
         NEW context \in Contexts, NEW base, NEW shot, NEW metrics
  PROVE  PlacedAs(r, Place(r, base, shot, side, attachment, distance, context, metrics), base, AdvisoryOf(base, metrics), {})
<1> DEFINE place == <<side, attachment>>
           state == r.review.placementStates[place]
           f == PlaceFixture(r, place, distance, context, state)
           intents == AdvisoryOf(base, metrics)
           d == Describe(base, shot, f, intents)
<1>1. Place(r, base, shot, side, attachment, distance, context, metrics) = d
  BY DEF Place, AdvisoryOf
<1>2. attachment \in Attachments /\ state \in Declared(r)
  BY DEF PlaceGiven
<1> HIDE DEF state, intents
<1>3. PutUp(r, f) /\ Upright(r, f)
  BY <1>2, PlacePutUp
<1> HIDE DEF f
<1>4. Plain(d, base, f, intents, {})
  BY Drafted
<1>. QED
  BY <1>1, <1>3, <1>4 DEF PlacedAs, intents

\* One with advisory measurements only is a group.
LEMMA PlacedGroup ==
  ASSUME NEW r, NEW q, NoValue # "reference_arm", NEW d, NEW base, NEW metrics, AtMost(3, metrics),
         metrics \cap (Boxed \cup {"foreground_control"}) = {}, PlacedAs(r, d, base, AdvisoryOf(base, metrics), {})
  PROVE  /\ Ready(r, d, PlaceAnchors, PlaceIds(q)) /\ d.kind = "minecraft_vanilla" /\ d.base = base
         /\ IdOf(d) = Vanilla(base) /\ PlaceGroup(r, q, {d}, {base[1]}, 1)
<1> DEFINE intents == {Advisory(base, metric) : metric \in metrics}
           anchors == PlaceAnchors
           ids == PlaceIds(q)
<1>1. PICK f : PutUp(r, f) /\ Upright(r, f) /\ Plain(d, base, f, intents, {})
  BY DEF PlacedAs, AdvisoryOf
<1>2. Scored(base, intents, {}, anchors, ids)
  BY Advised
<1> HIDE DEF intents, anchors, ids
<1>3. Ready(r, d, anchors, ids)
  BY <1>1, <1>2, AloneReady
<1>4. d.kind = "minecraft_vanilla" /\ d.base = base
  BY <1>1 DEF Plain
<1>5. Group(r, {d}, SortOf(d.kind), {d.base[1]}, 1, anchors, ids)
  BY <1>3, GroupOne
<1>6. SortOf(d.kind) = "stock" /\ IdOf(d) = Vanilla(base)
  BY <1>4 DEF SortOf, IdOf, Vanilla
<1>. QED
  BY <1>3, <1>4, <1>5, <1>6 DEF PlaceGroup, anchors, ids

\* There are at most eight.
LEMMA SidesFew == AtMost(8, Sides \X {"player_eye", "close"})
<1> DEFINE a == {"north", "east"}
           b == {"south", "west"}
           c == {"player_eye", "close"}
<1>1. AtMost(2, a) /\ AtMost(2, b) /\ AtMost(2, c) /\ 2 \in Nat /\ 4 \in Nat
  BY AtMostFew
<1>2. Sides = a \cup b
  BY DEF Sides
<1> HIDE DEF a, b, c
<1>3. AtMost(2 + 2, Sides)
  BY <1>1, <1>2, AtMostUnion
<1>4. AtMost(4, Sides)
  BY <1>3
<1>5. AtMost(4 * 2, Sides \X c)
  BY <1>1, <1>4, AtMostPairs
<1>. QED
  BY <1>5 DEF c

\* They are a group of eight, with the close one from the east.
LEMMA PlaceAround ==
  ASSUME NEW r, NEW q, PlaceGiven(r), NoValue # "reference_arm"
  PROVE  /\ PlaceGroup(r, q, PlaceFacings(r), {"place"}, 8)
         /\ PlaceFacing(r, "east", "close") \in PlaceFacings(r)
         /\ IdOf(PlaceFacing(r, "east", "close")) = Vanilla(<<"place", "east", "close">>)
<1> DEFINE far == {"player_eye", "close"}
           X == Sides \X far
           D == PlaceFacings(r)
           Of(side, distance) == PlaceFacing(r, side, distance)
           f == [x \in X |-> Of(x[1], x[2])]
<1>1. ASSUME NEW side \in Sides, NEW distance \in far
      PROVE  /\ Ready(r, Of(side, distance), PlaceAnchors, PlaceIds(q))
             /\ Of(side, distance).kind = "minecraft_vanilla" /\ Of(side, distance).base = <<"place", side, distance>>
             /\ IdOf(Of(side, distance)) = Vanilla(<<"place", side, distance>>)
  <2> DEFINE b == <<"place", side, distance>>
             shot == <<side, distance>>
             metrics == {"orientation_alignment"}
             floor == "floor"
             plain == "plain"
             d == Place(r, b, shot, side, floor, distance, plain, metrics)
  <2>1. Of(side, distance) = d
    BY DEF PlaceFacing
  <2>2. distance \in Distances /\ plain \in Contexts /\ floor \in r.review.attachments
    BY DEF Distances, Contexts, PlaceGiven
  <2>3. AtMost(3, metrics) /\ metrics \cap (Boxed \cup {"foreground_control"}) = {}
    BY NoMoreThanThree DEF Boxed
  <2> HIDE DEF b, shot, metrics, floor, plain
  <2>4. PlacedAs(r, d, b, AdvisoryOf(b, metrics), {})
    BY <2>2, Placed
  <2> HIDE DEF d
  <2>5. /\ Ready(r, d, PlaceAnchors, PlaceIds(q)) /\ d.kind = "minecraft_vanilla" /\ d.base = b
        /\ IdOf(d) = Vanilla(b)
    BY <2>3, <2>4, PlacedGroup
  <2>. QED
    BY <2>1, <2>5 DEF b
<1>2. \A d \in D : \E side \in Sides, distance \in far : d = Of(side, distance)
  BY DEF PlaceFacings
<1>3. \A side \in Sides, distance \in far : Of(side, distance) \in D
  BY DEF PlaceFacings
<1>4. "east" \in Sides /\ "close" \in far
  BY DEF Sides
<1>5. AtMost(8, X) /\ 8 \in Nat
  BY SidesFew
<1> HIDE DEF Of, D
<1>6. ImageOf(D, X, f)
  <2> SUFFICES ASSUME NEW d \in D PROVE  \E x \in X : d = f[x]
    BY DEF ImageOf
  <2>0. PICK side \in Sides, distance \in far : d = Of(side, distance)
    BY <1>2
  <2> DEFINE x == <<side, distance>>
  <2>1. x \in X /\ x[1] = side /\ x[2] = distance
    OBVIOUS
  <2>2. f[x] = Of(side, distance)
    BY <2>1
  <2>. QED
    BY <2>0, <2>1, <2>2
<1> HIDE DEF X, f, far
<1>7. ASSUME NEW d \in D PROVE SortOf(d.kind) = "stock" /\ d.base[1] = "place"
  <2>1. PICK side \in Sides, distance \in far : d = Of(side, distance)
    BY <1>2
  <2>2. d.kind = "minecraft_vanilla" /\ d.base = <<"place", side, distance>>
    BY <1>1, <2>1
  <2>. QED
    BY <2>2 DEF SortOf
<1>8. ASSUME NEW d \in D, NEW e \in D, d.base = e.base PROVE d = e
  <2>1. PICK s \in Sides, m \in far : d = Of(s, m)
    BY <1>2
  <2>2. PICK ss \in Sides, mm \in far : e = Of(ss, mm)
    BY <1>2
  <2>3. <<"place", s, m>> = <<"place", ss, mm>>
    BY <1>1, <1>8, <2>1, <2>2
  <2>4. s = ss /\ m = mm
    BY <2>3
  <2>. QED
    BY <2>1, <2>2, <2>4
<1>9. Family(D, "stock", {"place"}, 8)
  <2>1. Told(D, "stock", "place")
    BY <1>7, <1>8 DEF Told
  <2>. QED
    BY <1>5, <1>6, <2>1, FamilyImage
<1>10. PlaceGroup(r, q, D, {"place"}, 8)
  BY <1>1, <1>2, <1>9 DEF PlaceGroup, Group
<1>11. Of("east", "close") \in D /\ IdOf(Of("east", "close")) = Vanilla(<<"place", "east", "close">>)
  BY <1>1, <1>3, <1>4
<1>. QED
  BY <1>10, <1>11 DEF D, Of

\* The floor contact, the corner and the doorway are groups of one.
LEMMA PlaceSingles ==
  ASSUME NEW r, NEW q, PlaceGiven(r), NoValue # "reference_arm"
  PROVE  /\ PlaceGroup(r, q, {FloorContact(r)}, {"place_floor_contact"}, 1)
         /\ IdOf(FloorContact(r)) = Vanilla(<<"place_floor_contact">>)
         /\ PlaceGroup(r, q, {PlaceCorner(r)}, {"place_footprint_corner"}, 1)
         /\ PlaceGroup(r, q, {PlaceDoor(r)}, {"place_doorway"}, 1)
<1>1. /\ "north" \in Sides /\ "east" \in Sides /\ "floor" \in r.review.attachments
      /\ "close" \in Distances /\ "player_eye" \in Distances /\ "corner" \in Contexts /\ "doorway" \in Contexts
  BY DEF Sides, Distances, Contexts, PlaceGiven
<1>2. /\ PlaceGroup(r, q, {FloorContact(r)}, {"place_floor_contact"}, 1)
      /\ IdOf(FloorContact(r)) = Vanilla(<<"place_floor_contact">>)
  <2> DEFINE b == <<"place_floor_contact">>
             shot == <<"close">>
             more == When(r.strategy = "display_rig", {"billboard_correctness"})
             two == {"attachment_gap", "z_fighting"}
             metrics == two \cup more
             d == Place(r, b, shot, "north", "floor", "close", "corner", metrics)
  <2>1. FloorContact(r) = d
    BY DEF FloorContact
  <2>2. AtMost(3, metrics)
    <3> DEFINE one == {"billboard_correctness"}
    <3>1. AtMost(2, two) /\ AtMost(1, one) /\ 2 \in Nat /\ 1 \in Nat
      BY AtMostFew
    <3>2. more = When(r.strategy = "display_rig", one)
      OBVIOUS
    <3> HIDE DEF two, one, more
    <3>3. AtMost(1, more)
      BY <3>1, <3>2, AtMostWhen
    <3>4. AtMost(2 + 1, two \cup more)
      BY <3>1, <3>3, AtMostUnion
    <3>. QED
      BY <3>4
  <2>3. metrics \cap (Boxed \cup {"foreground_control"}) = {}
    BY DEF Boxed, When
  <2>4. b[1] = "place_floor_contact"
    OBVIOUS
  <2> HIDE DEF b, shot, metrics
  <2>5. PlacedAs(r, d, b, AdvisoryOf(b, metrics), {})
    BY <1>1, Placed
  <2> HIDE DEF d
  <2>6. PlaceGroup(r, q, {d}, {b[1]}, 1) /\ IdOf(d) = Vanilla(b)
    BY <2>2, <2>3, <2>5, PlacedGroup
  <2>. QED
    BY <2>1, <2>4, <2>6 DEF b
<1>3. PlaceGroup(r, q, {PlaceCorner(r)}, {"place_footprint_corner"}, 1)
  <2> DEFINE b == <<"place_footprint_corner">>
             shot == <<"quarter">>
             metrics == {"collision_interaction_footprint_delta"}
             d == Place(r, b, shot, "north", "floor", "close", "corner", metrics)
  <2>1. PlaceCorner(r) = d
    BY DEF PlaceCorner
  <2>2. AtMost(3, metrics) /\ metrics \cap (Boxed \cup {"foreground_control"}) = {}
    BY NoMoreThanThree DEF Boxed
  <2>3. b[1] = "place_footprint_corner"
    OBVIOUS
  <2> HIDE DEF b, shot, metrics
  <2>4. PlacedAs(r, d, b, AdvisoryOf(b, metrics), {})
    BY <1>1, Placed
  <2> HIDE DEF d
  <2>5. PlaceGroup(r, q, {d}, {b[1]}, 1)
    BY <2>2, <2>4, PlacedGroup
  <2>. QED
    BY <2>1, <2>3, <2>5
<1>4. PlaceGroup(r, q, {PlaceDoor(r)}, {"place_doorway"}, 1)
  <2> DEFINE b == <<"place_doorway">>
             shot == <<"front">>
             metrics == {"frame_retention"}
             d == Place(r, b, shot, "east", "floor", "player_eye", "doorway", metrics)
  <2>1. PlaceDoor(r) = d
    BY DEF PlaceDoor
  <2>2. AtMost(3, metrics) /\ metrics \cap (Boxed \cup {"foreground_control"}) = {}
    BY NoMoreThanThree DEF Boxed
  <2>3. b[1] = "place_doorway"
    OBVIOUS
  <2> HIDE DEF b, shot, metrics
  <2>4. PlacedAs(r, d, b, AdvisoryOf(b, metrics), {})
    BY <1>1, Placed
  <2> HIDE DEF d
  <2>5. PlaceGroup(r, q, {d}, {b[1]}, 1)
    BY <2>2, <2>4, PlacedGroup
  <2>. QED
    BY <2>1, <2>3, <2>5
<1>. QED
  BY <1>2, <1>3, <1>4

\* It stays a stock scene of its base.
LEMMA RecastPlaced ==
  ASSUME NEW r, NEW d, NEW base, NEW had, NEW with, PlacedAs(r, d, base, had, with), NEW intents, NEW comparisons
  PROVE  PlacedAs(r, Recast(d, intents, comparisons), base, intents, comparisons)
<1>1. PICK f : PutUp(r, f) /\ Upright(r, f) /\ Plain(d, base, f, had, with)
  BY DEF PlacedAs
<1> DEFINE e == Recast(d, intents, comparisons)
<1>2. /\ DOMAIN e = Fields /\ e.intents = intents /\ e.comparisons = comparisons
      /\ \A field \in Fields \ {"intents", "comparisons"} : e[field] = d[field]
  BY <1>1 DEF Recast, Plain, Fields
<1> HIDE DEF e
<1>3. Plain(e, base, f, intents, comparisons)
  BY <1>1, <1>2 DEF Plain, Fields, Filmed, FirstPersonWorld
<1>. QED
  BY <1>1, <1>3 DEF PlacedAs, e

\* What is placed and measured is a group.
LEMMA PlacedReady ==
  ASSUME NEW r, NEW q, NoValue # "reference_arm", NEW d, NEW base, NEW intents, NEW comparisons,
         PlacedAs(r, d, base, intents, comparisons), Scored(base, intents, comparisons, PlaceAnchors, PlaceIds(q)),
         AtMost(3, comparisons), Vanilla(base) \notin comparisons,
         \A id \in comparisons : id \in PlaceAnchors \/ \E e \in PlaceIds(q) : id = Control(e.base)
  PROVE  /\ d.kind = "minecraft_vanilla" /\ d.base = base /\ IdOf(d) = Vanilla(base)
         /\ Ready(r, d, PlaceAnchors, PlaceIds(q)) /\ PlaceGroup(r, q, {d}, {base[1]}, 1)
<1> DEFINE anchors == PlaceAnchors
           ids == PlaceIds(q)
<1>1. PICK f : PutUp(r, f) /\ Upright(r, f) /\ Plain(d, base, f, intents, comparisons)
  BY DEF PlacedAs
<1>2. /\ Scored(base, intents, comparisons, anchors, ids)
      /\ \A id \in comparisons : id \in anchors \/ \E e \in ids : id = Control(e.base)
  OBVIOUS
<1> HIDE DEF anchors, ids
<1>3. Ready(r, d, anchors, ids)
  BY <1>1, <1>2, PlainReady
<1>4. d.kind = "minecraft_vanilla" /\ d.base = base
  BY <1>1 DEF Plain
<1>5. Group(r, {d}, SortOf(d.kind), {d.base[1]}, 1, anchors, ids)
  BY <1>3, GroupOne
<1>6. SortOf(d.kind) = "stock" /\ IdOf(d) = Vanilla(base)
  BY <1>4 DEF SortOf, IdOf, Vanilla
<1>. QED
  BY <1>3, <1>4, <1>5, <1>6 DEF PlaceGroup, anchors, ids

\* The scenes of the range are these.
LEMMA RangeIs ==
  ASSUME NEW r
  PROVE  RangeScenes(r) = {NearScene(r), MidScene(r), HiddenScene(r)}
BY DEF RangeScenes, NearScene, MidScene, HiddenScene, Near, Mid, Hidden, Recast

\* The near scene is ready.
LEMMA PlaceNear ==
  ASSUME NEW r, NEW q, PlaceGiven(r), NoValue # "reference_arm"
  PROVE  /\ NearScene(r).kind = "minecraft_vanilla" /\ NearScene(r).base = Near /\ IdOf(NearScene(r)) = Vanilla(Near)
         /\ Ready(r, NearScene(r), PlaceAnchors, PlaceIds(q))
<1> DEFINE b == Near
           shot == <<"near">>
           metrics == {}
           d == Place(r, b, shot, "north", "floor", "near", "plain", metrics)
<1>1. NearScene(r) = d
  BY DEF NearScene
<1>2. /\ "north" \in Sides /\ "floor" \in r.review.attachments /\ "near" \in Distances /\ "plain" \in Contexts
      /\ AtMost(3, metrics) /\ metrics \cap (Boxed \cup {"foreground_control"}) = {}
  BY NoMoreThanThree DEF Sides, Distances, Contexts, PlaceGiven
<1> HIDE DEF b, shot, metrics
<1>3. PlacedAs(r, d, b, AdvisoryOf(b, metrics), {})
  BY <1>2, Placed
<1> HIDE DEF d
<1>4. Ready(r, d, PlaceAnchors, PlaceIds(q)) /\ d.kind = "minecraft_vanilla" /\ d.base = b /\ IdOf(d) = Vanilla(b)
  BY <1>2, <1>3, PlacedGroup
<1>. QED
  BY <1>1, <1>4 DEF b

\* The scene from a medium distance is ready, with its control.
LEMMA PlaceMid ==
  ASSUME NEW r, NEW q, PlaceGiven(r), NoValue # "reference_arm"
  PROVE  /\ MidScene(r).kind = "minecraft_vanilla" /\ MidScene(r).base = Mid /\ IdOf(MidScene(r)) = Vanilla(Mid)
         /\ Ready(r, MidScene(r), PlaceAnchors, PlaceIds(q))
<1> DEFINE b == Mid
           shot == <<"mid">>
           metrics == {}
           own == Vanilla(Mid)
           near == Vanilla(Near)
           d == Place(r, b, shot, "north", "floor", "mid", "plain", metrics)
           i == Intent(b, "delta", "pairwise_pixel_delta", {own, near}, FALSE)
           intents == {i}
           others == {near}
<1>1. MidScene(r) = Recast(d, intents, others)
  BY DEF MidScene
<1>2. "north" \in Sides /\ "floor" \in r.review.attachments /\ "mid" \in Distances /\ "plain" \in Contexts
  BY DEF Sides, Distances, Contexts, PlaceGiven
<1>3. /\ own = Vanilla(b) /\ near \in PlaceAnchors /\ near # own /\ others = {near} /\ intents = {i}
      /\ "delta" \notin Boxed \cup {"foreground_control"}
  BY DEF Vanilla, PlaceAnchors, Near, Mid, Boxed
<1>4. i = Intent(b, "delta", "pairwise_pixel_delta", {own, near}, FALSE)
  OBVIOUS
<1>5. b = Mid
  OBVIOUS
<1> HIDE DEF b, shot, metrics, own, near, i, intents, others
<1>6. PlacedAs(r, d, b, AdvisoryOf(b, metrics), {})
  BY <1>2, Placed
<1> HIDE DEF d
<1>7. PlacedAs(r, Recast(d, intents, others), b, intents, others)
  BY <1>6, RecastPlaced
<1>8. Score(i, b, others, PlaceAnchors, PlaceIds(q))
  <2> DEFINE sources == {own, near}
             critical == FALSE
  <2>1. sources = {Vanilla(b), near} /\ near \in others /\ near # Vanilla(b) /\ ~critical
    BY <1>3
  <2>2. i = Intent(b, "delta", "pairwise_pixel_delta", sources, critical)
    BY <1>4
  <2> HIDE DEF sources, critical
  <2>3. Score(Intent(b, "delta", "pairwise_pixel_delta", sources, critical), b, others, PlaceAnchors, PlaceIds(q))
    BY <1>3, <2>1, ScoreAgainst
  <2>. QED
    BY <2>2, <2>3
<1>9. AtMost(3, intents) /\ AtMost(3, others) /\ \A x \in others : x \in PlaceAnchors
  BY <1>3, NoMoreThanThree
<1>10. Scored(b, intents, others, PlaceAnchors, PlaceIds(q))
  BY <1>3, <1>8, <1>9 DEF Scored
<1> DEFINE e == Recast(d, intents, others)
<1>11. Vanilla(b) \notin others /\ PlacedAs(r, e, b, intents, others)
  BY <1>3, <1>7
<1> HIDE DEF e
<1>12. e.kind = "minecraft_vanilla" /\ e.base = b /\ IdOf(e) = Vanilla(b) /\ Ready(r, e, PlaceAnchors, PlaceIds(q))
  BY <1>9, <1>10, <1>11, PlacedReady
<1>. QED
  BY <1>1, <1>5, <1>12 DEF e

\* The hidden scene is a group of one: what it is compared with is there.
LEMMA PlaceHidden ==
  ASSUME NEW r, NEW q, PlaceGiven(r), NoValue # "reference_arm"
  PROVE  PlaceGroup(r, q, {HiddenScene(r)}, {"place_occluded"}, 1)
<1> DEFINE b == Hidden
           shot == <<"mid">>
           metrics == {}
           own == Vanilla(Hidden)
           mid == Vanilla(Mid)
           control == Control(Mid)
           d == Place(r, b, shot, "north", "floor", "mid", "occlusion", metrics)
           i == Intent(b, "visibility", "visibility_occlusion", {own, mid, control}, FALSE)
           j == Intent(b, "delta", "pairwise_pixel_delta", {own, mid}, TRUE)
           intents == {i, j}
           others == {mid, control}
           ids == PlaceIds(q)
<1>1. HiddenScene(r) = Recast(d, intents, others)
  BY DEF HiddenScene
<1>2. "north" \in Sides /\ "floor" \in r.review.attachments /\ "mid" \in Distances /\ "occlusion" \in Contexts
  BY DEF Sides, Distances, Contexts, PlaceGiven
<1>3. /\ own = Vanilla(b) /\ mid \in PlaceAnchors /\ mid # own /\ control # own /\ own \notin ids
      /\ \E e \in ids : control = Control(e.base)
      /\ "delta" \notin Boxed \cup {"foreground_control"} /\ b[1] = "place_occluded"
      /\ "pairwise_pixel_delta" \in ReadinessMetrics
  <2>1. mid \in ids /\ mid.base = Mid
    BY DEF PlaceIds, Mid, Vanilla
  <2>2. own \notin ids
    BY DEF PlaceIds, Vanilla, Mid, Hidden, When
  <2>. QED
    BY <2>1, <2>2 DEF Vanilla, Control, PlaceAnchors, Mid, Hidden, Boxed, ReadinessMetrics
<1>4. /\ i.id = <<b, "visibility">> /\ i.sources = {own, mid, control} /\ i.critical = FALSE
      /\ "visibility" \notin Boxed \cup {"foreground_control"} /\ i.id[2] = "visibility"
  BY DEF Intent, Boxed
<1>5. j = Intent(b, "delta", "pairwise_pixel_delta", {own, mid}, TRUE)
  OBVIOUS
<1>6. j.id = <<b, "delta">> /\ intents = {i, j} /\ others = {mid, control}
  BY DEF Intent
<1> HIDE DEF b, shot, metrics, own, mid, control, i, j, intents, others, ids
<1>7. PlacedAs(r, d, b, AdvisoryOf(b, metrics), {})
  BY <1>2, Placed
<1> HIDE DEF d
<1>8. PlacedAs(r, Recast(d, intents, others), b, intents, others)
  BY <1>7, RecastPlaced
<1>9. Score(i, b, others, PlaceAnchors, ids)
  BY <1>3, <1>4, <1>6 DEF Score
<1>10. Score(j, b, others, PlaceAnchors, ids)
  <2> DEFINE sources == {own, mid}
  <2>1. sources = {Vanilla(b), mid} /\ mid \in others /\ mid # Vanilla(b)
    BY <1>3, <1>6
  <2>2. ASSUME NEW critical \in BOOLEAN
        PROVE  Score(Intent(b, "delta", "pairwise_pixel_delta", sources, critical), b, others, PlaceAnchors, ids)
    <3> HIDE DEF sources
    <3>1. critical => /\ "pairwise_pixel_delta" \in ReadinessMetrics /\ mid \in PlaceAnchors /\ Vanilla(b) \notin ids
      BY <1>3
    <3>. QED
      BY <1>3, <2>1, <3>1, ScoreAgainst
  <2>. QED
    BY <1>5, <2>2
<1>11. AtMost(3, intents) /\ AtMost(3, others)
  BY <1>6, NoMoreThanThree
<1>12. Scored(b, intents, others, PlaceAnchors, ids)
  <2>1. \A x, y \in intents : x.id = y.id => x = y
    BY <1>4, <1>6
  <2>. QED
    BY <1>6, <1>9, <1>10, <1>11, <2>1 DEF Scored
<1> DEFINE e == Recast(d, intents, others)
<1>13. Vanilla(b) \notin others /\ PlacedAs(r, e, b, intents, others)
  BY <1>3, <1>6, <1>8
<1>14. \A id \in others : id \in PlaceAnchors \/ \E x \in ids : id = Control(x.base)
  BY <1>3, <1>6
<1> HIDE DEF e
<1>15. PlaceGroup(r, q, {e}, {b[1]}, 1)
  BY <1>11, <1>12, <1>13, <1>14, PlacedReady DEF ids
<1>. QED
  BY <1>1, <1>3, <1>15 DEF e

\* The first two are a group of two.
LEMMA PlaceRanges ==
  ASSUME NEW r, NEW q, PlaceGiven(r), NoValue # "reference_arm"
  PROVE  /\ PlaceGroup(r, q, {NearScene(r), MidScene(r)}, {"place_range"}, 2)
         /\ IdOf(NearScene(r)) = Vanilla(Near) /\ IdOf(MidScene(r)) = Vanilla(Mid)
<1> DEFINE a == NearScene(r)
           b == MidScene(r)
           D == {a, b}
<1>1. /\ a.kind = "minecraft_vanilla" /\ a.base = Near /\ IdOf(a) = Vanilla(Near)
      /\ Ready(r, a, PlaceAnchors, PlaceIds(q))
  BY PlaceNear
<1>2. /\ b.kind = "minecraft_vanilla" /\ b.base = Mid /\ IdOf(b) = Vanilla(Mid)
      /\ Ready(r, b, PlaceAnchors, PlaceIds(q))
  BY PlaceMid
<1>3. AtMost(2, D)
  BY AtMostFew
<1>4. \A d \in D : d = a \/ d = b
  OBVIOUS
<1> HIDE DEF a, b, D
<1>5. Near # Mid /\ Near[1] = "place_range" /\ Mid[1] = "place_range"
  BY DEF Near, Mid
<1>6. PlaceGroup(r, q, D, {"place_range"}, 2)
  BY <1>1, <1>2, <1>3, <1>4, <1>5 DEF PlaceGroup, Group, Family, SortOf
<1>. QED
  BY <1>1, <1>2, <1>6 DEF a, b, D

\* They are a group of at most two.
LEMMA PlaceInContact ==
  ASSUME NEW r, NEW q, PlaceGiven(r), NoValue # "reference_arm"
  PROVE  PlaceGroup(r, q, PlaceContacts(r), {"place_contact"}, 2)
<1> DEFINE X == r.review.attachments \ {"floor"}
           D == PlaceContacts(r)
           Fix(attachment) == PlaceFixture(r, <<"north", attachment>>, "close", "plain",
                                           r.review.placementStates[<<"north", attachment>>])
           Of(attachment) == Place(r, <<"place_contact", attachment>>, <<"quarter", attachment>>, "north", attachment,
                                   "close", "plain", {"attachment_gap"})
           f == [attachment \in X |-> Of(attachment)]
           g == [attachment \in X |-> Fix(attachment)]
           word == "place_contact"
           metric == "attachment_gap"
           none == {}
           anchors == PlaceAnchors
           ids == PlaceIds(q)
<1>1. ASSUME NEW x \in X PROVE Plain(f[x], <<word, x>>, g[x], {Advisory(<<word, x>>, metric)}, none)
  <2> DEFINE b == <<"place_contact", x>>
             h == Fix(x)
             intents == {Advisory(b, "attachment_gap")}
             shot == <<"quarter", x>>
  <2>1. Of(x) = Describe(b, shot, h, intents)
    <3>1. {Advisory(b, m) : m \in {"attachment_gap"}} = intents
      OBVIOUS
    <3>. QED
      BY <3>1 DEF Place
  <2>2. f[x] = Of(x) /\ g[x] = h
    OBVIOUS
  <2> HIDE DEF b, h, intents, shot, f, g, Of, Fix
  <2>3. Plain(Describe(b, shot, h, intents), b, h, intents, {})
    BY Drafted
  <2>4. Plain(f[x], b, g[x], intents, none)
    BY <2>1, <2>2, <2>3
  <2>. QED
    BY <2>4 DEF b, intents
<1>2. PutEach(r, X, g)
  <2> SUFFICES ASSUME NEW x \in X PROVE PutUp(r, g[x]) /\ Upright(r, g[x])
    BY DEF PutEach
  <2> DEFINE state == r.review.placementStates[<<"north", x>>]
             h == PlaceFixture(r, <<"north", x>>, "close", "plain", state)
  <2>1. /\ "north" \in Sides /\ x \in Attachments /\ "close" \in Distances /\ "plain" \in Contexts
        /\ state \in Declared(r)
    BY DEF Sides, Distances, Contexts, PlaceGiven
  <2>2. g[x] = h
    OBVIOUS
  <2> HIDE DEF state, g
  <2>3. PutUp(r, h) /\ Upright(r, h)
    BY <2>1, PlacePutUp
  <2>. QED
    BY <2>2, <2>3
<1>3. ImageOf(D, X, f)
  BY DEF ImageOf, PlaceContacts
<1>4. metric \notin Boxed \cup {"foreground_control"} /\ AnchorEach(X, word, none, anchors)
  BY DEF Boxed, AnchorEach
<1>5. AtMost(2, X) /\ 2 \in Nat
  <2> DEFINE two == {"wall", "ceiling"}
  <2>1. X \subseteq two
    BY DEF PlaceGiven, Attachments
  <2>2. AtMost(2, two) /\ 2 \in Nat
    BY AtMostFew
  <2> HIDE DEF X, two
  <2>. QED
    BY <2>1, <2>2, AtMostPart
<1> HIDE DEF X, f, g, D, metric, none, anchors, ids
<1>6. AdvisedEach(X, f, g, word, metric, none)
  BY <1>1 DEF AdvisedEach
<1>7. Group(r, D, "stock", {word}, 2, anchors, ids)
  BY <1>2, <1>3, <1>4, <1>5, <1>6, GroupAdvised
<1>. QED
  BY <1>7 DEF D, PlaceGroup, anchors, ids

\* The scenes of the other states are a group of at most 31.
LEMMA PlaceInStates ==
  ASSUME NEW r, NEW q, PlaceGiven(r), NoValue # "reference_arm", AtMost(31, Declared(r) \ {FirstState(r)})
  PROVE  PlaceGroup(r, q, PlaceStates(r), {"place_state"}, 31)
<1> DEFINE X == Declared(r) \ {FirstState(r)}
           D == PlaceStates(r)
           fix(state) == PlaceFixture(r, PlaceOf(r, state), "close", "plain", state)
           Of(state) == Against(Describe(<<"place_state", state>>, <<"front">>, fix(state),
                                         {Advisory(<<"place_state", state>>, "pairwise_pixel_delta")}), FloorBase)
           f == [state \in X |-> Of(state)]
           g == [state \in X |-> fix(state)]
           word == "place_state"
           metric == "pairwise_pixel_delta"
           floors == {Vanilla(FloorBase)}
           anchors == PlaceAnchors
           ids == PlaceIds(q)
<1>1. ASSUME NEW state \in X PROVE Plain(f[state], <<word, state>>, g[state], {Advisory(<<word, state>>, metric)}, floors)
  <2> DEFINE b == <<"place_state", state>>
             h == fix(state)
             intents == {Advisory(b, "pairwise_pixel_delta")}
             shot == <<"front">>
             w == Describe(b, shot, h, intents)
  <2>1. f[state] = Against(w, FloorBase) /\ g[state] = h
    OBVIOUS
  <2> HIDE DEF b, h, intents, shot, f, g
  <2>2. Plain(w, b, h, intents, {})
    BY Drafted
  <2> HIDE DEF w
  <2>3. Plain(Against(w, FloorBase), b, h, intents, {Vanilla(FloorBase)})
    BY <2>2, Redrafted
  <2>4. Plain(f[state], b, g[state], intents, floors)
    BY <2>1, <2>3
  <2>. QED
    BY <2>4 DEF b, intents
<1>2. PutEach(r, X, g)
  <2> SUFFICES ASSUME NEW state \in X PROVE PutUp(r, g[state]) /\ Upright(r, g[state])
    BY DEF PutEach
  <2> DEFINE place == PlaceOf(r, state)
             h == PlaceFixture(r, place, "close", "plain", state)
  <2>1. state \in Declared(r) /\ PlacesOf(r, state) # {}
    BY DEF PlaceGiven
  <2>2. place \in Sides \X Attachments
    BY <2>1, FirstPlace
  <2>3. g[state] = h
    OBVIOUS
  <2> HIDE DEF place, g
  <2>4. PICK side \in Sides, attachment \in Attachments : place = <<side, attachment>>
    BY <2>2
  <2>5. "close" \in Distances /\ "plain" \in Contexts
    BY DEF Distances, Contexts
  <2>6. /\ PutUp(r, PlaceFixture(r, <<side, attachment>>, "close", "plain", state))
        /\ Upright(r, PlaceFixture(r, <<side, attachment>>, "close", "plain", state))
    BY <2>1, <2>5, PlacePutUp
  <2>. QED
    BY <2>3, <2>4, <2>6
<1>3. ImageOf(D, X, f)
  BY DEF ImageOf, PlaceStates
<1>4. metric \notin Boxed \cup {"foreground_control"}
  BY DEF Boxed
<1>5. AnchorEach(X, word, floors, anchors)
  <2>1. Vanilla(FloorBase) \in anchors /\ \A x \in X : FloorBase # <<word, x>>
    BY DEF PlaceAnchors, FloorBase
  <2>. QED
    BY <2>1 DEF AnchorEach
<1>6. AtMost(31, X) /\ 31 \in Nat
  OBVIOUS
<1> HIDE DEF X, f, g, D, metric, floors, anchors, ids
<1>7. AdvisedEach(X, f, g, word, metric, floors)
  BY <1>1 DEF AdvisedEach
<1>8. Group(r, D, "stock", {word}, 31, anchors, ids)
  BY <1>2, <1>3, <1>4, <1>5, <1>6, <1>7, GroupAdvised
<1>. QED
  BY <1>8 DEF D, PlaceGroup, anchors, ids

\* With the hitbox of its interaction.
LEMMA PlaceBoxed ==
  ASSUME NEW r, NEW q, PlaceGiven(r), NoValue # "reference_arm", NEW v, NEW b, NEW had, NEW with,
         PlacedAs(r, v, b, had, with), Vanilla(b) \in PlaceAnchors, Vanilla(b) \in PlaceIds(q)
  PROVE  /\ Ready(r, PlaceHitbox(v), PlaceAnchors, PlaceIds(q))
         /\ PlaceHitbox(v).base = b /\ PlaceHitbox(v).kind = "debug_hitbox_reference"
         /\ Twin(PlaceHitbox(v), v)
<1> DEFINE own == [kind |-> "debug_hitbox_reference", base |-> b]
           frames == {own, Vanilla(b), Control(b)}
           i == Intent(b, "hitbox", "collision_interaction_footprint_delta", frames, FALSE)
           intents == {i}
           others == {Vanilla(b), Control(b)}
           d == PlaceHitbox(v)
           anchors == PlaceAnchors
           ids == PlaceIds(q)
<1>1. PICK f : PutUp(r, f) /\ Upright(r, f) /\ Plain(v, b, f, had, with)
  BY DEF PlacedAs
<1>2. /\ DOMAIN v = Fields /\ Filmed(v) /\ ~FirstPersonWorld(v)
      /\ v.base = b /\ v.fixture = f /\ v.presentation = NoValue /\ v.kind = "minecraft_vanilla"
  BY <1>1 DEF Plain
<1>3. d = [v EXCEPT !.kind = "debug_hitbox_reference", !.comparisons = others, !.intents = intents]
  BY <1>2 DEF PlaceHitbox
<1>4. i.id = <<b, "hitbox">> /\ i.sources = frames /\ i.critical = FALSE /\ i.id[2] = "hitbox"
  BY DEF Intent
<1>5. /\ own \notin others /\ frames = {own} \cup others /\ others = {Vanilla(b), Control(b)}
      /\ own.kind = "debug_hitbox_reference" /\ own.base = b /\ Vanilla(b).base = b
  BY DEF Vanilla, Control
<1>6. AtMost(3, intents) /\ AtMost(3, others)
  <2> DEFINE w == Vanilla(b)
             c == Control(b)
  <2>1. intents = {i} /\ others = {w, c}
    OBVIOUS
  <2> HIDE DEF i, w, c, intents, others
  <2>. QED
    BY <2>1, NoMoreThanThree
<1>7. (\A x \in intents : x = i) /\ Vanilla(b) \in anchors /\ Vanilla(b) \in ids
  OBVIOUS
<1>8. own = [kind |-> "debug_hitbox_reference", base |-> b]
  OBVIOUS
<1> HIDE DEF frames, i, intents, others, own, anchors, ids, d
<1>9. /\ DOMAIN d = Fields /\ d.kind = "debug_hitbox_reference" /\ d.comparisons = others /\ d.intents = intents
      /\ \A field \in Fields \ {"kind", "comparisons", "intents"} : d[field] = v[field]
  BY <1>2, <1>3 DEF Fields
<1>10. /\ Filmed(d) /\ ~FirstPersonWorld(d) /\ d.base = b /\ d.fixture = f /\ d.presentation = NoValue
  BY <1>2, <1>9 DEF Fields, Filmed, FirstPersonWorld
<1>11. Viewed(r, d)
  BY <1>1, <1>9, <1>10 DEF Viewed, Upright, PlaceGiven
<1>12. IdOf(d) = own
  BY <1>8, <1>9, <1>10 DEF IdOf
<1>13. Drawn(r, d)
  BY <1>1, <1>5, <1>6, <1>7, <1>9, <1>10, <1>11, <1>12 DEF Drawn
<1>14. ASSUME NEW a \in intents PROVE Measurable(d, a, anchors, ids)
  <2>1. a.id = <<b, a.id[2]>> /\ a.id[2] = "hitbox" /\ a.sources = frames /\ a.critical = FALSE
    BY <1>4, <1>7
  <2>2. IdOf(d) \in frames /\ frames \subseteq Own(d, ids)
    BY <1>5, <1>9, <1>12 DEF Own
  <2>. QED
    BY <1>9, <1>10, <2>1, <2>2 DEF Measurable, Boxed
<1>15. Linked(d, anchors, ids)
  BY <1>5, <1>6, <1>7, <1>9, <1>10, <1>14 DEF Linked
<1>16. Ready(r, d, anchors, ids)
  BY <1>13, <1>15 DEF Ready
<1>17. Twin(d, v)
  BY <1>2, <1>9, <1>10 DEF Twin
<1>. QED
  BY <1>9, <1>10, <1>16, <1>17 DEF d, anchors, ids

\* There are at most two, of scenes that are there.
LEMMA PlaceInBoxes ==
  ASSUME NEW r, NEW q, PlaceGiven(r), NoValue # "reference_arm"
  PROVE  /\ Group(r, PlaceBoxes(r, q), "debug_hitbox_reference", {"place_floor_contact", "place"}, 2,
                  PlaceAnchors, PlaceIds(q))
         /\ \A e \in PlaceBoxes(r, q) : Twin(e, FloorContact(r)) \/ Twin(e, PlaceFacing(r, "east", "close"))
<1> DEFINE c == FloorContact(r)
           p == PlaceFacing(r, "east", "close")
           floor == FloorBase
           place == <<"place", "east", "close">>
           a == PlaceHitbox(c)
           b == PlaceHitbox(p)
           E == {a, b}
           anchors == PlaceAnchors
           ids == PlaceIds(q)
<1>1. /\ "north" \in Sides /\ "east" \in Sides /\ "floor" \in r.review.attachments
      /\ "close" \in Distances /\ "corner" \in Contexts /\ "plain" \in Contexts
  BY DEF Sides, Distances, Contexts, PlaceGiven
<1>2. \E had : PlacedAs(r, c, floor, had, {})
  <2> DEFINE shot == <<"close">>
             metrics == {"attachment_gap", "z_fighting"} \cup When(r.strategy = "display_rig", {"billboard_correctness"})
             d == Place(r, floor, shot, "north", "floor", "close", "corner", metrics)
  <2>1. c = d
    BY DEF FloorContact, FloorBase
  <2> HIDE DEF floor, shot, metrics, c
  <2>2. PlacedAs(r, d, floor, AdvisoryOf(floor, metrics), {})
    BY <1>1, Placed
  <2>. QED
    BY <2>1, <2>2
<1>3. \E had : PlacedAs(r, p, place, had, {})
  <2> DEFINE shot == <<"east", "close">>
             metrics == {"orientation_alignment"}
             d == Place(r, place, shot, "east", "floor", "close", "plain", metrics)
  <2>1. p = d
    BY DEF PlaceFacing
  <2> HIDE DEF place, shot, metrics, p
  <2>2. PlacedAs(r, d, place, AdvisoryOf(place, metrics), {})
    BY <1>1, Placed
  <2>. QED
    BY <2>1, <2>2
<1>4. /\ Vanilla(floor) \in anchors /\ Vanilla(floor) \in ids
      /\ q.hitboxViews => Vanilla(place) \in anchors /\ Vanilla(place) \in ids
      /\ floor # place /\ floor[1] = "place_floor_contact" /\ place[1] = "place"
  BY DEF PlaceAnchors, PlaceIds, FloorBase, When
<1>5. AtMost(2, E) /\ 2 \in Nat
  BY AtMostFew
<1>6. PlaceBoxes(r, q) = When(q.hitboxViews /\ Touched(r), E)
  <2>1. {PlaceHitbox(d) : d \in {c, p}} = E
    OBVIOUS
  <2>. QED
    BY <2>1 DEF PlaceBoxes
<1>7. \A d \in E : d = a \/ d = b
  OBVIOUS
<1>8. a = PlaceHitbox(c) /\ b = PlaceHitbox(p)
  OBVIOUS
<1> HIDE DEF a, b, c, p, E, floor, place, anchors, ids
<1>9. /\ Ready(r, a, anchors, ids) /\ a.base = floor /\ a.kind = "debug_hitbox_reference" /\ Twin(a, c)
  BY <1>2, <1>4, <1>8, PlaceBoxed DEF anchors, ids
<1>10. q.hitboxViews =>
         Ready(r, b, anchors, ids) /\ b.base = place /\ b.kind = "debug_hitbox_reference" /\ Twin(b, p)
  BY <1>3, <1>4, <1>8, PlaceBoxed DEF anchors, ids
<1>11. q.hitboxViews => Group(r, E, "debug_hitbox_reference", {"place_floor_contact", "place"}, 2, anchors, ids)
  BY <1>4, <1>5, <1>7, <1>9, <1>10 DEF Group, Family, SortOf
<1> DEFINE condition == q.hitboxViews /\ Touched(r)
           sort == "debug_hitbox_reference"
           words == {"place_floor_contact", "place"}
<1>12. condition => Group(r, E, sort, words, 2, anchors, ids)
  BY <1>11
<1>13. PlaceBoxes(r, q) = When(condition, E)
  BY <1>6
<1>14. condition => q.hitboxViews
  OBVIOUS
<1> HIDE DEF condition, sort, words
<1>15. Group(r, When(condition, E), sort, words, 2, anchors, ids)
  BY <1>5, <1>12, GroupWhen
<1>16. \A e \in PlaceBoxes(r, q) : e \in E /\ q.hitboxViews
  BY <1>13, <1>14 DEF When
<1>17. \A e \in PlaceBoxes(r, q) : Twin(e, c) \/ Twin(e, p)
  BY <1>7, <1>9, <1>10, <1>16
<1>. QED
  BY <1>13, <1>15, <1>17 DEF anchors, ids, c, p, sort, words

\* Groups of a placeable together.
LEMMA PlaceTogether ==
  ASSUME NEW r, NEW q, NEW D, NEW E, NEW V, NEW W, NEW m \in Nat, NEW n \in Nat,
         PlaceGroup(r, q, D, V, m), PlaceGroup(r, q, E, W, n), V \cap W = {}
  PROVE  PlaceGroup(r, q, D \cup E, V \cup W, m + n)
BY GroupUnion DEF PlaceGroup

\* The scenes of an accepted placeable are a plan.
LEMMA PlaceablesPlannable ==
  ASSUME NEW q, NEW r, ~q.scaleViews, PlaceGiven(r), NoValue # "reference_arm", AtMost(31, Declared(r) \ {FirstState(r)})
  PROVE  Plannable(q, r)
<1> DEFINE facings == PlaceFacings(r)
           touch == FloorContact(r)
           corner == PlaceCorner(r)
           door == PlaceDoor(r)
           near == NearScene(r)
           mid == MidScene(r)
           ranges == {near, mid}
           hidden == HiddenScene(r)
           contacts == PlaceContacts(r)
           states == PlaceStates(r)
           east == PlaceFacing(r, "east", "close")
           boxes == PlaceBoxes(r, q)
           first == ((facings \cup {touch}) \cup {corner}) \cup {door}
           rest == ((ranges \cup {hidden}) \cup contacts) \cup states
           D == first \cup rest
           ids == PlaceIds(q)
           anchors == PlaceAnchors
<1>1. ASSUME NEW p, Alike(p, q) PROVE PlaceableScenes(p, r) = LowerAll(r, p.settling, D \cup boxes, ids)
  <2>1. PlaceVariants(r) = contacts \cup states
    BY DEF PlaceVariants, PlaceContacts, PlaceStates, FloorBase
  <2>2. RangeScenes(r) = ranges \cup {hidden}
    BY RangeIs
  <2>3. PlaceableScenes(p, r) = LowerAll(r, p.settling,
          facings \cup {touch, corner, door} \cup RangeScenes(r) \cup PlaceVariants(r) \cup PlaceBoxes(r, p), PlaceIds(p))
    BY DEF PlaceableScenes, LowerAll, PlaceIds, PlaceFacings, PlaceCorner, PlaceDoor, PlaceBoxes, Touched, Sides
  <2> HIDE DEF facings, touch, corner, door, ranges, hidden, contacts, states, boxes
  <2>4. D \cup boxes = facings \cup {touch, corner, door} \cup RangeScenes(r) \cup PlaceVariants(r) \cup boxes
    BY <2>1, <2>2
  <2>5. boxes = PlaceBoxes(r, p) /\ ids = PlaceIds(p)
    BY <1>1 DEF boxes, PlaceBoxes, PlaceIds, Alike
  <2> HIDE DEF D, ids
  <2>. QED
    BY <2>3, <2>4, <2>5
<1>2. /\ PlaceGroup(r, q, facings, {"place"}, 8) /\ east \in facings
      /\ IdOf(east) = Vanilla(<<"place", "east", "close">>)
  BY PlaceAround
<1>3. /\ PlaceGroup(r, q, {touch}, {"place_floor_contact"}, 1) /\ IdOf(touch) = Vanilla(<<"place_floor_contact">>)
      /\ PlaceGroup(r, q, {corner}, {"place_footprint_corner"}, 1) /\ PlaceGroup(r, q, {door}, {"place_doorway"}, 1)
  BY PlaceSingles
<1>4. /\ PlaceGroup(r, q, ranges, {"place_range"}, 2)
      /\ IdOf(near) = Vanilla(<<"place_range", "near">>) /\ IdOf(mid) = Vanilla(<<"place_range", "mid">>)
  BY PlaceRanges DEF Near, Mid
<1>5. PlaceGroup(r, q, {hidden}, {"place_occluded"}, 1)
  BY PlaceHidden
<1>6. PlaceGroup(r, q, contacts, {"place_contact"}, 2)
  BY PlaceInContact
<1>7. PlaceGroup(r, q, states, {"place_state"}, 31)
  BY PlaceInStates
<1>8. /\ Group(r, boxes, "debug_hitbox_reference", {"place_floor_contact", "place"}, 2, anchors, ids)
      /\ \A e \in boxes : Twin(e, touch) \/ Twin(e, east)
  BY PlaceInBoxes
<1>9. near \in ranges /\ mid \in ranges
  OBVIOUS
<1> HIDE DEF facings, touch, corner, door, near, mid, ranges, hidden, contacts, states, east, boxes, ids, anchors
<1> DEFINE some == {"place", "place_floor_contact", "place_footprint_corner", "place_doorway"}
           more == {"place_range", "place_occluded", "place_contact", "place_state"}
<1>10. PlaceGroup(r, q, first, some, 11)
  <2>1. PlaceGroup(r, q, facings \cup {touch}, {"place"} \cup {"place_floor_contact"}, 8 + 1)
    BY <1>2, <1>3, PlaceTogether
  <2>2. PlaceGroup(r, q, facings \cup {touch}, {"place", "place_floor_contact"}, 9)
    BY <2>1
  <2>3. PlaceGroup(r, q, (facings \cup {touch}) \cup {corner},
                   {"place", "place_floor_contact"} \cup {"place_footprint_corner"}, 9 + 1)
    BY <1>3, <2>2, PlaceTogether
  <2>4. PlaceGroup(r, q, (facings \cup {touch}) \cup {corner},
                   {"place", "place_floor_contact", "place_footprint_corner"}, 10)
    BY <2>3
  <2>5. PlaceGroup(r, q, first, {"place", "place_floor_contact", "place_footprint_corner"} \cup {"place_doorway"}, 10 + 1)
    BY <1>3, <2>4, PlaceTogether
  <2>. QED
    BY <2>5
<1>11. PlaceGroup(r, q, rest, more, 36)
  <2>1. PlaceGroup(r, q, ranges \cup {hidden}, {"place_range"} \cup {"place_occluded"}, 2 + 1)
    BY <1>4, <1>5, PlaceTogether
  <2>2. PlaceGroup(r, q, ranges \cup {hidden}, {"place_range", "place_occluded"}, 3)
    BY <2>1
  <2>3. PlaceGroup(r, q, (ranges \cup {hidden}) \cup contacts,
                   {"place_range", "place_occluded"} \cup {"place_contact"}, 3 + 2)
    BY <1>6, <2>2, PlaceTogether
  <2>4. PlaceGroup(r, q, (ranges \cup {hidden}) \cup contacts, {"place_range", "place_occluded", "place_contact"}, 5)
    BY <2>3
  <2>5. PlaceGroup(r, q, rest, {"place_range", "place_occluded", "place_contact"} \cup {"place_state"}, 5 + 31)
    BY <1>7, <2>4, PlaceTogether
  <2>. QED
    BY <2>5
<1>12. touch \in D /\ east \in D /\ near \in D /\ mid \in D
  BY <1>2, <1>9
<1>13. some \cap more = {} /\ 11 \in Nat /\ 36 \in Nat /\ 11 + 36 = 47
  OBVIOUS
<1>14. D = first \cup rest
  OBVIOUS
<1> HIDE DEF first, rest, some, more, D
<1>15. PlaceGroup(r, q, D, some \cup more, 47)
  <2>1. PlaceGroup(r, q, first \cup rest, some \cup more, 11 + 36)
    BY <1>10, <1>11, <1>13, PlaceTogether
  <2>. QED
    BY <1>13, <1>14, <2>1
<1>16. /\ \A id \in anchors : \/ id = Vanilla(<<"place_floor_contact">>) \/ id = Vanilla(<<"place_range", "near">>)
                              \/ id = Vanilla(<<"place_range", "mid">>) \/ id = Vanilla(<<"place", "east", "close">>)
       /\ \A id \in ids : \/ id = Vanilla(<<"place_floor_contact">>) \/ id = Vanilla(<<"place_range", "mid">>)
                          \/ id = Vanilla(<<"place", "east", "close">>)
       /\ \A b : Vanilla(b).kind = "minecraft_vanilla"
  BY DEF anchors, ids, PlaceAnchors, PlaceIds, When, Vanilla
<1>17. Supported(D \cup boxes, anchors, ids)
  BY <1>2, <1>3, <1>4, <1>12, <1>16 DEF Supported
<1>18. AtMost(3, ids)
  <2> DEFINE all == {Vanilla(<<"place_floor_contact">>), Vanilla(<<"place_range", "mid">>),
                     Vanilla(<<"place", "east", "close">>)}
  <2>1. AtMost(3, all) /\ ids \subseteq all /\ 3 \in Nat
    BY <1>16, AtMostFew
  <2> HIDE DEF all
  <2>. QED
    BY <2>1, AtMostPart
<1>19. \A e \in boxes : \E d \in D : Twin(e, d)
  BY <1>8, <1>12
<1> DEFINE words == some \cup more
<1>20. Group(r, D, "stock", words, 47, anchors, ids) /\ anchors # {}
  BY <1>15 DEF PlaceGroup, anchors, ids, PlaceAnchors
<1> HIDE DEF words
<1>21. Lowers(q, r, D \cup boxes, ids)
  BY <1>1 DEF Lowers, ScenesOf, PlaceGiven
<1>22. Optional(q, D \cup boxes)
  <2>1. /\ \A d \in D : d.kind \notin {"debug_hitbox_reference", "first_person_scale_reference"}
        /\ \A d \in boxes : d.kind # "first_person_scale_reference" /\ q.hitboxViews
    BY <1>8, <1>20 DEF Group, Family, SortOf, boxes, PlaceBoxes, When
  <2>. QED
    BY <2>1 DEF Optional
<1>23. D # {} /\ r.target = "placeable" /\ "debug_hitbox_reference" # "stock"
  BY <1>12 DEF PlaceGiven
<1>24. 47 \in Nat /\ 2 \in Nat /\ 3 \in Nat /\ 47 + 2 + 3 <= 64
  OBVIOUS
<1>. QED
  BY <1>8, <1>17, <1>18, <1>19, <1>20, <1>21, <1>22, <1>23, <1>24, GroupsLaid

-----------------------------------------------------------------------------
(* Items.                                                                   *)

\* Groups of views together.
LEMMA ItemsTogether ==
  ASSUME NEW D, NEW E, NEW f, NEW V, NEW W, NEW m \in Nat, NEW n \in Nat,
         ItemGroup(D, f, V, m), ItemGroup(E, f, W, n), V \cap W = {}
  PROVE  ItemGroup(D \cup E, f, V \cup W, m + n)
<1>1. Family(D \cup E, "stock", V \cup W, m + n)
  BY FamilyUnion DEF ItemGroup
<1>. QED
  BY <1>1 DEF ItemGroup

\* A group of views that is there on a condition is a group.
LEMMA ItemsWhen ==
  ASSUME NEW D, NEW f, NEW W, NEW n \in Nat, ItemGroup(D, f, W, n), NEW condition
  PROVE  ItemGroup(When(condition, D), f, W, n)
<1>1. Family(When(condition, D), "stock", W, n)
  BY FamilyWhen DEF ItemGroup
<1>2. \A d \in When(condition, D) : d \in D
  BY DEF When
<1>. QED
  BY <1>1, <1>2 DEF ItemGroup

\* One view is a group.
LEMMA ItemAlone ==
  ASSUME NEW d, NEW f, ItemView(d, f)
  PROVE  ItemGroup({d}, f, {d.base[1]}, 1)
<1>1. Family({d}, SortOf(d.kind), {d.base[1]}, 1)
  BY FamilyOne
<1>2. SortOf(d.kind) = "stock"
  BY DEF ItemView, SortOf
<1>. QED
  BY <1>1, <1>2 DEF ItemGroup

\* Such views are a group of no more than the things.
LEMMA ItemsEach ==
  ASSUME NEW D, NEW X, NEW v, NEW f, NEW word, NEW n \in Nat, AtMost(n, X), ImageOf(D, X, v), ItemEach(X, v, f, word)
  PROVE  ItemGroup(D, f, {word}, n)
<1>1. \A d \in D : \E x \in X : d = v[x]
  BY DEF ImageOf
<1>2. \A x \in X : v[x].kind = "minecraft_vanilla" /\ v[x].base[1] = word
  BY DEF ItemEach, ItemView
<1>3. Told(D, "stock", word)
  <2>1. \A d \in D : SortOf(d.kind) = "stock" /\ d.base[1] = word
    BY <1>1, <1>2 DEF SortOf
  <2>2. ASSUME NEW d \in D, NEW e \in D, d.base = e.base PROVE d = e
    <3>1. PICK x \in X : d = v[x]
      BY <1>1
    <3>2. PICK y \in X : e = v[y]
      BY <1>1
    <3>3. x = y
      BY <2>2, <3>1, <3>2 DEF ItemEach
    <3>. QED
      BY <3>1, <3>2, <3>3
  <2>. QED
    BY <2>1, <2>2 DEF Told
<1>4. Family(D, "stock", {word}, n)
  BY <1>3, FamilyImage
<1>5. \A d \in D : ItemView(d, f)
  BY <1>1 DEF ItemEach
<1>. QED
  BY <1>4, <1>5 DEF ItemGroup

\* So described, it is a view of the item in the world.
LEMMA ItemDrafted ==
  ASSUME NEW base, NEW shot, NEW f, NEW camera \in Cameras, NEW hand \in Hands, NEW player \in Players, NEW fov \in 30..120, NoValue # "reference_arm"
  PROVE  /\ ItemView(ItemFrom(base, shot, f, camera, hand, player, fov), f)
         /\ ItemFrom(base, shot, f, camera, hand, player, fov).base = base
<1> DEFINE w == Describe(base, shot, f, Framed(base))
           d == [w EXCEPT !.camera = camera, !.hand = hand, !.player = player, !.fov = fov]
           intents == Framed(base)
<1>1. Plain(Describe(base, shot, f, intents), base, f, intents, {})
  <2> HIDE DEF intents
  <2>. QED
    BY Drafted
<1>2. Plain(w, base, f, intents, {})
  BY <1>1
<1> HIDE DEF w
<1>3. /\ DOMAIN d = Fields /\ d.camera = camera /\ d.hand = hand /\ d.player = player /\ d.fov = fov
      /\ \A field \in Fields \ {"camera", "hand", "player", "fov"} : d[field] = w[field]
  BY <1>2 DEF Plain, Fields
<1> HIDE DEF d, intents
<1>4. /\ d.base = base /\ d.kind = "minecraft_vanilla" /\ d.fixture = f /\ d.presentation = NoValue
      /\ d.intents = intents /\ d.comparisons = {} /\ d.context = w.context /\ d.animation = w.animation
  BY <1>2, <1>3 DEF Plain, Fields
<1>5. Filmed(d)
  BY <1>2, <1>3, <1>4 DEF Filmed, Plain, Cameras, Hands, Players
<1>6. ItemView(d, f) /\ d.base = base
  BY <1>3, <1>4, <1>5 DEF ItemView, intents
<1>. QED
  BY <1>6 DEF d, w, ItemFrom

\* It stays a view when the item is in action or is inspected.
LEMMA ItemRedrafted ==
  ASSUME NEW d, NEW f, ItemView(d, f)
  PROVE  /\ f.target = "held_item" => \A animation :
                           /\ animation[1] \in {"idle", "swing", "use", "fire", "aim", "release", "impact"}
                           /\ animation[2] \in Ticks(MaxFrame)
                           => LET e == [d EXCEPT !.animation = animation] IN ItemView(e, f) /\ e.base = d.base
         /\ LET e == [d EXCEPT !.context = "item_inspection"] IN ItemView(e, f) /\ e.base = d.base
<1>1. ASSUME NEW animation, animation[1] \in {"idle", "swing", "use", "fire", "aim", "release", "impact"},
             animation[2] \in Ticks(MaxFrame), f.target = "held_item"
      PROVE  ItemView([d EXCEPT !.animation = animation], f) /\ [d EXCEPT !.animation = animation].base = d.base
  <2> DEFINE e == [d EXCEPT !.animation = animation]
  <2>1. DOMAIN e = Fields /\ e.animation = animation /\ \A field \in Fields \ {"animation"} : e[field] = d[field]
    BY DEF ItemView, Fields
  <2> HIDE DEF e
  <2>2. /\ e.base = d.base /\ e.kind = d.kind /\ e.fixture = d.fixture /\ e.presentation = d.presentation
        /\ e.intents = d.intents /\ e.comparisons = d.comparisons /\ e.context = d.context /\ e.camera = d.camera
        /\ e.hand = d.hand /\ e.player = d.player /\ e.fov = d.fov
    BY <2>1 DEF Fields
  <2>3. Filmed(e)
    BY <1>1, <2>1, <2>2 DEF Filmed, ItemView
  <2>4. ItemView(e, f)
    BY <2>1, <2>2, <2>3 DEF ItemView, FirstPersonWorld
  <2>. QED
    BY <2>2, <2>4 DEF e
<1>2. ItemView([d EXCEPT !.context = "item_inspection"], f) /\ [d EXCEPT !.context = "item_inspection"].base = d.base
  <2> DEFINE e == [d EXCEPT !.context = "item_inspection"]
  <2>1. DOMAIN e = Fields /\ e.context = "item_inspection" /\ \A field \in Fields \ {"context"} : e[field] = d[field]
    BY DEF ItemView, Fields
  <2> HIDE DEF e
  <2>2. /\ e.base = d.base /\ e.kind = d.kind /\ e.fixture = d.fixture /\ e.presentation = d.presentation
        /\ e.intents = d.intents /\ e.comparisons = d.comparisons /\ e.animation = d.animation /\ e.camera = d.camera
        /\ e.hand = d.hand /\ e.player = d.player /\ e.fov = d.fov
    BY <2>1 DEF Fields
  <2>3. Filmed(e)
    BY <2>1, <2>2 DEF Filmed, ItemView
  <2>4. ItemView(e, f)
    BY <2>1, <2>2, <2>3 DEF ItemView, FirstPersonWorld
  <2>. QED
    BY <2>2, <2>4 DEF e
<1>. QED
  BY <1>1, <1>2

\* So described, it is a view of the item on the screen, at any scale.
LEMMA ItemOnScreen ==
  ASSUME NEW base, NEW shot, NEW f, NEW context \in Screens, NEW presentation, presentation # "reference_arm"
  PROVE  ItemShown(OnScreen(base, shot, f, context, presentation), f, base)
<1> DEFINE w == Describe(base, shot, f, Framed(base))
           d == [w EXCEPT !.context = context, !.presentation = presentation]
           intents == Framed(base)
<1>1. Plain(Describe(base, shot, f, intents), base, f, intents, {})
  <2> HIDE DEF intents
  <2>. QED
    BY Drafted
<1>2. Plain(w, base, f, intents, {})
  BY <1>1
<1> HIDE DEF w
<1>3. /\ DOMAIN d = Fields /\ d.context = context /\ d.presentation = presentation
      /\ \A field \in Fields \ {"context", "presentation"} : d[field] = w[field]
  BY <1>2 DEF Plain, Fields
<1> HIDE DEF d, intents
<1> DEFINE Shot(e) ==
             /\ e.base = base /\ e.kind = "minecraft_vanilla" /\ e.fixture = f /\ e.presentation = presentation
             /\ e.intents = intents /\ e.comparisons = {} /\ e.context = context /\ e.animation = w.animation
             /\ e.camera = w.camera /\ e.hand = w.hand /\ e.player = w.player /\ e.fov = w.fov
<1>4. Shot(d)
  BY <1>2, <1>3 DEF Plain, Fields
<1>5. ASSUME NEW e, DOMAIN e = Fields, Shot(e) PROVE ItemView(e, f) /\ e.base = base
  <2>1. Filmed(e)
    BY <1>2, <1>5 DEF Filmed, Plain, Screens
  <2>2. ~FirstPersonWorld(e)
    BY <1>5 DEF FirstPersonWorld, Screens
  <2>. QED
    BY <1>5, <2>1, <2>2 DEF ItemView, intents
<1>6. ASSUME NEW scale PROVE ItemView([d EXCEPT !.guiScale = scale], f) /\ [d EXCEPT !.guiScale = scale].base = base
  <2> DEFINE e == [d EXCEPT !.guiScale = scale]
  <2>1. DOMAIN e = Fields /\ \A field \in Fields \ {"guiScale"} : e[field] = d[field]
    BY <1>3 DEF Fields
  <2> HIDE DEF e
  <2>2. Shot(e)
    BY <1>4, <2>1 DEF Fields
  <2> HIDE DEF Shot
  <2>3. ItemView(e, f) /\ e.base = base
    BY <1>5, <2>1, <2>2
  <2>. QED
    BY <2>3 DEF e
<1>. QED
  BY <1>3, <1>4, <1>5, <1>6 DEF d, w, OnScreen, ItemShown

\* A few things are listed.
LEMMA PairsFew ==
  /\ AtMost(4, {"right", "left"} \X {"steve", "alex"}) /\ AtMost(2, {"steve", "alex"}) /\ AtMost(2, {"2", "4"})
<1> DEFINE a == {"right", "left"}
           b == {"steve", "alex"}
<1>1. AtMost(2, a) /\ AtMost(2, b) /\ AtMost(2, {"2", "4"}) /\ 2 \in Nat
  BY AtMostFew
<1> HIDE DEF a, b
<1>2. AtMost(2 * 2, a \X b)
  BY <1>1, AtMostPairs
<1>3. AtMost(4, a \X b)
  BY <1>2
<1>. QED
  BY <1>1, <1>3 DEF a, b

\* Views for each hand and player are a group of four.
LEMMA ItemsOfPairs ==
  ASSUME NEW D, NEW v, NEW f, NEW word, PairsImage(D, v), ItemPairs(v, f, word)
  PROVE  ItemGroup(D, f, {word}, 4)
<1> DEFINE X == {"right", "left"} \X {"steve", "alex"}
<1>1. ImageOf(D, X, v)
  BY DEF ImageOf, PairsImage
<1>2. AtMost(4, X) /\ 4 \in Nat
  BY PairsFew
<1>3. ASSUME NEW x \in X PROVE ItemView(v[x], f) /\ v[x].base = <<word, x[1], x[2]>>
  <2>1. PICK hand \in {"right", "left"}, player \in {"steve", "alex"} : x = <<hand, player>>
    OBVIOUS
  <2>2. ItemView(v[<<hand, player>>], f) /\ v[<<hand, player>>].base = <<word, hand, player>>
    BY DEF ItemPairs
  <2>. QED
    BY <2>1, <2>2
<1>4. \A x, y \in X : x[1] = y[1] /\ x[2] = y[2] => x = y
  OBVIOUS
<1> HIDE DEF X
<1>5. ItemEach(X, v, f, word)
  <2> SUFFICES ASSUME NEW x \in X
               PROVE  /\ ItemView(v[x], f) /\ v[x].base[1] = word
                      /\ \A y \in X : v[x].base = v[y].base => x = y
    BY DEF ItemEach
  <2>1. ItemView(v[x], f) /\ v[x].base[1] = word
    BY <1>3
  <2>2. ASSUME NEW y \in X, v[x].base = v[y].base PROVE x = y
    <3>1. <<word, x[1], x[2]>> = <<word, y[1], y[2]>>
      BY <1>3, <2>2
    <3>2. x[1] = y[1] /\ x[2] = y[2]
      BY <3>1
    <3>. QED
      BY <1>4, <3>2
  <2>. QED
    BY <2>1, <2>2
<1>. QED
  BY <1>1, <1>2, <1>5, ItemsEach

\* Held items: at most fifteen views.
LEMMA HeldViews ==
  ASSUME NEW item, NEW f, item.hand \in {"right", "left"}, NoValue # "reference_arm", f.target = "held_item"
  PROVE  /\ \E words : ItemGroup(HeldScenes(item, f), f, words, 15)
         /\ \E d \in HeldScenes(item, f) : FirstPersonWorld(d)
<1> DEFINE From(base, camera, hand, player, fov) ==
             [Describe(base, base, f, Framed(base)) EXCEPT
                !.camera = camera, !.hand = hand, !.player = player, !.fov = fov]
           Actions == {"idle", "swing", "use", "fire", "aim", "release", "impact"}
<1>1. ASSUME NEW base, NEW camera \in Cameras, NEW hand \in Hands, NEW player \in Players, NEW fov \in {50, 70, 100}
      PROVE  ItemView(From(base, camera, hand, player, fov), f) /\ From(base, camera, hand, player, fov).base = base
  <2>1. fov \in 30..120
    OBVIOUS
  <2>2. From(base, camera, hand, player, fov) = ItemFrom(base, base, f, camera, hand, player, fov)
    BY DEF ItemFrom
  <2> DEFINE d == ItemFrom(base, base, f, camera, hand, player, fov)
  <2> HIDE DEF From
  <2>3. ItemView(d, f) /\ d.base = base
    BY <2>1, ItemDrafted
  <2>. QED
    BY <2>2, <2>3
<1> DEFINE Eyes(base, hand, player) == From(base, "first_person", hand, player, 70)
           Acting(base, animation) == [Eyes(base, item.hand, "steve") EXCEPT !.animation = animation]
           aim == IF item.pose = "aim" THEN "aim" ELSE "idle"
           use == IF item.pose = "aim" THEN "aim" ELSE "use"
           inspected == [From(<<"item_neutral">>, "neutral", "right", "steve", 70) EXCEPT !.context = "item_inspection"]
           wide == From(<<"fp_right_wide">>, "first_person", "right", "steve", 100)
           eyes == {Eyes(<<"fp", hand, player>>, hand, player) : hand \in {"right", "left"}, player \in {"steve", "alex"}}
           rear == {From(<<"tp_rear", hand, player>>, "third_person_back", hand, player, 50) :
                      hand \in {"right", "left"}, player \in {"steve", "alex"}}
           front == {From(<<"tp_front", "right", player>>, "third_person_front", "right", player, 50) :
                       player \in {"steve", "alex"}}
           swinging == Acting(<<"swing_midpoint">>, <<"swing", 4>>)
           using == Acting(<<"active_use">>, <<use, 10>>)
           aiming == Acting(<<"aiming">>, <<aim, 0>>)
           swings == When(item.kind \in {"weapon", "tool"} \/ item.pose = "swing", {swinging})
           uses == When(item.pose \notin {"none", "swing"}, {using})
           aims == When(item.aims, {aiming})
           looks == ((eyes \cup {wide}) \cup rear) \cup front
           acts == (({inspected} \cup swings) \cup uses) \cup aims
<1>2. HeldScenes(item, f) = looks \cup acts
  <2>1. HeldScenes(item, f) = eyes \cup {wide} \cup rear \cup front \cup {inspected} \cup swings \cup uses \cup aims
    BY DEF HeldScenes
  <2> HIDE DEF eyes, wide, rear, front, inspected, swings, uses, aims
  <2>. QED
    BY <2>1
<1>17. wide \in looks /\ FirstPersonWorld(wide)
  BY DEF FirstPersonWorld, Describe
<1> HIDE DEF From
<1>0. /\ \A camera \in {"first_person", "third_person_back", "third_person_front", "neutral"} : camera \in Cameras
      /\ {"right", "left"} = Hands /\ {"steve", "alex"} = Players /\ item.hand \in Hands /\ "right" \in Hands
      /\ "steve" \in Players
  BY DEF Cameras, Hands, Players
<1>3. \A base : \A hand \in Hands, player \in Players :
        ItemView(Eyes(base, hand, player), f) /\ Eyes(base, hand, player).base = base
  BY <1>0, <1>1
<1>4. ASSUME NEW base, NEW animation, animation[1] \in Actions, animation[2] \in Ticks(MaxFrame)
      PROVE  ItemView(Acting(base, animation), f) /\ Acting(base, animation).base = base
  <2> DEFINE d == Eyes(base, item.hand, "steve")
  <2>1. ItemView(d, f) /\ d.base = base
    BY <1>0, <1>3
  <2> HIDE DEF d
  <2>2. ItemView([d EXCEPT !.animation = animation], f) /\ [d EXCEPT !.animation = animation].base = d.base
    BY <1>4, <2>1, ItemRedrafted
  <2>. QED
    BY <2>1, <2>2 DEF d
<1>5. ItemView(inspected, f) /\ inspected.base = <<"item_neutral">>
  <2> DEFINE b == <<"item_neutral">>
             d == From(b, "neutral", "right", "steve", 70)
  <2>1. ItemView(d, f) /\ d.base = b
    BY <1>0, <1>1
  <2>2. inspected = [d EXCEPT !.context = "item_inspection"]
    OBVIOUS
  <2> HIDE DEF d, inspected
  <2>3. ItemView([d EXCEPT !.context = "item_inspection"], f) /\ [d EXCEPT !.context = "item_inspection"].base = d.base
    BY <2>1, ItemRedrafted
  <2>. QED
    BY <2>1, <2>2, <2>3
<1>6. ItemGroup(eyes, f, {"fp"}, 4)
  <2> DEFINE v == [x \in {"right", "left"} \X {"steve", "alex"} |-> Eyes(<<"fp", x[1], x[2]>>, x[1], x[2])]
  <2>1. \A hand \in {"right", "left"}, player \in {"steve", "alex"} :
          v[<<hand, player>>] = Eyes(<<"fp", hand, player>>, hand, player)
    OBVIOUS
  <2> HIDE DEF v
  <2>2. PairsImage(eyes, v)
    BY <2>1 DEF PairsImage
  <2>3. ItemPairs(v, f, "fp")
    <3> HIDE DEF Eyes
    <3>. QED
      BY <1>0, <1>3, <2>1 DEF ItemPairs
  <2> HIDE DEF eyes
  <2>. QED
    BY <2>2, <2>3, ItemsOfPairs
<1>7. ItemGroup(rear, f, {"tp_rear"}, 4)
  <2> DEFINE Of(hand, player) == From(<<"tp_rear", hand, player>>, "third_person_back", hand, player, 50)
             v == [x \in {"right", "left"} \X {"steve", "alex"} |-> Of(x[1], x[2])]
  <2>1. \A hand \in {"right", "left"}, player \in {"steve", "alex"} : v[<<hand, player>>] = Of(hand, player)
    OBVIOUS
  <2>2. \A hand \in Hands, player \in Players :
          ItemView(Of(hand, player), f) /\ Of(hand, player).base = <<"tp_rear", hand, player>>
    BY <1>0, <1>1
  <2> HIDE DEF v
  <2>3. PairsImage(rear, v)
    BY <2>1 DEF PairsImage
  <2> HIDE DEF Of
  <2>4. ItemPairs(v, f, "tp_rear")
    BY <1>0, <2>1, <2>2 DEF ItemPairs
  <2> HIDE DEF rear
  <2>. QED
    BY <2>3, <2>4, ItemsOfPairs
<1>8. ItemGroup(front, f, {"tp_front"}, 2)
  <2> DEFINE X == {"steve", "alex"}
             Of(player) == From(<<"tp_front", "right", player>>, "third_person_front", "right", player, 50)
             v == [x \in X |-> Of(x)]
             word == "tp_front"
  <2>1. \A x \in X : v[x] = Of(x)
    OBVIOUS
  <2>2. \A x \in X : ItemView(Of(x), f) /\ Of(x).base = <<"tp_front", "right", x>>
    BY <1>0, <1>1
  <2>3. ImageOf(front, X, v)
    BY DEF ImageOf
  <2>4. AtMost(2, X) /\ 2 \in Nat
    BY PairsFew
  <2> HIDE DEF v, Of, front, X
  <2>5. ItemEach(X, v, f, word)
    BY <2>1, <2>2 DEF ItemEach
  <2>. QED
    BY <2>3, <2>4, <2>5, ItemsEach
<1>9. ItemView(wide, f) /\ wide.base = <<"fp_right_wide">>
  BY <1>0, <1>1
<1>10. /\ ItemView(swinging, f) /\ swinging.base = <<"swing_midpoint">>
       /\ ItemView(using, f) /\ using.base = <<"active_use">>
       /\ ItemView(aiming, f) /\ aiming.base = <<"aiming">>
  <2>1. 4 \in Ticks(MaxFrame) /\ 10 \in Ticks(MaxFrame) /\ 0 \in Ticks(MaxFrame)
    BY DEF Ticks, MaxFrame
  <2> DEFINE s == <<"swing", 4>>
             u == <<use, 10>>
             a == <<aim, 0>>
  <2>2. s[1] \in Actions /\ s[2] = 4 /\ u[1] \in Actions /\ u[2] = 10 /\ a[1] \in Actions /\ a[2] = 0
    OBVIOUS
  <2>3. /\ swinging = Acting(<<"swing_midpoint">>, s) /\ using = Acting(<<"active_use">>, u)
        /\ aiming = Acting(<<"aiming">>, a)
    OBVIOUS
  <2> HIDE DEF s, u, a, Acting, swinging, using, aiming
  <2>. QED
    BY <1>4, <2>1, <2>2, <2>3
<1> HIDE DEF eyes, wide, rear, front, inspected, swinging, using, aiming
<1>11. /\ ItemGroup({wide}, f, {"fp_right_wide"}, 1) /\ ItemGroup({inspected}, f, {"item_neutral"}, 1)
       /\ ItemGroup({swinging}, f, {"swing_midpoint"}, 1) /\ ItemGroup({using}, f, {"active_use"}, 1)
       /\ ItemGroup({aiming}, f, {"aiming"}, 1)
  <2>1. /\ wide.base[1] = "fp_right_wide" /\ inspected.base[1] = "item_neutral" /\ swinging.base[1] = "swing_midpoint"
        /\ using.base[1] = "active_use" /\ aiming.base[1] = "aiming"
    BY <1>5, <1>9, <1>10
  <2>2. \A d, word : ItemView(d, f) /\ d.base[1] = word => ItemGroup({d}, f, {word}, 1)
    BY ItemAlone
  <2>. QED
    BY <1>5, <1>9, <1>10, <2>1, <2>2
<1>12. /\ ItemGroup(swings, f, {"swing_midpoint"}, 1) /\ ItemGroup(uses, f, {"active_use"}, 1)
       /\ ItemGroup(aims, f, {"aiming"}, 1)
  BY <1>11, ItemsWhen
<1> HIDE DEF swings, uses, aims
<1>13. ItemGroup(looks, f, {"fp", "fp_right_wide", "tp_rear", "tp_front"}, 11)
  <2>1. ItemGroup(eyes \cup {wide}, f, {"fp"} \cup {"fp_right_wide"}, 4 + 1)
    BY <1>6, <1>11, ItemsTogether
  <2>2. ItemGroup(eyes \cup {wide}, f, {"fp", "fp_right_wide"}, 5)
    BY <2>1
  <2>3. ItemGroup((eyes \cup {wide}) \cup rear, f, {"fp", "fp_right_wide"} \cup {"tp_rear"}, 5 + 4)
    BY <1>7, <2>2, ItemsTogether
  <2>4. ItemGroup((eyes \cup {wide}) \cup rear, f, {"fp", "fp_right_wide", "tp_rear"}, 9)
    BY <2>3
  <2>5. ItemGroup(looks, f, {"fp", "fp_right_wide", "tp_rear"} \cup {"tp_front"}, 9 + 2)
    BY <1>8, <2>4, ItemsTogether
  <2>. QED
    BY <2>5
<1>14. ItemGroup(acts, f, {"item_neutral", "swing_midpoint", "active_use", "aiming"}, 4)
  <2>1. ItemGroup({inspected} \cup swings, f, {"item_neutral"} \cup {"swing_midpoint"}, 1 + 1)
    BY <1>11, <1>12, ItemsTogether
  <2>2. ItemGroup({inspected} \cup swings, f, {"item_neutral", "swing_midpoint"}, 2)
    BY <2>1
  <2>3. ItemGroup(({inspected} \cup swings) \cup uses, f, {"item_neutral", "swing_midpoint"} \cup {"active_use"}, 2 + 1)
    BY <1>12, <2>2, ItemsTogether
  <2>4. ItemGroup(({inspected} \cup swings) \cup uses, f, {"item_neutral", "swing_midpoint", "active_use"}, 3)
    BY <2>3
  <2>5. ItemGroup(acts, f, {"item_neutral", "swing_midpoint", "active_use"} \cup {"aiming"}, 3 + 1)
    BY <1>12, <2>4, ItemsTogether
  <2>. QED
    BY <2>5
<1> DEFINE some == {"fp", "fp_right_wide", "tp_rear", "tp_front"}
           more == {"item_neutral", "swing_midpoint", "active_use", "aiming"}
<1>15. some \cap more = {} /\ 11 \in Nat /\ 4 \in Nat /\ 11 + 4 = 15
  OBVIOUS
<1> HIDE DEF looks, acts, some, more
<1>16. ItemGroup(looks \cup acts, f, some \cup more, 11 + 4)
  BY <1>13, <1>14, <1>15, ItemsTogether DEF some, more
<1>. QED
  BY <1>2, <1>15, <1>16, <1>17

\* Items of the interface: at most ten views.
LEMMA GuiViews ==
  ASSUME NEW gui, NEW f, AtMost(3, gui.counts), NoValue # "reference_arm"
  PROVE  \E words : ItemGroup(GuiScenes(gui, f), f, words, 10)
<1> DEFINE In(base, context, presentation) ==
             [Describe(base, <<"gui">>, f, Framed(base)) EXCEPT !.context = context, !.presentation = presentation]
           Sized(scale) == [In(<<"gui_inventory", scale>>, "inventory", NoValue) EXCEPT !.guiScale = scale]
           Stacked(count) == In(<<"gui_count", count>>, "inventory", "stack_count")
           bar == In(<<"gui_hotbar">>, "hotbar", NoValue)
           chosen == In(<<"gui_hotbar_selected">>, "hotbar", "selected_hotbar")
           tip == In(<<"gui_tooltip">>, "tooltip", NoValue)
           worn == In(<<"gui_durability">>, "inventory", "durability")
           bright == In(<<"gui_glint">>, "inventory", "glint")
           scales == {"2", "4"}
           slots == {Sized(scale) : scale \in scales}
           counts == {Stacked(count) : count \in gui.counts}
           wear == When(gui.durability, {worn})
           glint == When(gui.glint, {bright})
           bars == ({bar} \cup {chosen}) \cup {tip}
           rest == (counts \cup wear) \cup glint
<1>1. GuiScenes(gui, f) = (slots \cup bars) \cup rest
  <2>1. GuiScenes(gui, f) = slots \cup {bar, chosen, tip} \cup counts \cup wear \cup glint
    BY DEF GuiScenes
  <2> HIDE DEF slots, bar, chosen, tip, counts, wear, glint
  <2>. QED
    BY <2>1
<1>2. ASSUME NEW base, NEW context \in Screens, NEW presentation, presentation # "reference_arm"
      PROVE  ItemView(In(base, context, presentation), f) /\ In(base, context, presentation).base = base
  <2> DEFINE shot == <<"gui">>
             d == OnScreen(base, shot, f, context, presentation)
  <2>1. In(base, context, presentation) = d
    BY DEF OnScreen
  <2> HIDE DEF d, shot, In
  <2>2. ItemShown(OnScreen(base, shot, f, context, presentation), f, base)
    BY <1>2, ItemOnScreen
  <2>. QED
    BY <2>1, <2>2 DEF d, ItemShown
<1>0. "inventory" \in Screens /\ "hotbar" \in Screens /\ "tooltip" \in Screens
  BY DEF Screens
<1>3. ASSUME NEW scale PROVE ItemView(Sized(scale), f) /\ Sized(scale).base = <<"gui_inventory", scale>>
  <2> DEFINE shot == <<"gui">>
             base == <<"gui_inventory", scale>>
             screen == "inventory"
             d == OnScreen(base, shot, f, screen, NoValue)
  <2>1. Sized(scale) = [d EXCEPT !.guiScale = scale]
    BY DEF OnScreen
  <2>2. base = <<"gui_inventory", scale>> /\ screen \in Screens
    BY <1>0
  <2> HIDE DEF d, shot, base, Sized, screen
  <2>3. ItemShown(OnScreen(base, shot, f, screen, NoValue), f, base)
    BY <2>2, ItemOnScreen
  <2>. QED
    BY <2>1, <2>2, <2>3 DEF d, ItemShown
<1> HIDE DEF In
<1>4. /\ ItemView(bar, f) /\ bar.base = <<"gui_hotbar">> /\ ItemView(chosen, f) /\ chosen.base = <<"gui_hotbar_selected">>
      /\ ItemView(tip, f) /\ tip.base = <<"gui_tooltip">> /\ ItemView(worn, f) /\ worn.base = <<"gui_durability">>
      /\ ItemView(bright, f) /\ bright.base = <<"gui_glint">>
  BY <1>0, <1>2
<1>5. \A count : ItemView(Stacked(count), f) /\ Stacked(count).base = <<"gui_count", count>>
  BY <1>0, <1>2
<1> HIDE DEF Sized, Stacked, bar, chosen, tip, worn, bright
<1>6. ItemGroup(slots, f, {"gui_inventory"}, 2)
  <2> DEFINE v == [x \in scales |-> Sized(x)]
             word == "gui_inventory"
  <2>1. \A x \in scales : v[x] = Sized(x)
    OBVIOUS
  <2>2. ImageOf(slots, scales, v)
    BY DEF ImageOf
  <2>3. AtMost(2, scales) /\ 2 \in Nat
    BY PairsFew
  <2> HIDE DEF v, slots, scales
  <2>4. ItemEach(scales, v, f, word)
    BY <1>3, <2>1 DEF ItemEach
  <2>. QED
    BY <2>2, <2>3, <2>4, ItemsEach
<1>7. ItemGroup(counts, f, {"gui_count"}, 3)
  <2> DEFINE X == gui.counts
             v == [x \in X |-> Stacked(x)]
             word == "gui_count"
  <2>1. \A x \in X : v[x] = Stacked(x)
    OBVIOUS
  <2>2. ImageOf(counts, X, v)
    BY DEF ImageOf
  <2>3. AtMost(3, X) /\ 3 \in Nat
    OBVIOUS
  <2> HIDE DEF v, counts, X
  <2>4. ItemEach(X, v, f, word)
    BY <1>5, <2>1 DEF ItemEach
  <2>. QED
    BY <2>2, <2>3, <2>4, ItemsEach
<1>8. /\ ItemGroup({bar}, f, {"gui_hotbar"}, 1) /\ ItemGroup({chosen}, f, {"gui_hotbar_selected"}, 1)
      /\ ItemGroup({tip}, f, {"gui_tooltip"}, 1) /\ ItemGroup({worn}, f, {"gui_durability"}, 1)
      /\ ItemGroup({bright}, f, {"gui_glint"}, 1)
  <2>1. /\ bar.base[1] = "gui_hotbar" /\ chosen.base[1] = "gui_hotbar_selected" /\ tip.base[1] = "gui_tooltip"
        /\ worn.base[1] = "gui_durability" /\ bright.base[1] = "gui_glint"
    BY <1>4
  <2>2. \A d, word : ItemView(d, f) /\ d.base[1] = word => ItemGroup({d}, f, {word}, 1)
    BY ItemAlone
  <2>. QED
    BY <1>4, <2>1, <2>2
<1>9. ItemGroup(wear, f, {"gui_durability"}, 1) /\ ItemGroup(glint, f, {"gui_glint"}, 1)
  BY <1>8, ItemsWhen
<1> HIDE DEF slots, counts, wear, glint
<1>10. ItemGroup(bars, f, {"gui_hotbar", "gui_hotbar_selected", "gui_tooltip"}, 3)
  <2>1. ItemGroup({bar} \cup {chosen}, f, {"gui_hotbar"} \cup {"gui_hotbar_selected"}, 1 + 1)
    BY <1>8, ItemsTogether
  <2>2. ItemGroup({bar} \cup {chosen}, f, {"gui_hotbar", "gui_hotbar_selected"}, 2)
    BY <2>1
  <2>3. ItemGroup(bars, f, {"gui_hotbar", "gui_hotbar_selected"} \cup {"gui_tooltip"}, 2 + 1)
    BY <1>8, <2>2, ItemsTogether
  <2>. QED
    BY <2>3
<1>11. ItemGroup(rest, f, {"gui_count", "gui_durability", "gui_glint"}, 5)
  <2>1. ItemGroup(counts \cup wear, f, {"gui_count"} \cup {"gui_durability"}, 3 + 1)
    BY <1>7, <1>9, ItemsTogether
  <2>2. ItemGroup(counts \cup wear, f, {"gui_count", "gui_durability"}, 4)
    BY <2>1
  <2>3. ItemGroup(rest, f, {"gui_count", "gui_durability"} \cup {"gui_glint"}, 4 + 1)
    BY <1>9, <2>2, ItemsTogether
  <2>. QED
    BY <2>3
<1> DEFINE some == {"gui_inventory"} \cup {"gui_hotbar", "gui_hotbar_selected", "gui_tooltip"}
           more == {"gui_count", "gui_durability", "gui_glint"}
<1>12. ItemGroup(slots \cup bars, f, some, 2 + 3)
  BY <1>6, <1>10, ItemsTogether
<1>13. some \cap more = {} /\ 5 \in Nat /\ 5 + 5 = 10 /\ ItemGroup(slots \cup bars, f, some, 5)
  BY <1>12
<1> HIDE DEF bars, rest, some, more
<1>14. ItemGroup((slots \cup bars) \cup rest, f, some \cup more, 5 + 5)
  BY <1>11, <1>13, ItemsTogether DEF more
<1>. QED
  BY <1>1, <1>13, <1>14

\* The fixture of an item has the shape the protocol asks for.
LEMMA ItemPutUp ==
  ASSUME NEW r, ItemGiven(r)
  PROVE  PutUp(r, ItemFixture(r))
<1> DEFINE f == ItemFixture(r)
<1>1. /\ DOMAIN f = {"kind", "target", "state"} /\ f.kind = "item_stack" /\ f.target = r.target
      /\ f.state = FirstState(r)
  BY DEF ItemFixture
<1> HIDE DEF f
<1>2. ShapeOf(f) = <<>> /\ DOMAIN <<>> = {}
  BY <1>1 DEF ShapeOf
<1>3. FixtureShaped(f)
  BY <1>1, <1>2 DEF FixtureShaped
<1>4. Arranged(f)
  BY <1>1 DEF Arranged, DisplayKinds
<1>5. PutUp(r, f)
  BY <1>1, <1>3, <1>4 DEF PutUp, ItemGiven
<1>. QED
  BY <1>5 DEF f

\* Both are ready, and the second has the first for its twin.
LEMMA ItemReady ==
  ASSUME NEW r, ItemGiven(r), NEW d, ItemView(d, ItemFixture(r)), NoValue # "reference_arm"
  PROVE  /\ Ready(r, StockView(d), {}, {}) /\ StockView(d).base = d.base /\ SortOf(StockView(d).kind) = "stock"
         /\ FirstPersonWorld(d) =>
              /\ Ready(r, ScaleView(d), {}, {}) /\ ScaleView(d).base = d.base
              /\ ScaleView(d).kind = "first_person_scale_reference" /\ Twin(ScaleView(d), StockView(d))
<1> DEFINE f == ItemFixture(r)
           b == d.base
           framed == Framed(b)
<1>1. PutUp(r, f) /\ r.target \in {"held_item", "gui_item"}
  BY ItemPutUp DEF ItemGiven
<1>2. /\ DOMAIN d = Fields /\ Filmed(d) /\ d.kind = "minecraft_vanilla" /\ d.fixture = f
      /\ d.presentation # "reference_arm" /\ (FirstPersonWorld(d) => d.presentation = NoValue)
      /\ d.intents = framed /\ d.comparisons = {}
  BY DEF ItemView
<1>3. Scored(b, framed, {}, {}, {})
  <2> DEFINE metric == "frame_retention"
             none == {}
  <2>1. metric \notin Boxed \cup {"foreground_control"} /\ framed = {Advisory(b, metric)}
    BY DEF Boxed, Framed
  <2> HIDE DEF metric, none, framed, b
  <2>2. Scored(b, {Advisory(b, metric)}, none, none, none)
    BY <2>1, AdvisedOne
  <2>. QED
    BY <2>1, <2>2 DEF none
<1> HIDE DEF f, b, framed
<1>4. AtMost(3, {}) /\ AtMost(3, framed)
  BY <1>3, NoMoreThanThree DEF Scored
<1> DEFINE Angled(e) ==
             /\ DOMAIN e = Fields /\ Filmed(e) /\ e.fixture = f /\ e.base = b
             /\ e.comparisons = {} /\ (FirstPersonWorld(e) <=> FirstPersonWorld(d))
<1>5. ASSUME NEW e, Angled(e), e.intents \in {{}, framed}, e.kind # "debug_hitbox_reference",
             e.kind \in {"minecraft_vanilla", "first_person_vanilla", "first_person_scale_reference"},
             e.kind = "minecraft_vanilla" <=> ~FirstPersonWorld(d),
             e.kind = "first_person_scale_reference" => e.intents = {},
             e.kind = "first_person_scale_reference" <=> e.presentation = "reference_arm"
      PROVE  Ready(r, e, {}, {})
  <2>1. Viewed(r, e)
    BY <1>1, <1>5 DEF Viewed
  <2>2. AtMost(3, e.intents) /\ AtMost(3, e.comparisons) /\ \A x, y \in e.intents : x.id = y.id => x = y
    BY <1>3, <1>4, <1>5 DEF Scored
  <2>3. Drawn(r, e)
    BY <1>1, <1>5, <2>1, <2>2 DEF Drawn
  <2>4. ASSUME NEW i \in e.intents PROVE Measurable(e, i, {}, {})
    <3>1. i \in framed
      BY <1>5, <2>4
    <3>2. i.id = <<b, i.id[2]>> /\ i.id[2] = "frame_retention" /\ i.sources = {} /\ i.critical = FALSE
      BY <3>1 DEF framed, Framed, Advisory, Intent
    <3>. QED
      BY <1>5, <3>2 DEF Measurable, Boxed
  <2>5. Linked(e, {}, {})
    BY <1>5, <2>2, <2>4 DEF Linked
  <2>. QED
    BY <2>3, <2>5 DEF Ready
<1>6. Angled(d)
  BY <1>2 DEF b
<1>7. ASSUME FirstPersonWorld(d)
      PROVE  LET e == StockView(d)
             IN  /\ Angled(e) /\ e.intents = framed /\ e.kind = "first_person_vanilla" /\ e.presentation = NoValue
                 /\ \A field \in Fields \ {"kind"} : e[field] = d[field]
  <2> DEFINE e == [d EXCEPT !.kind = "first_person_vanilla"]
  <2>1. /\ DOMAIN e = Fields /\ e.kind = "first_person_vanilla"
        /\ \A field \in Fields \ {"kind"} : e[field] = d[field]
    BY <1>2 DEF Fields
  <2>2. StockView(d) = e
    BY <1>7 DEF StockView
  <2> HIDE DEF e
  <2>3. Angled(e) /\ e.intents = framed /\ e.presentation = NoValue
    BY <1>2, <1>7, <2>1 DEF Fields, Filmed, FirstPersonWorld, b
  <2>. QED
    BY <2>1, <2>2, <2>3
<1>8. ASSUME FirstPersonWorld(d)
      PROVE  LET e == ScaleView(d)
             IN  /\ Angled(e) /\ e.intents = {} /\ e.kind = "first_person_scale_reference" /\ e.presentation = "reference_arm"
                 /\ \A field \in Fields \ {"kind", "intents", "presentation"} : e[field] = d[field]
  <2> DEFINE e == ScaleView(d)
  <2>1. /\ DOMAIN e = Fields /\ e.kind = "first_person_scale_reference" /\ e.intents = {}
        /\ e.presentation = "reference_arm"
        /\ \A field \in Fields \ {"kind", "intents", "presentation"} : e[field] = d[field]
    BY <1>2 DEF Fields, ScaleView
  <2> HIDE DEF e
  <2>2. Angled(e)
    BY <1>2, <1>8, <2>1 DEF Fields, Filmed, FirstPersonWorld, b
  <2>. QED
    BY <2>1, <2>2 DEF e
<1>9. CASE FirstPersonWorld(d)
  <2> DEFINE v == StockView(d)
             s == ScaleView(d)
  <2>1. /\ Angled(v) /\ v.intents = framed /\ v.kind = "first_person_vanilla" /\ v.presentation = NoValue
        /\ \A field \in Fields \ {"kind"} : v[field] = d[field]
    BY <1>7, <1>9
  <2>2. /\ Angled(s) /\ s.intents = {} /\ s.kind = "first_person_scale_reference" /\ s.presentation = "reference_arm"
        /\ \A field \in Fields \ {"kind", "intents", "presentation"} : s[field] = d[field]
    BY <1>8, <1>9
  <2> HIDE DEF v, s
  <2>3. v.base = b /\ s.base = b
    BY <2>1, <2>2
  <2>4. Twin(s, v)
    BY <2>1, <2>2, <2>3 DEF Twin
  <2> HIDE DEF Angled
  <2>5. Ready(r, v, {}, {})
    BY <1>5, <1>9, <2>1
  <2>6. Ready(r, s, {}, {})
    BY <1>5, <1>9, <2>2
  <2>7. SortOf(v.kind) = "stock"
    BY <2>1 DEF SortOf
  <2>. QED
    BY <2>2, <2>3, <2>4, <2>5, <2>6, <2>7 DEF v, s, b
<1>10. CASE ~FirstPersonWorld(d)
  <2>1. StockView(d) = d
    BY <1>10 DEF StockView
  <2> HIDE DEF Angled
  <2>2. Ready(r, d, {}, {})
    BY <1>2, <1>5, <1>6, <1>10
  <2>3. SortOf(d.kind) = "stock"
    BY <1>2 DEF SortOf
  <2>. QED
    BY <1>10, <2>1, <2>2, <2>3
<1>. QED
  BY <1>9, <1>10

\* At most fifteen views of an item are reviewed.
LEMMA ItemsReviewed ==
  ASSUME NEW q, NEW r, ItemAsked(q, r), NoValue # "reference_arm"
  PROVE  /\ \E words : ItemGroup(ItemReviewed(q, r), ItemFixture(r), words, 15)
         /\ ItemReviewed(q, r) # {}
         /\ q.profile # "gui_item" => \E d \in ItemReviewed(q, r) : FirstPersonWorld(d)
<1> DEFINE f == ItemFixture(r)
<1>1. f.target = r.target
  BY DEF ItemFixture
<1>0. q.profile # "gui_item" => r.target = "held_item"
  BY DEF ItemAsked, ItemGiven, TargetOf
<1> HIDE DEF f
<1>2. CASE q.profile = "gui_item"
  <2> DEFINE G == GuiScenes(q.gui, f)
  <2>1. G # {}
    <3>1. \E d \in G : d = [Describe(<<"gui_tooltip">>, <<"gui">>, f, Framed(<<"gui_tooltip">>)) EXCEPT
                              !.context = "tooltip", !.presentation = NoValue]
      BY DEF GuiScenes
    <3>. QED
      BY <3>1
  <2>2. PICK words : ItemGroup(G, f, words, 10)
    BY GuiViews DEF ItemAsked
  <2>3. 10 \in Nat /\ 15 \in Nat /\ 10 <= 15
    OBVIOUS
  <2> HIDE DEF G
  <2>4. AtMost(15, G)
    BY <2>2, <2>3, AtMostMore DEF ItemGroup, Family
  <2>5. ItemGroup(G, f, words, 15)
    BY <2>2, <2>4 DEF ItemGroup, Family
  <2>. QED
    BY <1>2, <2>1, <2>5 DEF G, f, ItemReviewed
<1>3. CASE q.profile # "gui_item"
  <2> DEFINE H == HeldScenes(q.held, f)
  <2>1. (\E d \in H : FirstPersonWorld(d)) /\ \E words : ItemGroup(H, f, words, 15)
    BY <1>0, <1>1, <1>3, HeldViews DEF ItemAsked
  <2> HIDE DEF H
  <2>. QED
    BY <1>3, <2>1 DEF H, f, ItemReviewed
<1>. QED
  BY <1>2, <1>3

\* What is made of every view of a family is a group of its own.
LEMMA ItemsMade ==
  ASSUME NEW r, NEW W, NEW words, NEW v, NEW D, NEW sort, NEW n \in Nat,
         Family(W, "stock", words, n), ImageOf(D, W, v),
         \A d \in W : Ready(r, v[d], {}, {}) /\ v[d].base = d.base /\ SortOf(v[d].kind) = sort
  PROVE  Group(r, D, sort, words, n, {}, {})
<1>1. AtMost(n, D)
  <2>1. AtMost(n, {v[d] : d \in W})
    BY AtMostImage DEF Family
  <2>2. D \subseteq {v[d] : d \in W}
    BY DEF ImageOf
  <2>. QED
    BY <2>1, <2>2, AtMostPart
<1>2. \A e \in D : \E d \in W : e = v[d]
  BY DEF ImageOf
<1>3. \A e \in D : Ready(r, e, {}, {}) /\ SortOf(e.kind) = sort /\ e.base[1] \in words
  BY <1>2 DEF Family
<1>4. ASSUME NEW e \in D, NEW g \in D, e.base = g.base PROVE e = g
  <2>1. PICK d \in W : e = v[d]
    BY <1>2
  <2>2. PICK x \in W : g = v[x]
    BY <1>2
  <2>3. d.base = x.base
    BY <1>4, <2>1, <2>2
  <2>. QED
    BY <2>1, <2>2, <2>3 DEF Family
<1>. QED
  BY <1>1, <1>3, <1>4 DEF Group, Family

\* The scenes of an item are a plan.
LEMMA ItemsPlannable ==
  ASSUME NEW q, NEW r, q.scaleViews => q.profile = "held_item", ItemAsked(q, r), NoValue # "reference_arm"
  PROVE  Plannable(q, r)
<1> DEFINE f == ItemFixture(r)
           W == ItemReviewed(q, r)
           eyes == {d \in W : FirstPersonWorld(d)}
           Firm(d) == [d EXCEPT !.kind = "first_person_vanilla"]
           scaled == When(q.scaleViews, {ScaleView(d) : d \in eyes})
           D == (W \ eyes) \cup {Firm(d) : d \in eyes}
           none == {}
<1>1. ASSUME NEW p, Alike(p, q) PROVE ItemScenes(p, r) = LowerAll(r, p.settling, D \cup scaled, none)
  <2> DEFINE V == ItemReviewed(p, r)
             e == {d \in V : FirstPersonWorld(d)}
  <2>1. ItemScenes(p, r) = LowerAll(r, p.settling,
          ((V \ e) \cup {Firm(d) : d \in e}) \cup When(p.scaleViews, {ScaleView(d) : d \in e}), none)
    BY DEF ItemScenes, LowerAll, WithControls, ItemReviewed, ItemFixture, ScaleView
  <2>2. V = W /\ p.scaleViews = q.scaleViews
    BY <1>1 DEF Alike, ItemReviewed
  <2> HIDE DEF V, W
  <2>. QED
    BY <2>1, <2>2
<1>2. D = {StockView(d) : d \in W}
  BY DEF StockView
<1>3. eyes \subseteq W /\ \A d \in eyes : FirstPersonWorld(d)
  OBVIOUS
<1>4. PICK words : ItemGroup(W, f, words, 15)
  BY ItemsReviewed
<1>5. W # {} /\ (q.scaleViews => \E d \in W : FirstPersonWorld(d))
  BY ItemsReviewed
<1>6. /\ \A e \in scaled : q.scaleViews /\ \E d \in eyes : e = ScaleView(d)
      /\ q.scaleViews => \A d \in W : FirstPersonWorld(d) => ScaleView(d) \in scaled
  BY DEF When
<1> HIDE DEF W, f, eyes, scaled, D
<1>7. Family(W, "stock", words, 15) /\ 15 \in Nat
  BY <1>4 DEF ItemGroup
<1>8. ASSUME NEW d \in W
      PROVE  /\ Ready(r, StockView(d), none, none) /\ StockView(d).base = d.base /\ SortOf(StockView(d).kind) = "stock"
             /\ FirstPersonWorld(d) =>
                  /\ Ready(r, ScaleView(d), none, none) /\ ScaleView(d).base = d.base
                  /\ ScaleView(d).kind = "first_person_scale_reference" /\ Twin(ScaleView(d), StockView(d))
  <2>1. ItemView(d, ItemFixture(r))
    BY <1>4 DEF ItemGroup, f
  <2>. QED
    BY <2>1, ItemReady DEF ItemAsked
<1>9. Group(r, D, "stock", words, 15, none, none)
  <2> DEFINE v == [d \in W |-> StockView(d)]
  <2>1. \A d \in W : v[d] = StockView(d)
    OBVIOUS
  <2> HIDE DEF v
  <2>2. ImageOf(D, W, v)
    BY <1>2, <2>1 DEF ImageOf
  <2>3. \A d \in W : Ready(r, v[d], {}, {}) /\ v[d].base = d.base /\ SortOf(v[d].kind) = "stock"
    BY <1>8, <2>1
  <2>. QED
    BY <1>7, <2>2, <2>3, ItemsMade
<1> DEFINE aid == "first_person_scale_reference"
<1>10. Group(r, scaled, aid, words, 15, none, none)
  <2> DEFINE v == [d \in eyes |-> ScaleView(d)]
  <2>1. \A d \in eyes : v[d] = ScaleView(d)
    OBVIOUS
  <2> HIDE DEF v
  <2>2. ImageOf(scaled, eyes, v)
    BY <1>6, <2>1 DEF ImageOf
  <2>3. \A d \in eyes : Ready(r, v[d], {}, {}) /\ v[d].base = d.base /\ SortOf(v[d].kind) = aid
    BY <1>3, <1>8, <2>1 DEF SortOf
  <2>4. Family(eyes, "stock", words, 15)
    BY <1>3, <1>7, AtMostPart DEF Family
  <2>. QED
    BY <1>7, <2>2, <2>3, <2>4, ItemsMade
<1>11. \A e \in scaled : \E d \in D : Twin(e, d)
  BY <1>2, <1>3, <1>6, <1>8
<1>12. D # {}
  BY <1>2, <1>5
<1>13. Supported(D \cup scaled, none, none)
  BY DEF Supported
<1>14. AtMost(0, none) /\ 0 \in Nat /\ 15 + 15 + 0 <= 64 /\ aid # "stock"
  BY AtMostFew
<1>15. none = {}
  OBVIOUS
<1>16. Lowers(q, r, D \cup scaled, none) /\ r.strategy \notin DisplayKinds
  BY <1>1 DEF Lowers, ScenesOf, ItemAsked, ItemGiven, DisplayKinds
<1>17. Optional(q, D \cup scaled)
  <2>1. /\ \A d \in D : d.kind \notin {"debug_hitbox_reference", "first_person_scale_reference"}
        /\ \A d \in scaled : d.kind = "first_person_scale_reference" /\ q.scaleViews
    BY <1>3, <1>6, <1>8, <1>9 DEF Group, Family, SortOf
  <2>2. q.scaleViews => \E d \in scaled : d.kind = "first_person_scale_reference"
    BY <1>5, <1>6, <2>1
  <2>. QED
    BY <2>1, <2>2 DEF Optional
<1> HIDE DEF none, aid
<1>. QED
  BY <1>7, <1>9, <1>10, <1>11, <1>12, <1>13, <1>14, <1>15, <1>16, <1>17, GroupsLaid

-----------------------------------------------------------------------------
(* Every request that is not refused.                                       *)

\* What such a request represents, and how many states that has.
LEMMA RequestGives ==
  ASSUME NEW q, NEW r, r = q.representation, Answered(q)
  PROVE  /\ RepresentationAccepted(r) /\ r.target = TargetOf(q.profile) /\ r.target \in TargetsOf(r.strategy)
         /\ q.settling = NoValue \/ q.settling \in 2..40
         /\ q.scaleViews => q.profile = "held_item" /\ r.target = "held_item"
         /\ FirstState(r) \in Declared(r) /\ AtMost(31, Declared(r) \ {FirstState(r)})
<1>1. RepresentationAccepted(r) /\ r.target = TargetOf(q.profile) /\ (q.settling = NoValue \/ q.settling \in 2..40)
  BY DEF Answered, Refused, SettlingRefused
<1>4. q.scaleViews => q.profile = "held_item" /\ r.target = "held_item"
  BY DEF Answered, Refused, TargetOf
<1>2. r.states \in Seq(Range(r.states))
  BY DEF Answered
<1>3. r.target \in TargetsOf(r.strategy) /\ Len(r.states) \in 1..32
  BY <1>1 DEF RepresentationAccepted
<1>. QED
  BY <1>1, <1>2, <1>3, <1>4, StatesFew

\* The scenes of an item are plannable.
LEMMA ItemsEvident ==
  ASSUME NEW q, NEW r, r = q.representation, Answered(q), r.target \in {"held_item", "gui_item"}
  PROVE  Plannable(q, r) /\ Evident(r, ScenesOf(q))
<1>1. r.strategy = "item_stack"
  BY RequestGives DEF TargetsOf
<1>2. ItemGiven(r)
  BY <1>1, RequestGives DEF ItemGiven
<1>3. ItemAsked(q, r)
  BY <1>2, RequestGives DEF ItemAsked, Answered, AtMost
<1>4. NoValue # "reference_arm" /\ (q.scaleViews => q.profile = "held_item")
  BY RequestGives DEF Answered
<1>. QED
  BY <1>1, <1>3, <1>4, ItemsPlannable DEF Evident

\* So are those of a block.
LEMMA BlocksEvident ==
  ASSUME NEW q, NEW r, r = q.representation, Answered(q), r.target = "block"
  PROVE  Plannable(q, r) /\ Evident(r, ScenesOf(q))
<1>1. r.strategy \in {"native_block_state", "block_display"}
  BY RequestGives DEF TargetsOf
<1>2. BlockGiven(r)
  BY <1>1, RequestGives DEF BlockGiven
<1>3. AtMost(4, r.review.biomes)
  BY RequestGives DEF RepresentationAccepted, AtMost
<1>5. NoValue # "reference_arm" /\ ~q.scaleViews
  BY RequestGives DEF Answered
<1>6. Plannable(q, r)
  BY <1>2, <1>3, <1>5, RequestGives, BlocksPlannable
<1>. QED
  BY <1>1, <1>6 DEF Evident

\* So are those of a headwear, with all the evidence the protocol asks for.
LEMMA HeadwearEvident ==
  ASSUME NEW q, NEW r, r = q.representation, Answered(q), r.target = "headwear"
  PROVE  Plannable(q, r) /\ Evident(r, ScenesOf(q))
<1>1. r.strategy = "equippable_head"
  BY RequestGives DEF TargetsOf
<1>2. HeadwearAccepted(r)
  BY RequestGives DEF RepresentationAccepted
<1>3. \A state \in Declared(r) : r.review.statePoses[state] \in Poses
  BY <1>2 DEF HeadwearAccepted, Range
<1>4. HeadGiven(r)
  BY <1>1, <1>3, RequestGives DEF HeadGiven, Answered
<1>5. ScenesOf(q) = HeadwearScenes(q, r)
  BY DEF ScenesOf
<1>6. NoValue # "reference_arm" /\ ~q.scaleViews
  BY RequestGives DEF Answered
<1>7. Plannable(q, r) /\ HeadwearEvidenceAccepted(r, HeadwearScenes(q, r))
  BY <1>4, <1>6, RequestGives, HeadwearPlannable
<1>. QED
  BY <1>5, <1>7 DEF Evident

\* So are those of an entity.
LEMMA EntitiesEvident ==
  ASSUME NEW q, NEW r, r = q.representation, Answered(q), r.target = "entity"
  PROVE  Plannable(q, r) /\ Evident(r, ScenesOf(q))
<1>1. r.strategy \in {"native_entity", "display_rig"}
  BY RequestGives DEF TargetsOf
<1>2. EntityAccepted(r)
  BY RequestGives DEF RepresentationAccepted
<1>3. \A pose \in Stances : PoseState(r, pose) \in Declared(r)
  <2>1. CASE r.strategy = "display_rig"
    <3>1. /\ DOMAIN r.review.poseStates = {"idle", "walk", "attack"}
          /\ Range(r.review.poseStates) \subseteq Declared(r)
      BY <1>2, <2>1 DEF EntityAccepted
    <3>2. \A pose \in {"idle", "walk", "attack"} : r.review.poseStates[pose] \in Declared(r)
      BY <3>1 DEF Range
    <3>. QED
      BY <2>1, <3>2 DEF PoseState, Stances
  <2>2. CASE r.strategy # "display_rig"
    BY <2>2, RequestGives DEF PoseState
  <2>. QED
    BY <2>1, <2>2
<1>4. EntityGiven(r)
  BY <1>1, <1>2, <1>3, RequestGives DEF EntityGiven, EntityAccepted
<1>6. NoValue # "reference_arm" /\ ~q.scaleViews
  BY RequestGives DEF Answered
<1>7. Plannable(q, r)
  BY <1>4, <1>6, RequestGives, EntitiesPlannable
<1>. QED
  BY <1>1, <1>7 DEF Evident

\* So are those of a placeable.
LEMMA PlaceablesEvident ==
  ASSUME NEW q, NEW r, r = q.representation, Answered(q), r.target = "placeable"
  PROVE  Plannable(q, r) /\ Evident(r, ScenesOf(q))
<1>1. r.strategy \in {"display_rig", "native_placeable_block", "native_placeable_entity"}
  BY RequestGives DEF TargetsOf
<1>2. PlaceableAccepted(r)
  BY RequestGives DEF RepresentationAccepted
<1>3. \A state \in Declared(r) \ {FirstState(r)} : PlacesOf(r, state) # {}
  BY DEF Answered, Refused, StateUnplaced
<1>4. PlaceGiven(r)
  BY <1>1, <1>2, <1>3, RequestGives DEF PlaceGiven, PlaceableAccepted, Sides
<1>6. NoValue # "reference_arm" /\ ~q.scaleViews
  BY RequestGives DEF Answered
<1>7. Plannable(q, r)
  BY <1>4, <1>6, RequestGives, PlaceablesPlannable
<1>. QED
  BY <1>1, <1>7 DEF Evident

\* Whatever it represents, its scenes are plannable.
LEMMA RequestPlannable ==
  ASSUME NEW q, NEW r, r = q.representation, Answered(q)
  PROVE  Plannable(q, r) /\ Evident(r, ScenesOf(q))
<1>1. r.target \in {"held_item", "gui_item", "block", "headwear", "entity", "placeable"}
  BY RequestGives DEF TargetsOf
<1>. QED
  BY <1>1, ItemsEvident, BlocksEvident, HeadwearEvident, EntitiesEvident, PlaceablesEvident

\* The protocol accepts its plan, unless a name in it is too long.
LEMMA PlanIsAccepted ==
  ASSUME NEW q, NEW r, r = q.representation, Answered(q)
  PROVE  PlanAccepted(r, ScenesOf(q)) <=> "long" \notin {NameIn(r, s.base) : s \in ScenesOf(q)}
<1> DEFINE S == ScenesOf(q)
<1>1. PlanAccepted(r, S) => \A s \in S : NameIn(r, s.base) # "long"
  BY DEF PlanAccepted
<1>3. Plannable(q, r) /\ Evident(r, S)
  BY RequestPlannable
<1> HIDE DEF S
<1>4. ASSUME \A s \in S : NameIn(r, s.base) # "long" PROVE PlanAccepted(r, S)
  <2> DEFINE settling == q.settling
  <2>1. PICK D, anchors, ids : \E n, k \in Nat :
          /\ Lowers(q, r, D, ids) /\ Laid(r, D, anchors, ids)
          /\ AtMost(n, D) /\ AtMost(k, ids) /\ n + k <= 64
    BY <1>3 DEF Plannable
  <2>0. S = LowerAll(r, settling, D, ids)
    BY <2>1 DEF Lowers, Alike, S
  <2>2. PICK n \in Nat, k \in Nat :
          Laid(r, D, anchors, ids) /\ AtMost(n, D) /\ AtMost(k, ids) /\ n + k <= 64
    BY <2>1
  <2>3. settling = NoValue \/ settling \in 2..40
    BY RequestGives
  <2>4. r.target \in TargetsOf(r.strategy)
    BY RequestGives
  <2> HIDE DEF settling
  <2>5. ASSUME NEW d \in D PROVE NameIn(r, d.base) # "long"
    <3>1. DOMAIN d = Fields
      BY <2>2 DEF Laid, Drawn
    <3>2. PICK s \in S : Keeps(s, d)
      BY <2>0, <3>1, LowerKeeps
    <3>3. s.base = d.base
      BY <3>2 DEF Keeps
    <3>. QED
      BY <1>4, <3>3
  <2>6. r.strategy = "equippable_head" => HeadwearEvidenceAccepted(r, LowerAll(r, settling, D, ids))
    BY <1>3, <2>0 DEF Evident
  <2>7. PlanAccepted(r, LowerAll(r, settling, D, ids))
    BY <2>2, <2>3, <2>4, <2>5, <2>6, LaidAccepted
  <2>. QED
    BY <2>0, <2>7
<1>. QED
  BY <1>1, <1>4 DEF S

\* A request that has a plan is one that the planner does not refuse.
LEMMA PlannedAnswered ==
  ASSUME NEW name \in Planned
  PROVE  /\ name \in DOMAIN Requests /\ ~Refused(Requests[name])
         /\ Answered(Requests[name]) /\ Scenes[name] = ScenesOf(Requests[name])
<1>1. name \in DOMAIN Requests /\ ~Refused(Requests[name])
  BY DEF Planned
<1>2. Scenes[name] = ScenesOf(Requests[name])
  BY DEF Scenes
<1>. QED
  BY <1>1, <1>2, FieldsAssumption, NoValueAssumption DEF Answered

\* The planner and the protocol agree (createVisualClientCapturePlan, the schema of the
\* plan): a plan of a request that is not refused is accepted, whatever the request
\* declares, unless the name of a state is too long for the id of a scene.
THEOREM PlansAccepted == Spec => []PlansAreAccepted
<1>1. PlansAreAccepted
  <2> SUFFICES ASSUME request \in Planned PROVE request \in Accepted <=> "long" \notin NamesIn(request)
    BY DEF PlansAreAccepted
  <2> DEFINE q == Requests[request]
             r == q.representation
  <2>1. Answered(q) /\ Scenes[request] = ScenesOf(q)
    BY PlannedAnswered
  <2>4. /\ request \in Accepted <=> PlanAccepted(r, ScenesOf(q))
        /\ NamesIn(request) = {NameIn(r, s.base) : s \in ScenesOf(q)}
    BY <2>1 DEF Accepted, NamesIn
  <2> HIDE DEF q
  <2>6. PlanAccepted(r, ScenesOf(q)) <=> "long" \notin {NameIn(r, s.base) : s \in ScenesOf(q)}
    BY <2>1, PlanIsAccepted
  <2>. QED
    BY <2>4, <2>6
<1>. QED
  BY <1>1, PTL

-----------------------------------------------------------------------------
(* The plan that is made again.                                             *)

\* Every scene of a request is lowered from a description or the control of such a
\* scene, and every description is lowered to a scene.
LEMMA Origins ==
  ASSUME NEW q, NEW r, r = q.representation, Answered(q)
  PROVE  \E D : /\ Optional(q, D) /\ \A d \in D : Drawn(r, d)
                /\ r.strategy \in DisplayKinds => \E d \in D : d.kind \notin SupplementalKinds
                /\ \A v \in ScenesOf(q) : \E d \in D : \E s : Taken(s, r, q.settling, d) /\ v \in {s, ControlOf(s)}
                /\ \A d \in D : \E s \in ScenesOf(q) : Taken(s, r, q.settling, d)
<1>1. PICK D, anchors, ids :
        /\ Lowers(q, r, D, ids) /\ Optional(q, D) /\ Laid(r, D, anchors, ids)
        /\ r.strategy \in DisplayKinds => anchors # {}
  BY RequestPlannable DEF Plannable
<1> DEFINE S == {Lower(r, q.settling, d) : d \in D}
<1>2. ScenesOf(q) = WithControls(S, ids)
  BY <1>1 DEF Lowers, Alike, LowerAll
<1>3. WithControls(S, ids) = {Seen(s, ids) : s \in S} \cup {ControlOf(s) : s \in {x \in S : IdOf(x) \in ids}}
  BY WithTheControls
<1>4. \A d \in D : Drawn(r, d) /\ DOMAIN d = Fields
  BY <1>1 DEF Laid, Drawn
<1>5. ASSUME NEW d \in D
      PROVE  /\ Taken(Lower(r, q.settling, d), r, q.settling, d)
             /\ Taken(Seen(Lower(r, q.settling, d), ids), r, q.settling, d)
  <2> DEFINE s == Lower(r, q.settling, d)
  <2>1. IsLowered(s, r, q.settling, d)
    BY <1>4, LowerFields
  <2> HIDE DEF s
  <2>2. Taken(s, r, q.settling, d)
    BY <2>1 DEF IsLowered, Taken, Fields
  <2>3. Taken(Seen(s, ids), r, q.settling, d)
    BY <2>2 DEF Taken, Seen, SceneFields, Fields
  <2>. QED
    BY <2>2, <2>3 DEF s
<1>6. ASSUME r.strategy \in DisplayKinds PROVE \E d \in D : d.kind \notin SupplementalKinds
  <2>1. PICK id \in anchors : id.kind = "minecraft_vanilla" /\ \E d \in D : IdOf(d) = id
    BY <1>1, <1>6 DEF Laid, Supported
  <2>. QED
    BY <2>1 DEF IdOf, SupplementalKinds
<1>7. \A v \in ScenesOf(q) : \E d \in D : \E s : Taken(s, r, q.settling, d) /\ v \in {s, ControlOf(s)}
  BY <1>2, <1>3, <1>5
<1>8. \A d \in D : \E s \in ScenesOf(q) : Taken(s, r, q.settling, d)
  BY <1>2, <1>3, <1>5
<1>. QED
  BY <1>1, <1>4, <1>6, <1>7, <1>8

\* The scenes of a request tell which of its options it was given: a scale
\* reference that it was to have them, a hitbox that they were to be seen, and
\* each required scene how long a display is to settle, which has such a scene.
LEMMA OptionsShow ==
  ASSUME NEW q, NEW r, r = q.representation, Answered(q)
  PROVE  LET scenes == ScenesOf(q)
         IN  /\ (\E s \in scenes : s.kind = "first_person_scale_reference") => q.scaleViews
             /\ q.scaleViews => \E s \in scenes : s.kind = "first_person_scale_reference"
             /\ (\E s \in scenes : s.kind = "debug_hitbox_reference") => q.hitboxViews
             /\ \A s \in scenes : s.required => s.settling = Settling(r, q.settling)
             /\ r.strategy \in DisplayKinds => \E s \in scenes : s.required
<1> DEFINE scenes == ScenesOf(q)
<1>1. PICK D :
        /\ Optional(q, D)
        /\ r.strategy \in DisplayKinds => \E d \in D : d.kind \notin SupplementalKinds
        /\ \A v \in scenes : \E d \in D : \E s : Taken(s, r, q.settling, d) /\ v \in {s, ControlOf(s)}
        /\ \A d \in D : \E s \in scenes : Taken(s, r, q.settling, d)
  BY Origins
<1>2. ASSUME NEW v \in scenes
      PROVE  \/ v.kind = "measurement_control" /\ v.required = FALSE
             \/ \E d \in D : v.kind = d.kind /\ v.settling = Settling(r, q.settling)
  <2>0. PICK d \in D : \E s : Taken(s, r, q.settling, d) /\ v \in {s, ControlOf(s)}
    BY <1>1
  <2>1. PICK s : Taken(s, r, q.settling, d) /\ v \in {s, ControlOf(s)}
    BY <2>0
  <2>. QED
    BY <2>1 DEF Taken, ControlOf, SceneFields, Fields
<1>3. \A d \in D : \E s \in scenes : s.kind = d.kind /\ s.required = (d.kind \notin SupplementalKinds)
  BY <1>1 DEF Taken
<1> HIDE DEF scenes
<1>4. (\E s \in scenes : s.kind = "first_person_scale_reference") => q.scaleViews
  BY <1>1, <1>2 DEF Optional
<1>5. (\E s \in scenes : s.kind = "debug_hitbox_reference") => q.hitboxViews
  BY <1>1, <1>2 DEF Optional
<1>6. q.scaleViews => \E s \in scenes : s.kind = "first_person_scale_reference"
  BY <1>1, <1>3 DEF Optional
<1>7. \A s \in scenes : s.required => s.settling = Settling(r, q.settling)
  BY <1>2
<1>8. r.strategy \in DisplayKinds => \E s \in scenes : s.required
  BY <1>1, <1>3
<1>. QED
  BY <1>4, <1>5, <1>6, <1>7, <1>8 DEF scenes

\* Requests that are alike and settle for the same ticks have the same scenes.
LEMMA SameScenes ==
  ASSUME NEW p, NEW q, NEW r, r = q.representation, p.representation = r, Answered(q), Alike(p, q),
         Settling(r, p.settling) = Settling(r, q.settling)
  PROVE  ScenesOf(p) = ScenesOf(q)
<1>1. PICK D, ids : Lowers(q, r, D, ids)
  BY RequestPlannable DEF Plannable
<1>2. \A d : Lower(r, p.settling, d) = Lower(r, q.settling, d)
  <2> DEFINE
        added(d, ticks) ==
          [target |-> r.target,
           required |-> d.kind \notin SupplementalKinds,
           settling |-> ticks,
           eye |-> IF r.target = "headwear" THEN d.fixture.framing = "first_person"
                   ELSE /\ r.target \in {"held_item", "gui_item"} /\ d.context = "world"
                        /\ d.camera \in {"first_person", "neutral"}]
        To(d, ticks) == [field \in DOMAIN added(d, ticks) \cup DOMAIN d |->
                           IF field \in DOMAIN added(d, ticks) THEN added(d, ticks)[field] ELSE d[field]]
  <2>1. \A d, settling : Lower(r, settling, d) = To(d, Settling(r, settling))
    BY DEF Lower, Settling
  <2> HIDE DEF To
  <2>. QED
    BY <2>1
<1>3. LowerAll(r, p.settling, D, ids) = LowerAll(r, q.settling, D, ids)
  <2>1. {Lower(r, p.settling, d) : d \in D} = {Lower(r, q.settling, d) : d \in D}
    BY <1>2
  <2>. QED
    BY <2>1 DEF LowerAll
<1>4. Alike(q, q)
  BY DEF Alike
<1>. QED
  BY <1>1, <1>3, <1>4 DEF Lowers

\* The plan made again of the stored scenes is the stored one, unless hitboxes
\* were asked for that no scene shows.
LEMMA Replanned ==
  ASSUME NEW name \in Planned,
         Requests[name].hitboxViews => \E s \in Scenes[name] : s.kind = "debug_hitbox_reference"
  PROVE  name \in Rederivable
<1> DEFINE q == Requests[name]
           r == q.representation
           scenes == Scenes[name]
           again == Rederived(q, scenes)
           required == {v \in scenes : v.required}
<1>1. ~Refused(q) /\ scenes = ScenesOf(q) /\ name \in DOMAIN Requests /\ Answered(q)
  BY PlannedAnswered
<1>2. /\ (\E s \in scenes : s.kind = "first_person_scale_reference") <=> q.scaleViews
      /\ (\E s \in scenes : s.kind = "debug_hitbox_reference") <=> q.hitboxViews
      /\ \A s \in required : s.settling = Settling(r, q.settling)
      /\ r.strategy \in DisplayKinds => \E s \in scenes : s.required
  BY <1>1, OptionsShow
<1>3. /\ DOMAIN q = {"profile", "representation", "held", "gui", "scaleViews", "hitboxViews", "settling"}
      /\ q.scaleViews \in BOOLEAN /\ q.hitboxViews \in BOOLEAN
  BY <1>1, FieldsAssumption
<1> DEFINE ticks == CHOOSE t \in {s.settling : s \in required} : TRUE
           settling == IF r.strategy \in DisplayKinds THEN ticks ELSE NoValue
<1>4. ASSUME r.strategy \in DisplayKinds PROVE ticks = Settling(r, q.settling)
  <2>1. PICK s \in required : TRUE
    BY <1>2, <1>4
  <2>2. {v.settling : v \in required} = {Settling(r, q.settling)}
    BY <1>2, <2>1
  <2>. QED
    BY <2>2
<1>5. again = [q EXCEPT !.scaleViews = \E s \in scenes : s.kind = "first_person_scale_reference",
                        !.hitboxViews = \E s \in scenes : s.kind = "debug_hitbox_reference",
                        !.settling = settling]
  BY DEF Rederived
<1> HIDE DEF ticks, settling, q, required, again
<1>6. /\ again.profile = q.profile /\ again.representation = q.representation
      /\ again.held = q.held /\ again.gui = q.gui
      /\ again.scaleViews = q.scaleViews /\ again.hitboxViews = q.hitboxViews
      /\ again.settling = settling
  BY <1>2, <1>3, <1>5
<1>7. /\ q.settling # NoValue => q.settling \in 2..40 /\ r.strategy \in DisplayKinds
      /\ RepresentationAccepted(r)
  BY <1>1 DEF Refused, SettlingRefused
<1>8. settling # NoValue => settling \in 2..40 /\ r.strategy \in DisplayKinds
  BY <1>4, <1>7 DEF settling, Settling
<1>9. ~Refused(again)
  BY <1>1, <1>6, <1>8 DEF Refused, SettlingRefused, GripUnsupported
<1>10. Settling(r, settling) = Settling(r, q.settling)
  BY <1>4, <1>7 DEF settling, Settling
<1>11. Alike(again, q)
  BY <1>6 DEF Alike
<1>12. ScenesOf(again) = scenes
  BY <1>1, <1>6, <1>10, <1>11, SameScenes
<1>. QED
  BY <1>9, <1>12 DEF Rederivable, again, q

-----------------------------------------------------------------------------
(* What becomes of what is recorded.                                        *)

\* Nothing happens after the end of the call that could make its verdict wrong,
\* and before it no step but the verification ends it as unverified.
LEMMA VerdictKept ==
  ASSUME VerdictInv,
         \/ UNCHANGED <<request, hostVars, disk, cancelled>>
         \/ pc' # "ended" /\ (pc' = "reverifying" => pc = "reverifying" /\ UNCHANGED record)
         \/ pc' = "ended" /\ outcome' # "unverified"
  PROVE  VerdictInv'
<1>1. CASE UNCHANGED <<request, hostVars, disk, cancelled>>
  <2>1. UNCHANGED <<request, pc, outcome, record, disk, cancelled>>
    BY <1>1 DEF hostVars
  <2>2. (Changed' <=> Changed) /\ (HitboxesUnseen' <=> HitboxesUnseen)
    BY <2>1 DEF Changed, HitboxesUnseen
  <2>. QED
    BY <2>1, <2>2 DEF VerdictInv, RecordedIsVerified
<1>2. CASE pc' # "ended" /\ (pc' = "reverifying" => pc = "reverifying" /\ UNCHANGED record)
  BY <1>2 DEF VerdictInv, RecordedIsVerified
<1>3. CASE pc' = "ended" /\ outcome' # "unverified"
  BY <1>3 DEF VerdictInv, RecordedIsVerified
<1>. QED
  BY <1>1, <1>2, <1>3

\* What the verification does not take is changed, aborted, or one of the exceptions.
LEMMA ReverifyJudges ==
  ASSUME IInv, VerdictInv, Reverify, UNCHANGED <<request, disk, cancelled>>
  PROVE  VerdictInv'
<1>1. pc = "reverifying" /\ pc' = "ended" /\ UNCHANGED record
  BY DEF Reverify, Ends
<1>2. request \in Planned
  BY <1>1 DEF IInv, CallInv, After, Keeping, SceneInv, Accepted
<1>3. DOMAIN record = {"packs", "proposal", "evidence"}
  BY <1>1 DEF VerdictInv
<1>4. SUFFICES ASSUME outcome' = "unverified"
               PROVE  (cancelled \/ Changed \/ HitboxesUnseen \/ "dash" \in NamesIn(request))'
  BY <1>1 DEF VerdictInv, RecordedIsVerified
<1>5. ~(/\ ~cancelled /\ IdentityHolds /\ EvidenceParses /\ PacksHold
        /\ request \in Rederivable /\ ArtifactsHold)
  BY <1>4 DEF Reverify, Ends
<1>6. (IdentityHolds /\ PacksHold /\ ArtifactsHold) \/ Changed
  BY <1>3 DEF IdentityHolds, PacksHold, ArtifactsHold, Changed
<1>7. request \in Rederivable \/ HitboxesUnseen
  BY <1>2, Replanned DEF HitboxesUnseen
<1>8. cancelled \/ Changed \/ HitboxesUnseen \/ "dash" \in NamesIn(request)
  BY <1>5, <1>6, <1>7 DEF EvidenceParses
<1>9. (Changed' <=> Changed) /\ (HitboxesUnseen' <=> HitboxesUnseen) /\ NamesIn(request)' = NamesIn(request)
  BY <1>1 DEF Changed, HitboxesUnseen, NamesIn
<1>. QED
  BY <1>8, <1>9

\* The host records what it has read, and only its verification calls it unverified.
LEMMA HostJudges ==
  ASSUME IInv, VerdictInv, HostStep
  PROVE  VerdictInv'
<1>1. UNCHANGED <<request, disk, cancelled>>
  BY DEF HostStep
<1> USE DEF Goes, Ends
<1>2. CASE Load \/ Probe \/ Preflight \/ Snapshot \/ MakePlan \/ Stage \/ Launch
  BY <1>2, VerdictKept DEF Load, Probe, Preflight, Snapshot, MakePlan, Stage, Launch
<1>3. CASE Settled \/ Pin \/ VerifyOutput \/ Collect \/ Store
  BY <1>3, VerdictKept DEF Settled, Pin, VerifyOutput, Collect, Store
<1>4. CASE Record
  <2>1. CASE disk.proposal = held.proposal
    <3>1. pc' = "reverifying" /\ record' = Restrict(held, {"packs", "proposal", "evidence"})
      BY <1>4, <2>1 DEF Record
    <3>. QED
      BY <3>1 DEF VerdictInv, RecordedIsVerified, Restrict
  <2>2. CASE disk.proposal # held.proposal
    BY <1>4, <2>2, VerdictKept DEF Record
  <2>. QED
    BY <2>1, <2>2
<1>5. CASE Reverify
  BY <1>1, <1>5, ReverifyJudges
<1>. QED
  BY <1>2, <1>3, <1>4, <1>5 DEF HostStep

\* What a capture has recorded is verified by what the workflow makes of it again,
\* unless the caller aborts it or its inputs change, whatever the requests: only
\* hitboxes that no scene shows and names that end in a dash are exceptions.
THEOREM RecordedEvidenceVerifies == Spec => []RecordedIsVerified
<1>1. Init => VerdictInv
  BY DEF Init, VerdictInv, RecordedIsVerified
<1>2. IInv /\ VerdictInv /\ [Next]_vars => VerdictInv'
  <2> SUFFICES ASSUME IInv, VerdictInv, [Next]_vars PROVE VerdictInv'
    OBVIOUS
  <2>1. CASE HostStep
    BY <2>1, HostJudges
  <2>2. CASE ModStep \/ ProcessStep \/ RunnerStep \/ UNCHANGED vars
    <3>1. UNCHANGED <<request, hostVars, disk, cancelled>>
      BY <2>2 DEF ModStep, UNCHANGEDByMod, ProcessStep, RunnerStep, vars
    <3>. QED
      BY <3>1, VerdictKept
  <2>3. CASE Cancel
    <3>1. pc # "ended" /\ UNCHANGED <<pc, record>>
      BY <2>3 DEF Cancel, hostVars
    <3>. QED
      BY <3>1, VerdictKept
  <2>4. CASE Event
    <3>1. CASE HostFault
      <4>1. pc' = "ended" /\ outcome' # "unverified"
        BY <3>1 DEF HostFault, Ends, FaultEnds
      <4>. QED
        BY <4>1, VerdictKept
    <3>2. CASE ~HostFault
      <4>1. pc # "ended" /\ UNCHANGED hostVars
        BY <2>4, <3>2 DEF Event, Replace
      <4>. QED
        BY <4>1, VerdictKept DEF hostVars
    <3>. QED
      BY <3>1, <3>2
  <2>. QED
    BY <2>1, <2>2, <2>3, <2>4 DEF Next
<1>3. VerdictInv => RecordedIsVerified
  BY DEF VerdictInv
<1>. QED
  BY <1>1, <1>2, <1>3, Invariance, PTL DEF Spec

-----------------------------------------------------------------------------
(* The scenes of an accepted plan and what the mod reports of them.         *)

\* The scenes of a request are all aimed at its target.
LEMMA ScenesAimed ==
  ASSUME NEW q, NEW r, r = q.representation, Answered(q)
  PROVE  \A s \in ScenesOf(q) : Aimed(s, r.target)
<1>1. PICK D :
        /\ \A d \in D : Drawn(r, d)
        /\ \A v \in ScenesOf(q) : \E d \in D : \E s : Taken(s, r, q.settling, d) /\ v \in {s, ControlOf(s)}
  BY Origins
<1>2. ASSUME NEW v \in ScenesOf(q) PROVE Aimed(v, r.target)
  <2>0. PICK d \in D : \E s : Taken(s, r, q.settling, d) /\ v \in {s, ControlOf(s)}
    BY <1>1
  <2>1. PICK s : Taken(s, r, q.settling, d) /\ v \in {s, ControlOf(s)}
    BY <2>0
  <2>2. d.fixture.target = r.target /\ (r.target # "held_item" => d.animation[2] = 0)
    BY <1>1 DEF Drawn, PutUp, Filmed
  <2>3. Aimed(s, r.target) /\ DOMAIN s = SceneFields /\ s.target = r.target
    BY <2>1, <2>2 DEF Taken, Aimed, SceneFields, Fields
  <2>4. Aimed(ControlOf(s), r.target)
    BY <2>3 DEF ControlOf, Aimed, SceneFields, Fields
  <2>. QED
    BY <2>1, <2>3, <2>4
<1>. QED
  BY <1>2

\* What each strategy is for.
LEMMA Strategies ==
  ASSUME NEW r, r.target \in TargetsOf(r.strategy)
  PROVE  /\ r.strategy = "item_stack" => r.target \in {"held_item", "gui_item"}
         /\ r.strategy \in {"native_block_state", "block_display"} => r.target = "block"
         /\ r.strategy = "equippable_head" => r.target = "headwear"
         /\ r.strategy = "native_entity" => r.target = "entity"
         /\ r.strategy = "display_rig" => r.target \in {"entity", "placeable"}
         /\ r.strategy \notin {"item_stack", "native_block_state", "block_display", "equippable_head",
                               "native_entity", "display_rig"} => r.target = "placeable"
         /\ r.target \in {"held_item", "gui_item", "block", "headwear", "entity", "placeable"}
BY DEF TargetsOf

\* The fields of the fixture of such a scene, by what it shows.
LEMMA Fixtures ==
  ASSUME NEW r, NEW s, Fit(r, s)
  PROVE  LET f == s.fixture
         IN  /\ f.kind \in {"item_stack", "measurement_control"} => DOMAIN f = {"kind", "target", "state"}
             /\ f.kind \in {"native_block_state", "block_display"} =>
                  /\ DOMAIN f = {"kind", "target", "state"} \cup DOMAIN BlockShape
                  /\ \A field \in DOMAIN BlockShape : f[field] \in BlockShape[field]
             /\ f.kind = "equippable_head" =>
                  /\ DOMAIN f = {"kind", "target", "state"} \cup DOMAIN HeadwearShape
                  /\ \A field \in DOMAIN HeadwearShape : f[field] \in HeadwearShape[field]
             /\ f.kind # "measurement_control" /\ f.target = "entity" =>
                  /\ DOMAIN f = {"kind", "target", "state"} \cup DOMAIN EntityShape
                  /\ \A field \in DOMAIN EntityShape : f[field] \in EntityShape[field]
             /\ f.kind # "measurement_control" /\ f.target = "placeable" =>
                  /\ DOMAIN f = {"kind", "target", "state"} \cup DOMAIN PlaceableShape
                  /\ \A field \in DOMAIN PlaceableShape : f[field] \in PlaceableShape[field]
<1> DEFINE f == s.fixture
<1>1. /\ FixtureShaped(f) /\ f.kind \in {r.strategy, "measurement_control"}
      /\ f.target = r.target /\ r.target \in TargetsOf(r.strategy)
  BY DEF Fit, SceneAccepted, Aimed
<1> HIDE DEF f
<1>2. /\ DOMAIN f = {"kind", "target", "state"} \cup DOMAIN ShapeOf(f)
      /\ \A field \in DOMAIN ShapeOf(f) : f[field] \in ShapeOf(f)[field]
  BY <1>1 DEF FixtureShaped
<1>3. f.kind \in {"item_stack", "measurement_control"} => DOMAIN f = {"kind", "target", "state"}
  <2> SUFFICES ASSUME f.kind \in {"item_stack", "measurement_control"} PROVE DOMAIN f = {"kind", "target", "state"}
    OBVIOUS
  <2>1. ShapeOf(f) = <<>> /\ DOMAIN <<>> = {}
    BY DEF ShapeOf
  <2>. QED
    BY <1>2, <2>1
<1>4. f.kind \in {"native_block_state", "block_display"} => ShapeOf(f) = BlockShape
  BY DEF ShapeOf
<1>5. f.kind = "equippable_head" => ShapeOf(f) = HeadwearShape
  BY DEF ShapeOf
<1>6. f.kind # "measurement_control" /\ f.target \in {"entity", "placeable"} =>
        f.kind \notin {"item_stack", "native_block_state", "block_display", "equippable_head"}
  BY <1>1, Strategies
<1>7. f.kind # "measurement_control" /\ f.target = "entity" => ShapeOf(f) = EntityShape
  BY <1>6 DEF ShapeOf
<1>8. f.kind # "measurement_control" /\ f.target = "placeable" => ShapeOf(f) = PlaceableShape
  BY <1>6 DEF ShapeOf
<1>. QED
  BY <1>2, <1>3, <1>4, <1>5, <1>7, <1>8 DEF f

\* What is read back of a fixture that is set up as planned is what is expected of it.
LEMMA ObservedAsExpected ==
  ASSUME NEW r, NEW s, Fit(r, s)
  PROVE  Observed(r, s) = ExpectedFixture(r, s)
<1> DEFINE f == s.fixture
<1>1. /\ f.kind \in {r.strategy, "measurement_control"} /\ s.target = r.target
      /\ f.target = r.target /\ r.target \in TargetsOf(r.strategy)
  BY DEF Fit, Aimed
<1>2. CASE f.kind = "measurement_control"
  BY <1>1, <1>2 DEF Observed, ExpectedFixture, ExpectedStill
<1>3. CASE f.kind # "measurement_control" /\ r.strategy = "item_stack"
  BY <1>1, <1>3 DEF Observed, ExpectedFixture, ExpectedStill
<1>4. CASE f.kind # "measurement_control" /\ r.strategy \in {"native_block_state", "block_display"}
  BY <1>1, <1>4, Strategies DEF Observed, ExpectedFixture, ExpectedStill
<1>5. CASE f.kind # "measurement_control" /\ r.strategy = "equippable_head"
  <2>1. f.chest \in BOOLEAN /\ r.review.chestArmor \in BOOLEAN /\ r.target = "headwear"
    BY <1>1, <1>5, Fixtures, Strategies DEF Fit, HeadwearShape
  <2>2. Given(f.chest, r.review.chestArmor) = Given(f.chest /\ r.review.chestArmor, TRUE)
    BY <1>1, <1>5, <2>1 DEF Fit, Given
  <2>3. Given(f.subject # "bare_control", ContentOf(r, f.state))
          = IF f.subject = "bare_control" THEN NoValue ELSE ContentOf(r, f.state)
    BY DEF Given
  <2>. QED
    BY <1>1, <1>5, <2>1, <2>2, <2>3 DEF Observed, ExpectedFixture, ExpectedStill
<1> DEFINE others == {"item_stack", "equippable_head", "native_block_state", "block_display"}
<1>6. CASE f.kind # "measurement_control" /\ r.strategy \notin others /\ r.target = "entity"
  <2>1. ShapeOf(f) = EntityShape /\ f.kind = r.strategy /\ r.strategy \in {"native_entity", "display_rig"}
    BY <1>1, <1>6, Strategies DEF ShapeOf
  <2>2. Observed(r, s) = ObservedEntity(r, s)
    BY <1>1, <1>6 DEF Observed
  <2> DEFINE fields == {"pose", "turn", "scale", "tick", "kind", "state"}
             expected == [field \in fields \cup {"target", "content"} |->
                            IF field \in fields THEN f[field]
                            ELSE IF field = "content" THEN ContentOf(r, f.state) ELSE "entity"]
  <2>3. DOMAIN ShapeOf(f) \cup {"kind", "state"} = fields
    BY <2>1 DEF EntityShape
  <2>4. ExpectedFixture(r, s) = expected
    BY <1>1, <1>6, <2>1, <2>3 DEF ExpectedFixture
  <2>5. ObservedEntity(r, s) = expected
    BY <1>1, <1>6, <2>1 DEF ObservedEntity
  <2>. QED
    BY <2>2, <2>4, <2>5
<1>7. CASE f.kind # "measurement_control" /\ r.strategy \notin others /\ r.target # "entity"
  <2>1. ShapeOf(f) = PlaceableShape /\ f.kind = r.strategy /\ r.target = "placeable" /\ r.strategy # "native_entity"
    BY <1>1, <1>7, Strategies DEF ShapeOf
  <2>2. Observed(r, s) = ObservedPlaceable(r, s)
    BY <1>1, <1>7, <2>1 DEF Observed
  <2> DEFINE fields == {"orientation", "attachment", "distance", "occluded", "tick", "context", "height",
                        "kind", "state"}
             expected == [field \in fields \cup {"target", "content"} |->
                            IF field \in fields THEN f[field]
                            ELSE IF field = "content" THEN ContentOf(r, f.state) ELSE "placeable"]
  <2>3. DOMAIN ShapeOf(f) \cup {"kind", "state"} = fields
    BY <2>1 DEF PlaceableShape
  <2>4. ExpectedFixture(r, s) = expected
    BY <1>1, <1>7, <2>1, <2>3 DEF ExpectedFixture
  <2>5. ObservedPlaceable(r, s) = expected
    BY <1>1, <1>7, <2>1 DEF ObservedPlaceable
  <2>. QED
    BY <2>2, <2>4, <2>5
<1>. QED
  BY <1>2, <1>3, <1>4, <1>5, <1>6, <1>7

\* What is read back has the fields and the values that a report may have.
LEMMA ObservedIsShaped ==
  ASSUME NEW r, NEW s, Fit(r, s)
  PROVE  ObservedShaped(Observed(r, s))
<1> DEFINE f == s.fixture
           seen == Observed(r, s)
<1>1. /\ f.kind \in {r.strategy, "measurement_control"} /\ s.target = r.target
      /\ f.target = r.target /\ r.target \in TargetsOf(r.strategy)
  BY DEF Fit, Aimed
<1>2. CASE f.kind = "measurement_control"
  <2>1. seen = [kind |-> "measurement_control", target |-> s.target, state |-> f.state, base |-> s.base,
                subjectOmitted |-> TRUE]
    BY <1>2 DEF Observed
  <2> HIDE DEF seen
  <2>2. ShapeOf(seen) = <<>> /\ DOMAIN <<>> = {} /\ ObservedFields(seen) = {"base", "subjectOmitted"}
    BY <2>1 DEF ShapeOf, ObservedFields
  <2>3. DOMAIN seen = {"kind", "target", "state", "base", "subjectOmitted"}
    BY <2>1
  <2>4. ObservedShaped(seen)
    BY <2>2, <2>3 DEF ObservedShaped
  <2>. QED
    BY <2>4 DEF seen
<1>3. CASE f.kind # "measurement_control" /\ r.strategy = "item_stack"
  <2>1. /\ DOMAIN seen = {"kind", "target", "state", "content", "equipped"} /\ seen.kind = "item_stack"
    BY <1>1, <1>3 DEF Observed
  <2> HIDE DEF seen
  <2>2. ShapeOf(seen) = <<>> /\ DOMAIN <<>> = {} /\ ObservedFields(seen) = {"content", "equipped"}
    BY <2>1 DEF ShapeOf, ObservedFields
  <2>3. ObservedShaped(seen)
    BY <2>1, <2>2 DEF ObservedShaped
  <2>. QED
    BY <2>3 DEF seen
<1>4. CASE f.kind # "measurement_control" /\ r.strategy \in {"native_block_state", "block_display"}
  <2>1. /\ DOMAIN seen = {"kind", "target", "state", "content", "layout", "backdrop", "copies", "tick", "inventory"}
        /\ seen.kind = f.kind /\ seen.target = "block"
        /\ seen.layout = f.layout /\ seen.backdrop = f.backdrop /\ seen.copies = f.copies /\ seen.tick = f.tick
    BY <1>1, <1>4, Strategies DEF Observed
  <2>2. \A field \in DOMAIN BlockShape : f[field] \in BlockShape[field]
    BY <1>1, <1>4, Fixtures
  <2> HIDE DEF seen
  <2>3. ShapeOf(seen) = BlockShape /\ ObservedFields(seen) = DOMAIN BlockShape \cup {"content", "inventory"}
    BY <1>1, <1>4, <2>1 DEF ShapeOf, ObservedFields
  <2>4. DOMAIN BlockShape = {"layout", "backdrop", "copies", "tick"}
    BY DEF BlockShape
  <2>5. \A field \in DOMAIN BlockShape : seen[field] \in BlockShape[field]
    BY <2>1, <2>2, <2>4
  <2>6. ObservedShaped(seen)
    BY <2>1, <2>3, <2>4, <2>5 DEF ObservedShaped
  <2>. QED
    BY <2>6 DEF seen
<1>5. CASE f.kind # "measurement_control" /\ r.strategy = "equippable_head"
  <2>1. /\ DOMAIN seen = {"kind", "target", "state", "content", "subject", "framing", "pose", "angle",
                          "renderMode", "chestArmor"}
        /\ seen.kind = "equippable_head"
        /\ seen.subject = f.subject /\ seen.framing = f.framing /\ seen.pose = f.pose /\ seen.angle = f.angle
    BY <1>1, <1>5, Strategies DEF Observed
  <2>2. \A field \in DOMAIN HeadwearShape : f[field] \in HeadwearShape[field]
    BY <1>1, <1>5, Fixtures
  <2> HIDE DEF seen
  <2>3. /\ ShapeOf(seen) = HeadwearShape
        /\ ObservedFields(seen) = {"subject", "framing", "pose", "angle", "renderMode", "content", "chestArmor"}
    BY <2>1 DEF ShapeOf, ObservedFields
  <2>4. DOMAIN HeadwearShape = {"subject", "framing", "pose", "angle", "chest"}
    BY DEF HeadwearShape
  <2>5. \A field \in {"subject", "framing", "pose", "angle"} : seen[field] \in HeadwearShape[field]
    BY <2>1, <2>2, <2>4
  <2>6. ObservedShaped(seen)
    BY <2>1, <2>3, <2>4, <2>5 DEF ObservedShaped
  <2>. QED
    BY <2>6 DEF seen
<1> DEFINE others == {"item_stack", "equippable_head", "native_block_state", "block_display"}
<1>6. CASE f.kind # "measurement_control" /\ r.strategy \notin others /\ r.target = "entity"
  <2>1. seen = ObservedEntity(r, s) /\ r.strategy \in {"native_entity", "display_rig"}
    BY <1>1, <1>6, Strategies DEF Observed
  <2>2. /\ DOMAIN seen = {"kind", "target", "state", "content", "pose", "turn", "scale", "tick"}
        /\ seen.kind = r.strategy /\ seen.target = "entity"
        /\ seen.pose = f.pose /\ seen.turn = f.turn /\ seen.scale = f.scale /\ seen.tick = f.tick
    BY <1>1, <1>6, <2>1 DEF ObservedEntity
  <2>3. \A field \in DOMAIN EntityShape : f[field] \in EntityShape[field]
    BY <1>1, <1>6, Fixtures
  <2> HIDE DEF seen
  <2>4. ShapeOf(seen) = EntityShape /\ ObservedFields(seen) = DOMAIN EntityShape \cup {"content"}
    BY <1>6, <2>1, <2>2 DEF ShapeOf, ObservedFields
  <2>5. DOMAIN EntityShape = {"pose", "turn", "scale", "tick"}
    BY DEF EntityShape
  <2>6. \A field \in DOMAIN EntityShape : seen[field] \in EntityShape[field]
    BY <2>2, <2>3, <2>5
  <2>7. ObservedShaped(seen)
    BY <2>2, <2>4, <2>5, <2>6 DEF ObservedShaped
  <2>. QED
    BY <2>7 DEF seen
<1>7. CASE f.kind # "measurement_control" /\ r.strategy \notin others /\ r.target # "entity"
  <2>1. seen = ObservedPlaceable(r, s) /\ r.target = "placeable"
    BY <1>1, <1>7, Strategies DEF Observed
  <2>2. /\ DOMAIN seen = {"kind", "target", "state", "content", "orientation", "attachment", "distance",
                          "occluded", "tick", "context", "height"}
        /\ seen.kind = r.strategy /\ seen.target = "placeable"
        /\ seen.orientation = f.orientation /\ seen.attachment = f.attachment /\ seen.distance = f.distance
        /\ seen.occluded = f.occluded /\ seen.tick = f.tick /\ seen.context = f.context /\ seen.height = f.height
    BY <1>1, <1>7, <2>1 DEF ObservedPlaceable
  <2>3. \A field \in DOMAIN PlaceableShape : f[field] \in PlaceableShape[field]
    BY <1>1, <1>7, <2>1, Fixtures
  <2>4. r.strategy # "measurement_control"
    BY <1>1, <1>7
  <2> HIDE DEF seen
  <2>5. ShapeOf(seen) = PlaceableShape /\ ObservedFields(seen) = DOMAIN PlaceableShape \cup {"content"}
    BY <1>7, <2>2, <2>4 DEF ShapeOf, ObservedFields
  <2>6. DOMAIN PlaceableShape = {"orientation", "attachment", "distance", "occluded", "tick", "context", "height"}
    BY DEF PlaceableShape
  <2>7. \A field \in DOMAIN PlaceableShape : seen[field] \in PlaceableShape[field]
    BY <2>2, <2>3, <2>6
  <2>8. ObservedShaped(seen)
    BY <2>2, <2>5, <2>6, <2>7 DEF ObservedShaped
  <2>. QED
    BY <2>8 DEF seen
<1>. QED
  BY <1>2, <1>3, <1>4, <1>5, <1>6, <1>7

\* What setting a fixture up returns is what its strategy may report of it.
LEMMA EvidenceIsFit ==
  ASSUME NEW r, NEW s, Fit(r, s)
  PROVE  EvidenceFits(r, s, Evidence(r, s))
<1> DEFINE f == s.fixture
           content == ContentOf(r, f.state)
           evidence == Evidence(r, s)
           scaled == Given(f.target = "entity" /\ f.scale, TRUE)
           nothing ==
             [strategy |-> f.kind, state |-> f.state, item |-> NoValue, equipReady |-> NoValue,
              subject |-> NoValue, renderMode |-> NoValue, chestArmor |-> NoValue, chestArmorReady |-> NoValue,
              inventory |-> NoValue, placed |-> NoValue, nodes |-> NoValue, entity |-> NoValue,
              rig |-> NoValue, scaleReference |-> NoValue, subjectOmitted |-> NoValue]
           fields == {"item", "equipReady", "subject", "renderMode", "chestArmor", "chestArmorReady",
                      "inventory", "placed", "nodes", "entity", "rig", "scaleReference", "subjectOmitted"}
<1>1. /\ f.kind \in {r.strategy, "measurement_control"} /\ s.target = r.target
      /\ f.target = r.target /\ r.target \in TargetsOf(r.strategy)
  BY DEF Fit, Aimed
<1>2. evidence =
        IF f.kind = "measurement_control" THEN [nothing EXCEPT !.subjectOmitted = TRUE]
        ELSE IF f.kind = "item_stack"
          THEN [nothing EXCEPT !.item = content, !.equipReady = Given(s.context = "world", TRUE)]
        ELSE IF f.kind = "equippable_head"
          THEN [nothing EXCEPT !.subject = f.subject, !.renderMode = r.review.renderMode,
                               !.item = Given(f.subject # "bare_control", content),
                               !.equipReady = Given(f.subject # "bare_control", TRUE),
                               !.chestArmor = Given(f.chest, r.review.chestArmor),
                               !.chestArmorReady = Given(f.chest, TRUE)]
        ELSE IF f.target = "block" /\ f.layout = "inventory" THEN [nothing EXCEPT !.inventory = r.review.inventory]
        ELSE IF f.kind \in {"native_block_state", "native_placeable_block"} THEN [nothing EXCEPT !.placed = content]
        ELSE IF f.kind = "block_display" THEN [nothing EXCEPT !.placed = content, !.nodes = 1]
        ELSE IF f.kind = "display_rig" THEN [nothing EXCEPT !.rig = content, !.scaleReference = scaled]
        ELSE [nothing EXCEPT !.entity = content, !.scaleReference = scaled]
  BY Zenon DEF Evidence
<1>3. /\ DOMAIN nothing = {"strategy", "state"} \cup fields
      /\ nothing.strategy = f.kind /\ nothing.state = f.state
      /\ \A field \in fields : nothing[field] = NoValue
  OBVIOUS
<1> HIDE DEF nothing, evidence, scaled, content
<1>4. CASE f.kind = "measurement_control"
  <2>1. evidence = [nothing EXCEPT !.subjectOmitted = TRUE]
    BY <1>2, <1>4
  <2>2. /\ DOMAIN evidence = {"strategy", "state"} \cup fields
        /\ evidence.strategy = f.kind /\ evidence.state = f.state /\ evidence.subjectOmitted = TRUE
        /\ \A field \in fields \ {"subjectOmitted"} : evidence[field] = NoValue
    BY <1>3, <2>1
  <2>3. Only(evidence, {"subjectOmitted"})
    BY <2>2 DEF Only
  <2>4. EvidenceFits(r, s, evidence)
    BY <1>4, <2>2, <2>3 DEF EvidenceFits
  <2>. QED
    BY <2>4 DEF evidence
<1>5. CASE f.kind # "measurement_control" /\ r.strategy = "item_stack"
  <2>1. evidence = [nothing EXCEPT !.item = content, !.equipReady = Given(s.context = "world", TRUE)]
    BY <1>1, <1>2, <1>5
  <2>2. /\ DOMAIN evidence = {"strategy", "state"} \cup fields
        /\ evidence.strategy = f.kind /\ evidence.state = f.state
        /\ evidence.item = content /\ evidence.equipReady = Given(s.context = "world", TRUE)
        /\ \A field \in fields \ {"item", "equipReady"} : evidence[field] = NoValue
    BY <1>3, <2>1
  <2>3. ItemEvidenceFits(s, content, evidence)
    BY <2>2 DEF ItemEvidenceFits, Only, Given
  <2>4. EvidenceFits(r, s, evidence)
    BY <1>5, <2>2, <2>3 DEF EvidenceFits, content
  <2>. QED
    BY <2>4 DEF evidence
<1>6. CASE f.kind # "measurement_control" /\ r.strategy = "equippable_head"
  <2>1. evidence = [nothing EXCEPT !.subject = f.subject, !.renderMode = r.review.renderMode,
                               !.item = Given(f.subject # "bare_control", content),
                               !.equipReady = Given(f.subject # "bare_control", TRUE),
                               !.chestArmor = Given(f.chest, r.review.chestArmor),
                               !.chestArmorReady = Given(f.chest, TRUE)]
    BY <1>1, <1>2, <1>6
  <2> DEFINE own == {"subject", "renderMode", "item", "equipReady", "chestArmor", "chestArmorReady"}
  <2>2. /\ DOMAIN evidence = {"strategy", "state"} \cup fields
        /\ evidence.strategy = f.kind /\ evidence.state = f.state
        /\ evidence.subject = f.subject /\ evidence.renderMode = r.review.renderMode
        /\ evidence.item = Given(f.subject # "bare_control", content)
        /\ evidence.equipReady = Given(f.subject # "bare_control", TRUE)
        /\ evidence.chestArmor = Given(f.chest, r.review.chestArmor)
        /\ evidence.chestArmorReady = Given(f.chest, TRUE)
        /\ \A field \in fields \ own : evidence[field] = NoValue
    BY <1>3, <2>1
  <2>3. f.chest \in BOOLEAN /\ (f.chest => r.review.chestArmor = TRUE)
    <3>1. r.target = "headwear" /\ f.kind = "equippable_head"
      BY <1>1, <1>6, Strategies
    <3>2. r.review.chestArmor \in BOOLEAN /\ (f.chest => r.review.chestArmor)
      BY <3>1 DEF Fit
    <3>3. f.chest \in BOOLEAN
      BY <3>1, Fixtures DEF HeadwearShape
    <3>. QED
      BY <3>2, <3>3
  <2>4. Only(evidence, own)
    BY <2>2 DEF Only
  <2>5. HeadwearEvidenceFits(r, f, content, evidence)
    <3>1. IF f.subject = "bare_control" THEN evidence.item = NoValue /\ evidence.equipReady = NoValue
          ELSE evidence.item = content /\ evidence.equipReady = TRUE
      BY <2>2 DEF Given
    <3>2. IF f.chest THEN evidence.chestArmor = TRUE /\ evidence.chestArmorReady = TRUE
          ELSE evidence.chestArmor = NoValue /\ evidence.chestArmorReady = NoValue
      BY <2>2, <2>3 DEF Given
    <3>3. Only(evidence, {"item", "equipReady", "chestArmor", "chestArmorReady", "subject", "renderMode"})
      <4>1. own = {"item", "equipReady", "chestArmor", "chestArmorReady", "subject", "renderMode"}
        OBVIOUS
      <4>. QED
        BY <2>4, <4>1
    <3>. QED
      BY <2>2, <3>1, <3>2, <3>3 DEF HeadwearEvidenceFits
  <2>6. EvidenceFits(r, s, evidence)
    BY <1>6, <2>2, <2>5 DEF EvidenceFits, content
  <2>. QED
    BY <2>6 DEF evidence
<1>7. CASE f.kind # "measurement_control" /\ r.strategy \in {"native_block_state", "block_display"}
  <2>1. f.target = "block" /\ f.kind = r.strategy
    BY <1>1, <1>7, Strategies
  <2>2. \/ f.layout = "inventory" /\ evidence = [nothing EXCEPT !.inventory = r.review.inventory]
        \/ /\ f.layout # "inventory" /\ f.kind = "native_block_state"
           /\ evidence = [nothing EXCEPT !.placed = content]
        \/ /\ f.layout # "inventory" /\ f.kind = "block_display"
           /\ evidence = [nothing EXCEPT !.placed = content, !.nodes = 1]
    BY <1>2, <1>7, <2>1
  <2>3. /\ DOMAIN evidence = {"strategy", "state"} \cup fields
        /\ evidence.strategy = f.kind /\ evidence.state = f.state
        /\ \A field \in fields \ {"placed", "inventory", "nodes"} : evidence[field] = NoValue
    BY <1>3, <2>2
  <2>4. IF f.layout = "inventory"
        THEN evidence.placed = NoValue /\ evidence.nodes = NoValue /\ evidence.inventory = r.review.inventory
        ELSE /\ evidence.inventory = NoValue /\ evidence.placed = content
             /\ f.kind = "block_display" => evidence.nodes = 1
    BY <1>3, <2>2
  <2>5. f.kind # "block_display" => evidence.nodes = NoValue
    BY <1>3, <2>2
  <2>6. Only(evidence, {"placed", "inventory"} \cup IF f.kind = "block_display" THEN {"nodes"} ELSE {})
    <3>1. CASE f.kind = "block_display"
      BY <2>3, <3>1 DEF Only
    <3>2. CASE f.kind # "block_display"
      BY <2>3, <2>5, <3>2 DEF Only
    <3>. QED
      BY <3>1, <3>2
  <2>7. BlockEvidenceFits(r, f, content, evidence)
    BY <1>7, <2>1, <2>4, <2>6 DEF BlockEvidenceFits
  <2>8. EvidenceFits(r, s, evidence)
    BY <1>7, <2>3, <2>7 DEF EvidenceFits, content
  <2>. QED
    BY <2>8 DEF evidence
<1>8. CASE f.kind # "measurement_control" /\ r.strategy = "native_placeable_block"
  <2>1. f.target = "placeable" /\ f.kind = r.strategy
    BY <1>1, <1>8, Strategies
  <2>2. evidence = [nothing EXCEPT !.placed = content]
    BY <1>2, <1>8, <2>1
  <2>3. /\ DOMAIN evidence = {"strategy", "state"} \cup fields
        /\ evidence.strategy = f.kind /\ evidence.state = f.state /\ evidence.placed = content
        /\ \A field \in fields \ {"placed"} : evidence[field] = NoValue
    BY <1>3, <2>2
  <2>4. Only(evidence, {"placed", "inventory"} \cup IF f.kind = "block_display" THEN {"nodes"} ELSE {})
    BY <2>3 DEF Only
  <2>5. BlockEvidenceFits(r, f, content, evidence)
    BY <1>8, <2>1, <2>3, <2>4 DEF BlockEvidenceFits
  <2>6. EvidenceFits(r, s, evidence)
    BY <1>8, <2>3, <2>5 DEF EvidenceFits, content
  <2>. QED
    BY <2>6 DEF evidence
<1>9. CASE /\ f.kind # "measurement_control"
           /\ r.strategy \notin {"item_stack", "equippable_head", "native_block_state", "block_display",
                                 "native_placeable_block"}
  <2>1. f.target \in {"entity", "placeable"} /\ f.kind = r.strategy
    BY <1>1, <1>9, Strategies
  <2>2. \/ f.kind = "display_rig" /\ evidence = [nothing EXCEPT !.rig = content, !.scaleReference = scaled]
        \/ f.kind # "display_rig" /\ evidence = [nothing EXCEPT !.entity = content, !.scaleReference = scaled]
    BY <1>2, <1>9, <2>1
  <2>3. /\ DOMAIN evidence = {"strategy", "state"} \cup fields
        /\ evidence.strategy = f.kind /\ evidence.state = f.state /\ evidence.scaleReference = scaled
        /\ f.kind = "display_rig" => evidence.rig = content /\ evidence.entity = NoValue
        /\ f.kind # "display_rig" => evidence.entity = content /\ evidence.rig = NoValue
        /\ \A field \in fields \ {"rig", "entity", "scaleReference"} : evidence[field] = NoValue
    BY <1>3, <2>2
  <2>4. IF f.kind = "display_rig" THEN Only(evidence, {"rig", "scaleReference"}) /\ evidence.rig = content
        ELSE Only(evidence, {"entity", "scaleReference"}) /\ evidence.entity = content
    BY <2>3 DEF Only
  <2>5. f.target = "entity" => evidence.scaleReference = Given(f.scale, TRUE)
    <3>1. f.target = "entity" => scaled = Given(f.scale, TRUE)
      BY DEF scaled, Given
    <3>. QED
      BY <2>3, <3>1
  <2>6. SpawnEvidenceFits(f, content, evidence)
    BY <2>4, <2>5 DEF SpawnEvidenceFits
  <2>7. EvidenceFits(r, s, evidence)
    BY <1>9, <2>3, <2>6 DEF EvidenceFits, content
  <2>. QED
    BY <2>7 DEF evidence
<1>. QED
  BY <1>4, <1>5, <1>6, <1>7, <1>8, <1>9

\* The scenes of an accepted plan are what the report is checked against.
LEMMA PicturedFit ==
  ASSUME request \in Accepted
  PROVE  \A s \in Pictured : Fit(Representation, s)
<1> DEFINE r == Representation
<1>1. request \in Planned /\ PlanAccepted(r, Scenes[request]) /\ Pictured = Scenes[request]
  BY AcceptedPlan DEF Accepted, Representation
<1>2. /\ request \in DOMAIN Requests /\ Answered(Requests[request])
      /\ Scenes[request] = ScenesOf(Requests[request])
  BY <1>1, PlannedAnswered
<1>3. r.target \in TargetsOf(r.strategy)
  BY AcceptedPlan DEF RepresentationAccepted
<1>4. r.target = "headwear" => r.review.chestArmor \in BOOLEAN
  BY <1>2, FieldsAssumption DEF Representation
<1>5. \A s \in Pictured : Aimed(s, r.target)
  BY <1>1, <1>2, ScenesAimed DEF Representation
<1>6. ASSUME NEW s \in Pictured
      PROVE  /\ SceneAccepted(s)
             /\ s.fixture.kind \in {r.strategy, "measurement_control"}
             /\ s.fixture.kind = "equippable_head" => (s.fixture.chest => r.review.chestArmor)
  <2>1. s \in Scenes[request] /\ PlanAccepted(r, Scenes[request])
    BY <1>1
  <2> HIDE DEF r
  <2>2. SceneAccepted(s)
    BY <2>1, ZenonT(30) DEF PlanAccepted
  <2>3. s.fixture.kind \in {r.strategy, "measurement_control"}
    BY <2>1, ZenonT(30) DEF PlanAccepted
  <2>4. s.fixture.kind = "equippable_head" => (s.fixture.chest => r.review.chestArmor)
    BY <2>1, ZenonT(30) DEF PlanAccepted
  <2>. QED
    BY <2>2, <2>3, <2>4
<1>. QED
  BY <1>3, <1>4, <1>5, <1>6 DEF Fit

-----------------------------------------------------------------------------
(* The counters of the mod.                                                 *)

\* The ticks of a scene that is in a plan, and what the tick of its view has to be.
LEMMA TicksFit ==
  ASSUME NEW r, NEW s, Fit(r, s)
  PROVE  /\ s.settling \in Nat /\ s.settling \in Ticks(40) /\ FixtureTicks(s) \in Nat
         /\ (IF s.target = "held_item" THEN s.animation[2] ELSE FixtureTicks(s)) = ExpectedTick(s)
         /\ ExpectedTick(s) \in Ticks(MaxFrame)
<1> DEFINE f == s.fixture
<1>1. /\ f.kind \in {r.strategy, "measurement_control"} /\ s.target = r.target
      /\ f.target = r.target /\ r.target \in TargetsOf(r.strategy)
      /\ r.target # "held_item" => s.animation[2] = 0
  BY DEF Fit, Aimed
<1>0. (\A t \in Ticks(1200) : t \in Ticks(MaxFrame)) /\ (\A t \in Ticks(MaxFrame) : t \in Nat)
  <2>1. MaxFrame \in Nat /\ 1200 <= MaxFrame
    BY DEF MaxFrame
  <2>. QED
    BY <2>1 DEF Ticks
<1>2. s.settling \in Ticks(40) /\ s.animation[2] \in Ticks(MaxFrame)
  BY DEF Fit, SceneAccepted, SceneShaped
<1>3. IsControl(s) => "tick" \notin DOMAIN f
  BY Fixtures DEF IsControl
<1>4. r.target = "held_item" => "tick" \notin DOMAIN f
  BY <1>1, Fixtures, Strategies DEF TargetsOf
<1>5. "tick" \in DOMAIN f => f.tick \in Ticks(MaxFrame)
  <2>1. CASE f.kind = "measurement_control"
    BY <1>3, <2>1 DEF IsControl
  <2>2. CASE f.kind # "measurement_control" /\ r.target \in {"held_item", "gui_item"}
    <3>1. f.kind = "item_stack"
      BY <1>1, <2>2 DEF TargetsOf
    <3>. QED
      BY <3>1, Fixtures
  <2>3. CASE f.kind # "measurement_control" /\ r.target = "block"
    <3>1. f.kind \in {"native_block_state", "block_display"}
      BY <1>1, <2>3 DEF TargetsOf
    <3>2. DOMAIN BlockShape = {"layout", "backdrop", "copies", "tick"} /\ BlockShape.tick = Ticks(MaxFrame)
      BY DEF BlockShape
    <3>. QED
      BY <3>1, <3>2, Fixtures
  <2>4. CASE f.kind # "measurement_control" /\ r.target = "headwear"
    <3>1. f.kind = "equippable_head"
      BY <1>1, <2>4 DEF TargetsOf
    <3>. QED
      BY <3>1, Fixtures DEF HeadwearShape
  <2>5. CASE f.kind # "measurement_control" /\ r.target = "entity"
    <3>1. DOMAIN EntityShape = {"pose", "turn", "scale", "tick"} /\ EntityShape.tick = Ticks(1200)
      BY DEF EntityShape
    <3>2. f.tick \in Ticks(1200)
      BY <1>1, <2>5, <3>1, Fixtures
    <3>. QED
      BY <1>0, <3>2
  <2>6. CASE f.kind # "measurement_control" /\ r.target = "placeable"
    <3>1. "tick" \in DOMAIN PlaceableShape /\ PlaceableShape.tick = Ticks(1200)
      BY DEF PlaceableShape
    <3>2. f.tick \in Ticks(1200)
      BY <1>1, <2>6, <3>1, Fixtures
    <3>. QED
      BY <1>0, <3>2
  <2>. QED
    BY <1>1, <2>1, <2>2, <2>3, <2>4, <2>5, <2>6, Strategies
<1>6. FixtureTicks(s) \in Nat
  BY <1>0, <1>5 DEF FixtureTicks
<1>7. (IF s.target = "held_item" THEN s.animation[2] ELSE FixtureTicks(s)) = ExpectedTick(s)
  BY <1>1, <1>3, <1>4 DEF FixtureTicks, ExpectedTick
<1>8. ExpectedTick(s) \in Ticks(MaxFrame)
  BY <1>2, <1>5 DEF ExpectedTick
<1>9. s.settling \in Nat
  BY <1>2 DEF Ticks
<1>. QED
  BY <1>2, <1>6, <1>7, <1>8, <1>9

\* What has to be kept while no view is taken.
LEMMA CountKept ==
  ASSUME CountInv, UNCHANGED <<request, views>>, CountAt(client', Plan[client'.at])
  PROVE  CountInv'
<1>1. Plan' = Plan
  BY Asked
<1>. QED
  BY <1>1 DEF CountInv

\* The other fields of the coordinator count nothing.
LEMMA CountSame ==
  ASSUME CountInv, UNCHANGED <<request, views>>, client'.at = client.at,
         client'.phase = client.phase, client'.frames = client.frames,
         client'.settled = client.settled, client'.ticks = client.ticks
  PROVE  CountInv'
<1>1. CountAt(client', Plan[client'.at])
  BY DEF CountInv, CountAt
<1>. QED
  BY <1>1, CountKept

\* In the other phases nothing is counted.
LEMMA CountIdle ==
  ASSUME CountInv, UNCHANGED <<request, views>>,
         client'.phase \notin Showing \cup {"capturing"}
  PROVE  CountInv'
<1>1. CountAt(client', Plan[client'.at])
  BY DEF CountAt, Showing
<1>. QED
  BY <1>1, CountKept

\* A step of the scene that is taken counts its ticks and frames up to what it asks for.
LEMMA SceneCounts ==
  ASSUME IInv, CountInv, NEW s \in OnScene, SceneStep(s, Wanted(s)), UNCHANGED request
  PROVE  CountInv'
<1>1. /\ s = Plan[client.at] /\ s \in Pictured /\ request \in Accepted
      /\ client.at \in 1 .. Len(Plan) /\ client.at \in Nat
  BY SceneAt
<1>2. Fit(Representation, s)
  BY <1>1, PicturedFit
<1>3. s.settling \in Nat /\ FixtureTicks(s) \in Nat
  BY <1>2, TicksFit
<1>4. /\ client \in Clients /\ client.frames \in Nat /\ client.settled \in Nat /\ client.ticks \in Nat
      /\ views \in Seq(View)
  BY DEF IInv, TypeInv, Clients
<1>5. CountAt(client, s)
  BY <1>1 DEF CountInv
<1>6. CASE PrepareScene(s)
  <2>1. /\ client' = [client EXCEPT !.phase = "waiting_for_equip", !.frames = 0, !.settled = 0, !.ticks = 0,
                                    !.acted = 0, !.setup = "submitted", !.use = "none"]
        /\ UNCHANGED views
    BY <1>6 DEF PrepareScene
  <2>2. /\ client'.phase = "waiting_for_equip" /\ client'.at = client.at
        /\ client'.frames = 0 /\ client'.settled = 0 /\ client'.ticks = 0
    BY <1>4, <2>1 DEF Clients
  <2>3. CountAt(client', s)
    BY <1>3, <2>2 DEF CountAt
  <2>. QED
    BY <1>1, <2>1, <2>2, <2>3, CountKept
<1>7. CASE ServerSetsUp(Wanted(s), FALSE)
  <2>1. client' = [client EXCEPT !.setup = "done"] /\ UNCHANGED views
    BY <1>7 DEF ServerSetsUp
  <2>. QED
    BY <1>4, <2>1, CountSame DEF Clients
<1>8. CASE WaitForEquip(s, Wanted(s))
  <2> DEFINE use == IF s.animation[1] = "swing" THEN "done" ELSE "submitted"
  <2>1. client.phase = "waiting_for_equip" /\ UNCHANGED views
    BY <1>8 DEF WaitForEquip, At
  <2>2. \/ client.settled < s.settling /\ client' = [client EXCEPT !.settled = @ + 1]
        \/ client.ticks < FixtureTicks(s) /\ client' = [client EXCEPT !.ticks = @ + 1]
        \/ /\ ~(client.settled < s.settling) /\ ~(client.ticks < FixtureTicks(s))
           /\ \/ client' = [client EXCEPT !.phase = "waiting_for_animation", !.use = use]
              \/ client' = [client EXCEPT !.phase = "waiting_for_frames"]
    BY <1>8, Zenon DEF WaitForEquip, FixtureTicks
  <2> HIDE DEF use
  <2>3. CASE client.settled < s.settling /\ client' = [client EXCEPT !.settled = @ + 1]
    <3>1. /\ client'.phase = "waiting_for_equip" /\ client'.at = client.at /\ client'.frames = client.frames
          /\ client'.settled = client.settled + 1 /\ client'.ticks = client.ticks
      BY <1>4, <2>1, <2>3 DEF Clients
    <3>2. CountAt(client', s)
      BY <1>3, <1>4, <1>5, <2>1, <2>3, <3>1 DEF CountAt
    <3>. QED
      BY <1>1, <2>1, <3>1, <3>2, CountKept
  <2>4. CASE client.ticks < FixtureTicks(s) /\ client' = [client EXCEPT !.ticks = @ + 1]
    <3>1. /\ client'.phase = "waiting_for_equip" /\ client'.at = client.at /\ client'.frames = client.frames
          /\ client'.settled = client.settled /\ client'.ticks = client.ticks + 1
      BY <1>4, <2>1, <2>4 DEF Clients
    <3>2. CountAt(client', s)
      BY <1>3, <1>4, <1>5, <2>1, <2>4, <3>1 DEF CountAt
    <3>. QED
      BY <1>1, <2>1, <3>1, <3>2, CountKept
  <2>5. CASE /\ ~(client.settled < s.settling) /\ ~(client.ticks < FixtureTicks(s))
             /\ \/ client' = [client EXCEPT !.phase = "waiting_for_animation", !.use = use]
                \/ client' = [client EXCEPT !.phase = "waiting_for_frames"]
    <3>1. client.settled = s.settling /\ client.ticks = FixtureTicks(s) /\ client.frames = 0
      BY <1>3, <1>4, <1>5, <2>1, <2>5 DEF CountAt
    <3>2. /\ client'.phase \in {"waiting_for_animation", "waiting_for_frames"} /\ client'.at = client.at
          /\ client'.frames = client.frames /\ client'.settled = client.settled /\ client'.ticks = client.ticks
      BY <1>4, <2>5 DEF Clients
    <3>3. CountAt(client', s)
      BY <3>1, <3>2 DEF CountAt, SettleFrames
    <3>. QED
      BY <1>1, <2>1, <3>2, <3>3, CountKept
  <2>. QED
    BY <2>2, <2>3, <2>4, <2>5
<1>9. CASE WaitForAnimation(s)
  <2>1. client.phase = "waiting_for_animation" /\ UNCHANGED views
    BY <1>9 DEF WaitForAnimation, At
  <2>2. \/ client' = [client EXCEPT !.acted = @ + 1]
        \/ client' = [client EXCEPT !.phase = "waiting_for_frames", !.frames = SettleFrames - 1]
    BY <1>9, Zenon DEF WaitForAnimation
  <2>3. CASE client' = [client EXCEPT !.acted = @ + 1]
    BY <1>4, <2>1, <2>3, CountSame DEF Clients
  <2>4. CASE client' = [client EXCEPT !.phase = "waiting_for_frames", !.frames = SettleFrames - 1]
    <3>1. /\ client'.phase = "waiting_for_frames" /\ client'.at = client.at
          /\ client'.frames = SettleFrames - 1 /\ client'.settled = client.settled /\ client'.ticks = client.ticks
      BY <1>4, <2>4 DEF Clients
    <3>2. CountAt(client', s)
      BY <1>5, <2>1, <3>1 DEF CountAt, SettleFrames
    <3>. QED
      BY <1>1, <2>1, <3>1, <3>2, CountKept
  <2>. QED
    BY <2>2, <2>3, <2>4
<1>10. ASSUME NEW ready \in BOOLEAN, Frame(s, Wanted(s), ready) PROVE CountInv'
  <2> DEFINE counts == ready /\ FixtureSeen(s, Wanted(s), world.seen)
             frames == IF counts THEN client.frames + 1 ELSE 0
             differs == {part \in DOMAIN Wanted(s) : world.seen[part] # Wanted(s)[part]}
  <2>1. client.phase = "waiting_for_frames" /\ UNCHANGED views
    BY <1>10 DEF Frame, At
  <2>2. client' = IF frames < SettleFrames THEN [client EXCEPT !.frames = frames]
                  ELSE [client EXCEPT !.phase = "capturing", !.frames = frames, !.grab = "pending",
                                      !.shot = differs]
    BY <1>10 DEF Frame
  <2>3. frames \in Nat /\ frames <= SettleFrames
    BY <1>4, <1>5, <2>1 DEF CountAt, SettleFrames
  <2> HIDE DEF frames, differs, counts
  <2>4. /\ client'.at = client.at /\ client'.frames = frames
        /\ client'.settled = client.settled /\ client'.ticks = client.ticks
        /\ client'.phase = IF frames < SettleFrames THEN "waiting_for_frames" ELSE "capturing"
    BY <1>4, <2>1, <2>2 DEF Clients
  <2>5. CountAt(client', s)
    BY <1>5, <2>1, <2>3, <2>4 DEF CountAt, SettleFrames
  <2>. QED
    BY <1>1, <2>1, <2>4, <2>5, CountKept
<1>11. CASE PollScreenshot(s)
  <2> DEFINE tick == IF s.target = "held_item" THEN s.animation[2] ELSE client.ticks
             view == [settled |-> client.settled, frames |-> client.frames, differs |-> client.shot, tick |-> tick]
  <2>1. /\ client.phase = "capturing" /\ views' = Append(views, view)
        /\ client' = IF client.at = Len(Plan) THEN [client EXCEPT !.phase = "finalizing", !.grab = "none"]
                     ELSE [client EXCEPT !.phase = "preparing_scene", !.grab = "none", !.at = @ + 1, !.shot = {}]
    BY <1>11 DEF PollScreenshot, At
  <2>2. Counted(s, view)
    BY <1>2, <1>5, <2>1, TicksFit DEF CountAt, Counted
  <2> HIDE DEF view
  <2>3. client'.phase \in {"finalizing", "preparing_scene"}
    BY <1>4, <2>1 DEF Clients
  <2>4. Len(views) = client.at - 1 /\ Plan' = Plan
    BY <1>1, <2>1, Asked DEF IInv, CallInv, SceneInv, OnScene
  <2>5. ASSUME NEW i \in DOMAIN views' PROVE Counted(Plan[i], views'[i])
    <3>1. CASE i \in DOMAIN views
      <4>1. views'[i] = views[i]
        BY <1>4, <2>1, <3>1
      <4>. QED
        BY <3>1, <4>1 DEF CountInv
    <3>2. CASE i = client.at
      <4>1. views'[i] = view
        BY <1>1, <1>4, <2>1, <2>4, <3>2
      <4>. QED
        BY <1>1, <2>2, <3>2, <4>1
    <3>. QED
      BY <1>1, <1>4, <2>1, <2>4, <3>1, <3>2
  <2>6. CountAt(client', Plan[client'.at])
    BY <2>3 DEF CountAt
  <2>. QED
    BY <2>4, <2>5, <2>6 DEF CountInv
<1>. QED
  BY <1>6, <1>7, <1>8, <1>9, <1>10, <1>11 DEF SceneStep

\* Every step keeps the counters to what the scenes ask for.
LEMMA CountNext ==
  ASSUME IInv, CountInv, [Next]_vars
  PROVE  CountInv'
<1>1. client \in Clients
  BY DEF IInv, TypeInv
<1>2. CASE HostStep
  <2>1. CASE Launch
    <3> DEFINE first == IF PlanIsRead THEN "waiting_for_world" ELSE "not_read"
    <3>1. client' = [client EXCEPT !.phase = first] /\ UNCHANGED <<request, views>>
      BY <1>2, <2>1 DEF HostStep, Launch
    <3>2. first \in {"waiting_for_world", "not_read"}
      OBVIOUS
    <3> HIDE DEF first
    <3>3. client'.phase \in {"waiting_for_world", "not_read"}
      BY <1>1, <3>1, <3>2 DEF Clients
    <3>. QED
      BY <3>1, <3>3, CountIdle DEF Showing
  <2>2. CASE ~Launch
    <3>1. UNCHANGED <<request, client, views>>
      BY <1>2, <2>2 DEF HostStep, Load, Probe, Preflight, Snapshot, MakePlan, Stage, Settled, Pin,
                        VerifyOutput, Collect, Store, Record, Reverify, modVars
    <3>. QED
      BY <3>1, CountSame
  <2>. QED
    BY <2>1, <2>2
<1>3. CASE ModStep
  <2>1. UNCHANGED request
    BY <1>3 DEF ModStep, UNCHANGEDByMod
  <2>2. ASSUME NEW s \in OnScene, SceneStep(s, Wanted(s)) PROVE CountInv'
    BY <2>1, <2>2, SceneCounts
  <2>3. CASE StartsUp
    <3>1. client' = [client EXCEPT !.phase = StartUp[client.phase]] /\ client.phase \in DOMAIN StartUp /\ UNCHANGED views
      BY <2>3 DEF StartsUp
    <3>2. StartUp[client.phase] \in Starting
      BY <3>1 DEF Starting, StartUp
    <3>3. client'.phase \in Starting
      BY <1>1, <3>1, <3>2 DEF Clients
    <3>. QED
      BY <2>1, <3>1, <3>3, CountIdle DEF Starting, StartUp, Showing
  <2>4. CASE ServerUsesItem
    <3>1. client' = [client EXCEPT !.use = "done"] /\ UNCHANGED views
      BY <2>4 DEF ServerUsesItem
    <3>. QED
      BY <1>1, <2>1, <3>1, CountSame DEF Clients
  <2>5. CASE ScreenshotCompletes
    <3>1. client' = [client EXCEPT !.grab = "ready"] /\ UNCHANGED views
      BY <2>5 DEF ScreenshotCompletes
    <3>. QED
      BY <1>1, <2>1, <3>1, CountSame DEF Clients
  <2>6. CASE WriteReport
    BY <2>1, <2>6, CountSame DEF WriteReport
  <2>7. CASE WriteSentinel \/ Fail
    <3>1. UNCHANGED views /\ client' \in {[client EXCEPT !.phase = "done"], [client EXCEPT !.phase = "failed"]}
      BY <2>7 DEF WriteSentinel, Fail
    <3>2. client'.phase \in {"done", "failed"}
      BY <1>1, <3>1 DEF Clients
    <3>. QED
      BY <2>1, <3>1, <3>2, CountIdle DEF Showing
  <2>8. ASSUME NEW kind \in DOMAIN Received, ClientSees(kind) PROVE CountInv'
    BY <2>1, <2>8, CountSame DEF ClientSees
  <2>. QED
    BY <1>3, <2>2, <2>3, <2>4, <2>5, <2>6, <2>7, <2>8 DEF ModStep
<1>4. CASE RunnerStep \/ ProcessStep \/ Cancel \/ UNCHANGED vars
  <2>1. UNCHANGED <<request, client, views>>
    BY <1>4 DEF RunnerStep, ProcessStep, Cancel, vars, modVars
  <2>. QED
    BY <2>1, CountSame
<1>5. CASE Event
  <2>1. UNCHANGED request
    BY <1>5 DEF Event
  <2>2. CASE (\E what \in DOMAIN held : Replace(what)) \/ HostFault
    BY <2>1, <2>2, CountSame DEF Replace, HostFault, modVars
  <2>3. ASSUME NEW s \in OnScene, ServerSetsUp(Wanted(s), TRUE) PROVE CountInv'
    <3>1. client' = [client EXCEPT !.setup = "done"] /\ UNCHANGED views
      BY <2>3 DEF ServerSetsUp
    <3>. QED
      BY <1>1, <2>1, <3>1, CountSame DEF Clients
  <2>. QED
    BY <1>5, <2>2, <2>3 DEF Event
<1>. QED
  BY <1>2, <1>3, <1>4, <1>5 DEF Next

-----------------------------------------------------------------------------
(* The report.                                                              *)

\* A measurement that is reported is one that its scene asks for.
LEMMA MeasuredFits ==
  ASSUME NEW augmented, NEW s, NEW intent, NEW value \in {"passed", "failed", NoValue}
  PROVE  /\ Measured(augmented, s, intent, value).id = intent.id
         /\ MeasurementFits(s, intent, Measured(augmented, s, intent, value))
<1> DEFINE m == Measured(augmented, s, intent, value)
           skipped == \/ value = NoValue
                      \/ \E id \in Sources(s, intent) \cap augmented :
                           ~(id = IdOf(s) /\ s.kind = "debug_hitbox_reference")
<1>1. /\ m.id = intent.id /\ m.sources = Sources(s, intent)
      /\ m.metric = intent.metric /\ m.critical = intent.critical /\ m.calibrated = intent.calibrated
      /\ m.value = IF skipped THEN NoValue ELSE value
      /\ m.status = IF skipped THEN "skipped" ELSE IF ~intent.calibrated THEN "warning" ELSE value
  BY DEF Measured
<1>2. ~skipped => value # NoValue
  OBVIOUS
<1> HIDE DEF m, skipped
<1>3. CASE skipped
  <2>1. m.value = NoValue /\ m.status = "skipped"
    BY <1>1, <1>3
  <2>. QED
    BY <1>1, <2>1 DEF MeasurementFits, MeasurementShaped, m
<1>4. CASE ~skipped
  <2>1. m.value = value /\ m.status \in {"passed", "failed", "warning"} /\ value # NoValue
    BY <1>1, <1>2, <1>4
  <2>2. m.status = IF intent.calibrated THEN m.value ELSE "warning"
    BY <1>1, <1>4, <2>1
  <2>. QED
    BY <1>1, <2>1, <2>2 DEF MeasurementFits, MeasurementShaped, m
<1>. QED
  BY <1>3, <1>4

\* What is told of the scenes of an accepted plan: their ids and their measurements are unique.
LEMMA Unique ==
  ASSUME request \in Accepted
  PROVE  /\ \A s, t \in Pictured : IdOf(s) = IdOf(t) => s = t
         /\ \A s, t \in Pictured : \A i \in s.intents, k \in t.intents : i.id = k.id => s = t /\ i = k
         /\ \A s \in Pictured : \A i \in s.intents : IntentAccepted(Pictured, s, i)
<1>1. PlanAccepted(Representation, Pictured)
  BY AcceptedPlan DEF Accepted, Representation
<1>2. ASSUME NEW s \in Pictured, NEW t \in Pictured, s # t
      PROVE  IdOf(s) # IdOf(t) /\ {i.id : i \in s.intents} \cap {i.id : i \in t.intents} = {}
  BY <1>1, <1>2, ZenonT(30) DEF PlanAccepted
<1>3. ASSUME NEW s \in Pictured, NEW t \in Pictured, NEW i \in s.intents, NEW k \in t.intents, i.id = k.id
      PROVE  s = t /\ i = k
  <2>1. s = t
    BY <1>2, <1>3
  <2>2. SceneAccepted(s)
    BY PicturedFit DEF Fit
  <2>. QED
    BY <1>3, <2>1, <2>2 DEF SceneAccepted
<1>4. \A s \in Pictured : \A i \in s.intents : IntentAccepted(Pictured, s, i)
  <2> SUFFICES ASSUME NEW s \in Pictured, NEW i \in s.intents PROVE IntentAccepted(Pictured, s, i)
    OBVIOUS
  <2>. QED
    BY <1>1, ZenonT(30) DEF PlanAccepted
<1>. QED
  BY <1>2, <1>3, <1>4

\* The report, in these terms.
LEMMA Reported ==
  /\ Report.identity = Identity
  /\ Report.views = [i \in DOMAIN views |-> ViewAt(i)]
  /\ Report.measurements = UNION {MeasuredOf(s) : s \in Scenes[request]}
BY DEF Report, ViewAt, MeasuredOf, ValueOf

\* A measured value is one that can be reported.
LEMMA Valued ==
  ASSUME IInv, request \in Accepted, NEW intent
  PROVE  ValueOf(intent) \in {"passed", "failed", NoValue}
<1>1. output.poor \in {NoValue} \cup (Samples \X {"failed", NoValue})
  BY AcceptedPlan DEF IInv, TypeInv, Outputs, Poor
<1>. QED
  BY <1>1 DEF ValueOf

\* A view with the counters of its scene is accepted.
LEMMA ViewIsFit ==
  ASSUME NEW i, Fit(Representation, Plan[i]), Counted(Plan[i], views[i])
  PROVE  ViewAt(i).scene = Plan[i] /\ ViewFits(Representation, Plan[i], ViewAt(i))
<1> DEFINE s == Plan[i]
           r == Representation
           view == ViewAt(i)
<1>1. /\ view.scene = s /\ view.observed = Observed(r, s) /\ view.evidence = Evidence(r, s)
      /\ view.settled = s.settling /\ view.frames = SettleFrames /\ view.tick = ExpectedTick(s)
      /\ view.environment = <<s.low, s.biome>>
  BY DEF ViewAt, Counted
<1>2. /\ view.observed = ExpectedFixture(r, s) /\ ObservedShaped(view.observed)
      /\ EvidenceFits(r, s, view.evidence)
  BY <1>1, ObservedAsExpected, ObservedIsShaped, EvidenceIsFit
<1>3. s.settling \in Ticks(40) /\ ExpectedTick(s) \in Ticks(MaxFrame)
  BY TicksFit
<1>4. SettleFrames \in 0..120 /\ SettleFrames >= SettleFrames
  BY DEF SettleFrames
<1> HIDE DEF s, r, view
<1>5. ViewShaped(view)
  BY <1>1, <1>2, <1>3, <1>4 DEF ViewShaped
<1>6. ViewFits(r, s, view)
  BY <1>1, <1>2, <1>4, <1>5 DEF ViewFits
<1>. QED
  BY <1>1, <1>6 DEF s, r, view

\* A complete report is accepted: its views and measurements are those of the plan.
LEMMA ReportIsFit ==
  ASSUME IInv, CountInv, process # "none", output.report = "complete"
  PROVE  ReportIsAccepted
<1> DEFINE S == Scenes[request]
           r == Representation
<1>1. SceneInv /\ request \in Accepted /\ Len(views) = Len(Plan) /\ views \in Seq(View)
  BY DEF IInv, SceneInv, TypeInv
<1>2. /\ Pictured = S /\ request \in Planned /\ Plan \in Seq(S) /\ Len(Plan) \in Nat
      /\ \A i \in 1 .. Len(Plan) : Plan[i] \in S
  BY <1>1, AcceptedPlan
<1>3. Len(Plan) = Cardinality(S) /\ Range(Plan) = S
  BY <1>2, OrderAssumption DEF Plan
<1>4. Cardinality(S) \in 1..64
  BY <1>1, <1>2 DEF Accepted, PlanAccepted
<1>5. DOMAIN views = 1 .. Len(Plan) /\ DOMAIN Plan = 1 .. Len(Plan)
  BY <1>1, <1>2
<1>6. /\ Report.identity = Identity
      /\ Report.views = [i \in 1 .. Len(Plan) |-> ViewAt(i)]
      /\ Report.measurements = UNION {MeasuredOf(s) : s \in S}
  BY <1>5, Reported
<1>7. ASSUME NEW i \in 1 .. Len(Plan)
      PROVE  ViewAt(i).scene = Plan[i] /\ ViewFits(r, Plan[i], ViewAt(i))
  <2>1. Fit(r, Plan[i]) /\ Counted(Plan[i], views[i])
    BY <1>1, <1>2, <1>5, PicturedFit DEF CountInv
  <2>. QED
    BY <2>1, ViewIsFit
<1> DEFINE V == Report.views
           M == Report.measurements
<1>8. DOMAIN V = 1 .. Len(Plan) /\ Len(V) = Len(Plan) /\ \A i \in 1 .. Len(Plan) : V[i] = ViewAt(i)
  BY <1>2, <1>6
<1> HIDE DEF S, r, V, M
<1>9. \A view \in Range(V) : \E i \in 1 .. Len(Plan) : view = ViewAt(i)
  BY <1>8 DEF Range
<1>10. \A i \in 1 .. Len(Plan) : ViewAt(i) \in Range(V)
  BY <1>8 DEF Range
<1>11. {view.scene : view \in Range(V)} = S
  <2>1. ASSUME NEW view \in Range(V) PROVE view.scene \in S
    BY <1>2, <1>7, <1>9
  <2>2. ASSUME NEW s \in S PROVE \E view \in Range(V) : s = view.scene
    <3>1. PICK i \in 1 .. Len(Plan) : s = Plan[i]
      BY <1>3, <1>5 DEF Range
    <3>2. s = ViewAt(i).scene /\ ViewAt(i) \in Range(V)
      BY <1>7, <1>10, <3>1
    <3>. QED
      BY <3>2
  <2>. QED
    BY <2>1, <2>2
<1>12. \A view \in Range(V) : ViewFits(r, view.scene, view)
  <2> SUFFICES ASSUME NEW view \in Range(V) PROVE ViewFits(r, view.scene, view)
    OBVIOUS
  <2>1. PICK i \in 1 .. Len(Plan) : view = ViewAt(i)
    BY <1>9
  <2>2. ViewAt(i).scene = Plan[i] /\ ViewFits(r, Plan[i], ViewAt(i))
    BY <1>7
  <2>. QED
    BY <2>1, <2>2
<1>13. ASSUME NEW m \in M
       PROVE  \E s \in S : \E intent \in s.intents :
                m.id = intent.id /\ m = Measured(Augmented(S), s, intent, ValueOf(intent))
  <2>1. PICK s \in S : m \in MeasuredOf(s)
    BY <1>6 DEF M
  <2>2. PICK intent \in s.intents : m = Measured(Augmented(S), s, intent, ValueOf(intent))
    BY <2>1 DEF MeasuredOf, S
  <2>3. m.id = intent.id
    BY <1>1, <2>2, Valued, MeasuredFits
  <2>. QED
    BY <2>2, <2>3
<1>14. ASSUME NEW s \in S, NEW intent \in s.intents
       PROVE  LET m == Measured(Augmented(S), s, intent, ValueOf(intent))
              IN  m \in M /\ m.id = intent.id /\ MeasurementFits(s, intent, m)
  <2> DEFINE m == Measured(Augmented(S), s, intent, ValueOf(intent))
  <2>1. m \in MeasuredOf(s)
    BY DEF MeasuredOf, S
  <2>2. m \in M
    BY <1>6, <2>1 DEF M
  <2>3. m.id = intent.id /\ MeasurementFits(s, intent, m)
    BY <1>1, Valued, MeasuredFits
  <2>. QED
    BY <2>2, <2>3
<1>15. \A a, b \in M : a.id = b.id => a = b
  <2> SUFFICES ASSUME NEW a \in M, NEW b \in M, a.id = b.id PROVE a = b
    OBVIOUS
  <2>1. PICK s \in S : \E intent \in s.intents :
          a.id = intent.id /\ a = Measured(Augmented(S), s, intent, ValueOf(intent))
    BY <1>13
  <2>2. PICK i \in s.intents : a.id = i.id /\ a = Measured(Augmented(S), s, i, ValueOf(i))
    BY <2>1
  <2>3. PICK t \in S : \E intent \in t.intents :
          b.id = intent.id /\ b = Measured(Augmented(S), t, intent, ValueOf(intent))
    BY <1>13
  <2>4. PICK k \in t.intents : b.id = k.id /\ b = Measured(Augmented(S), t, k, ValueOf(k))
    BY <2>3
  <2>5. i.id = k.id
    BY <2>2, <2>4
  <2>6. s = t /\ i = k
    <3>1. \A v, w \in S : \A j \in v.intents, l \in w.intents : j.id = l.id => v = w /\ j = l
      BY <1>1, <1>2, Unique
    <3>. QED
      BY <2>5, <3>1
  <2>. QED
    BY <2>2, <2>4, <2>6
<1>16. {m.id : m \in M} = {intent.id : intent \in UNION {s.intents : s \in S}}
  <2> DEFINE I == UNION {s.intents : s \in S}
  <2>1. \A intent : intent \in I <=> \E s \in S : intent \in s.intents
    OBVIOUS
  <2> HIDE DEF I
  <2>2. \A m \in M : \E intent \in I : m.id = intent.id
    BY <1>13, <2>1
  <2>3. \A intent \in I : \E m \in M : m.id = intent.id
    BY <1>14, <2>1
  <2>4. {m.id : m \in M} = {intent.id : intent \in I}
    BY <2>2, <2>3
  <2>. QED
    BY <2>4 DEF I
<1>17. \A s \in S : \A intent \in s.intents : \E m \in M : m.id = intent.id /\ MeasurementFits(s, intent, m)
  BY <1>14
<1>18. ReportShaped(Report)
  BY <1>3, <1>4, <1>8, <1>11, <1>15 DEF ReportShaped, V, M
<1>19. ReportAccepted(r, S, Identity, Report)
  BY <1>6, <1>11, <1>12, <1>16, <1>17, <1>18 DEF ReportAccepted, V, M
<1>. QED
  BY <1>19 DEF ReportIsAccepted, S, r

\* What is not ready has a critical measurement that the report calls poor.
LEMMA UnreadyIsCritical ==
  ASSUME IInv, request \in Accepted, ~CaptureIsReady
  PROVE  \E s \in Scenes[request] : s.required /\ \E intent \in s.intents :
           intent.critical /\ intent.id = output.poor[1]
<1> DEFINE S == Scenes[request]
           augmented == Augmented(S)
<1>1. Pictured = S
  BY AcceptedPlan
<1>2. PICK m \in Report.measurements :
        m.id \in AuthoritativeMeasurements(S) /\ m.status \in {"failed", "skipped"}
  BY DEF CaptureIsReady, CaptureReady
<1>3. PICK s \in S : m \in MeasuredOf(s)
  BY <1>2, Reported
<1>4. PICK intent \in s.intents : m = Measured(augmented, s, intent, ValueOf(intent))
  BY <1>3 DEF MeasuredOf
<1>5. m.id = intent.id
  BY <1>4, Valued, MeasuredFits
<1> HIDE DEF augmented
<1>6. PICK v \in S : v.required /\ \E k \in v.intents :
        /\ k.critical /\ k.id = m.id
        /\ \A id \in Sources(v, k) : id = IdOf(v) \/ Authoritative(S, id)
  BY <1>2 DEF AuthoritativeMeasurements
<1>7. PICK k \in v.intents :
        /\ k.critical /\ k.id = m.id
        /\ \A id \in Sources(v, k) : id = IdOf(v) \/ Authoritative(S, id)
  BY <1>6
<1>8. v = s /\ k = intent
  BY <1>1, <1>5, <1>7, Unique
<1>9. intent.calibrated
  <2>1. IntentAccepted(S, s, intent)
    BY <1>1, Unique
  <2>. QED
    BY <1>7, <1>8, <2>1 DEF IntentAccepted
<1>10. ASSUME NEW id \in Sources(s, intent) PROVE id \notin augmented
  <2>1. PICK u \in S : IdOf(u) = id /\ u.required
    BY <1>6, <1>7, <1>8 DEF Authoritative, SceneNamed
  <2>2. SUFFICES ASSUME id \in augmented PROVE FALSE
    OBVIOUS
  <2>3. PICK w \in S : ~w.required /\ IdOf(w) = id
    BY <2>2 DEF augmented, Augmented
  <2>. QED
    BY <1>1, <2>1, <2>3, Unique
<1>11. ValueOf(intent) # "passed"
  <2>1. SUFFICES ASSUME ValueOf(intent) = "passed" PROVE m.status = "passed"
    BY <1>2
  <2>. QED
    BY <1>4, <1>9, <1>10, <2>1, NoValueAssumption DEF Measured
<1>12. output.poor[1] = intent.id
  BY <1>11 DEF ValueOf
<1>. QED
  BY <1>6, <1>7, <1>8, <1>12

-----------------------------------------------------------------------------
(* What becomes of a complete report.                                       *)

\* Before the call has ended, and of other calls, nothing is said.
LEMMA NotYet ==
  ASSUME pc' # "ended" \/ process' # "exited" \/ cancelled' = TRUE \/ events' # 0
  PROVE  CompleteIsRecorded'
BY DEF CompleteIsRecorded, CompleteAndUndisturbed

\* What is said of a call that has ended does not change without it.
LEMMA CompleteKept ==
  ASSUME CompleteIsRecorded, UNCHANGED vars
  PROVE  CompleteIsRecorded'
<1>1. UNCHANGED <<request, pc, outcome, record, output, process, cancelled, events>>
  BY DEF vars, hostVars, modVars
<1>2. (HitboxesUnseen' <=> HitboxesUnseen) /\ NamesIn(request)' = NamesIn(request)
  BY <1>1 DEF HitboxesUnseen, NamesIn
<1>3. CompleteAndUndisturbed' <=> CompleteAndUndisturbed
  BY <1>1 DEF CompleteAndUndisturbed, Completed
<1>4. Scenes[request]' = Scenes[request]
  BY <1>1
<1>. QED
  BY <1>1, <1>2, <1>3, <1>4 DEF CompleteIsRecorded

\* The steps of the host before the session read what is there, and end no session.
LEMMA PreparingCalm ==
  ASSUME IInv, CalmInv, HostStep, Load \/ Probe \/ Preflight \/ Snapshot \/ MakePlan \/ Stage \/ Launch
  PROVE  CalmInv'
<1>1. UNCHANGED <<request, disk, cancelled, events>> /\ process = "none"
  BY DEF HostStep, IInv, CallInv, Preparing, Load, Probe, Preflight, Snapshot, MakePlan, Stage, Launch
<1>2. events \in Nat /\ DOMAIN held = Kept /\ (events = 0 => Undisturbed)
  BY DEF CalmInv
<1> USE DEF Goes, Ends
<1>3. \/ pc' = "ended" /\ process' = "none"
      \/ pc' \in {"probing", "preflight", "snapshot", "planning", "staging", "launching"} /\ process' = "none"
      \/ pc' = "waiting" /\ process' = "alive"
  BY <1>1 DEF Load, Probe, Preflight, Snapshot, MakePlan, Stage, Launch
<1>4. DOMAIN held' = Kept
  BY <1>2 DEF Keep, Load, Probe, Preflight, Snapshot, MakePlan, Stage, Launch
<1>5. ASSUME events = 0 PROVE Undisturbed'
  <2>1. Undisturbed
    BY <1>2, <1>5
  <2>2. CASE Load
    BY <1>1, <1>2, <2>1, <2>2 DEF Load, Keep, Undisturbed, Kept
  <2>3. CASE Probe
    BY <1>1, <1>2, <2>1, <2>3 DEF Probe, Undisturbed
  <2>4. CASE Preflight
    BY <1>1, <1>2, <2>1, <2>4 DEF Preflight, Keep, Undisturbed, Kept
  <2>5. CASE Snapshot
    BY <1>1, <1>2, <2>1, <2>5 DEF Snapshot, Keep, Undisturbed, Kept
  <2>6. CASE MakePlan
    BY <1>1, <1>2, <2>1, <2>6 DEF MakePlan, Undisturbed
  <2>7. CASE Stage
    BY <1>1, <1>2, <2>1, <2>7 DEF Stage, Undisturbed
  <2>8. CASE Launch
    BY <1>1, <1>2, <2>1, <2>8 DEF Launch, Undisturbed
  <2>. QED
    BY <2>2, <2>3, <2>4, <2>5, <2>6, <2>7, <2>8
<1>6. CompleteIsRecorded'
  BY <1>3, NotYet
<1>7. events' \in Nat /\ (process' = "alive" => pc' = "waiting") /\ (events' = 0 => Undisturbed')
  BY <1>1, <1>2, <1>3, <1>5
<1>. QED
  BY <1>4, <1>6, <1>7 DEF CalmInv

\* The record of an undisturbed call is a record.
LEMMA RecordThere == [packs |-> 0, proposal |-> 0, evidence |-> 0] # NoValue
<1>1. [packs |-> 0, proposal |-> 0, evidence |-> 0] \in [packs : Nat, proposal : Nat, evidence : Nat]
  OBVIOUS
<1>. QED
  BY <1>1, NoValueAssumption

\* An undisturbed call with a complete report is kept up to its verification.
LEMMA KeepingCalm ==
  ASSUME IInv, CountInv, CalmInv, HostStep, Settled \/ Pin \/ VerifyOutput \/ Collect \/ Store \/ Record
  PROVE  CalmInv'
<1>1. UNCHANGED <<request, disk, cancelled, events, process, output>>
  BY DEF HostStep, Settled, Pin, VerifyOutput, Collect, Store, Record, modVars
<1>2. events \in Nat /\ DOMAIN held = Kept /\ (events = 0 => Undisturbed)
  BY DEF CalmInv
<1>3. process # "alive"
  BY DEF CalmInv, Settled, Pin, VerifyOutput, Collect, Store, Record
<1> USE DEF Goes, Ends
<1>4. DOMAIN held' = Kept
  BY <1>2 DEF Keep, Settled, Pin, VerifyOutput, Collect, Store, Record
<1>5. ASSUME events = 0 PROVE Undisturbed'
  <2>1. Undisturbed
    BY <1>2, <1>5
  <2>2. CASE Settled
    <3>1. pc = "waiting" /\ pc' \in {"ended", "pinning"} /\ UNCHANGED <<held, record>>
      BY <2>2 DEF Settled
    <3>. QED
      BY <1>1, <2>1, <3>1 DEF Undisturbed
  <2>3. CASE Pin
    BY <1>1, <2>1, <2>3 DEF Pin, Undisturbed
  <2>4. CASE VerifyOutput
    BY <1>1, <2>1, <2>4 DEF VerifyOutput, Undisturbed
  <2>5. CASE Collect
    BY <1>1, <2>1, <2>5 DEF Collect, Undisturbed
  <2>6. CASE Store
    BY <1>1, <1>2, <2>1, <2>6 DEF Store, Keep, Undisturbed, Kept
  <2>7. CASE Record
    <3>1. pc = "recording" /\ disk.proposal = held.proposal
      BY <2>1, <2>7 DEF Record, Undisturbed
    <3>2. pc' = "reverifying" /\ record' = Restrict(held, {"packs", "proposal", "evidence"}) /\ UNCHANGED held
      BY <2>7, <3>1 DEF Record
    <3>3. held.packs = 0 /\ held.proposal = 0 /\ held.evidence = 0 /\ held.runtime = 0
      BY <2>1, <3>1 DEF Undisturbed
    <3>4. record' = [packs |-> 0, proposal |-> 0, evidence |-> 0]
      BY <3>2, <3>3 DEF Restrict
    <3>. QED
      BY <1>1, <2>1, <3>2, <3>3, <3>4 DEF Undisturbed
  <2>. QED
    BY <2>2, <2>3, <2>4, <2>5, <2>6, <2>7
<1>6. CompleteIsRecorded'
  <2>1. SUFFICES ASSUME CompleteAndUndisturbed', NamesIn(request)' \subseteq {"plain", "dash"} PROVE pc' # "ended"
    BY DEF CompleteIsRecorded
  <2>2. events = 0 /\ cancelled = FALSE /\ process = "exited" /\ Completed
    BY <1>1, <2>1 DEF CompleteAndUndisturbed, Completed
  <2>3. Undisturbed /\ NamesIn(request) \subseteq {"plain", "dash"}
    BY <1>1, <1>2, <2>1, <2>2 DEF NamesIn
  <2>4. CASE Settled
    BY <2>2, <2>4 DEF Settled
  <2>5. CASE Pin
    BY <2>2, <2>3, <2>5 DEF Pin, Undisturbed
  <2>6. CASE VerifyOutput
    <3>1. ReportIsAccepted
      BY <2>2, ReportIsFit DEF Completed
    <3>. QED
      BY <2>2, <2>6, <3>1 DEF VerifyOutput
  <2>7. CASE Collect
    BY <2>7 DEF Collect
  <2>8. CASE Store
    BY <2>2, <2>3, <2>8 DEF Store
  <2>9. CASE Record
    BY <2>3, <2>9 DEF Record, Undisturbed
  <2>. QED
    BY <2>4, <2>5, <2>6, <2>7, <2>8, <2>9
<1>7. events' \in Nat /\ (process' = "alive" => pc' = "waiting") /\ (events' = 0 => Undisturbed')
  BY <1>1, <1>2, <1>3, <1>5
<1>. QED
  BY <1>4, <1>6, <1>7 DEF CalmInv

\* The verification of an undisturbed call finds what was recorded.
LEMMA ReverifyCalm ==
  ASSUME IInv, CalmInv, HostStep, Reverify
  PROVE  CalmInv'
<1>1. /\ UNCHANGED <<request, disk, cancelled, events, process, output, held, record>>
      /\ pc = "reverifying" /\ pc' = "ended"
  BY DEF HostStep, Reverify, Ends, modVars
<1>2. events \in Nat /\ DOMAIN held = Kept /\ (events = 0 => Undisturbed) /\ process # "alive"
  BY <1>1 DEF CalmInv
<1>3. events = 0 => Undisturbed'
  BY <1>1, <1>2 DEF Undisturbed
<1>4. request \in Accepted /\ request \in Planned
  BY <1>1 DEF IInv, CallInv, After, Keeping, SceneInv, Accepted
<1>5. CompleteIsRecorded'
  <2>1. SUFFICES ASSUME CompleteAndUndisturbed'
                 PROVE  /\ record # NoValue
                        /\ HitboxesUnseen \/ "dash" \in NamesIn(request) \/ outcome' \in {"passed", "failed"}
                        /\ outcome' = "failed" =>
                             \E s \in Scenes[request] : s.required /\ \E intent \in s.intents :
                               intent.critical /\ intent.id = output.poor[1]
    <3>1. (HitboxesUnseen' <=> HitboxesUnseen) /\ NamesIn(request)' = NamesIn(request) /\ output' = output
          /\ record' = record /\ Scenes[request]' = Scenes[request]
      BY <1>1 DEF HitboxesUnseen, NamesIn
    <3>. QED
      BY <3>1 DEF CompleteIsRecorded
  <2>2. Undisturbed /\ cancelled = FALSE
    BY <1>1, <1>2, <2>1 DEF CompleteAndUndisturbed
  <2>3. record = [packs |-> 0, proposal |-> 0, evidence |-> 0] /\ record # NoValue
    BY <1>1, <2>2, RecordThere DEF Undisturbed
  <2>4. IdentityHolds /\ PacksHold /\ ArtifactsHold
    BY <2>2, <2>3 DEF Undisturbed, IdentityHolds, PacksHold, ArtifactsHold
  <2>5. request \in Rederivable \/ HitboxesUnseen
    BY <1>4, Replanned DEF HitboxesUnseen
  <2> DEFINE verified == /\ ~cancelled /\ IdentityHolds /\ EvidenceParses /\ PacksHold
                         /\ request \in Rederivable /\ ArtifactsHold
  <2>6. outcome' = IF ~verified THEN "unverified" ELSE IF CaptureIsReady THEN "passed" ELSE "failed"
    BY DEF Reverify, Ends
  <2>7. HitboxesUnseen \/ "dash" \in NamesIn(request) \/ verified
    BY <2>2, <2>4, <2>5 DEF EvidenceParses
  <2> HIDE DEF verified
  <2>8. outcome' = "failed" => ~CaptureIsReady
    BY <2>6
  <2>. QED
    BY <1>4, <2>3, <2>6, <2>7, <2>8, UnreadyIsCritical
<1>6. events' \in Nat /\ (process' = "alive" => pc' = "waiting") /\ (events' = 0 => Undisturbed') /\ DOMAIN held' = Kept
  BY <1>1, <1>2, <1>3
<1>. QED
  BY <1>5, <1>6 DEF CalmInv

\* Nothing but the end of the call can be said of what has ended, and what else
\* happens is an event, which the claim does not speak of.
LEMMA CalmNext ==
  ASSUME IInv, CountInv, CalmInv, [Next]_vars
  PROVE  CalmInv'
<1>1. CASE HostStep
  BY <1>1, PreparingCalm, KeepingCalm, ReverifyCalm DEF HostStep
<1>2. CASE UNCHANGED vars
  <2>1. CompleteIsRecorded'
    BY <1>2, CompleteKept DEF CalmInv
  <2>2. UNCHANGED <<events, held, process, pc, disk, record>>
    BY <1>2 DEF vars, hostVars
  <2>3. Undisturbed' <=> Undisturbed
    BY <2>2 DEF Undisturbed
  <2>. QED
    BY <2>1, <2>2, <2>3 DEF CalmInv
<1>3. CASE ModStep \/ ProcessStep \/ RunnerStep \/ Cancel
  <2>1. UNCHANGED <<hostVars, disk, events>>
    BY <1>3 DEF ModStep, UNCHANGEDByMod, ProcessStep, RunnerStep, Cancel
  <2>2. pc # "ended" /\ (process' = "alive" => process = "alive")
    <3>1. CASE ModStep
      <4>1. process = "alive" /\ UNCHANGED process
        BY <3>1 DEF ModStep, UNCHANGEDByMod, OnScene, StartsUp, ServerUsesItem, ScreenshotCompletes,
                    WriteReport, WriteSentinel, Fail, ClientSees, At
      <4>. QED
        BY <4>1 DEF CalmInv
    <3>2. CASE ProcessStep \/ RunnerStep
      <4>1. process = "alive"
        BY <3>2 DEF ProcessStep, RunnerStep, Exits, Dies, TimeOut, Kill
      <4>. QED
        BY <4>1 DEF CalmInv
    <3>3. CASE Cancel
      BY <3>3 DEF Cancel
    <3>. QED
      BY <1>3, <3>1, <3>2, <3>3
  <2>3. UNCHANGED <<pc, held, record, disk, events>>
    BY <2>1 DEF hostVars
  <2>4. CompleteIsRecorded'
    BY <2>2, <2>3, NotYet
  <2>5. Undisturbed' <=> Undisturbed
    BY <2>3 DEF Undisturbed
  <2>. QED
    BY <2>2, <2>3, <2>4, <2>5 DEF CalmInv
<1>4. CASE Event
  <2>1. events \in Nat /\ events' = events + 1 /\ UNCHANGED process
    BY <1>4 DEF Event, CalmInv
  <2>2. events' \in Nat /\ events' # 0
    BY <2>1
  <2>3. CompleteIsRecorded'
    BY <2>2, NotYet
  <2>4. UNCHANGED held
    BY <1>4 DEF Event, Replace, HostFault, hostVars
  <2>5. process = "alive" => UNCHANGED pc
    <3>1. CASE HostFault
      BY <3>1 DEF HostFault, FaultEnds, CalmInv
    <3>2. CASE ~HostFault
      BY <1>4, <3>2 DEF Event, Replace, hostVars
    <3>. QED
      BY <3>1, <3>2
  <2>. QED
    BY <2>1, <2>2, <2>3, <2>4, <2>5 DEF CalmInv
<1>. QED
  BY <1>1, <1>2, <1>3, <1>4 DEF Next

\* A complete report of an undisturbed call is recorded and the call ends with its
\* verdict, a failure only for a critical measurement of an authoritative scene; and
\* what was recorded is verified: whatever the requests and the order of their scenes.
THEOREM UndisturbedVerifies == Spec => []UndisturbedEvidenceVerifies
<1>1. Init => CountInv /\ CalmInv
  <2> SUFFICES ASSUME Init PROVE CountInv /\ CalmInv
    OBVIOUS
  <2>1. views = <<>> /\ client.phase = "none"
    BY DEF Init
  <2>2. CountInv
    BY <2>1 DEF CountInv, CountAt
  <2>3. /\ pc = "loading" /\ process = "none" /\ events = 0
        /\ DOMAIN held = Kept
        /\ disk.packs = 0 /\ disk.proposal = 0 /\ disk.runtime = 0 /\ disk.evidence = 0
    BY DEF Init, Kept
  <2>4. CalmInv
    BY <2>3 DEF CalmInv, Undisturbed, CompleteIsRecorded
  <2>. QED
    BY <2>2, <2>4
<1>2. IInv /\ CountInv /\ CalmInv /\ [Next]_vars => (CountInv /\ CalmInv)'
  BY CountNext, CalmNext
<1>3. CalmInv => CompleteIsRecorded
  BY DEF CalmInv
<1>4. Spec => [](CountInv /\ CalmInv)
  BY <1>1, <1>2, Invariance, PTL DEF Spec
<1>5. Spec => []CompleteIsRecorded
  BY <1>3, <1>4, PTL
<1>6. RecordedIsVerified /\ CompleteIsRecorded => UndisturbedEvidenceVerifies
  BY DEF UndisturbedEvidenceVerifies
<1>. QED
  BY <1>5, <1>6, RecordedEvidenceVerifies, PTL
=============================================================================
