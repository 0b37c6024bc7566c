---------------------------- MODULE VisBinPromise ---------------------------
(***************************************************************************)
(* VisBin implements ActorSwitch, for every set of plugins and blocks and  *)
(* for every client, also one that switches again while a switch runs: a   *)
(* switch is an Ask, the finalize of a run is the Show, and everything     *)
(* else leaves the actor on screen and the one asked for alone.            *)
(***************************************************************************)
EXTENDS VisBinProofs

(* Neither the actors of the bin nor their plugins change. *)
Quiet ==
  /\ bin'.actor = bin.actor
  /\ bin'.actmorph = bin.actmorph
  /\ bin'.morphing = bin.morphing
  /\ \A a \in Actor : actors'[a].name = actors[a].name

LEMMA QuietStutters ==
  ASSUME Owned, Quiet
  PROVE  UNCHANGED <<Shown, Wanted>>
<1>1. bin.actor \in Actor /\ (bin.morphing => bin.actmorph \in Actor)
  BY DEF Owned, TypeOK, BinState, SwitchOwnsItsObjects
<1>2. QED  BY <1>1 DEF Quiet, Shown, Wanted

LEMMA PromiseInit == Init => Promise!Init
<1>. SUFFICES ASSUME Init PROVE Promise!Init
  OBVIOUS
<1>1. PICK n \in Known :
        LET d == ConnectDepth(Supported[n])
            a == Pick(Actor)
        IN
        /\ bin = [actor |-> a, actmorph |-> Null, privvid |-> Null,
                  actmorphvideo |-> Null, morph |-> Null,
                  actmorphmanaged |-> FALSE, morphmanaged |-> FALSE,
                  morphing |-> FALSE, style |-> "MORPH", mode |-> "TIME",
                  depth |-> d, depthold |-> DepthNone, depthchanged |-> FALSE,
                  depthfromGL |-> FALSE, depthforced |-> DepthNone,
                  depthforcedmain |-> d]
        /\ actors = [x \in Actor |->
                      [NewActor(n, ActVideo) EXCEPT
                         !.realized = TRUE,
                         !.transform = Negotiated(Supported[n], d,
                                         IF Managed THEN d ELSE 0, Managed)]]
  BY DEF Init
<1>3. bin.actor \in Actor /\ bin.morphing = FALSE
  BY <1>1, Allocated
<1>4. actors[bin.actor].name = n
  BY <1>1, <1>3 DEF NewActor
<1>5. QED  BY <1>3, <1>4 DEF Promise!Init, Shown, Wanted

(* A switch asks for its actor, whatever else it does to the main one.     *)
LEMMA SwitchAsks ==
  ASSUME Owned, NEW n \in Known, SwitchActorByName(n)
  PROVE  Promise!Ask(n)
<1>. DEFINE sd == SwitchDepths(n)
            target == actors[bin.actor].video
            b1 == IF sd.ask = DepthNone THEN bin ELSE SetDepth(bin, sd.ask)
            a == Pick(Actor \ {bin.actor})
            w == Pick(Video \ {ActVideo, target})
            p == Pick(Video \ {ActVideo, target, w})
<1>1. bin.actor \in Actor /\ a \in Actor /\ a # bin.actor
  <2>1. bin.actor \in Actor
    BY DEF Owned, TypeOK, BinState
  <2>2. QED  BY <2>1, Allocated
<1>2. b1 \in BinState /\ b1.actor = bin.actor
  BY SwitchDepthsType, SetDepthType DEF Owned, TypeOK
<1>3. /\ bin'.actor = b1.actor /\ bin'.actmorph = a /\ bin'.morphing = TRUE
  <2>1. PICK v :
          bin' = [b1 EXCEPT !.depthforced = sd.forced,
                            !.depthforcedmain = sd.main,
                            !.depthchanged = @ \/ sd.ask = DepthGL,
                            !.actmorph = a, !.actmorphvideo = w,
                            !.actmorphmanaged = TRUE,
                            !.privvid = v, !.morphing = TRUE]
    BY DEF SwitchActorByName
  <2>. HIDE DEF b1, a, w
  <2>2. QED  BY <1>2, <2>1 DEF BinState
<1>4. PICK before : 
        LET main == MainBeforeSwitch(n, before) IN
        \/ actors' = [actors EXCEPT ![bin.actor] = main, ![a] = NewActor(n, w)]
        \/ actors' = [actors EXCEPT ![bin.actor] = [main EXCEPT !.video = p],
                                    ![a] = NewActor(n, w)]
  BY DEF SwitchActorByName
<1>. HIDE DEF a, b1, w, p
<1>5. actors[bin.actor] \in ActorState
  BY <1>1 DEF Owned, TypeOK
<1>6. /\ MainBeforeSwitch(n, before).name = actors[bin.actor].name
      /\ [MainBeforeSwitch(n, before) EXCEPT !.video = p].name
           = actors[bin.actor].name
  BY <1>5 DEF MainBeforeSwitch, ActorState
<1>7. NewActor(n, w).name = n
  BY DEF NewActor
<1>8. /\ actors'[bin.actor].name = actors[bin.actor].name
      /\ actors'[a].name = n
  BY <1>1, <1>4, <1>6, <1>7 DEF Owned, TypeOK
<1>9. QED
  BY <1>2, <1>3, <1>8 DEF Promise!Ask, Shown, Wanted

(* The finalize shows the actor of the switch as a whole.                  *)
LEMMA FinalizeShows ==
  ASSUME Owned, bin.morphing, NEW as \in [Actor -> ActorState],
         \A a \in Actor : as[a].name = actors[a].name,
         SwitchFinalize(as)
  PROVE  Promise!Show
<1>. DEFINE new == bin.actmorph
            d == FixDepth(PreferredDepth(Flag(new)))
<1>1. new \in Actor /\ actors[new].name \in Known
  BY DEF Owned, TypeOK, BinState, SwitchOwnsItsObjects, ActorState
<1>2. d \in DepthBit
  BY <1>1, PreferredFits DEF Flag
<1>3. /\ Finalized \in BinState
      /\ Finalized.actor = new /\ Finalized.morphing = FALSE
  <2>1. bin \in BinState  BY DEF Owned, TypeOK
  <2>2. Finalized \in BinState  BY <1>1, <2>1, ZenonT(60) DEF Finalized, BinState
  <2>3. QED  BY <2>1, <2>2 DEF Finalized, BinState
<1>4. /\ SetDepth(Finalized, d) \in BinState
      /\ SetDepth(Finalized, d).actor = new
      /\ SetDepth(Finalized, d).morphing = FALSE
  BY <1>2, <1>3, SetDepthType
<1>5. bin' = [SetDepth(Finalized, d) EXCEPT !.depthforcedmain = d]
  BY DEF SwitchFinalize
<1>6. PICK t : actors' = [as EXCEPT ![new].video = ActVideo,
                                    ![new].transform = t]
  <2>1. actors' = [as EXCEPT
                  ![new].video = ActVideo,
                  ![new].transform = IF [SetDepth(Finalized, d) EXCEPT !.depthforcedmain = d].depthchanged
                                     THEN Negotiated(Flag(new), d, d, TRUE)
                                     ELSE as[new].transform]
    BY <1>1 DEF SwitchFinalize, ActorState
  <2>2. QED  BY <2>1
<1>. HIDE DEF d
<1>7. bin'.actor = new /\ bin'.morphing = FALSE
  BY <1>4, <1>5 DEF BinState
<1>8. actors'[new].name = actors[new].name
  BY <1>1, <1>6 DEF ActorState
<1>9. actors[new].name # Null
  BY <1>1, VisBinAssumption
<1>10. QED
  BY <1>7, <1>8, <1>9 DEF Promise!Show, Shown, Wanted

LEMMA RunPromise ==
  ASSUME Owned, Run
  PROVE  Promise!Show \/ UNCHANGED <<Shown, Wanted>>
<1>1. CASE RunIdle
  <2>1. bin.actor \in Actor /\ actors \in [Actor -> ActorState]
    BY DEF Owned, TypeOK, BinState
  <2>2. \A a \in Actor : actors'[a].name = actors[a].name
    BY <1>1, <2>1 DEF RunIdle, ActorState
  <2>3. Quiet
    BY <1>1, <2>2 DEF RunIdle, Quiet
  <2>4. QED  BY <2>3, QuietStutters
<1>2. ASSUME NEW d \in DepthBit, bin.morphing,
             SwitchFinalize(RealizedActors(d))
      PROVE  Promise!Show
  BY <1>2, RealizedActorsType, FinalizeShows
<1>3. ASSUME NEW d \in DepthBit, RunDirect(d) PROVE Promise!Show
  BY <1>2, <1>3 DEF RunDirect, Switching
<1>4. ASSUME NEW d \in DepthBit, RunWithoutMorph(d) PROVE Promise!Show
  BY <1>2, <1>4 DEF RunWithoutMorph, MorphGuard, Switching
<1>5. ASSUME NEW d \in DepthBit, NEW late \in BOOLEAN, RunMorphDone(d, late)
      PROVE  Promise!Show
  BY <1>2, <1>5 DEF RunMorphDone, MorphRuns, MorphGuard, Switching
<1>6. ASSUME NEW d \in DepthBit, RunGoesOn(d)
      PROVE  UNCHANGED <<Shown, Wanted>>
  <2>1. bin.morphing /\ actors' = RealizedActors(d) /\ UNCHANGED bin
    BY <1>6 DEF RunGoesOn, MorphRuns, MorphGuard, Switching
  <2>2. Quiet  BY <2>1, RealizedActorsType DEF Quiet
  <2>3. QED  BY <2>2, QuietStutters
<1>7. ASSUME NEW d \in DepthBit, RunBroken(d)
      PROVE  UNCHANGED <<Shown, Wanted>>
  BY <1>7 DEF RunBroken, Shown, Wanted
<1>8. QED  BY <1>1, <1>3, <1>4, <1>5, <1>6, <1>7 DEF Run

LEMMA ClientSyncQuiet ==
  ASSUME Owned, ClientSync
  PROVE  Quiet
<1>. DEFINE vs1 == [videos EXCEPT ![ActVideo] = bin.depth]
            vs2 == IF SyncsMorph THEN [vs1 EXCEPT ![bin.privvid] = bin.depth] ELSE vs1
            vs3 == IF bin.morphing /\ bin.style = "MORPH"
                   THEN [vs2 EXCEPT ![bin.actmorphvideo] = vs2[SyncTarget]] ELSE vs2
            main == [actors[bin.actor] EXCEPT
                       !.video = SyncTarget,
                       !.transform = Negotiated(Flag(bin.actor), vs2[SyncTarget],
                         IF Managed THEN bin.depthforcedmain ELSE 0,
                         Managed \/ bin.depthold = DepthGL)]
            sub == Negotiated(Flag(bin.actmorph), vs3[bin.actmorphvideo],
                              bin.depthforced, TRUE)
<1>1. bin' = [bin EXCEPT !.depthchanged = FALSE]
  BY DEF ClientSync
<1>2. /\ bin'.actor = bin.actor /\ bin'.actmorph = bin.actmorph
      /\ bin'.morphing = bin.morphing
  BY <1>1 DEF Owned, TypeOK, BinState
<1>3. /\ bin.actor \in Actor /\ actors \in [Actor -> ActorState]
      /\ bin.morphing => bin.actmorph \in Actor /\ bin.actmorph # bin.actor
  BY DEF Owned, TypeOK, BinState, SwitchOwnsItsObjects
<1>4. main.name = actors[bin.actor].name
  BY <1>3 DEF ActorState
<1>5. CASE SyncFails
  BY <1>2, <1>5 DEF ClientSync, Quiet
<1>6. CASE ~SyncFails /\ ~(bin.morphing /\ bin.style = "MORPH")
  <2>1. actors' = [actors EXCEPT ![bin.actor] = main]
    BY <1>6 DEF ClientSync
  <2>. HIDE DEF main
  <2>2. QED  BY <1>2, <1>3, <1>4, <2>1 DEF Quiet
<1>7. CASE ~SyncFails /\ bin.morphing /\ bin.style = "MORPH"
  <2>1. actors' = [actors EXCEPT ![bin.actor] = main,
                                 ![bin.actmorph].realized = TRUE,
                                 ![bin.actmorph].transform = sub]
    BY <1>7 DEF ClientSync
  <2>. HIDE DEF main, sub
  <2>2. QED  BY <1>2, <1>3, <1>4, <1>7, <2>1 DEF Quiet, ActorState
<1>8. QED  BY <1>5, <1>6, <1>7

LEMMA PromiseStep ==
  ASSUME Owned, [Next]_vars
  PROVE  [Promise!Next]_<<Shown, Wanted>>
<1>1. CASE Run
  BY <1>1, RunPromise DEF Promise!Next
<1>2. CASE Switch
  <2>1. ASSUME NEW n \in Known, SwitchActorByName(n)
        PROVE  Promise!Next
    BY <2>1, SwitchAsks DEF Promise!Next
  <2>2. ASSUME NEW n \in ActorName, SwitchUnknownActor(n)
        PROVE  UNCHANGED <<Shown, Wanted>>
    BY <2>2 DEF SwitchUnknownActor, Shown, Wanted
  <2>3. QED  BY <1>2, <2>1, <2>2 DEF Switch
<1>3. CASE Client
  <2>1. /\ UNCHANGED actors
        /\ bin'.actor = bin.actor /\ bin'.actmorph = bin.actmorph
        /\ bin'.morphing = bin.morphing
    BY <1>3 DEF Client, SetMorphByName, SetStyle, SetMode, Owned, TypeOK,
                BinState
  <2>2. QED  BY <2>1, QuietStutters DEF Quiet
<1>4. CASE ClientSync
  BY <1>4, ClientSyncQuiet, QuietStutters
<1>5. CASE SyncBroken
  BY <1>5 DEF SyncBroken, Shown, Wanted
<1>6. CASE UNCHANGED vars
  BY <1>6 DEF vars, Shown, Wanted
<1>7. QED
  BY <1>1, <1>2, <1>3, <1>4, <1>5, <1>6 DEF Next

(* visual_bin_switch_actor_by_name and visual_bin_switch_finalize keep the *)
(* promise of ActorSwitch: the actor of a switch takes over as a whole, it *)
(* is the last one asked for, and nothing else changes what is shown.      *)
THEOREM Promised == Spec => KeepsPromise
<1>1. Owned /\ [Next]_vars => [Promise!Next]_<<Shown, Wanted>>
  BY PromiseStep
<1>2. QED
  BY <1>1, PromiseInit, OwnedAlways, PTL DEF Spec, KeepsPromise, Promise!Spec
=============================================================================
