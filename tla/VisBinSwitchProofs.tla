------------------------- MODULE VisBinSwitchProofs -------------------------
(***************************************************************************)
(* What a client gets that lets a switch end before it starts the next     *)
(* (Eager = FALSE), for every set of plugins and of blocks: memory, morphs *)
(* and surfaces are right through every switch.  That the depths agree is  *)
(* VisBinProofs, for every client, and used here.                          *)
(*                                                                         *)
(* A running switch takes one of two paths.  It morphs when the style is   *)
(* MORPH and the depth of the bin is not OpenGL, and then the main actor   *)
(* draws on the private video; otherwise it skips to the next run, and the *)
(* main actor stays on the client's video.  Which of the two is decided by *)
(* the switch, and every sync and run decides it again from other fields:  *)
(* that they come to the same answer is what Paths says.                   *)
(***************************************************************************)
EXTENDS VisBinProofs

Memory ==
  /\ PointersLive
  /\ NothingLost
  /\ ub = {}

Morphs == bin.morphing /\ bin.style = "MORPH" /\ bin.depth # DepthGL
Skips == bin.morphing /\ ~(bin.style = "MORPH" /\ bin.depth # DepthGL)

Paths ==
  /\ Morphs =>
       /\ bin.privvid # Null
       /\ Main.video = bin.privvid
       /\ videos[bin.privvid] = bin.depth
       /\ videos[bin.actmorphvideo] = bin.depth
       /\ ~bin.depthfromGL
       /\ HasMorph(morphs) => /\ morphs[bin.morph].dest # Null
                              /\ morphs[bin.morph].mode # "SET"
  /\ Skips => Main.video = ActVideo

Fit == Owned /\ Memory /\ Agree /\ Paths

(* The surface that the actor draws on for a video of that depth is one    *)
(* its plugin supports.                                                    *)
Ready(act, depth) ==
  (IF act.transform.made THEN act.transform.depth ELSE depth)
     \in Supported[act.name]

Negotiations ==
  /\ Main.realized
  /\ bin.morphing =>
       /\ bin.depthforced \in Supported[New.name]
       /\ New.realized => Ready(New, videos[bin.actmorphvideo])
  /\ Morphs =>
       /\ bin.depthforcedmain \in Supported[Main.name]
       /\ ~bin.depthchanged => Ready(Main, bin.depth)
  /\ ~bin.morphing => /\ Ready(Main, bin.depth)
                      /\ bin.depthforcedmain = bin.depth

-----------------------------------------------------------------------------
(* Helpers *)

(* A negotiation that forces a supported depth makes the actor ready.      *)
LEMMA ForcedReady ==
  ASSUME NEW flag \in DepthFlag, NEW v, NEW r \in flag
  PROVE  (IF Negotiated(flag, v, r, TRUE).made
          THEN Negotiated(flag, v, r, TRUE).depth ELSE v) \in flag
BY DEF Negotiated, DepthIsSupported

LEMMA DrawReady ==
  ASSUME NEW act \in ActorState, NEW v, Ready(act, v)
  PROVE  /\ Draw(act, v).name = act.name
         /\ Draw(act, v).depth \in Supported[act.name]
BY DEF Draw, Ready, ActorState, Transform

-----------------------------------------------------------------------------
(* The first state, and the client's calls that leave a switch alone *)

LEMMA FitInit ==
  ASSUME Init
  PROVE  Fit /\ (Managed => Negotiations) /\ drawn = {}
<1>1. PICK n \in Known :
        LET d == ConnectDepth(Supported[n])
            a == Pick(Actor)
        IN
        /\ bin = [actor |-> a, actmorph |-> Null, privvid |-> Null,
                  actmorphvideo |-> Null, morph |-> Null,
                  actmorphmanaged |-> FALSE, morphmanaged |-> FALSE,
                  morphing |-> FALSE, style |-> "MORPH", mode |-> "TIME",
                  depth |-> d, depthold |-> DepthNone, depthchanged |-> FALSE,
                  depthfromGL |-> FALSE, depthforced |-> DepthNone,
                  depthforcedmain |-> d]
        /\ actors = [x \in Actor |->
                      [NewActor(n, ActVideo) EXCEPT
                         !.realized = TRUE,
                         !.transform = Negotiated(Supported[n], d,
                                         IF Managed THEN d ELSE 0, Managed)]]
        /\ videos = [v \in Video |-> d]
        /\ morphs = [m \in Morph |-> NewMorph(TRUE)]
        /\ live = {a, ActVideo}
        /\ drawn = {}
        /\ ub = {}
  BY DEF Init
<1>. DEFINE d == ConnectDepth(Supported[n])
            t == Negotiated(Supported[n], d, IF Managed THEN d ELSE 0, Managed)
<1>2. d \in Supported[n] /\ d \in BinDepth
  <2>1. Supported[n] # {}
    BY VisBinAssumption DEF Known
  <2>2. CASE Supported[n] = {DepthGL}
    BY <2>2, KnownFacts DEF ConnectDepth
  <2>3. CASE Supported[n] # {DepthGL}
    BY <2>3, KnownFacts DEF ConnectDepth
  <2>4. QED  BY <2>2, <2>3
<1>3. Managed => (IF t.made THEN t.depth ELSE d) \in Supported[n]
  BY <1>2, VisBinAssumption, KnownFacts, ForcedReady
<1>. HIDE DEF d, t
<1>4. /\ bin.actor = Pick(Actor) /\ bin.actor \in Actor
      /\ bin.actmorph = Null /\ bin.privvid = Null
      /\ bin.actmorphvideo = Null /\ bin.morph = Null
      /\ bin.morphing = FALSE /\ bin.depth = d /\ bin.depthforcedmain = d
  BY <1>1, Allocated DEF d
<1>5. /\ Main.name = n /\ Main.video = ActVideo /\ Main.realized = TRUE
      /\ Main.transform = t
  BY <1>1, <1>4 DEF Main, NewActor, d, t
<1>6. Memory
  BY <1>1, <1>4, <1>5, Kinds DEF Memory, PointersLive, NothingLost, Reachable, Main
<1>7. Agree
  BY DepthsInit DEF Depths
<1>8. Paths
  BY <1>4 DEF Paths, Morphs, Skips
<1>9. Managed => Negotiations
  BY <1>3, <1>4, <1>5 DEF Negotiations, Ready, Morphs
<1>10. QED
  BY <1>1, <1>6, <1>7, <1>8, <1>9, OwnedInit DEF Fit

LEMMA SetMorphByNameFit ==
  ASSUME ~Eager, Fit, NEW loaded \in BOOLEAN, SetMorphByName(loaded)
  PROVE  Memory' /\ Paths' /\ (Negotiations => Negotiations')
<1>. DEFINE new == IF ~loaded \/ DepthIsSupported(MorphDepth, videos[ActVideo])
                   THEN Pick(Morph) ELSE Null
<1>1. new \in Morph \cup {Null} /\ ~bin.morphing
  BY Allocated DEF SetMorphByName
<1>2. /\ bin' = [bin EXCEPT !.morph = new, !.morphmanaged = TRUE]
      /\ live' = (live \ {bin.morph}) \cup ({new} \ {Null})
      /\ UNCHANGED <<actors, videos, drawn, ub>>
  <2>1. Pick(Morph) # Null
    BY Allocated, Kinds
  <2>2. QED  BY <2>1 DEF SetMorphByName
<1>. HIDE DEF new
<1>3. /\ bin \in BinState /\ bin.actor \in Actor
      /\ bin.actmorph = Null /\ bin.actmorphvideo = Null /\ bin.privvid = Null
      /\ bin.morph \in Morph \cup {Null}
  BY <1>1, OwnedFacts DEF Fit
<1>4. /\ bin'.actor = bin.actor /\ bin'.morphing = FALSE /\ bin'.morph = new
      /\ bin'.actmorph = Null /\ bin'.actmorphvideo = Null
      /\ bin'.privvid = Null /\ bin'.depth = bin.depth
      /\ bin'.depthforcedmain = bin.depthforcedmain
  BY <1>1, <1>2, <1>3, OwnedFacts DEF BinState, Fit
<1>5. Reachable = {bin.actor, bin.morph, ActVideo} \ {Null}
  BY <1>3 DEF Reachable
<1>6. Reachable' = {bin.actor, new, ActVideo} \ {Null}
  BY <1>4 DEF Reachable
<1>7. bin.actor \notin Morph \cup {Null} /\ ActVideo \notin Morph \cup {Null}
  BY <1>3, Kinds
<1>8. Reachable \subseteq live /\ (Managed => live = Reachable)
  BY DEF Fit, Memory, PointersLive, NothingLost
<1>9. Main.video = ActVideo
  BY <1>1 DEF Fit, Agree
<1>10. PointersLive'
  <2>1. Reachable' \subseteq live'
    BY <1>1, <1>2, <1>3, <1>5, <1>6, <1>7, <1>8
  <2>2. ActVideo \in Reachable'
    BY <1>6, <1>7
  <2>3. actors'[bin'.actor].video = ActVideo
    BY <1>2, <1>4, <1>9 DEF Main
  <2>4. QED  BY <2>1, <2>2, <2>3 DEF PointersLive
<1>11. NothingLost'
  BY <1>1, <1>2, <1>3, <1>5, <1>6, <1>7, <1>8 DEF NothingLost
<1>12. Memory'
  BY <1>2, <1>10, <1>11 DEF Memory, Fit
<1>13. Main' = Main
  BY <1>2, <1>4 DEF Main
<1>14. QED
  BY <1>1, <1>2, <1>4, <1>12, <1>13
     DEF Fit, Agree, Paths, Morphs, Skips, Negotiations, Ready

LEMMA SettingsFit ==
  ASSUME ~Eager, Fit, \/ \E s \in Styles : SetStyle(s)
                      \/ \E m \in Modes : SetMode(m)
  PROVE  Memory' /\ Paths' /\ (Negotiations => Negotiations')
<1>1. UNCHANGED <<actors, videos, morphs, live, drawn, ub>>
  BY DEF SetStyle, SetMode
<1>2. /\ bin'.actor = bin.actor /\ bin'.actmorph = bin.actmorph
      /\ bin'.privvid = bin.privvid /\ bin'.actmorphvideo = bin.actmorphvideo
      /\ bin'.morph = bin.morph /\ bin'.morphing = bin.morphing
      /\ bin'.depth = bin.depth /\ bin'.depthfromGL = bin.depthfromGL
      /\ bin'.depthchanged = bin.depthchanged
      /\ bin'.depthforced = bin.depthforced
      /\ bin'.depthforcedmain = bin.depthforcedmain
      /\ bin.morphing => bin'.style = bin.style
  BY OwnedFacts DEF SetStyle, SetMode, Fit, BinState
<1>3. Reachable' = Reachable /\ Main' = Main /\ New' = New
  BY <1>1, <1>2 DEF Reachable, Main, New
<1>4. Memory'
  BY <1>1, <1>2, <1>3 DEF Fit, Memory, PointersLive, NothingLost
<1>5. QED
  BY <1>1, <1>2, <1>3, <1>4
     DEF Fit, Agree, Paths, Morphs, Skips, HasMorph, Negotiations, Ready

LEMMA SwitchUnknownActorFit ==
  ASSUME ~Eager, Fit, NEW n \in ActorName, SwitchUnknownActor(n)
  PROVE  UNCHANGED vars
<1>1. ~bin.morphing /\ bin.actmorph = Null
  BY OwnedFacts DEF SwitchUnknownActor, Fit
<1>2. Released = {}
  BY <1>1 DEF Released
<1>3. QED  BY <1>2 DEF SwitchUnknownActor, vars

-----------------------------------------------------------------------------
(* visual_bin_switch_finalize: what it frees is what it stops pointing to. *)

LEMMA FinalizeFit ==
  ASSUME Fit, bin.morphing, NEW as \in [Actor -> ActorState],
         \A a \in Actor : as[a].name = actors[a].name,
         SwitchFinalize(as)
  PROVE  /\ Memory' /\ Paths'
         /\ (/\ as[bin.actmorph].realized
             /\ Ready(as[bin.actmorph], videos[bin.actmorphvideo]))
            => Negotiations'
<1>. DEFINE new == bin.actmorph
            d == FixDepth(PreferredDepth(Flag(new)))
            b1 == Finalized
            b2 == SetDepth(b1, d)
            after == [b2 EXCEPT !.depthforcedmain = d]
            flag == Supported[actors[new].name]
<1>1. /\ bin \in BinState /\ bin.actor \in Actor
      /\ new \in Actor /\ new # bin.actor /\ actors[new].name \in Known
      /\ bin.actmorphvideo \in Video \ {ActVideo, bin.privvid}
      /\ bin.privvid \in (Video \ {ActVideo}) \cup {Null}
      /\ bin.morph \in Morph \cup {Null}
      /\ bin.actmorphmanaged
  BY OwnedFacts DEF Fit, New
<1>2. d \in flag /\ d \in BinDepth /\ d \in DepthBit
  BY <1>1, KnownFacts DEF Flag
<1>. HIDE DEF d
<1>3. b1 \in BinState
  BY <1>1, ZenonT(60) DEF Finalized, BinState
<1>4. /\ b1.actor = new /\ b1.actmorph = Null /\ b1.actmorphvideo = Null
      /\ b1.privvid = Null /\ b1.morphing = FALSE
      /\ b1.morph = IF bin.morphmanaged THEN Null ELSE bin.morph
  BY <1>1 DEF Finalized, BinState
<1>5. /\ b2 \in BinState
      /\ b2.actor = new /\ b2.actmorph = Null /\ b2.actmorphvideo = Null
      /\ b2.privvid = Null /\ b2.morphing = FALSE /\ b2.morph = b1.morph
      /\ b2.depth = d
  BY <1>2, <1>3, <1>4, SetDepthType, SetDepthFacts
<1>. HIDE DEF b1, b2
<1>6. /\ after.actor = new /\ after.actmorph = Null
      /\ after.actmorphvideo = Null /\ after.privvid = Null
      /\ after.morphing = FALSE /\ after.morph = b1.morph
      /\ after.depth = d /\ after.depthforcedmain = d
  BY <1>5 DEF BinState
<1>7. /\ bin' = after /\ videos' = [videos EXCEPT ![ActVideo] = d]
      /\ live' = live \ FinalizeFrees
  BY DEF SwitchFinalize, d, b1, b2
<1>8. actors' = [as EXCEPT ![new].video = ActVideo,
                           ![new].transform = IF after.depthchanged
                                     THEN Negotiated(Flag(new), d, d, TRUE)
                                     ELSE @]
  BY DEF SwitchFinalize, d, b1, b2
<1>. HIDE DEF after
<1>9. /\ Main'.video = ActVideo /\ Main'.name = actors[new].name
      /\ Main'.realized = as[new].realized
      /\ Main'.transform = IF after.depthchanged
                           THEN Negotiated(Flag(new), d, d, TRUE)
                           ELSE as[new].transform
  BY <1>1, <1>6, <1>7, <1>8 DEF Main, ActorState
<1>10. Reachable = {bin.actor, new, bin.privvid, bin.actmorphvideo, bin.morph,
                    ActVideo} \ {Null}
  BY DEF Reachable
<1>11. Reachable' = {new, b1.morph, ActVideo} \ {Null}
  BY <1>6, <1>7 DEF Reachable
<1>12. FinalizeFrees \subseteq Reachable
  BY <1>1, <1>10, Kinds DEF FinalizeFrees
<1>13. Reachable' = Reachable \ (FinalizeFrees \cup {bin.actor})
  BY <1>1, <1>4, <1>10, <1>11, Kinds DEF FinalizeFrees
<1>14. Reachable \subseteq live /\ (Managed => live = Reachable) /\ ub = {}
  BY DEF Fit, Memory, PointersLive, NothingLost
<1>15. Memory'
  <2>1. ub' = {}
    BY <1>12, <1>14 DEF SwitchFinalize
  <2>2. Reachable' \subseteq live'
    BY <1>7, <1>13, <1>14
  <2>3. Managed => bin.actor \in FinalizeFrees
    BY <1>1, Kinds DEF FinalizeFrees
  <2>4. Managed => live' = Reachable'
    BY <1>7, <1>13, <1>14, <2>3
  <2>5. ActVideo \in Reachable'
    BY <1>11, Kinds
  <2>6. actors'[bin'.actor].video = ActVideo
    BY <1>9 DEF Main
  <2>7. QED  BY <2>1, <2>2, <2>4, <2>5, <2>6 DEF Memory, PointersLive, NothingLost
<1>16. Paths'
  BY <1>6, <1>7 DEF Paths, Morphs, Skips
<1>17. ASSUME as[new].realized, Ready(as[new], videos[bin.actmorphvideo])
       PROVE  Negotiations'
  <2>1. as[new].name = actors[new].name
    BY <1>1
  <2>2. Ready(Main', d)
    <3>1. CASE after.depthchanged
      <4>1. Main'.transform = Negotiated(flag, d, d, TRUE)
        BY <1>9, <3>1 DEF Flag
      <4>2. flag \in DepthFlag
        BY <1>1, KnownFacts
      <4>3. (IF Negotiated(flag, d, d, TRUE).made
             THEN Negotiated(flag, d, d, TRUE).depth ELSE d) \in flag
        BY <1>2, <4>2, ForcedReady
      <4>4. QED  BY <1>9, <4>1, <4>3 DEF Ready
    <3>2. CASE ~after.depthchanged
      BY <1>2, <1>9, <1>17, <2>1, <3>2 DEF Ready
    <3>3. QED  BY <3>1, <3>2
  <2>3. QED
    BY <1>6, <1>7, <1>9, <1>17, <2>2 DEF Negotiations, Morphs
<1>18. QED  BY <1>15, <1>16, <1>17

-----------------------------------------------------------------------------
(* visual_bin_run *)

(* What a run reads as the depth of the main actor's video, and which path *)
(* it takes for it: it morphs only when the switch was set up to morph.    *)
LEMMA RunReads ==
  ASSUME Fit, NEW d \in DepthBit, Switching(d)
  PROVE  /\ bin.actmorph \in live
         /\ MorphGuard(d) => Morphs /\ d = bin.depth /\ ~WaitsForGL
<1>1. /\ bin.morphing /\ ~bin.depthchanged
      /\ d \in Read(Main.video, videos, live)
  BY DEF Switching, Main
<1>2. Main.video \in live /\ bin.actmorph \in live
  <2>1. bin.actmorph # Null
    BY <1>1, OwnedFacts, Kinds DEF Fit
  <2>2. QED  BY <2>1 DEF Fit, Memory, PointersLive, Reachable, Main
<1>3. d = videos[Main.video]
  BY <1>1, <1>2 DEF Read
<1>4. ASSUME MorphGuard(d) PROVE Morphs
  <2>1. bin.style = "MORPH" /\ d # DepthGL
    BY <1>4 DEF MorphGuard
  <2>2. CASE bin.depth = DepthGL
    <3>1. Main.video = ActVideo
      BY <1>1, <2>2 DEF Fit, Paths, Skips
    <3>2. QED  BY <1>3, <2>1, <2>2, <3>1 DEF Fit, Agree
  <2>3. QED  BY <1>1, <2>1, <2>2 DEF Morphs
<1>5. ASSUME Morphs PROVE d = bin.depth /\ ~WaitsForGL
  BY <1>3, <1>5 DEF Fit, Paths, Morphs, WaitsForGL
<1>6. QED  BY <1>2, <1>4, <1>5

(* A run realizes the new actor with the depth that the switch forced, and *)
(* leaves the main one, which is realized.                                 *)
LEMMA RealizedReady ==
  ASSUME Fit, Negotiations, bin.morphing, NEW d \in DepthBit
  PROVE  /\ RealizedActors(d)[bin.actor] = Main
         /\ RealizedActors(d)[bin.actmorph].realized
         /\ Ready(RealizedActors(d)[bin.actmorph], videos[bin.actmorphvideo])
<1>. DEFINE v == videos[bin.actmorphvideo]
            t == Negotiated(Flag(bin.actmorph), v, bin.depthforced, TRUE)
            new == IF New.realized THEN New
                   ELSE [New EXCEPT !.realized = TRUE, !.transform = t]
<1>1. /\ bin.actor \in Actor /\ bin.actmorph \in Actor
      /\ bin.actmorph # bin.actor
      /\ Main \in ActorState /\ New \in ActorState
      /\ New.name \in Known
      /\ actors \in [Actor -> ActorState]
  BY OwnedFacts DEF Fit, Owned, TypeOK
<1>2. Main.realized /\ bin.depthforced \in Supported[New.name]
  BY DEF Negotiations
<1>3. RealizedActors(d) = [actors EXCEPT ![bin.actmorph] = new,
                                         ![bin.actor] = Main]
  BY <1>2 DEF RealizedActors, New, Main
<1>4. Supported[New.name] \in DepthFlag
  BY <1>1, KnownFacts
<1>5. (IF t.made THEN t.depth ELSE v) \in Supported[New.name]
  BY <1>2, <1>4, ForcedReady DEF Flag, New
<1>6. New.realized => Ready(New, v)
  BY DEF Negotiations
<1>. HIDE DEF t, v
<1>7. new.realized /\ Ready(new, v)
  BY <1>1, <1>5, <1>6 DEF Ready, ActorState
<1>. HIDE DEF new
<1>8. QED  BY <1>1, <1>3, <1>7 DEF v

(* A run that leaves the switch running changes nothing of it but that the *)
(* actors are realized, and what it draws is supported.                    *)
LEMMA RunGoesOnFit ==
  ASSUME Fit, NEW d \in DepthBit, RunGoesOn(d)
  PROVE  /\ Memory' /\ Paths'
         /\ MorphRuns(d) /\ Morphs
         /\ Negotiations => Negotiations' /\ DrawsSupportedDepth'
<1>. DEFINE as == RealizedActors(d)
<1>1. /\ Switching(d) /\ bin.morphing /\ ~bin.depthchanged
      /\ actors' = as /\ UNCHANGED <<bin, videos, live, ub>>
  BY DEF RunGoesOn, MorphRuns, MorphGuard, Switching
<1>2. /\ MorphRuns(d) /\ Morphs /\ d = bin.depth
      /\ DrawBoth(as, d)
      /\ morphs' = [morphs EXCEPT ![bin.morph] = MorphRun(@, FALSE)]
  BY <1>1, RunReads DEF RunGoesOn, MorphRuns
<1>3. /\ bin.actor \in Actor /\ bin.actmorph \in Actor
      /\ bin.actmorph # bin.actor
      /\ Main.name \in Known /\ New.name \in Known
  BY <1>1, OwnedFacts DEF Fit
<1>4. /\ as \in [Actor -> ActorState]
      /\ \A a \in Actor : as[a].name = actors[a].name
                          /\ as[a].video = actors[a].video
  BY <1>1, RealizedActorsType DEF Fit
<1>. HIDE DEF as
<1>5. Main'.name = Main.name /\ Main'.video = Main.video
  BY <1>1, <1>3, <1>4 DEF Main
<1>6. Memory'
  <2>1. Reachable' = Reachable
    BY <1>1 DEF Reachable
  <2>2. QED
    BY <1>1, <1>5, <2>1 DEF Fit, Memory, PointersLive, NothingLost, Main
<1>7. Paths'
  <2>1. HasMorph(morphs) => bin.morph \in Morph
    BY OwnedFacts DEF Fit, HasMorph
  <2>2. HasMorph(morphs) =>
          /\ morphs'[bin.morph].dest = morphs[bin.morph].dest
          /\ morphs'[bin.morph].mode = morphs[bin.morph].mode
    BY <1>2, <2>1 DEF Fit, Owned, TypeOK, MorphState, MorphRun
  <2>3. HasMorph(morphs)
    BY <1>2 DEF MorphRuns
  <2>4. QED
    BY <1>1, <1>2, <1>5, <2>2, <2>3 DEF Fit, Paths, Morphs, Skips
<1>8. ASSUME Negotiations
      PROVE  Negotiations' /\ DrawsSupportedDepth'
  <2>1. /\ as[bin.actor] = Main
        /\ as[bin.actmorph].realized
        /\ Ready(as[bin.actmorph], videos[bin.actmorphvideo])
    BY <1>1, <1>8, RealizedReady DEF as
  <2>2. Main' = Main /\ New' = as[bin.actmorph]
    BY <1>1, <2>1 DEF Main, New
  <2>3. New'.name = New.name
    BY <1>3, <1>4, <2>2 DEF New
  <2>4. Negotiations'
    BY <1>1, <1>8, <2>1, <2>2, <2>3 DEF Negotiations, Morphs, Ready
  <2>5. Ready(Main, d)
    BY <1>1, <1>2, <1>8 DEF Negotiations
  <2>6. /\ as[bin.actor] \in ActorState
        /\ as[bin.actmorph] \in ActorState
    BY <1>3, <1>4
  <2>7. \A x \in {Draw(as[bin.actor], d),
                  Draw(as[bin.actmorph], videos[bin.actmorphvideo])} :
          x.depth \in Supported[x.name]
    BY <2>1, <2>5, <2>6, DrawReady
  <2>8. QED  BY <1>2, <2>4, <2>7 DEF DrawBoth, DrawsSupportedDepth
<1>9. QED  BY <1>2, <1>6, <1>7, <1>8

LEMMA RunFit ==
  ASSUME Fit, Run
  PROVE  /\ Memory' /\ Paths'
         /\ Negotiations => Negotiations' /\ DrawsSupportedDepth'
<1>1. CASE RunIdle
  <2>1. /\ bin.actor \in Actor /\ Main \in ActorState /\ ~bin.morphing
        /\ actors \in [Actor -> ActorState]
    BY <1>1, OwnedFacts DEF RunIdle, Fit, Owned, TypeOK
  <2>2. /\ Main' = [Main EXCEPT !.realized = TRUE]
        /\ UNCHANGED <<bin, videos, morphs, live, ub>>
    BY <1>1, <2>1 DEF RunIdle, Main
  <2>3. Main'.name = Main.name /\ Main'.video = Main.video
        /\ Main'.transform = Main.transform /\ Main'.realized
    BY <2>1, <2>2 DEF ActorState
  <2>4. Reachable' = Reachable
    BY <2>2 DEF Reachable
  <2>5. Memory' /\ Paths'
    BY <2>1, <2>2, <2>3, <2>4
       DEF Fit, Memory, PointersLive, NothingLost, Agree, Paths, Morphs,
           Skips, Main
  <2>6. ASSUME Negotiations PROVE Negotiations' /\ DrawsSupportedDepth'
    <3>1. Ready(Main, bin.depth) /\ videos[Main.video] = bin.depth
      BY <2>1, <2>6 DEF Negotiations, Fit, Agree
    <3>2. drawn' = {Draw(Main, bin.depth)}
      BY <1>1, <3>1 DEF RunIdle, Main
    <3>3. DrawsSupportedDepth'
      BY <2>1, <3>1, <3>2, DrawReady DEF DrawsSupportedDepth
    <3>4. Negotiations'
      BY <2>1, <2>2, <2>3, <2>6 DEF Negotiations, Morphs, Ready
    <3>5. QED  BY <3>3, <3>4
  <2>7. QED  BY <2>5, <2>6
<1>2. ASSUME NEW d \in DepthBit, bin.morphing,
             SwitchFinalize(RealizedActors(d))
      PROVE  Memory' /\ Paths' /\ (Negotiations => Negotiations')
  <2>1. /\ RealizedActors(d) \in [Actor -> ActorState]
        /\ \A a \in Actor : RealizedActors(d)[a].name = actors[a].name
    BY <1>2, RealizedActorsType DEF Fit
  <2>2. Negotiations =>
          /\ RealizedActors(d)[bin.actmorph].realized
          /\ Ready(RealizedActors(d)[bin.actmorph], videos[bin.actmorphvideo])
    BY <1>2, RealizedReady
  <2>3. QED  BY <1>2, <2>1, <2>2, FinalizeFit
<1>3. ASSUME NEW d \in DepthBit, bin.morphing, Negotiations,
             MorphGuard(d), DrawBoth(RealizedActors(d), d)
      PROVE  DrawsSupportedDepth'
  <2>. DEFINE as == RealizedActors(d)
  <2>1. /\ Switching(d) /\ Morphs /\ d = bin.depth /\ ~bin.depthchanged
    BY <1>3, RunReads DEF MorphGuard, Switching
  <2>2. /\ as[bin.actor] = Main
        /\ Ready(as[bin.actmorph], videos[bin.actmorphvideo])
    BY <1>3, RealizedReady
  <2>3. Ready(Main, d)
    BY <1>3, <2>1 DEF Negotiations
  <2>4. Ready(as[bin.actor], d)
    BY <2>2, <2>3
  <2>5. as[bin.actor] \in ActorState /\ as[bin.actmorph] \in ActorState
    BY <1>3, RealizedActorsType, OwnedFacts DEF Fit
  <2>. HIDE DEF as
  <2>6. \A x \in {Draw(as[bin.actor], d),
                  Draw(as[bin.actmorph], videos[bin.actmorphvideo])} :
          x.depth \in Supported[x.name]
    <3>1. Draw(as[bin.actor], d).name = as[bin.actor].name
          /\ Draw(as[bin.actor], d).depth \in Supported[as[bin.actor].name]
      BY <2>5, <2>4, DrawReady
    <3>2. /\ Draw(as[bin.actmorph], videos[bin.actmorphvideo]).name
               = as[bin.actmorph].name
          /\ Draw(as[bin.actmorph], videos[bin.actmorphvideo]).depth
               \in Supported[as[bin.actmorph].name]
      BY <2>2, <2>5, DrawReady
    <3>3. QED  BY <3>1, <3>2
  <2>7. QED  BY <1>3, <2>6 DEF DrawBoth, DrawsSupportedDepth, as
<1>4. ASSUME NEW d \in DepthBit, RunDirect(d)
      PROVE  /\ Memory' /\ Paths'
             /\ Negotiations => Negotiations' /\ DrawsSupportedDepth'
  <2>1. /\ bin.morphing /\ SwitchFinalize(RealizedActors(d)) /\ drawn' = {}
    BY <1>4 DEF RunDirect, Switching
  <2>2. QED  BY <1>2, <2>1 DEF DrawsSupportedDepth
<1>5. ASSUME NEW d \in DepthBit,
             RunWithoutMorph(d) \/ \E late \in BOOLEAN : RunMorphDone(d, late)
      PROVE  /\ Memory' /\ Paths'
             /\ Negotiations => Negotiations' /\ DrawsSupportedDepth'
  <2>1. /\ bin.morphing /\ MorphGuard(d)
        /\ SwitchFinalize(RealizedActors(d))
        /\ DrawBoth(RealizedActors(d), d)
    BY <1>5 DEF RunWithoutMorph, RunMorphDone, MorphRuns, MorphGuard, Switching
  <2>2. QED  BY <1>2, <1>3, <2>1
<1>6. ASSUME NEW d \in DepthBit, RunBroken(d) PROVE FALSE
  <2>1. Switching(d) /\ bin.actmorph \in live
    BY <1>6, RunReads DEF RunBroken
  <2>2. MorphGuard(d) /\ HasMorph(morphs) /\ morphs[bin.morph].dest = Null
    BY <1>6, <2>1 DEF RunBroken
  <2>3. QED  BY <2>1, <2>2, RunReads DEF Fit, Paths
<1>7. QED
  BY <1>1, <1>4, <1>5, <1>6, RunGoesOnFit DEF Run

-----------------------------------------------------------------------------
(* visual_bin_sync: it comes to the path that the switch has taken. *)

LEMMA SyncPath ==
  ASSUME Fit
  PROVE  /\ SyncsMorph <=> Morphs
         /\ ~SyncFails
         /\ SyncTarget = Main.video
         /\ videos[SyncTarget] = bin.depth
         /\ SyncReadsNew => bin.actmorph \in live
<1>1. SyncsMorph <=> Morphs
  BY DEF SyncsMorph, Morphs, Fit, Paths
<1>2. ~SyncFails
  BY <1>1 DEF SyncFails, Fit, Paths
<1>3. SyncTarget = Main.video
  <2>1. CASE Morphs
    BY <1>1, <2>1 DEF SyncTarget, Fit, Paths, Morphs
  <2>2. CASE ~Morphs
    BY <1>1, <2>2 DEF SyncTarget, Fit, Paths, Agree, Morphs, Skips
  <2>3. QED  BY <2>1, <2>2
<1>4. videos[Main.video] = bin.depth
  BY DEF Fit, Paths, Agree, Morphs, Skips
<1>5. SyncReadsNew => bin.actmorph \in live
  <2>1. bin.morphing => bin.actmorph # Null
    BY OwnedFacts, Kinds DEF Fit
  <2>2. QED
    BY <2>1 DEF SyncReadsNew, Fit, Memory, PointersLive, Reachable
<1>6. QED  BY <1>1, <1>2, <1>3, <1>4, <1>5

LEMMA ClientSyncFit ==
  ASSUME Fit, ClientSync
  PROVE  /\ Memory' /\ Paths'
         /\ Managed /\ Negotiations => Negotiations'
<1>. DEFINE both == bin.morphing /\ bin.style = "MORPH"
            v == IF both THEN [videos EXCEPT ![bin.actmorphvideo] = bin.depth]
                 ELSE videos
            t == Negotiated(Flag(bin.actor), bin.depth,
                            IF Managed THEN bin.depthforcedmain ELSE 0,
                            Managed \/ bin.depthold = DepthGL)
            main == [Main EXCEPT !.video = Main.video, !.transform = t]
            u == Negotiated(Flag(bin.actmorph), v[bin.actmorphvideo],
                            bin.depthforced, TRUE)
            new == [New EXCEPT !.realized = TRUE, !.transform = u]
<1>1. /\ bin \in BinState /\ bin.actor \in Actor
      /\ Main \in ActorState /\ Main.name \in Known
      /\ videos \in [Video -> DepthBit]
      /\ actors \in [Actor -> ActorState]
      /\ morphs \in [Morph -> MorphState]
      /\ bin.morph \in Morph \cup {Null}
  BY OwnedFacts DEF Fit, Owned, TypeOK
<1>2. bin.morphing => /\ bin.actmorph \in Actor /\ bin.actmorph # bin.actor
                      /\ bin.actmorphvideo \in Video
                      /\ bin.actmorphvideo # ActVideo
                      /\ bin.actmorphvideo # bin.privvid
                      /\ New \in ActorState /\ New.name \in Known
  BY OwnedFacts DEF Fit
<1>3. /\ SyncsMorph <=> Morphs
      /\ ~SyncFails /\ SyncTarget = Main.video
      /\ videos[Main.video] = bin.depth
  BY SyncPath
<1>4. /\ [videos EXCEPT ![ActVideo] = bin.depth] = videos
      /\ Morphs => [videos EXCEPT ![bin.privvid] = bin.depth] = videos
  <2>1. videos[ActVideo] = bin.depth /\ (Morphs => videos[bin.privvid] = bin.depth)
    BY DEF Fit, Agree, Paths
  <2>2. QED  BY <1>1, <2>1
<1>5. /\ bin' = [bin EXCEPT !.depthchanged = FALSE]
      /\ UNCHANGED <<live, drawn, ub>>
      /\ morphs' = IF Morphs /\ bin.morph # Null
                   THEN [morphs EXCEPT ![bin.morph].dest = ActVideo] ELSE morphs
  BY <1>3 DEF ClientSync
<1>6. videos' = v
  BY <1>3, <1>4 DEF ClientSync
<1>7. actors' = IF both THEN [actors EXCEPT ![bin.actor] = main,
                                            ![bin.actmorph].realized = TRUE,
                                            ![bin.actmorph].transform = u]
                ELSE [actors EXCEPT ![bin.actor] = main]
  <2>. DEFINE vs1 == [videos EXCEPT ![ActVideo] = bin.depth]
              vs2 == IF SyncsMorph THEN [vs1 EXCEPT ![bin.privvid] = bin.depth]
                     ELSE vs1
              vs3 == IF both
                     THEN [vs2 EXCEPT ![bin.actmorphvideo] = vs2[SyncTarget]]
                     ELSE vs2
              t2 == Negotiated(Flag(bin.actor), vs2[SyncTarget],
                               IF Managed THEN bin.depthforcedmain ELSE 0,
                               Managed \/ bin.depthold = DepthGL)
              u2 == Negotiated(Flag(bin.actmorph), vs3[bin.actmorphvideo],
                               bin.depthforced, TRUE)
              main2 == [actors[bin.actor] EXCEPT !.video = SyncTarget,
                                                 !.transform = t2]
  <2>1. vs2 = videos
    BY <1>3, <1>4
  <2>2. vs3 = v /\ t2 = t /\ u2 = u
    BY <1>3, <2>1
  <2>3. main2 = main
    BY <1>3, <2>2 DEF Main
  <2>4. actors' = IF both THEN [actors EXCEPT ![bin.actor] = main2,
                                              ![bin.actmorph].realized = TRUE,
                                              ![bin.actmorph].transform = u2]
                  ELSE [actors EXCEPT ![bin.actor] = main2]
    BY <1>3 DEF ClientSync
  <2>. HIDE DEF vs1, vs2, vs3, t2, u2, main2, t, u, main, v
  <2>5. QED  BY <2>2, <2>3, <2>4
<1>8. /\ bin'.actor = bin.actor /\ bin'.actmorph = bin.actmorph
      /\ bin'.privvid = bin.privvid /\ bin'.actmorphvideo = bin.actmorphvideo
      /\ bin'.morph = bin.morph /\ bin'.morphing = bin.morphing
      /\ bin'.style = bin.style
      /\ bin'.depth = bin.depth /\ bin'.depthfromGL = bin.depthfromGL
      /\ bin'.depthforced = bin.depthforced
      /\ bin'.depthforcedmain = bin.depthforcedmain
  BY <1>1, <1>5 DEF BinState
<1>9. /\ main.name = Main.name /\ main.video = Main.video
      /\ main.realized = Main.realized /\ main.transform = t
  BY <1>1 DEF ActorState
<1>10. bin.morphing => /\ new.name = New.name /\ new.realized
                       /\ new.transform = u
  BY <1>2 DEF ActorState
<1>. HIDE DEF t, u
<1>11. /\ Main' = main
       /\ bin.morphing => New' = IF both THEN new ELSE New
  <2>. HIDE DEF main
  <2>1. Main' = main
    BY <1>1, <1>2, <1>7, <1>8 DEF Main
  <2>2. CASE both
    BY <1>1, <1>2, <1>7, <1>8, <2>1, <2>2 DEF New
  <2>3. CASE ~both
    BY <1>1, <1>2, <1>7, <1>8, <2>1, <2>3 DEF New
  <2>4. QED  BY <2>1, <2>2, <2>3
<1>. HIDE DEF main, new
<1>12. Memory'
  <2>1. Reachable' = Reachable
    BY <1>8 DEF Reachable
  <2>2. QED
    BY <1>5, <1>8, <1>9, <1>11, <2>1
       DEF Fit, Memory, PointersLive, NothingLost, Main
<1>13. /\ videos'[ActVideo] = bin.depth
       /\ Morphs => /\ videos'[bin.privvid] = bin.depth
                    /\ videos'[bin.actmorphvideo] = bin.depth
  BY <1>1, <1>2, <1>6 DEF Fit, Agree, Paths, Morphs
<1>14. Paths'
  <2>1. ASSUME Morphs, HasMorph(morphs)'
        PROVE  /\ morphs'[bin.morph].dest # Null
               /\ morphs'[bin.morph].mode # "SET"
    <3>1. bin.morph \in Morph /\ bin.morph # Null
      BY <1>1, <1>8, <2>1, Kinds DEF HasMorph
    <3>2. /\ morphs'[bin.morph].dest = ActVideo
          /\ morphs'[bin.morph].mode = morphs[bin.morph].mode
          /\ morphs'[bin.morph].loaded = morphs[bin.morph].loaded
      BY <1>1, <1>5, <2>1, <3>1 DEF MorphState
    <3>3. HasMorph(morphs)
      BY <1>8, <2>1, <3>1, <3>2 DEF HasMorph
    <3>4. QED  BY <2>1, <3>2, <3>3, Kinds DEF Fit, Paths
  <2>2. Morphs' <=> Morphs
    BY <1>8 DEF Morphs
  <2>3. HasMorph(morphs') <=> HasMorph(morphs)'
    BY <1>8 DEF HasMorph
  <2>4. QED
    BY <1>8, <1>9, <1>11, <1>13, <2>1, <2>2, <2>3 DEF Fit, Paths, Skips
<1>15. ASSUME Managed, Negotiations PROVE Negotiations'
  <2>1. t = Negotiated(Supported[Main.name], bin.depth, bin.depthforcedmain, TRUE)
    BY <1>15 DEF t, Flag, Main
  <2>2. bin.depthforcedmain \in Supported[Main.name] => Ready(Main', bin.depth)
    <3>. DEFINE flag == Supported[Main.name]
                r == bin.depthforcedmain
    <3>1. flag \in DepthFlag
      BY <1>1, KnownFacts
    <3>. HIDE DEF flag, r
    <3>2. r \in flag =>
            (IF Negotiated(flag, bin.depth, r, TRUE).made
             THEN Negotiated(flag, bin.depth, r, TRUE).depth ELSE bin.depth)
            \in flag
      BY <3>1, ForcedReady
    <3>3. QED  BY <1>9, <1>11, <2>1, <3>2 DEF flag, r, Ready
  <2>3. ~bin.morphing => bin.depthforcedmain \in Supported[Main.name]
    BY <1>15 DEF Negotiations, Fit, Agree
  <2>4. ASSUME bin.morphing
        PROVE  /\ New'.name = New.name
               /\ New'.realized => Ready(New', videos'[bin.actmorphvideo])
    <3>1. CASE both
      <4>. DEFINE flag == Supported[New.name]
                  r == bin.depthforced
                  w == videos'[bin.actmorphvideo]
      <4>1. flag \in DepthFlag /\ r \in flag
        BY <1>2, <1>15, <2>4, KnownFacts DEF Negotiations
      <4>2. u = Negotiated(flag, w, r, TRUE)
        BY <1>6 DEF u, Flag, New
      <4>. HIDE DEF flag, r, w
      <4>3. (IF Negotiated(flag, w, r, TRUE).made
             THEN Negotiated(flag, w, r, TRUE).depth ELSE w) \in flag
        BY <4>1, ForcedReady
      <4>4. QED
        BY <1>10, <1>11, <2>4, <3>1, <4>2, <4>3 DEF Ready, flag, w
    <3>2. CASE ~both
      BY <1>6, <1>11, <1>15, <2>4, <3>2 DEF Negotiations
    <3>3. QED  BY <3>1, <3>2
  <2>5. QED
    BY <1>8, <1>9, <1>11, <1>15, <2>2, <2>3, <2>4 DEF Negotiations, Morphs
<1>16. QED  BY <1>12, <1>14, <1>15

-----------------------------------------------------------------------------
(* visual_bin_switch_actor_by_name: it chooses the path. *)

LEMMA SwitchActorByNameFit ==
  ASSUME ~Eager, Fit, NEW n \in Known, SwitchActorByName(n)
  PROVE  /\ Memory' /\ Paths'
         /\ Negotiations => Negotiations'
<1>. DEFINE sd == SwitchDepths(n)
            target == Main.video
            b1 == IF sd.ask = DepthNone THEN bin ELSE SetDepth(bin, sd.ask)
            vs1 == IF sd.ask = DepthNone THEN videos
                   ELSE SetActVideo(videos, sd.ask)
            depth == IF sd.ask = DepthNone THEN bin.depth ELSE sd.ask
            a == Pick(Actor \ {bin.actor})
            w == Pick(Video \ {ActVideo, target})
            p == Pick(Video \ {ActVideo, target, w})
            freed == Released \cup ({bin.privvid} \ {Null})
            alive == live \ freed
            splits == bin.style = "MORPH" /\ depth # DepthGL
<1>1. /\ bin \in BinState /\ ~bin.morphing
      /\ bin.actor \in Actor /\ Main \in ActorState /\ Main.name \in Known
      /\ bin.actmorph = Null /\ bin.actmorphvideo = Null /\ bin.privvid = Null
      /\ bin.morph \in Morph \cup {Null}
      /\ videos \in [Video -> DepthBit]
      /\ actors \in [Actor -> ActorState]
      /\ morphs \in [Morph -> MorphState]
  BY OwnedFacts DEF SwitchActorByName, Fit, Owned, TypeOK
<1>2. /\ target = ActVideo /\ videos[ActVideo] = bin.depth
      /\ bin.depth \in BinDepth /\ bin.depth \in Supported[Main.name]
      /\ ActVideo \in live /\ bin.actor \in live /\ ub = {}
  BY <1>1, Kinds DEF Fit, Agree, Memory, PointersLive, Reachable
<1>3. freed = {} /\ alive = live
  BY <1>1 DEF Released
<1>4. /\ a \in Actor /\ a # bin.actor
      /\ w \in Video /\ w # ActVideo
      /\ p \in Video /\ p # ActVideo /\ p # w
  <2>1. a \in Actor \ {bin.actor}
    BY <1>1, Allocated
  <2>2. w \in Video \ {ActVideo, target}
    BY <1>2, Kinds, Allocated
  <2>3. p \in Video \ {ActVideo, target, w}
    BY <1>2, <2>2, Kinds, Allocated
  <2>4. QED  BY <2>1, <2>2, <2>3
<1>5. /\ sd.forced \in Supported[n]
      /\ sd.ask \in BinDepth \cup {DepthNone}
      /\ sd.ask = DepthNone => bin.depth = DepthGL
      /\ sd.ask \notin {DepthNone, DepthGL} =>
           /\ bin.depth # DepthGL /\ sd.video = sd.ask /\ sd.main = bin.depth
  BY SwitchDepthsAsked DEF Fit
<1>6. PICK before \in Read(target, videos, live), after \in Read(target, vs1, alive) :
       LET main == MainBeforeSwitch(n, before)
           morphs2 == /\ bin.style = "MORPH"
                      /\ after # DepthGL
                      /\ sd.video # DepthGL
                      /\ ~b1.depthfromGL
       IN
       /\ bin' = [b1 EXCEPT !.depthforced = sd.forced,
                            !.depthforcedmain = sd.main,
                            !.depthchanged = @ \/ sd.ask = DepthGL,
                            !.actmorph = a, !.actmorphvideo = w,
                            !.actmorphmanaged = TRUE,
                            !.privvid = IF morphs2 THEN p ELSE Null,
                            !.morphing = TRUE]
       /\ actors' = [actors EXCEPT
                       ![bin.actor] = IF morphs2 THEN [main EXCEPT !.video = p]
                                      ELSE main,
                       ![a] = NewActor(n, w)]
       /\ videos' = [vs1 EXCEPT ![w] = sd.video,
                                ![p] = IF morphs2 THEN vs1[ActVideo] ELSE @]
       /\ morphs' = IF morphs2 THEN StartMorph(morphs) ELSE morphs
       /\ live' = alive \cup {a, w} \cup (IF morphs2 THEN {p} ELSE {})
  BY DEF SwitchActorByName, Main
<1>. DEFINE morphs2 == /\ bin.style = "MORPH"
                       /\ after # DepthGL
                       /\ sd.video # DepthGL
                       /\ ~b1.depthfromGL
            main == MainBeforeSwitch(n, before)
            old == IF splits THEN [main EXCEPT !.video = p] ELSE main
<1>. HIDE DEF sd, a, w, p
<1>7. /\ b1 \in BinState
      /\ b1.actor = bin.actor /\ b1.morph = bin.morph /\ b1.style = bin.style
      /\ b1.depth = depth
      /\ bin.depth # depth => b1.depthchanged
      /\ bin.depthchanged => b1.depthchanged
      /\ depth # DepthGL => ~b1.depthfromGL
  <2>1. CASE sd.ask = DepthNone
    BY <1>1, <1>5, <2>1
  <2>2. CASE sd.ask # DepthNone
    <3>1. sd.ask \in BinDepth /\ sd.ask \in DepthBit
      BY <1>5, <2>2, VisBinAssumption DEF DepthFlag
    <3>2. b1 = SetDepth(bin, sd.ask) /\ depth = sd.ask
      BY <2>2
    <3>. HIDE DEF b1, depth
    <3>3. /\ b1 \in BinState /\ b1.actor = bin.actor /\ b1.morph = bin.morph
          /\ b1.style = bin.style /\ b1.depth = sd.ask
          /\ b1.depthchanged = (bin.depthchanged \/ bin.depth # sd.ask)
      BY <1>1, <3>1, <3>2, SetDepthType, SetDepthFacts
    <3>4. sd.ask # DepthGL => ~b1.depthfromGL
      BY <1>1, <1>5, <2>2, <3>1, <3>2, SetDepthFacts
    <3>5. QED  BY <3>2, <3>3, <3>4
  <2>3. QED  BY <2>1, <2>2
<1>8. /\ vs1 \in [Video -> DepthBit] /\ vs1[ActVideo] = depth
      /\ depth \in BinDepth
  <2>1. CASE sd.ask = DepthNone
    BY <1>1, <1>2, <2>1
  <2>2. CASE sd.ask # DepthNone
    <3>1. sd.ask \in BinDepth /\ sd.ask \in DepthBit
      BY <1>5, <2>2, VisBinAssumption DEF DepthFlag
    <3>2. QED
      BY <1>1, <2>2, <3>1, Kinds DEF SetActVideo, DepthIsSupported
  <2>3. QED  BY <2>1, <2>2
<1>9. after = depth
  BY <1>2, <1>3, <1>6, <1>8 DEF Read
<1>10. depth # DepthGL => /\ bin.depth # DepthGL /\ sd.video = depth
                          /\ sd.main = bin.depth
  BY <1>5
<1>. HIDE DEF b1, vs1, depth, freed, alive
<1>11. morphs2 <=> splits
  BY <1>7, <1>9, <1>10
<1>12. /\ bin' = [b1 EXCEPT !.depthforced = sd.forced,
                            !.depthforcedmain = sd.main,
                            !.depthchanged = @ \/ sd.ask = DepthGL,
                            !.actmorph = a, !.actmorphvideo = w,
                            !.actmorphmanaged = TRUE,
                            !.privvid = IF splits THEN p ELSE Null,
                            !.morphing = TRUE]
       /\ actors' = [actors EXCEPT ![bin.actor] = old, ![a] = NewActor(n, w)]
       /\ videos' = [vs1 EXCEPT ![w] = sd.video,
                                ![p] = IF splits THEN depth ELSE @]
       /\ morphs' = IF splits THEN StartMorph(morphs) ELSE morphs
       /\ live' = live \cup {a, w} \cup (IF splits THEN {p} ELSE {})
  BY <1>3, <1>6, <1>8, <1>11
<1>. HIDE DEF morphs2
<1>13. /\ bin'.actor = bin.actor /\ bin'.morph = bin.morph
       /\ bin'.style = bin.style /\ bin'.depth = depth
       /\ bin'.depthfromGL = b1.depthfromGL
       /\ bin'.depthforced = sd.forced /\ bin'.depthforcedmain = sd.main
       /\ bin'.actmorph = a /\ bin'.actmorphvideo = w /\ bin'.morphing = TRUE
       /\ bin'.privvid = IF splits THEN p ELSE Null
       /\ b1.depthchanged => bin'.depthchanged
  BY <1>7, <1>12 DEF BinState
<1>14. /\ main \in ActorState /\ main.name = Main.name
       /\ main.video = ActVideo /\ main.realized = Main.realized
       /\ bin.depthforcedmain = bin.depth => main.transform = Main.transform
  <2>1. main \in ActorState
    <3>1. before \in DepthBit
      BY <1>1, <1>2, <1>6, Kinds DEF Read
    <3>2. /\ bin.depthforcedmain \in DepthBit \cup {DepthNone}
          /\ Flag(bin.actor) \in DepthFlag
      BY <1>1, VisBinAssumption DEF Flag, Main, BinState
    <3>3. Negotiated(Flag(bin.actor), before, bin.depthforcedmain, TRUE) \in Transform
      BY <3>2, NegotiatedType
    <3>4. QED  BY <1>1, <3>3 DEF MainBeforeSwitch, Main, ActorState
  <2>2. QED
    BY <1>1, <1>2, <2>1 DEF MainBeforeSwitch, Main, ActorState
<1>. HIDE DEF main
<1>15. /\ old.name = Main.name /\ old.realized = Main.realized
       /\ old.transform = main.transform
       /\ old.video = IF splits THEN p ELSE ActVideo
  BY <1>14 DEF ActorState
<1>. HIDE DEF old
<1>16. /\ Main' = old /\ New' = NewActor(n, w)
  BY <1>1, <1>4, <1>12, <1>13 DEF Main, New
<1>17. /\ NewActor(n, w).name = n /\ NewActor(n, w).realized = FALSE
  BY DEF NewActor
<1>18. /\ videos'[ActVideo] = depth
       /\ splits => videos'[p] = depth /\ videos'[w] = depth
  BY <1>4, <1>8, <1>10, <1>12, Kinds
<1>19. Memory'
  <2>1. Reachable = {bin.actor, bin.morph, ActVideo} \ {Null}
    BY <1>1 DEF Reachable
  <2>2. Reachable' = ({bin.actor, a, w, bin.morph, ActVideo}
                      \cup (IF splits THEN {p} ELSE {})) \ {Null}
    BY <1>4, <1>13, Kinds DEF Reachable
  <2>3. Reachable' = Reachable \cup {a, w} \cup (IF splits THEN {p} ELSE {})
    BY <1>4, <2>1, <2>2, Kinds
  <2>4. Reachable \subseteq live /\ (Managed => live = Reachable)
    BY DEF Fit, Memory, PointersLive, NothingLost
  <2>5. Reachable' \subseteq live' /\ (Managed => live' = Reachable')
    BY <1>12, <2>3, <2>4
  <2>6. Main'.video \in Reachable'
    BY <1>4, <1>15, <1>16, <2>2, Kinds
  <2>7. ub' = {}
    <3>1. Released = {} /\ bin.privvid = Null
      BY <1>1 DEF Released
    <3>2. actors[bin.actor].video \in live
      BY <1>2 DEF Main
    <3>3. QED  BY <1>2, <3>1, <3>2 DEF SwitchActorByName
  <2>8. QED
    BY <2>5, <2>6, <2>7 DEF Memory, PointersLive, NothingLost, Main
<1>20. Morphs' <=> splits
  BY <1>13 DEF Morphs
<1>21. Paths'
  <2>1. ASSUME splits, HasMorph(morphs')
        PROVE  /\ morphs'[bin.morph].dest # Null
               /\ morphs'[bin.morph].mode # "SET"
    <3>1. bin.morph \in Morph
      BY <1>1, <2>1 DEF HasMorph
    <3>2. CASE HasMorph(morphs)
      <4>1. morphs' = [morphs EXCEPT ![bin.morph].rate = 0,
                         ![bin.morph].dest = ActVideo,
                         ![bin.morph].mode = bin.mode]
        BY <1>12, <2>1, <3>2 DEF StartMorph
      <4>2. /\ morphs'[bin.morph].dest = ActVideo
            /\ morphs'[bin.morph].mode = bin.mode
        BY <1>1, <3>1, <4>1 DEF MorphState
      <4>3. bin.mode # "SET"
        BY <1>1 DEF BinState
      <4>4. QED  BY <4>2, <4>3, Kinds
    <3>3. CASE ~HasMorph(morphs)
      BY <1>12, <2>1, <3>3 DEF StartMorph
    <3>4. QED  BY <3>2, <3>3
  <2>2. HasMorph(morphs)' => HasMorph(morphs')
    BY <1>13 DEF HasMorph
  <2>3. Skips' <=> ~splits
    BY <1>13 DEF Skips
  <2>4. QED
    BY <1>4, <1>7, <1>13, <1>15, <1>16, <1>18, <1>20, <2>1, <2>2, <2>3, Kinds
       DEF Paths
<1>22. ASSUME Negotiations PROVE Negotiations'
  <2>1. Ready(Main, bin.depth) /\ bin.depthforcedmain = bin.depth /\ Main.realized
    BY <1>1, <1>22 DEF Negotiations
  <2>2. splits => sd.main \in Supported[Main.name]
    BY <1>2, <1>10
  <2>3. splits /\ ~bin'.depthchanged => Ready(Main', depth)
    BY <1>7, <1>13, <1>14, <1>15, <1>16, <2>1 DEF Ready
  <2>4. QED
    BY <1>5, <1>13, <1>15, <1>16, <1>17, <1>20, <2>1, <2>2, <2>3
       DEF Negotiations
<1>23. QED  BY <1>19, <1>21, <1>22

-----------------------------------------------------------------------------
(* Fit always holds, and in a managed bin so do the negotiations. *)

Managing == Managed => Negotiations /\ DrawsSupportedDepth

LEMMA FitStep ==
  ASSUME ~Eager, Fit, Depths, Managing, [Next]_vars
  PROVE  Fit' /\ Managing'
<1>1. Owned' /\ Agree'
  BY OwnedStep, DepthsStep DEF Fit, Depths
<1>2. CASE Run
  BY <1>1, <1>2, RunFit DEF Fit, Managing
<1>3. ASSUME NEW n \in Known, SwitchActorByName(n)
      PROVE  Fit' /\ Managing'
  <2>1. UNCHANGED drawn
    BY <1>3 DEF SwitchActorByName
  <2>2. QED
    BY <1>1, <1>3, <2>1, SwitchActorByNameFit
       DEF Fit, Managing, DrawsSupportedDepth
<1>4. CASE UNCHANGED vars
  <2>1. Reachable' = Reachable /\ Main' = Main /\ New' = New
    BY <1>4 DEF vars, Reachable, Main, New
  <2>2. Memory' /\ Paths'
    BY <1>4, <2>1
       DEF vars, Fit, Memory, PointersLive, NothingLost, Paths,
           Morphs, Skips, HasMorph
  <2>3. Managing'
    BY <1>4, <2>1
       DEF vars, Managing, Negotiations, Ready, Morphs, DrawsSupportedDepth
  <2>4. QED  BY <1>1, <2>2, <2>3 DEF Fit
<1>5. ASSUME NEW n \in ActorName, SwitchUnknownActor(n)
      PROVE  Fit' /\ Managing'
  BY <1>4, <1>5, SwitchUnknownActorFit
<1>6. CASE Client
  <2>1. UNCHANGED drawn
    BY <1>6 DEF Client, SetMorphByName, SetStyle, SetMode
  <2>2. Memory' /\ Paths' /\ (Negotiations => Negotiations')
    BY <1>6, SetMorphByNameFit, SettingsFit DEF Client
  <2>3. QED  BY <1>1, <2>1, <2>2 DEF Fit, Managing, DrawsSupportedDepth
<1>7. CASE ClientSync
  <2>1. UNCHANGED drawn
    BY <1>7 DEF ClientSync
  <2>2. QED
    BY <1>1, <1>7, <2>1, ClientSyncFit DEF Fit, Managing, DrawsSupportedDepth
<1>8. CASE SyncBroken
  BY <1>8, SyncPath DEF SyncBroken
<1>9. QED
  BY <1>2, <1>3, <1>4, <1>5, <1>6, <1>7, <1>8 DEF Next, Switch

LEMMA FitAlways ==
  ASSUME ~Eager
  PROVE  Spec => [](Fit /\ Managing)
<1>1. Init => Fit /\ Managing
  BY FitInit DEF Managing, DrawsSupportedDepth
<1>2. Owned /\ Depths /\ Fit /\ Managing /\ [Next]_vars
        => (Fit /\ Managing)'
  BY FitStep
<1>3. QED  BY DepthsAlways, <1>1, <1>2, PTL DEF Spec

(* lv_bin.c frees in four functions, and none of them leaves a pointer of  *)
(* the bin or of the actor on screen to what it has freed.                 *)
THEOREM PointersKept == ASSUME ~Eager PROVE Spec => []PointersLive
<1>1. Fit => PointersLive
  BY DEF Fit, Memory
<1>2. QED  BY FitAlways, <1>1, PTL

(* A managed bin frees every block that it stops pointing to: a switch     *)
(* leaks nothing, whichever path it takes and whichever morph it has.      *)
THEOREM NothingLeaks == ASSUME ~Eager PROVE Spec => []NothingLost
<1>1. Fit => NothingLost
  BY DEF Fit, Memory
<1>2. QED  BY FitAlways, <1>1, PTL

(* No freed block is read or released, and every morph that runs has got   *)
(* its destination, from the switch or from a sync.                        *)
THEOREM WellDefined == ASSUME ~Eager PROVE Spec => []NoUndefinedBehaviour
<1>1. Fit => NoUndefinedBehaviour
  BY DEF Fit, Memory, NoUndefinedBehaviour
<1>2. QED  BY FitAlways, <1>1, PTL

(* In a managed bin every plugin is handed a surface in a depth it draws   *)
(* in, although a sync may come between a switch and its first run or not. *)
THEOREM DepthsDrawn ==
  ASSUME ~Eager, Managed PROVE Spec => []DrawsSupportedDepth
<1>1. Managing => DrawsSupportedDepth
  BY DEF Managing
<1>2. QED  BY FitAlways, <1>1, PTL

(* While it morphs, both actors draw elsewhere than on the client's video  *)
(* that the morph writes.                                                  *)
THEOREM PrivateVideos == ASSUME ~Eager PROVE Spec => MorphReadsPrivateVideos
<1>1. ASSUME Fit, NEW d \in DepthBit, MorphRuns(d)
      PROVE  /\ Main.video # morphs[bin.morph].dest
             /\ New.video # morphs[bin.morph].dest
  <2>1. Morphs /\ bin.morphing
    BY <1>1, RunReads DEF MorphRuns, MorphGuard, Switching
  <2>2. /\ bin.morph \in Morph /\ New.video # ActVideo
        /\ bin.privvid # ActVideo
    BY <1>1, <2>1, OwnedFacts, Kinds DEF Fit, MorphRuns, HasMorph
  <2>3. morphs[bin.morph].dest = ActVideo
    BY <1>1, <2>2 DEF Fit, Owned, TypeOK, MorphState, MorphRuns
  <2>4. Main.video = bin.privvid
    BY <1>1, <2>1 DEF Fit, Paths
  <2>5. QED  BY <2>2, <2>3, <2>4
<1>2. ASSUME Fit, NEW d \in DepthBit, NEW late \in BOOLEAN,
             RunGoesOn(d) \/ RunMorphDone(d, late)
      PROVE  MorphRuns(d)
  BY <1>2, RunGoesOnFit DEF RunMorphDone
<1>3. Fit => \A d \in DepthBit, late \in BOOLEAN :
               RunGoesOn(d) \/ RunMorphDone(d, late) =>
                 /\ actors[bin.actor].video # morphs[bin.morph].dest
                 /\ actors[bin.actmorph].video # morphs[bin.morph].dest
  BY <1>1, <1>2 DEF Main, New
<1>4. Fit /\ Managing => Fit
  OBVIOUS
<1>5. QED  BY FitAlways, <1>3, <1>4, PTL DEF MorphReadsPrivateVideos

(* No frame of a running switch is wasted once the client has answered the *)
(* depth: it ends the switch, or it takes a morph that counts steps one    *)
(* step closer to the last, or it waits for the clock in a morph that the  *)
(* passing of morphtime will end.  This is the measure behind SwitchEnds.  *)
FramesGetOn ==
  [][ Run /\ bin.morphing =>
        \/ ~bin'.morphing
        \/ LET mo == morphs[bin.morph] IN
           /\ HasMorph(morphs)
           /\ \/ /\ mo.mode = "STEPS"
                 /\ morphs'[bin.morph].rate = mo.rate + 1
                 /\ mo.rate + 1 < Steps
              \/ /\ mo.mode = "TIME"
                 /\ IsDone(MorphRun(mo, TRUE)) ]_vars

(* For every set of plugins and every number of steps: visual_bin_run makes *)
(* progress in each frame of a switch, if the client lets a switch end.    *)
THEOREM SwitchGetsOn == ASSUME ~Eager PROVE Spec => FramesGetOn
<1>. DEFINE mo == morphs[bin.morph]
            GetsOn == /\ HasMorph(morphs)
                      /\ \/ /\ mo.mode = "STEPS"
                            /\ morphs'[bin.morph].rate = mo.rate + 1
                            /\ mo.rate + 1 < Steps
                         \/ /\ mo.mode = "TIME"
                            /\ IsDone(MorphRun(mo, TRUE))
<1>1. ASSUME Fit, NEW d \in DepthBit, RunGoesOn(d)
      PROVE  GetsOn
  <2>1. MorphRuns(d) /\ Morphs /\ HasMorph(morphs)
    BY <1>1, RunGoesOnFit DEF MorphRuns
  <2>2. /\ ~IsDone(MorphRun(mo, FALSE))
        /\ morphs' = [morphs EXCEPT ![bin.morph] = MorphRun(@, FALSE)]
    BY <1>1, <2>1, RunReads DEF RunGoesOn, MorphRuns, MorphGuard
  <2>3. bin.morph \in Morph /\ morphs \in [Morph -> MorphState]
    BY <1>1, <2>1, OwnedFacts DEF Fit, Owned, TypeOK, HasMorph
  <2>4. mo \in MorphState /\ morphs'[bin.morph] = MorphRun(mo, FALSE)
    BY <2>2, <2>3
  <2>5. mo.mode \in {"TIME", "STEPS"} /\ mo.rate \in 0..Steps
    BY <1>1, <2>1, <2>4 DEF Fit, Paths, MorphState
  <2>6. Steps \in Nat
    BY VisBinAssumption
  <2>. HIDE DEF mo
  <2>7. CASE mo.mode = "STEPS"
    <3>1. /\ MorphRun(mo, FALSE).mode = "STEPS"
          /\ MorphRun(mo, FALSE).rate = IF mo.rate < Steps THEN mo.rate + 1
                                        ELSE Steps
      BY <2>4, <2>7 DEF MorphRun, RateAfter, MorphState
    <3>2. ~(MorphRun(mo, FALSE).rate >= Steps)
      BY <2>2, <3>1 DEF IsDone
    <3>3. mo.rate \in Int /\ Steps \in Int
      BY <2>5, <2>6
    <3>4. /\ MorphRun(mo, FALSE).rate = mo.rate + 1
          /\ mo.rate + 1 < Steps
      <4>1. ASSUME NEW r \in Int, NEW s \in Int, NEW q,
                   q = IF r < s THEN r + 1 ELSE s, ~(q >= s)
            PROVE  q = r + 1 /\ r + 1 < s
        BY <4>1
      <4>2. QED  BY <3>1, <3>2, <3>3, <4>1
    <3>5. QED  BY <2>1, <2>4, <2>7, <3>4
  <2>8. CASE mo.mode = "TIME"
    <3>1. /\ MorphRun(mo, TRUE).mode = "TIME"
          /\ MorphRun(mo, TRUE).rate = Steps
      BY <2>4, <2>8 DEF MorphRun, RateAfter, MorphState
    <3>2. Steps >= Steps
      BY <2>6
    <3>3. IsDone(MorphRun(mo, TRUE))
      BY <3>1, <3>2 DEF IsDone
    <3>4. QED  BY <2>1, <2>8, <3>3
  <2>9. QED  BY <2>5, <2>7, <2>8
<1>2. ASSUME Fit, NEW d \in DepthBit,
             \/ RunDirect(d) \/ RunWithoutMorph(d)
             \/ \E late \in BOOLEAN : RunMorphDone(d, late)
      PROVE  ~bin'.morphing
  <2>1. bin.morphing /\ SwitchFinalize(RealizedActors(d))
    BY <1>2 DEF RunDirect, RunWithoutMorph, RunMorphDone, MorphRuns,
                MorphGuard, Switching
  <2>2. /\ RealizedActors(d) \in [Actor -> ActorState]
        /\ \A a \in Actor : RealizedActors(d)[a].name = actors[a].name
    BY <1>2, <2>1, RealizedActorsType DEF Fit
  <2>3. QED  BY <1>2, <2>1, <2>2, FinalizeDepths DEF Fit
<1>3. ASSUME Fit, NEW d \in DepthBit PROVE ~RunBroken(d)
  <2>1. SUFFICES ASSUME RunBroken(d) PROVE FALSE
    OBVIOUS
  <2>2. Switching(d) /\ bin.actmorph \in live
    BY <1>3, <2>1, RunReads DEF RunBroken
  <2>3. MorphGuard(d) /\ HasMorph(morphs) /\ morphs[bin.morph].dest = Null
    BY <2>1, <2>2 DEF RunBroken
  <2>4. QED  BY <1>3, <2>2, <2>3, RunReads DEF Fit, Paths
<1>. HIDE DEF GetsOn
<1>4. Fit => [ Run /\ bin.morphing => ~bin'.morphing \/ GetsOn ]_vars
  BY <1>1, <1>2, <1>3 DEF Run, RunIdle
<1>5. Fit /\ Managing => [ Run /\ bin.morphing => ~bin'.morphing \/ GetsOn ]_vars
  BY <1>4
<1>6. QED  BY FitAlways, <1>5, PTL DEF FramesGetOn, GetsOn

=============================================================================
