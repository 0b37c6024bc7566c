---------------------------- MODULE VisBinProofs ----------------------------
(***************************************************************************)
(* Theorems about VisBin for every client, one that starts a switch in the *)
(* middle of another included, and for every set of plugins and of memory  *)
(* blocks: the types, the objects that a switch owns, and the depths.      *)
(***************************************************************************)
EXTENDS VisBin, TLAPS

(* The largest and the smallest depth of a flag are depths of the flag.    *)
LEMMA DepthChoice ==
  ASSUME NEW flag \in DepthFlag, flag # {}
  PROVE  /\ DepthGetHighest(flag) \in flag
         /\ DepthGetLowest(flag) \in flag
<1>1. flag \subseteq {1, 2, 4, 8, 16}
  BY DEF DepthFlag, DepthBit, Depth8, Depth16, Depth24, Depth32, DepthGL
<1>2. \E d \in flag : \A e \in flag : e <= d
  <2>1. CASE 16 \in flag  BY <1>1, <2>1
  <2>2. CASE 16 \notin flag /\ 8 \in flag  BY <1>1, <2>2
  <2>3. CASE 16 \notin flag /\ 8 \notin flag /\ 4 \in flag  BY <1>1, <2>3
  <2>4. CASE flag \subseteq {1, 2} /\ 2 \in flag  BY <2>4
  <2>5. CASE flag = {1}  BY <2>5
  <2>6. QED  BY <1>1, <2>1, <2>2, <2>3, <2>4, <2>5
<1>3. \E d \in flag : \A e \in flag : d <= e
  <2>1. CASE 1 \in flag  BY <1>1, <2>1
  <2>2. CASE 1 \notin flag /\ 2 \in flag  BY <1>1, <2>2
  <2>3. CASE 1 \notin flag /\ 2 \notin flag /\ 4 \in flag  BY <1>1, <2>3
  <2>4. CASE flag \subseteq {8, 16} /\ 8 \in flag  BY <2>4
  <2>5. CASE flag = {16}  BY <2>5
  <2>6. QED  BY <1>1, <2>1, <2>2, <2>3, <2>4, <2>5
<1>4. QED  BY <1>2, <1>3 DEF DepthGetHighest, DepthGetLowest

(* bin_get_depth_using_preferred picks a depth the bin has, so that        *)
(* fix_depth_with_bin never needs to fall back.                            *)
LEMMA PreferredFits ==
  ASSUME NEW n \in Known
  PROVE  /\ PreferredDepth(Supported[n]) \in Supported[n]
         /\ PreferredDepth(Supported[n]) \in BinDepth
         /\ PreferredDepth(Supported[n]) \in DepthBit
         /\ FixDepth(PreferredDepth(Supported[n])) = PreferredDepth(Supported[n])
<1>1. /\ Supported[n] \in DepthFlag
      /\ Supported[n] # {}
      /\ Supported[n] \subseteq BinDepth
      /\ BinDepth \subseteq DepthBit
  BY VisBinAssumption DEF Known, DepthFlag
<1>2. PreferredDepth(Supported[n]) \in Supported[n]
  BY <1>1, DepthChoice DEF PreferredDepth
<1>3. QED  BY <1>1, <1>2 DEF FixDepth

(* Whatever the negotiation chooses is a value of a depth field.           *)
LEMMA NegotiatedType ==
  ASSUME NEW flag \in DepthFlag, NEW v, NEW r \in DepthBit \cup {DepthNone},
         NEW forced \in BOOLEAN
  PROVE  Negotiated(flag, v, r, forced) \in Transform
<1>1. DepthGetHighestNoGL(flag) \in DepthValue
  <2>1. CASE flag = {}
    BY <2>1 DEF DepthGetHighestNoGL, DepthGetHighest, DepthValue, DepthGL
  <2>2. CASE flag # {}
    BY <2>2, DepthChoice DEF DepthGetHighestNoGL, DepthValue, DepthFlag
  <2>3. QED  BY <2>1, <2>2
<1>2. r \in DepthValue /\ DepthNone \in DepthValue
  BY DEF DepthValue
<1>3. QED  BY <1>1, <1>2 DEF Negotiated, Transform

(* visual_bin_set_depth keeps the type of the bin and only touches its     *)
(* depth fields.                                                           *)
LEMMA SetDepthType ==
  ASSUME NEW b \in BinState, NEW d \in DepthBit
  PROVE  /\ SetDepth(b, d) \in BinState
         /\ SetDepth(b, d).actor = b.actor
         /\ SetDepth(b, d).actmorph = b.actmorph
         /\ SetDepth(b, d).privvid = b.privvid
         /\ SetDepth(b, d).actmorphvideo = b.actmorphvideo
         /\ SetDepth(b, d).morph = b.morph
         /\ SetDepth(b, d).morphing = b.morphing
         /\ SetDepth(b, d).actmorphmanaged = b.actmorphmanaged
<1>. DEFINE changed == b.depthchanged \/ b.depth # d
            old == [b EXCEPT !.depthold = b.depth]
            new == [b EXCEPT !.depthold = b.depth,
                             !.depthchanged = changed,
                             !.depthfromGL = b.depth = DepthGL /\ changed,
                             !.depth = d]
<1>1. SetDepth(b, d) \in {old, new}
  BY DEF SetDepth
<1>2. old \in BinState
  BY DEF BinState
<1>3. new \in BinState
  <2>1. b.depth \in DepthBit /\ changed \in BOOLEAN /\ (b.depth = DepthGL /\ changed) \in BOOLEAN
    BY DEF BinState
  <2>. HIDE DEF changed
  <2>2. QED BY <2>1, ZenonT(60) DEF BinState
<1>4. \A c \in {old, new} :
        /\ c.actor = b.actor /\ c.actmorph = b.actmorph
        /\ c.privvid = b.privvid /\ c.actmorphvideo = b.actmorphvideo
        /\ c.morph = b.morph /\ c.morphing = b.morphing
        /\ c.actmorphmanaged = b.actmorphmanaged
  BY DEF BinState
<1>. HIDE DEF old, new
<1>5. QED BY <1>1, <1>2, <1>3, <1>4

-----------------------------------------------------------------------------
(* The inductive invariant of the types and of the ownership of a switch's *)
(* objects.  A finalize clears the pointer to the new actor's video only   *)
(* when that is managed, hence the last conjunct.                          *)
Owned ==
  /\ TypeOK
  /\ SwitchOwnsItsObjects
  /\ bin.morphing => bin.actmorphmanaged

(* What an allocation returns is a block that nothing points to.           *)
LEMMA Allocated ==
  /\ Pick(Actor) \in Actor
  /\ Pick(Morph) \in Morph
  /\ \A a \in Actor : Pick(Actor \ {a}) \in Actor \ {a}
  /\ \A v, w \in Video : /\ Pick(Video \ {ActVideo, v}) \in Video \ {ActVideo, v}
                         /\ Pick(Video \ {ActVideo, v, w})
                              \in Video \ {ActVideo, v, w}
<1>1. Actor # {}
  BY VisBinAssumption
<1>2. ASSUME NEW S, S # {} PROVE Pick(S) \in S
  BY <1>2 DEF Pick
<1>3. \A v, w \in Video : Video \ {ActVideo, v, w} # {} /\ Video \ {ActVideo, v} # {}
  BY VisBinAssumption
<1>4. Pick(Actor) \in Actor /\ Pick(Morph) \in Morph
  BY <1>1, <1>2, VisBinAssumption
<1>5. ASSUME NEW a \in Actor PROVE Pick(Actor \ {a}) \in Actor \ {a}
  BY <1>2, VisBinAssumption
<1>6. ASSUME NEW v \in Video, NEW w \in Video
      PROVE  /\ Pick(Video \ {ActVideo, v}) \in Video \ {ActVideo, v}
             /\ Pick(Video \ {ActVideo, v, w}) \in Video \ {ActVideo, v, w}
  BY <1>2, <1>3
<1>7. QED  BY <1>4, <1>5, <1>6

LEMMA OwnedInit == Init => Owned
<1>. SUFFICES ASSUME Init PROVE Owned
  OBVIOUS
<1>1. PICK n \in Known : 
        LET d == ConnectDepth(Supported[n])
            a == Pick(Actor)
        IN
        /\ bin = [actor |-> a, actmorph |-> Null, privvid |-> Null,
                  actmorphvideo |-> Null, morph |-> Null,
                  actmorphmanaged |-> FALSE, morphmanaged |-> FALSE,
                  morphing |-> FALSE, style |-> "MORPH", mode |-> "TIME",
                  depth |-> d, depthold |-> DepthNone, depthchanged |-> FALSE,
                  depthfromGL |-> FALSE, depthforced |-> DepthNone,
                  depthforcedmain |-> d]
        /\ actors = [x \in Actor |->
                      [NewActor(n, ActVideo) EXCEPT
                         !.realized = TRUE,
                         !.transform = Negotiated(Supported[n], d,
                                         IF Managed THEN d ELSE 0, Managed)]]
        /\ videos = [v \in Video |-> d]
        /\ morphs = [m \in Morph |-> NewMorph(TRUE)]
        /\ live = {a, ActVideo}
        /\ drawn = {}
        /\ ub = {}
  BY DEF Init
<1>. DEFINE d == ConnectDepth(Supported[n])
<1>2. d \in DepthBit
  <2>1. CASE Supported[n] = {DepthGL}
    BY <2>1 DEF ConnectDepth, DepthBit
  <2>2. CASE Supported[n] # {DepthGL}
    BY <2>2, PreferredFits DEF ConnectDepth
  <2>3. QED BY <2>1, <2>2
<1>3. Negotiated(Supported[n], d, IF Managed THEN d ELSE 0, Managed) \in Transform
  <2>1. Supported[n] \in DepthFlag /\ Managed \in BOOLEAN
    BY VisBinAssumption DEF Known
  <2>2. (IF Managed THEN d ELSE 0) \in DepthBit \cup {DepthNone}
    BY <1>2 DEF DepthNone
  <2>3. QED BY <2>1, <2>2, NegotiatedType
<1>. HIDE DEF d
<1>4. Pick(Actor) \in Actor /\ ActVideo \in Video /\ Null \notin Video
  BY Allocated, VisBinAssumption
<1>5. bin \in BinState
  BY <1>1, <1>2, <1>4 DEF BinState, Styles, d
<1>6. actors \in [Actor -> ActorState]
  BY <1>1, <1>3, <1>4 DEF ActorState, NewActor, d
<1>7. videos \in [Video -> DepthBit]
  BY <1>1, <1>2 DEF d
<1>8. morphs \in [Morph -> MorphState]
  BY <1>1, VisBinAssumption DEF MorphState, NewMorph
<1>9. live \subseteq Object /\ drawn = {} /\ ub = {}
  BY <1>1, <1>4 DEF Object
<1>10. SwitchOwnsItsObjects /\ ~bin.morphing
  BY <1>1, <1>4 DEF SwitchOwnsItsObjects
<1>11. QED
  BY <1>5, <1>6, <1>7, <1>8, <1>9, <1>10 DEF Owned, TypeOK

LEMMA SetMorphByNameOwned ==
  ASSUME Owned, NEW loaded \in BOOLEAN, SetMorphByName(loaded)
  PROVE  Owned'
<1>. DEFINE m == Pick(Morph)
            kept == ~loaded \/ DepthIsSupported(MorphDepth, videos[ActVideo])
<1>1. m \in Morph  BY Allocated
<1>. HIDE DEF m
<1>2. bin' = [bin EXCEPT !.morph = IF kept THEN m ELSE Null, !.morphmanaged = TRUE]
  BY DEF SetMorphByName, m
<1>3. bin' \in BinState
  <2>. DEFINE new == IF kept THEN m ELSE Null
  <2>1. new \in Morph \cup {Null}  BY <1>1
  <2>2. bin \in BinState  BY DEF Owned, TypeOK
  <2>3. bin' = [bin EXCEPT !.morph = new, !.morphmanaged = TRUE]  BY <1>2
  <2>. HIDE DEF new
  <2>4. QED  BY <2>1, <2>2, <2>3, ZenonT(60) DEF BinState
<1>4. morphs' \in [Morph -> MorphState]
  <2>1. NewMorph(loaded) \in MorphState
    BY VisBinAssumption DEF NewMorph, MorphState
  <2>2. QED  BY <1>1, <2>1 DEF SetMorphByName, m, Owned, TypeOK
<1>5. live' \subseteq Object
  BY <1>1 DEF SetMorphByName, m, Owned, TypeOK, Object
<1>6. /\ bin'.morphing = bin.morphing
      /\ bin'.actmorph = bin.actmorph
      /\ bin'.actor = bin.actor
      /\ bin'.actmorphvideo = bin.actmorphvideo
      /\ bin'.privvid = bin.privvid
      /\ bin'.actmorphmanaged = bin.actmorphmanaged
  BY <1>2 DEF BinState, Owned, TypeOK
<1>7. UNCHANGED <<actors, videos, drawn, ub>>
  BY DEF SetMorphByName
<1>8. QED
  BY <1>3, <1>4, <1>5, <1>6, <1>7 DEF Owned, TypeOK, SwitchOwnsItsObjects

LEMMA SettingsOwned ==
  ASSUME Owned,
         \/ \E s \in Styles : SetStyle(s)
         \/ \E m \in Modes : SetMode(m)
  PROVE  Owned'
<1>1. bin' \in BinState
  <2>1. ASSUME NEW s \in Styles, SetStyle(s) PROVE bin' \in BinState
    BY <2>1 DEF SetStyle, Owned, TypeOK, BinState
  <2>2. ASSUME NEW m \in Modes, SetMode(m) PROVE bin' \in BinState
    BY <2>2, VisBinAssumption DEF SetMode, Owned, TypeOK, BinState
  <2>3. QED  BY <2>1, <2>2
<1>2. /\ bin'.morphing = bin.morphing
      /\ bin'.actmorph = bin.actmorph
      /\ bin'.actor = bin.actor
      /\ bin'.actmorphvideo = bin.actmorphvideo
      /\ bin'.privvid = bin.privvid
      /\ bin'.actmorphmanaged = bin.actmorphmanaged
  BY DEF SetStyle, SetMode, Owned, TypeOK, BinState
<1>3. UNCHANGED <<actors, videos, morphs, live, drawn, ub>>
  BY DEF SetStyle, SetMode
<1>4. QED
  BY <1>1, <1>2, <1>3 DEF Owned, TypeOK, SwitchOwnsItsObjects

LEMMA SwitchUnknownActorOwned ==
  ASSUME Owned, NEW n \in ActorName, SwitchUnknownActor(n)
  PROVE  Owned'
<1>1. live' \subseteq Object /\ ub' \subseteq {"freed", "null"}
  BY DEF SwitchUnknownActor, Owned, TypeOK
<1>2. UNCHANGED <<bin, actors, videos, morphs, drawn>>
  BY DEF SwitchUnknownActor
<1>3. QED
  BY <1>1, <1>2 DEF Owned, TypeOK, SwitchOwnsItsObjects

(* A switch ends with clean pointers, whoever ends it.                     *)
LEMMA FinalizeOwned ==
  ASSUME Owned, bin.morphing, NEW as \in [Actor -> ActorState],
         SwitchFinalize(as),
         morphs' \in [Morph -> MorphState],
         drawn' \subseteq [name : Known, depth : DepthValue]
  PROVE  Owned'
<1>. DEFINE new == bin.actmorph
            d == FixDepth(PreferredDepth(Flag(new)))
            b1 == Finalized
            b2 == SetDepth(b1, d)
            after == [b2 EXCEPT !.depthforcedmain = d]
<1>1. new \in Actor
  BY DEF Owned, TypeOK, BinState, SwitchOwnsItsObjects
<1>2. Flag(new) \in DepthFlag /\ d \in DepthBit
  <2>1. actors[new].name \in Known
    BY <1>1 DEF Owned, TypeOK, ActorState
  <2>2. Flag(new) \in DepthFlag
    BY <2>1, VisBinAssumption DEF Flag
  <2>3. d \in DepthBit
    BY <2>1, PreferredFits DEF Flag
  <2>4. QED  BY <2>2, <2>3
<1>. HIDE DEF d
<1>3. b1 \in BinState
  <2>1. bin \in BinState  BY DEF Owned, TypeOK
  <2>2. QED  BY <1>1, <2>1, ZenonT(60) DEF Finalized, BinState
<1>4. /\ b1.actor = new /\ b1.actmorph = Null /\ b1.actmorphvideo = Null
      /\ b1.privvid = Null /\ b1.morphing = FALSE
  BY DEF Finalized, Owned, TypeOK, BinState
<1>5. /\ b2 \in BinState
      /\ b2.actor = new /\ b2.actmorph = Null /\ b2.actmorphvideo = Null
      /\ b2.privvid = Null /\ b2.morphing = FALSE
  BY <1>2, <1>3, <1>4, SetDepthType
<1>. HIDE DEF b1, b2
<1>6. /\ after \in BinState
      /\ after.actor = new /\ after.actmorph = Null
      /\ after.actmorphvideo = Null
      /\ after.privvid = Null /\ after.morphing = FALSE
  BY <1>2, <1>5 DEF BinState
<1>7. bin' = after /\ videos' = [videos EXCEPT ![ActVideo] = d]
  BY DEF SwitchFinalize, d, b1, b2
<1>8. actors' = [as EXCEPT ![new].video = ActVideo,
                           ![new].transform = IF after.depthchanged
                                     THEN Negotiated(Flag(new), d, d, TRUE)
                                     ELSE @]
  BY DEF SwitchFinalize, d, b1, b2
<1>. HIDE DEF after
<1>9. Negotiated(Flag(new), d, d, TRUE) \in Transform
  BY <1>2, NegotiatedType
<1>10. actors' \in [Actor -> ActorState]
  <2>. DEFINE t == IF after.depthchanged THEN Negotiated(Flag(new), d, d, TRUE)
                   ELSE as[new].transform
              state == [as[new] EXCEPT !.video = ActVideo, !.transform = t]
  <2>1. as[new] \in ActorState
    BY <1>1
  <2>2. t \in Transform
    BY <1>9, <2>1 DEF ActorState
  <2>3. actors' = [as EXCEPT ![new] = state]
    BY <1>1, <1>8, <2>1 DEF ActorState
  <2>. HIDE DEF t
  <2>4. state \in ActorState
    BY <2>1, <2>2, VisBinAssumption DEF ActorState
  <2>5. QED  BY <2>3, <2>4
<1>11. videos' \in [Video -> DepthBit]
  BY <1>2, <1>7 DEF Owned, TypeOK
<1>12. live' \subseteq Object /\ ub' \subseteq {"freed", "null"}
  BY DEF SwitchFinalize, Owned, TypeOK
<1>13. SwitchOwnsItsObjects' /\ ~bin'.morphing
  BY <1>6, <1>7, VisBinAssumption DEF SwitchOwnsItsObjects
<1>14. QED
  BY <1>6, <1>7, <1>10, <1>11, <1>12, <1>13 DEF Owned, TypeOK

(* visual_actor_realize and the negotiations of a run keep the types of    *)
(* the actors, their plugins and the videos they draw on.                  *)
LEMMA RealizedActorsType ==
  ASSUME Owned, bin.morphing, NEW maindepth \in DepthBit
  PROVE  /\ RealizedActors(maindepth) \in [Actor -> ActorState]
         /\ \A a \in Actor :
              /\ RealizedActors(maindepth)[a].name = actors[a].name
              /\ RealizedActors(maindepth)[a].video = actors[a].video
<1>. DEFINE re(a, v, r, f) ==
              IF actors[a].realized THEN actors[a]
              ELSE [actors[a] EXCEPT
                      !.realized = TRUE,
                      !.transform = Negotiated(Flag(a), v, r, f)]
            new == re(bin.actmorph, videos[bin.actmorphvideo],
                      bin.depthforced, TRUE)
            main == re(bin.actor, maindepth,
                       IF Managed THEN bin.depthforced ELSE 0, Managed)
<1>1. /\ bin.actmorph \in Actor /\ bin.actor \in Actor
      /\ bin.actmorph # bin.actor
      /\ bin.depthforced \in DepthBit \cup {DepthNone}
  BY DEF Owned, TypeOK, BinState, SwitchOwnsItsObjects
<1>2. ASSUME NEW a \in Actor, NEW v, NEW r \in DepthBit \cup {DepthNone},
             NEW f \in BOOLEAN
      PROVE  /\ re(a, v, r, f) \in ActorState
             /\ re(a, v, r, f).name = actors[a].name
             /\ re(a, v, r, f).video = actors[a].video
  <2>1. actors[a] \in ActorState
    BY DEF Owned, TypeOK
  <2>2. Flag(a) \in DepthFlag
    BY <2>1, VisBinAssumption DEF Flag, ActorState
  <2>3. Negotiated(Flag(a), v, r, f) \in Transform
    BY <2>2, NegotiatedType
  <2>4. QED  BY <2>1, <2>3 DEF ActorState
<1>3. RealizedActors(maindepth) =
        [actors EXCEPT ![bin.actmorph] = new, ![bin.actor] = main]
  BY DEF RealizedActors
<1>4. /\ new \in ActorState /\ new.name = actors[bin.actmorph].name
      /\ new.video = actors[bin.actmorph].video
  BY <1>1, <1>2
<1>5. /\ main \in ActorState /\ main.name = actors[bin.actor].name
      /\ main.video = actors[bin.actor].video
  <2>. DEFINE run == IF Managed THEN bin.depthforced ELSE 0
  <2>1. run \in DepthBit \cup {DepthNone} /\ Managed \in BOOLEAN
    BY <1>1, VisBinAssumption DEF DepthNone
  <2>. HIDE DEF run
  <2>2. /\ re(bin.actor, maindepth, run, Managed) \in ActorState
        /\ re(bin.actor, maindepth, run, Managed).name = actors[bin.actor].name
        /\ re(bin.actor, maindepth, run, Managed).video = actors[bin.actor].video
    <3>. HIDE DEF re
    <3>1. QED  BY <1>1, <1>2, <2>1
  <2>3. QED  BY <2>2 DEF run
<1>. HIDE DEF new, main
<1>6. QED
  BY <1>1, <1>3, <1>4, <1>5 DEF Owned, TypeOK

LEMMA DrawType ==
  ASSUME NEW act \in ActorState, NEW depth \in DepthBit
  PROVE  Draw(act, depth) \in [name : Known, depth : DepthValue]
BY DEF Draw, ActorState, Transform, DepthValue

(* What bin->actor->video->depth reads as is a depth, freed or not.        *)
LEMMA ReadType ==
  ASSUME Owned, NEW v \in Video, NEW d \in Read(v, videos, live)
  PROVE  d \in DepthBit
BY DEF Read, Owned, TypeOK

LEMMA MorphRunType ==
  ASSUME NEW mo \in MorphState, NEW late \in BOOLEAN
  PROVE  /\ MorphRun(mo, late) \in MorphState
         /\ [MorphRun(mo, late) EXCEPT !.stepsdone =
               IF MorphRun(mo, late).mode = "STEPS"
                  /\ MorphRun(mo, late).rate >= Steps
               THEN 0 ELSE @] \in MorphState
<1>1. RateAfter(mo, late) \in 0..Steps
  <2>1. Steps \in Nat /\ mo.rate \in 0..Steps /\ mo.mode \in {"SET", "TIME", "STEPS"}
    BY VisBinAssumption DEF MorphState
  <2>2. CASE mo.mode = "STEPS"
    BY <2>1, <2>2 DEF RateAfter
  <2>3. CASE mo.mode = "TIME"
    BY <2>1, <2>3 DEF RateAfter
  <2>4. CASE mo.mode = "SET"
    BY <2>1, <2>4 DEF RateAfter
  <2>5. QED  BY <2>1, <2>2, <2>3, <2>4
<1>2. (IF mo.mode = "STEPS" THEN mo.stepsdone + 1 ELSE mo.stepsdone) \in Nat
  BY DEF MorphState
<1>3. MorphRun(mo, late) \in MorphState
  BY <1>1, <1>2 DEF MorphRun, MorphState
<1>4. QED
  BY <1>3 DEF MorphState

LEMMA DrawBothType ==
  ASSUME Owned, bin.morphing, NEW maindepth \in DepthBit,
         DrawBoth(RealizedActors(maindepth), maindepth)
  PROVE  drawn' \subseteq [name : Known, depth : DepthValue]
<1>1. /\ bin.actmorph \in Actor /\ bin.actor \in Actor
      /\ videos[bin.actmorphvideo] \in DepthBit
  BY DEF Owned, TypeOK, BinState, SwitchOwnsItsObjects
<1>2. QED  BY <1>1, RealizedActorsType, DrawType DEF DrawBoth

LEMMA RunOwned ==
  ASSUME Owned, Run
  PROVE  Owned'
<1>1. /\ bin.actor \in Actor
      /\ actors[bin.actor] \in ActorState /\ actors[bin.actor].video \in Video
  BY DEF Owned, TypeOK, BinState, ActorState
<1>2. CASE RunIdle
  <2>1. actors' \in [Actor -> ActorState]
    BY <1>1, <1>2 DEF RunIdle, Owned, TypeOK, ActorState
  <2>2. \A a \in Actor : actors'[a].video = actors[a].video
    BY <1>1, <1>2 DEF RunIdle, Owned, TypeOK, ActorState
  <2>3. drawn' \subseteq [name : Known, depth : DepthValue]
    BY <1>1, <1>2, DrawType DEF RunIdle, Owned, TypeOK
  <2>4. UNCHANGED <<bin, videos, morphs, live, ub>>
    BY <1>2 DEF RunIdle
  <2>5. bin.morphing => bin.actmorph \in Actor
    BY DEF Owned, TypeOK, BinState, SwitchOwnsItsObjects
  <2>6. QED
    BY <2>1, <2>2, <2>3, <2>4, <2>5 DEF Owned, TypeOK, SwitchOwnsItsObjects
<1>3. ASSUME NEW d \in DepthBit, RunDirect(d) PROVE Owned'
  <2>1. bin.morphing /\ SwitchFinalize(RealizedActors(d))
    BY <1>3 DEF RunDirect, Switching
  <2>2. RealizedActors(d) \in [Actor -> ActorState]
    BY <2>1, RealizedActorsType
  <2>3. drawn' = {} /\ morphs' \in [Morph -> MorphState]
    BY <1>3 DEF RunDirect, Owned, TypeOK
  <2>4. QED  BY <2>1, <2>2, <2>3, FinalizeOwned
<1>4. ASSUME NEW d \in DepthBit, RunWithoutMorph(d) PROVE Owned'
  <2>1. /\ bin.morphing
        /\ SwitchFinalize(RealizedActors(d))
        /\ DrawBoth(RealizedActors(d), d)
    BY <1>4 DEF RunWithoutMorph, MorphGuard, Switching
  <2>2. RealizedActors(d) \in [Actor -> ActorState]
    BY <2>1, RealizedActorsType
  <2>3. morphs' \in [Morph -> MorphState]
    BY <1>4 DEF RunWithoutMorph, Owned, TypeOK
  <2>4. QED  BY <2>1, <2>2, <2>3, DrawBothType, FinalizeOwned
<1>5. ASSUME NEW d \in DepthBit, RunGoesOn(d) PROVE Owned'
  <2>. DEFINE as == RealizedActors(d)
  <2>1. bin.morphing /\ actors' = as /\ UNCHANGED <<bin, videos, live, ub>>
    BY <1>5 DEF RunGoesOn, MorphRuns, MorphGuard, Switching
  <2>2. /\ as \in [Actor -> ActorState]
        /\ \A a \in Actor : as[a].video = actors[a].video
    BY <2>1, RealizedActorsType
  <2>. HIDE DEF as
  <2>3. morphs' \in [Morph -> MorphState]
    <3>1. CASE MorphRuns(d) /\ morphs' = [morphs EXCEPT ![bin.morph] = MorphRun(@, FALSE)]
      <4>1. bin.morph \in Morph
        BY <3>1 DEF MorphRuns, HasMorph, Owned, TypeOK, BinState
      <4>2. MorphRun(morphs[bin.morph], FALSE) \in MorphState
        BY <4>1, MorphRunType DEF Owned, TypeOK
      <4>3. QED  BY <3>1, <4>1, <4>2 DEF Owned, TypeOK
    <3>2. CASE UNCHANGED morphs
      BY <3>2 DEF Owned, TypeOK
    <3>3. QED  BY <1>5, <3>1, <3>2 DEF RunGoesOn
  <2>4. drawn' \subseteq [name : Known, depth : DepthValue]
    <3>1. CASE drawn' = {Draw(as[bin.actor], d)}
      <4>1. as[bin.actor] \in ActorState
        BY <1>1, <2>2
      <4>2. Draw(as[bin.actor], d) \in [name : Known, depth : DepthValue]
        BY <4>1, DrawType
      <4>3. QED  BY <3>1, <4>2
    <3>2. CASE DrawBoth(as, d)
      BY <2>1, <3>2, DrawBothType DEF as
    <3>3. QED  BY <1>5, <3>1, <3>2 DEF RunGoesOn, as
  <2>5. bin.actmorph \in Actor
    BY <2>1 DEF Owned, TypeOK, BinState, SwitchOwnsItsObjects
  <2>6. QED
    BY <2>1, <2>2, <2>3, <2>4, <2>5 DEF Owned, TypeOK, SwitchOwnsItsObjects
<1>6. ASSUME NEW d \in DepthBit, NEW late \in BOOLEAN, RunMorphDone(d, late)
      PROVE Owned'
  <2>1. /\ bin.morphing
        /\ SwitchFinalize(RealizedActors(d))
        /\ DrawBoth(RealizedActors(d), d)
        /\ bin.morph # Null
    BY <1>6 DEF RunMorphDone, MorphRuns, MorphGuard, Switching, HasMorph
  <2>2. RealizedActors(d) \in [Actor -> ActorState]
    BY <2>1, RealizedActorsType
  <2>3. morphs' \in [Morph -> MorphState]
    <3>1. bin.morph \in Morph
      BY <2>1 DEF Owned, TypeOK, BinState
    <3>2. morphs[bin.morph] \in MorphState
      BY <3>1 DEF Owned, TypeOK
    <3>. DEFINE after == MorphRun(morphs[bin.morph], late)
                last == [after EXCEPT !.stepsdone =
                           IF after.mode = "STEPS" /\ after.rate >= Steps
                           THEN 0 ELSE @]
    <3>3. last \in MorphState
      BY <3>2, MorphRunType
    <3>4. morphs' = [morphs EXCEPT ![bin.morph] = last]
      BY <1>6 DEF RunMorphDone
    <3>. HIDE DEF last
    <3>5. QED  BY <3>3, <3>4 DEF Owned, TypeOK
  <2>4. QED  BY <2>1, <2>2, <2>3, DrawBothType, FinalizeOwned
<1>7. ASSUME NEW d \in DepthBit, RunBroken(d) PROVE Owned'
  BY <1>7 DEF RunBroken, Owned, TypeOK, SwitchOwnsItsObjects
<1>8. QED
  BY <1>2, <1>3, <1>4, <1>5, <1>6, <1>7 DEF Run

(* A sync redirects the main actor to the private or the client's video    *)
(* and gives the videos of the switch the depth of the bin.                *)
LEMMA ClientSyncOwned ==
  ASSUME Owned, ClientSync
  PROVE  Owned'
<1>. DEFINE vs1 == [videos EXCEPT ![ActVideo] = bin.depth]
            vs2 == IF SyncsMorph THEN [vs1 EXCEPT ![bin.privvid] = bin.depth] ELSE vs1
            morphingStyle == bin.morphing /\ bin.style = "MORPH"
            vs3 == IF morphingStyle
                   THEN [vs2 EXCEPT ![bin.actmorphvideo] = vs2[SyncTarget]] ELSE vs2
            forced == Managed \/ bin.depthold = DepthGL
            rundepth == IF Managed THEN bin.depthforcedmain ELSE 0
            main == [actors[bin.actor] EXCEPT
                       !.video = SyncTarget,
                       !.transform = Negotiated(Flag(bin.actor), vs2[SyncTarget],
                                                rundepth, forced)]
            sub == Negotiated(Flag(bin.actmorph), vs3[bin.actmorphvideo],
                              bin.depthforced, TRUE)
<1>1. /\ bin.actor \in Actor /\ bin.depth \in DepthBit
      /\ bin.depthforced \in DepthBit \cup {DepthNone}
      /\ rundepth \in DepthBit \cup {DepthNone}
      /\ forced \in BOOLEAN
  BY VisBinAssumption DEF Owned, TypeOK, BinState, DepthNone
<1>2. \A a \in Actor : actors[a] \in ActorState /\ Flag(a) \in DepthFlag
  BY VisBinAssumption DEF Owned, TypeOK, ActorState, Flag
<1>3. /\ bin' = [bin EXCEPT !.depthchanged = FALSE]
      /\ UNCHANGED <<live, drawn, ub>>
  BY DEF ClientSync
<1>4. /\ bin' \in BinState
      /\ bin'.morphing = bin.morphing
      /\ bin'.actmorph = bin.actmorph
      /\ bin'.actor = bin.actor
      /\ bin'.actmorphvideo = bin.actmorphvideo
      /\ bin'.privvid = bin.privvid
      /\ bin'.actmorphmanaged = bin.actmorphmanaged
  BY <1>3 DEF Owned, TypeOK, BinState
<1>5. morphs' \in [Morph -> MorphState]
  <2>1. CASE SyncsMorph /\ bin.morph # Null
    <3>1. bin.morph \in Morph
      BY <2>1 DEF Owned, TypeOK, BinState
    <3>2. morphs' = [morphs EXCEPT ![bin.morph].dest = ActVideo]
      BY <2>1 DEF ClientSync
    <3>3. QED  BY <3>1, <3>2 DEF Owned, TypeOK, MorphState
  <2>2. CASE ~(SyncsMorph /\ bin.morph # Null)
    BY <2>2 DEF ClientSync, Owned, TypeOK
  <2>3. QED  BY <2>1, <2>2
<1>6. vs1 \in [Video -> DepthBit] /\ vs2 \in [Video -> DepthBit]
  BY <1>1 DEF Owned, TypeOK
<1>7. CASE SyncFails
  <2>1. videos' = vs1 /\ UNCHANGED actors
    BY <1>7 DEF ClientSync
  <2>2. QED
    BY <1>3, <1>4, <1>5, <1>6, <2>1 DEF Owned, TypeOK, SwitchOwnsItsObjects
<1>8. CASE ~SyncFails
  <2>1. SyncTarget \in Video
    BY <1>8, VisBinAssumption DEF SyncFails, SyncTarget, Owned, TypeOK, BinState
  <2>. HIDE DEF vs2
  <2>2. vs3 \in [Video -> DepthBit]
    BY <1>6, <2>1
  <2>3. videos' = vs3
    BY <1>8 DEF ClientSync, vs2
  <2>4. main \in ActorState
    <3>. HIDE DEF rundepth, forced
    <3>1. Negotiated(Flag(bin.actor), vs2[SyncTarget], rundepth, forced) \in Transform
      BY <1>1, <1>2, NegotiatedType
    <3>2. QED  BY <1>1, <1>2, <2>1, <3>1 DEF ActorState
  <2>5. CASE ~morphingStyle
    <3>1. actors' = [actors EXCEPT ![bin.actor] = main]
      BY <1>8, <2>5 DEF ClientSync, vs2
    <3>. HIDE DEF main
    <3>2. actors' \in [Actor -> ActorState]
      BY <2>4, <3>1 DEF Owned, TypeOK
    <3>3. \A a \in Actor : a # bin.actor => actors'[a] = actors[a]
      BY <3>1 DEF Owned, TypeOK
    <3>4. bin.morphing => bin.actmorph \in Actor
      BY DEF Owned, TypeOK, BinState, SwitchOwnsItsObjects
    <3>. HIDE DEF vs3
    <3>5. QED
      BY <1>3, <1>4, <1>5, <2>2, <2>3, <3>2, <3>3, <3>4
         DEF Owned, TypeOK, SwitchOwnsItsObjects
  <2>6. CASE morphingStyle
    <3>1. /\ bin.actmorph \in Actor /\ bin.actmorph # bin.actor
      BY <2>6 DEF Owned, TypeOK, BinState, SwitchOwnsItsObjects
    <3>. DEFINE new == [actors[bin.actmorph] EXCEPT !.realized = TRUE,
                                                    !.transform = sub]
    <3>2. sub \in Transform
      BY <1>1, <1>2, <3>1, NegotiatedType
    <3>3. actors' = [actors EXCEPT ![bin.actor] = main,
                                   ![bin.actmorph].realized = TRUE,
                                   ![bin.actmorph].transform = sub]
      BY <1>8, <2>6 DEF ClientSync, vs2
    <3>. HIDE DEF main, sub
    <3>4. /\ new \in ActorState
          /\ new.video = actors[bin.actmorph].video
      BY <1>2, <3>1, <3>2 DEF ActorState
    <3>5. actors' = [actors EXCEPT ![bin.actor] = main, ![bin.actmorph] = new]
      BY <1>1, <1>2, <3>1, <3>3 DEF ActorState, Owned, TypeOK
    <3>. HIDE DEF new
    <3>6. actors' \in [Actor -> ActorState]
      BY <1>1, <2>4, <3>1, <3>4, <3>5 DEF Owned, TypeOK
    <3>7. actors'[bin.actmorph].video = actors[bin.actmorph].video
      BY <1>1, <3>1, <3>4, <3>5 DEF Owned, TypeOK
    <3>. HIDE DEF vs3
    <3>8. QED
      BY <1>3, <1>4, <1>5, <2>2, <2>3, <3>6, <3>7
         DEF Owned, TypeOK, SwitchOwnsItsObjects
  <2>7. QED  BY <2>5, <2>6
<1>9. QED  BY <1>7, <1>8

(* The depths a switch computes are depths the bin supports.               *)
LEMMA SwitchDepthsType ==
  ASSUME Owned, NEW n \in Known
  PROVE  /\ SwitchDepths(n).forced \in DepthBit
         /\ SwitchDepths(n).main \in DepthBit
         /\ SwitchDepths(n).ask \in DepthBit \cup {DepthNone}
         /\ SwitchDepths(n).video \in DepthBit
<1>1. /\ videos[ActVideo] \in DepthBit
      /\ bin.depth \in DepthBit
      /\ DepthGL \in DepthBit
  BY VisBinAssumption DEF Owned, TypeOK, BinState, DepthBit
<1>2. /\ PreferredDepth(Supported[n]) \in DepthBit
      /\ FixDepth(PreferredDepth(Supported[n])) \in DepthBit
  BY PreferredFits
<1>3. QED  BY <1>1, <1>2 DEF SwitchDepths

LEMMA SwitchActorByNameOwned ==
  ASSUME Owned, NEW n \in Known, SwitchActorByName(n)
  PROVE  Owned'
<1>. DEFINE sd == SwitchDepths(n)
            target == actors[bin.actor].video
            b1 == IF sd.ask = DepthNone THEN bin ELSE SetDepth(bin, sd.ask)
            vs1 == IF sd.ask = DepthNone THEN videos
                   ELSE SetActVideo(videos, sd.ask)
            a == Pick(Actor \ {bin.actor})
            w == Pick(Video \ {ActVideo, target})
            p == Pick(Video \ {ActVideo, target, w})
            freed == Released \cup ({bin.privvid} \ {Null})
            alive == live \ freed
<1>1. PICK before \in Read(target, videos, live), after \in Read(target, vs1, alive) :
       LET main == MainBeforeSwitch(n, before)
           morphs2 == /\ bin.style = "MORPH"
                      /\ after # DepthGL
                      /\ sd.video # DepthGL
                      /\ ~b1.depthfromGL
       IN
       /\ bin' = [b1 EXCEPT !.depthforced = sd.forced,
                            !.depthforcedmain = sd.main,
                            !.depthchanged = @ \/ sd.ask = DepthGL,
                            !.actmorph = a, !.actmorphvideo = w,
                            !.actmorphmanaged = TRUE,
                            !.privvid = IF morphs2 THEN p ELSE Null,
                            !.morphing = TRUE]
       /\ actors' = [actors EXCEPT
                       ![bin.actor] = IF morphs2 THEN [main EXCEPT !.video = p]
                                      ELSE main,
                       ![a] = NewActor(n, w)]
       /\ videos' = [vs1 EXCEPT ![w] = sd.video,
                                ![p] = IF morphs2 THEN vs1[ActVideo] ELSE @]
       /\ morphs' = IF morphs2 THEN StartMorph(morphs) ELSE morphs
       /\ live' = alive \cup {a, w} \cup (IF morphs2 THEN {p} ELSE {})
  BY DEF SwitchActorByName
<1>. DEFINE main == MainBeforeSwitch(n, before)
            morphs2 == /\ bin.style = "MORPH"
                       /\ after # DepthGL
                       /\ sd.video # DepthGL
                       /\ ~b1.depthfromGL
            priv == IF morphs2 THEN p ELSE Null
            old == IF morphs2 THEN [main EXCEPT !.video = p] ELSE main
<1>2. /\ sd.forced \in DepthBit /\ sd.main \in DepthBit
      /\ sd.ask \in DepthBit \cup {DepthNone} /\ sd.video \in DepthBit
  BY SwitchDepthsType
<1>3. /\ bin.actor \in Actor /\ actors[bin.actor] \in ActorState
      /\ target \in Video
  BY DEF Owned, TypeOK, BinState, ActorState
<1>4. /\ a \in Actor /\ a # bin.actor
      /\ w \in Video /\ w # ActVideo /\ w # target
      /\ p \in Video /\ p # ActVideo /\ p # target /\ p # w
  <2>1. a \in Actor \ {bin.actor}
    BY <1>3, Allocated
  <2>2. w \in Video \ {ActVideo, target}
    BY <1>3, Allocated
  <2>3. p \in Video \ {ActVideo, target, w}
    BY <1>3, <2>2, Allocated
  <2>4. QED  BY <2>1, <2>2, <2>3
<1>. HIDE DEF sd, a, w, p
<1>5. b1 \in BinState
  BY <1>2, SetDepthType DEF Owned, TypeOK
<1>6. vs1 \in [Video -> DepthBit]
  BY <1>2, VisBinAssumption DEF SetActVideo, Owned, TypeOK
<1>. HIDE DEF b1, vs1
<1>7. priv \in {p, Null}
  OBVIOUS
<1>8. before \in DepthBit
  BY <1>1, <1>3, ReadType
<1>9. main \in ActorState
  <2>1. bin.depthforcedmain \in DepthBit \cup {DepthNone}
    BY DEF Owned, TypeOK, BinState
  <2>2. Flag(bin.actor) \in DepthFlag
    BY <1>3, VisBinAssumption DEF Flag, ActorState
  <2>3. Negotiated(Flag(bin.actor), before, bin.depthforcedmain, TRUE) \in Transform
    BY <2>1, <2>2, NegotiatedType
  <2>4. QED  BY <1>3, <2>3 DEF MainBeforeSwitch, ActorState
<1>. HIDE DEF main
<1>10. old \in ActorState
  BY <1>4, <1>9 DEF ActorState
<1>11. NewActor(n, w) \in ActorState /\ NewActor(n, w).video = w
  BY <1>4 DEF NewActor, NoTransform, ActorState, Transform, DepthValue
<1>12. /\ bin' = [b1 EXCEPT !.depthforced = sd.forced,
                            !.depthforcedmain = sd.main,
                            !.depthchanged = @ \/ sd.ask = DepthGL,
                            !.actmorph = a, !.actmorphvideo = w,
                            !.actmorphmanaged = TRUE,
                            !.privvid = priv,
                            !.morphing = TRUE]
       /\ actors' = [actors EXCEPT ![bin.actor] = old, ![a] = NewActor(n, w)]
       /\ videos' = [vs1 EXCEPT ![w] = sd.video,
                                ![p] = IF morphs2 THEN vs1[ActVideo] ELSE @]
       /\ morphs' \in {morphs, StartMorph(morphs)}
       /\ live' \subseteq live \cup {a, w, p}
  BY <1>1 DEF sd, a, w, p, b1, vs1, main
<1>. HIDE DEF morphs2, priv, old
<1>13. /\ bin' \in BinState
       /\ bin'.actor = b1.actor
       /\ bin'.actmorph = a /\ bin'.actmorphvideo = w
       /\ bin'.actmorphmanaged /\ bin'.morphing
       /\ bin'.privvid = priv
  <2>. DEFINE changed == b1.depthchanged \/ sd.ask = DepthGL
  <2>1. bin' = [b1 EXCEPT !.depthforced = sd.forced,
                          !.depthforcedmain = sd.main,
                          !.depthchanged = changed,
                          !.actmorph = a, !.actmorphvideo = w,
                          !.actmorphmanaged = TRUE,
                          !.privvid = priv,
                          !.morphing = TRUE]
    BY <1>12
  <2>2. changed \in BOOLEAN
    OBVIOUS
  <2>3. priv \in Video \cup {Null}
    BY <1>4, <1>7
  <2>. HIDE DEF changed
  <2>4. bin' \in BinState
    BY <1>2, <1>4, <1>5, <2>1, <2>2, <2>3, ZenonT(60) DEF BinState
  <2>5. /\ bin'.actor = b1.actor
        /\ bin'.actmorph = a /\ bin'.actmorphvideo = w
        /\ bin'.actmorphmanaged /\ bin'.morphing
        /\ bin'.privvid = priv
    BY <1>5, <2>1 DEF BinState
  <2>6. QED  BY <2>4, <2>5
<1>14. b1.actor = bin.actor
  BY <1>2, SetDepthType DEF b1, Owned, TypeOK
<1>15. actors' \in [Actor -> ActorState] /\ actors'[a].video = w
  BY <1>3, <1>4, <1>10, <1>11, <1>12 DEF Owned, TypeOK
<1>16. videos' \in [Video -> DepthBit]
  BY <1>2, <1>4, <1>6, <1>12, VisBinAssumption
<1>17. morphs' \in [Morph -> MorphState]
  <2>1. StartMorph(morphs) \in [Morph -> MorphState]
    <3>1. CASE HasMorph(morphs)
      <4>. DEFINE mo == [morphs[bin.morph] EXCEPT !.rate = 0,
                           !.dest = ActVideo, !.mode = bin.mode]
      <4>1. bin.morph \in Morph /\ bin.mode \in {"TIME", "STEPS"}
        BY <3>1 DEF HasMorph, Owned, TypeOK, BinState
      <4>2. mo \in MorphState
        <5>1. morphs[bin.morph] \in MorphState
          BY <4>1 DEF Owned, TypeOK
        <5>2. 0 \in 0..Steps
          BY VisBinAssumption
        <5>3. QED  BY <4>1, <5>1, <5>2 DEF MorphState
      <4>3. StartMorph(morphs) = [morphs EXCEPT ![bin.morph] = mo]
        BY <3>1, <4>1 DEF StartMorph, Owned, TypeOK, MorphState
      <4>. HIDE DEF mo
      <4>4. QED  BY <4>2, <4>3 DEF Owned, TypeOK
    <3>2. CASE ~HasMorph(morphs)
      BY <3>2 DEF StartMorph, Owned, TypeOK
    <3>3. QED  BY <3>1, <3>2
  <2>2. QED  BY <1>12, <2>1 DEF Owned, TypeOK
<1>18. live' \subseteq Object
  BY <1>4, <1>12 DEF Object, Owned, TypeOK
<1>19. /\ ub' \subseteq {"freed", "null"}
       /\ UNCHANGED drawn
  BY DEF SwitchActorByName, Owned, TypeOK
<1>20. SwitchOwnsItsObjects'
  BY <1>4, <1>7, <1>13, <1>14, <1>15, VisBinAssumption
     DEF SwitchOwnsItsObjects
<1>21. QED
  BY <1>13, <1>15, <1>16, <1>17, <1>18, <1>19, <1>20 DEF Owned, TypeOK

-----------------------------------------------------------------------------
LEMMA OwnedStep == Owned /\ [Next]_vars => Owned'
<1>. SUFFICES ASSUME Owned, [Next]_vars PROVE Owned'
  OBVIOUS
<1>1. CASE Run
  BY <1>1, RunOwned
<1>2. CASE Switch
  BY <1>2, SwitchActorByNameOwned, SwitchUnknownActorOwned DEF Switch
<1>3. CASE Client
  BY <1>3, SetMorphByNameOwned, SettingsOwned DEF Client
<1>4. CASE ClientSync
  BY <1>4, ClientSyncOwned
<1>5. CASE SyncBroken
  BY <1>5 DEF SyncBroken, Owned, TypeOK, SwitchOwnsItsObjects
<1>6. CASE UNCHANGED vars
  BY <1>6 DEF vars, Owned, TypeOK, SwitchOwnsItsObjects
<1>7. QED
  BY <1>1, <1>2, <1>3, <1>4, <1>5, <1>6 DEF Next

LEMMA OwnedAlways == Spec => []Owned
BY OwnedInit, OwnedStep, PTL DEF Spec

(* The depths, pointers and flags of the bin stay in their types, and no   *)
(* error value of lv_video.c is ever stored as a depth, for every set of   *)
(* plugins whose depths the bin supports and for every client.             *)
THEOREM Typed == Spec => []TypeOK
<1>1. Owned => TypeOK
  BY DEF Owned
<1>2. QED  BY OwnedAlways, <1>1, PTL

(* A switch owns its objects for exactly as long as it runs, also when the *)
(* client starts another in the middle of it.                              *)
THEOREM Ownership == Spec => []SwitchOwnsItsObjects
<1>1. Owned => SwitchOwnsItsObjects
  BY DEF Owned
<1>2. QED  BY OwnedAlways, <1>1, PTL

-----------------------------------------------------------------------------
(* The depths of the bin, whatever its client does. *)

Main == actors[bin.actor]
New == actors[bin.actmorph]

(* The client's video is in the depth of the bin, which the bin supports.  *)
Agree ==
  /\ videos[ActVideo] = bin.depth
  /\ bin.depth \in BinDepth
  /\ ~bin.morphing => /\ Main.video = ActVideo
                      /\ bin.depth \in Supported[Main.name]

(* A switch to OpenGL has asked the bin for it: either the client has not  *)
(* answered yet, or its sync has put the actor on screen on its own video. *)
MovesToGL ==
  bin.morphing /\ videos[bin.actmorphvideo] = DepthGL =>
    /\ bin.depth = DepthGL
    /\ bin.depthchanged \/ Main.video = ActVideo

Depths == Agree /\ MovesToGL

LEMMA OwnedFacts ==
  ASSUME Owned
  PROVE  /\ bin \in BinState
         /\ bin.actor \in Actor /\ Main \in ActorState
         /\ Main.video \in Video /\ Main.name \in Known
         /\ bin.morphing \in BOOLEAN
         /\ bin.morphing => /\ bin.actmorph \in Actor \ {bin.actor}
                            /\ New \in ActorState /\ New.name \in Known
                            /\ New.video = bin.actmorphvideo
                            /\ bin.actmorphvideo \in Video \ {ActVideo, bin.privvid}
                            /\ bin.actmorphmanaged
         /\ ~bin.morphing => /\ bin.actmorph = Null
                             /\ bin.actmorphvideo = Null
                             /\ bin.privvid = Null
         /\ bin.privvid \in (Video \ {ActVideo}) \cup {Null}
         /\ bin.morph \in Morph \cup {Null}
BY DEF Owned, TypeOK, BinState, ActorState, SwitchOwnsItsObjects, Main, New

(* Blocks of different kinds are different, and none of them is NULL.      *)
LEMMA Kinds ==
  /\ ActVideo \in Video
  /\ Null \notin Actor /\ Null \notin Video /\ Null \notin Morph
  /\ \A a \in Actor : a \notin Video /\ a \notin Morph
  /\ \A v \in Video : v \notin Morph
BY VisBinAssumption

LEMMA KnownFacts ==
  ASSUME NEW n \in Known
  PROVE  /\ Supported[n] \in DepthFlag
         /\ Supported[n] \subseteq BinDepth
         /\ BinDepth \subseteq DepthBit
         /\ PreferredDepth(Supported[n]) \in Supported[n]
         /\ FixDepth(PreferredDepth(Supported[n])) = PreferredDepth(Supported[n])
BY VisBinAssumption, PreferredFits DEF Known, DepthFlag

LEMMA SetDepthFacts ==
  ASSUME NEW b \in BinState, NEW d \in BinDepth
  PROVE  /\ SetDepth(b, d).depth = d
         /\ SetDepth(b, d).depthchanged = (b.depthchanged \/ b.depth # d)
         /\ SetDepth(b, d).depthfromGL
              = (b.depth = DepthGL /\ (b.depthchanged \/ b.depth # d))
         /\ SetDepth(b, d).style = b.style
         /\ SetDepth(b, d).morphmanaged = b.morphmanaged
BY DEF SetDepth, DepthIsSupported, BinState

(* The depths of a switch: what is forced on the new actor it supports,    *)
(* the bin is asked for OpenGL when the new actor's video gets it, and for *)
(* another depth only when neither side of the switch is OpenGL.           *)
LEMMA SwitchDepthsAsked ==
  ASSUME Agree, NEW n \in Known
  PROVE  /\ SwitchDepths(n).forced \in Supported[n]
         /\ SwitchDepths(n).ask \in BinDepth \cup {DepthNone}
         /\ SwitchDepths(n).ask = DepthNone => bin.depth = DepthGL
         /\ SwitchDepths(n).video = DepthGL => SwitchDepths(n).ask = DepthGL
         /\ SwitchDepths(n).ask \notin {DepthNone, DepthGL} =>
              /\ bin.depth # DepthGL
              /\ SwitchDepths(n).video = SwitchDepths(n).ask
              /\ SwitchDepths(n).main = bin.depth
<1>. DEFINE have == videos[ActVideo]
            want == PreferredDepth(Supported[n])
            fixed == FixDepth(want)
<1>1. /\ have = bin.depth /\ have \in BinDepth
      /\ want \in Supported[n] /\ want \in BinDepth /\ fixed = want
      /\ Supported[n] \subseteq BinDepth /\ BinDepth \subseteq DepthBit
  BY KnownFacts DEF Agree
<1>2. DepthNone \notin DepthBit
  BY DEF DepthNone, DepthBit, Depth8, Depth16, Depth24, Depth32, DepthGL
<1>. HIDE DEF have, want, fixed
<1>3. SwitchDepths(n) =
        IF DepthGL \in Supported[n]
        THEN [forced |-> DepthGL, main |-> DepthGL, ask |-> DepthGL,
              video |-> DepthGL]
        ELSE IF have > fixed /\ have # DepthGL /\ bin.style = "MORPH"
        THEN [forced |-> want, main |-> bin.depth, ask |-> have, video |-> have]
        ELSE IF have # DepthGL
        THEN [forced |-> fixed, main |-> bin.depth, ask |-> fixed, video |-> fixed]
        ELSE [forced |-> fixed, main |-> fixed, ask |-> DepthNone, video |-> fixed]
  BY DEF SwitchDepths, DepthIsSupported, have, want, fixed
<1>4. CASE DepthGL \in Supported[n]
  BY <1>1, <1>2, <1>3, <1>4
<1>5. CASE DepthGL \notin Supported[n] /\ have = DepthGL
  BY <1>1, <1>2, <1>3, <1>5
<1>6. CASE DepthGL \notin Supported[n] /\ have # DepthGL
  BY <1>1, <1>2, <1>3, <1>6
<1>7. QED  BY <1>4, <1>5, <1>6

LEMMA DepthsInit ==
  ASSUME Init
  PROVE  Depths
<1>1. PICK n \in Known :
        LET d == ConnectDepth(Supported[n])
            a == Pick(Actor)
        IN
        /\ bin = [actor |-> a, actmorph |-> Null, privvid |-> Null,
                  actmorphvideo |-> Null, morph |-> Null,
                  actmorphmanaged |-> FALSE, morphmanaged |-> FALSE,
                  morphing |-> FALSE, style |-> "MORPH", mode |-> "TIME",
                  depth |-> d, depthold |-> DepthNone, depthchanged |-> FALSE,
                  depthfromGL |-> FALSE, depthforced |-> DepthNone,
                  depthforcedmain |-> d]
        /\ actors = [x \in Actor |->
                      [NewActor(n, ActVideo) EXCEPT
                         !.realized = TRUE,
                         !.transform = Negotiated(Supported[n], d,
                                         IF Managed THEN d ELSE 0, Managed)]]
        /\ videos = [v \in Video |-> d]
        /\ morphs = [m \in Morph |-> NewMorph(TRUE)]
        /\ live = {a, ActVideo}
        /\ drawn = {}
        /\ ub = {}
  BY DEF Init
<1>. DEFINE d == ConnectDepth(Supported[n])
<1>2. d \in Supported[n] /\ d \in BinDepth
  <2>1. Supported[n] # {}
    BY VisBinAssumption DEF Known
  <2>2. QED  BY <2>1, KnownFacts DEF ConnectDepth
<1>. HIDE DEF d
<1>3. bin.actor \in Actor /\ bin.morphing = FALSE /\ bin.depth = d
  BY <1>1, Allocated DEF d
<1>4. Main.name = n /\ Main.video = ActVideo /\ videos[ActVideo] = d
  BY <1>1, <1>3, Kinds DEF Main, NewActor, d
<1>5. QED  BY <1>2, <1>3, <1>4 DEF Depths, Agree, MovesToGL

(* A call that leaves alone the depth, the videos and who draws where.     *)
LEMMA DepthsKept ==
  ASSUME Depths,
         UNCHANGED videos,
         bin'.depth = bin.depth, bin'.depthchanged = bin.depthchanged,
         bin'.morphing = bin.morphing,
         bin'.actmorphvideo = bin.actmorphvideo,
         Main'.name = Main.name, Main'.video = Main.video
  PROVE  Depths'
BY DEF Depths, Agree, MovesToGL

LEMMA ClientDepths ==
  ASSUME Owned, Depths, Client
  PROVE  Depths'
<1>1. UNCHANGED <<actors, videos>>
  BY DEF Client, SetMorphByName, SetStyle, SetMode
<1>2. /\ bin'.depth = bin.depth /\ bin'.depthchanged = bin.depthchanged
      /\ bin'.morphing = bin.morphing
      /\ bin'.actmorphvideo = bin.actmorphvideo
      /\ bin'.actor = bin.actor
  <2>1. bin \in BinState
    BY OwnedFacts
  <2>2. CASE \E loaded \in BOOLEAN : SetMorphByName(loaded)
    BY <2>1, <2>2 DEF SetMorphByName, BinState
  <2>3. CASE \E s \in Styles : SetStyle(s)
    BY <2>1, <2>3 DEF SetStyle, BinState
  <2>4. CASE \E m \in Modes : SetMode(m)
    BY <2>1, <2>4 DEF SetMode, BinState
  <2>5. QED  BY <2>2, <2>3, <2>4 DEF Client
<1>3. Main' = Main
  BY <1>1, <1>2 DEF Main
<1>4. QED  BY <1>1, <1>2, <1>3, DepthsKept

(* visual_bin_switch_finalize takes the new actor's depth for the bin.     *)
LEMMA FinalizeDepths ==
  ASSUME Owned, bin.morphing, NEW as \in [Actor -> ActorState],
         \A a \in Actor : as[a].name = actors[a].name,
         SwitchFinalize(as)
  PROVE  Depths' /\ ~bin'.morphing
<1>. DEFINE new == bin.actmorph
            d == FixDepth(PreferredDepth(Flag(new)))
            b1 == Finalized
            b2 == SetDepth(b1, d)
            after == [b2 EXCEPT !.depthforcedmain = d]
            t == IF after.depthchanged THEN Negotiated(Flag(new), d, d, TRUE)
                 ELSE as[new].transform
<1>1. /\ bin \in BinState /\ new \in Actor /\ actors[new].name \in Known
  BY OwnedFacts DEF New
<1>2. d \in Supported[actors[new].name] /\ d \in BinDepth /\ d \in DepthBit
  BY <1>1, KnownFacts DEF Flag
<1>. HIDE DEF d
<1>3. b1 \in BinState
  BY <1>1, ZenonT(60) DEF Finalized, BinState
<1>4. b1.actor = new /\ b1.morphing = FALSE
  BY <1>1 DEF Finalized, BinState
<1>5. /\ b2 \in BinState /\ b2.depth = d
      /\ b2.actor = new /\ b2.morphing = FALSE
  <2>. HIDE DEF b1
  <2>1. QED  BY <1>2, <1>3, <1>4, SetDepthType, SetDepthFacts
<1>. HIDE DEF b1, b2
<1>6. after.actor = new /\ after.morphing = FALSE /\ after.depth = d
  BY <1>5 DEF BinState
<1>7. /\ bin' = after /\ videos' = [videos EXCEPT ![ActVideo] = d]
      /\ actors' = [as EXCEPT ![new].video = ActVideo,
                              ![new].transform =
                                IF after.depthchanged
                                THEN Negotiated(Flag(new), d, d, TRUE) ELSE @]
  BY DEF SwitchFinalize, d, b1, b2
<1>. HIDE DEF after
<1>8. Main'.video = ActVideo /\ Main'.name = actors[new].name
  BY <1>1, <1>6, <1>7 DEF Main, ActorState
<1>9. videos'[ActVideo] = d
  BY <1>7, Kinds DEF Owned, TypeOK
<1>10. QED
  BY <1>2, <1>6, <1>7, <1>8, <1>9 DEF Depths, Agree, MovesToGL

LEMMA RunDepths ==
  ASSUME Owned, Depths, Run
  PROVE  Depths'
<1>1. bin.actor \in Actor /\ actors \in [Actor -> ActorState]
  BY OwnedFacts DEF Owned, TypeOK
<1>2. CASE RunIdle
  <2>1. UNCHANGED <<bin, videos>>
    BY <1>2 DEF RunIdle
  <2>2. Main'.name = Main.name /\ Main'.video = Main.video
    BY <1>1, <1>2 DEF RunIdle, Main, ActorState
  <2>3. QED  BY <2>1, <2>2, DepthsKept
<1>3. ASSUME NEW d \in DepthBit, RunGoesOn(d)
      PROVE  Depths'
  <2>1. /\ bin.morphing /\ actors' = RealizedActors(d)
        /\ UNCHANGED <<bin, videos>>
    BY <1>3 DEF RunGoesOn, MorphRuns, MorphGuard, Switching
  <2>2. Main'.name = Main.name /\ Main'.video = Main.video
    BY <1>1, <2>1, RealizedActorsType DEF Main
  <2>3. QED  BY <2>1, <2>2, DepthsKept
<1>4. ASSUME NEW d \in DepthBit,
             \/ RunDirect(d) \/ RunWithoutMorph(d)
             \/ \E late \in BOOLEAN : RunMorphDone(d, late)
      PROVE  Depths'
  <2>1. bin.morphing /\ SwitchFinalize(RealizedActors(d))
    BY <1>4 DEF RunDirect, RunWithoutMorph, RunMorphDone, MorphRuns,
                MorphGuard, Switching
  <2>2. /\ RealizedActors(d) \in [Actor -> ActorState]
        /\ \A a \in Actor : RealizedActors(d)[a].name = actors[a].name
    BY <2>1, RealizedActorsType
  <2>3. QED  BY <2>1, <2>2, FinalizeDepths
<1>5. ASSUME NEW d \in DepthBit, RunBroken(d)
      PROVE  Depths'
  <2>1. UNCHANGED <<bin, actors, videos>>
    BY <1>5 DEF RunBroken
  <2>2. Main' = Main
    BY <2>1 DEF Main
  <2>3. QED  BY <2>1, <2>2, DepthsKept
<1>6. QED  BY <1>2, <1>3, <1>4, <1>5 DEF Run

(* A sync gives the client's video the depth of the bin.  In OpenGL it     *)
(* leaves the main actor there; otherwise the new actor's video gets a     *)
(* depth other than OpenGL, or keeps one.                                  *)
LEMMA ClientSyncDepths ==
  ASSUME Owned, Depths, ClientSync
  PROVE  Depths'
<1>. DEFINE both == bin.morphing /\ bin.style = "MORPH"
            vs1 == [videos EXCEPT ![ActVideo] = bin.depth]
            vs2 == IF SyncsMorph THEN [vs1 EXCEPT ![bin.privvid] = bin.depth]
                   ELSE vs1
            vs3 == IF both
                   THEN [vs2 EXCEPT ![bin.actmorphvideo] = vs2[SyncTarget]]
                   ELSE vs2
            main == [actors[bin.actor] EXCEPT
                       !.video = SyncTarget,
                       !.transform = Negotiated(Flag(bin.actor),
                           vs2[SyncTarget],
                           IF Managed THEN bin.depthforcedmain ELSE 0,
                           Managed \/ bin.depthold = DepthGL)]
            sub == Negotiated(Flag(bin.actmorph), vs3[bin.actmorphvideo],
                              bin.depthforced, TRUE)
            amv == bin.actmorphvideo
<1>1. /\ bin.actor \in Actor /\ Main \in ActorState
      /\ videos \in [Video -> DepthBit] /\ actors \in [Actor -> ActorState]
      /\ bin.privvid \in (Video \ {ActVideo}) \cup {Null}
      /\ bin.morphing => /\ amv \in Video /\ amv # ActVideo
                         /\ amv # bin.privvid
                         /\ bin.actmorph \in Actor
                         /\ bin.actmorph # bin.actor
  BY OwnedFacts DEF Owned, TypeOK
<1>2. /\ bin'.depth = bin.depth /\ bin'.depthchanged = FALSE
      /\ bin'.morphing = bin.morphing /\ bin'.actor = bin.actor
      /\ bin'.actmorphvideo = amv
  BY OwnedFacts DEF ClientSync, BinState
<1>3. SyncsMorph => both /\ bin.depth # DepthGL
  BY DEF SyncsMorph
<1>4. ActVideo \in Video /\ Null # ActVideo
  BY Kinds
<1>5. /\ vs1[ActVideo] = bin.depth
      /\ bin.morphing => vs1[amv] = videos[amv]
      /\ DOMAIN vs1 = Video
  BY <1>1, <1>4
<1>6. vs2[ActVideo] = bin.depth /\ (bin.morphing => vs2[amv] = videos[amv])
  <2>. HIDE DEF vs1
  <2>1. CASE SyncsMorph
    <3>1. bin.privvid # ActVideo
      BY <1>1, <1>4
    <3>2. bin.morphing => bin.privvid # amv
      BY <1>1
    <3>3. QED  BY <1>1, <1>4, <1>5, <2>1, <3>1, <3>2
  <2>2. CASE ~SyncsMorph
    BY <1>5, <2>2
  <2>3. QED  BY <2>1, <2>2
<1>7. ~SyncFails => vs2[SyncTarget] = bin.depth
  BY <1>1, <1>3, <1>6 DEF SyncFails, SyncTarget
<1>8. /\ videos' = IF SyncFails THEN vs1 ELSE vs3
      /\ actors' = IF SyncFails THEN actors
                   ELSE IF both
                   THEN [actors EXCEPT ![bin.actor] = main,
                                       ![bin.actmorph].realized = TRUE,
                                       ![bin.actmorph].transform = sub]
                   ELSE [actors EXCEPT ![bin.actor] = main]
  BY DEF ClientSync
<1>9. main.video = SyncTarget /\ main.name = Main.name
  BY <1>1 DEF Main, ActorState
<1>. HIDE DEF main, sub, vs1, vs2
<1>10. Main' = IF SyncFails THEN Main ELSE main
  BY <1>1, <1>2, <1>8 DEF Main
<1>11. /\ videos'[ActVideo] = bin.depth
       /\ bin.morphing => videos'[amv] \in {videos[amv], bin.depth}
       /\ bin.morphing /\ both /\ ~SyncFails => videos'[amv] = bin.depth
  <2>1. vs2 \in [Video -> DepthBit]
    BY <1>1, <1>3, <1>4, OwnedFacts DEF vs1, vs2, BinState
  <2>2. CASE SyncFails
    BY <1>1, <1>3, <1>5, <1>8, <2>2 DEF SyncFails
  <2>3. CASE ~SyncFails /\ both
    BY <1>1, <1>6, <1>7, <1>8, <2>1, <2>3
  <2>4. CASE ~SyncFails /\ ~both
    BY <1>1, <1>6, <1>8, <2>4
  <2>5. QED  BY <2>2, <2>3, <2>4
<1>. HIDE DEF vs3
<1>12. Agree'
  <2>1. ~bin.morphing => ~SyncFails /\ SyncTarget = ActVideo
    BY <1>3 DEF SyncFails, SyncTarget
  <2>2. ~bin.morphing => Main'.video = ActVideo /\ Main'.name = Main.name
    BY <1>9, <1>10, <2>1
  <2>3. QED  BY <1>2, <1>11, <2>2 DEF Depths, Agree
<1>13. MovesToGL'
  <2>1. SUFFICES ASSUME bin.morphing, videos'[amv] = DepthGL
                 PROVE  bin.depth = DepthGL /\ Main'.video = ActVideo
    BY <1>2 DEF MovesToGL
  <2>2. bin.depth = DepthGL
    BY <1>11, <2>1 DEF Depths, MovesToGL
  <2>3. ~SyncsMorph
    BY <1>3, <2>2
  <2>4. QED  BY <1>9, <1>10, <2>2, <2>3 DEF SyncTarget, SyncFails
<1>14. QED  BY <1>12, <1>13 DEF Depths

(* A switch asks the bin for the depth it gives the client's video, and    *)
(* marks it changed when that is OpenGL.                                   *)
LEMMA SwitchActorByNameDepths ==
  ASSUME Owned, Depths, NEW n \in Known, SwitchActorByName(n)
  PROVE  Depths'
<1>. DEFINE sd == SwitchDepths(n)
            target == actors[bin.actor].video
            b1 == IF sd.ask = DepthNone THEN bin ELSE SetDepth(bin, sd.ask)
            vs1 == IF sd.ask = DepthNone THEN videos
                   ELSE SetActVideo(videos, sd.ask)
            depth == IF sd.ask = DepthNone THEN bin.depth ELSE sd.ask
            a == Pick(Actor \ {bin.actor})
            w == Pick(Video \ {ActVideo, target})
            p == Pick(Video \ {ActVideo, target, w})
            freed == Released \cup ({bin.privvid} \ {Null})
            alive == live \ freed
<1>1. /\ bin \in BinState /\ bin.actor \in Actor /\ target \in Video
      /\ videos \in [Video -> DepthBit]
  BY OwnedFacts DEF Owned, TypeOK, Main
<1>2. /\ w \in Video /\ w # ActVideo
      /\ p \in Video /\ p # ActVideo /\ p # w
  <2>1. w \in Video \ {ActVideo, target}
    BY <1>1, Kinds, Allocated
  <2>2. p \in Video \ {ActVideo, target, w}
    BY <1>1, <2>1, Kinds, Allocated
  <2>3. QED  BY <2>1, <2>2
<1>3. /\ sd.ask \in BinDepth \cup {DepthNone}
      /\ sd.video = DepthGL => sd.ask = DepthGL
  BY SwitchDepthsAsked DEF Depths
<1>4. PICK before \in Read(target, videos, live), after \in Read(target, vs1, alive) :
       LET main == MainBeforeSwitch(n, before)
           morphs2 == /\ bin.style = "MORPH"
                      /\ after # DepthGL
                      /\ sd.video # DepthGL
                      /\ ~b1.depthfromGL
       IN
       /\ bin' = [b1 EXCEPT !.depthforced = sd.forced,
                            !.depthforcedmain = sd.main,
                            !.depthchanged = @ \/ sd.ask = DepthGL,
                            !.actmorph = a, !.actmorphvideo = w,
                            !.actmorphmanaged = TRUE,
                            !.privvid = IF morphs2 THEN p ELSE Null,
                            !.morphing = TRUE]
       /\ actors' = [actors EXCEPT
                       ![bin.actor] = IF morphs2 THEN [main EXCEPT !.video = p]
                                      ELSE main,
                       ![a] = NewActor(n, w)]
       /\ videos' = [vs1 EXCEPT ![w] = sd.video,
                                ![p] = IF morphs2 THEN vs1[ActVideo] ELSE @]
       /\ morphs' = IF morphs2 THEN StartMorph(morphs) ELSE morphs
       /\ live' = alive \cup {a, w} \cup (IF morphs2 THEN {p} ELSE {})
  BY DEF SwitchActorByName
<1>. HIDE DEF sd, a, w, p
<1>5. b1 \in BinState /\ b1.depth = depth
  <2>1. CASE sd.ask = DepthNone
    BY <1>1, <2>1
  <2>2. CASE sd.ask # DepthNone
    <3>1. sd.ask \in BinDepth /\ sd.ask \in DepthBit
      BY <1>3, <2>2, VisBinAssumption DEF DepthFlag
    <3>2. b1 = SetDepth(bin, sd.ask) /\ depth = sd.ask
      BY <2>2
    <3>. HIDE DEF b1, depth
    <3>3. QED  BY <1>1, <3>1, <3>2, SetDepthType, SetDepthFacts
  <2>3. QED  BY <2>1, <2>2
<1>6. /\ vs1 \in [Video -> DepthBit] /\ vs1[ActVideo] = depth
      /\ depth \in BinDepth
  <2>1. CASE sd.ask = DepthNone
    BY <1>1, <2>1 DEF Depths, Agree
  <2>2. CASE sd.ask # DepthNone
    <3>1. sd.ask \in BinDepth /\ sd.ask \in DepthBit
      BY <1>3, <2>2, VisBinAssumption DEF DepthFlag
    <3>2. QED
      BY <1>1, <2>2, <3>1, Kinds DEF SetActVideo, DepthIsSupported
  <2>3. QED  BY <2>1, <2>2
<1>7. sd.ask = DepthGL => depth = DepthGL
  BY DEF DepthGL, DepthNone
<1>. HIDE DEF b1, vs1, depth
<1>8. /\ bin'.depth = depth /\ bin'.morphing = TRUE /\ bin'.actmorphvideo = w
      /\ sd.ask = DepthGL => bin'.depthchanged
  BY <1>4, <1>5 DEF BinState
<1>9. videos'[ActVideo] = depth /\ videos'[w] = sd.video
  BY <1>2, <1>4, <1>6, Kinds
<1>10. QED
  BY <1>3, <1>6, <1>7, <1>8, <1>9 DEF Depths, Agree, MovesToGL

LEMMA DepthsStep == Owned /\ Depths /\ [Next]_vars => Depths'
<1>. SUFFICES ASSUME Owned, Depths, [Next]_vars PROVE Depths'
  OBVIOUS
<1>1. ASSUME UNCHANGED <<bin, actors, videos>> PROVE Depths'
  <2>1. Main' = Main
    BY <1>1 DEF Main
  <2>2. QED  BY <1>1, <2>1, DepthsKept
<1>2. CASE \/ SyncBroken \/ UNCHANGED vars
           \/ \E n \in ActorName : SwitchUnknownActor(n)
  BY <1>1, <1>2 DEF SyncBroken, SwitchUnknownActor, vars
<1>3. QED
  BY <1>2, RunDepths, SwitchActorByNameDepths, ClientDepths, ClientSyncDepths
     DEF Next, Switch

LEMMA DepthsAlways == Spec => [](Owned /\ Depths)
<1>1. Init => Owned /\ Depths
  BY OwnedInit, DepthsInit
<1>2. Owned /\ Depths /\ [Next]_vars => (Owned /\ Depths)'
  BY OwnedStep, DepthsStep
<1>3. QED  BY <1>1, <1>2, PTL DEF Spec

(* Between switches the bin, the client's video and the actor on screen    *)
(* agree on a depth that the plugin supports, also when the client starts  *)
(* a switch in the middle of another.                                      *)
THEOREM DepthAgreement == Spec => []DepthsAgree
<1>1. Owned /\ Depths => DepthsAgree
  BY DEF Depths, Agree, DepthsAgree, Main
<1>2. QED  BY DepthsAlways, <1>1, PTL

(* The branch of visual_bin_run that would wait for OpenGL is dead code,   *)
(* for any plugins and for every client that syncs a changed depth.        *)
THEOREM NoWaiting == Spec => []NeverWaitsForGL
<1>1. Owned /\ Depths => NeverWaitsForGL
  BY DEF Depths, Agree, MovesToGL, NeverWaitsForGL, WaitsForGL, Main
<1>2. QED  BY DepthsAlways, <1>1, PTL

=============================================================================
