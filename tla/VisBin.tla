------------------------------- MODULE VisBin -------------------------------
(***************************************************************************)
(* The VisBin of libvisual (lv_bin.c): the pipeline that owns the actor on *)
(* screen, the actor being switched to, the morph between the two and the  *)
(* private videos they draw on, with the parts of lv_actor.c, lv_morph.c   *)
(* and lv_object.c that a switch goes through.                             *)
(*                                                                         *)
(* Every action is one call of the library by its client, made under the   *)
(* client's lock.  Objects are memory blocks; "live" holds the ones whose  *)
(* reference count is not zero (no code path here takes a second           *)
(* reference).  "ub" collects the undefined behaviour executed so far; a   *)
(* read of a freed video yields any depth.                                 *)
(*                                                                         *)
(* Left out: pixels, sizes, pitches, palettes, the input and the events,   *)
(* none of which a switch decides on.                                      *)
(***************************************************************************)
EXTENDS VisDepth, FiniteSets

CONSTANTS
  ActorName,    \* names a client may ask for
  Supported,    \* Supported[n]: vidoptions.depth of the actor plugin n
  BinDepth,     \* bin->depthflag
  MorphDepth,   \* vidoptions.depth of the morph plugins
  PreferLowest, \* bin->depthpreferred == VISUAL_BIN_DEPTH_LOWEST
  Managed,      \* visual_bin_connect_by_names instead of visual_bin_connect
  Modes,        \* automatic morph modes the client sets, TIME at first
  Steps,        \* bin->morphsteps, and the steps in which a rate is counted
  Eager,        \* the client calls the bin again while a switch still runs
  Actor, Video, Morph,   \* memory blocks
  ActVideo,     \* the client's video, bin->actvideo
  Null

Known == DOMAIN Supported

ASSUME VisBinAssumption ==
  /\ Known \subseteq ActorName
  /\ Supported \in [Known -> DepthFlag \ {{}}]
  /\ BinDepth \in DepthFlag
  /\ \A n \in Known : Supported[n] \subseteq BinDepth
  /\ MorphDepth \in DepthFlag
  /\ PreferLowest \in BOOLEAN /\ Managed \in BOOLEAN /\ Eager \in BOOLEAN
  /\ Modes \subseteq {"TIME", "STEPS"}
  /\ Steps \in Nat \ {0}
  /\ Actor # {} /\ Morph # {}
  /\ \A a \in Actor : Actor \ {a} # {}
  /\ ActVideo \in Video
  /\ \A v, w \in Video : Video \ {ActVideo, v, w} # {}
  /\ Null \notin Actor \cup Video \cup Morph \cup Known
  /\ Actor \cap Video = {} /\ Actor \cap Morph = {} /\ Video \cap Morph = {}

VARIABLES
  bin,      \* the fields of struct _VisBin
  actors,   \* actors[a]: plugin, target video, depth of the transform, realized
  videos,   \* videos[v]: depth
  morphs,   \* morphs[m]: plugin loaded, mode, rate, stepsdone, dest
  live,     \* blocks not freed
  drawn,    \* what the last visual_bin_run let the plugins draw
  ub        \* undefined behaviour executed

vars == <<bin, actors, videos, morphs, live, drawn, ub>>

Object == Actor \cup Video \cup Morph

Styles == {"DIRECT", "MORPH"}

(* Allocation: one of the blocks nothing points to any more.  A block that *)
(* a dangling pointer still names is not reused, which would only hide the *)
(* mistake, and a leaked one may be: nothing can tell.                     *)
Pick(S) == CHOOSE x \in S : TRUE

-----------------------------------------------------------------------------
(* Depths *)

Flag(a) == Supported[actors[a].name]

(* bin_get_depth_using_preferred *)
PreferredDepth(flag) ==
  IF PreferLowest THEN DepthGetLowest(flag) ELSE DepthGetHighest(flag)

(* fix_depth_with_bin *)
FixDepthUntested(d) ==  \* slip: without the test
  DepthGetHighestNoGL(BinDepth)

FixDepth(d) == IF d \in BinDepth THEN d ELSE DepthGetHighestNoGL(BinDepth)

SetDepthUnset(b, d) ==  \* slip: the depth is not stored
  [b EXCEPT !.depthold = b.depth, !.depthchanged = @ \/ b.depth # d,
            !.depthfromGL = FALSE]

(* visual_bin_set_depth, without its last call on the client's video. *)
SetDepth(b, d) ==
  IF ~DepthIsSupported(BinDepth, d) THEN [b EXCEPT !.depthold = b.depth]
  ELSE LET changed == b.depthchanged \/ b.depth # d IN
       [b EXCEPT !.depthold = b.depth,
                 !.depthchanged = changed,
                 !.depthfromGL = b.depth = DepthGL /\ changed,
                 !.depth = d]

(* That call: visual_video_set_depth (bin->actvideo, depth). *)
SetActVideo(vs, d) ==
  IF DepthIsSupported(BinDepth, d) THEN [vs EXCEPT ![ActVideo] = d] ELSE vs

(* visual_actor_video_negotiate: depth of the transform video it leaves,   *)
(* NONE for no transform.                                                  *)
Negotiated(flag, videodepth, rundepth, forced) ==
  IF DepthIsSupported(flag, videodepth) /\ ~(forced /\ videodepth # rundepth)
  THEN [made |-> FALSE, depth |-> DepthNone]
  ELSE [made |-> TRUE,
        depth |-> IF forced THEN rundepth ELSE DepthGetHighestNoGL(flag)]

NoTransform == [made |-> FALSE, depth |-> DepthNone]

(* The depths that v->depth may read as: any of them once v is freed. *)
Read(v, vs, alive) == IF v \in alive THEN {vs[v]} ELSE DepthBit

(* visual_actor_run: the surface handed to the plugin's render function. *)
Draw(act, videodepth) ==
  [name |-> act.name,
   depth |-> IF act.transform.made /\ act.transform.depth # videodepth
             THEN act.transform.depth ELSE videodepth]

-----------------------------------------------------------------------------
(* The state a client starts from: bin_new, set_supported_depth,           *)
(* set_video, connect, realize, sync, depth_changed.                       *)

ConnectDepth(flag) ==
  IF flag = {DepthGL} THEN DepthGL
  ELSE LET d == PreferredDepth(flag) IN
       IF d \in BinDepth THEN d ELSE DepthGetHighestNoGL(BinDepth)

NewActor(n, v) ==
  [name |-> n, video |-> v, transform |-> NoTransform, realized |-> FALSE]

(* visual_morph_init: mode SET, rate 0, no destination. *)
NewMorph(loaded) ==
  [loaded |-> loaded, mode |-> "SET", rate |-> 0, stepsdone |-> 0,
   dest |-> Null]

Init ==
  \E n \in Known :
    LET d == ConnectDepth(Supported[n])
        a == Pick(Actor)
    IN
    /\ bin = [actor |-> a, actmorph |-> Null, privvid |-> Null,
              actmorphvideo |-> Null, morph |-> Null,
              actmorphmanaged |-> FALSE, morphmanaged |-> FALSE,
              morphing |-> FALSE, style |-> "MORPH", mode |-> "TIME",
              depth |-> d, depthold |-> DepthNone, depthchanged |-> FALSE,
              depthfromGL |-> FALSE, depthforced |-> DepthNone,
              depthforcedmain |-> d]
    /\ actors = [x \in Actor |->
                  [NewActor(n, ActVideo) EXCEPT
                     !.realized = TRUE,
                     !.transform = Negotiated(Supported[n], d,
                                     IF Managed THEN d ELSE 0, Managed)]]
    /\ videos = [v \in Video |-> d]
    /\ morphs = [m \in Morph |-> NewMorph(TRUE)]
    /\ live = {a, ActVideo}
    /\ drawn = {}
    /\ ub = {}

-----------------------------------------------------------------------------
(* visual_bin_set_morph_by_name: the old morph is released, the new one    *)
(* dropped again when it cannot morph at the depth of the client's video.  *)

SetMorphByName(loaded) ==
  LET m == Pick(Morph)
      kept == ~loaded \/ DepthIsSupported(MorphDepth, videos[ActVideo])
  IN
  /\ Eager \/ ~bin.morphing
  /\ bin' = [bin EXCEPT !.morph = IF kept THEN m ELSE Null,
                        !.morphmanaged = TRUE]
  /\ morphs' = [morphs EXCEPT ![m] = NewMorph(loaded)]
  /\ live' = (live \ {bin.morph}) \cup (IF kept THEN {m} ELSE {})
  /\ UNCHANGED <<actors, videos, drawn, ub>>

(* visual_bin_switch_set_style, visual_bin_switch_set_mode *)
SetStyle(s) ==
  /\ Eager \/ ~bin.morphing
  /\ bin' = [bin EXCEPT !.style = s]
  /\ UNCHANGED <<actors, videos, morphs, live, drawn, ub>>

SetMode(m) ==
  /\ bin' = [bin EXCEPT !.mode = m]
  /\ UNCHANGED <<actors, videos, morphs, live, drawn, ub>>

-----------------------------------------------------------------------------
(* visual_bin_switch_actor_by_name *)

(* "Destroy if there already is a managed one" *)
Released ==
  IF bin.actmorphmanaged /\ bin.actmorph # Null
  THEN {bin.actmorph, bin.actmorphvideo} \ {Null}
  ELSE {}

SwitchDepthsNoGL(n) ==  \* slip: OpenGL is not asked of the bin
  LET want == FixDepth(PreferredDepth(Supported[n])) IN
  [forced |-> want, main |-> bin.depth, ask |-> DepthNone, video |-> want]

SwitchDepthsForcedHigh(n) ==  \* slip: forces the depth of the old actor
  LET have == videos[ActVideo]
      fixed == FixDepth(PreferredDepth(Supported[n]))
  IN
  IF DepthIsSupported(Supported[n], DepthGL)
  THEN [forced |-> DepthGL, main |-> DepthGL, ask |-> DepthGL,
        video |-> DepthGL]
  ELSE IF have > fixed /\ have # DepthGL
  THEN [forced |-> have, main |-> bin.depth, ask |-> have, video |-> have]
  ELSE [forced |-> fixed, main |-> bin.depth, ask |-> fixed, video |-> fixed]

(* The depths of the switch: forced on the new actor, on the main actor,   *)
(* asked of the bin (NONE: not asked), and given to the new actor's video. *)
SwitchDepths(n) ==
  LET have == videos[ActVideo]
      want == PreferredDepth(Supported[n])
      fixed == FixDepth(want)
  IN
  IF DepthIsSupported(Supported[n], DepthGL)
  THEN [forced |-> DepthGL, main |-> DepthGL, ask |-> DepthGL,
        video |-> DepthGL]
  ELSE IF have > fixed /\ have # DepthGL /\ bin.style = "MORPH"
  THEN [forced |-> want, main |-> bin.depth, ask |-> have, video |-> have]
  ELSE IF have # DepthGL
  THEN [forced |-> fixed, main |-> bin.depth, ask |-> fixed, video |-> fixed]
  ELSE [forced |-> fixed, main |-> fixed, ask |-> DepthNone, video |-> fixed]

(* "Drop a transformation environment when not needed" *)
MainBeforeSwitch(n, maindepth) ==
  LET main == actors[bin.actor] IN
  IF DepthIsSupported(Supported[n], DepthGL)
     \/ bin.depthforcedmain = videos[ActVideo]
  THEN main
  ELSE [main EXCEPT !.transform =
          Negotiated(Flag(bin.actor), maindepth, bin.depthforcedmain, TRUE)]

(* bin->morph != NULL && bin->morph->plugin != NULL *)
HasMorph(ms) == bin.morph # Null /\ ms[bin.morph].loaded

(* visual_bin_switch_actor, "Starting the morph": rate, destination and    *)
(* mode are set, stepsdone and the timer are not.                          *)
StartMorphInSetMode(ms) ==  \* slip: the mode is not set
  IF HasMorph(ms)
  THEN [ms EXCEPT ![bin.morph].rate = 0, ![bin.morph].dest = ActVideo]
  ELSE ms

StartMorph(ms) ==
  IF HasMorph(ms)
  THEN [ms EXCEPT ![bin.morph].rate = 0, ![bin.morph].dest = ActVideo,
                  ![bin.morph].mode = bin.mode]
  ELSE ms

SwitchActorByName(n) ==
  LET sd == SwitchDepths(n)
      target == actors[bin.actor].video
      b1 == IF sd.ask = DepthNone THEN bin ELSE SetDepth(bin, sd.ask)
      vs1 == IF sd.ask = DepthNone THEN videos ELSE SetActVideo(videos, sd.ask)
      a == Pick(Actor \ {bin.actor})
      w == Pick(Video \ {ActVideo, target})
      p == Pick(Video \ {ActVideo, target, w})
      freed == Released \cup ({bin.privvid} \ {Null})
      alive == live \ freed
  IN
  /\ n \in Known
  /\ Eager \/ ~bin.morphing
  /\ \E before \in Read(target, videos, live), after \in Read(target, vs1, alive) :
       LET main == MainBeforeSwitch(n, before)
           morphs2 == /\ bin.style = "MORPH"
                      /\ after # DepthGL
                      /\ sd.video # DepthGL
                      /\ ~b1.depthfromGL
       IN
       /\ bin' = [b1 EXCEPT !.depthforced = sd.forced,
                            !.depthforcedmain = sd.main,
                            !.depthchanged = @ \/ sd.ask = DepthGL,
                            !.actmorph = a, !.actmorphvideo = w,
                            !.actmorphmanaged = TRUE,
                            !.privvid = IF morphs2 THEN p ELSE Null,
                            !.morphing = TRUE]
       /\ actors' = [actors EXCEPT
                       ![bin.actor] = IF morphs2 THEN [main EXCEPT !.video = p]
                                      ELSE main,
                       ![a] = NewActor(n, w)]
       /\ videos' = [vs1 EXCEPT ![w] = sd.video,
                                ![p] = IF morphs2 THEN vs1[ActVideo] ELSE @]
       /\ morphs' = IF morphs2 THEN StartMorph(morphs) ELSE morphs
       /\ live' = alive \cup {a, w} \cup (IF morphs2 THEN {p} ELSE {})
  /\ ub' = ub \cup (IF freed \subseteq live /\ target \in alive THEN {}
                    ELSE {"freed"})
  /\ UNCHANGED drawn

(* visual_actor_new found no such plugin: the early return leaves the      *)
(* released actmorph and actmorphvideo where they were.                    *)
SwitchUnknownActor(n) ==
  /\ n \notin Known
  /\ Eager \/ ~bin.morphing
  /\ live' = live \ Released
  /\ ub' = ub \cup (IF Released \subseteq live THEN {} ELSE {"freed"})
  /\ UNCHANGED <<bin, actors, videos, morphs, drawn>>

-----------------------------------------------------------------------------
(* The client's answer to visual_bin_depth_changed, or to a new size:      *)
(* clear the flag, give its video the depth of the bin, visual_bin_sync.   *)

(* visual_bin_sync up to the negotiation of the main actor. *)
SyncsMorph ==
  /\ bin.morphing
  /\ bin.style = "MORPH"
  /\ bin.depth # DepthGL
  /\ ~bin.depthfromGL

(* The private video keeps the main actor unless the new actor is GL. *)
SyncTargetClient == ActVideo  \* slip: the private video is not used

SyncTarget ==
  IF SyncsMorph /\ videos[bin.actmorphvideo] # DepthGL
  THEN bin.privvid ELSE ActVideo

(* The private video is missing: visual_bin_sync returns -1. *)
SyncFails == SyncsMorph /\ bin.privvid = Null

SyncReadsNew == bin.morphing /\ bin.style = "MORPH" /\ ~SyncFails

ClientSync ==
  LET vs1 == [videos EXCEPT ![ActVideo] = bin.depth]
      vs2 == IF SyncsMorph THEN [vs1 EXCEPT ![bin.privvid] = bin.depth] ELSE vs1
      vs3 == IF bin.morphing /\ bin.style = "MORPH"
             THEN [vs2 EXCEPT ![bin.actmorphvideo] = vs2[SyncTarget]] ELSE vs2
      forced == Managed \/ bin.depthold = DepthGL
      rundepth == IF Managed THEN bin.depthforcedmain ELSE 0
      main == [actors[bin.actor] EXCEPT
                 !.video = SyncTarget,
                 !.transform = Negotiated(Flag(bin.actor), vs2[SyncTarget],
                                          rundepth, forced)]
  IN
  /\ SyncReadsNew => bin.actmorph \in live
  /\ bin' = [bin EXCEPT !.depthchanged = FALSE]
  /\ morphs' = IF SyncsMorph /\ bin.morph # Null
               THEN [morphs EXCEPT ![bin.morph].dest = ActVideo] ELSE morphs
  /\ IF SyncFails
     THEN videos' = vs1 /\ UNCHANGED actors
     ELSE /\ videos' = vs3
          /\ actors' =
               IF bin.morphing /\ bin.style = "MORPH"
               THEN [actors EXCEPT
                       ![bin.actor] = main,
                       ![bin.actmorph].realized = TRUE,
                       ![bin.actmorph].transform =
                          Negotiated(Flag(bin.actmorph), vs3[bin.actmorphvideo],
                                     bin.depthforced, TRUE)]
               ELSE [actors EXCEPT ![bin.actor] = main]
  /\ UNCHANGED <<live, drawn, ub>>

(* A sync that negotiates an actor already freed. *)
SyncBroken ==
  /\ SyncReadsNew
  /\ bin.actmorph \notin live
  /\ ub' = ub \cup {"freed"}
  /\ UNCHANGED <<bin, actors, videos, morphs, live, drawn>>

-----------------------------------------------------------------------------
(* visual_bin_run *)

(* "We realize here": both actors of a running switch, with negotiation. *)
RealizedActors(maindepth) ==
  LET realize(a, videodepth, rundepth, forced) ==
        IF actors[a].realized THEN actors[a]
        ELSE [actors[a] EXCEPT
                !.realized = TRUE,
                !.transform = Negotiated(Flag(a), videodepth, rundepth, forced)]
  IN  [actors EXCEPT
         ![bin.actmorph] = realize(bin.actmorph, videos[bin.actmorphvideo],
                                   bin.depthforced, TRUE),
         ![bin.actor] = realize(bin.actor, maindepth,
                                IF Managed THEN bin.depthforced ELSE 0,
                                Managed)]

(* visual_bin_switch_finalize: the blocks it releases, ...                 *)
FinalizeFreesTheNew ==  \* slip: releases after the pointers have moved
  ({bin.privvid, bin.actmorphvideo}
     \cup (IF Managed THEN {bin.actmorph} ELSE {})
     \cup (IF bin.morphmanaged THEN {bin.morph} ELSE {})) \ {Null}

FinalizeForgetsPrivvid ==  \* slip: a block not released
  ({bin.actmorphvideo}
     \cup (IF Managed THEN {bin.actor} ELSE {})
     \cup (IF bin.morphmanaged THEN {bin.morph} ELSE {})) \ {Null}

FinalizeFrees ==
  ({bin.privvid, bin.actmorphvideo}
     \cup (IF Managed THEN {bin.actor} ELSE {})
     \cup (IF bin.morphmanaged THEN {bin.morph} ELSE {})) \ {Null}

(* ... the pointers it leaves, before it asks for the depth, ...           *)
FinalizedKeepsVideo ==  \* slip: a pointer not cleared
  [bin EXCEPT !.actor = bin.actmorph, !.actmorph = Null, !.privvid = Null,
              !.morphing = FALSE,
              !.morph = IF bin.morphmanaged THEN Null ELSE @]

FinalizedKeepsPrivvid ==  \* slip: a pointer not cleared
  [bin EXCEPT !.actor = bin.actmorph, !.actmorph = Null,
              !.actmorphvideo = IF bin.actmorphmanaged THEN Null ELSE @,
              !.morphing = FALSE,
              !.morph = IF bin.morphmanaged THEN Null ELSE @]

FinalizedOnlyManaged ==  \* slip: the actor moves with the release only
  [bin EXCEPT !.actor = IF Managed THEN bin.actmorph ELSE @,
              !.actmorph = Null,
              !.actmorphvideo = IF bin.actmorphmanaged THEN Null ELSE @,
              !.privvid = Null, !.morphing = FALSE,
              !.morph = IF bin.morphmanaged THEN Null ELSE @]

Finalized ==
  [bin EXCEPT !.actor = bin.actmorph, !.actmorph = Null,
              !.actmorphvideo = IF bin.actmorphmanaged THEN Null ELSE @,
              !.privvid = Null, !.morphing = FALSE,
              !.morph = IF bin.morphmanaged THEN Null ELSE @]

(* ... and the whole of it, as being the actors when it is called.         *)
SwitchFinalize(as) ==
  LET new == bin.actmorph
      d == FixDepth(PreferredDepth(Flag(new)))
      after == [SetDepth(Finalized, d) EXCEPT !.depthforcedmain = d]
  IN
  /\ bin' = after
  /\ videos' = [videos EXCEPT ![ActVideo] = d]
  /\ actors' = [as EXCEPT
                  ![new].video = ActVideo,
                  ![new].transform = IF after.depthchanged
                                     THEN Negotiated(Flag(new), d, d, TRUE)
                                     ELSE @]
  /\ live' = live \ FinalizeFrees
  /\ ub' = ub \cup (IF FinalizeFrees \subseteq live THEN {} ELSE {"freed"})

(* A run between switches.  No client runs a bin whose depth has changed:  *)
(* renderBitmap tests for it before every run, and syncs.                  *)
RunIdle ==
  LET main == actors[bin.actor] IN
  /\ ~bin.depthchanged
  /\ ~bin.morphing
  /\ actors' = [actors EXCEPT ![bin.actor].realized = TRUE]
  /\ drawn' = {Draw(main, videos[main.video])}
  /\ UNCHANGED <<bin, videos, morphs, live, ub>>

(* A run in the middle of a switch; maindepth is what                      *)
(* bin->actor->video->depth reads as.                                      *)
Switching(maindepth) ==
  /\ ~bin.depthchanged
  /\ bin.morphing
  /\ maindepth \in Read(actors[bin.actor].video, videos, live)

(* "When the style is DIRECT or the context is GL we shouldn't try to      *)
(* morph and instead finalize at once"                                     *)
RunDirect(maindepth) ==
  /\ Switching(maindepth)
  /\ bin.actmorph \in live
  /\ bin.style = "DIRECT" \/ maindepth = DepthGL
  /\ SwitchFinalize(RealizedActors(maindepth))
  /\ drawn' = {}
  /\ UNCHANGED morphs

MorphGuard(maindepth) ==
  /\ Switching(maindepth)
  /\ bin.actmorph \in live
  /\ bin.style = "MORPH"
  /\ maindepth # DepthGL

(* The new actor draws with OpenGL and the old one does not. *)
WaitsForGL == videos[bin.actmorphvideo] = DepthGL

DrawBoth(as, maindepth) ==
  drawn' = {Draw(as[bin.actor], maindepth),
            Draw(as[bin.actmorph], videos[bin.actmorphvideo])}

(* No morph, or one without a plugin: the switch ends here. *)
RunWithoutMorph(maindepth) ==
  LET as == RealizedActors(maindepth) IN
  /\ MorphGuard(maindepth)
  /\ ~WaitsForGL
  /\ ~HasMorph(morphs)
  /\ DrawBoth(as, maindepth)
  /\ SwitchFinalize(as)
  /\ UNCHANGED morphs

(* visual_morph_run: the rate after it.  By time it is full once the clock *)
(* has passed morphtime.                                                   *)
RateAfter(mo, late) ==
  CASE mo.mode = "STEPS" -> IF mo.rate < Steps THEN mo.rate + 1 ELSE Steps
    [] mo.mode = "TIME"  -> IF late THEN Steps ELSE 0
    [] OTHER             -> mo.rate

(* visual_morph_is_done *)
IsDone(mo) ==
  /\ mo.mode # "SET"
  /\ mo.rate >= Steps \/ (mo.mode = "STEPS" /\ mo.stepsdone = Steps)

(* The morph after visual_morph_run. *)
MorphRun(mo, late) ==
  [mo EXCEPT !.rate = RateAfter(mo, late),
             !.stepsdone = IF mo.mode = "STEPS" THEN @ + 1 ELSE @]

MorphRuns(maindepth) ==
  /\ MorphGuard(maindepth)
  /\ ~WaitsForGL
  /\ HasMorph(morphs)
  /\ morphs[bin.morph].dest # Null

(* A frame that leaves the switch running: the morph is not done, or only  *)
(* the old actor is drawn (the finalize in that branch is commented out).  *)
RunGoesOn(maindepth) ==
  LET as == RealizedActors(maindepth) IN
  /\ actors' = as
  /\ IF MorphGuard(maindepth) /\ WaitsForGL
     THEN /\ drawn' = {Draw(as[bin.actor], maindepth)}
          /\ UNCHANGED morphs
     ELSE /\ MorphRuns(maindepth)
          /\ ~IsDone(MorphRun(morphs[bin.morph], FALSE))
          /\ DrawBoth(as, maindepth)
          /\ morphs' = [morphs EXCEPT ![bin.morph] = MorphRun(@, FALSE)]
  /\ UNCHANGED <<bin, videos, live, ub>>

(* The frame after which visual_morph_is_done, resetting the steps. *)
RunMorphDone(maindepth, late) ==
  LET as == RealizedActors(maindepth)
      after == MorphRun(morphs[bin.morph], late)
  IN
  /\ MorphRuns(maindepth)
  /\ IsDone(after)
  /\ DrawBoth(as, maindepth)
  /\ SwitchFinalize(as)
  /\ morphs' = [morphs EXCEPT ![bin.morph] =
                  [after EXCEPT !.stepsdone =
                     IF after.mode = "STEPS" /\ after.rate >= Steps
                     THEN 0 ELSE @]]

(* visual_morph_run on a morph that was given no destination, or a run of  *)
(* a freed actor: the process has undefined behaviour from here on.        *)
RunBroken(maindepth) ==
  /\ Switching(maindepth)
  /\ \/ bin.actmorph \notin live /\ ub' = ub \cup {"freed"}
     \/ /\ MorphGuard(maindepth)
        /\ ~WaitsForGL
        /\ HasMorph(morphs)
        /\ morphs[bin.morph].dest = Null
        /\ ub' = ub \cup {"null"}
  /\ UNCHANGED <<bin, actors, videos, morphs, live, drawn>>

-----------------------------------------------------------------------------
Run ==
  \/ RunIdle
  \/ \E d \in DepthBit :
       \/ RunDirect(d)
       \/ RunWithoutMorph(d)
       \/ RunGoesOn(d)
       \/ \E late \in BOOLEAN : RunMorphDone(d, late)
       \/ RunBroken(d)

Switch ==
  \/ \E n \in Known : SwitchActorByName(n)
  \/ \E n \in ActorName : SwitchUnknownActor(n)

Client ==
  \/ \E loaded \in BOOLEAN : SetMorphByName(loaded)
  \/ \E s \in Styles : SetStyle(s)
  \/ \E m \in Modes : SetMode(m)

Next == Run \/ Switch \/ Client \/ ClientSync \/ SyncBroken

(* The render loop goes on, and the clock with it. *)
Fairness ==
  /\ WF_vars(Run)
  /\ WF_vars(ClientSync /\ bin.depthchanged)
  /\ WF_vars(\E d \in DepthBit : RunMorphDone(d, TRUE))

Spec == Init /\ [][Next]_vars
FairSpec == Spec /\ Fairness

-----------------------------------------------------------------------------
(* Properties *)

Transform == [made : BOOLEAN, depth : DepthValue]

BinState ==
  [actor : Actor, actmorph : Actor \cup {Null},
   privvid : Video \cup {Null}, actmorphvideo : Video \cup {Null},
   morph : Morph \cup {Null},
   actmorphmanaged : BOOLEAN, morphmanaged : BOOLEAN,
   morphing : BOOLEAN, style : Styles, mode : {"TIME", "STEPS"},
   depth : DepthBit, depthold : DepthBit \cup {DepthNone},
   depthchanged : BOOLEAN, depthfromGL : BOOLEAN,
   depthforced : DepthBit \cup {DepthNone}, depthforcedmain : DepthBit]

ActorState ==
  [name : Known, video : Video, transform : Transform, realized : BOOLEAN]

MorphState ==
  [loaded : BOOLEAN, mode : {"SET", "TIME", "STEPS"}, rate : 0..Steps,
   stepsdone : Nat, dest : {ActVideo, Null}]

(* Every field of the bin and of its objects holds what C may put there:   *)
(* in particular no depth the bin runs in is one of the error values that  *)
(* visual_video_depth_get_highest_nogl returns.                            *)
TypeOK ==
  /\ bin \in BinState
  /\ actors \in [Actor -> ActorState]
  /\ videos \in [Video -> DepthBit]
  /\ morphs \in [Morph -> MorphState]
  /\ live \subseteq Object
  /\ drawn \subseteq [name : Known, depth : DepthValue]
  /\ ub \subseteq {"freed", "null"}

(* The blocks that the bin and its client can reach. *)
Reachable ==
  {bin.actor, bin.actmorph, bin.privvid, bin.actmorphvideo, bin.morph,
   ActVideo} \ {Null}

(* The bin never keeps a pointer to memory it has released, whatever the   *)
(* order of switches, syncs and runs (lv_bin.c frees in four functions).   *)
PointersLive ==
  /\ Reachable \subseteq live
  /\ actors[bin.actor].video \in Reachable

(* A managed bin loses no block: switch after switch, what is allocated    *)
(* and what can still be reached are the same.                             *)
NothingLost == Managed => live = Reachable

(* A switch owns its objects for exactly as long as it runs: the new actor *)
(* and its video exist while morphing, they are different blocks, and the  *)
(* finalize leaves nothing of them, so that the next switch starts clean.  *)
SwitchOwnsItsObjects ==
  /\ bin.morphing <=> bin.actmorph # Null
  /\ bin.morphing <=> bin.actmorphvideo # Null
  /\ bin.privvid # Null => bin.morphing
  /\ bin.morphing =>
       /\ bin.actmorph # bin.actor
       /\ actors[bin.actmorph].video = bin.actmorphvideo
       /\ bin.actmorphvideo \notin {ActVideo, bin.privvid}
  /\ ActVideo # bin.privvid

(* No call reads or releases a freed block, and no morph runs without a    *)
(* destination, as long as the client lets a switch end before the next.   *)
NoUndefinedBehaviour == ub = {}

(* Every plugin is handed a surface in a depth it draws in: what the       *)
(* negotiations of the switch, the sync and the run are for.               *)
DrawsSupportedDepth ==
  \A d \in drawn : d.depth \in Supported[d.name]

(* A client that renders without having synced a changed depth draws into  *)
(* a surface of the wrong format: between switches the bin, the client's   *)
(* video and the actor on screen agree on the depth.                       *)
DepthsAgree ==
  ~bin.morphing =>
    /\ bin.depth = videos[ActVideo]
    /\ actors[bin.actor].video = ActVideo
    /\ bin.depth \in Supported[actors[bin.actor].name]

(* Both sides of a frame that morphs are framebuffers: the branch of the   *)
(* run that would keep a switch waiting for OpenGL is never taken, because *)
(* the client has synced by then.                                          *)
NeverWaitsForGL ==
  /\ bin.morphing
  /\ ~bin.depthchanged
  /\ bin.style = "MORPH"
  /\ videos[actors[bin.actor].video] # DepthGL
  => ~WaitsForGL

(* Morphing writes the result into the client's video while both actors    *)
(* draw elsewhere: a morph never reads the surface it writes.              *)
MorphReadsPrivateVideos ==
  [][\A d \in DepthBit, late \in BOOLEAN :
       RunGoesOn(d) \/ RunMorphDone(d, late) =>
         /\ actors[bin.actor].video # morphs[bin.morph].dest
         /\ actors[bin.actmorph].video # morphs[bin.morph].dest]_vars

(* A switch that was started ends, through the morph or without one, as    *)
(* long as frames are drawn and the client answers depth changes.          *)
SwitchEnds == bin.morphing ~> ~bin.morphing

(* The bin keeps the promise of ActorSwitch: the actor of a switch takes   *)
(* over only as a whole, and it is the last one asked for.                 *)
Shown == actors[bin.actor].name
Wanted == IF bin.morphing THEN actors[bin.actmorph].name ELSE Null
Promise == INSTANCE ActorSwitch WITH
             Name <- Known, NoName <- Null, shown <- Shown, wanted <- Wanted
KeepsPromise == Promise!Spec

=============================================================================
