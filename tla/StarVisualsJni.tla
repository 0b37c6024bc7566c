--------------------------- MODULE StarVisualsJni ---------------------------
(***************************************************************************)
(* The native layer of the application (starvisuals.c): the calls of the   *)
(* user interface thread and the frames of the render thread, on one bin   *)
(* and one mutex.                                                          *)
(*                                                                         *)
(* A call that takes the mutex does its work in one step; a call that does *)
(* not goes statement by statement, and so does a frame.  Of the bin this  *)
(* module has what the calls touch outside the mutex: the input, the       *)
(* morph, the style, the morphing flag, and the event queue of the actor   *)
(* on screen.  The actors, their depths and their videos are in VisBin,    *)
(* and with them what goes wrong under the mutex too: a second switch      *)
(* before the next frame reads the private video that the first one freed. *)
(* What the events carry is in EventQueue.                                 *)
(*                                                                         *)
(* "ub" is the undefined behaviour executed: "morph", "input" or "event"   *)
(* where freed memory of that kind is used, "null" where a morph runs with *)
(* no destination.  Nothing is said about the process from there on, and   *)
(* it takes no more steps.                                                 *)
(***************************************************************************)
EXTENDS Integers, Sequences

CONSTANTS
  Morph, Input,   \* memory blocks
  Queue, Event,   \* event queues of actors, list entries of events
  MaxEvents,      \* VISUAL_EVENT_MAXEVENTS
  Null

Locked == {"finalizeSwitch", "finalizeActor", "cycleMorph"}
Unlocked == {"morphSetCurrent", "finalizeInput", "setMorphStyle", "mouseMotion"}

(* What the calls share with the frames and free, or relink, unlocked. *)
Shared == {"morph", "input", "event"}

(* There are blocks enough for an allocation to succeed. *)
ASSUME StarVisualsJniAssumption ==
  /\ \A m, n \in Morph \cup {Null} : Morph \ {m, n} # {}
  /\ Input # {}
  /\ \A q, r \in Queue \cup {Null} : Queue \ {q, r} # {}
  /\ MaxEvents \in Nat
  /\ Null \notin Morph \cup Input \cup Queue \cup Event
  /\ Null \notin {"ui", "gl"} \cup Locked \cup Unlocked
  /\ Morph \cap Input = {}

VARIABLES
  mutex,   \* v.mutex: the thread that has it, or Null
  ui,      \* pc, call and locals of the user interface thread
  gl,      \* pc of the render thread
  bin,     \* input, morph, morphing, style
  queue,   \* the event queue of the actor on screen
  morphs,  \* morphs[m]: automatic mode set, dest set, rate full
  live,    \* blocks not freed
  ub,      \* undefined behaviour executed
  raced    \* Shared: what a statement outside the mutex, while a frame was
           \* in its area, had to do with

vars == <<mutex, ui, gl, bin, queue, morphs, live, ub, raced>>

Pick(S) == CHOOSE x \in S : TRUE

NewMorph == [auto |-> FALSE, dest |-> FALSE, full |-> FALSE]

NewQueue(q) == [id |-> q, list |-> << >>, count |-> 0]

(* The user interface thread at pc, with no event begun. *)
UiLocals(pc, call, old, q) ==
  [pc |-> pc, call |-> call, old |-> old, queue |-> q, tail |-> Null, count |-> 0]

UiIdle == UiLocals("idle", Null, Null, Null)

(* app_main: an input, no morph yet, style MORPH. *)
Init ==
  /\ mutex = Null
  /\ ui = UiIdle
  /\ gl = "idle"
  /\ bin = [input |-> Pick(Input), morph |-> Null, morphing |-> FALSE,
            style |-> "MORPH"]
  /\ queue = NewQueue(Pick(Queue))
  /\ morphs = [m \in Morph |-> NewMorph]
  /\ live = {bin.input}
  /\ ub = {}
  /\ raced = {}

-----------------------------------------------------------------------------
(* The library, as both threads use it. *)

(* visual_morph_is_done; the mode is SET until a switch sets it. *)
IsDone(m) == morphs[m].auto /\ morphs[m].full

(* A morph block for a new morph: none that a pointer still names. *)
FreshMorph == Pick(Morph \ {bin.morph, ui.old})

Freed(kind, blocks) == IF blocks \subseteq live THEN {} ELSE {kind}

(* visual_bin_switch_actor_by_name, "Starting the morph" *)
Started(m, ms) ==
  IF bin.style = "MORPH" /\ m # Null
  THEN [ms EXCEPT ![m] = [auto |-> TRUE, dest |-> TRUE, full |-> FALSE]]
  ELSE ms

(* visual_bin_switch_finalize, of a bin whose morph is managed: the new    *)
(* actor, and with it its queue, takes the place of the old one.           *)
Finalize ==
  /\ bin' = [bin EXCEPT !.morph = Null, !.morphing = FALSE]
  /\ queue' = NewQueue(Pick(Queue \ {queue.id, ui.queue}))
  /\ live' = live \ {bin.morph}
  /\ ub' = ub \cup Freed("morph", {bin.morph} \ {Null})

-----------------------------------------------------------------------------
(* User interface thread *)

UiKeeps == UNCHANGED <<gl, bin, queue, morphs, live, ub>>

UiAt(pc) == ui.pc = pc

UiGoes(pc) == ui' = [ui EXCEPT !.pc = pc]

UiReturns == ui' = UiIdle

UiStarts(pc, call, old) == ui' = UiLocals(pc, call, old, Null)

(* A statement without the mutex, of a call that has to do with "kinds". *)
Outside(kinds) ==
  /\ raced' = IF gl = "idle" THEN raced ELSE raced \cup kinds
  /\ UNCHANGED mutex

(* finalizeSwitch reads the morph of the bin before it takes the lock. *)
FinalizeSwitch ==
  /\ UiAt("idle")
  /\ UiStarts(IF bin.morph = Null THEN "lock" ELSE "fsTest",
              "finalizeSwitch", bin.morph)
  /\ Outside({"morph"})
  /\ UiKeeps

(* "if(bin_morph && !visual_morph_is_done(bin_morph)) return FALSE" *)
FsAcceptsAll(m) == TRUE  \* slip: without the test

FsAccepts(m) == IsDone(m)

FsTest ==
  /\ UiAt("fsTest")
  /\ ub' = ub \cup Freed("morph", {ui.old})
  /\ IF FsAccepts(ui.old) THEN UiGoes("lock") ELSE UiReturns
  /\ Outside({"morph"})
  /\ UNCHANGED <<gl, bin, queue, morphs, live>>

(* finalizeActor, cycleMorph *)
LockedCall(call) ==
  /\ UiAt("idle")
  /\ UiStarts("lock", call, Null)
  /\ UNCHANGED <<mutex, raced>>
  /\ UiKeeps

UiLock ==
  /\ UiAt("lock")
  /\ mutex = Null
  /\ mutex' = "ui"
  /\ UiGoes("body")
  /\ UNCHANGED raced
  /\ UiKeeps

(* finalizeSwitch: a new morph, and the next actor with it. *)
SwitchWithMorph ==
  LET m == FreshMorph IN
  /\ bin' = [bin EXCEPT !.morph = m, !.morphing = TRUE]
  /\ morphs' = Started(m, [morphs EXCEPT ![m] = NewMorph])
  /\ live' = (live \ {bin.morph}) \cup {m}
  /\ ub' = ub \cup Freed("morph", {bin.morph} \ {Null})

(* finalizeActor: the actor with the morph that is there. *)
SwitchActor ==
  /\ bin' = [bin EXCEPT !.morphing = TRUE]
  /\ morphs' = Started(bin.morph, morphs)
  /\ UNCHANGED <<live, ub>>

(* finalizeMorph under the mutex.  visual_morph_is_done (NULL) is an error *)
(* code, and so true; a done morph is unreferenced here and once more by   *)
(* visual_bin_set_morph_by_name.                                           *)
FinalizeMorphAlways ==  \* slip: without the look at is_done
  /\ bin' = [bin EXCEPT !.morph = FreshMorph]
  /\ morphs' = [morphs EXCEPT ![FreshMorph] = NewMorph]
  /\ live' = (live \ {bin.morph}) \cup {FreshMorph}
  /\ ub' = IF bin.morph = Null THEN ub ELSE ub \cup {"morph"}

FinalizeMorph ==
  IF bin.morph = Null \/ IsDone(bin.morph)
  THEN /\ bin' = [bin EXCEPT !.morph = FreshMorph]
       /\ morphs' = [morphs EXCEPT ![FreshMorph] = NewMorph]
       /\ live' = (live \ {bin.morph}) \cup {FreshMorph}
       /\ ub' = IF bin.morph = Null THEN ub ELSE ub \cup {"morph"}
  ELSE UNCHANGED <<bin, morphs, live, ub>>

UiBody ==
  /\ UiAt("body")
  /\ \/ ui.call = "finalizeSwitch" /\ SwitchWithMorph
     \/ ui.call = "finalizeActor" /\ SwitchActor
     \/ ui.call = "cycleMorph" /\ FinalizeMorph
  /\ UiGoes("unlock")
  /\ UNCHANGED <<mutex, gl, queue, raced>>

UiUnlockForgotten ==  \* slip: returns with the mutex
  /\ UiAt("unlock")
  /\ UiReturns
  /\ UNCHANGED <<mutex, raced>>
  /\ UiKeeps

UiUnlock ==
  /\ UiAt("unlock")
  /\ mutex' = Null
  /\ UiReturns
  /\ UNCHANGED raced
  /\ UiKeeps

(* morphSetCurrent, morphSetCurrentByName with now: finalizeMorph, without *)
(* the mutex.                                                              *)
MorphSetCurrent ==
  /\ UiAt("idle")
  /\ UiStarts(IF bin.morph = Null THEN "msRelease" ELSE "msTest",
              "morphSetCurrent", bin.morph)
  /\ Outside({"morph"})
  /\ UiKeeps

MsTest ==
  /\ UiAt("msTest")
  /\ ub' = ub \cup Freed("morph", {ui.old})
  /\ IF IsDone(ui.old) THEN UiGoes("msUnref") ELSE UiReturns
  /\ Outside({"morph"})
  /\ UNCHANGED <<gl, bin, queue, morphs, live>>

MsUnref ==
  /\ UiAt("msUnref")
  /\ ub' = ub \cup Freed("morph", {ui.old})
  /\ live' = live \ {ui.old}
  /\ UiGoes("msRelease")
  /\ Outside({"morph"})
  /\ UNCHANGED <<gl, bin, queue, morphs>>

(* visual_bin_set_morph_by_name: the unref, then the new morph. *)
MsRelease ==
  /\ UiAt("msRelease")
  /\ ub' = ub \cup Freed("morph", {bin.morph} \ {Null})
  /\ live' = live \ {bin.morph}
  /\ UiGoes("msStore")
  /\ Outside({"morph"})
  /\ UNCHANGED <<gl, bin, queue, morphs>>

MsStore ==
  /\ UiAt("msStore")
  /\ bin' = [bin EXCEPT !.morph = FreshMorph]
  /\ morphs' = [morphs EXCEPT ![FreshMorph] = NewMorph]
  /\ live' = live \cup {FreshMorph}
  /\ UiReturns
  /\ Outside({"morph"})
  /\ UNCHANGED <<gl, queue, ub>>

(* finalizeInput: the old input goes, then the new one is loaded, in what  *)
(* may be the same block.                                                  *)
FinalizeInputClears ==  \* slip: no input while the new one is loaded
  /\ UiAt("idle")
  /\ live' = live \ {bin.input}
  /\ bin' = [bin EXCEPT !.input = Null]
  /\ UiStarts("fiStore", "finalizeInput", Null)
  /\ Outside({"input"})
  /\ UNCHANGED <<gl, queue, morphs, ub>>

FinalizeInput ==
  /\ UiAt("idle")
  /\ live' = live \ {bin.input}
  /\ UiStarts("fiStore", "finalizeInput", Null)
  /\ Outside({"input"})
  /\ UNCHANGED <<gl, bin, queue, morphs, ub>>

FiStore ==
  LET new == Pick(Input) IN
  /\ UiAt("fiStore")
  /\ bin' = [bin EXCEPT !.input = new]
  /\ live' = live \cup {new}
  /\ UiReturns
  /\ Outside({"input"})
  /\ UNCHANGED <<gl, queue, morphs, ub>>

SetMorphStyle ==
  /\ UiAt("idle")
  /\ \E s \in {"DIRECT", "MORPH"} : bin' = [bin EXCEPT !.style = s]
  /\ Outside({})
  /\ UNCHANGED <<ui, gl, queue, morphs, live, ub>>

UnusedEvents == Event \ {queue.list[i] : i \in DOMAIN queue.list}

(* The bound: events that a lost increment has stranded in the list are    *)
(* piled up no further than there are entries for.                         *)
RoomForEvent == UnusedEvents # {}

(* mouseMotion, mouseButton, keyboardEvent: visual_event_queue_add on the  *)
(* queue of the actor that is on screen when the call starts.              *)
MouseMotion ==
  /\ UiAt("idle")
  /\ queue.count <= MaxEvents
  /\ RoomForEvent
  /\ ui' = UiLocals("evChain", "mouseMotion", Null, queue.id)
  /\ Outside({"event"})
  /\ UiKeeps

(* The queue may be that of an actor that is no longer on screen: it is    *)
(* not freed (the bin is not managed), and nobody polls it.                *)
OnScreen == ui.queue = queue.id

LastOf(s) == IF s = << >> THEN Null ELSE s[Len(s)]

(* visual_list_chain: fetches the tail ... *)
EvChain ==
  /\ UiAt("evChain")
  /\ ui' = [ui EXCEPT !.pc = "evLink",
                      !.tail = IF OnScreen THEN LastOf(queue.list) ELSE Null]
  /\ Outside({"event"})
  /\ UiKeeps

(* ... and links the new entry to it. *)
EvLink ==
  /\ UiAt("evLink")
  /\ IF ~OnScreen THEN UNCHANGED <<queue, ub>>
     ELSE /\ ub' = IF ui.tail = LastOf(queue.list) THEN ub
                   ELSE ub \cup {"event"}
          /\ queue' = [queue EXCEPT !.list = Append(@, Pick(UnusedEvents))]
  /\ UiGoes("evCount")
  /\ Outside({"event"})
  /\ UNCHANGED <<gl, bin, morphs, live>>

(* eventcount++ is a load ... *)
EvCount ==
  /\ UiAt("evCount")
  /\ ui' = [ui EXCEPT !.pc = "evStore",
                      !.count = IF OnScreen THEN queue.count ELSE 0]
  /\ Outside({"event"})
  /\ UiKeeps

(* ... and a store, which the store of a frame that is polling may undo.   *)
EvStore ==
  /\ UiAt("evStore")
  /\ \/ queue' = IF OnScreen THEN [queue EXCEPT !.count = ui.count + 1]
                  ELSE queue
     \/ gl = "pump" /\ OnScreen /\ UNCHANGED queue
  /\ UiReturns
  /\ Outside({"event"})
  /\ UNCHANGED <<gl, bin, morphs, live, ub>>

UiCalls ==
  \/ FinalizeSwitch
  \/ \E call \in {"finalizeActor", "cycleMorph"} : LockedCall(call)
  \/ MorphSetCurrent
  \/ FinalizeInput
  \/ SetMorphStyle
  \/ MouseMotion

UiGoesOn ==
  \/ FsTest \/ UiBody \/ UiUnlock
  \/ MsTest \/ MsUnref \/ MsRelease \/ MsStore
  \/ FiStore
  \/ EvChain \/ EvLink \/ EvCount \/ EvStore

-----------------------------------------------------------------------------
(* Render thread: renderBitmap, with visual_bin_run inlined *)

GlKeeps == UNCHANGED <<ui, bin, queue, morphs, live, ub>>

GlGoes(from, to) == gl = from /\ gl' = to /\ UNCHANGED <<mutex, raced>>

GlUnlocksForgotten(from) ==  \* slip: returns with the mutex
  gl = from /\ gl' = "idle" /\ UNCHANGED <<mutex, raced>>

GlUnlocks(from) ==
  gl = from /\ gl' = "idle" /\ mutex' = Null /\ UNCHANGED raced

(* What a call that is halfway without the mutex has to do with. *)
UiOutside ==
  {kind \in Shared :
     \/ kind = "morph" /\ (ui.call = "morphSetCurrent" \/ ui.pc = "fsTest")
     \/ kind = "input" /\ ui.call = "finalizeInput"
     \/ kind = "event" /\ ui.call = "mouseMotion"}

GlLock ==
  /\ gl = "idle"
  /\ mutex = Null
  /\ gl' = "bitmap"
  /\ mutex' = "gl"
  /\ raced' = raced \cup UiOutside
  /\ GlKeeps

(* "AndroidBitmap_getInfo() failed": return FALSE, with the mutex. *)
GlBitmapFails ==
  /\ GlGoes("bitmap", "idle")
  /\ GlKeeps

(* The bitmap, the depth of the client's video, visual_input_run. *)
GlInput ==
  /\ GlGoes("bitmap", "actors")
  /\ ub' = ub \cup Freed("input", {bin.input})
  /\ UNCHANGED <<ui, bin, queue, morphs, live>>

(* visual_actor_run of the main actor: its plugin polls the queue dry, ... *)
GlRunsMain ==
  /\ bin.morphing => bin.style = "MORPH"
  /\ GlGoes("actors", "pump")
  /\ GlKeeps

GlPollsUncounted ==  \* slip: the event is taken and still counted
  /\ queue.list # << >>
  /\ GlGoes("pump", "pump")
  /\ queue' = [queue EXCEPT !.list = Tail(@)]
  /\ UNCHANGED <<ui, bin, morphs, live, ub>>

GlPolls ==
  /\ queue.count > 0
  /\ GlGoes("pump", "pump")
  /\ queue' = [queue EXCEPT !.list = IF @ = << >> THEN @ ELSE Tail(@),
                            !.count = @ - 1]
  /\ UNCHANGED <<ui, bin, morphs, live, ub>>

PolledDry == queue.count <= 0

(* ... then draws bin->input->audio; without a switch that is the frame.   *)
GlDraws ==
  /\ ~bin.morphing
  /\ PolledDry
  /\ GlUnlocks("pump")
  /\ ub' = ub \cup Freed("input", {bin.input})
  /\ UNCHANGED <<ui, bin, queue, morphs, live>>

(* "When the style is DIRECT ... finalize at once" *)
GlDirect ==
  /\ bin.morphing
  /\ bin.style = "DIRECT"
  /\ GlUnlocks("actors")
  /\ Finalize
  /\ UNCHANGED <<ui, morphs>>

GlDrawsMain ==
  /\ bin.morphing
  /\ PolledDry
  /\ GlGoes("pump", "style")
  /\ ub' = ub \cup Freed("input", {bin.input})
  /\ UNCHANGED <<ui, bin, queue, morphs, live>>

(* The style is read once more after the main actor. *)
GlStyleChanged ==
  /\ bin.style = "DIRECT"
  /\ GlUnlocks("style")
  /\ GlKeeps

GlDrawsNew ==
  /\ bin.style = "MORPH"
  /\ GlGoes("style", "morph")
  /\ ub' = ub \cup Freed("input", {bin.input})
  /\ UNCHANGED <<ui, bin, queue, morphs, live>>

GlNoMorph ==
  /\ bin.morph = Null
  /\ GlUnlocks("morph")
  /\ Finalize
  /\ UNCHANGED <<ui, morphs>>

GlMorph ==
  /\ bin.morph # Null
  /\ GlGoes("morph", "run")
  /\ ub' = ub \cup Freed("morph", {bin.morph})
  /\ UNCHANGED <<ui, bin, queue, morphs, live>>

(* visual_morph_run: the rate may have become full. *)
GlMorphRun ==
  LET m == bin.morph IN
  /\ GlGoes("run", "done")
  /\ \/ m = Null /\ UNCHANGED <<morphs, ub>>
     \/ /\ m # Null
        /\ ub' = ub \cup Freed("morph", {m})
                    \cup (IF m \in live /\ ~morphs[m].dest THEN {"null"} ELSE {})
        /\ \E full \in BOOLEAN :
             /\ morphs[m].full => full
             /\ ~morphs[m].auto => full = morphs[m].full
             /\ morphs' = [morphs EXCEPT ![m].full = full]
  /\ UNCHANGED <<ui, bin, queue, live>>

GlMorphDone ==
  LET m == bin.morph IN
  /\ GlUnlocks("done")
  /\ IF m \in live /\ IsDone(m) THEN Finalize
     ELSE ub' = ub \cup Freed("morph", {m} \ {Null}) /\ UNCHANGED <<bin, queue, live>>
  /\ UNCHANGED <<ui, morphs>>

GlGoesOn ==
  \/ GlBitmapFails \/ GlInput
  \/ GlRunsMain \/ GlPolls
  \/ GlDirect \/ GlStyleChanged \/ GlDrawsNew
  \/ GlNoMorph \/ GlMorph \/ GlMorphRun \/ GlMorphDone

GlLeavesPump == GlDraws \/ GlDrawsMain

-----------------------------------------------------------------------------
Next ==
  /\ ub = {}
  /\ UiCalls \/ UiLock \/ UiGoesOn \/ GlLock \/ GlGoesOn \/ GlLeavesPump

(* Both threads run, the calls return, frames are asked for again and      *)
(* again, and the mutex passes over nobody forever: a frame leaves it free *)
(* until the next one is due.  A frame polls faster than a finger moves,   *)
(* so that it does find its queue empty.                                   *)
Fairness ==
  /\ WF_vars(ub = {} /\ UiGoesOn)
  /\ WF_vars(ub = {} /\ GlGoesOn)
  /\ SF_vars(ub = {} /\ GlLeavesPump)
  /\ SF_vars(ub = {} /\ UiLock)
  /\ SF_vars(ub = {} /\ GlLock)

Spec == Init /\ [][Next]_vars
FairSpec == Spec /\ Fairness

-----------------------------------------------------------------------------
(* Properties *)

UiPc == {"idle", "lock", "body", "unlock", "fsTest", "msTest", "msUnref",
         "msRelease", "msStore", "fiStore", "evChain", "evLink", "evCount",
         "evStore"}
GlPc == {"idle", "bitmap", "actors", "pump", "style", "morph", "run", "done"}

UiType == [pc : UiPc, call : Locked \cup Unlocked \cup {Null},
           old : Morph \cup {Null}, queue : Queue \cup {Null},
           tail : Event \cup {Null}, count : Int]
BinType == [input : Input, morph : Morph \cup {Null}, morphing : BOOLEAN,
            style : {"DIRECT", "MORPH"}]
QueueType == [id : Queue, list : Seq(Event), count : Int]
MorphType == [auto : BOOLEAN, dest : BOOLEAN, full : BOOLEAN]

(* The variables hold what C may put there; bin->input is never NULL.      *)
TypeOK ==
  /\ mutex \in {Null, "ui", "gl"}
  /\ ui \in UiType
  /\ gl \in GlPc
  /\ bin \in BinType
  /\ queue \in QueueType
  /\ morphs \in [Morph -> MorphType]
  /\ live \subseteq Morph \cup Input
  /\ ub \subseteq Shared \cup {"null"}
  /\ raced \subseteq Shared

(* A frame could not get its bitmap, and returned with the mutex. *)
Leaked == mutex = "gl" /\ gl = "idle"

(* "Unlocks a VisMutex so other threads that use the same lock can now     *)
(* enter the critical area" (lv_thread.h:229): a thread has the mutex      *)
(* only while it is in an area that the mutex guards.                      *)
MutexGuardsAnArea ==
  /\ mutex = "ui" <=> ui.pc \in {"body", "unlock"}
  /\ mutex = "gl" <=> gl # "idle"

(* The two threads are never in a guarded area at once: each has the mutex *)
(* while it is in one, and the user interface only then.                   *)
AreasExclude ==
  /\ mutex = "ui" <=> ui.pc \in {"body", "unlock"}
  /\ gl # "idle" => mutex = "gl"

(* renderBitmap returns with the mutex only where it gives up on its       *)
(* bitmap; once it has, no frame begins and no call enters a guarded area  *)
(* ever again, whatever the calls that take no lock do.                    *)
LeakStays ==
  [][ /\ ~Leaked /\ Leaked' => gl = "bitmap"
      /\ Leaked => Leaked' /\ gl' = "idle" /\ ui'.pc \notin {"body", "unlock"} ]_vars

(* finalizeSwitch tests for a running morph before it takes the lock, and  *)
(* finalizeMorph does without: still the user interface never takes the    *)
(* morph from a switch that is not done with it, because only a frame can  *)
(* come in between, and a frame only ends switches.                        *)
SwitchKeepsItsMorph ==
  [][ui # ui' /\ bin.morph # Null /\ bin'.morph # bin.morph =>
       ~bin.morphing \/ IsDone(bin.morph)]_vars

(* Of the morph, the input and the event entries, freed memory is used     *)
(* only after a statement that deals with the same one of the three, and   *)
(* runs without the mutex, was between the lock and the unlock of a frame: *)
(* a race on the input or on the events never costs a morph, a change of   *)
(* style costs nothing, and calls that meet no frame never trip over each  *)
(* other here.  (The private video is not one of the three: see VisBin.)   *)
OnlyRacesUseFreed == ub \cap Shared \subseteq raced

(* eventcount is the length of the list, and bounded, in the queue that    *)
(* the user interface fills without the mutex and the frames empty under   *)
(* it, through every switch of the actor and whatever races on the morph   *)
(* or the input, until an event has met a frame: then an increment may be  *)
(* lost or a decrement undone, for good.                                   *)
QueueIsCounted ==
  "event" \notin raced /\ ui.call # "mouseMotion" =>
    queue.count = Len(queue.list) /\ queue.count <= MaxEvents + 1

(* A thread that waits for the mutex gets it, unless the process is broken *)
(* by then or a frame has failed on its bitmap: frames go on, and so does  *)
(* the user interface.                                                     *)
NobodyWaitsForever ==
  /\ ui.pc = "lock" ~> (ui.pc # "lock" \/ ub # {} \/ Leaked)
  /\ gl = "idle" ~> (gl # "idle" \/ ub # {} \/ Leaked)

=============================================================================
