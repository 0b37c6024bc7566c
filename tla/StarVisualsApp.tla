---------------------------- MODULE StarVisualsApp ----------------------------
(***************************************************************************)
(* The application above the native layer, on a device without OpenGL ES   *)
(* 2 (StarVisuals.java, StarVisualsView.java): the life of its activities  *)
(* on the user interface thread, the render thread of every view, the      *)
(* microphone threads, and the locks between them.                         *)
(*                                                                         *)
(* The native library is one for the process: initApp (app_main) sets it   *)
(* up, or takes it down and up again, visualsQuit takes it down, and each  *)
(* frame (renderBitmap) works on it.  Every activity has an mSynch of its  *)
(* own, every view an mLock.  onStart makes a new view with a new render   *)
(* thread; nothing ever stops the thread of an old one but the flag        *)
(* mIsActive, and Android keeps the process when an activity is destroyed. *)
(*                                                                         *)
(* A call of the user interface goes from lock to lock.  Drawing from the  *)
(* second bitmap, when the first is locked, changes nothing.               *)
(***************************************************************************)
EXTENDS FiniteSets

CONSTANTS
  Activity, View, Mic,  \* objects: activities, views with their render
                        \* threads, microphone threads
  Null

ASSUME StarVisualsAppAssumption ==
  /\ Null \notin Activity \cup View \cup Mic \cup {"ui", "render"}
  /\ "ui" \notin View

VARIABLES
  ui,         \* the handler on the user interface thread: pc, activity, the
              \* view it makes, and where enableMic and disableMic return to
  current,    \* the activity on the screen or stopped behind another one
  life,       \* life[a]: what Android has told the activity
  isActive,   \* mIsActive
  edited,     \* setIsActive(true) waits in mEditor for a commit
  stored,     \* the preference prefs_is_active
  view,       \* mView
  micActive,  \* mMicActive
  micThread,  \* mAudioThread
  synch,      \* synch[a]: who is in synchronized(mSynch): "ui" or a view's
              \* render thread
  lock,       \* lock[v]: who has mLock: "ui" or "render"
  render,     \* render[v]: pc of the render thread
  owner,      \* owner[v]: its activity
  mic,        \* mic[m]: pc of the microphone thread
  micOwner,   \* micOwner[m]: its activity
  library     \* "none" before the first initApp, "up", "quit"

flags == <<isActive, edited, stored>>
micVars == <<micActive, micThread, mic, micOwner>>
lifeVars == <<current, life>>
locks == <<synch, lock>>
views == <<view, render, owner>>

vars == <<ui, lifeVars, flags, views, micVars, locks, library>>

Idle == [pc |-> "idle", act |-> Null, view |-> Null, then |-> "idle"]

Init ==
  /\ ui = Idle
  /\ current = Null
  /\ life = [a \in Activity |-> "none"]
  /\ isActive = [a \in Activity |-> FALSE]
  /\ edited = [a \in Activity |-> FALSE]
  /\ stored \in BOOLEAN
  /\ view = [a \in Activity |-> Null]
  /\ micActive = [a \in Activity |-> FALSE]
  /\ micThread = [a \in Activity |-> Null]
  /\ synch = [a \in Activity |-> Null]
  /\ lock = [v \in View |-> Null]
  /\ render = [v \in View |-> "none"]
  /\ owner = [v \in View |-> Null]
  /\ mic = [m \in Mic |-> "none"]
  /\ micOwner = [m \in Mic |-> Null]
  /\ library = "none"

-----------------------------------------------------------------------------
(* The user interface thread *)

At(pc) == ui.pc = pc
Goes(pc) == ui' = [ui EXCEPT !.pc = pc]
Handles(pc, a) == ui' = [Idle EXCEPT !.pc = pc, !.act = a]

ResumeInHandler == Goes(ui.then)  \* slip: the handler is not left

(* The end of enableMic and disableMic. *)
Resume == ui' = IF ui.then = "idle" THEN Idle ELSE [ui EXCEPT !.pc = ui.then]

(* Objects of a thread that has ended, and that no field names, are reused. *)
FreshViews ==
  {v \in View : render[v] \in {"none", "ended"} /\ \A a \in Activity : view[a] # v}
FreshMics ==
  {m \in Mic : mic[m] \in {"none", "ended"}
               /\ \A a \in Activity : micThread[a] # m}

(* The bounds: a start is tried while there is a view left to make, an     *)
(* input chosen while there is a thread left to record with.               *)
RoomForView == FreshViews # {}
RoomForMic == FreshMics # {}

(* enableMic (input), to return to "then": any input but the microphone    *)
(* stops the recording; without a view there is none to start.             *)
EnableMic(a, then) ==
  \E pc \in {"micOff", IF view[a] = Null THEN then ELSE "micOn"} :
    ui' = [Idle EXCEPT !.pc = pc, !.act = a, !.then = then]

(* onCreate, for a first or another instance, or onRestart; then onStart. *)
Launch(a) ==
  /\ At("idle")
  /\ current = Null
  /\ life[a] = "none"
  /\ RoomForView /\ RoomForMic
  /\ current' = a
  /\ Handles("start", a)
  /\ UNCHANGED <<life, flags, views, micVars, locks, library>>

Restart ==
  /\ At("idle")
  /\ current # Null
  /\ life[current] = "stopped"
  /\ RoomForView /\ RoomForMic
  /\ Handles("start", current)
  /\ UNCHANGED <<lifeVars, flags, views, micVars, locks, library>>

(* onStart: getPrefs, enableMic (mInput) ... *)
Start ==
  /\ At("start")
  /\ isActive' = [isActive EXCEPT ![ui.act] = stored]
  /\ EnableMic(ui.act, "view")
  /\ UNCHANGED <<lifeVars, edited, stored, views, micVars, locks, library>>

KeepView ==  \* slip: initVisual once more on the view that is there
  /\ At("view")
  /\ \E v \in IF view[ui.act] = Null THEN FreshViews ELSE {view[ui.act]} :
       /\ lock[v] = Null
       /\ ui' = [ui EXCEPT !.pc = "init", !.view = v]
       /\ lock' = [lock EXCEPT ![v] = "ui"]
       /\ owner' = [owner EXCEPT ![v] = ui.act]
  /\ UNCHANGED <<lifeVars, flags, view, render, micVars, synch, library>>

(* ... setUseGL: a new view, whose constructor goes to initVisual, ...     *)
NewView ==
  /\ At("view")
  /\ \E v \in FreshViews :
       /\ ui' = [ui EXCEPT !.pc = "init", !.view = v]
       /\ lock' = [lock EXCEPT ![v] = "ui"]
       /\ owner' = [owner EXCEPT ![v] = ui.act]
       /\ render' = [render EXCEPT ![v] = "none"]
  /\ UNCHANGED <<lifeVars, flags, view, micVars, synch, library>>

InitUnsynchronized ==  \* slip: initVisual does without mSynch
  /\ At("init")
  /\ Goes("initApp")
  /\ UNCHANGED <<lifeVars, flags, views, micVars, locks, library>>

(* ... enters synchronized(mSynch) ...                                     *)
InitEnters ==
  /\ At("init")
  /\ synch[ui.act] = Null
  /\ synch' = [synch EXCEPT ![ui.act] = "ui"]
  /\ Goes("initApp")
  /\ UNCHANGED <<lifeVars, flags, views, micVars, lock, library>>

(* ... and returns from initApp; then startThread.                         *)
InitReturns ==
  /\ At("initApp")
  /\ library' = "up"
  /\ synch' = [synch EXCEPT ![ui.act] = Null]
  /\ lock' = [lock EXCEPT ![ui.view] = Null]
  /\ view' = [view EXCEPT ![ui.act] = ui.view]
  /\ render' = [render EXCEPT ![ui.view] = "started"]
  /\ life' = [life EXCEPT ![ui.act] = "shown"]
  /\ ui' = Idle
  /\ UNCHANGED <<current, flags, owner, micVars>>

(* onDraw, drawScene: draws the bitmap if mLock can be had at once. *)
DrawAnyway ==  \* slip: draws whether tryLock succeeds or not
  /\ At("idle")
  /\ current # Null
  /\ life[current] = "shown"
  /\ ui' = [Idle EXCEPT !.pc = "draw", !.act = current, !.view = view[current]]
  /\ lock' = [lock EXCEPT ![view[current]] = IF @ = Null THEN "ui" ELSE @]
  /\ UNCHANGED <<lifeVars, flags, views, micVars, synch, library>>

Draw ==
  /\ At("idle")
  /\ current # Null
  /\ life[current] = "shown"
  /\ lock[view[current]] = Null
  /\ ui' = [Idle EXCEPT !.pc = "draw", !.act = current, !.view = view[current]]
  /\ lock' = [lock EXCEPT ![view[current]] = "ui"]
  /\ UNCHANGED <<lifeVars, flags, views, micVars, synch, library>>

DrawReturns ==
  /\ At("draw")
  /\ lock' = [lock EXCEPT ![ui.view] = Null]
  /\ ui' = Idle
  /\ UNCHANGED <<lifeVars, flags, views, micVars, synch, library>>

(* onPause commits; a changed preference is told to every activity that    *)
(* has registered for it, and none ever unregisters.  Then onStop, before  *)
(* onDestroy if the activity finishes, calls disableMic.                   *)
Pause(a, then) ==
  /\ stored' = (stored \/ edited[a])
  /\ edited' = [edited EXCEPT ![a] = FALSE]
  /\ isActive' = [b \in Activity |->
                    isActive[b] \/ (life[b] # "none" /\ stored' # stored)]
  /\ ui' = [Idle EXCEPT !.pc = "micOff", !.act = a, !.then = then]

(* Another activity comes in front, or the user goes back. *)
Leave ==
  /\ At("idle")
  /\ current # Null
  /\ life[current] = "shown"
  /\ \E then \in {"stopped", "destroyed"} : Pause(current, then)
  /\ UNCHANGED <<lifeVars, views, micVars, locks, library>>

(* onOptionsItemSelected, menu_close_app: synchronized(mSynch) around      *)
(* visualsQuit and finish.                                                 *)
Close ==
  /\ At("idle")
  /\ current # Null
  /\ life[current] = "shown"
  /\ synch[current] = Null
  /\ synch' = [synch EXCEPT ![current] = "ui"]
  /\ Handles("quit", current)
  /\ UNCHANGED <<lifeVars, flags, views, micVars, lock, library>>

Quit ==
  /\ At("quit")
  /\ library' = "quit"
  /\ synch' = [synch EXCEPT ![ui.act] = Null]
  /\ Pause(ui.act, "destroyed")
  /\ UNCHANGED <<lifeVars, views, micVars, lock>>

(* The end of onStop, of onDestroy, of onSharedPreferenceChanged. *)
LeaveReturns ==
  /\ \/ At("stopped") /\ UNCHANGED current
     \/ At("destroyed") /\ current' = Null
  /\ life' = [life EXCEPT ![ui.act] = ui.pc]
  /\ ui' = Idle
  /\ UNCHANGED <<flags, views, micVars, locks, library>>

(* Android ends an activity that is stopped. *)
Destroy ==
  /\ At("idle")
  /\ current # Null
  /\ life[current] = "stopped"
  /\ life' = [life EXCEPT ![current] = "destroyed"]
  /\ current' = Null
  /\ UNCHANGED <<ui, flags, views, micVars, locks, library>>

(* onSharedPreferenceChanged, prefs_input_selection: the settings are in   *)
(* front, and destroyed activities hear of it, too.                        *)
InputChanged(a) ==
  /\ At("idle")
  /\ life[a] \in {"stopped", "destroyed"}
  /\ RoomForMic
  /\ EnableMic(a, "idle")
  /\ UNCHANGED <<lifeVars, flags, views, micVars, locks, library>>

(* enableMic with the microphone: under mSynch, resizePCM and a new        *)
(* thread, whatever became of the last one.                                *)
MicOn ==
  /\ At("micOn")
  /\ synch[ui.act] = Null
  /\ \E m \in FreshMics :
       /\ mic' = [mic EXCEPT ![m] = "started"]
       /\ micOwner' = [micOwner EXCEPT ![m] = ui.act]
       /\ micThread' = [micThread EXCEPT ![ui.act] = m]
  /\ Resume
  /\ UNCHANGED <<lifeVars, flags, views, micActive, locks, library>>

(* disableMic *)
MicOff ==
  /\ At("micOff")
  /\ IF micThread[ui.act] = Null
     THEN Resume /\ UNCHANGED micActive
     ELSE Goes("join") /\ micActive' = [micActive EXCEPT ![ui.act] = FALSE]
  /\ UNCHANGED <<lifeVars, flags, views, micThread, mic, micOwner, locks, library>>

MicJoined ==
  /\ At("join")
  /\ mic[micThread[ui.act]] = "ended"
  /\ Resume
  /\ UNCHANGED <<lifeVars, flags, views, micVars, locks, library>>

UiCalls ==
  \/ \E a \in Activity : Launch(a) \/ InputChanged(a)
  \/ Restart \/ Draw \/ Leave \/ Close \/ Destroy

UiGoesOn ==
  \/ Start \/ NewView \/ InitReturns \/ DrawReturns
  \/ Quit \/ LeaveReturns \/ MicOff \/ MicJoined

UiEnters == InitEnters \/ MicOn

-----------------------------------------------------------------------------
(* The render thread of a view, startThread *)

UiKeeps == UNCHANGED <<ui, lifeVars, micVars, view, owner, library>>

RenderGoes(v, from, to) ==
  /\ render[v] = from
  /\ render' = [render EXCEPT ![v] = to]
  /\ UiKeeps

(* mActivity.setIsActive(true) *)
Begin(v) ==
  /\ RenderGoes(v, "started", "test")
  /\ isActive' = [isActive EXCEPT ![owner[v]] = TRUE]
  /\ edited' = [edited EXCEPT ![owner[v]] = TRUE]
  /\ UNCHANGED <<stored, locks>>

TestActive(v) ==
  /\ \/ RenderGoes(v, "test", "enter") /\ isActive[owner[v]]
     \/ RenderGoes(v, "test", "ended") /\ ~isActive[owner[v]]
  /\ UNCHANGED <<flags, locks>>

(* synchronized(mActivity.mSynch) *)
Enter(v) ==
  /\ RenderGoes(v, "enter", "lock")
  /\ synch[owner[v]] = Null
  /\ synch' = [synch EXCEPT ![owner[v]] = v]
  /\ UNCHANGED <<flags, lock>>

(* mLock.lock() *)
Lock(v) ==
  /\ RenderGoes(v, "lock", "frame")
  /\ lock[v] = Null
  /\ lock' = [lock EXCEPT ![v] = "render"]
  /\ UNCHANGED <<flags, synch>>

(* renderBitmap has returned; mLock.unlock(), the end of synchronized. *)
FrameReturns(v) ==
  /\ RenderGoes(v, "frame", "test")
  /\ lock' = [lock EXCEPT ![v] = Null]
  /\ synch' = [synch EXCEPT ![owner[v]] = Null]
  /\ UNCHANGED flags

RenderGoesOn(v) == Begin(v) \/ TestActive(v) \/ Lock(v) \/ FrameReturns(v)

-----------------------------------------------------------------------------
(* The microphone thread *)

MicGoes(m, from, to) ==
  /\ mic[m] = from
  /\ mic' = [mic EXCEPT ![m] = to]
  /\ UNCHANGED <<ui, lifeVars, flags, views, micThread, micOwner, locks, library>>

MicBegin(m) ==
  /\ MicGoes(m, "started", "loop")
  /\ micActive' = [micActive EXCEPT ![micOwner[m]] = TRUE]

MicEnd(m) ==
  /\ MicGoes(m, "loop", "ended")
  /\ ~micActive[micOwner[m]]
  /\ UNCHANGED micActive

MicGoesOn(m) == MicBegin(m) \/ MicEnd(m)

-----------------------------------------------------------------------------
Next ==
  \/ UiCalls \/ UiGoesOn \/ UiEnters
  \/ \E v \in View : RenderGoesOn(v) \/ Enter(v)
  \/ \E m \in Mic : MicGoesOn(m)

(* All threads run, but need not enter another frame.  A render thread     *)
(* sleeps after every frame, outside mSynch, so that the user interface is *)
(* not passed over for it forever.                                         *)
Fairness ==
  /\ WF_vars(UiGoesOn)
  /\ SF_vars(UiEnters)
  /\ \A v \in View : WF_vars(RenderGoesOn(v))
  /\ \A m \in Mic : WF_vars(MicGoesOn(m))

Spec == Init /\ [][Next]_vars
FairSpec == Spec /\ Fairness

-----------------------------------------------------------------------------
(* Properties *)

UiPc == {"idle", "start", "view", "init", "initApp", "draw", "quit", "micOn",
         "micOff", "join", "stopped", "destroyed"}

(* The fields hold what Java may put there; a handler has an activity, and *)
(* a view where it works on one.                                           *)
TypeOK ==
  /\ IF At("idle") THEN ui = Idle ELSE ui.act # Null
  /\ ui.pc \in {"init", "initApp", "draw"} => ui.view # Null
  /\ ui \in [pc : UiPc, act : Activity \cup {Null}, view : View \cup {Null},
             then : {"idle", "view", "stopped", "destroyed"}]
  /\ current \in Activity \cup {Null}
  /\ life \in [Activity -> {"none", "shown", "stopped", "destroyed"}]
  /\ isActive \in [Activity -> BOOLEAN]
  /\ edited \in [Activity -> BOOLEAN]
  /\ stored \in BOOLEAN
  /\ view \in [Activity -> View \cup {Null}]
  /\ micActive \in [Activity -> BOOLEAN]
  /\ micThread \in [Activity -> Mic \cup {Null}]
  /\ synch \in [Activity -> View \cup {"ui", Null}]
  /\ lock \in [View -> {"ui", "render", Null}]
  /\ render \in [View -> {"none", "started", "test", "enter", "lock", "frame",
                          "ended"}]
  /\ owner \in [View -> Activity \cup {Null}]
  /\ mic \in [Mic -> {"none", "started", "loop", "ended"}]
  /\ micOwner \in [Mic -> Activity \cup {Null}]
  /\ library \in {"none", "up", "quit"}

(* The library is being taken down or up. *)
Restarting == ui.pc \in {"initApp", "quit"}

(* mSynch keeps app_main and visualsQuit, which free what a frame works    *)
(* on, from the frames of all the views of the activity, also of those     *)
(* whose thread outlives them; only a destroyed activity, whose threads    *)
(* nothing stops and whose mSynch nobody else knows, renders into a        *)
(* restart, or at the same time as another one.                            *)
OnlyTheDestroyedRace ==
  \A v \in View : render[v] = "frame" =>
    /\ Restarting => owner[v] # ui.act /\ life[owner[v]] = "destroyed"
    /\ \A w \in View \ {v} :
         render[w] = "frame" =>
           owner[v] # owner[w]
           /\ "destroyed" \in {life[owner[v]], life[owner[w]]}

(* The user interface neither draws from a bitmap that a frame is written  *)
(* to, nor recycles one (initVisual), although the two sides take mLock    *)
(* and mSynch in opposite orders and drawing takes mLock alone.            *)
BitmapIsNotShared ==
  ui.pc \in {"draw", "init", "initApp"} => render[ui.view] # "frame"

(* Whoever a thread waits for at a lock, itself if it holds that lock;     *)
(* Null if it does not wait.                                               *)
WaitsFor(t) ==
  CASE t = "ui" /\ ui.pc \in {"init", "micOn"} -> synch[ui.act]
    [] t \in View /\ render[t] = "enter" -> synch[owner[t]]
    [] t \in View /\ render[t] = "lock" ->
         IF lock[t] = "render" THEN t ELSE lock[t]
    [] OTHER -> Null

(* It is inside synchronized(mSynch), or between lock and unlock of an     *)
(* mLock, and not on its way to join a microphone thread.                  *)
InArea(t) ==
  \/ t = "ui" /\ ui.pc \in {"init", "initApp", "draw", "quit"}
  \/ t \in View /\ render[t] \in {"lock", "frame"}

(* The render threads take mSynch and then mLock, initVisual mLock and     *)
(* then mSynch, on views and activities that outlive each other: still     *)
(* they never wait for one another.  A thread that waits has at most two   *)
(* others ahead of it, each in an area that it comes out of, and the first *)
(* of them can go on.                                                      *)
NoCircularWait ==
  \A t \in View \cup {"ui"} :
    /\ WaitsFor(t) # Null => InArea(WaitsFor(t))
    /\ WaitsFor(WaitsFor(WaitsFor(t))) = Null

(* The stop of a microphone thread came before the thread had set          *)
(* mMicActive, or two threads shared the flag: the user interface waits    *)
(* for a thread that goes on recording.                                    *)
StopIsLost ==
  /\ ui.pc = "join"
  /\ mic[micThread[ui.act]] = "loop"
  /\ micActive[ui.act]

(* The user interface thread always comes back to its event loop, through  *)
(* two locks that the render threads take the other way round, unless the  *)
(* stop of the microphone is lost.                                         *)
UiReturns == (ui.pc # "idle") ~> (ui.pc = "idle" \/ StopIsLost)

=============================================================================
