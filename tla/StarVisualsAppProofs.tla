------------------------ MODULE StarVisualsAppProofs ------------------------
(***************************************************************************)
(* Proofs about StarVisualsApp: its safety properties hold for every       *)
(* number of activities, views and microphone threads.                     *)
(*                                                                         *)
(* None is inductive.  What carries them is who is in which lock           *)
(* (SynchHeld, LockHeld), and that the render thread of a view belongs to  *)
(* the current activity or to a destroyed one (OwnersKnown), which in turn *)
(* needs that a handler works for the current activity (OnCurrent).        *)
(* That nobody waits in a circle needs the converse, too: whoever has a    *)
(* lock is in its area (Holders).                                          *)
(***************************************************************************)
EXTENDS StarVisualsApp, TLAPS

Running == {"started", "test", "enter", "lock", "frame"}

(* A render thread in synchronized(mSynch) of its activity, or the user    *)
(* interface in that of the activity it works for.                         *)
SynchHeld ==
  /\ \A v \in View : render[v] \in {"lock", "frame"} => synch[owner[v]] = v
  /\ Restarting => synch[ui.act] = "ui"

LockHeld ==
  /\ \A v \in View : render[v] = "frame" => lock[v] = "render"
  /\ ui.pc \in {"init", "initApp", "draw"} => lock[ui.view] = "ui"

OwnersKnown ==
  /\ \A v \in View : render[v] \in Running =>
       /\ owner[v] \in Activity
       /\ owner[v] = current \/ life[owner[v]] = "destroyed"
  /\ ui.pc \in {"init", "initApp"} => owner[ui.view] = ui.act

OnCurrent ==
  \/ ui.pc \in {"start", "view", "init", "initApp", "draw", "quit",
                "stopped", "destroyed"}
  \/ ui.then # "idle"
  => ui.act = current

(* An activity that has been shown has a view. *)
ViewsMade ==
  /\ \A a \in Activity : life[a] # "none" => view[a] # Null
  /\ \/ ui.pc \in {"draw", "quit", "stopped", "destroyed"}
     \/ ui.then \in {"stopped", "destroyed"}
     => view[ui.act] # Null

Inv == TypeOK /\ SynchHeld /\ LockHeld /\ OwnersKnown /\ OnCurrent /\ ViewsMade

-----------------------------------------------------------------------------
(* The invariant holds at first, and every action keeps it. *)
LEMMA InvInit == Init => Inv
BY StarVisualsAppAssumption DEF Init, Inv, TypeOK, SynchHeld, LockHeld,
   OwnersKnown, OnCurrent, ViewsMade, Restarting, UiPc, Idle, At, Running

(* The user interface thread *)

LEMMA KeepsStart ==
  ASSUME Inv, Start PROVE Inv'
<1> USE StarVisualsAppAssumption
    DEF Start, EnableMic, At, Idle, UiPc, vars, lifeVars, flags, views,
        micVars, locks
<1>1. TypeOK'
  <2>1. PICK pc \in {"micOff", "micOn", "view"} :
          ui' = [Idle EXCEPT !.pc = pc, !.act = ui.act, !.then = "view"]
    BY DEF Inv, TypeOK
  <2>2. isActive' \in [Activity -> BOOLEAN]
    BY DEF Inv, TypeOK
  <2>3. QED  BY <2>1, <2>2 DEF Inv, TypeOK
<1>2. SynchHeld'
  BY DEF Inv, TypeOK, SynchHeld, OwnersKnown, Restarting, OnCurrent, Running
<1>3. LockHeld'
  BY DEF Inv, TypeOK, LockHeld
<1>4. OwnersKnown'
  BY DEF Inv, TypeOK, OwnersKnown, OnCurrent, Running
<1>5. OnCurrent'
  BY DEF Inv, TypeOK, OnCurrent
<1>6. ViewsMade'
  BY DEF Inv, TypeOK, ViewsMade
<1> QED  BY <1>1, <1>2, <1>3, <1>4, <1>5, <1>6 DEF Inv

LEMMA KeepsNewView ==
  ASSUME Inv, NewView PROVE Inv'
<1> USE StarVisualsAppAssumption
    DEF NewView, FreshViews, At, Idle, UiPc, vars, lifeVars, flags, views,
        micVars, locks
<1>1. TypeOK'
  <2>1. PICK v \in View :
          /\ ui' = [ui EXCEPT !.pc = "init", !.view = v]
          /\ lock' = [lock EXCEPT ![v] = "ui"]
          /\ owner' = [owner EXCEPT ![v] = ui.act]
          /\ render' = [render EXCEPT ![v] = "none"]
    BY DEF Inv, TypeOK
  <2>2. QED  BY <2>1 DEF Inv, TypeOK
<1>2. SynchHeld'
  BY DEF Inv, TypeOK, SynchHeld, OwnersKnown, Restarting, OnCurrent, Running
<1>3. LockHeld'
  BY DEF Inv, TypeOK, LockHeld
<1>4. OwnersKnown'
  BY DEF Inv, TypeOK, OwnersKnown, OnCurrent, Running
<1>5. OnCurrent'
  BY DEF Inv, TypeOK, OnCurrent
<1>6. ViewsMade'
  BY DEF Inv, TypeOK, ViewsMade
<1> QED  BY <1>1, <1>2, <1>3, <1>4, <1>5, <1>6 DEF Inv

LEMMA KeepsInitReturns ==
  ASSUME Inv, InitReturns PROVE Inv'
<1> USE StarVisualsAppAssumption
    DEF InitReturns, At, Idle, UiPc, vars, lifeVars, flags, views, micVars,
        locks
<1>1. TypeOK'
  BY DEF Inv, TypeOK
<1>2. SynchHeld'
  BY DEF Inv, TypeOK, SynchHeld, OwnersKnown, Restarting, OnCurrent, Running
<1>3. LockHeld'
  BY DEF Inv, TypeOK, LockHeld
<1>4. OwnersKnown'
  BY DEF Inv, TypeOK, OwnersKnown, OnCurrent, Running
<1>5. OnCurrent'
  BY DEF Inv, TypeOK, OnCurrent
<1>6. ViewsMade'
  BY DEF Inv, TypeOK, ViewsMade
<1> QED  BY <1>1, <1>2, <1>3, <1>4, <1>5, <1>6 DEF Inv

LEMMA KeepsDrawReturns ==
  ASSUME Inv, DrawReturns PROVE Inv'
<1> USE StarVisualsAppAssumption
    DEF DrawReturns, At, Idle, UiPc, vars, lifeVars, flags, views, micVars,
        locks
<1>1. TypeOK'
  BY DEF Inv, TypeOK
<1>2. SynchHeld'
  BY DEF Inv, TypeOK, SynchHeld, OwnersKnown, Restarting, OnCurrent, Running
<1>3. LockHeld'
  BY DEF Inv, TypeOK, LockHeld
<1>4. OwnersKnown'
  BY DEF Inv, TypeOK, OwnersKnown, OnCurrent, Running
<1>5. OnCurrent'
  BY DEF Inv, TypeOK, OnCurrent
<1>6. ViewsMade'
  BY DEF Inv, TypeOK, ViewsMade
<1> QED  BY <1>1, <1>2, <1>3, <1>4, <1>5, <1>6 DEF Inv

LEMMA KeepsQuit ==
  ASSUME Inv, Quit PROVE Inv'
<1> USE StarVisualsAppAssumption
    DEF Quit, Pause, At, Idle, UiPc, vars, lifeVars, flags, views, micVars,
        locks
<1>1. TypeOK'
  BY DEF Inv, TypeOK
<1>2. SynchHeld'
  BY DEF Inv, TypeOK, SynchHeld, OwnersKnown, Restarting, OnCurrent, Running
<1>3. LockHeld'
  BY DEF Inv, TypeOK, LockHeld
<1>4. OwnersKnown'
  BY DEF Inv, TypeOK, OwnersKnown, OnCurrent, Running
<1>5. OnCurrent'
  BY DEF Inv, TypeOK, OnCurrent
<1>6. ViewsMade'
  BY DEF Inv, TypeOK, ViewsMade
<1> QED  BY <1>1, <1>2, <1>3, <1>4, <1>5, <1>6 DEF Inv

LEMMA KeepsLeaveReturns ==
  ASSUME Inv, LeaveReturns PROVE Inv'
<1> USE StarVisualsAppAssumption
    DEF LeaveReturns, At, Idle, UiPc, vars, lifeVars, flags, views, micVars,
        locks
<1>1. TypeOK'
  BY DEF Inv, TypeOK
<1>2. SynchHeld'
  BY DEF Inv, TypeOK, SynchHeld, OwnersKnown, Restarting, OnCurrent, Running
<1>3. LockHeld'
  BY DEF Inv, TypeOK, LockHeld
<1>4. OwnersKnown'
  BY DEF Inv, TypeOK, OwnersKnown, OnCurrent, Running
<1>5. OnCurrent'
  BY DEF Inv, TypeOK, OnCurrent
<1>6. ViewsMade'
  BY DEF Inv, TypeOK, ViewsMade
<1> QED  BY <1>1, <1>2, <1>3, <1>4, <1>5, <1>6 DEF Inv

LEMMA KeepsMicOff ==
  ASSUME Inv, MicOff PROVE Inv'
<1> USE StarVisualsAppAssumption
    DEF MicOff, Resume, Goes, At, Idle, UiPc, vars, lifeVars, flags, views,
        micVars, locks
<1>1. TypeOK'
  <2>1. micActive' \in [Activity -> BOOLEAN]
    BY DEF Inv, TypeOK
  <2>2. CASE micThread[ui.act] = Null
    BY <2>1, <2>2 DEF Inv, TypeOK
  <2>3. CASE micThread[ui.act] # Null
    BY <2>1, <2>3 DEF Inv, TypeOK
  <2>4. QED  BY <2>2, <2>3
<1>2. SynchHeld'
  BY DEF Inv, TypeOK, SynchHeld, OwnersKnown, Restarting, OnCurrent, Running
<1>3. LockHeld'
  BY DEF Inv, TypeOK, LockHeld
<1>4. OwnersKnown'
  BY DEF Inv, TypeOK, OwnersKnown, OnCurrent, Running
<1>5. OnCurrent'
  BY DEF Inv, TypeOK, OnCurrent
<1>6. ViewsMade'
  BY DEF Inv, TypeOK, ViewsMade
<1> QED  BY <1>1, <1>2, <1>3, <1>4, <1>5, <1>6 DEF Inv

LEMMA KeepsMicJoined ==
  ASSUME Inv, MicJoined PROVE Inv'
<1> USE StarVisualsAppAssumption
    DEF MicJoined, Resume, At, Idle, UiPc, vars, lifeVars, flags, views,
        micVars, locks
<1>1. TypeOK'
  BY DEF Inv, TypeOK
<1>2. SynchHeld'
  BY DEF Inv, TypeOK, SynchHeld, OwnersKnown, Restarting, OnCurrent, Running
<1>3. LockHeld'
  BY DEF Inv, TypeOK, LockHeld
<1>4. OwnersKnown'
  BY DEF Inv, TypeOK, OwnersKnown, OnCurrent, Running
<1>5. OnCurrent'
  BY DEF Inv, TypeOK, OnCurrent
<1>6. ViewsMade'
  BY DEF Inv, TypeOK, ViewsMade
<1> QED  BY <1>1, <1>2, <1>3, <1>4, <1>5, <1>6 DEF Inv

LEMMA KeepsInitEnters ==
  ASSUME Inv, InitEnters PROVE Inv'
<1> USE StarVisualsAppAssumption
    DEF InitEnters, Goes, At, Idle, UiPc, vars, lifeVars, flags, views,
        micVars, locks
<1>1. TypeOK'
  BY DEF Inv, TypeOK
<1>2. SynchHeld'
  BY DEF Inv, TypeOK, SynchHeld, OwnersKnown, Restarting, OnCurrent, Running
<1>3. LockHeld'
  BY DEF Inv, TypeOK, LockHeld
<1>4. OwnersKnown'
  BY DEF Inv, TypeOK, OwnersKnown, OnCurrent, Running
<1>5. OnCurrent'
  BY DEF Inv, TypeOK, OnCurrent
<1>6. ViewsMade'
  BY DEF Inv, TypeOK, ViewsMade
<1> QED  BY <1>1, <1>2, <1>3, <1>4, <1>5, <1>6 DEF Inv

LEMMA KeepsMicOn ==
  ASSUME Inv, MicOn PROVE Inv'
<1> USE StarVisualsAppAssumption
    DEF MicOn, Resume, FreshMics, At, Idle, UiPc, vars, lifeVars, flags,
        views, micVars, locks
<1>1. TypeOK'
  BY DEF Inv, TypeOK
<1>2. SynchHeld'
  BY DEF Inv, TypeOK, SynchHeld, OwnersKnown, Restarting, OnCurrent, Running
<1>3. LockHeld'
  BY DEF Inv, TypeOK, LockHeld
<1>4. OwnersKnown'
  BY DEF Inv, TypeOK, OwnersKnown, OnCurrent, Running
<1>5. OnCurrent'
  BY DEF Inv, TypeOK, OnCurrent
<1>6. ViewsMade'
  BY DEF Inv, TypeOK, ViewsMade
<1> QED  BY <1>1, <1>2, <1>3, <1>4, <1>5, <1>6 DEF Inv

LEMMA KeepsRestart ==
  ASSUME Inv, Restart PROVE Inv'
<1> USE StarVisualsAppAssumption
    DEF Restart, Handles, At, Idle, UiPc, vars, lifeVars, flags, views,
        micVars, locks
<1>1. TypeOK'
  BY DEF Inv, TypeOK
<1>2. SynchHeld'
  BY DEF Inv, TypeOK, SynchHeld, OwnersKnown, Restarting, OnCurrent, Running
<1>3. LockHeld'
  BY DEF Inv, TypeOK, LockHeld
<1>4. OwnersKnown'
  BY DEF Inv, TypeOK, OwnersKnown, OnCurrent, Running
<1>5. OnCurrent'
  BY DEF Inv, TypeOK, OnCurrent
<1>6. ViewsMade'
  BY DEF Inv, TypeOK, ViewsMade
<1> QED  BY <1>1, <1>2, <1>3, <1>4, <1>5, <1>6 DEF Inv

LEMMA KeepsDraw ==
  ASSUME Inv, Draw PROVE Inv'
<1> USE StarVisualsAppAssumption
    DEF Draw, At, Idle, UiPc, vars, lifeVars, flags, views, micVars, locks
<1>1. TypeOK'
  BY DEF Inv, TypeOK, ViewsMade
<1>2. SynchHeld'
  BY DEF Inv, TypeOK, SynchHeld, OwnersKnown, Restarting, OnCurrent, Running
<1>3. LockHeld'
  BY DEF Inv, TypeOK, LockHeld, ViewsMade
<1>4. OwnersKnown'
  BY DEF Inv, TypeOK, OwnersKnown, OnCurrent, Running
<1>5. OnCurrent'
  BY DEF Inv, TypeOK, OnCurrent
<1>6. ViewsMade'
  BY DEF Inv, TypeOK, ViewsMade
<1> QED  BY <1>1, <1>2, <1>3, <1>4, <1>5, <1>6 DEF Inv

LEMMA KeepsLeave ==
  ASSUME Inv, Leave PROVE Inv'
<1> USE StarVisualsAppAssumption
    DEF Leave, Pause, At, Idle, UiPc, vars, lifeVars, flags, views, micVars,
        locks
<1>1. TypeOK'
  <2>1. isActive' \in [Activity -> BOOLEAN] /\ stored' \in BOOLEAN
    BY DEF Inv, TypeOK
  <2>2. edited' \in [Activity -> BOOLEAN]
    BY DEF Inv, TypeOK
  <2>3. PICK then \in {"stopped", "destroyed"} :
          ui' = [Idle EXCEPT !.pc = "micOff", !.act = current, !.then = then]
    BY DEF Inv, TypeOK
  <2>4. QED  BY <2>1, <2>2, <2>3 DEF Inv, TypeOK
<1>2. SynchHeld'
  BY DEF Inv, TypeOK, SynchHeld, OwnersKnown, Restarting, OnCurrent, Running
<1>3. LockHeld'
  BY DEF Inv, TypeOK, LockHeld
<1>4. OwnersKnown'
  BY DEF Inv, TypeOK, OwnersKnown, OnCurrent, Running
<1>5. OnCurrent'
  BY DEF Inv, TypeOK, OnCurrent
<1>6. ViewsMade'
  BY DEF Inv, TypeOK, ViewsMade
<1> QED  BY <1>1, <1>2, <1>3, <1>4, <1>5, <1>6 DEF Inv

LEMMA KeepsClose ==
  ASSUME Inv, Close PROVE Inv'
<1> USE StarVisualsAppAssumption
    DEF Close, Handles, At, Idle, UiPc, vars, lifeVars, flags, views, micVars,
        locks
<1>1. TypeOK'
  BY DEF Inv, TypeOK
<1>2. SynchHeld'
  BY DEF Inv, TypeOK, SynchHeld, OwnersKnown, Restarting, OnCurrent, Running
<1>3. LockHeld'
  BY DEF Inv, TypeOK, LockHeld
<1>4. OwnersKnown'
  BY DEF Inv, TypeOK, OwnersKnown, OnCurrent, Running
<1>5. OnCurrent'
  BY DEF Inv, TypeOK, OnCurrent
<1>6. ViewsMade'
  BY DEF Inv, TypeOK, ViewsMade
<1> QED  BY <1>1, <1>2, <1>3, <1>4, <1>5, <1>6 DEF Inv

LEMMA KeepsDestroy ==
  ASSUME Inv, Destroy PROVE Inv'
<1> USE StarVisualsAppAssumption
    DEF Destroy, At, Idle, UiPc, vars, lifeVars, flags, views, micVars, locks
<1>1. TypeOK'
  BY DEF Inv, TypeOK
<1>2. SynchHeld'
  BY DEF Inv, TypeOK, SynchHeld, OwnersKnown, Restarting, OnCurrent, Running
<1>3. LockHeld'
  BY DEF Inv, TypeOK, LockHeld
<1>4. OwnersKnown'
  BY DEF Inv, TypeOK, OwnersKnown, OnCurrent, Running
<1>5. OnCurrent'
  BY DEF Inv, TypeOK, OnCurrent
<1>6. ViewsMade'
  BY DEF Inv, TypeOK, ViewsMade
<1> QED  BY <1>1, <1>2, <1>3, <1>4, <1>5, <1>6 DEF Inv

LEMMA KeepsLaunch ==
  ASSUME Inv, NEW a \in Activity, Launch(a) PROVE Inv'
<1> USE StarVisualsAppAssumption
    DEF Launch, Handles, At, Idle, UiPc, vars, lifeVars, flags, views,
        micVars, locks
<1>1. TypeOK'
  BY DEF Inv, TypeOK
<1>2. SynchHeld'
  BY DEF Inv, TypeOK, SynchHeld, OwnersKnown, Restarting, OnCurrent, Running
<1>3. LockHeld'
  BY DEF Inv, TypeOK, LockHeld
<1>4. OwnersKnown'
  BY DEF Inv, TypeOK, OwnersKnown, OnCurrent, Running
<1>5. OnCurrent'
  BY DEF Inv, TypeOK, OnCurrent
<1>6. ViewsMade'
  BY DEF Inv, TypeOK, ViewsMade
<1> QED  BY <1>1, <1>2, <1>3, <1>4, <1>5, <1>6 DEF Inv

LEMMA KeepsInputChanged ==
  ASSUME Inv, NEW a \in Activity, InputChanged(a) PROVE Inv'
<1> USE StarVisualsAppAssumption
    DEF InputChanged, EnableMic, RoomForMic, At, Idle, UiPc, vars, lifeVars,
        flags, views, micVars, locks
<1>1. TypeOK'
  <2>1. PICK pc \in {"micOff", "micOn"} :
          ui' = [Idle EXCEPT !.pc = pc, !.act = a, !.then = "idle"]
    BY DEF Inv, TypeOK, ViewsMade
  <2>2. QED  BY <2>1 DEF Inv, TypeOK
<1>2. SynchHeld'
  BY DEF Inv, TypeOK, SynchHeld, OwnersKnown, Restarting, OnCurrent, Running
<1>3. LockHeld'
  BY DEF Inv, TypeOK, LockHeld
<1>4. OwnersKnown'
  BY DEF Inv, TypeOK, OwnersKnown, OnCurrent, Running
<1>5. OnCurrent'
  BY DEF Inv, TypeOK, OnCurrent
<1>6. ViewsMade'
  BY DEF Inv, TypeOK, ViewsMade
<1> QED  BY <1>1, <1>2, <1>3, <1>4, <1>5, <1>6 DEF Inv

(* The render threads *)

LEMMA KeepsBegin ==
  ASSUME Inv, NEW v \in View, Begin(v) PROVE Inv'
<1> USE StarVisualsAppAssumption
    DEF Begin, RenderGoes, UiKeeps, At, Idle, UiPc, vars, lifeVars, flags,
        views, micVars, locks
<1>1. TypeOK'
  <2>1. isActive' \in [Activity -> BOOLEAN] /\ edited' \in [Activity -> BOOLEAN]
    BY DEF Inv, TypeOK
  <2>2. render' \in [View -> {"none", "started", "test", "enter", "lock",
                             "frame", "ended"}]
    BY DEF Inv, TypeOK
  <2>3. QED  BY <2>1, <2>2 DEF Inv, TypeOK
<1>2. SynchHeld'
  BY DEF Inv, TypeOK, SynchHeld, OwnersKnown, Restarting, OnCurrent, Running
<1>3. LockHeld'
  BY DEF Inv, TypeOK, LockHeld
<1>4. OwnersKnown'
  BY DEF Inv, TypeOK, OwnersKnown, OnCurrent, Running
<1>5. OnCurrent'
  BY DEF Inv, TypeOK, OnCurrent
<1>6. ViewsMade'
  BY DEF Inv, TypeOK, ViewsMade
<1> QED  BY <1>1, <1>2, <1>3, <1>4, <1>5, <1>6 DEF Inv

LEMMA KeepsTestActive ==
  ASSUME Inv, NEW v \in View, TestActive(v) PROVE Inv'
<1> USE StarVisualsAppAssumption
    DEF TestActive, RenderGoes, UiKeeps, At, Idle, UiPc, vars, lifeVars,
        flags, views, micVars, locks
<1>1. TypeOK'
  BY DEF Inv, TypeOK
<1>2. SynchHeld'
  BY DEF Inv, TypeOK, SynchHeld, OwnersKnown, Restarting, OnCurrent, Running
<1>3. LockHeld'
  BY DEF Inv, TypeOK, LockHeld
<1>4. OwnersKnown'
  BY DEF Inv, TypeOK, OwnersKnown, OnCurrent, Running
<1>5. OnCurrent'
  BY DEF Inv, TypeOK, OnCurrent
<1>6. ViewsMade'
  BY DEF Inv, TypeOK, ViewsMade
<1> QED  BY <1>1, <1>2, <1>3, <1>4, <1>5, <1>6 DEF Inv

LEMMA KeepsEnter ==
  ASSUME Inv, NEW v \in View, Enter(v) PROVE Inv'
<1> USE StarVisualsAppAssumption
    DEF Enter, RenderGoes, UiKeeps, At, Idle, UiPc, vars, lifeVars, flags,
        views, micVars, locks
<1>1. TypeOK'
  BY DEF Inv, TypeOK, OwnersKnown, Running
<1>2. SynchHeld'
  BY DEF Inv, TypeOK, SynchHeld, OwnersKnown, Restarting, OnCurrent, Running
<1>3. LockHeld'
  BY DEF Inv, TypeOK, LockHeld
<1>4. OwnersKnown'
  BY DEF Inv, TypeOK, OwnersKnown, OnCurrent, Running
<1>5. OnCurrent'
  BY DEF Inv, TypeOK, OnCurrent
<1>6. ViewsMade'
  BY DEF Inv, TypeOK, ViewsMade
<1> QED  BY <1>1, <1>2, <1>3, <1>4, <1>5, <1>6 DEF Inv

LEMMA KeepsLock ==
  ASSUME Inv, NEW v \in View, Lock(v) PROVE Inv'
<1> USE StarVisualsAppAssumption
    DEF Lock, RenderGoes, UiKeeps, At, Idle, UiPc, vars, lifeVars, flags,
        views, micVars, locks
<1>1. TypeOK'
  BY DEF Inv, TypeOK
<1>2. SynchHeld'
  BY DEF Inv, TypeOK, SynchHeld, OwnersKnown, Restarting, OnCurrent, Running
<1>3. LockHeld'
  BY DEF Inv, TypeOK, LockHeld
<1>4. OwnersKnown'
  BY DEF Inv, TypeOK, OwnersKnown, OnCurrent, Running
<1>5. OnCurrent'
  BY DEF Inv, TypeOK, OnCurrent
<1>6. ViewsMade'
  BY DEF Inv, TypeOK, ViewsMade
<1> QED  BY <1>1, <1>2, <1>3, <1>4, <1>5, <1>6 DEF Inv

LEMMA KeepsFrameReturns ==
  ASSUME Inv, NEW v \in View, FrameReturns(v) PROVE Inv'
<1> USE StarVisualsAppAssumption
    DEF FrameReturns, RenderGoes, UiKeeps, At, Idle, UiPc, vars, lifeVars,
        flags, views, micVars, locks
<1>1. TypeOK'
  BY DEF Inv, TypeOK, OwnersKnown, Running
<1>2. SynchHeld'
  BY DEF Inv, TypeOK, SynchHeld, OwnersKnown, Restarting, OnCurrent, Running
<1>3. LockHeld'
  BY DEF Inv, TypeOK, LockHeld
<1>4. OwnersKnown'
  BY DEF Inv, TypeOK, OwnersKnown, OnCurrent, Running
<1>5. OnCurrent'
  BY DEF Inv, TypeOK, OnCurrent
<1>6. ViewsMade'
  BY DEF Inv, TypeOK, ViewsMade
<1> QED  BY <1>1, <1>2, <1>3, <1>4, <1>5, <1>6 DEF Inv

(* The microphone threads *)

LEMMA KeepsMicBegin ==
  ASSUME Inv, NEW m \in Mic, MicBegin(m) PROVE Inv'
<1> USE StarVisualsAppAssumption
    DEF MicBegin, MicGoes, At, Idle, UiPc, vars, lifeVars, flags, views,
        micVars, locks
<1>1. TypeOK'
  <2>1. micActive' \in [Activity -> BOOLEAN]
    BY DEF Inv, TypeOK
  <2>2. QED  BY <2>1 DEF Inv, TypeOK
<1>2. SynchHeld'
  BY DEF Inv, TypeOK, SynchHeld, OwnersKnown, Restarting, OnCurrent, Running
<1>3. LockHeld'
  BY DEF Inv, TypeOK, LockHeld
<1>4. OwnersKnown'
  BY DEF Inv, TypeOK, OwnersKnown, OnCurrent, Running
<1>5. OnCurrent'
  BY DEF Inv, TypeOK, OnCurrent
<1>6. ViewsMade'
  BY DEF Inv, TypeOK, ViewsMade
<1> QED  BY <1>1, <1>2, <1>3, <1>4, <1>5, <1>6 DEF Inv

LEMMA KeepsMicEnd ==
  ASSUME Inv, NEW m \in Mic, MicEnd(m) PROVE Inv'
<1> USE StarVisualsAppAssumption
    DEF MicEnd, MicGoes, At, Idle, UiPc, vars, lifeVars, flags, views,
        micVars, locks
<1>1. TypeOK'
  BY DEF Inv, TypeOK
<1>2. SynchHeld'
  BY DEF Inv, TypeOK, SynchHeld, OwnersKnown, Restarting, OnCurrent, Running
<1>3. LockHeld'
  BY DEF Inv, TypeOK, LockHeld
<1>4. OwnersKnown'
  BY DEF Inv, TypeOK, OwnersKnown, OnCurrent, Running
<1>5. OnCurrent'
  BY DEF Inv, TypeOK, OnCurrent
<1>6. ViewsMade'
  BY DEF Inv, TypeOK, ViewsMade
<1> QED  BY <1>1, <1>2, <1>3, <1>4, <1>5, <1>6 DEF Inv

-----------------------------------------------------------------------------
LEMMA InvNext == ASSUME Inv, [Next]_vars PROVE Inv'
<1>1. CASE UiCalls
  <2>1. ASSUME NEW a \in Activity, Launch(a) PROVE Inv'
    BY <2>1, KeepsLaunch
  <2>2. ASSUME NEW a \in Activity, InputChanged(a) PROVE Inv'
    BY <2>2, KeepsInputChanged
  <2>3. QED
    BY <1>1, <2>1, <2>2, KeepsRestart, KeepsDraw, KeepsLeave, KeepsClose,
       KeepsDestroy DEF UiCalls
<1>2. CASE UiGoesOn \/ UiEnters
  BY <1>2, KeepsStart, KeepsNewView, KeepsInitReturns, KeepsDrawReturns,
     KeepsQuit, KeepsLeaveReturns, KeepsMicOff, KeepsMicJoined,
     KeepsInitEnters, KeepsMicOn DEF UiGoesOn, UiEnters
<1>3. ASSUME NEW v \in View, RenderGoesOn(v) \/ Enter(v) PROVE Inv'
  BY <1>3, KeepsBegin, KeepsTestActive, KeepsLock, KeepsFrameReturns,
     KeepsEnter DEF RenderGoesOn
<1>4. ASSUME NEW m \in Mic, MicGoesOn(m) PROVE Inv'
  BY <1>4, KeepsMicBegin, KeepsMicEnd DEF MicGoesOn
<1>5. CASE UNCHANGED vars
  BY <1>5 DEF Inv, TypeOK, SynchHeld, LockHeld, OwnersKnown, OnCurrent,
     ViewsMade, Restarting, At, vars, lifeVars, flags, views, micVars, locks
<1>6. QED  BY <1>1, <1>2, <1>3, <1>4, <1>5 DEF Next

(* Locks, owners and handlers are as the invariant says in every state.    *)
THEOREM Invariance == Spec => []Inv
<1>1. Init => Inv
  BY InvInit
<1>2. Inv /\ [Next]_vars => Inv'
  BY InvNext
<1>3. QED  BY <1>1, <1>2, PTL DEF Spec

-----------------------------------------------------------------------------
(* The fields of the activities, views and threads hold what Java may put  *)
(* there, in every order of handlers, frames and recordings.               *)
THEOREM Typed == Spec => []TypeOK
<1>1. Inv => TypeOK
  BY DEF Inv
<1>2. QED  BY <1>1, Invariance, PTL

(* mSynch keeps app_main and visualsQuit from the frames of every view of  *)
(* the activity they run for, and frames of two views meet only if one of  *)
(* their activities is destroyed.                                          *)
THEOREM RacesAreOfTheDestroyed == Spec => []OnlyTheDestroyedRace
<1>1. ASSUME Inv, NEW v \in View, render[v] = "frame", Restarting
      PROVE  owner[v] # ui.act /\ life[owner[v]] = "destroyed"
  <2>1. synch[owner[v]] = v /\ synch[ui.act] = "ui" /\ v # "ui"
    BY <1>1, StarVisualsAppAssumption DEF Inv, SynchHeld
  <2>2. ui.act = current
    BY <1>1 DEF Inv, OnCurrent, Restarting
  <2>3. QED  BY <1>1, <2>1, <2>2 DEF Inv, OwnersKnown, Running
<1>2. ASSUME Inv, NEW v \in View, NEW w \in View \ {v},
             render[v] = "frame", render[w] = "frame"
      PROVE  /\ owner[v] # owner[w]
             /\ "destroyed" \in {life[owner[v]], life[owner[w]]}
  <2>1. synch[owner[v]] = v /\ synch[owner[w]] = w
    BY <1>2 DEF Inv, SynchHeld
  <2>2. QED  BY <1>2, <2>1 DEF Inv, OwnersKnown, Running
<1>3. Inv => OnlyTheDestroyedRace
  BY <1>1, <1>2 DEF OnlyTheDestroyedRace
<1>4. QED  BY <1>3, Invariance, PTL

(* The user interface never draws from, or recycles, a bitmap that a frame *)
(* is written to.                                                          *)
THEOREM BitmapIsGuarded == Spec => []BitmapIsNotShared
<1>1. ASSUME Inv, ui.pc \in {"draw", "init", "initApp"}
      PROVE  render[ui.view] # "frame"
  BY <1>1 DEF Inv, TypeOK, LockHeld
<1>2. Inv => BitmapIsNotShared
  BY <1>1 DEF BitmapIsNotShared
<1>3. QED  BY <1>2, Invariance, PTL

-----------------------------------------------------------------------------
(* The converse of SynchHeld and LockHeld: whoever has a lock is where it  *)
(* has it, and the view under construction has no thread yet.              *)
Holders ==
  /\ \A a \in Activity :
       /\ synch[a] \in View => render[synch[a]] \in {"lock", "frame"}
                              /\ owner[synch[a]] = a
       /\ synch[a] = "ui" => ui.pc \in {"initApp", "quit"} /\ ui.act = a
  /\ \A v \in View :
       /\ lock[v] = "ui" => ui.pc \in {"init", "initApp", "draw"} /\ ui.view = v
       /\ lock[v] = "render" => render[v] = "frame"
  /\ ui.pc \in {"init", "initApp"} => render[ui.view] = "none"

LEMMA HoldersInit == Init => Holders
BY StarVisualsAppAssumption DEF Init, Holders, Idle

LEMMA HoldersUi ==
  ASSUME Inv, Holders, UiGoesOn \/ UiEnters PROVE Holders'
<1> USE StarVisualsAppAssumption
    DEF At, Idle, vars, lifeVars, flags, views, micVars, locks, Inv, TypeOK,
        Holders
<1>1. CASE Start
  BY <1>1 DEF Start, EnableMic
<1>2. CASE NewView
  BY <1>2 DEF NewView, FreshViews
<1>3. CASE InitReturns
  BY <1>3 DEF InitReturns
<1>4. CASE DrawReturns
  BY <1>4 DEF DrawReturns
<1>5. CASE Quit
  BY <1>5 DEF Quit, Pause
<1>6. CASE LeaveReturns
  BY <1>6 DEF LeaveReturns
<1>7. CASE MicOff
  BY <1>7 DEF MicOff, Goes, Resume
<1>8. CASE MicJoined
  BY <1>8 DEF MicJoined, Resume
<1>9. CASE InitEnters
  BY <1>9 DEF InitEnters, Goes
<1>10. CASE MicOn
  BY <1>10 DEF MicOn, Resume, FreshMics
<1>11. QED
  BY <1>1, <1>2, <1>3, <1>4, <1>5, <1>6, <1>7, <1>8, <1>9, <1>10 DEF UiGoesOn, UiEnters

LEMMA HoldersCalls ==
  ASSUME Inv, Holders, UiCalls PROVE Holders'
<1> USE StarVisualsAppAssumption
    DEF At, Idle, vars, lifeVars, flags, views, micVars, locks, Inv, TypeOK,
        Holders
<1>1. CASE Restart
  BY <1>1 DEF Restart, Handles
<1>2. CASE Draw
  BY <1>2 DEF Draw, ViewsMade
<1>3. CASE Leave
  BY <1>3 DEF Leave, Pause
<1>4. CASE Close
  BY <1>4 DEF Close, Handles
<1>5. CASE Destroy
  BY <1>5 DEF Destroy
<1>6. ASSUME NEW a \in Activity, Launch(a) PROVE Holders'
  BY <1>6 DEF Launch, Handles
<1>7. ASSUME NEW a \in Activity, InputChanged(a) PROVE Holders'
  BY <1>7 DEF InputChanged, EnableMic
<1>8. QED  BY <1>1, <1>2, <1>3, <1>4, <1>5, <1>6, <1>7 DEF UiCalls

LEMMA HoldersThreads ==
  ASSUME Inv, Holders,
         \/ \E v \in View : RenderGoesOn(v) \/ Enter(v)
         \/ \E m \in Mic : MicGoesOn(m)
  PROVE  Holders'
<1> USE StarVisualsAppAssumption
    DEF At, lifeVars, flags, views, micVars, locks, Inv, TypeOK, Holders,
        RenderGoes, UiKeeps
<1>1. ASSUME NEW v \in View, Begin(v) PROVE Holders'
  BY <1>1 DEF Begin
<1>2. ASSUME NEW v \in View, TestActive(v) PROVE Holders'
  BY <1>2 DEF TestActive
<1>3. ASSUME NEW v \in View, Enter(v) PROVE Holders'
  BY <1>3 DEF Enter, OwnersKnown, Running
<1>4. ASSUME NEW v \in View, Lock(v) PROVE Holders'
  BY <1>4 DEF Lock
<1>5. ASSUME NEW v \in View, FrameReturns(v) PROVE Holders'
  BY <1>5 DEF FrameReturns, OwnersKnown, Running
<1>6. ASSUME NEW m \in Mic, MicGoesOn(m) PROVE Holders'
  BY <1>6 DEF MicGoesOn, MicBegin, MicEnd, MicGoes
<1>7. QED  BY <1>1, <1>2, <1>3, <1>4, <1>5, <1>6 DEF RenderGoesOn

LEMMA HoldersInvariance == Spec => []Holders
<1>1. Init => Holders
  BY HoldersInit
<1>2. Inv /\ Holders /\ [Next]_vars => Holders'
  <2>1. ASSUME Holders, UNCHANGED vars PROVE Holders'
    BY <2>1 DEF Holders, vars, lifeVars, flags, views, micVars, locks
  <2>2. QED  BY <2>1, HoldersUi, HoldersCalls, HoldersThreads DEF Next
<1>3. QED  BY <1>1, <1>2, Invariance, PTL DEF Spec

(* No order of handlers and frames makes two threads wait for each other,  *)
(* although they take mSynch and mLock in opposite orders.  The user       *)
(* interface in initVisual has the mLock of a view without a thread, so    *)
(* that the thread it waits for does not want that lock; while it draws it *)
(* wants nothing.                                                          *)
THEOREM NobodyWaitsInACircle == Spec => []NoCircularWait
<1>1. ASSUME Inv, Holders PROVE NoCircularWait
  <2> USE StarVisualsAppAssumption
  <2>1. WaitsFor(Null) = Null
    BY DEF WaitsFor
  <2>2. ASSUME NEW v \in View, render[v] = "lock"
        PROVE  /\ WaitsFor(v) \in {Null, "ui"}
               /\ WaitsFor(v) = "ui" => /\ ui.pc \in {"init", "initApp", "draw"}
                                        /\ ui.view = v
    BY <1>1, <2>2 DEF WaitsFor, Holders, Inv, TypeOK
  <2>3. ASSUME NEW v \in View, render[v] = "lock", WaitsFor(v) = "ui"
        PROVE  ui.pc = "draw"
    BY <1>1, <2>2, <2>3 DEF Holders
  <2>4. ui.pc = "draw" => WaitsFor("ui") = Null
    BY DEF WaitsFor
  <2>5. ASSUME NEW v \in View, render[v] \in {"lock", "frame"}
        PROVE  /\ WaitsFor(v) # Null => InArea(WaitsFor(v))
               /\ WaitsFor(WaitsFor(v)) = Null
               /\ InArea(v)
    <3>1. CASE render[v] = "frame"
      <4>1. WaitsFor(v) = Null
        BY <3>1 DEF WaitsFor
      <4>2. QED  BY <4>1, <2>1, <2>5 DEF InArea
    <3>2. CASE render[v] = "lock"
      BY <3>2, <2>1, <2>2, <2>3, <2>4 DEF InArea
    <3>3. QED  BY <2>5, <3>1, <3>2
  <2>6. ASSUME NEW a \in Activity, synch[a] \in View
        PROVE  /\ InArea(synch[a])
               /\ WaitsFor(WaitsFor(synch[a])) = Null
    BY <1>1, <2>5, <2>6 DEF Holders
  <2>7. ASSUME NEW a \in Activity, synch[a] = "ui"
        PROVE  InArea("ui") /\ WaitsFor("ui") = Null
    BY <1>1, <2>7 DEF Holders, InArea, WaitsFor
  <2>8. ASSUME NEW a \in Activity
        PROVE  /\ synch[a] # Null => InArea(synch[a])
               /\ WaitsFor(WaitsFor(synch[a])) = Null
    <3>1. synch[a] \in View \cup {"ui", Null}
      BY <1>1 DEF Inv, TypeOK
    <3>2. QED  BY <3>1, <2>1, <2>6, <2>7
  <2>9. ASSUME NEW t \in View \cup {"ui"}
        PROVE  /\ WaitsFor(t) # Null => InArea(WaitsFor(t))
               /\ WaitsFor(WaitsFor(WaitsFor(t))) = Null
    <3>1. CASE t = "ui"
      <4>1. CASE ui.pc \in {"init", "micOn"}
        <5>1. WaitsFor(t) = synch[ui.act]
          BY <3>1, <4>1 DEF WaitsFor
        <5>2. ui.act \in Activity
          BY <1>1, <4>1 DEF Inv, TypeOK, At
        <5>3. QED  BY <5>1, <5>2, <2>8
      <4>2. CASE ui.pc \notin {"init", "micOn"}
        <5>1. WaitsFor(t) = Null
          BY <3>1, <4>2 DEF WaitsFor
        <5>2. QED  BY <5>1, <2>1
      <4>3. QED  BY <4>1, <4>2
    <3>2. CASE t \in View /\ render[t] = "enter"
      <4>1. WaitsFor(t) = synch[owner[t]]
        BY <3>2 DEF WaitsFor
      <4>2. owner[t] \in Activity
        BY <1>1, <3>2 DEF Inv, OwnersKnown, Running
      <4>3. QED  BY <4>1, <4>2, <2>8
    <3>3. CASE t \in View /\ render[t] \in {"lock", "frame"}
      BY <3>3, <2>1, <2>5
    <3>4. CASE t \in View /\ render[t] \notin {"enter", "lock", "frame"}
      <4>1. WaitsFor(t) = Null
        BY <3>4 DEF WaitsFor
      <4>2. QED  BY <4>1, <2>1
    <3>5. QED  BY <3>1, <3>2, <3>3, <3>4
  <2>10. QED  BY <2>9 DEF NoCircularWait
<1>2. QED  BY <1>1, Invariance, HoldersInvariance, PTL

=============================================================================
