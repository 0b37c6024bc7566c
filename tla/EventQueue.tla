----------------------------- MODULE EventQueue -----------------------------
(***************************************************************************)
(* The event queue of a libvisual plugin (lv_event.c): a bounded list that *)
(* drops what does not fit, and one slot for the last resize, which is     *)
(* polled before everything else.                                          *)
(*                                                                         *)
(* The clients add (the application, visual_actor_run, the parameters);    *)
(* the plugin polls in its events function.  "plugin" is what a plugin     *)
(* knows that goes by its events alone: the position that the relative     *)
(* motions add up to, the button, the size.                                *)
(*                                                                         *)
(* Positions are one-dimensional.  The keyboard, newsong, param, quit,     *)
(* visibility and generic events differ in their payload only.             *)
(***************************************************************************)
EXTENDS Integers, Sequences

CONSTANTS
  MaxEvents,   \* VISUAL_EVENT_MAXEVENTS
  X,           \* mouse positions
  Size,        \* sizes of a resize
  NoSize       \* before the first resize

ASSUME EventQueueAssumption ==
  /\ MaxEvents \in Nat
  /\ X \subseteq Int
  /\ 0 \in X
  /\ NoSize \notin Size

VARIABLES
  events,      \* eventqueue->events
  eventcount,  \* eventqueue->eventcount
  lastresize,  \* eventqueue->lastresize
  resizenew,   \* eventqueue->resizenew
  mouse,       \* eventqueue->mousex and mousestate
  plugin,      \* what the plugin has made of the events polled so far
  lost         \* some event was dropped

vars == <<events, eventcount, lastresize, resizenew, mouse, plugin, lost>>

Button == {"up", "down"}

Motion == [type : {"motion"}, x : X, xrel : Int, state : Button]
ButtonEvent == [type : {"button"}, state : Button]
OtherEvent == [type : {"other"}]
Event == Motion \cup ButtonEvent \cup OtherEvent

(* visual_event_queue_init *)
Init ==
  /\ events = << >>
  /\ eventcount = 0
  /\ lastresize = NoSize
  /\ resizenew = FALSE
  /\ mouse = [x |-> 0, state |-> "up"]
  /\ plugin = [x |-> 0, button |-> "up", size |-> NoSize]
  /\ lost = FALSE

-----------------------------------------------------------------------------
(* visual_event_queue_add: "We've got way too much on the queue, not       *)
(* adding events"                                                          *)
Full == eventcount > MaxEvents

AddUncounted(e) ==  \* slip: a dropped event is counted
  /\ events' = IF Full THEN events ELSE Append(events, e)
  /\ eventcount' = eventcount + 1
  /\ lost' = (lost \/ Full)

AddAtBegin(e) ==  \* slip: chained at the begin of the list
  /\ events' = IF Full THEN events ELSE <<e>> \o events
  /\ eventcount' = IF Full THEN eventcount ELSE eventcount + 1
  /\ lost' = (lost \/ Full)

Add(e) ==
  /\ events' = IF Full THEN events ELSE Append(events, e)
  /\ eventcount' = IF Full THEN eventcount ELSE eventcount + 1
  /\ lost' = (lost \/ Full)

(* visual_event_queue_add_mousemotion: the position is remembered whether  *)
(* or not the event finds room.                                            *)
AddMotion(x) ==
  /\ Add([type |-> "motion", x |-> x, xrel |-> x - mouse.x,
          state |-> mouse.state])
  /\ mouse' = [mouse EXCEPT !.x = x]
  /\ UNCHANGED <<lastresize, resizenew, plugin>>

(* visual_event_queue_add_mousebutton *)
AddButton(s) ==
  /\ Add([type |-> "button", state |-> s])
  /\ mouse' = [mouse EXCEPT !.state = s]
  /\ UNCHANGED <<lastresize, resizenew, plugin>>

(* visual_event_queue_add_keyboard, _newsong, _param, _quit, _visibility,  *)
(* _generic                                                                *)
AddOther ==
  /\ Add([type |-> "other"])
  /\ UNCHANGED <<lastresize, resizenew, mouse, plugin>>

AddResizeWhenRoom(z) ==  \* slip: a resize obeys the limit like the others
  /\ lastresize' = z
  /\ resizenew' = ~Full
  /\ UNCHANGED <<events, eventcount, mouse, plugin, lost>>

(* visual_event_queue_add_resize *)
AddResize(z) ==
  /\ lastresize' = z
  /\ resizenew' = TRUE
  /\ UNCHANGED <<events, eventcount, mouse, plugin, lost>>

-----------------------------------------------------------------------------
(* visual_event_queue_poll, _poll_by_reference *)

PollResize ==
  /\ resizenew
  /\ resizenew' = FALSE
  /\ plugin' = [plugin EXCEPT !.size = lastresize]
  /\ UNCHANGED <<events, eventcount, lastresize, mouse, lost>>

(* A plugin that goes by its events takes one in.  Once an event was       *)
(* dropped its position is off for good, and no longer followed.           *)
Handle(p, e) ==
  CASE e.type = "motion" -> [p EXCEPT !.x = IF lost THEN 0 ELSE @ + e.xrel,
                                      !.button = e.state]
    [] e.type = "button" -> [p EXCEPT !.button = e.state]
    [] OTHER             -> p

PollUncounted ==  \* slip: polls without a look at the count
  /\ ~resizenew
  /\ events' = IF events = << >> THEN events ELSE Tail(events)
  /\ eventcount' = eventcount - 1
  /\ plugin' = IF events = << >> THEN plugin ELSE Handle(plugin, Head(events))
  /\ UNCHANGED <<lastresize, resizenew, mouse, lost>>

PollEvent ==
  /\ ~resizenew
  /\ eventcount > 0
  /\ events' = Tail(events)
  /\ eventcount' = eventcount - 1
  /\ plugin' = Handle(plugin, Head(events))
  /\ UNCHANGED <<lastresize, resizenew, mouse, lost>>

Poll == PollResize \/ PollEvent

Next ==
  \/ \E x \in X : AddMotion(x)
  \/ \E s \in Button : AddButton(s)
  \/ AddOther
  \/ \E z \in Size : AddResize(z)
  \/ Poll

(* A plugin is pumped at every frame, and polls until there is no more. *)
Spec == Init /\ [][Next]_vars
FairSpec == Spec /\ WF_vars(Poll)

-----------------------------------------------------------------------------
(* Properties *)

Mouse == [x : X, state : Button]
Plugin == [x : Int, button : Button, size : Size \cup {NoSize}]

(* The fields of the queue hold what C may put there. *)
TypeOK ==
  /\ events \in Seq(Event)
  /\ eventcount \in Nat
  /\ lastresize \in Size \cup {NoSize}
  /\ resizenew \in BOOLEAN
  /\ mouse \in Mouse
  /\ plugin \in Plugin
  /\ lost \in BOOLEAN

(* The count that guards the polls and the adds is the length of the list, *)
(* also after events were dropped: no poll takes from an empty list, no    *)
(* event is stranded in it, and it never outgrows its limit by more than   *)
(* one event.  By that one it does: lv_event.h:29 calls the limit "Number  *)
(* of events allowed in the queue", and visual_event_queue_add, which      *)
(* compares with > before it adds, allows 257 where that is 256.           *)
CountIsLength ==
  /\ eventcount = Len(events)
  /\ eventcount <= MaxEvents + 1

(* A mouse event is refused only when the queue holds that one event more  *)
(* than lv_event.h:29 allows, however many were refused and polled before: *)
(* until then each finds room, and the last one beyond the documented      *)
(* number does, too.                                                       *)
DropsAreLate ==
  [][ (mouse' # mouse \/ lost' # lost) /\ events' = events =>
        Len(events) = MaxEvents + 1 ]_vars

(* The i-th event is the last before the k-th one that tells what T tells. *)
Moves == {"motion"}
Presses == {"motion", "button"}

LastBefore(i, k, T) ==
  /\ events[i].type \in T
  /\ \A j \in i + 1 .. k - 1 : events[j].type \notin T

NoneBefore(k, T) == \A j \in 1 .. k - 1 : events[j].type \notin T

(* A plugin that has handled the events before the k-th one is at x with   *)
(* the button in state b.                                                  *)
At(k, x, b) ==
  /\ \A i \in 1 .. k - 1 : LastBefore(i, k, Moves) => events[i].x = x
  /\ NoneBefore(k, Moves) => plugin.x = x
  /\ \A i \in 1 .. k - 1 : LastBefore(i, k, Presses) => events[i].state = b
  /\ NoneBefore(k, Presses) => plugin.button = b

(* As long as nothing is dropped, the relative motions still queued start  *)
(* where the plugin is, follow one another, and end where the mouse is,    *)
(* and every motion carries the button that the events before it leave: a  *)
(* plugin that polls the queue dry knows the mouse.                        *)
MotionsAddUp ==
  ~lost =>
    /\ At(Len(events) + 1, mouse.x, mouse.state)
    /\ \A k \in 1 .. Len(events) :
         events[k].type = "motion" =>
           At(k, events[k].x - events[k].xrel, events[k].state)

(* "the important event.resize event got data in the event queue structure *)
(* that makes sure it gets looked at" (lv_event.c): a plugin that has no   *)
(* resize to poll has the size asked for last, full queue or not.          *)
SizeFollows == ~resizenew => plugin.size = lastresize

(* The same as a promise: whatever size was asked for last is taken in, or *)
(* overtaken by a later one, whatever else is in the queue.                *)
ResizeGetsLookedAt ==
  \A z \in Size :
    (lastresize = z) ~> (plugin.size = z \/ lastresize # z)

=============================================================================
