-------------------------- MODULE EventQueueProofs --------------------------
(***************************************************************************)
(* Proofs about EventQueue, for every limit, every set of positions and    *)
(* sizes, and every order of adds and polls.                               *)
(*                                                                         *)
(* Shape is inductive on its own.  MotionsAddUp is inductive relative to   *)
(* it: an event is added after the last one, at which the chain of motions *)
(* has reached the mouse, and taken from before the first one, at which    *)
(* the chain starts with the plugin.                                       *)
(***************************************************************************)
EXTENDS EventQueue, TLAPS

Shape == TypeOK /\ CountIsLength /\ SizeFollows

-----------------------------------------------------------------------------
LEMMA ShapeInit == Init => Shape
<1>. SUFFICES ASSUME Init PROVE Shape
  OBVIOUS
<1>1. events \in Seq(Event) /\ Len(events) = 0
  BY DEF Init
<1>2. eventcount \in Nat /\ CountIsLength
  BY <1>1, EventQueueAssumption DEF Init, CountIsLength
<1>3. mouse \in Mouse
  BY EventQueueAssumption DEF Init, Mouse, Button
<1>4. plugin \in Plugin /\ plugin.size = NoSize
  BY DEF Init, Plugin, Button
<1>5. QED
  BY <1>1, <1>2, <1>3, <1>4 DEF Init, Shape, TypeOK, SizeFollows

(* visual_event_queue_add keeps the list and its count in step. *)
LEMMA AddShape ==
  ASSUME NEW e \in Event, TypeOK, CountIsLength, Add(e)
  PROVE  /\ events' \in Seq(Event)
         /\ eventcount' \in Nat
         /\ lost' \in BOOLEAN
         /\ CountIsLength'
<1>1. CASE Full
  BY <1>1, EventQueueAssumption DEF Add, TypeOK, CountIsLength
<1>2. CASE ~Full
  <2>1. eventcount + 1 <= MaxEvents + 1
    BY <1>2, EventQueueAssumption DEF Full, TypeOK
  <2>2. QED
    BY <1>2, <2>1, EventQueueAssumption DEF Add, TypeOK, CountIsLength
<1>3. QED  BY <1>1, <1>2

LEMMA HandleType ==
  ASSUME NEW p \in Plugin, NEW e \in Event
  PROVE  Handle(p, e) \in Plugin /\ Handle(p, e).size = p.size
<1>1. CASE e \in Motion
  <2>1. e.type = "motion" /\ e.xrel \in Int /\ e.state \in Button
    BY <1>1 DEF Motion
  <2>2. (IF lost THEN 0 ELSE p.x + e.xrel) \in Int
    BY <2>1 DEF Plugin
  <2>3. QED
    BY <2>1, <2>2 DEF Handle, Plugin
<1>2. CASE e \in ButtonEvent
  <2>1. e.type = "button" /\ e.state \in Button
    BY <1>2 DEF ButtonEvent
  <2>2. QED
    BY <2>1 DEF Handle, Plugin
<1>3. CASE e \in OtherEvent
  <2>1. e.type = "other"
    BY <1>3 DEF OtherEvent
  <2>2. QED
    BY <2>1 DEF Handle
<1>4. QED  BY <1>1, <1>2, <1>3 DEF Event

LEMMA ShapeStep == Shape /\ [Next]_vars => Shape'
<1>. SUFFICES ASSUME Shape, [Next]_vars PROVE Shape'
  OBVIOUS
<1>1. ASSUME NEW x \in X, AddMotion(x) PROVE Shape'
  <2>. DEFINE e == [type |-> "motion", x |-> x, xrel |-> x - mouse.x,
                    state |-> mouse.state]
  <2>1. e \in Event
    <3>1. mouse.x \in Int /\ mouse.state \in Button /\ x \in Int
      BY EventQueueAssumption DEF Shape, TypeOK, Mouse
    <3>2. e \in Motion
      BY <3>1 DEF Motion
    <3>3. QED
      BY <3>2 DEF Event
  <2>2. Add(e) /\ mouse' = [mouse EXCEPT !.x = x]
        /\ UNCHANGED <<lastresize, resizenew, plugin>>
    BY <1>1 DEF AddMotion
  <2>. HIDE DEF e
  <2>3. QED
    BY <2>1, <2>2, AddShape DEF Shape, TypeOK, SizeFollows, Mouse
<1>2. ASSUME NEW s \in Button, AddButton(s) PROVE Shape'
  <2>. DEFINE e == [type |-> "button", state |-> s]
  <2>1. e \in Event
    BY DEF Event, ButtonEvent
  <2>2. Add(e) /\ mouse' = [mouse EXCEPT !.state = s]
        /\ UNCHANGED <<lastresize, resizenew, plugin>>
    BY <1>2 DEF AddButton
  <2>. HIDE DEF e
  <2>3. QED
    BY <2>1, <2>2, AddShape DEF Shape, TypeOK, SizeFollows, Mouse
<1>3. CASE AddOther
  <2>1. [type |-> "other"] \in Event
    BY DEF Event, OtherEvent
  <2>2. QED
    BY <1>3, <2>1, AddShape DEF AddOther, Shape, TypeOK, SizeFollows
<1>4. ASSUME NEW z \in Size, AddResize(z) PROVE Shape'
  BY <1>4 DEF AddResize, Shape, TypeOK, CountIsLength, SizeFollows
<1>5. CASE PollResize
  BY <1>5 DEF PollResize, Shape, TypeOK, CountIsLength, SizeFollows, Plugin
<1>6. CASE PollEvent
  <2>1. events # << >> /\ events' = Tail(events)
    BY <1>6 DEF PollEvent, Shape, TypeOK, CountIsLength
  <2>2. Head(events) \in Event /\ Tail(events) \in Seq(Event)
        /\ Len(Tail(events)) = Len(events) - 1
    BY <2>1 DEF Shape, TypeOK
  <2>3. /\ plugin' = Handle(plugin, Head(events))
        /\ eventcount' = eventcount - 1
        /\ UNCHANGED <<lastresize, resizenew, mouse, lost>>
        /\ eventcount > 0
    BY <1>6 DEF PollEvent
  <2>4. plugin' \in Plugin /\ plugin'.size = plugin.size
    BY <2>2, <2>3, HandleType DEF Shape, TypeOK
  <2>5. QED
    BY <2>1, <2>2, <2>3, <2>4, EventQueueAssumption
       DEF Shape, TypeOK, CountIsLength, SizeFollows
<1>7. CASE UNCHANGED vars
  BY <1>7 DEF vars, Shape, TypeOK, CountIsLength, SizeFollows
<1>8. QED
  BY <1>1, <1>2, <1>3, <1>4, <1>5, <1>6, <1>7 DEF Next, Poll

LEMMA ShapeAlways == Spec => []Shape
BY ShapeInit, ShapeStep, PTL DEF Spec

-----------------------------------------------------------------------------
(* MotionsAddUp as an operator on queues: what holds of a queue q and a    *)
(* plugin at x0 with the button in state b0, told up to the k-th event.    *)

Last(q, i, k, T) ==
  /\ q[i].type \in T
  /\ \A j \in i + 1 .. k - 1 : q[j].type \notin T

None(q, k, T) == \A j \in 1 .. k - 1 : q[j].type \notin T

Reach(q, x0, b0, k, x, b) ==
  /\ \A i \in 1 .. k - 1 : Last(q, i, k, Moves) => q[i].x = x
  /\ None(q, k, Moves) => x0 = x
  /\ \A i \in 1 .. k - 1 : Last(q, i, k, Presses) => q[i].state = b
  /\ None(q, k, Presses) => b0 = b

Chain(q, x0, b0, m) ==
  /\ Reach(q, x0, b0, Len(q) + 1, m.x, m.state)
  /\ \A k \in 1 .. Len(q) :
       q[k].type = "motion" =>
         Reach(q, x0, b0, k, q[k].x - q[k].xrel, q[k].state)

LEMMA ChainIs ==
  MotionsAddUp <=> (~lost => Chain(events, plugin.x, plugin.button, mouse))
BY DEF MotionsAddUp, Chain, At, Reach, LastBefore, Last, NoneBefore, None

LEMMA ChainIsNext ==
  MotionsAddUp' <=>
    (~lost' => Chain(events', plugin'.x, plugin'.button, mouse'))
BY DEF MotionsAddUp, Chain, At, Reach, LastBefore, Last, NoneBefore, None

(* An event appended to the queue changes nothing for the ones before it,  *)
(* and finds the end of the chain.                                         *)
LEMMA ReachAppend ==
  ASSUME NEW q \in Seq(Event), NEW e, NEW k \in 1 .. Len(q) + 1,
         NEW x0, NEW b0, NEW x, NEW b, Reach(q, x0, b0, k, x, b)
  PROVE  Reach(Append(q, e), x0, b0, k, x, b)
<1>1. \A i \in 1 .. k - 1 : i \in 1 .. Len(q) /\ Append(q, e)[i] = q[i]
  OBVIOUS
<1>2. \A i \in 1 .. k - 1 : \A j \in i + 1 .. k - 1 : j \in 1 .. k - 1
  OBVIOUS
<1>3. \A T : None(Append(q, e), k, T) => None(q, k, T)
  BY <1>1 DEF None
<1>4. \A T : \A i \in 1 .. k - 1 :
        Last(Append(q, e), i, k, T) => Last(q, i, k, T)
  BY <1>1, <1>2 DEF Last
<1>5. QED
  BY <1>1, <1>3, <1>4 DEF Reach

(* What a plugin knows after the appended event: what the event tells, and *)
(* of the rest what it knew before.                                        *)
LEMMA LastAppend ==
  ASSUME NEW q \in Seq(Event), NEW e, NEW T
  PROVE  /\ e.type \in T =>
              /\ ~None(Append(q, e), Len(q) + 2, T)
              /\ \A i \in 1 .. Len(q) + 1 :
                   Last(Append(q, e), i, Len(q) + 2, T) => i = Len(q) + 1
         /\ e.type \notin T =>
              /\ None(Append(q, e), Len(q) + 2, T) => None(q, Len(q) + 1, T)
              /\ \A i \in 1 .. Len(q) + 1 :
                   Last(Append(q, e), i, Len(q) + 2, T) =>
                     i \in 1 .. Len(q) /\ Last(q, i, Len(q) + 1, T)
<1>. DEFINE n == Len(q)
            r == Append(q, e)
<1>1. n \in Nat /\ r[n + 1] = e /\ \A i \in 1 .. n : r[i] = q[i]
  OBVIOUS
<1>. HIDE DEF n, r
<1>2. ASSUME e.type \in T
      PROVE  /\ ~None(r, n + 2, T)
             /\ \A i \in 1 .. n + 1 : Last(r, i, n + 2, T) => i = n + 1
  <2>1. n + 1 \in 1 .. (n + 2) - 1 /\ r[n + 1].type \in T
    BY <1>1, <1>2
  <2>2. \A i \in 1 .. n + 1 : i # n + 1 => n + 1 \in i + 1 .. (n + 2) - 1
    BY <1>1
  <2>3. QED
    BY <2>1, <2>2 DEF None, Last
<1>3. ASSUME e.type \notin T
      PROVE  /\ None(r, n + 2, T) => None(q, n + 1, T)
             /\ \A i \in 1 .. n + 1 :
                  Last(r, i, n + 2, T) => i \in 1 .. n /\ Last(q, i, n + 1, T)
  <2>1. \A j \in 1 .. (n + 1) - 1 : j \in 1 .. (n + 2) - 1 /\ r[j] = q[j]
    BY <1>1
  <2>2. None(r, n + 2, T) => None(q, n + 1, T)
    BY <2>1 DEF None
  <2>3. ASSUME NEW i \in 1 .. n + 1, Last(r, i, n + 2, T)
        PROVE  i \in 1 .. n /\ Last(q, i, n + 1, T)
    <3>1. i # n + 1
      BY <1>1, <1>3, <2>3 DEF Last
    <3>2. i \in 1 .. n /\ r[i] = q[i]
      BY <1>1, <3>1
    <3>3. \A j \in i + 1 .. (n + 1) - 1 :
            j \in i + 1 .. (n + 2) - 1 /\ r[j] = q[j]
      BY <1>1
    <3>4. QED
      BY <2>3, <3>2, <3>3 DEF Last
  <2>4. QED  BY <2>2, <2>3
<1>4. QED  BY <1>2, <1>3 DEF n, r

(* A chain goes on with any event that starts where the chain ends.        *)
LEMMA ChainAppend ==
  ASSUME NEW q \in Seq(Event), NEW e \in Event, NEW x0, NEW b0, NEW m,
         NEW m2, Chain(q, x0, b0, m),
         e.type = "motion" => /\ e.x - e.xrel = m.x /\ e.state = m.state
                              /\ m2.x = e.x /\ m2.state = e.state,
         e.type = "button" => m2.x = m.x /\ m2.state = e.state,
         e.type = "other" => m2.x = m.x /\ m2.state = m.state
  PROVE  Chain(Append(q, e), x0, b0, m2)
<1>. DEFINE n == Len(q)
            r == Append(q, e)
<1>1. /\ n \in Nat /\ Len(r) = n + 1 /\ r[n + 1] = e
      /\ \A i \in 1 .. n : r[i] = q[i]
  OBVIOUS
<1>2. e.type \in {"motion", "button", "other"}
  BY DEF Event, Motion, ButtonEvent, OtherEvent
<1>3. Reach(r, x0, b0, n + 1, m.x, m.state)
  <2>1. n + 1 \in 1 .. n + 1
    BY <1>1
  <2>2. QED
    BY <2>1, ReachAppend DEF Chain
<1>4. Reach(r, x0, b0, n + 2, m2.x, m2.state)
  <2>1. Reach(q, x0, b0, n + 1, m.x, m.state)
    BY DEF Chain
  <2>2. (n + 2) - 1 = n + 1 /\ (n + 1) - 1 = n
    BY <1>1
  <2>3. /\ \A i \in 1 .. n + 1 : Last(r, i, n + 2, Moves) => r[i].x = m2.x
        /\ None(r, n + 2, Moves) => x0 = m2.x
    <3>1. CASE e.type = "motion"
      <4>1. e.type \in Moves
        BY <3>1 DEF Moves
      <4>2. QED
        BY <1>1, <3>1, <4>1, LastAppend
    <3>2. CASE e.type \in {"button", "other"}
      <4>1. e.type \notin Moves /\ m2.x = m.x
        BY <3>2 DEF Moves
      <4>2. QED
        BY <1>1, <2>1, <2>2, <4>1, LastAppend DEF Reach
    <3>3. QED  BY <1>2, <3>1, <3>2
  <2>4. /\ \A i \in 1 .. n + 1 :
             Last(r, i, n + 2, Presses) => r[i].state = m2.state
        /\ None(r, n + 2, Presses) => b0 = m2.state
    <3>1. CASE e.type \in {"motion", "button"}
      <4>1. e.type \in Presses /\ m2.state = e.state
        BY <3>1 DEF Presses
      <4>2. QED
        BY <1>1, <4>1, LastAppend
    <3>2. CASE e.type = "other"
      <4>1. e.type \notin Presses /\ m2.state = m.state
        BY <3>2 DEF Presses
      <4>2. QED
        BY <1>1, <2>1, <2>2, <4>1, LastAppend DEF Reach
    <3>3. QED  BY <1>2, <3>1, <3>2
  <2>5. QED
    BY <2>2, <2>3, <2>4 DEF Reach
<1>5. ASSUME NEW k \in 1 .. n + 1, r[k].type = "motion"
      PROVE  Reach(r, x0, b0, k, r[k].x - r[k].xrel, r[k].state)
  <2>1. CASE k = n + 1
    BY <1>1, <1>3, <1>5, <2>1
  <2>2. CASE k # n + 1
    <3>1. k \in 1 .. n /\ r[k] = q[k]
      BY <1>1, <2>2
    <3>2. Reach(q, x0, b0, k, q[k].x - q[k].xrel, q[k].state)
      BY <1>5, <3>1 DEF Chain
    <3>3. QED
      BY <3>1, <3>2, ReachAppend
  <2>3. QED  BY <2>1, <2>2
<1>6. (n + 1) + 1 = n + 2
  BY <1>1
<1>7. QED
  BY <1>1, <1>4, <1>5, <1>6 DEF Chain

(* The event taken from the front starts where the plugin is; the ones     *)
(* behind it find a plugin that has handled it.                            *)
LEMMA LastTail ==
  ASSUME NEW q \in Seq(Event), q # << >>, NEW T,
         NEW k \in 1 .. Len(Tail(q)) + 1
  PROVE  /\ \A i \in 1 .. k - 1 :
              /\ i + 1 \in 1 .. (k + 1) - 1
              /\ Tail(q)[i] = q[i + 1]
              /\ Last(Tail(q), i, k, T) => Last(q, i + 1, k + 1, T)
         /\ None(Tail(q), k, T) =>
              /\ q[1].type \notin T => None(q, k + 1, T)
              /\ q[1].type \in T => Last(q, 1, k + 1, T)
         /\ 1 \in 1 .. (k + 1) - 1
<1>. DEFINE n == Len(q)
            t == Tail(q)
<1>1. n \in Nat \ {0} /\ Len(t) = n - 1 /\ \A i \in 1 .. n - 1 : t[i] = q[i + 1]
  OBVIOUS
<1>2. k \in 1 .. n
  BY <1>1
<1>. HIDE DEF n, t
<1>3. \A i \in 1 .. k - 1 : i + 1 \in 1 .. (k + 1) - 1 /\ t[i] = q[i + 1]
  BY <1>1, <1>2
<1>4. ASSUME NEW i \in 1 .. k - 1, Last(t, i, k, T)
      PROVE  Last(q, i + 1, k + 1, T)
  <2>1. q[i + 1].type \in T
    BY <1>3, <1>4 DEF Last
  <2>2. ASSUME NEW j \in (i + 1) + 1 .. (k + 1) - 1
        PROVE  q[j].type \notin T
    <3>1. j - 1 \in i + 1 .. k - 1 /\ j - 1 \in 1 .. k - 1 /\ (j - 1) + 1 = j
      BY <1>2
    <3>2. QED
      BY <1>3, <1>4, <3>1 DEF Last
  <2>3. QED  BY <2>1, <2>2 DEF Last
<1>5. ASSUME None(t, k, T)
      PROVE  \A j \in 2 .. (k + 1) - 1 : q[j].type \notin T
  <2>1. ASSUME NEW j \in 2 .. (k + 1) - 1
        PROVE  q[j].type \notin T
    <3>1. j - 1 \in 1 .. k - 1 /\ (j - 1) + 1 = j
      BY <1>2
    <3>2. QED
      BY <1>3, <1>5, <3>1 DEF None
  <2>2. QED  BY <2>1
<1>6. /\ \A j \in 1 .. (k + 1) - 1 : j = 1 \/ j \in 2 .. (k + 1) - 1
      /\ 1 \in 1 .. (k + 1) - 1
      /\ 1 + 1 = 2
  BY <1>2
<1>7. None(t, k, T) /\ q[1].type \notin T => None(q, k + 1, T)
  BY <1>5, <1>6 DEF None
<1>8. None(t, k, T) /\ q[1].type \in T => Last(q, 1, k + 1, T)
  BY <1>5, <1>6 DEF Last
<1>9. QED
  BY <1>3, <1>4, <1>6, <1>7, <1>8 DEF t

LEMMA ReachTail ==
  ASSUME NEW q \in Seq(Event), q # << >>, NEW k \in 1 .. Len(Tail(q)) + 1,
         NEW x0, NEW b0, NEW x1, NEW b1, NEW x, NEW b,
         Reach(q, x0, b0, k + 1, x, b),
         q[1].type = "motion" => x1 = q[1].x /\ b1 = q[1].state,
         q[1].type = "button" => x1 = x0 /\ b1 = q[1].state,
         q[1].type = "other" => x1 = x0 /\ b1 = b0
  PROVE  Reach(Tail(q), x1, b1, k, x, b)
<1>1. q[1].type \in {"motion", "button", "other"}
  BY DEF Event, Motion, ButtonEvent, OtherEvent
<1>2. /\ \A i \in 1 .. k - 1 : Last(Tail(q), i, k, Moves) => Tail(q)[i].x = x
      /\ \A i \in 1 .. k - 1 :
           Last(Tail(q), i, k, Presses) => Tail(q)[i].state = b
  <2>1. ASSUME NEW i \in 1 .. k - 1, Last(Tail(q), i, k, Moves)
        PROVE  Tail(q)[i].x = x
    <3>1. /\ i + 1 \in 1 .. (k + 1) - 1
          /\ Tail(q)[i] = q[i + 1]
          /\ Last(q, i + 1, k + 1, Moves)
      BY <2>1, LastTail
    <3>2. QED  BY <3>1 DEF Reach
  <2>2. ASSUME NEW i \in 1 .. k - 1, Last(Tail(q), i, k, Presses)
        PROVE  Tail(q)[i].state = b
    <3>1. /\ i + 1 \in 1 .. (k + 1) - 1
          /\ Tail(q)[i] = q[i + 1]
          /\ Last(q, i + 1, k + 1, Presses)
      BY <2>2, LastTail
    <3>2. QED  BY <3>1 DEF Reach
  <2>3. QED  BY <2>1, <2>2
<1>3. None(Tail(q), k, Moves) => x1 = x
  <2>1. CASE q[1].type = "motion"
    BY <2>1, LastTail DEF Reach, Moves
  <2>2. CASE q[1].type \in {"button", "other"}
    <3>1. q[1].type \notin Moves /\ x1 = x0
      BY <2>2 DEF Moves
    <3>2. QED
      BY <3>1, LastTail DEF Reach
  <2>3. QED  BY <1>1, <2>1, <2>2
<1>4. None(Tail(q), k, Presses) => b1 = b
  <2>1. CASE q[1].type \in {"motion", "button"}
    <3>1. q[1].type \in Presses /\ b1 = q[1].state
      BY <2>1 DEF Presses
    <3>2. QED
      BY <3>1, LastTail DEF Reach
  <2>2. CASE q[1].type = "other"
    <3>1. q[1].type \notin Presses /\ b1 = b0
      BY <2>2 DEF Presses
    <3>2. QED
      BY <3>1, LastTail DEF Reach
  <2>3. QED  BY <1>1, <2>1, <2>2
<1>5. QED
  BY <1>2, <1>3, <1>4 DEF Reach

LEMMA ChainTail ==
  ASSUME NEW q \in Seq(Event), q # << >>, NEW x0 \in Int, NEW b0, NEW m,
         NEW x1, NEW b1, Chain(q, x0, b0, m),
         q[1].type = "motion" => x1 = x0 + q[1].xrel /\ b1 = q[1].state,
         q[1].type = "button" => x1 = x0 /\ b1 = q[1].state,
         q[1].type = "other" => x1 = x0 /\ b1 = b0
  PROVE  Chain(Tail(q), x1, b1, m)
<1>1. /\ Len(q) \in Nat \ {0} /\ Len(Tail(q)) = Len(q) - 1 /\ q[1] \in Event
      /\ \A k \in 1 .. Len(q) - 1 : Tail(q)[k] = q[k + 1]
  OBVIOUS
<1>2. q[1].type = "motion" => x1 = q[1].x
  <2>1. SUFFICES ASSUME q[1].type = "motion" PROVE x1 = q[1].x
    OBVIOUS
  <2>2. q[1].x \in Int /\ q[1].xrel \in Int
    BY <1>1, <2>1, EventQueueAssumption
       DEF Event, Motion, ButtonEvent, OtherEvent
  <2>3. 1 \in 1 .. Len(q) /\ 1 .. 1 - 1 = {}
    BY <1>1
  <2>4. Reach(q, x0, b0, 1, q[1].x - q[1].xrel, q[1].state)
    BY <2>1, <2>3 DEF Chain
  <2>5. x0 = q[1].x - q[1].xrel
    BY <2>3, <2>4 DEF Reach, None
  <2>6. x1 = x0 + q[1].xrel
    BY <2>1
  <2>7. QED  BY <2>2, <2>5, <2>6
<1>3. ASSUME NEW k \in 1 .. Len(Tail(q)) + 1, NEW x, NEW b,
             Reach(q, x0, b0, k + 1, x, b)
      PROVE  Reach(Tail(q), x1, b1, k, x, b)
  BY <1>2, <1>3, ReachTail
<1>4. Reach(Tail(q), x1, b1, Len(Tail(q)) + 1, m.x, m.state)
  <2>1. /\ Len(Tail(q)) + 1 \in 1 .. Len(Tail(q)) + 1
        /\ (Len(Tail(q)) + 1) + 1 = Len(q) + 1
    BY <1>1
  <2>2. QED
    BY <1>3, <2>1 DEF Chain
<1>5. ASSUME NEW k \in 1 .. Len(Tail(q)), Tail(q)[k].type = "motion"
      PROVE  Reach(Tail(q), x1, b1, k, Tail(q)[k].x - Tail(q)[k].xrel,
                   Tail(q)[k].state)
  <2>1. /\ k \in 1 .. Len(Tail(q)) + 1 /\ k + 1 \in 1 .. Len(q)
        /\ Tail(q)[k] = q[k + 1]
    BY <1>1
  <2>2. Reach(q, x0, b0, k + 1, q[k + 1].x - q[k + 1].xrel, q[k + 1].state)
    BY <1>5, <2>1 DEF Chain
  <2>3. QED
    BY <1>3, <2>1, <2>2
<1>6. QED
  BY <1>4, <1>5 DEF Chain

-----------------------------------------------------------------------------
LEMMA MovesInit == Init => MotionsAddUp
<1>. SUFFICES ASSUME Init PROVE Chain(events, plugin.x, plugin.button, mouse)
  BY ChainIs
<1>1. /\ events = << >> /\ Len(events) = 0
      /\ plugin.x = mouse.x /\ plugin.button = mouse.state
  BY DEF Init
<1>2. 1 .. Len(events) = {} /\ 1 .. (Len(events) + 1) - 1 = {}
  BY <1>1
<1>3. QED
  BY <1>1, <1>2 DEF Chain, Reach

(* The three adds of the queue have this in common.                        *)
LEMMA AddMoves ==
  ASSUME NEW e \in Event, Shape, MotionsAddUp, Add(e), UNCHANGED plugin,
         e.type = "motion" => /\ e.x - e.xrel = mouse.x
                              /\ e.state = mouse.state
                              /\ mouse'.x = e.x /\ mouse'.state = e.state,
         e.type = "button" => mouse'.x = mouse.x /\ mouse'.state = e.state,
         e.type = "other" => mouse' = mouse
  PROVE  MotionsAddUp'
<1>. SUFFICES ASSUME ~lost'
              PROVE  Chain(events', plugin'.x, plugin'.button, mouse')
  BY ChainIsNext
<1>1. ~lost /\ events' = Append(events, e) /\ plugin' = plugin
  BY DEF Add
<1>2. Chain(events, plugin.x, plugin.button, mouse)
  BY <1>1, ChainIs
<1>3. events \in Seq(Event)
  BY DEF Shape, TypeOK
<1>4. QED
  BY <1>1, <1>2, <1>3, ChainAppend

LEMMA MovesStep == Shape /\ MotionsAddUp /\ [Next]_vars => MotionsAddUp'
<1>. SUFFICES ASSUME Shape, MotionsAddUp, [Next]_vars PROVE MotionsAddUp'
  OBVIOUS
<1>. USE DEF Shape
<1>1. ASSUME NEW x \in X, AddMotion(x) PROVE MotionsAddUp'
  <2>. DEFINE e == [type |-> "motion", x |-> x, xrel |-> x - mouse.x,
                    state |-> mouse.state]
  <2>1. /\ x \in Int /\ mouse \in Mouse /\ mouse.x \in Int
        /\ mouse.state \in Button
    BY EventQueueAssumption DEF TypeOK, Mouse
  <2>2. e \in Event
    <3>1. e \in Motion
      BY <2>1 DEF Motion
    <3>2. QED
      BY <3>1 DEF Event
  <2>3. e.x - e.xrel = mouse.x
    BY <2>1
  <2>4. Add(e) /\ UNCHANGED plugin /\ mouse' = [mouse EXCEPT !.x = x]
    BY <1>1 DEF AddMotion
  <2>5. mouse'.x = x /\ mouse'.state = mouse.state
    BY <2>1, <2>4 DEF Mouse
  <2>6. e.type = "motion" /\ e.x = x /\ e.state = mouse.state
    OBVIOUS
  <2>. HIDE DEF e
  <2>7. QED
    BY <2>2, <2>3, <2>4, <2>5, <2>6, AddMoves
<1>2. ASSUME NEW s \in Button, AddButton(s) PROVE MotionsAddUp'
  <2>. DEFINE e == [type |-> "button", state |-> s]
  <2>1. e \in Event
    BY DEF Event, ButtonEvent
  <2>2. Add(e) /\ UNCHANGED plugin /\ mouse' = [mouse EXCEPT !.state = s]
    BY <1>2 DEF AddButton
  <2>3. mouse'.x = mouse.x /\ mouse'.state = s
    BY <2>2 DEF TypeOK, Mouse
  <2>4. e.type = "button" /\ e.state = s
    OBVIOUS
  <2>. HIDE DEF e
  <2>5. QED
    BY <2>1, <2>2, <2>3, <2>4, AddMoves
<1>3. CASE AddOther
  <2>. DEFINE e == [type |-> "other"]
  <2>1. e \in Event
    BY DEF Event, OtherEvent
  <2>2. Add(e) /\ UNCHANGED plugin /\ mouse' = mouse
    BY <1>3 DEF AddOther
  <2>3. e.type = "other"
    OBVIOUS
  <2>. HIDE DEF e
  <2>4. QED
    BY <2>1, <2>2, <2>3, AddMoves
<1>4. ASSUME NEW z \in Size, AddResize(z) PROVE MotionsAddUp'
  BY <1>4, ChainIs, ChainIsNext DEF AddResize
<1>5. CASE PollResize
  <2>1. /\ plugin'.x = plugin.x /\ plugin'.button = plugin.button
        /\ UNCHANGED <<events, mouse, lost>>
    BY <1>5 DEF PollResize, TypeOK, Plugin
  <2>2. QED
    BY <2>1, ChainIs, ChainIsNext
<1>6. CASE PollEvent
  <2>. SUFFICES ASSUME ~lost'
                PROVE  Chain(events', plugin'.x, plugin'.button, mouse')
    BY ChainIsNext
  <2>1. /\ events \in Seq(Event) /\ events # << >>
        /\ events' = Tail(events) /\ mouse' = mouse /\ ~lost
        /\ plugin' = Handle(plugin, events[1])
    BY <1>6 DEF PollEvent, TypeOK, CountIsLength
  <2>2. /\ events[1] \in Event /\ plugin \in Plugin /\ plugin.x \in Int
    BY <2>1 DEF TypeOK, Plugin
  <2>3. events[1].type = "motion" =>
          /\ plugin'.x = plugin.x + events[1].xrel
          /\ plugin'.button = events[1].state
    BY <2>1, <2>2 DEF Handle, Plugin
  <2>4. events[1].type = "button" =>
          plugin'.x = plugin.x /\ plugin'.button = events[1].state
    BY <2>1, <2>2 DEF Handle, Plugin
  <2>5. events[1].type = "other" =>
          plugin'.x = plugin.x /\ plugin'.button = plugin.button
    BY <2>1, <2>2 DEF Handle, Plugin
  <2>6. Chain(events, plugin.x, plugin.button, mouse)
    BY <2>1, ChainIs
  <2>7. QED
    BY <2>1, <2>2, <2>3, <2>4, <2>5, <2>6, ChainTail
<1>7. CASE UNCHANGED vars
  BY <1>7, ChainIs, ChainIsNext DEF vars
<1>8. QED
  BY <1>1, <1>2, <1>3, <1>4, <1>5, <1>6, <1>7 DEF Next, Poll

-----------------------------------------------------------------------------
(* The fields of the queue and the plugin stay in their types. *)
THEOREM Typed == Spec => []TypeOK
<1>1. Shape => TypeOK
  BY DEF Shape
<1>2. QED  BY ShapeAlways, <1>1, PTL

(* The count is the length of the list, whatever was dropped, and at most  *)
(* one more than VISUAL_EVENT_MAXEVENTS.                                   *)
THEOREM Counted == Spec => []CountIsLength
<1>1. Shape => CountIsLength
  BY DEF Shape
<1>2. QED  BY ShapeAlways, <1>1, PTL

(* For every limit: an event is refused by a queue with one event more     *)
(* than the limit, and by no other.                                        *)
THEOREM RefusedLate == Spec => DropsAreLate
<1>1. ASSUME NEW e, Shape, Add(e), events' = events
      PROVE  Len(events) = MaxEvents + 1
  <2>1. /\ events \in Seq(Event) /\ eventcount = Len(events)
        /\ eventcount <= MaxEvents + 1 /\ eventcount \in Nat
    BY <1>1 DEF Shape, TypeOK, CountIsLength
  <2>2. Full
    <3>1. Len(Append(events, e)) = Len(events) + 1
      BY <2>1
    <3>2. Append(events, e) # events
      BY <2>1, <3>1
    <3>3. QED  BY <1>1, <3>2 DEF Add
  <2>3. QED  BY <2>1, <2>2, EventQueueAssumption DEF Full
<1>2. ASSUME Shape, Next, mouse' # mouse \/ lost' # lost, events' = events
      PROVE  Len(events) = MaxEvents + 1
  <2>1. CASE (\E x \in X : AddMotion(x)) \/ (\E s \in Button : AddButton(s)) \/ AddOther
    BY <1>1, <1>2, <2>1 DEF AddMotion, AddButton, AddOther
  <2>2. CASE (\E z \in Size : AddResize(z)) \/ Poll
    BY <1>2, <2>2 DEF AddResize, Poll, PollResize, PollEvent
  <2>3. QED  BY <1>2, <2>1, <2>2 DEF Next
<1>3. Shape /\ [Next]_vars =>
        [ (mouse' # mouse \/ lost' # lost) /\ events' = events =>
            Len(events) = MaxEvents + 1 ]_vars
  BY <1>2
<1>4. QED  BY <1>3, ShapeAlways, PTL DEF Spec, DropsAreLate

(* A plugin with no resize left to poll has the last size asked for, full  *)
(* queue or not.                                                           *)
THEOREM Sized == Spec => []SizeFollows
<1>1. Shape => SizeFollows
  BY DEF Shape
<1>2. QED  BY ShapeAlways, <1>1, PTL

(* As long as no event was dropped, what is queued leads the plugin from   *)
(* where it is to where the mouse is, motion by motion.                    *)
THEOREM Moved == Spec => []MotionsAddUp
<1>1. Shape /\ MotionsAddUp /\ [Next]_vars => (Shape /\ MotionsAddUp)'
  BY ShapeStep, MovesStep
<1>2. Init => Shape /\ MotionsAddUp
  BY ShapeInit, MovesInit
<1>3. QED  BY <1>1, <1>2, PTL DEF Spec
=============================================================================
