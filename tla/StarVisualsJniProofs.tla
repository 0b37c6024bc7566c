------------------------ MODULE StarVisualsJniProofs ------------------------
(***************************************************************************)
(* Proofs about StarVisualsJni: all its safety properties hold for every   *)
(* number of morphs, inputs, queues and events and for every limit.        *)
(*                                                                         *)
(* Two things carry them.  A call that has fetched the morph of the bin    *)
(* finds the same one or none when it comes back to it, done if it was     *)
(* done (OldIsMorph): frames take morphs away, and bring none.  And each   *)
(* of the morph, the input and the events is as in a sequential program    *)
(* (MorphSound, InputLive, Counted) as long as no statement that deals     *)
(* with it and runs without the mutex has met a frame, whatever has        *)
(* happened to the other two.                                              *)
(***************************************************************************)
EXTENDS StarVisualsJni, TLAPS

Fetching == {"fsTest", "msTest", "msUnref", "msRelease", "msStore"}
Queueing == {"evChain", "evLink", "evCount", "evStore"}

(* Where each call can be. *)
PcOfCall ==
  /\ ui.pc = "idle" <=> ui.call = Null
  /\ ui.pc \in {"lock", "body", "unlock"} => ui.call \in Locked
  /\ ui.pc = "fsTest" => ui.call = "finalizeSwitch"
  /\ ui.pc \in Fetching \ {"fsTest"} => ui.call = "morphSetCurrent"
  /\ ui.pc = "fiStore" => ui.call = "finalizeInput"
  /\ ui.pc \in Queueing => ui.call = "mouseMotion"

(* The new event still has its entry. *)
RoomKept == ui.pc \in {"evChain", "evLink"} => RoomForEvent

(* The morph that a call has fetched is that of the bin, or gone; and done *)
(* once the call has seen that.                                            *)
OldIsMorph ==
  /\ \/ ui.pc \in Fetching
     \/ ui.pc \in {"lock", "body"} /\ ui.call = "finalizeSwitch"
     => bin.morph \in {ui.old, Null}
  /\ \/ ui.pc \in {"msUnref", "msRelease", "msStore"}
     \/ ui.pc \in {"lock", "body"} /\ ui.call = "finalizeSwitch"
     => bin.morph = Null \/ IsDone(bin.morph)

(* The queue, also with an event half added. *)
Counted ==
  LET q == queue IN
  /\ q.count = IF ui.pc \in {"evCount", "evStore"} THEN Len(q.list) - 1
               ELSE Len(q.list)
  /\ q.count <= IF ui.pc \in Queueing THEN MaxEvents ELSE MaxEvents + 1
  /\ ui.pc \in Queueing => OnScreen
  /\ ui.pc = "evLink" => ui.tail = LastOf(q.list)
  /\ ui.pc = "evStore" => ui.count = q.count

(* A call that is halfway outside the mutex during a frame is on record. *)
Noted == gl # "idle" => UiOutside \subseteq raced

InputLive == ui.call # "finalizeInput" => bin.input \in live

(* The bin has a morph that is not freed, or none; and it is done only     *)
(* where the frame that has made it so has not ended the switch yet.       *)
MorphSound ==
  /\ bin.morph \in live \cup {Null}
  /\ bin.morph # Null /\ IsDone(bin.morph) => gl = "done"
  /\ ui.pc \in {"fsTest", "msTest"} => ui.old = bin.morph /\ ui.old # Null
  /\ ui.pc # "msUnref"
  /\ ui.pc \in {"msRelease", "msStore"} => bin.morph = Null

MorphQuiet == "morph" \notin raced => MorphSound
EventsQuiet == "event" \notin raced => Counted

Inv ==
  /\ TypeOK /\ AreasExclude /\ PcOfCall /\ RoomKept /\ OldIsMorph
  /\ Noted /\ InputLive /\ OnlyRacesUseFreed /\ MorphQuiet /\ EventsQuiet

-----------------------------------------------------------------------------
(* What of the assumption has no quantifiers. *)
LEMMA NoClash ==
  /\ Null \notin Morph \cup Input \cup Queue \cup Event
  /\ Null \notin {"ui", "gl"} \cup Locked \cup Unlocked
  /\ Morph \cap Input = {}
  /\ MaxEvents \in Nat
BY StarVisualsJniAssumption

LEMMA Picked == ASSUME NEW S, S # {} PROVE Pick(S) \in S
BY DEF Pick

LEMMA FreshIs ==
  ASSUME TypeOK
  PROVE  FreshMorph \in Morph \ {bin.morph, ui.old, Null}
<1>1. bin.morph \in Morph \cup {Null} /\ ui.old \in Morph \cup {Null}
  BY DEF TypeOK, BinType, UiType
<1>2. Morph \ {bin.morph, ui.old} # {}
  BY <1>1, StarVisualsJniAssumption
<1>3. FreshMorph \in Morph \ {bin.morph, ui.old}
  BY <1>2, Picked DEF FreshMorph
<1>4. QED  BY <1>3, NoClash

LEMMA LocalsTyped ==
  ASSUME NEW pc \in UiPc, NEW call \in Locked \cup Unlocked \cup {Null},
         NEW old \in Morph \cup {Null}, NEW q \in Queue \cup {Null}
  PROVE  UiLocals(pc, call, old, q) \in UiType
BY DEF UiLocals, UiType

LEMMA IdleTyped == UiIdle \in UiType
BY LocalsTyped DEF UiIdle, UiPc

LEMMA GoesTyped ==
  ASSUME TypeOK, NEW pc \in UiPc
  PROVE  [ui EXCEPT !.pc = pc] \in UiType
BY DEF TypeOK, UiType

LEMMA LastTyped ==
  ASSUME NEW s \in Seq(Event)
  PROVE  LastOf(s) \in Event \cup {Null}
<1>1. CASE s = << >>  BY <1>1 DEF LastOf
<1>2. CASE s # << >>
  <2>1. Len(s) \in 1..Len(s)  BY <1>2
  <2>2. QED  BY <1>2, <2>1 DEF LastOf
<1>3. QED  BY <1>1, <1>2

LEMMA NewQueueTyped ==
  ASSUME NEW q \in Queue PROVE NewQueue(q) \in QueueType
BY DEF NewQueue, QueueType

LEMMA FreedTyped ==
  ASSUME TypeOK, NEW kind \in Shared, NEW B
  PROVE  ub \cup Freed(kind, B) \subseteq Shared \cup {"null"}
BY DEF TypeOK, Freed

LEMMA FinalizeIs ==
  ASSUME TypeOK, Finalize
  PROVE  /\ bin' \in BinType /\ bin'.morph = Null /\ bin'.morphing = FALSE
         /\ bin'.input = bin.input /\ bin'.style = bin.style
         /\ queue' \in QueueType /\ queue'.list = << >> /\ queue'.count = 0
         /\ live' = live \ {bin.morph}
         /\ ub' = ub \cup Freed("morph", {bin.morph} \ {Null})
<1>1. Pick(Queue \ {queue.id, ui.queue}) \in Queue
  <2>1. queue.id \in Queue /\ ui.queue \in Queue \cup {Null}
    BY DEF TypeOK, QueueType, UiType
  <2>2. Queue \ {queue.id, ui.queue} # {}
    BY <2>1, StarVisualsJniAssumption
  <2>3. QED  BY <2>2, Picked
<1>2. queue' \in QueueType
  BY <1>1, NewQueueTyped DEF Finalize
<1>3. bin' \in BinType /\ bin'.morph = Null /\ bin'.morphing = FALSE
      /\ bin'.input = bin.input /\ bin'.style = bin.style
  BY DEF Finalize, TypeOK, BinType
<1>4. QED  BY <1>2, <1>3 DEF Finalize, NewQueue


LEMMA InputTyped == Pick(Input) \in Input
BY StarVisualsJniAssumption, Picked

LEMMA UiOutsideIs ==
  /\ UiOutside \subseteq Shared
  /\ "morph" \in UiOutside <=> ui.call = "morphSetCurrent" \/ ui.pc = "fsTest"
  /\ "input" \in UiOutside <=> ui.call = "finalizeInput"
  /\ "event" \in UiOutside <=> ui.call = "mouseMotion"
<1>1. UiOutside \subseteq Shared
  BY DEF UiOutside
<1>2. "morph" \in UiOutside <=> ui.call = "morphSetCurrent" \/ ui.pc = "fsTest"
  BY DEF UiOutside, Shared
<1>3. "input" \in UiOutside <=> ui.call = "finalizeInput"
  BY DEF UiOutside, Shared
<1>4. "event" \in UiOutside <=> ui.call = "mouseMotion"
  BY DEF UiOutside, Shared
<1>5. QED  BY <1>1, <1>2, <1>3, <1>4

(* A frame that has met no call without the mutex finds none under way. *)
LEMMA QuietFrame ==
  ASSUME Inv, gl # "idle"
  PROVE  /\ "morph" \notin raced => MorphSound /\ ui.pc \notin Fetching
         /\ "input" \notin raced => bin.input \in live
         /\ "event" \notin raced => Counted /\ ui.pc \notin Queueing
<1>1. UiOutside \subseteq raced
  BY DEF Inv, Noted
<1>2. ASSUME "morph" \notin raced PROVE MorphSound /\ ui.pc \notin Fetching
  <2>1. MorphSound
    BY <1>2 DEF Inv, MorphQuiet
  <2>2. ui.call # "morphSetCurrent" /\ ui.pc # "fsTest"
    BY <1>1, <1>2, UiOutsideIs
  <2>3. QED  BY <2>1, <2>2 DEF Inv, PcOfCall, Fetching
<1>3. ASSUME "input" \notin raced PROVE bin.input \in live
  BY <1>1, <1>3, UiOutsideIs DEF Inv, InputLive
<1>4. ASSUME "event" \notin raced PROVE Counted /\ ui.pc \notin Queueing
  <2>1. Counted
    BY <1>4 DEF Inv, EventsQuiet
  <2>2. ui.call # "mouseMotion"
    BY <1>1, <1>4, UiOutsideIs
  <2>3. QED  BY <2>1, <2>2 DEF Inv, PcOfCall
<1>5. QED  BY <1>2, <1>3, <1>4

(* A statement without the mutex that meets no frame. *)
LEMMA QuietCall ==
  ASSUME NEW kind \in Shared, Outside({kind}), kind \notin raced'
  PROVE  kind \notin raced /\ gl = "idle"
BY DEF Outside

(* A statement that runs without the mutex puts its call on record. *)
LEMMA NotedBy ==
  ASSUME TypeOK, NEW kind \in Shared, Outside({kind}), UNCHANGED gl,
         UiOutside' \subseteq {kind}
  PROVE  Noted' /\ raced \subseteq raced' /\ raced' \subseteq Shared
BY DEF Noted, Outside, TypeOK

(* What is not about the morph keeps it sound. *)
LEMMA MorphHolds ==
  ASSUME MorphQuiet, raced \subseteq raced', bin'.morph = bin.morph, morphs' = morphs,
         bin.morph \in live => bin.morph \in live',
         gl' = gl \/ gl # "done",
         "morph" \notin raced' => ui' = ui \/ ui'.pc \notin Fetching
  PROVE  MorphQuiet'
<1> SUFFICES ASSUME "morph" \notin raced' PROVE MorphSound'
  BY DEF MorphQuiet
<1>1. MorphSound
  BY DEF MorphQuiet
<1>2. IsDone(bin.morph)' <=> IsDone(bin.morph)
  BY DEF IsDone
<1>3. CASE ui' = ui
  BY <1>1, <1>2, <1>3 DEF MorphSound
<1>4. CASE ui'.pc \notin Fetching
  BY <1>1, <1>2, <1>4 DEF MorphSound, Fetching
<1>5. QED  BY <1>3, <1>4

(* What is not about the events keeps them counted. *)
LEMMA EventsHold ==
  ASSUME EventsQuiet, raced \subseteq raced', queue' = queue,
         ui' = ui \/ (ui.pc \notin Queueing /\ ui'.pc \notin Queueing)
  PROVE  EventsQuiet'
<1> SUFFICES ASSUME "event" \notin raced' PROVE Counted'
  BY DEF EventsQuiet
<1>1. Counted
  BY DEF EventsQuiet
<1>2. CASE ui' = ui
  BY <1>1, <1>2 DEF Counted, OnScreen
<1>3. CASE ui.pc \notin Queueing /\ ui'.pc \notin Queueing
  BY <1>1, <1>3 DEF Counted, Queueing
<1>4. QED  BY <1>2, <1>3

(* An event less, or none, leaves more entries. *)
LEMMA RoomShrinks ==
  ASSUME TypeOK, RoomKept, UNCHANGED ui,
         \/ queue'.list = << >>
         \/ queue.list # << >> /\ queue'.list = Tail(queue.list)
  PROVE  RoomKept'
<1>1. UnusedEvents \subseteq UnusedEvents'
  <2>1. CASE queue'.list = << >>
    <3>1. DOMAIN queue'.list = {}
      BY <2>1
    <3>2. QED  BY <3>1 DEF UnusedEvents
  <2>2. CASE queue.list # << >> /\ queue'.list = Tail(queue.list)
    <3> DEFINE s == queue.list
    <3>1. s \in Seq(Event)
      BY DEF TypeOK, QueueType
    <3>2. \A i \in DOMAIN Tail(s) : i + 1 \in DOMAIN s /\ Tail(s)[i] = s[i + 1]
      BY <2>2, <3>1
    <3>3. QED  BY <2>2, <3>2 DEF UnusedEvents
  <2>3. QED  BY <2>1, <2>2
<1>2. QED  BY <1>1 DEF RoomKept, RoomForEvent

(* The end of a switch, with the frame that ends it. *)
LEMMA FinalizeKeeps ==
  ASSUME Inv, ub = {}, Finalize, UNCHANGED <<ui, morphs, raced>>,
         gl # "idle", gl' = "idle", mutex' = Null
  PROVE  Inv'
<1>0. /\ bin' \in BinType /\ bin'.morph = Null
      /\ bin'.input = bin.input
      /\ queue' \in QueueType /\ queue'.list = << >> /\ queue'.count = 0
      /\ live' = live \ {bin.morph}
      /\ ub' = ub \cup Freed("morph", {bin.morph} \ {Null})
  BY FinalizeIs DEF Inv
<1>1. TypeOK'
  BY <1>0 DEF Inv, TypeOK, GlPc, Freed, Shared
<1>2. AreasExclude'
  BY NoClash DEF Inv, TypeOK, AreasExclude
<1>3. PcOfCall'
  BY DEF Inv, PcOfCall
<1>4. RoomKept'
  BY <1>0, RoomShrinks DEF Inv
<1>5. OldIsMorph'
  BY <1>0 DEF Inv, OldIsMorph
<1>6. Noted' /\ InputLive'
  <2>1. bin.input # bin.morph
    BY NoClash DEF Inv, TypeOK, BinType
  <2>2. QED  BY <1>0, <2>1 DEF Inv, Noted, InputLive
<1>7. OnlyRacesUseFreed'
  BY <1>0, QuietFrame DEF MorphSound, Freed, OnlyRacesUseFreed, Shared
<1>8. MorphQuiet'
  BY <1>0, QuietFrame DEF MorphQuiet, MorphSound, Fetching
<1>9. EventsQuiet'
  <2>1. Len(queue'.list) = 0 /\ queue'.count = 0 /\ MaxEvents \in Nat
    BY <1>0, NoClash
  <2>2. QED  BY <2>1, QuietFrame DEF EventsQuiet, Counted, Queueing
<1>10. QED
  BY <1>1, <1>2, <1>3, <1>4, <1>5, <1>6, <1>7, <1>8, <1>9 DEF Inv

LEMMA KeepsFsTest ==
  ASSUME Inv, ub = {}, FsTest PROVE Inv'
<1>1. ui' = [ui EXCEPT !.pc = "lock"] \/ ui' = UiIdle
  BY DEF FsTest, UiGoes, UiReturns
<1>2. ui' = UiIdle \/ IsDone(ui.old)
  BY DEF FsTest, FsAccepts, UiReturns
<1>3. ui.pc = "fsTest" /\ UNCHANGED <<gl, mutex, bin, queue, morphs, live>>
  BY DEF FsTest, UiAt, Outside
<1>4. ub' = ub \cup Freed("morph", {ui.old})
  BY DEF FsTest
<1>5. TypeOK'
  <2>1. ui' \in UiType
    BY <1>1, IdleTyped, GoesTyped DEF Inv, UiPc
  <2>2. raced' \subseteq Shared
    BY DEF FsTest, Outside, Shared, Inv, TypeOK
  <2>3. QED  BY <1>3, <1>4, <2>1, <2>2 DEF Inv, TypeOK, Freed, Shared
<1>6. AreasExclude'
  BY <1>1, <1>3 DEF UiIdle, UiLocals, Inv, TypeOK, UiType, AreasExclude
<1>7. PcOfCall'
  BY <1>1, <1>3 DEF UiIdle, UiLocals, Inv, TypeOK, UiType, PcOfCall, Fetching, Queueing, Locked, Unlocked
<1>8. RoomKept'
  BY <1>1, <1>3 DEF UiIdle, UiLocals, Inv, TypeOK, UiType, QueueType, RoomKept, RoomForEvent, UnusedEvents
<1>9. OldIsMorph'
  <2>1. CASE ui' = UiIdle
    BY <2>1 DEF UiIdle, UiLocals, OldIsMorph, Fetching
  <2>2. CASE ui' = [ui EXCEPT !.pc = "lock"] /\ IsDone(ui.old)
    BY <2>2, <1>3 DEF Inv, TypeOK, UiType, OldIsMorph, Fetching, IsDone
  <2>3. QED  BY <1>1, <1>2, <2>1, <2>2
<1>10. Noted' /\ raced \subseteq raced'
  <2>1. ui'.call \notin {"finalizeInput", "mouseMotion"}
    BY <1>1, <1>3, NoClash
    DEF UiIdle, UiLocals, Inv, TypeOK, UiType, PcOfCall, Fetching, Unlocked
  <2>2. UiOutside' \subseteq {"morph"}
    BY <2>1 DEF UiOutside, Shared
  <2>3. QED  BY <1>3, <2>2, NotedBy DEF FsTest, Inv, Shared
<1>11. InputLive'
  BY <1>3 DEF Inv, InputLive, PcOfCall, Fetching
<1>12. "morph" \notin raced' => gl = "idle" /\ MorphSound
  BY QuietCall DEF FsTest, Inv, MorphQuiet, Shared
<1>13. OnlyRacesUseFreed'
  BY <1>3, <1>4, <1>12 DEF MorphSound, Freed, OnlyRacesUseFreed, Shared
<1>14. MorphQuiet'
  <2>1. "morph" \notin raced' => ui'.pc \notin Fetching
    BY <1>1, <1>2, <1>3, <1>12 DEF MorphSound, UiIdle, UiLocals, Fetching, Inv,
      TypeOK, UiType
  <2>2. QED  BY <1>3, <1>10, <2>1, MorphHolds DEF Inv
<1>15. EventsQuiet'
  BY <1>1, <1>3, <1>10, EventsHold
  DEF UiIdle, UiLocals, Queueing, Inv, TypeOK, UiType
<1>16. QED
  BY <1>5, <1>6, <1>7, <1>8, <1>9, <1>10, <1>11, <1>13, <1>14, <1>15 DEF Inv

LEMMA KeepsMsTest ==
  ASSUME Inv, ub = {}, MsTest PROVE Inv'
<1>1. ui' = [ui EXCEPT !.pc = "msUnref"] \/ ui' = UiIdle
  BY DEF MsTest, UiGoes, UiReturns
<1>2. ui' = UiIdle \/ IsDone(ui.old)
  BY DEF MsTest, UiReturns
<1>3. ui.pc = "msTest" /\ UNCHANGED <<gl, mutex, bin, queue, morphs, live>>
  BY DEF MsTest, UiAt, Outside
<1>4. ub' = ub \cup Freed("morph", {ui.old})
  BY DEF MsTest
<1>5. TypeOK'
  <2>1. ui' \in UiType
    BY <1>1, IdleTyped, GoesTyped DEF Inv, UiPc
  <2>2. raced' \subseteq Shared
    BY DEF MsTest, Outside, Shared, Inv, TypeOK
  <2>3. QED  BY <1>3, <1>4, <2>1, <2>2 DEF Inv, TypeOK, Freed, Shared
<1>6. AreasExclude'
  BY <1>1, <1>3 DEF UiIdle, UiLocals, Inv, TypeOK, UiType, AreasExclude
<1>7. PcOfCall'
  BY <1>1, <1>3 DEF UiIdle, UiLocals, Inv, TypeOK, UiType, PcOfCall, Fetching, Queueing, Locked, Unlocked
<1>8. RoomKept'
  BY <1>1, <1>3 DEF UiIdle, UiLocals, Inv, TypeOK, UiType, QueueType, RoomKept, RoomForEvent, UnusedEvents
<1>9. OldIsMorph'
  <2>1. CASE ui' = UiIdle
    BY <2>1 DEF UiIdle, UiLocals, OldIsMorph, Fetching
  <2>2. CASE ui' = [ui EXCEPT !.pc = "msUnref"] /\ IsDone(ui.old)
    BY <2>2, <1>3 DEF Inv, TypeOK, UiType, OldIsMorph, Fetching, IsDone
  <2>3. QED  BY <1>1, <1>2, <2>1, <2>2
<1>10. Noted' /\ raced \subseteq raced'
  <2>1. ui'.call \notin {"finalizeInput", "mouseMotion"}
    BY <1>1, <1>3, NoClash
    DEF UiIdle, UiLocals, Inv, TypeOK, UiType, PcOfCall, Fetching, Unlocked
  <2>2. UiOutside' \subseteq {"morph"}
    BY <2>1 DEF UiOutside, Shared
  <2>3. QED  BY <1>3, <2>2, NotedBy DEF MsTest, Inv, Shared
<1>11. InputLive'
  BY <1>3 DEF Inv, InputLive, PcOfCall, Fetching
<1>12. "morph" \notin raced' => gl = "idle" /\ MorphSound
  BY QuietCall DEF MsTest, Inv, MorphQuiet, Shared
<1>13. OnlyRacesUseFreed'
  BY <1>3, <1>4, <1>12 DEF MorphSound, Freed, OnlyRacesUseFreed, Shared
<1>14. MorphQuiet'
  <2>1. "morph" \notin raced' => ui'.pc \notin Fetching
    BY <1>1, <1>2, <1>3, <1>12 DEF MorphSound, UiIdle, UiLocals, Fetching, Inv,
      TypeOK, UiType
  <2>2. QED  BY <1>3, <1>10, <2>1, MorphHolds DEF Inv
<1>15. EventsQuiet'
  BY <1>1, <1>3, <1>10, EventsHold
  DEF UiIdle, UiLocals, Queueing, Inv, TypeOK, UiType
<1>16. QED
  BY <1>5, <1>6, <1>7, <1>8, <1>9, <1>10, <1>11, <1>13, <1>14, <1>15 DEF Inv

LEMMA StartedIs ==
  ASSUME TypeOK, NEW m \in Morph \cup {Null}, NEW ms \in [Morph -> MorphType]
  PROVE  /\ Started(m, ms) \in [Morph -> MorphType]
         /\ \A n \in Morph : Started(m, ms)[n].auto /\ Started(m, ms)[n].full
                             => ms[n].auto /\ ms[n].full
BY DEF Started, MorphType

LEMMA KeepsMsRelease ==
  ASSUME Inv, ub = {}, MsRelease PROVE Inv'
<1> USE DEF MsRelease, UiAt, UiGoes, Outside
<1>1. TypeOK'
  <2>1. ui' \in UiType
    BY GoesTyped DEF Inv, UiPc
  <2>2. QED  BY <2>1 DEF Inv, TypeOK, Freed, Shared
<1>2. AreasExclude'
  BY DEF Inv, TypeOK, UiType, AreasExclude
<1>3. PcOfCall'
  BY DEF Inv, TypeOK, UiType, PcOfCall, Fetching, Queueing
<1>4. RoomKept'
  BY DEF Inv, TypeOK, UiType, RoomKept
<1>5. OldIsMorph'
  BY DEF Inv, TypeOK, UiType, OldIsMorph, Fetching, IsDone
<1>6. Noted' /\ raced \subseteq raced'
  <2>1. UiOutside' \subseteq {"morph"}
    BY DEF UiOutside, Shared, Inv, TypeOK, UiType, PcOfCall, Fetching
  <2>2. QED  BY <2>1, NotedBy DEF Inv, Shared
<1>7. InputLive'
  <2>1. bin.input # bin.morph
    BY NoClash DEF Inv, TypeOK, BinType
  <2>2. QED  BY <2>1 DEF Inv, TypeOK, UiType, InputLive
<1>8. "morph" \notin raced' => gl = "idle" /\ bin.morph = Null
  BY QuietCall DEF Inv, MorphQuiet, MorphSound, Shared
<1>9. OnlyRacesUseFreed'
  BY <1>8 DEF Freed, OnlyRacesUseFreed, Shared
<1>10. MorphQuiet'
  BY <1>8 DEF MorphQuiet, MorphSound, Inv, TypeOK, UiType
<1>11. EventsQuiet'
  BY <1>6, EventsHold DEF Queueing, Inv, TypeOK, UiType
<1>12. QED
  BY <1>1, <1>2, <1>3, <1>4, <1>5, <1>6, <1>7, <1>9, <1>10, <1>11 DEF Inv

LEMMA KeepsFiStore ==
  ASSUME Inv, ub = {}, FiStore PROVE Inv'
<1> DEFINE new == Pick(Input)
<1>0. /\ ui.pc = "fiStore" /\ ui' = UiIdle
      /\ bin' = [bin EXCEPT !.input = new] /\ live' = live \cup {new}
      /\ UNCHANGED <<gl, mutex, queue, morphs, ub>>
  BY DEF FiStore, UiAt, UiReturns, Outside
<1>1. new \in Input
  BY InputTyped
<1> HIDE DEF new
<1>2. TypeOK'
  <2>1. bin' \in BinType
    BY <1>0, <1>1 DEF Inv, TypeOK, BinType
  <2>2. raced' \subseteq Shared
    BY DEF FiStore, Outside, Shared, Inv, TypeOK
  <2>3. QED  BY <1>0, <1>1, <2>1, <2>2, IdleTyped DEF Inv, TypeOK
<1>3. AreasExclude'
  BY <1>0 DEF Inv, AreasExclude, UiIdle, UiLocals
<1>4. PcOfCall'
  BY <1>0 DEF PcOfCall, UiIdle, UiLocals, Fetching, Queueing
<1>5. RoomKept'
  BY <1>0 DEF RoomKept, UiIdle, UiLocals
<1>6. OldIsMorph'
  BY <1>0 DEF OldIsMorph, UiIdle, UiLocals, Fetching
<1>7. Noted' /\ raced \subseteq raced'
  <2>1. UiOutside' \subseteq {"input"}
    BY <1>0, NoClash DEF UiOutside, Shared, UiIdle, UiLocals, Unlocked
  <2>2. QED  BY <1>0, <2>1, NotedBy DEF FiStore, Inv, Shared
<1>8. bin'.input \in live' /\ bin'.morph = bin.morph
  BY <1>0 DEF Inv, TypeOK, BinType
<1>9. InputLive' /\ OnlyRacesUseFreed'
  BY <1>0, <1>8 DEF InputLive, OnlyRacesUseFreed
<1>10. MorphQuiet'
  BY <1>0, <1>7, <1>8, MorphHolds DEF UiIdle, UiLocals, Fetching, Inv
<1>11. EventsQuiet'
  BY <1>0, <1>7, EventsHold DEF UiIdle, UiLocals, Queueing, Inv
<1>12. QED
  BY <1>2, <1>3, <1>4, <1>5, <1>6, <1>7, <1>9, <1>10, <1>11 DEF Inv

LEMMA KeepsEvLink ==
  ASSUME Inv, ub = {}, EvLink PROVE Inv'
<1> DEFINE e == Pick(UnusedEvents)
<1>0. /\ ui.pc = "evLink" /\ ui' = [ui EXCEPT !.pc = "evCount"]
      /\ UNCHANGED <<gl, mutex, bin, morphs, live>>
  BY DEF EvLink, UiAt, UiGoes, Outside
<1>1. \/ ~OnScreen /\ UNCHANGED <<queue, ub>>
      \/ /\ OnScreen
         /\ ub' \subseteq {"event"}
         /\ ui.tail = LastOf(queue.list) => ub' = ub
         /\ queue' = [queue EXCEPT !.list = Append(queue.list, e)]
  BY DEF EvLink
<1>2. e \in Event
  <2>1. UnusedEvents # {}
    BY <1>0 DEF Inv, RoomKept, RoomForEvent
  <2>2. e \in UnusedEvents
    BY <2>1, Picked
  <2>3. QED  BY <2>2 DEF UnusedEvents
<1> HIDE DEF e
<1>3. TypeOK'
  <2>1. ui' \in UiType
    BY <1>0, GoesTyped DEF Inv, UiPc
  <2>2. queue' \in QueueType
    BY <1>1, <1>2 DEF Inv, TypeOK, QueueType
  <2>3. raced' \subseteq Shared
    BY DEF EvLink, Outside, Shared, Inv, TypeOK
  <2>4. QED  BY <1>0, <1>1, <2>1, <2>2, <2>3 DEF Inv, TypeOK, Shared
<1>4. AreasExclude'
  BY <1>0 DEF Inv, TypeOK, UiType, AreasExclude
<1>5. PcOfCall'
  BY <1>0 DEF Inv, TypeOK, UiType, PcOfCall, Fetching, Queueing
<1>6. RoomKept'
  BY <1>0 DEF Inv, TypeOK, UiType, RoomKept
<1>7. OldIsMorph'
  BY <1>0 DEF Inv, TypeOK, UiType, OldIsMorph, Fetching
<1>8. Noted' /\ raced \subseteq raced'
  <2>1. UiOutside' \subseteq {"event"}
    BY <1>0
    DEF UiOutside, Shared, UiIdle, UiLocals, Inv, TypeOK, UiType, PcOfCall, Queueing
  <2>2. QED  BY <1>0, <2>1, NotedBy DEF EvLink, Inv, Shared
<1>9. InputLive'
  BY <1>0 DEF Inv, InputLive, PcOfCall, Queueing, TypeOK, UiType
<1>10. MorphQuiet'
  BY <1>0, <1>8, MorphHolds DEF UiIdle, UiLocals, Fetching, Inv, TypeOK, UiType

<1>11. "event" \notin raced' =>
         /\ OnScreen /\ ui.tail = LastOf(queue.list)
         /\ queue.count = Len(queue.list) /\ queue.count <= MaxEvents
  BY <1>0, QuietCall DEF EvLink, Inv, EventsQuiet, Counted, Queueing, Shared
<1>12. OnlyRacesUseFreed'
  BY <1>1, <1>11 DEF OnlyRacesUseFreed
<1>13. EventsQuiet'
  <2> SUFFICES ASSUME "event" \notin raced' PROVE Counted'
    BY DEF EventsQuiet
  <2>1. queue' = [queue EXCEPT !.list = Append(queue.list, e)]
    BY <1>1, <1>11
  <2>2. /\ queue'.count = queue.count /\ queue'.id = queue.id
        /\ Len(queue'.list) = Len(queue.list) + 1
    BY <1>2, <2>1 DEF Inv, TypeOK, QueueType
  <2>3. ui'.pc = "evCount" /\ ui'.queue = ui.queue
    BY <1>0 DEF Inv, TypeOK, UiType
  <2>4. queue'.count = Len(queue'.list) - 1
    <3>1. Len(queue.list) \in Nat
      BY DEF Inv, TypeOK, QueueType
    <3>2. QED  BY <1>11, <2>2, <3>1
  <2>5. QED  BY <1>11, <2>2, <2>3, <2>4 DEF Counted, Queueing, OnScreen
<1>14. QED
  BY <1>3, <1>4, <1>5, <1>6, <1>7, <1>8, <1>9, <1>10, <1>12, <1>13 DEF Inv

LEMMA KeepsEvStore ==
  ASSUME Inv, ub = {}, EvStore PROVE Inv'
<1>0. /\ ui.pc = "evStore" /\ ui' = UiIdle
      /\ UNCHANGED <<gl, mutex, bin, morphs, live, ub>>
  BY DEF EvStore, UiAt, UiReturns, Outside
<1>1. \/ OnScreen /\ queue' = [queue EXCEPT !.count = ui.count + 1]
      \/ ~OnScreen /\ queue' = queue
      \/ gl = "pump" /\ queue' = queue
  BY DEF EvStore
<1>2. TypeOK'
  <2>1. queue' \in QueueType
    BY <1>1 DEF Inv, TypeOK, QueueType, UiType
  <2>2. raced' \subseteq Shared
    BY DEF EvStore, Outside, Shared, Inv, TypeOK
  <2>3. QED  BY <1>0, <2>1, <2>2, IdleTyped DEF Inv, TypeOK
<1>3. AreasExclude'
  BY <1>0 DEF Inv, AreasExclude, UiIdle, UiLocals
<1>4. PcOfCall'
  BY <1>0 DEF PcOfCall, UiIdle, UiLocals, Fetching, Queueing
<1>5. RoomKept'
  BY <1>0 DEF RoomKept, UiIdle, UiLocals
<1>6. OldIsMorph'
  BY <1>0 DEF OldIsMorph, UiIdle, UiLocals, Fetching
<1>7. Noted' /\ raced \subseteq raced'
  <2>1. UiOutside' \subseteq {"event"}
    BY <1>0, NoClash DEF UiOutside, Shared, UiIdle, UiLocals, Unlocked
  <2>2. QED  BY <1>0, <2>1, NotedBy DEF EvStore, Inv, Shared
<1>8. InputLive'
  BY <1>0 DEF Inv, InputLive, PcOfCall, Queueing, TypeOK, UiType
<1>9. MorphQuiet'
  BY <1>0, <1>7, MorphHolds DEF UiIdle, UiLocals, Fetching, Inv, TypeOK, UiType

<1>10. OnlyRacesUseFreed'
  BY <1>0 DEF OnlyRacesUseFreed
<1>11. EventsQuiet'
  <2> SUFFICES ASSUME "event" \notin raced' PROVE Counted'
    BY DEF EventsQuiet
  <2>1. Counted /\ gl = "idle"
    BY QuietCall DEF EvStore, Inv, EventsQuiet, Shared
  <2>2. /\ OnScreen /\ ui.count = queue.count
        /\ queue.count = Len(queue.list) - 1 /\ queue.count <= MaxEvents
    BY <1>0, <2>1 DEF Counted, Queueing
  <2>3. queue'.count = queue.count + 1 /\ queue'.list = queue.list
    BY <1>1, <2>1, <2>2 DEF Inv, TypeOK, QueueType
  <2>4. Len(queue.list) \in Nat /\ MaxEvents \in Nat
    BY NoClash DEF Inv, TypeOK, QueueType
  <2>5. queue'.count = Len(queue'.list) /\ queue'.count <= MaxEvents + 1
    BY <2>2, <2>3, <2>4
  <2>6. QED  BY <1>0, <2>5 DEF Counted, Queueing, UiIdle, UiLocals
<1>12. QED
  BY <1>2, <1>3, <1>4, <1>5, <1>6, <1>7, <1>8, <1>9, <1>10, <1>11 DEF Inv

LEMMA KeepsEvCount ==
  ASSUME Inv, ub = {}, EvCount PROVE Inv'
<1> DEFINE c == IF OnScreen THEN queue.count ELSE 0
<1>0. /\ ui.pc = "evCount" /\ ui' = [ui EXCEPT !.pc = "evStore", !.count = c]
      /\ UNCHANGED <<gl, mutex, bin, queue, morphs, live, ub>>
  BY DEF EvCount, UiAt, UiKeeps, Outside
<1>1. c \in Int
  BY DEF Inv, TypeOK, QueueType
<1>2. TypeOK'
  <2>1. ui' \in UiType
    <3> HIDE DEF c
    <3>1. QED  BY <1>0, <1>1 DEF Inv, TypeOK, UiType, UiPc
  <2>2. raced' \subseteq Shared
    BY DEF EvCount, Outside, Shared, Inv, TypeOK
  <2>3. QED  BY <1>0, <2>1, <2>2 DEF Inv, TypeOK
<1>3. AreasExclude'
  BY <1>0 DEF Inv, TypeOK, UiType, AreasExclude
<1>4. PcOfCall'
  BY <1>0 DEF Inv, TypeOK, UiType, PcOfCall, Fetching, Queueing
<1>5. RoomKept'
  BY <1>0 DEF Inv, TypeOK, UiType, RoomKept
<1>6. OldIsMorph'
  BY <1>0 DEF Inv, TypeOK, UiType, OldIsMorph, Fetching
<1> HIDE DEF c
<1>7. Noted' /\ raced \subseteq raced'
  <2>1. UiOutside' \subseteq {"event"}
    BY <1>0
    DEF UiOutside, Shared, UiIdle, UiLocals, Inv, TypeOK, UiType, PcOfCall, Queueing
  <2>2. QED  BY <1>0, <2>1, NotedBy DEF EvCount, Inv, Shared
<1>8. InputLive'
  BY <1>0 DEF Inv, InputLive, PcOfCall, Queueing, TypeOK, UiType
<1>9. MorphQuiet'
  BY <1>0, <1>7, MorphHolds DEF UiIdle, UiLocals, Fetching, Inv, TypeOK, UiType

<1>10. OnlyRacesUseFreed'
  BY <1>0 DEF OnlyRacesUseFreed
<1>11. EventsQuiet'
  <2> SUFFICES ASSUME "event" \notin raced' PROVE Counted'
    BY DEF EventsQuiet
  <2>1. Counted
    BY QuietCall DEF EvCount, Inv, EventsQuiet, Shared
  <2>2. ui'.pc = "evStore" /\ ui'.count = c /\ ui'.queue = ui.queue
    BY <1>0 DEF Inv, TypeOK, UiType
  <2>3. QED
    BY <1>0, <2>1, <2>2 DEF Counted, Queueing, OnScreen, c
<1>12. QED
  BY <1>2, <1>3, <1>4, <1>5, <1>6, <1>7, <1>8, <1>9, <1>10, <1>11 DEF Inv

(* What the areas under the mutex do to the bin, the morphs and the blocks. *)
LEMMA BodyIs ==
  ASSUME Inv, ub = {}, UiBody
  PROVE  /\ bin' \in BinType /\ bin'.input = bin.input
         /\ morphs' \in [Morph -> MorphType]
         /\ live' \subseteq Morph \cup Input
         /\ bin.input \in live => bin.input \in live'
         /\ ub' \subseteq {"morph"}
         /\ bin.morph \in live \cup {Null} /\ (bin.morph # Null => ~IsDone(bin.morph)) =>
              /\ ub' = {}
              /\ bin'.morph \in live' \cup {Null}
              /\ bin'.morph # Null => ~IsDone(bin.morph)'
<1> DEFINE m == FreshMorph
           new == [morphs EXCEPT ![m] = NewMorph]
<1>1. m \in Morph \ {bin.morph, Null} /\ bin.input \in Input
  BY FreshIs DEF Inv, TypeOK, BinType
<1>2. new \in [Morph -> MorphType] /\ ~new[m].auto
  BY <1>1 DEF Inv, TypeOK, NewMorph, MorphType
<1> HIDE DEF m, new
<1>3. CASE SwitchWithMorph
  <2>1. /\ bin' = [bin EXCEPT !.morph = m, !.morphing = TRUE]
        /\ morphs' = Started(m, new)
        /\ live' = (live \ {bin.morph}) \cup {m}
        /\ ub' = Freed("morph", {bin.morph} \ {Null})
    BY <1>3 DEF SwitchWithMorph, m, new
  <2>2. bin' \in BinType /\ bin'.input = bin.input /\ bin'.morph = m
    BY <1>1, <2>1 DEF Inv, TypeOK, BinType
  <2>3. morphs' \in [Morph -> MorphType] /\ ~(morphs'[m].auto /\ morphs'[m].full)
    BY <1>1, <1>2, <2>1, StartedIs DEF Inv
  <2>4. ub' \subseteq {"morph"} /\ (bin.morph \in live \cup {Null} => ub' = {})
    BY <2>1 DEF Freed
  <2>5. QED
    BY <1>1, <2>1, <2>2, <2>3, <2>4, NoClash DEF Inv, TypeOK, BinType, IsDone
<1>4. CASE SwitchActor
  <2>1. /\ bin' = [bin EXCEPT !.morphing = TRUE]
        /\ morphs' = Started(bin.morph, morphs) /\ live' = live /\ ub' = {}
    BY <1>4 DEF SwitchActor
  <2>2. bin' \in BinType /\ bin'.input = bin.input /\ bin'.morph = bin.morph
    BY <2>1 DEF Inv, TypeOK, BinType
  <2>3. /\ morphs' \in [Morph -> MorphType]
        /\ bin.morph # Null /\ ~IsDone(bin.morph) =>
             ~(morphs'[bin.morph].auto /\ morphs'[bin.morph].full)
    BY <2>1, StartedIs DEF Inv, TypeOK, BinType, IsDone
  <2>4. QED  BY <2>1, <2>2, <2>3 DEF Inv, TypeOK, IsDone
<1>5. CASE FinalizeMorph
  <2>1. CASE ~IsDone(bin.morph) /\ bin.morph # Null
    BY <1>5, <2>1 DEF FinalizeMorph, Inv, TypeOK, IsDone
  <2>2. CASE IsDone(bin.morph) \/ bin.morph = Null
    <3>1. /\ bin' = [bin EXCEPT !.morph = m] /\ morphs' = new
          /\ live' = (live \ {bin.morph}) \cup {m}
          /\ ub' = IF bin.morph = Null THEN {} ELSE {"morph"}
      BY <1>5, <2>2 DEF FinalizeMorph, m, new
    <3>2. bin' \in BinType /\ bin'.input = bin.input /\ bin'.morph = m
      BY <1>1, <3>1 DEF Inv, TypeOK, BinType
    <3>3. QED
      BY <1>1, <1>2, <2>2, <3>1, <3>2, NoClash DEF Inv, TypeOK, BinType, IsDone
  <2>3. QED  BY <2>1, <2>2
<1>6. QED  BY <1>3, <1>4, <1>5 DEF UiBody

LEMMA KeepsUiBody ==
  ASSUME Inv, ub = {}, UiBody PROVE Inv'
<1>1. /\ ui.pc = "body" /\ ui' = [ui EXCEPT !.pc = "unlock"]
      /\ UNCHANGED <<gl, mutex, queue, raced>>
  BY DEF UiBody, UiAt, UiGoes
<1>2. TypeOK'
  <2>1. ui' \in UiType
    BY <1>1, GoesTyped DEF Inv, UiPc
  <2>2. /\ bin' \in BinType /\ morphs' \in [Morph -> MorphType]
        /\ live' \subseteq Morph \cup Input /\ ub' \subseteq {"morph"}
    BY BodyIs
  <2>3. QED  BY <1>1, <2>1, <2>2 DEF Inv, TypeOK, Shared
<1>3. AreasExclude'
  BY <1>1 DEF Inv, TypeOK, UiType, AreasExclude
<1>4. PcOfCall'
  BY <1>1 DEF Inv, TypeOK, UiType, PcOfCall, Fetching, Queueing
<1>5. RoomKept'
  BY <1>1 DEF Inv, TypeOK, UiType, RoomKept
<1>6. OldIsMorph'
  BY <1>1 DEF Inv, TypeOK, UiType, OldIsMorph, Fetching
<1>7. gl = "idle" /\ ui.call \in Locked /\ ui'.pc = "unlock" /\ ui'.call = ui.call
  BY <1>1 DEF Inv, AreasExclude, PcOfCall, TypeOK, UiType
<1>8. Noted'
  BY <1>1, <1>7 DEF Noted
<1>9. InputLive'
  BY <1>7, BodyIs DEF Inv, InputLive, Locked
<1>10. ASSUME "morph" \notin raced
       PROVE  /\ ub' = {} /\ bin'.morph \in live' \cup {Null}
              /\ ~(bin'.morph # Null /\ IsDone(bin.morph)')
  <2>1. bin.morph \in live \cup {Null} /\ (bin.morph # Null => ~IsDone(bin.morph))
    BY <1>7, <1>10 DEF Inv, MorphQuiet, MorphSound
  <2>2. QED  BY <2>1, BodyIs
<1>11. OnlyRacesUseFreed'
  <2>1. ub' \subseteq {"morph"}
    BY BodyIs
  <2>2. QED  BY <1>1, <1>10, <2>1 DEF OnlyRacesUseFreed
<1>12. MorphQuiet'
  BY <1>1, <1>7, <1>10 DEF MorphQuiet, MorphSound
<1>13. EventsQuiet'
  BY <1>1, <1>7, EventsHold DEF Inv, Queueing
<1>14. QED
  BY <1>2, <1>3, <1>4, <1>5, <1>6, <1>8, <1>9, <1>11, <1>12, <1>13 DEF Inv

LEMMA QueueTyped ==
  ASSUME TypeOK, NEW l \in Seq(Event), NEW c \in Int
  PROVE  LET q == [queue EXCEPT !.list = l, !.count = c] IN
         q \in QueueType /\ q.list = l /\ q.count = c
BY DEF TypeOK, QueueType

LEMMA KeepsGlPolls ==
  ASSUME Inv, ub = {}, GlPolls PROVE Inv'
<1>1. /\ gl = "pump" /\ gl' = "pump" /\ queue.count > 0
      /\ UNCHANGED <<mutex, raced, ui, bin, morphs, live, ub>>
  BY DEF GlPolls, GlGoes
<1>2. /\ queue' \in QueueType /\ queue'.count = queue.count - 1
      /\ \/ queue.list = << >> /\ queue'.list = << >>
         \/ queue.list # << >> /\ queue'.list = Tail(queue.list)
  <2>1. queue.list \in Seq(Event) /\ queue.count - 1 \in Int
    BY DEF Inv, TypeOK, QueueType
  <2>2. CASE queue.list = << >>
    <3>1. queue' = [queue EXCEPT !.list = queue.list, !.count = queue.count - 1]
      BY <2>2 DEF GlPolls
    <3>2. QED  BY <2>1, <2>2, <3>1, QueueTyped DEF Inv
  <2>3. CASE queue.list # << >>
    <3>1. Tail(queue.list) \in Seq(Event)
      BY <2>1, <2>3
    <3>2. queue' = [queue EXCEPT !.list = Tail(queue.list), !.count = queue.count - 1]
      BY <2>3 DEF GlPolls
    <3>3. QED  BY <2>1, <2>3, <3>1, <3>2, QueueTyped DEF Inv
  <2>4. QED  BY <2>2, <2>3
<1>3. TypeOK'
  BY <1>1, <1>2 DEF Inv, TypeOK, GlPc
<1>4. AreasExclude'
  BY <1>1 DEF Inv, AreasExclude
<1>5. PcOfCall'
  BY <1>1 DEF Inv, PcOfCall
<1>6. RoomKept'
  BY <1>1, <1>2, RoomShrinks DEF Inv
<1>7. OldIsMorph'
  BY <1>1 DEF Inv, OldIsMorph, IsDone
<1>8. Noted' /\ InputLive' /\ OnlyRacesUseFreed' /\ MorphQuiet'
  BY <1>1, MorphHolds DEF Inv, Noted, UiOutside, InputLive, OnlyRacesUseFreed
<1>9. EventsQuiet'
  <2> SUFFICES ASSUME "event" \notin raced PROVE Counted'
    BY <1>1 DEF EventsQuiet
  <2>1. /\ ui.pc \notin Queueing
        /\ queue.count = Len(queue.list) /\ queue.count <= MaxEvents + 1
    BY <1>1, QuietFrame DEF Counted, Queueing
  <2>2. queue'.count = Len(queue'.list) /\ queue'.count <= MaxEvents + 1
    <3>1. queue.list \in Seq(Event) /\ MaxEvents \in Nat
      BY NoClash DEF Inv, TypeOK, QueueType
    <3>2. queue.list # << >>
      BY <1>1, <2>1
    <3>3. Len(Tail(queue.list)) = Len(queue.list) - 1
      BY <3>1, <3>2
    <3>4. queue'.count = Len(queue'.list)
      BY <1>2, <2>1, <3>2, <3>3
    <3>5. Len(queue.list) \in Nat
      BY <3>1
    <3>6. QED  BY <1>2, <2>1, <3>1, <3>4, <3>5
  <2>3. QED  BY <1>1, <2>1, <2>2 DEF Counted, Queueing
<1>10. QED
  BY <1>3, <1>4, <1>5, <1>6, <1>7, <1>8, <1>9 DEF Inv

(* The frames that end a switch. *)
LEMMA KeepsGlDirect ==
  ASSUME Inv, ub = {}, GlDirect PROVE Inv'
BY FinalizeKeeps DEF GlDirect, GlUnlocks

LEMMA KeepsGlNoMorph ==
  ASSUME Inv, ub = {}, GlNoMorph PROVE Inv'
BY FinalizeKeeps DEF GlNoMorph, GlUnlocks

LEMMA KeepsGlMorphRun ==
  ASSUME Inv, ub = {}, GlMorphRun PROVE Inv'
<1> DEFINE m == bin.morph
<1>1. /\ gl = "run" /\ gl' = "done"
      /\ UNCHANGED <<mutex, raced, ui, bin, queue, live>>
  BY DEF GlMorphRun, GlGoes
<1>2. m \in Morph \cup {Null}
  BY DEF Inv, TypeOK, BinType
<1>3. /\ morphs' \in [Morph -> MorphType]
      /\ \A n \in Morph : morphs[n].auto /\ morphs[n].full
                          => morphs'[n].auto /\ morphs'[n].full
  <2>1. CASE UNCHANGED morphs
    BY <2>1 DEF Inv, TypeOK
  <2>2. ASSUME NEW full \in BOOLEAN, morphs[m].full => full, m # Null,
               morphs' = [morphs EXCEPT ![m].full = full]
        PROVE  <1>3!:
    BY <1>2, <2>2 DEF Inv, TypeOK, MorphType
  <2>3. QED  BY <2>1, <2>2 DEF GlMorphRun
<1>4. ub' \subseteq Freed("morph", {m}) \cup {"null"} \/ ub' = ub
  BY DEF GlMorphRun
<1>5. m = Null => ub' = ub
  BY DEF GlMorphRun
<1>6. TypeOK'
  <2>1. ub' \subseteq Shared \cup {"null"}
    BY <1>4 DEF Inv, TypeOK, Freed, Shared
  <2>2. QED  BY <1>1, <1>3, <2>1 DEF Inv, TypeOK, GlPc
<1>7. AreasExclude'
  BY <1>1 DEF Inv, AreasExclude
<1>8. PcOfCall'
  BY <1>1 DEF Inv, PcOfCall
<1>9. RoomKept'
  BY <1>1 DEF Inv, RoomKept, RoomForEvent, UnusedEvents
<1>10. OldIsMorph'
  BY <1>1, <1>2, <1>3 DEF Inv, OldIsMorph, IsDone
<1>11. Noted' /\ InputLive'
  BY <1>1 DEF Inv, Noted, UiOutside, InputLive
<1>12. OnlyRacesUseFreed'
  BY <1>1, <1>2, <1>4, <1>5, QuietFrame DEF MorphSound, Freed, OnlyRacesUseFreed, Shared
<1>13. MorphQuiet'
  BY <1>1, QuietFrame DEF MorphQuiet, MorphSound, Fetching
<1>14. EventsQuiet'
  BY <1>1, EventsHold DEF Inv
<1>15. QED
  BY <1>6, <1>7, <1>8, <1>9, <1>10, <1>11, <1>12, <1>13, <1>14 DEF Inv

LEMMA KeepsGlMorphDone ==
  ASSUME Inv, ub = {}, GlMorphDone PROVE Inv'
<1>1. /\ gl = "done" /\ gl' = "idle" /\ mutex' = Null
      /\ UNCHANGED <<raced, ui, morphs>>
  BY DEF GlMorphDone, GlUnlocks
<1>2. CASE Finalize
  BY <1>1, <1>2, FinalizeKeeps
<1>3. CASE /\ ~(bin.morph \in live /\ IsDone(bin.morph))
           /\ ub' = ub \cup Freed("morph", {bin.morph} \ {Null})
           /\ UNCHANGED <<bin, queue, live>>
  <2>1. TypeOK'
    BY <1>1, <1>3 DEF Inv, TypeOK, GlPc, Freed, Shared
  <2>2. AreasExclude'
    BY <1>1, NoClash DEF Inv, TypeOK, AreasExclude
  <2>3. PcOfCall'
    BY <1>1 DEF Inv, PcOfCall
  <2>4. RoomKept'
    BY <1>1, <1>3 DEF Inv, RoomKept, RoomForEvent, UnusedEvents
  <2>5. OldIsMorph'
    BY <1>1, <1>3 DEF Inv, OldIsMorph, IsDone
  <2>6. Noted' /\ InputLive'
    BY <1>1, <1>3 DEF Inv, Noted, InputLive
  <2>7. OnlyRacesUseFreed'
    BY <1>1, <1>3, QuietFrame DEF MorphSound, Freed, OnlyRacesUseFreed, Shared
  <2>8. MorphQuiet'
    <3>1. IsDone(bin.morph)' <=> IsDone(bin.morph)
      BY <1>1, <1>3 DEF IsDone
    <3>2. QED
      BY <1>1, <1>3, <3>1, QuietFrame DEF MorphQuiet, MorphSound, Fetching
  <2>9. EventsQuiet'
    BY <1>1, <1>3, EventsHold DEF Inv
  <2>10. QED
    BY <2>1, <2>2, <2>3, <2>4, <2>5, <2>6, <2>7, <2>8, <2>9 DEF Inv
<1>4. QED  BY <1>2, <1>3 DEF GlMorphDone

(* A statement of a frame that changes nothing but where the frame is: it  *)
(* reads the input or the morph of the bin.                                *)
LEMMA FrameKeeps ==
  ASSUME Inv, ub = {}, UNCHANGED <<ui, bin, queue, morphs, live, raced>>,
         gl \notin {"idle", "done"}, gl' \in GlPc,
         mutex' = mutex \/ (mutex' = Null /\ gl' = "idle"),
         ub' \subseteq Freed("input", {bin.input}) \cup Freed("morph", {bin.morph} \ {Null})
  PROVE  Inv'
<1>1. TypeOK'
  BY DEF Inv, TypeOK, Freed, Shared
<1>2. AreasExclude'
  BY NoClash DEF Inv, AreasExclude
<1>3. PcOfCall'
  BY DEF Inv, PcOfCall
<1>4. RoomKept'
  BY DEF Inv, RoomKept, RoomForEvent, UnusedEvents
<1>5. OldIsMorph'
  BY DEF Inv, OldIsMorph, IsDone
<1>6. Noted' /\ InputLive'
  BY DEF Inv, Noted, UiOutside, InputLive
<1>7. OnlyRacesUseFreed'
  BY QuietFrame DEF MorphSound, Freed, OnlyRacesUseFreed, Shared
<1>8. MorphQuiet'
  BY MorphHolds DEF Inv
<1>9. EventsQuiet'
  BY EventsHold DEF Inv
<1>10. QED
  BY <1>1, <1>2, <1>3, <1>4, <1>5, <1>6, <1>7, <1>8, <1>9 DEF Inv

LEMMA KeepsGlReads ==
  ASSUME Inv, ub = {},
         \/ GlBitmapFails \/ GlInput \/ GlRunsMain \/ GlDraws \/ GlDrawsMain
         \/ GlStyleChanged \/ GlDrawsNew \/ GlMorph
  PROVE  Inv'
<1> USE FrameKeeps DEF GlKeeps, GlGoes, GlUnlocks, GlPc
<1>1. CASE GlBitmapFails  BY <1>1 DEF GlBitmapFails
<1>2. CASE GlInput  BY <1>2 DEF GlInput
<1>3. CASE GlRunsMain  BY <1>3 DEF GlRunsMain
<1>4. CASE GlDraws  BY <1>4 DEF GlDraws
<1>5. CASE GlDrawsMain  BY <1>5 DEF GlDrawsMain
<1>6. CASE GlStyleChanged  BY <1>6 DEF GlStyleChanged
<1>7. CASE GlDrawsNew  BY <1>7 DEF GlDrawsNew
<1>8. CASE GlMorph  BY <1>8 DEF GlMorph
<1>9. QED  BY <1>1, <1>2, <1>3, <1>4, <1>5, <1>6, <1>7, <1>8

LEMMA KeepsGlLock ==
  ASSUME Inv, ub = {}, GlLock PROVE Inv'
<1>1. /\ gl = "idle" /\ gl' = "bitmap" /\ mutex = Null /\ mutex' = "gl"
      /\ raced' = raced \cup UiOutside
      /\ UNCHANGED <<ui, bin, queue, morphs, live, ub>>
  BY DEF GlLock, GlKeeps
<1>2. TypeOK'
  BY <1>1 DEF Inv, TypeOK, GlPc, UiOutside
<1>3. AreasExclude'
  BY <1>1, NoClash DEF Inv, AreasExclude
<1>4. PcOfCall'
  BY <1>1 DEF Inv, PcOfCall
<1>5. RoomKept'
  BY <1>1 DEF Inv, RoomKept, RoomForEvent, UnusedEvents
<1>6. OldIsMorph'
  BY <1>1 DEF Inv, OldIsMorph, IsDone
<1>7. Noted' /\ InputLive' /\ OnlyRacesUseFreed'
  BY <1>1 DEF Inv, Noted, UiOutside, InputLive, OnlyRacesUseFreed
<1>8. MorphQuiet'
  BY <1>1, MorphHolds DEF Inv
<1>9. EventsQuiet'
  BY <1>1, EventsHold DEF Inv
<1>10. QED
  BY <1>2, <1>3, <1>4, <1>5, <1>6, <1>7, <1>8, <1>9 DEF Inv

(* A call that begins, with or without the mutex. *)
LEMMA BeginKeeps ==
  ASSUME Inv, ub = {}, ui.pc = "idle", ui' \in UiType, PcOfCall', RoomKept',
         OldIsMorph', ui'.pc \notin {"body", "unlock"},
         UNCHANGED <<mutex, gl, bin, queue, morphs, ub>>,
         Noted', raced \subseteq raced', raced' \subseteq Shared,
         \/ live' = live
         \/ live' = live \ {bin.input} /\ ui'.call = "finalizeInput",
         ui'.pc \notin {"msUnref", "msStore", "evLink", "evCount", "evStore"},
         ui'.pc \in {"fsTest", "msTest"} => ui'.old = bin.morph /\ ui'.old # Null,
         ui'.pc = "msRelease" => bin.morph = Null,
         ui'.pc = "evChain" => ui'.queue = queue.id /\ queue.count <= MaxEvents
  PROVE  Inv'
<1>1. TypeOK'
  BY DEF Inv, TypeOK
<1>2. AreasExclude'
  BY DEF Inv, AreasExclude
<1>3. ui.call = Null
  BY DEF Inv, PcOfCall
<1>4. InputLive'
  BY <1>3, NoClash DEF Inv, InputLive, Unlocked
<1>5. OnlyRacesUseFreed'
  BY DEF OnlyRacesUseFreed
<1>6. MorphQuiet'
  <2>1. bin.morph \in live => bin.morph \in live'
    BY NoClash DEF Inv, TypeOK, BinType
  <2>2. QED  BY <2>1 DEF Inv, MorphQuiet, MorphSound, IsDone
<1>7. EventsQuiet'
  BY DEF Inv, EventsQuiet, Counted, Queueing, OnScreen
<1>8. QED
  BY <1>1, <1>2, <1>4, <1>5, <1>6, <1>7 DEF Inv

LEMMA KeepsFinalizeSwitch ==
  ASSUME Inv, ub = {}, FinalizeSwitch PROVE Inv'
<1> DEFINE pc == IF bin.morph = Null THEN "lock" ELSE "fsTest"
<1>1. /\ ui.pc = "idle" /\ ui' = UiLocals(pc, "finalizeSwitch", bin.morph, Null)
      /\ Outside({"morph"}) /\ UNCHANGED <<mutex, gl, bin, queue, morphs, live, ub>>
  BY DEF FinalizeSwitch, UiAt, UiStarts, UiKeeps, Outside
<1>2. ui' \in UiType
  BY <1>1, LocalsTyped DEF Inv, TypeOK, BinType, UiPc, Locked
<1>3. ui'.pc = pc /\ ui'.call = "finalizeSwitch" /\ ui'.old = bin.morph
  BY <1>1 DEF UiLocals
<1>4. PcOfCall'
  BY <1>3, NoClash DEF PcOfCall, Fetching, Queueing, Locked
<1>5. RoomKept' /\ OldIsMorph'
  BY <1>1, <1>3 DEF RoomKept, OldIsMorph, Fetching
<1>6. Noted' /\ raced \subseteq raced' /\ raced' \subseteq Shared
  <2>1. UiOutside' \subseteq {"morph"}
    BY <1>3, NoClash DEF UiOutside, Shared
  <2>2. QED  BY <1>1, <2>1, NotedBy DEF Inv, Shared
<1>7. QED  BY <1>1, <1>2, <1>3, <1>4, <1>5, <1>6, BeginKeeps

LEMMA KeepsLockedCall ==
  ASSUME Inv, ub = {}, NEW call \in {"finalizeActor", "cycleMorph"},
         LockedCall(call)
  PROVE  Inv'
<1>1. /\ ui.pc = "idle" /\ ui' = UiLocals("lock", call, Null, Null)
      /\ UNCHANGED <<mutex, raced, gl, bin, queue, morphs, live, ub>>
  BY DEF LockedCall, UiAt, UiStarts, UiKeeps
<1>2. ui' \in UiType
  BY <1>1, LocalsTyped DEF UiPc, Locked
<1>3. ui'.pc = "lock" /\ ui'.call = call /\ call \in Locked
  BY <1>1 DEF UiLocals, Locked
<1>4. PcOfCall'
  BY <1>3, NoClash DEF PcOfCall, Fetching, Queueing, Locked
<1>5. RoomKept' /\ OldIsMorph'
  BY <1>3 DEF RoomKept, OldIsMorph, Fetching
<1>6. Noted' /\ raced' \subseteq Shared
  <2>1. UiOutside' = {}
    BY <1>3 DEF UiOutside, Shared, Locked
  <2>2. QED  BY <1>1, <2>1 DEF Noted, Inv, TypeOK
<1>7. QED  BY <1>1, <1>2, <1>3, <1>4, <1>5, <1>6, BeginKeeps

LEMMA KeepsMorphSetCurrent ==
  ASSUME Inv, ub = {}, MorphSetCurrent PROVE Inv'
<1> DEFINE pc == IF bin.morph = Null THEN "msRelease" ELSE "msTest"
<1>1. /\ ui.pc = "idle" /\ ui' = UiLocals(pc, "morphSetCurrent", bin.morph, Null)
      /\ Outside({"morph"}) /\ UNCHANGED <<mutex, gl, bin, queue, morphs, live, ub>>
  BY DEF MorphSetCurrent, UiAt, UiStarts, UiKeeps, Outside
<1>2. ui' \in UiType
  BY <1>1, LocalsTyped DEF Inv, TypeOK, BinType, UiPc, Unlocked
<1>3. ui'.pc = pc /\ ui'.call = "morphSetCurrent" /\ ui'.old = bin.morph
  BY <1>1 DEF UiLocals
<1>4. PcOfCall'
  BY <1>3, NoClash DEF PcOfCall, Fetching, Queueing, Unlocked
<1>5. RoomKept' /\ OldIsMorph'
  BY <1>1, <1>3 DEF RoomKept, OldIsMorph, Fetching
<1>6. Noted' /\ raced \subseteq raced' /\ raced' \subseteq Shared
  <2>1. UiOutside' \subseteq {"morph"}
    BY <1>3, NoClash DEF UiOutside, Shared
  <2>2. QED  BY <1>1, <2>1, NotedBy DEF Inv, Shared
<1>7. QED  BY <1>1, <1>2, <1>3, <1>4, <1>5, <1>6, BeginKeeps

LEMMA KeepsFinalizeInput ==
  ASSUME Inv, ub = {}, FinalizeInput PROVE Inv'
<1>1. /\ ui.pc = "idle" /\ ui' = UiLocals("fiStore", "finalizeInput", Null, Null)
      /\ live' = live \ {bin.input}
      /\ Outside({"input"}) /\ UNCHANGED <<mutex, gl, bin, queue, morphs, ub>>
  BY DEF FinalizeInput, UiAt, UiStarts, Outside
<1>2. ui' \in UiType
  BY <1>1, LocalsTyped DEF UiPc, Unlocked
<1>3. ui'.pc = "fiStore" /\ ui'.call = "finalizeInput"
  BY <1>1 DEF UiLocals
<1>4. PcOfCall'
  BY <1>3, NoClash DEF PcOfCall, Fetching, Queueing, Unlocked
<1>5. RoomKept' /\ OldIsMorph'
  BY <1>3 DEF RoomKept, OldIsMorph, Fetching
<1>6. Noted' /\ raced \subseteq raced' /\ raced' \subseteq Shared
  <2>1. UiOutside' \subseteq {"input"}
    BY <1>3, NoClash DEF UiOutside, Shared
  <2>2. QED  BY <1>1, <2>1, NotedBy DEF Inv, Shared
<1>7. QED  BY <1>1, <1>2, <1>3, <1>4, <1>5, <1>6, BeginKeeps

LEMMA KeepsMouseMotion ==
  ASSUME Inv, ub = {}, MouseMotion PROVE Inv'
<1>1. /\ ui.pc = "idle" /\ ui' = UiLocals("evChain", "mouseMotion", Null, queue.id)
      /\ queue.count <= MaxEvents /\ RoomForEvent
      /\ Outside({"event"}) /\ UNCHANGED <<mutex, gl, bin, queue, morphs, live, ub>>
  BY DEF MouseMotion, UiAt, UiKeeps, Outside
<1>2. ui' \in UiType
  BY <1>1, LocalsTyped DEF Inv, TypeOK, QueueType, UiPc, Unlocked
<1>3. ui'.pc = "evChain" /\ ui'.call = "mouseMotion" /\ ui'.queue = queue.id
  BY <1>1 DEF UiLocals
<1>4. PcOfCall'
  BY <1>3, NoClash DEF PcOfCall, Fetching, Queueing, Unlocked
<1>5. RoomKept' /\ OldIsMorph'
  BY <1>1, <1>3 DEF RoomKept, RoomForEvent, UnusedEvents, OldIsMorph, Fetching
<1>6. Noted' /\ raced \subseteq raced' /\ raced' \subseteq Shared
  <2>1. UiOutside' \subseteq {"event"}
    BY <1>3, NoClash DEF UiOutside, Shared
  <2>2. QED  BY <1>1, <2>1, NotedBy DEF Inv, Shared
<1>7. QED  BY <1>1, <1>2, <1>3, <1>4, <1>5, <1>6, BeginKeeps

LEMMA KeepsUiLock ==
  ASSUME Inv, ub = {}, UiLock PROVE Inv'
<1>1. /\ ui.pc = "lock" /\ ui' = [ui EXCEPT !.pc = "body"]
      /\ mutex = Null /\ mutex' = "ui"
      /\ UNCHANGED <<raced, gl, bin, queue, morphs, live, ub>>
  BY DEF UiLock, UiAt, UiGoes, UiKeeps
<1>2. TypeOK'
  <2>1. ui' \in UiType
    BY <1>1, GoesTyped DEF Inv, UiPc
  <2>2. QED  BY <1>1, <2>1 DEF Inv, TypeOK
<1>3. AreasExclude'
  BY <1>1, NoClash DEF Inv, TypeOK, UiType, AreasExclude
<1>4. PcOfCall'
  BY <1>1 DEF Inv, TypeOK, UiType, PcOfCall, Fetching, Queueing
<1>5. RoomKept'
  BY <1>1 DEF Inv, TypeOK, UiType, RoomKept
<1>6. OldIsMorph'
  BY <1>1 DEF Inv, TypeOK, UiType, OldIsMorph, Fetching, IsDone
<1>7. gl = "idle" /\ ui'.pc = "body" /\ ui'.call = ui.call
  BY <1>1, NoClash DEF Inv, AreasExclude, TypeOK, UiType
<1>8. Noted' /\ InputLive' /\ OnlyRacesUseFreed'
  BY <1>1, <1>7 DEF Inv, Noted, InputLive, OnlyRacesUseFreed
<1>9. MorphQuiet'
  BY <1>1, <1>7, MorphHolds DEF Inv, Fetching
<1>10. EventsQuiet'
  BY <1>1, <1>7, EventsHold DEF Inv, Queueing
<1>11. QED
  BY <1>2, <1>3, <1>4, <1>5, <1>6, <1>8, <1>9, <1>10 DEF Inv

LEMMA KeepsUiUnlock ==
  ASSUME Inv, ub = {}, UiUnlock PROVE Inv'
<1>1. /\ ui.pc = "unlock" /\ ui' = UiIdle /\ mutex' = Null
      /\ UNCHANGED <<raced, gl, bin, queue, morphs, live, ub>>
  BY DEF UiUnlock, UiAt, UiReturns, UiKeeps
<1>2. ui'.pc = "idle" /\ ui'.call = Null /\ ui' \in UiType
  BY <1>1, IdleTyped DEF UiIdle, UiLocals
<1>3. gl = "idle"
  BY <1>1 DEF Inv, AreasExclude
<1>4. TypeOK'
  BY <1>1, <1>2 DEF Inv, TypeOK
<1>5. AreasExclude'
  BY <1>1, <1>2, <1>3, NoClash DEF AreasExclude
<1>6. PcOfCall'
  BY <1>2 DEF PcOfCall, Fetching, Queueing
<1>7. RoomKept' /\ OldIsMorph'
  BY <1>2 DEF RoomKept, OldIsMorph, Fetching
<1>8. Noted' /\ OnlyRacesUseFreed'
  BY <1>1, <1>3 DEF Inv, Noted, OnlyRacesUseFreed
<1>9. InputLive'
  BY <1>1 DEF Inv, InputLive, PcOfCall, Locked
<1>10. MorphQuiet'
  BY <1>1, <1>2, MorphHolds DEF Inv, Fetching
<1>11. EventsQuiet'
  BY <1>1, <1>2, EventsHold DEF Inv, Queueing
<1>12. QED
  BY <1>4, <1>5, <1>6, <1>7, <1>8, <1>9, <1>10, <1>11 DEF Inv

(* Where no call on the morph has met a frame this statement is not        *)
(* reached: between two frames no morph is done.                           *)
LEMMA KeepsMsUnref ==
  ASSUME Inv, ub = {}, MsUnref PROVE Inv'
<1>1. /\ ui.pc = "msUnref" /\ ui' = [ui EXCEPT !.pc = "msRelease"]
      /\ live' = live \ {ui.old} /\ ub' = ub \cup Freed("morph", {ui.old}) /\ Outside({"morph"})
      /\ UNCHANGED <<mutex, gl, bin, queue, morphs>>
  BY DEF MsUnref, UiAt, UiGoes, Outside
<1>2. TypeOK'
  <2>1. ui' \in UiType
    BY <1>1, GoesTyped DEF Inv, UiPc
  <2>2. QED  BY <1>1, <2>1 DEF Inv, TypeOK, Freed, Outside, Shared
<1>3. AreasExclude'
  BY <1>1 DEF Inv, TypeOK, UiType, AreasExclude
<1>4. PcOfCall'
  BY <1>1 DEF Inv, TypeOK, UiType, PcOfCall, Fetching, Queueing
<1>5. RoomKept'
  BY <1>1 DEF Inv, TypeOK, UiType, RoomKept
<1>6. OldIsMorph'
  BY <1>1 DEF Inv, TypeOK, UiType, OldIsMorph, Fetching, IsDone
<1>7. Noted' /\ raced \subseteq raced'
  <2>1. UiOutside' \subseteq {"morph"}
    BY <1>1 DEF UiOutside, Shared, Inv, TypeOK, UiType, PcOfCall, Fetching
  <2>2. QED  BY <1>1, <2>1, NotedBy DEF Inv, Shared
<1>8. InputLive'
  <2>1. bin.input # ui.old
    BY NoClash DEF Inv, TypeOK, BinType, UiType
  <2>2. QED  BY <1>1, <2>1 DEF Inv, TypeOK, UiType, InputLive
<1>9. "morph" \in raced'
  BY <1>1, QuietCall DEF Inv, MorphQuiet, MorphSound, Shared
<1>10. OnlyRacesUseFreed' /\ MorphQuiet'
  BY <1>1, <1>9 DEF Freed, OnlyRacesUseFreed, MorphQuiet
<1>11. EventsQuiet'
  BY <1>1, <1>7, EventsHold DEF Queueing, Inv, TypeOK, UiType
<1>12. QED
  BY <1>2, <1>3, <1>4, <1>5, <1>6, <1>7, <1>8, <1>10, <1>11 DEF Inv

LEMMA KeepsMsStore ==
  ASSUME Inv, ub = {}, MsStore PROVE Inv'
<1> DEFINE m == FreshMorph
<1>1. /\ ui.pc = "msStore" /\ ui' = UiIdle /\ Outside({"morph"})
      /\ bin' = [bin EXCEPT !.morph = m]
      /\ morphs' = [morphs EXCEPT ![m] = NewMorph] /\ live' = live \cup {m}
      /\ UNCHANGED <<mutex, gl, queue, ub>>
  BY DEF MsStore, UiAt, UiReturns, Outside
<1>2. m \in Morph
  BY FreshIs DEF Inv
<1> HIDE DEF m
<1>3. ui'.pc = "idle" /\ ui'.call = Null /\ ui' \in UiType
  BY <1>1, IdleTyped DEF UiIdle, UiLocals
<1>4. bin' \in BinType /\ bin'.input = bin.input /\ bin'.morph = m
  BY <1>1, <1>2 DEF Inv, TypeOK, BinType
<1>5. morphs' \in [Morph -> MorphType] /\ ~morphs'[m].auto
  BY <1>1, <1>2 DEF Inv, TypeOK, MorphType, NewMorph
<1>6. TypeOK'
  BY <1>1, <1>2, <1>3, <1>4, <1>5 DEF Inv, TypeOK, Outside, Shared
<1>7. AreasExclude'
  BY <1>1, <1>3 DEF Inv, AreasExclude
<1>8. PcOfCall'
  BY <1>3 DEF PcOfCall, Fetching, Queueing
<1>9. RoomKept' /\ OldIsMorph'
  BY <1>3 DEF RoomKept, OldIsMorph, Fetching
<1>10. Noted' /\ raced \subseteq raced'
  <2>1. UiOutside' = {}
    BY <1>3, NoClash DEF UiOutside, Shared, Unlocked
  <2>2. QED  BY <1>1, <2>1, NotedBy DEF Inv, Shared
<1>11. InputLive' /\ OnlyRacesUseFreed'
  BY <1>1, <1>4 DEF Inv, InputLive, PcOfCall, Fetching, OnlyRacesUseFreed
<1>12. MorphQuiet'
  <2>1. bin'.morph \in live'
    BY <1>1, <1>4
  <2>2. ~IsDone(bin.morph)'
    BY <1>4, <1>5 DEF IsDone
  <2>3. QED  BY <1>3, <2>1, <2>2 DEF MorphQuiet, MorphSound
<1>13. EventsQuiet'
  BY <1>1, <1>3, <1>10, EventsHold DEF Inv, Queueing
<1>14. QED
  BY <1>6, <1>7, <1>8, <1>9, <1>10, <1>11, <1>12, <1>13 DEF Inv

LEMMA KeepsSetMorphStyle ==
  ASSUME Inv, ub = {}, SetMorphStyle PROVE Inv'
<1>1. UNCHANGED <<ui, mutex, gl, queue, morphs, live, ub, raced>>
  BY DEF SetMorphStyle, Outside
<1>2. bin' \in BinType /\ bin'.input = bin.input /\ bin'.morph = bin.morph
  <2>1. PICK s \in {"DIRECT", "MORPH"} : bin' = [bin EXCEPT !.style = s]
    BY DEF SetMorphStyle
  <2>2. QED  BY <2>1 DEF Inv, TypeOK, BinType
<1>3. TypeOK'
  BY <1>1, <1>2 DEF Inv, TypeOK
<1>4. AreasExclude' /\ PcOfCall'
  BY <1>1 DEF Inv, AreasExclude, PcOfCall
<1>5. RoomKept'
  BY <1>1 DEF Inv, RoomKept, RoomForEvent, UnusedEvents
<1>6. OldIsMorph'
  BY <1>1, <1>2 DEF Inv, OldIsMorph, IsDone
<1>7. Noted' /\ InputLive' /\ OnlyRacesUseFreed'
  BY <1>1, <1>2 DEF Inv, Noted, UiOutside, InputLive, OnlyRacesUseFreed
<1>8. MorphQuiet'
  BY <1>1, <1>2, MorphHolds DEF Inv
<1>9. EventsQuiet'
  BY <1>1, EventsHold DEF Inv
<1>10. QED
  BY <1>3, <1>4, <1>5, <1>6, <1>7, <1>8, <1>9 DEF Inv

LEMMA KeepsEvChain ==
  ASSUME Inv, ub = {}, EvChain PROVE Inv'
<1> DEFINE t == IF OnScreen THEN LastOf(queue.list) ELSE Null
<1>1. /\ ui.pc = "evChain" /\ ui' = [ui EXCEPT !.pc = "evLink", !.tail = t]
      /\ Outside({"event"}) /\ UNCHANGED <<mutex, gl, bin, queue, morphs, live, ub>>
  BY DEF EvChain, UiAt, UiKeeps, Outside
<1>2. t \in Event \cup {Null}
  BY LastTyped DEF Inv, TypeOK, QueueType
<1>3. OnScreen => t = LastOf(queue.list)
  OBVIOUS
<1> HIDE DEF t
<1>4. ui' \in UiType /\ ui'.tail = t
  BY <1>1, <1>2 DEF Inv, TypeOK, UiType, UiPc
<1>5. TypeOK'
  BY <1>1, <1>4 DEF Inv, TypeOK, Outside, Shared
<1>6. AreasExclude'
  BY <1>1 DEF Inv, TypeOK, UiType, AreasExclude
<1>7. PcOfCall'
  BY <1>1 DEF Inv, TypeOK, UiType, PcOfCall, Fetching, Queueing
<1>8. RoomKept'
  BY <1>1 DEF Inv, RoomKept, RoomForEvent, UnusedEvents
<1>9. OldIsMorph'
  BY <1>1 DEF Inv, TypeOK, UiType, OldIsMorph, Fetching
<1>10. Noted' /\ raced \subseteq raced'
  <2>1. UiOutside' \subseteq {"event"}
    BY <1>1 DEF UiOutside, Shared, Inv, TypeOK, UiType, PcOfCall, Queueing
  <2>2. QED  BY <1>1, <2>1, NotedBy DEF Inv, Shared
<1>11. InputLive' /\ OnlyRacesUseFreed'
  BY <1>1 DEF Inv, InputLive, PcOfCall, Queueing, OnlyRacesUseFreed
<1>12. MorphQuiet'
  <2>1. ui'.pc \notin Fetching
    BY <1>1 DEF Fetching, Inv, TypeOK, UiType
  <2>2. QED  BY <1>1, <1>10, <2>1, MorphHolds DEF Inv
<1>13. EventsQuiet'
  <2> SUFFICES ASSUME "event" \notin raced' PROVE Counted'
    BY DEF EventsQuiet
  <2>1. Counted
    BY <1>1, QuietCall DEF Inv, EventsQuiet, Shared
  <2>2. ui'.pc = "evLink" /\ ui'.queue = ui.queue
    BY <1>1 DEF Inv, TypeOK, UiType
  <2>3. QED
    BY <1>1, <1>3, <1>4, <2>1, <2>2 DEF Counted, Queueing, OnScreen
<1>14. QED
  BY <1>5, <1>6, <1>7, <1>8, <1>9, <1>10, <1>11, <1>12, <1>13 DEF Inv

-----------------------------------------------------------------------------
LEMMA Begins == Init => Inv
<1> SUFFICES ASSUME Init PROVE Inv
  OBVIOUS
<1>1. Pick(Input) \in Input /\ Pick(Queue) \in Queue
  BY StarVisualsJniAssumption, Picked
<1>2. /\ mutex = Null /\ ui = UiIdle /\ gl = "idle" /\ ub = {} /\ raced = {}
      /\ bin = [input |-> Pick(Input), morph |-> Null, morphing |-> FALSE,
                style |-> "MORPH"]
      /\ live = {Pick(Input)}
  BY DEF Init
<1>3. morphs \in [Morph -> MorphType]
  BY DEF Init, NewMorph, MorphType
<1>4. queue \in QueueType /\ queue.list = << >> /\ queue.count = 0
  BY <1>1, NewQueueTyped DEF Init, NewQueue
<1>5. ui.pc = "idle" /\ ui.call = Null
  BY <1>2 DEF UiIdle, UiLocals
<1>6. TypeOK
  BY <1>1, <1>2, <1>3, <1>4, IdleTyped DEF TypeOK, BinType, GlPc
<1>7. AreasExclude /\ PcOfCall /\ RoomKept /\ OldIsMorph
  BY <1>2, <1>5, NoClash
  DEF AreasExclude, PcOfCall, RoomKept, OldIsMorph, Fetching, Queueing
<1>8. Noted /\ InputLive /\ OnlyRacesUseFreed
  BY <1>2 DEF Noted, InputLive, OnlyRacesUseFreed
<1>9. MorphQuiet /\ EventsQuiet
  BY <1>2, <1>4, <1>5, NoClash
  DEF MorphQuiet, MorphSound, EventsQuiet, Counted, Fetching, Queueing
<1>10. QED  BY <1>6, <1>7, <1>8, <1>9 DEF Inv

LEMMA Keeps == Inv /\ [Next]_vars => Inv'
<1> SUFFICES ASSUME Inv, [Next]_vars PROVE Inv'
  OBVIOUS
<1>1. CASE UNCHANGED vars
  BY <1>1 DEF vars, Inv, TypeOK, AreasExclude, PcOfCall, RoomKept, RoomForEvent,
    UnusedEvents, OldIsMorph, Noted, InputLive, OnlyRacesUseFreed, MorphQuiet,
    MorphSound, EventsQuiet, Counted, UiOutside, OnScreen, IsDone
<1>2. CASE ub = {} /\ UiCalls
  BY <1>2, KeepsFinalizeSwitch, KeepsLockedCall, KeepsMorphSetCurrent,
     KeepsFinalizeInput, KeepsSetMorphStyle, KeepsMouseMotion DEF UiCalls
<1>3. CASE ub = {} /\ (UiLock \/ UiGoesOn)
  BY <1>3, KeepsUiLock, KeepsFsTest, KeepsUiBody, KeepsUiUnlock, KeepsMsTest,
     KeepsMsUnref, KeepsMsRelease, KeepsMsStore, KeepsFiStore, KeepsEvChain,
     KeepsEvLink, KeepsEvCount, KeepsEvStore DEF UiGoesOn
<1>4. CASE ub = {} /\ (GlLock \/ GlGoesOn \/ GlLeavesPump)
  BY <1>4, KeepsGlLock, KeepsGlReads, KeepsGlPolls, KeepsGlDirect, KeepsGlNoMorph,
     KeepsGlMorphRun, KeepsGlMorphDone DEF GlGoesOn, GlLeavesPump
<1>5. QED  BY <1>1, <1>2, <1>3, <1>4 DEF Next

(* The invariant holds in every reachable state. *)
THEOREM Invariance == Spec => []Inv
BY Begins, Keeps, PTL DEF Spec

(* The variables hold what C may put there; bin->input is never NULL. *)
THEOREM Typed == Spec => []TypeOK
<1>1. Inv => TypeOK
  BY DEF Inv
<1>2. QED  BY <1>1, Invariance, PTL

(* Only one thread is in an area that v.mutex guards. *)
THEOREM Excluded == Spec => []AreasExclude
<1>1. Inv => AreasExclude
  BY DEF Inv
<1>2. QED  BY <1>1, Invariance, PTL

(* A freed morph, input or event entry is used only if a statement without *)
(* the mutex, on the same one of the three, has met a frame.               *)
THEOREM RacesOnly == Spec => []OnlyRacesUseFreed
<1>1. Inv => OnlyRacesUseFreed
  BY DEF Inv
<1>2. QED  BY <1>1, Invariance, PTL

(* eventcount is the length of the list of events, and bounded, as long as *)
(* no event has met a frame, whatever else has.                            *)
THEOREM QueueCounted == Spec => []QueueIsCounted
<1>1. ASSUME Inv PROVE QueueIsCounted
  <2> SUFFICES ASSUME "event" \notin raced, ui.call # "mouseMotion"
               PROVE  queue.count = Len(queue.list) /\ queue.count <= MaxEvents + 1
    BY DEF QueueIsCounted
  <2>1. Counted
    BY <1>1 DEF Inv, EventsQuiet
  <2>2. ui.pc \notin Queueing
    BY <1>1 DEF Inv, PcOfCall
  <2>3. QED  BY <2>1, <2>2 DEF Counted, Queueing
<1>2. QED  BY <1>1, Invariance, PTL

(* A call that replaces the morph finds no running switch that still wants *)
(* the old one: what it saw of it before it took the mutex still holds.    *)
THEOREM MorphKept == Spec => SwitchKeepsItsMorph
<1> DEFINE A == ui # ui' /\ bin.morph # Null /\ bin'.morph # bin.morph =>
                  ~bin.morphing \/ IsDone(bin.morph)
<1>1. ASSUME Inv, [Next]_vars PROVE [A]_vars
  <2> SUFFICES ASSUME Next, ui # ui', bin.morph # Null, bin'.morph # bin.morph
               PROVE  IsDone(bin.morph)
    BY <1>1
  <2>1. CASE UiBody
    <3>1. CASE SwitchWithMorph /\ ui.call = "finalizeSwitch"
      BY <1>1, <2>1, <3>1 DEF UiBody, UiAt, Inv, OldIsMorph
    <3>2. CASE SwitchActor
      BY <1>1, <3>2 DEF SwitchActor, Inv, TypeOK, BinType
    <3>3. CASE FinalizeMorph
      BY <3>3 DEF FinalizeMorph
    <3>4. QED  BY <2>1, <3>1, <3>2, <3>3 DEF UiBody
  <2>2. CASE MsStore
    BY <1>1, <2>2 DEF MsStore, UiAt, Inv, OldIsMorph
  <2>3. CASE UiCalls \/ UiLock
    BY <1>1, <2>3 DEF UiCalls, UiLock, UiKeeps, FinalizeSwitch, LockedCall,
      MorphSetCurrent, FinalizeInput, SetMorphStyle, MouseMotion, Inv, TypeOK,
      BinType
  <2>4. CASE \/ FsTest \/ UiUnlock \/ MsTest \/ MsUnref \/ MsRelease
             \/ FiStore \/ EvChain \/ EvLink \/ EvCount \/ EvStore
    <3>1. CASE FiStore
      BY <1>1, <3>1 DEF FiStore, Inv, TypeOK, BinType
    <3>2. QED
      BY <2>4, <3>1 DEF FsTest, UiUnlock, MsTest, MsUnref, MsRelease, EvChain,
        EvLink, EvCount, EvStore, UiKeeps
  <2>5. CASE GlLock \/ GlGoesOn \/ GlLeavesPump
    BY <2>5 DEF GlLock, GlGoesOn, GlLeavesPump, GlKeeps, GlBitmapFails, GlInput,
      GlRunsMain, GlPolls, GlDirect, GlStyleChanged, GlDrawsNew, GlNoMorph,
      GlMorph, GlMorphRun, GlMorphDone, GlDraws, GlDrawsMain
  <2>6. QED  BY <2>1, <2>2, <2>3, <2>4, <2>5 DEF Next, UiGoesOn
<1>2. QED  BY <1>1, Invariance, PTL DEF Spec, SwitchKeepsItsMorph

(* A thread leaves with v.mutex only in renderBitmap, where it has no      *)
(* bitmap; and for all blocks and events the mutex then stays locked, and  *)
(* every later locked call and frame is shut out.                          *)
THEOREM LeakIsForGood == Spec => LeakStays
<1> DEFINE A ==
      /\ ~Leaked /\ Leaked' => gl = "bitmap"
      /\ Leaked => Leaked' /\ gl' = "idle" /\ ui'.pc \notin {"body", "unlock"}
<1>1. ASSUME Inv, ub = {}, UiCalls \/ UiLock \/ UiGoesOn
      PROVE  gl' = gl /\ (mutex' = "gl" => mutex = "gl")
  <2>1. CASE UiCalls
    BY <2>1 DEF UiCalls, FinalizeSwitch, LockedCall, MorphSetCurrent,
                FinalizeInput, SetMorphStyle, MouseMotion, Outside, UiKeeps
  <2>2. CASE UiLock
    BY <2>2 DEF UiLock, UiKeeps
  <2>3. CASE UiGoesOn
    BY <2>3, NoClash
       DEF UiGoesOn, FsTest, UiBody, UiUnlock, MsTest, MsUnref, MsRelease, MsStore,
           FiStore, EvChain, EvLink, EvCount, EvStore, Outside, UiKeeps
  <2>4. QED  BY <1>1, <2>1, <2>2, <2>3
<1>2. ASSUME GlLock \/ GlGoesOn \/ GlLeavesPump
      PROVE  /\ Leaked' => gl = "bitmap"
             /\ ~Leaked
  <2>1. CASE GlLock
    BY <2>1, NoClash DEF GlLock, Leaked
  <2>2. CASE GlBitmapFails \/ GlInput \/ GlRunsMain \/ GlPolls \/ GlDrawsMain
             \/ GlDrawsNew \/ GlMorph \/ GlMorphRun
    BY <2>2 DEF GlBitmapFails, GlInput, GlRunsMain, GlPolls, GlDrawsMain, GlDrawsNew,
                GlMorph, GlMorphRun, GlGoes, Leaked
  <2>3. CASE GlDraws \/ GlDirect \/ GlStyleChanged \/ GlNoMorph \/ GlMorphDone
    BY <2>3, NoClash
       DEF GlDraws, GlDirect, GlStyleChanged, GlNoMorph, GlMorphDone, GlUnlocks, Leaked
  <2>4. QED  BY <1>2, <2>1, <2>2, <2>3 DEF GlGoesOn, GlLeavesPump
<1>3. ASSUME Inv, Inv', Next PROVE A
  <2>1. CASE UiCalls \/ UiLock \/ UiGoesOn
    <3>1. gl' = gl /\ (mutex' = "gl" => mutex = "gl")
      BY <1>1, <1>3, <2>1 DEF Next
    <3>2. ~Leaked => ~Leaked'
      BY <3>1 DEF Leaked
    <3>3. ASSUME Leaked PROVE Leaked' /\ ui'.pc \notin {"body", "unlock"}
      <4>1. mutex = "gl" /\ ui.pc \notin {"body", "unlock"} /\ mutex # Null
        BY <1>3, <3>3, NoClash DEF Leaked, Inv, AreasExclude
      <4>2. mutex' = "gl"
        BY <2>1, <4>1
           DEF UiCalls, FinalizeSwitch, LockedCall, MorphSetCurrent, FinalizeInput,
               SetMorphStyle, MouseMotion, UiLock, UiGoesOn, FsTest, UiBody, UiUnlock,
               MsTest, MsUnref, MsRelease, MsStore, FiStore, EvChain, EvLink, EvCount,
               EvStore, Outside, UiAt
      <4>3. QED
        BY <1>3, <3>1, <3>3, <4>2, NoClash DEF Leaked, Inv, AreasExclude
    <3>4. QED  BY <3>1, <3>2, <3>3 DEF Leaked
  <2>2. CASE GlLock \/ GlGoesOn \/ GlLeavesPump
    BY <1>2, <2>2
  <2>3. QED  BY <1>3, <2>1, <2>2 DEF Next
<1>4. Inv /\ Inv' /\ [Next]_vars => [A]_vars
  BY <1>3
<1>5. QED  BY <1>4, Invariance, PTL DEF Spec, LeakStays

=============================================================================
