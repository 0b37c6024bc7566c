--------------------------- MODULE VisDepthLoops ----------------------------
(***************************************************************************)
(* The bit loops of lv_video.c that walk an ORred depthflag, one loop      *)
(* iteration per application of a recursive function, run on an argument   *)
(* pair chosen initially.  The state machine makes the calls one after the *)
(* other and keeps every answer.                                           *)
(***************************************************************************)
EXTENDS VisDepth

CONSTANT MaxDepthArg           \* largest depth argument tried (32 = ENDLIST)

ASSUME MaxDepthArgAssumption == MaxDepthArg \in Nat

VARIABLES flag, depth, answer

vars == <<flag, depth, answer>>

EndList == 32

(* The bits of an int that may hold several, as depth_is_sane sees it. *)
BitSet(n, b) == (n \div b) % 2 = 1

(* visual_video_depth_is_sane *)
IsSane(d) ==
  \/ d = DepthNone
  \/ /\ d < EndList
     /\ \A b, c \in DepthBit : BitSet(d, b) /\ BitSet(d, c) => b = c

(* Doubling: the while loop of depth_get_next, "stay" when it runs out. *)
GetNextLoop(f, stay) ==
  LET up[i \in DepthBit] ==
        IF i >= DepthGL THEN stay
        ELSE IF 2 * i \in f THEN 2 * i ELSE up[2 * i]
  IN  up

GetNext(f, d) ==
  IF ~IsSane(d) THEN DepthError
  ELSE IF d = DepthNone
       THEN IF Depth8 \in f THEN Depth8 ELSE GetNextLoop(f, d)[Depth8]
       ELSE GetNextLoop(f, d)[d]

(* Halving: the while loop of depth_get_prev, "stay" when it runs out. *)
GetPrevLoop(f, stay) ==
  LET down[i \in DepthBit \cup {DepthNone}] ==
        IF i = DepthNone THEN stay
        ELSE IF (i \div 2) \in f THEN i \div 2 ELSE down[i \div 2]
  IN  down

(* Slips: prev tests the bit before it shifts; lowest starts behind the    *)
(* first bit.                                                              *)
GetPrevTestsFirst(f, d) ==
  IF ~IsSane(d) THEN DepthError
  ELSE IF d \in f THEN d ELSE GetPrevLoop(f, d)[d]

GetLowestSkipsFirst(f) == GetNextLoop(f, DepthNone)[Depth8]

GetPrev(f, d) == IF ~IsSane(d) THEN DepthError ELSE GetPrevLoop(f, d)[d]

(* depth_get_highest: next until it no longer moves. *)
GetHighestLoop(f) ==
  LET climb[i \in DepthBit \cup {DepthNone}] ==
        IF GetNext(f, i) = i THEN i ELSE climb[GetNext(f, i)]
  IN  climb

GetHighest(f) == GetHighestLoop(f)[DepthNone]

GetLowest(f) == GetNext(f, DepthNone)

GetHighestNoGL(f) ==
  LET high == GetHighest(f) IN
  IF high # DepthGL THEN high
  ELSE IF GetPrev(f, high) = DepthGL THEN DepthError
  ELSE ErrorImpossible

Unasked == -100                \* no call returns it

Init ==
  /\ flag \in DepthFlag
  /\ depth \in 0 .. MaxDepthArg
  /\ answer = [q \in {"next", "prev", "lowest", "highest", "nogl"} |-> Unasked]

Ask(q, result) ==
  /\ answer[q] = Unasked
  /\ answer' = [answer EXCEPT ![q] = result]
  /\ UNCHANGED <<flag, depth>>

Next ==
  \/ Ask("next", GetNext(flag, depth))
  \/ Ask("prev", GetPrev(flag, depth))
  \/ Ask("lowest", GetLowest(flag))
  \/ Ask("highest", GetHighest(flag))
  \/ Ask("nogl", GetHighestNoGL(flag))

Spec == Init /\ [][Next]_vars

Answered(q) == answer[q] # Unasked

-----------------------------------------------------------------------------
(* Walking the flag with next and prev never skips a supported depth and   *)
(* never invents one (visual_video_depth_get_next, _prev): the answer to   *)
(* next is the least supported depth above the argument, to prev the       *)
(* greatest below it, and the argument itself when there is none.          *)
NeighbourIsNearest ==
  LET above == {b \in flag : b > depth}
      below == {b \in flag : b < depth}
  IN  IsSane(depth) =>
        /\ Answered("next") =>
             IF above = {} THEN answer["next"] = depth
             ELSE answer["next"] \in above
                  /\ \A b \in above : answer["next"] <= b
        /\ Answered("prev") =>
             IF below = {} THEN answer["prev"] = depth
             ELSE answer["prev"] \in below
                  /\ \A b \in below : b <= answer["prev"]

(* The loops agree with the closed forms that the other modules use        *)
(* (depth_get_lowest, depth_get_highest, depth_get_highest_nogl).          *)
LoopsMeetClosedForms ==
  /\ Answered("lowest") => answer["lowest"] = DepthGetLowest(flag)
  /\ Answered("highest") => answer["highest"] = DepthGetHighest(flag)
  /\ Answered("nogl") => answer["nogl"] = DepthGetHighestNoGL(flag)

(* What lv_video.h:443 promises of visual_video_depth_get_highest_nogl:    *)
(* "Return the highest supported depth that is NOT openGL."                *)
HighestNoGLIsHighest ==
  Answered("nogl") /\ flag \ {DepthGL} # {} =>
    answer["nogl"] = DepthGetHighest(flag \ {DepthGL})

=============================================================================
