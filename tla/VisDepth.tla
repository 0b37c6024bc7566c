------------------------------ MODULE VisDepth ------------------------------
(***************************************************************************)
(* Video depths of libvisual and the choices made among them               *)
(* (lv_video.h, lv_video.c).                                               *)
(*                                                                         *)
(* A depth is one bit, or NONE.  An ORred depthflag is the set of the bits *)
(* that are set in it, so that "(depth & depthflag) > 0" is membership.    *)
(* The loops of lv_video.c over the bits are given here in closed form;    *)
(* module VisDepthLoops has the loops themselves and compares the two on   *)
(* every depthflag.                                                        *)
(***************************************************************************)
EXTENDS Integers

DepthNone  == 0
Depth8     == 1
Depth16    == 2
Depth24    == 4
Depth32    == 8
DepthGL    == 16
DepthError == -1
ErrorImpossible == -3          \* -VISUAL_ERROR_IMPOSSIBLE, third in lv_error.h

DepthBit == {Depth8, Depth16, Depth24, Depth32, DepthGL}
DepthFlag == SUBSET DepthBit

(* What a VisVideo depth field may hold: results of the choices below are  *)
(* stored there without a test.                                            *)
DepthValue == DepthBit \cup {DepthNone, DepthError, ErrorImpossible}

(* visual_video_depth_is_supported (depthflag, depth) == TRUE *)
DepthIsSupported(flag, depth) == depth \in flag

(* visual_video_depth_get_highest: the largest bit, NONE without any. *)
DepthGetHighest(flag) ==
  IF flag = {} THEN DepthNone
  ELSE CHOOSE d \in flag : \A e \in flag : e <= d

(* visual_video_depth_get_lowest: the smallest bit, NONE without any. *)
DepthGetLowest(flag) ==
  IF flag = {} THEN DepthNone
  ELSE CHOOSE d \in flag : \A e \in flag : d <= e

(* visual_video_depth_get_highest_nogl: a flag with GL never yields a      *)
(* usable depth.  With GL alone the previous depth is still GL; with GL    *)
(* and another bit control falls off the if to the last return.            *)
DepthGetHighestNoGL(flag) ==
  IF DepthGL \notin flag THEN DepthGetHighest(flag)
  ELSE IF flag = {DepthGL} THEN DepthError ELSE ErrorImpossible

=============================================================================
