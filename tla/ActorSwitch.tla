---------------------------- MODULE ActorSwitch ----------------------------
(***************************************************************************)
(* What a VisBin promises its client about the actor on screen, without    *)
(* the memory, the videos and the morph it takes to get there: one actor   *)
(* is shown, a client may ask for another at any time, and the last one    *)
(* asked for replaces the one shown, at once and as a whole.               *)
(*                                                                         *)
(* visual_bin_switch_actor_by_name asks, visual_bin_switch_finalize shows. *)
(***************************************************************************)
CONSTANTS Name, NoName

VARIABLES
  shown,  \* the actor on screen
  wanted  \* the actor a running switch leads to, NoName between switches

Init == shown \in Name /\ wanted = NoName

Ask(n) == wanted' = n /\ UNCHANGED shown

Show == wanted # NoName /\ shown' = wanted /\ wanted' = NoName

Next == Show \/ \E n \in Name : Ask(n)

Spec == Init /\ [][Next]_<<shown, wanted>>
=============================================================================
