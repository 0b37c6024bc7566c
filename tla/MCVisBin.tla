------------------------------ MODULE MCVisBin ------------------------------
(***************************************************************************)
(* Instances of VisBin for TLC.                                            *)
(*                                                                         *)
(* At most two actors, four videos (the client's, the private one, the new *)
(* actor's, and one that a dangling pointer still names) and one morph are *)
(* in use at a time, so larger pools of blocks add no behaviour.           *)
(***************************************************************************)
EXTENDS VisBin

(* Plugins of the application: a scope that draws 8 bits, goom2k4 with 32  *)
(* bits; and one of libvisual-plugins that draws with OpenGL only.         *)
AppSupported == [scope |-> {Depth8}, goom |-> {Depth32}]
GLSupported == [scope |-> {Depth8}, goom |-> {Depth32}, madspin |-> {DepthGL}]

(* What of a state can still matter: the contents of the blocks in reach.  *)
InReach ==
  <<bin, ub, live \cap (Reachable \cup {actors[bin.actor].video}),
    [a \in Actor \cap Reachable |-> actors[a]],
    [v \in live \cap (Reachable \cup {actors[bin.actor].video}) \cap Video |-> videos[v]],
    [m \in Morph \cap Reachable |-> morphs[m]]>>

AllDepths == DepthBit                 \* VISUAL_VIDEO_DEPTH_ALL
CheckersDepth == {Depth8, Depth16, Depth24, Depth32}
=============================================================================
