----------------------------- MODULE MCLiveRoom -----------------------------
(* A small sidecar for LiveRoom: two connections of a room, an update, a      *)
(* command and a rotation.  FramesEnd is a liveness property, so the runs use *)
(* no symmetry.                                                               *)
EXTENDS LiveRoom

=============================================================================
