---- MODULE MCCameraStream ----
(* CameraStream on a small instance; tasks are alike, and so are the manager's
   sessions. *)
EXTENDS CameraStream, TLC

CONSTANTS s1, s2, p1, c1, c2

Symmetry == Permutations(Tasks) \cup Permutations(Starters)
====
