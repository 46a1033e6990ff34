---- MODULE MCDeviceState ----
(* DeviceState on small instances: two commands, which are alike. *)
EXTENDS DeviceState, TLC
CONSTANTS s1, s2
MCSymmetry == Permutations(Setters)
====
