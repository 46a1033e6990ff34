---------------------------- MODULE MessageChannel ----------------------------
(***************************************************************************)
(* What the message layer of a P2P session promises to the code above it:  *)
(* on each channel the messages whose last segment the station has sent    *)
(* are dispatched once, in that order, each with exactly its own segments. *)
(* A message the station abandons half-way is never dispatched.            *)
(***************************************************************************)
EXTENDS Integers, Sequences

CONSTANT DataTypes      \* the channels of a session (lib/types.py, P2PDataType)

VARIABLES
  complete,             \* [DataTypes -> Seq]: messages the station has sent to the end
  dispatched            \* [DataTypes -> Seq]: messages handed to _dispatch_message

vars == <<complete, dispatched>>

Init ==
  /\ complete = [d \in DataTypes |-> <<>>]
  /\ dispatched = [d \in DataTypes |-> <<>>]

Finish(d) ==
  /\ complete'[d] # complete[d]
  /\ complete' = [complete EXCEPT ![d] = Append(@, complete'[d][Len(complete'[d])])]
  /\ UNCHANGED dispatched

Dispatch(d) ==
  /\ Len(dispatched[d]) < Len(complete[d])
  /\ dispatched' = [dispatched EXCEPT ![d] = Append(@, complete[d][Len(@) + 1])]
  /\ UNCHANGED complete

Next == \E d \in DataTypes : Finish(d) \/ Dispatch(d)

Spec == Init /\ [][Next]_vars
=============================================================================
