----------------------------- MODULE FifoChannel -----------------------------
(***************************************************************************)
(* What the data channel of a P2P session promises to the message layer    *)
(* above it: on each channel (DATA, VIDEO, CONTROL, BINARY) the segments   *)
(* the station sent come out in the order they were sent, each of them     *)
(* once.  A segment is identified by its position in the station's stream  *)
(* (0, 1, 2, ...), so `delivered' is always <<0, 1, ..., k-1>>.            *)
(***************************************************************************)
EXTENDS Integers, Sequences

CONSTANT DataTypes      \* the channels of a session (lib/types.py, P2PDataType)

VARIABLES
  sent,                 \* [DataTypes -> Nat]: how many segments the station has sent
  delivered             \* [DataTypes -> Seq(Nat)]: segments handed to the message layer

vars == <<sent, delivered>>

Init ==
  /\ sent = [d \in DataTypes |-> 0]
  /\ delivered = [d \in DataTypes |-> <<>>]

Send(d) ==
  /\ sent' = [sent EXCEPT ![d] = @ + 1]
  /\ UNCHANGED delivered

Deliver(d) ==
  /\ Len(delivered[d]) < sent[d]
  /\ delivered' = [delivered EXCEPT ![d] = Append(@, Len(@))]
  /\ UNCHANGED sent

Next == \E d \in DataTypes : Send(d) \/ Deliver(d)

Spec == Init /\ [][Next]_vars

FairSpec == Spec /\ \A d \in DataTypes : WF_vars(Deliver(d))
=============================================================================
