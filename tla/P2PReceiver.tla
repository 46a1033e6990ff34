----------------------------- MODULE P2PReceiver -----------------------------
(***************************************************************************)
(* The receiving side of the data channel of a P2P session:                *)
(* P2PSession._handle_data in lib/p2p/session.py.  A station sends DATA    *)
(* packets numbered modulo 2^16 over UDP, on several channels (data_type), *)
(* and stops retransmitting a segment once it has been acknowledged.  The  *)
(* session acknowledges every DATA packet at once, drops what it has       *)
(* already processed, stores what is ahead of the expected sequence number *)
(* and hands segments to _process_data_segment in order.                   *)
(*                                                                         *)
(* The receive loop is one task, but handing a segment over is an await    *)
(* (it may end in a cloud call), so while a packet is being handled the    *)
(* station and the network go on: `handling' is that control state.        *)
(*                                                                         *)
(* The station and UDP are external: packets may be lost, duplicated and   *)
(* reordered.  They are constrained by Window and Lifetime only.           *)
(***************************************************************************)
EXTENDS Integers, Sequences, FiniteSets

CONSTANTS
  DataTypes,        \* channels, P2PDataType
  NoType,           \* no channel
  SeqMod,           \* size of the sequence space: 2^16 in the code
  Window,           \* external: a station keeps at most this many segments unacknowledged
  Lifetime,         \* external: no packet outlives the sending of this many segments
  DispatchMayRaise, \* TRUE: _process_data_segment may raise (a key AES refuses, a callback)
  MaxSent           \* bound: segments sent per channel

Half == SeqMod \div 2

ASSUME ReceiverAssumption ==
  /\ NoType \notin DataTypes
  /\ SeqMod \in Nat \ {0}
  /\ Window \in Nat \ {0}
  /\ Lifetime \in Nat
  /\ Window <= Lifetime
  /\ Lifetime <= Half
  /\ DispatchMayRaise \in BOOLEAN
  /\ MaxSent \in Nat

VARIABLES
  sent,         \* station: segments sent on each channel (the absolute position)
  sendSeq,      \* station: sequence number of the next segment
  net,          \* DATA packets in flight
  acked,        \* positions of the segments an ACK has been sent for
  expectedSeq,  \* _expected_seq
  reassembly,   \* _reassembly[data_type]: sequence number -> stored segment
  handling,     \* the channel whose segment is being handed over, or NoType
  delivered     \* history: segments handed to _process_data_segment

stationVars == <<sent, sendSeq>>
vars == <<sent, sendSeq, net, acked, expectedSeq, reassembly, handling, delivered>>

\* DataMessage.  The payload is the segment's position in the station's stream:
\* the code never looks at it, the properties do.
DataMessage(d, s, i) == [data_type |-> d, sequence |-> s, data |-> i]

\* Sequence arithmetic: "& 0xFFFF".
NextSeq(s) == (s + 1) % SeqMod

\* The number k before s; the sequence number of the station's k-th last segment.
Minus(s, k) == (s - k) % SeqMod
Back(d, k) == Minus(sendSeq[d], k)

MutantNeverBehind(s, expected) == FALSE       \* no duplicate test
MutantBehindEarly(s, expected) == Minus(s, expected) >= Half - 1   \* off by one

\* "diff > 0x7FFF": the packet is behind the expected one.
IsBehind(s, expected) == Minus(s, expected) >= Half

Empty == [s \in {} |-> 0]

MutantWithout(f, s) == f                      \* dict.get(key): the entry stays

\* dict.pop(key)
Without(f, s) == [t \in DOMAIN f \ {s} |-> f[t]]

\* dict[key] = value
With(f, s, i) == [t \in DOMAIN f \cup {s} |-> IF t = s THEN i ELSE f[t]]

Init ==
  /\ sent = [d \in DataTypes |-> 0]
  /\ sendSeq = [d \in DataTypes |-> 0]
  /\ net = {}
  /\ acked = [d \in DataTypes |-> {}]
  /\ expectedSeq = [d \in DataTypes |-> 0]
  /\ reassembly = [d \in DataTypes |-> Empty]
  /\ handling = NoType
  /\ delivered = [d \in DataTypes |-> <<>>]

-----------------------------------------------------------------------------
(* The station and the network. *)

\* The window: every segment that far behind has been acknowledged.
WindowOpen(d) == \A i \in 0 .. sent[d] - Window : i \in acked[d]

\* No packet of the channel is about to outlive its sequence number.
NoOldPacket(d) ==
  \A p \in net : p.data_type = d => sent[d] + 1 - p.data <= Lifetime

StationSend(d) ==
  /\ sent[d] < MaxSent
  /\ WindowOpen(d)
  /\ NoOldPacket(d)
  /\ net' = net \cup {DataMessage(d, sendSeq[d], sent[d])}
  /\ sent' = [sent EXCEPT ![d] = @ + 1]
  /\ sendSeq' = [sendSeq EXCEPT ![d] = NextSeq(@)]
  /\ UNCHANGED <<acked, expectedSeq, reassembly, handling, delivered>>

\* A segment of the window is sent again, with the sequence number it had.
StationRetransmit(d, i) ==
  /\ i < sent[d]
  /\ sent[d] - i <= Window
  /\ net' = net \cup {DataMessage(d, Back(d, sent[d] - i), i)}
  /\ UNCHANGED <<stationVars, acked, expectedSeq, reassembly, handling, delivered>>

Lose(p) ==
  /\ net' = net \ {p}
  /\ UNCHANGED <<stationVars, acked, expectedSeq, reassembly, handling, delivered>>

\* A packet is taken off the socket; UDP may deliver it again.
Take(p) == net' \in {net, net \ {p}}

SendAck(p) == acked' = [acked EXCEPT ![p.data_type] = @ \cup {p.data}]

-----------------------------------------------------------------------------
(* _handle_data: the receive loop is free and takes packet p. *)

HandleDuplicate(p) ==
  /\ handling = NoType
  /\ p.sequence # expectedSeq[p.data_type]
  /\ IsBehind(p.sequence, expectedSeq[p.data_type])
  /\ Take(p)
  /\ SendAck(p)
  /\ UNCHANGED <<stationVars, expectedSeq, reassembly, handling, delivered>>

HandleOutOfOrder(p) ==
  /\ handling = NoType
  /\ p.sequence # expectedSeq[p.data_type]
  /\ ~IsBehind(p.sequence, expectedSeq[p.data_type])
  /\ Take(p)
  /\ SendAck(p)
  /\ reassembly' = [reassembly EXCEPT ![p.data_type] = With(@, p.sequence, p.data)]
  /\ UNCHANGED <<stationVars, expectedSeq, handling, delivered>>

\* _process_data_segment is called on the segment, and the loop waits for it;
\* an exception it raises is caught by _receive_loop, and the handler is over.
HandOver(d, i) ==
  /\ delivered' = [delivered EXCEPT ![d] = Append(@, i)]
  /\ handling' \in IF DispatchMayRaise THEN {d, NoType} ELSE {d}

HandleInOrder(p) ==
  /\ handling = NoType
  /\ p.sequence = expectedSeq[p.data_type]
  /\ Take(p)
  /\ SendAck(p)
  /\ expectedSeq' = [expectedSeq EXCEPT ![p.data_type] = NextSeq(p.sequence)]
  /\ HandOver(p.data_type, p.data)
  /\ UNCHANGED <<stationVars, reassembly>>

\* Mutant: "while" is "if", one stored segment per packet.
MutantDrainOnce(d) ==
  /\ handling = d
  /\ expectedSeq[d] \in DOMAIN reassembly[d]
  /\ reassembly' = [reassembly EXCEPT ![d] = Without(@, expectedSeq[d])]
  /\ expectedSeq' = [expectedSeq EXCEPT ![d] = NextSeq(@)]
  /\ delivered' = [delivered EXCEPT ![d] = Append(@, reassembly[d][expectedSeq[d]])]
  /\ handling' = NoType
  /\ UNCHANGED <<stationVars, net, acked>>

\* One turn of the loop that drains the stored segments.
DrainNext(d) ==
  /\ handling = d
  /\ expectedSeq[d] \in DOMAIN reassembly[d]
  /\ reassembly' = [reassembly EXCEPT ![d] = Without(@, expectedSeq[d])]
  /\ expectedSeq' = [expectedSeq EXCEPT ![d] = NextSeq(@)]
  /\ HandOver(d, reassembly[d][expectedSeq[d]])
  /\ UNCHANGED <<stationVars, net, acked>>

DrainDone(d) ==
  /\ handling = d
  /\ expectedSeq[d] \notin DOMAIN reassembly[d]
  /\ handling' = NoType
  /\ UNCHANGED <<stationVars, net, acked, expectedSeq, reassembly, delivered>>

-----------------------------------------------------------------------------
Handle(p) == HandleDuplicate(p) \/ HandleOutOfOrder(p) \/ HandleInOrder(p)

Drain(d) == DrainNext(d) \/ DrainDone(d)

Next ==
  \/ \E d \in DataTypes :
       \/ StationSend(d)
       \/ \E i \in 0 .. MaxSent - 1 : StationRetransmit(d, i)
       \/ Drain(d)
  \/ \E p \in net : Lose(p) \/ Handle(p)

Spec == Init /\ [][Next]_vars

\* The loop runs; the station repeats a segment until it has been acknowledged;
\* a packet that is sent again and again is received in the end.
ReceiveSegment(d, i) == \E p \in net : p.data_type = d /\ p.data = i /\ Handle(p)

UnackedRetransmit(d, i) == i \notin acked[d] /\ StationRetransmit(d, i)

Fairness ==
  \A d \in DataTypes :
    /\ WF_vars(Drain(d))
    /\ \A i \in 0 .. MaxSent - 1 :
         /\ WF_vars(UnackedRetransmit(d, i))
         /\ SF_vars(ReceiveSegment(d, i))

FairSpec == Spec /\ Fairness

-----------------------------------------------------------------------------
Message == [data_type : DataTypes, sequence : 0 .. SeqMod - 1, data : Nat]

StoreOK ==
  /\ reassembly = [d \in DataTypes |-> reassembly[d]]
  /\ \A d \in DataTypes : \A s \in DOMAIN reassembly[d] :
       s \in 0 .. SeqMod - 1 /\ reassembly[d][s] \in Nat

TypeOK ==
  /\ sent \in [DataTypes -> Nat]
  /\ sendSeq \in [DataTypes -> 0 .. SeqMod - 1]
  /\ net \subseteq Message
  /\ acked \in [DataTypes -> SUBSET Nat]
  /\ expectedSeq \in [DataTypes -> 0 .. SeqMod - 1]
  /\ StoreOK
  /\ handling \in DataTypes \cup {NoType}
  /\ delivered \in [DataTypes -> Seq(Nat)]

\* Segments reach the message layer in the order the station sent them, none
\* twice and none skipped, although sequence numbers wrap and UDP reorders and
\* repeats packets (_handle_data's duplicate test and drain loop).
InOrderExactlyOnce ==
  \A d \in DataTypes :
    /\ Len(delivered[d]) <= sent[d]
    /\ \A k \in 1 .. Len(delivered[d]) : delivered[d][k] = k - 1

\* A segment that has been acknowledged, which the station therefore never
\* sends again, has been handed over or is stored: none is acknowledged and dropped.
AckedIsKept ==
  \A d \in DataTypes : \A i \in acked[d] :
    \/ \E k \in 1 .. Len(delivered[d]) : delivered[d][k] = i
    \/ \E s \in DOMAIN reassembly[d] : reassembly[d][s] = i

\* When the handler is done with a channel, the segment that is next in order
\* is not left behind in the store: "process this and any buffered
\* continuations" (session.py, _handle_data).
NothingStranded ==
  \A d \in DataTypes : handling # d => expectedSeq[d] \notin DOMAIN reassembly[d]

\* The store holds fewer segments than the station's window: stale copies do
\* not pile up in _reassembly over the life of a session.
StoreBounded ==
  \A d \in DataTypes : Cardinality(DOMAIN reassembly[d]) < Window

\* When every segment sent has been acknowledged, so that nothing will come any
\* more, and the handler is idle, all of them have been handed over: the station
\* may rely on its ACKs (_send_ack comes before the test and the store in _handle_data).
\* It follows from AckedIsKept and NothingStranded (P2PReceiverProofs, AllHanded).
NothingOwed ==
  \A d \in DataTypes :
    /\ handling # d
    /\ \A i \in 0 .. sent[d] - 1 : i \in acked[d]
    => Len(delivered[d]) = sent[d]

-----------------------------------------------------------------------------
(* Why the above hold: the inductive invariant of P2PReceiverProofs. *)

Handed(d) == Len(delivered[d])

\* The expected number is that of the first segment not handed over, which is
\* at most two windows behind the station (one, when the handler is idle).
ExpectedInv(d) ==
  /\ Handed(d) <= sent[d]
  /\ sent[d] <= Handed(d) + 2 * Window
  /\ expectedSeq[d] = Back(d, sent[d] - Handed(d))

DeliveredInv(d) == \A k \in 1 .. Handed(d) : delivered[d][k] = k - 1

\* A stored segment is at most a window ahead and filed under its own number.
StoreInv(d) ==
  /\ \A s \in DOMAIN reassembly[d] :
       /\ reassembly[d][s] \in Handed(d) .. Handed(d) + Window - 1
       /\ reassembly[d][s] < sent[d]
       /\ s = Back(d, sent[d] - reassembly[d][s])
  /\ handling # d => expectedSeq[d] \notin DOMAIN reassembly[d]

AckedInv(d) ==
  /\ \A i \in 0 .. sent[d] - 1 - Window : i \in acked[d]
  /\ \A i \in acked[d] :
       i < Handed(d) \/ \E s \in DOMAIN reassembly[d] : reassembly[d][s] = i

\* A packet in flight still has an unambiguous number.
NetInv(d) ==
  \A p \in net : p.data_type = d =>
    /\ p.data < sent[d]
    /\ sent[d] - p.data <= Lifetime
    /\ p.sequence = Back(d, sent[d] - p.data)

ChannelInv(d) ==
  ExpectedInv(d) /\ DeliveredInv(d) /\ StoreInv(d) /\ AckedInv(d) /\ NetInv(d)

IInv == TypeOK /\ \A d \in DataTypes : ChannelInv(d)

-----------------------------------------------------------------------------
\* The receiver implements the channel the message layer relies on: every step
\* sends a segment, hands over the next one in order, or changes neither.
Channel == INSTANCE FifoChannel
ChannelSpec == Channel!Spec

\* And it is live: no segment the station has sent is withheld for ever, so an
\* acknowledged or reordered segment never blocks the channel for good.
ChannelLive == \A d \in DataTypes : WF_Channel!vars(Channel!Deliver(d))
=============================================================================
