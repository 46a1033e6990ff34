-------------------------- MODULE P2PReceiverProofs --------------------------
(***************************************************************************)
(* Proofs about the receiver: for every sequence space, window and packet  *)
(* lifetime allowed by ReceiverAssumption, and when handing a segment over *)
(* does not raise, segments come out in order and exactly once and no      *)
(* acknowledged segment is lost; the receiver implements FifoChannel.      *)
(***************************************************************************)
EXTENDS P2PReceiver, FiniteSetTheorems, TLAPS

-----------------------------------------------------------------------------
(* Arithmetic modulo SeqMod. *)

\* Reducing a number that is at most one modulus outside the sequence space
\* adds or subtracts one modulus: what "& 0xFFFF" does to a sum or difference.
LEMMA ModCases ==
  ASSUME NEW x \in Int, -SeqMod <= x, x < 2 * SeqMod
  PROVE  x % SeqMod = IF x < 0 THEN x + SeqMod
                      ELSE IF x < SeqMod THEN x ELSE x - SeqMod
<1>1. CASE x < 0            BY <1>1, ReceiverAssumption
<1>2. CASE 0 <= x /\ x < SeqMod  BY <1>2, ReceiverAssumption
<1>3. CASE SeqMod <= x      BY <1>3, ReceiverAssumption
<1>4. QED BY <1>1, <1>2, <1>3, ReceiverAssumption

\* Half a sequence space fits twice into it.
LEMMA HalfBound == Half \in Nat /\ 2 * Half <= SeqMod /\ 2 * Window <= SeqMod /\ 2 * Lifetime <= SeqMod
  BY ReceiverAssumption DEF Half

LEMMA MinusCases ==
  ASSUME NEW s \in 0 .. SeqMod - 1, NEW k \in 0 .. SeqMod
  PROVE  Minus(s, k) = IF k <= s THEN s - k ELSE s - k + SeqMod
<1>1. s - k \in Int /\ -SeqMod <= s - k /\ s - k < 2 * SeqMod
  BY ReceiverAssumption
<1>2. QED BY <1>1, ModCases, ReceiverAssumption DEF Minus

LEMMA MinusRange ==
  ASSUME NEW s \in 0 .. SeqMod - 1, NEW k \in 0 .. SeqMod
  PROVE  Minus(s, k) \in 0 .. SeqMod - 1
  BY MinusCases, ReceiverAssumption

LEMMA NextSeqCases ==
  ASSUME NEW s \in 0 .. SeqMod - 1
  PROVE  NextSeq(s) = IF s = SeqMod - 1 THEN 0 ELSE s + 1
<1>1. s + 1 \in Int /\ -SeqMod <= s + 1 /\ s + 1 < 2 * SeqMod
  BY ReceiverAssumption
<1>2. QED BY <1>1, ModCases, ReceiverAssumption DEF NextSeq

LEMMA NextSeqRange ==
  ASSUME NEW s \in 0 .. SeqMod - 1
  PROVE  NextSeq(s) \in 0 .. SeqMod - 1
  BY NextSeqCases, ReceiverAssumption

\* When the station takes a number, every earlier one is one step further back.
LEMMA MinusStep ==
  ASSUME NEW s \in 0 .. SeqMod - 1, NEW k \in 0 .. SeqMod - 1
  PROVE  Minus(NextSeq(s), k + 1) = Minus(s, k)
<1> DEFINE t == NextSeq(s)
<1>1. t \in 0 .. SeqMod - 1 /\ k + 1 \in 0 .. SeqMod /\ k \in 0 .. SeqMod
  BY NextSeqRange, ReceiverAssumption
<1>2. t = IF s = SeqMod - 1 THEN 0 ELSE s + 1
  BY NextSeqCases
<1> HIDE DEF t
<1>3. Minus(t, k + 1) = IF k + 1 <= t THEN t - (k + 1) ELSE t - (k + 1) + SeqMod
  BY <1>1, MinusCases
<1>4. Minus(s, k) = IF k <= s THEN s - k ELSE s - k + SeqMod
  BY <1>1, MinusCases
<1>5. Minus(t, k + 1) = Minus(s, k)
  BY <1>1, <1>2, <1>3, <1>4, ReceiverAssumption
<1>6. QED BY <1>5 DEF t

\* The number after the k-th last one is the (k-1)-th last.
LEMMA NextOfMinus ==
  ASSUME NEW s \in 0 .. SeqMod - 1, NEW k \in 1 .. SeqMod
  PROVE  NextSeq(Minus(s, k)) = Minus(s, k - 1)
<1>1. Minus(s, k) \in 0 .. SeqMod - 1 /\ k - 1 \in 0 .. SeqMod /\ k \in 0 .. SeqMod
  BY MinusRange, ReceiverAssumption
<1>2. QED BY <1>1, MinusCases, NextSeqCases, ReceiverAssumption

\* Segments less than a sequence space apart have different numbers.
LEMMA MinusInjective ==
  ASSUME NEW s \in 0 .. SeqMod - 1, NEW j \in 0 .. SeqMod, NEW k \in 0 .. SeqMod,
         j - k < SeqMod, k - j < SeqMod, Minus(s, j) = Minus(s, k)
  PROVE  j = k
  BY MinusCases, ReceiverAssumption

\* The duplicate test tells a segment behind the expected one from one ahead:
\* j counts back to the received segment, k to the expected one.
LEMMA BehindTest ==
  ASSUME NEW s \in 0 .. SeqMod - 1, NEW j \in 0 .. SeqMod, NEW k \in 0 .. SeqMod,
         k - j < Half, j - k <= Half, j # k
  PROVE  IsBehind(Minus(s, j), Minus(s, k)) <=> j > k
<1> DEFINE x == Minus(s, j) - Minus(s, k)
<1>1. Minus(s, j) \in 0 .. SeqMod - 1 /\ Minus(s, k) \in 0 .. SeqMod - 1
  BY MinusRange
<1>2. x \in Int /\ -SeqMod <= x /\ x < 2 * SeqMod
  BY <1>1, ReceiverAssumption
<1>3. x % SeqMod = IF x < 0 THEN x + SeqMod
                   ELSE IF x < SeqMod THEN x ELSE x - SeqMod
  BY <1>2, ModCases
<1>4. \/ x = k - j \/ x = k - j + SeqMod \/ x = k - j - SeqMod
  BY MinusCases, ReceiverAssumption
<1>5. (x % SeqMod >= Half) <=> j > k
  <2>1. k - j \in Int /\ SeqMod \in Nat /\ Half \in Nat /\ 2 * Half <= SeqMod
    BY HalfBound, ReceiverAssumption
  <2> HIDE DEF x
  <2>2. QED BY <1>1, <1>2, <1>3, <1>4, <2>1
<1>6. QED BY <1>5 DEF IsBehind, Minus

-----------------------------------------------------------------------------
(* Types. *)

LEMMA TypeInit == Init => TypeOK
  BY ReceiverAssumption DEF Init, TypeOK, StoreOK, Empty

\* dict[key] = value and dict.pop(key) change one channel's store and keep its type.
LEMMA StoreSet ==
  ASSUME StoreOK, NEW d \in DataTypes, NEW s \in 0 .. SeqMod - 1, NEW i \in Nat,
         reassembly' = [reassembly EXCEPT ![d] = With(@, s, i)]
  PROVE  StoreOK'
  BY DEF StoreOK, With

LEMMA StorePop ==
  ASSUME StoreOK, NEW d \in DataTypes, NEW s,
         reassembly' = [reassembly EXCEPT ![d] = Without(@, s)]
  PROVE  StoreOK'
  BY DEF StoreOK, Without

LEMMA HandOverType ==
  ASSUME TypeOK, NEW d \in DataTypes, NEW i \in Nat, HandOver(d, i)
  PROVE  handling' \in DataTypes \cup {NoType} /\ delivered' \in [DataTypes -> Seq(Nat)]
<1>1. handling' \in {d, NoType}
  BY DEF HandOver
<1>2. delivered' \in [DataTypes -> Seq(Nat)]
  BY DEF HandOver, TypeOK
<1>3. QED BY <1>1, <1>2

LEMMA TypeStep == TypeOK /\ [Next]_vars => TypeOK'
<1> SUFFICES ASSUME TypeOK, [Next]_vars PROVE TypeOK'
  OBVIOUS
<1> USE DEF TypeOK
<1>1. ASSUME NEW d \in DataTypes, StationSend(d) PROVE TypeOK'
  <2>1. NextSeq(sendSeq[d]) \in 0 .. SeqMod - 1
    BY NextSeqRange
  <2>2. QED BY <1>1, <2>1 DEF StationSend, DataMessage, Message, StoreOK
<1>2. ASSUME NEW d \in DataTypes, NEW i \in 0 .. MaxSent - 1, StationRetransmit(d, i)
      PROVE  TypeOK'
  <2>1. sent[d] \in Nat /\ i \in Nat /\ sendSeq[d] \in 0 .. SeqMod - 1
    BY ReceiverAssumption
  <2>2. sent[d] - i \in 0 .. SeqMod
    BY <1>2, <2>1, HalfBound, ReceiverAssumption DEF StationRetransmit
  <2>3. Back(d, sent[d] - i) \in 0 .. SeqMod - 1
    BY <2>1, <2>2, MinusRange DEF Back
  <2>4. net' \subseteq Message
    BY <1>2, <2>1, <2>3 DEF StationRetransmit, DataMessage, Message
  <2>5. QED BY <1>2, <2>4 DEF StationRetransmit, stationVars, StoreOK
<1>3. ASSUME NEW p \in net, Lose(p) PROVE TypeOK'
  BY <1>3 DEF Lose, stationVars, StoreOK
<1>4. ASSUME NEW p \in net, HandleDuplicate(p) PROVE TypeOK'
  BY <1>4 DEF HandleDuplicate, Take, SendAck, stationVars, StoreOK, Message
<1>5. ASSUME NEW p \in net, HandleOutOfOrder(p) PROVE TypeOK'
  <2>1. p.data_type \in DataTypes /\ p.sequence \in 0 .. SeqMod - 1 /\ p.data \in Nat
    BY DEF Message
  <2>2. StoreOK'
    BY <1>5, <2>1, StoreSet DEF HandleOutOfOrder
  <2>3. QED BY <1>5, <2>1, <2>2 DEF HandleOutOfOrder, Take, SendAck, stationVars
<1>6. ASSUME NEW p \in net, HandleInOrder(p) PROVE TypeOK'
  <2>1. p.data_type \in DataTypes /\ p.sequence \in 0 .. SeqMod - 1 /\ p.data \in Nat
    BY DEF Message
  <2>2. NextSeq(p.sequence) \in 0 .. SeqMod - 1
    BY <2>1, NextSeqRange
  <2>3. QED
    BY <1>6, <2>1, <2>2, HandOverType DEF HandleInOrder, Take, SendAck, stationVars, StoreOK
<1>7. ASSUME NEW d \in DataTypes, DrainNext(d) PROVE TypeOK'
  <2>1. NextSeq(expectedSeq[d]) \in 0 .. SeqMod - 1
    BY NextSeqRange
  <2>2. reassembly[d][expectedSeq[d]] \in Nat
    BY <1>7 DEF DrainNext, StoreOK
  <2>3. StoreOK'
    BY <1>7, StorePop DEF DrainNext
  <2>4. QED BY <1>7, <2>1, <2>2, <2>3, HandOverType DEF DrainNext, stationVars
<1>8. ASSUME NEW d \in DataTypes, DrainDone(d) PROVE TypeOK'
  BY <1>8 DEF DrainDone, stationVars, StoreOK
<1>9. CASE UNCHANGED vars
  BY <1>9 DEF vars, StoreOK
<1>10. QED
  BY <1>1, <1>2, <1>3, <1>4, <1>5, <1>6, <1>7, <1>8, <1>9 DEF Next, Handle, Drain

\* The state of a receiver has the type its code gives it, whatever the network
\* does and whether or not handing a segment over raises.
THEOREM TypeCorrect == Spec => []TypeOK
  BY TypeInit, TypeStep, PTL DEF Spec

-----------------------------------------------------------------------------
(* The inductive invariant. *)

\* The quantities of a channel and their types, for arithmetic.
LEMMA Quantities ==
  ASSUME TypeOK, NEW d \in DataTypes
  PROVE  /\ sent[d] \in Nat
         /\ Handed(d) \in Nat
         /\ sendSeq[d] \in 0 .. SeqMod - 1
         /\ expectedSeq[d] \in 0 .. SeqMod - 1
         /\ delivered[d] \in Seq(Nat)
  BY DEF TypeOK, Handed

\* A step that leaves a channel's own state alone, adds no packet to it and does
\* not end its handler keeps the channel's invariant.
LEMMA ChannelFrame ==
  ASSUME NEW d \in DataTypes, ChannelInv(d),
         sent'[d] = sent[d], sendSeq'[d] = sendSeq[d], acked'[d] = acked[d],
         expectedSeq'[d] = expectedSeq[d], reassembly'[d] = reassembly[d],
         delivered'[d] = delivered[d], handling = d => handling' = d,
         \A p \in net' : p.data_type = d => p \in net
  PROVE  ChannelInv(d)'
<1>1. ExpectedInv(d)' BY DEF ChannelInv, ExpectedInv, Handed, Back
<1>2. DeliveredInv(d)' BY DEF ChannelInv, DeliveredInv, Handed
<1>3. StoreInv(d)' BY DEF ChannelInv, StoreInv, Handed, Back
<1>4. AckedInv(d)' BY DEF ChannelInv, AckedInv, Handed
<1>5. NetInv(d)' BY DEF ChannelInv, NetInv, Back
<1>6. QED BY <1>1, <1>2, <1>3, <1>4, <1>5 DEF ChannelInv

\* When the handler is not at work on a channel, the station is at most one
\* window ahead: an older segment would have been acknowledged, hence stored,
\* and the first one not handed over is not in the store.
LEMMA IdleWindow ==
  ASSUME TypeOK, NEW d \in DataTypes, ChannelInv(d), handling # d
  PROVE  sent[d] <= Handed(d) + Window
<1>1. sent[d] \in Nat /\ Handed(d) \in Nat
  BY Quantities
<1>2. SUFFICES ASSUME sent[d] > Handed(d) + Window PROVE FALSE
  BY <1>1, ReceiverAssumption
<1>3. Handed(d) \in acked[d]
  BY <1>1, <1>2, ReceiverAssumption DEF ChannelInv, AckedInv
<1>4. PICK s \in DOMAIN reassembly[d] : reassembly[d][s] = Handed(d)
  BY <1>1, <1>3 DEF ChannelInv, AckedInv
<1>5. s = expectedSeq[d]
  BY <1>4 DEF ChannelInv, StoreInv, ExpectedInv
<1>6. QED BY <1>4, <1>5 DEF ChannelInv, StoreInv

\* The packet on the socket is recognised for what it is: behind the expected
\* segment, the expected one, or ahead of it by less than a window.
LEMMA Recognised ==
  ASSUME TypeOK, NEW p \in net, ChannelInv(p.data_type), handling = NoType
  PROVE  LET d == p.data_type
         IN  /\ d \in DataTypes /\ p.data \in Nat /\ p.sequence \in 0 .. SeqMod - 1
             /\ p.data < sent[d]
             /\ p.sequence = Back(d, sent[d] - p.data)
             /\ p.sequence = expectedSeq[d] <=> p.data = Handed(d)
             /\ p.sequence # expectedSeq[d] =>
                  (IsBehind(p.sequence, expectedSeq[d]) <=> p.data < Handed(d))
             /\ p.data < Handed(d) + Window
<1> DEFINE d == p.data_type
           j == sent[d] - p.data
           k == sent[d] - Handed(d)
<1>1. d \in DataTypes /\ p.data \in Nat /\ p.sequence \in 0 .. SeqMod - 1
  BY DEF TypeOK, Message
<1>2. /\ sent[d] \in Nat /\ Handed(d) \in Nat /\ sendSeq[d] \in 0 .. SeqMod - 1
  BY <1>1, Quantities
<1>3. p.data < sent[d] /\ sent[d] - p.data <= Lifetime /\ p.sequence = Minus(sendSeq[d], j)
  BY <1>1 DEF ChannelInv, NetInv, Back
<1>4. Handed(d) <= sent[d] /\ expectedSeq[d] = Minus(sendSeq[d], k)
  BY <1>1 DEF ChannelInv, ExpectedInv, Back
<1>5. sent[d] <= Handed(d) + Window
  BY <1>1, IdleWindow, ReceiverAssumption
<1>6. /\ j \in 0 .. SeqMod /\ k \in 0 .. SeqMod
      /\ k - j < Half /\ j - k <= Half /\ j - k < SeqMod /\ k - j < SeqMod
  BY <1>1, <1>2, <1>3, <1>4, <1>5, HalfBound, ReceiverAssumption
<1>7. j = k <=> p.data = Handed(d)
  BY <1>1, <1>2
<1>8. p.sequence = expectedSeq[d] <=> p.data = Handed(d)
  <2> HIDE DEF j, k
  <2>1. QED BY <1>2, <1>3, <1>4, <1>6, <1>7, MinusInjective
<1>9. j > k <=> p.data < Handed(d)
  BY <1>1, <1>2
<1>10. p.sequence # expectedSeq[d] =>
         (IsBehind(p.sequence, expectedSeq[d]) <=> p.data < Handed(d))
  <2> HIDE DEF j, k
  <2>1. QED BY <1>2, <1>3, <1>4, <1>6, <1>9, BehindTest
<1>11. p.data < Handed(d) + Window
  BY <1>1, <1>2, <1>3, <1>5, ReceiverAssumption
<1>12. QED BY <1>1, <1>3, <1>8, <1>10, <1>11 DEF Back

LEMMA SendPreserves ==
  ASSUME TypeOK, NEW d \in DataTypes, ChannelInv(d), StationSend(d)
  PROVE  ChannelInv(d)'
<1> DEFINE n == sent[d]
           e == Handed(d)
           s == sendSeq[d]
<1>1. n \in Nat /\ e \in Nat /\ s \in 0 .. SeqMod - 1
  BY Quantities
<1>2. /\ sent'[d] = n + 1 /\ sendSeq'[d] = NextSeq(s) /\ Handed(d)' = e
      /\ UNCHANGED <<acked, expectedSeq, reassembly, handling, delivered>>
      /\ net' = net \cup {DataMessage(d, s, n)}
  BY DEF StationSend, TypeOK, Handed
<1>3. \A i \in 0 .. n - Window : i \in acked[d]
  BY DEF StationSend, WindowOpen
<1>4. n + 1 <= e + 2 * Window
  <2>1. CASE n < Window  BY <2>1, <1>1, ReceiverAssumption
  <2>2. CASE n >= Window
    <3>1. n - Window \in acked[d]
      BY <1>1, <1>3, <2>2, ReceiverAssumption
    <3>2. CASE n - Window < e
      BY <3>2, <1>1, ReceiverAssumption
    <3>3. CASE \E t \in DOMAIN reassembly[d] : reassembly[d][t] = n - Window
      <4>1. n - Window \in e .. e + Window - 1
        BY <3>3 DEF ChannelInv, StoreInv
      <4>2. QED BY <4>1, <1>1, ReceiverAssumption
    <3>4. QED BY <3>1, <3>2, <3>3 DEF ChannelInv, AckedInv
  <2>3. QED BY <2>1, <2>2, <1>1, ReceiverAssumption
<1>5. \A k \in 0 .. SeqMod - 1 : Minus(NextSeq(s), k + 1) = Minus(s, k)
  BY <1>1, MinusStep
<1>6. e <= n /\ expectedSeq[d] = Minus(s, n - e)
  BY DEF ChannelInv, ExpectedInv, Back
<1>7. ExpectedInv(d)'
  <2>1. n - e \in 0 .. SeqMod - 1
    BY <1>1, <1>4, <1>6, HalfBound, ReceiverAssumption
  <2>2. Minus(NextSeq(s), (n - e) + 1) = expectedSeq[d]
    BY <2>1, <1>5, <1>6
  <2>3. (n - e) + 1 = (n + 1) - e
    BY <1>1
  <2>4. QED BY <1>1, <1>2, <1>4, <1>6, <2>2, <2>3 DEF ExpectedInv, Back
<1>8. DeliveredInv(d)'
  BY <1>2 DEF ChannelInv, DeliveredInv, Handed
<1>9. StoreInv(d)'
  <2>1. ASSUME NEW t \in DOMAIN reassembly[d]
        PROVE  /\ reassembly[d][t] \in e .. e + Window - 1
               /\ reassembly[d][t] < n + 1
               /\ t = Minus(NextSeq(s), (n + 1) - reassembly[d][t])
    <3> DEFINE r == reassembly[d][t]
    <3>1. r \in e .. e + Window - 1 /\ r < n /\ t = Minus(s, n - r)
      BY DEF ChannelInv, StoreInv, Back
    <3>2. n - r \in 0 .. SeqMod - 1 /\ (n - r) + 1 = (n + 1) - r
      BY <3>1, <1>1, <1>4, HalfBound, ReceiverAssumption
    <3>3. QED BY <3>1, <3>2, <1>1, <1>5
  <2>2. QED BY <2>1, <1>2 DEF ChannelInv, StoreInv, Back
<1>10. AckedInv(d)'
  <2>1. (n + 1) - 1 - Window = n - Window
    BY <1>1, ReceiverAssumption
  <2>2. QED BY <2>1, <1>2, <1>3 DEF ChannelInv, AckedInv
<1>11. NetInv(d)'
  <2>1. ASSUME NEW p \in net', p.data_type = d
        PROVE  /\ p.data \in Nat
               /\ p.data < n + 1
               /\ n + 1 - p.data <= Lifetime
               /\ p.sequence = Minus(NextSeq(s), (n + 1) - p.data)
    <3>1. CASE p \in net
      <4>1. p.data \in Nat /\ p.data < n /\ p.sequence = Minus(s, n - p.data)
        BY <3>1, <2>1 DEF ChannelInv, NetInv, Back, TypeOK, Message
      <4>2. n + 1 - p.data <= Lifetime
        BY <3>1, <2>1 DEF StationSend, NoOldPacket
      <4>3. n - p.data \in 0 .. SeqMod - 1 /\ (n - p.data) + 1 = (n + 1) - p.data
        BY <4>1, <4>2, <1>1, HalfBound, ReceiverAssumption
      <4>4. QED BY <4>1, <4>2, <4>3, <1>1, <1>5
    <3>2. CASE p = DataMessage(d, s, n)
      <4>1. p.data = n /\ p.sequence = s
        BY <3>2 DEF DataMessage
      <4>2. (n + 1) - n = 0 + 1 /\ 0 \in 0 .. SeqMod - 1 /\ 1 <= Lifetime
        BY <1>1, ReceiverAssumption
      <4>3. Minus(NextSeq(s), 0 + 1) = Minus(s, 0)
        BY <4>2, <1>5
      <4>4. Minus(s, 0) = s
        <5>1. 0 \in 0 .. SeqMod /\ 0 <= s /\ s - 0 = s
          BY <1>1, ReceiverAssumption
        <5>2. QED BY <5>1, <1>1, MinusCases
      <4>5. QED BY <4>1, <4>2, <4>3, <4>4, <1>1
    <3>3. QED BY <3>1, <3>2, <2>1, <1>2
  <2>2. ASSUME NEW p \in net', p.data_type = d
        PROVE  /\ p.data < sent'[d]
               /\ sent'[d] - p.data <= Lifetime
               /\ p.sequence = Minus(sendSeq'[d], sent'[d] - p.data)
    <3>1. sent'[d] = n + 1 /\ sendSeq'[d] = NextSeq(s)
      BY <1>2
    <3>2. QED BY <1>1, <2>1, <2>2, <3>1
  <2>3. QED BY <2>2 DEF NetInv, Back
<1>12. QED BY <1>7, <1>8, <1>9, <1>10, <1>11 DEF ChannelInv

LEMMA RetransmitPreserves ==
  ASSUME TypeOK, NEW d \in DataTypes, ChannelInv(d),
         NEW i \in 0 .. MaxSent - 1, StationRetransmit(d, i)
  PROVE  ChannelInv(d)'
<1>1. UNCHANGED <<sent, sendSeq, acked, expectedSeq, reassembly, handling, delivered>>
  BY DEF StationRetransmit, stationVars
<1>2. ExpectedInv(d)' /\ DeliveredInv(d)' /\ StoreInv(d)' /\ AckedInv(d)'
  BY <1>1 DEF ChannelInv, ExpectedInv, DeliveredInv, StoreInv, AckedInv, Handed, Back
<1>3. NetInv(d)'
  <2>1. ASSUME NEW p \in net', p.data_type = d
        PROVE  /\ p.data < sent[d]
               /\ sent[d] - p.data <= Lifetime
               /\ p.sequence = Back(d, sent[d] - p.data)
    <3>1. CASE p \in net
      BY <3>1, <2>1 DEF ChannelInv, NetInv
    <3>2. CASE p = DataMessage(d, Back(d, sent[d] - i), i)
      <4>1. p.data = i /\ p.sequence = Back(d, sent[d] - i)
        BY <3>2 DEF DataMessage
      <4>2. i < sent[d] /\ sent[d] - i <= Lifetime
        <5>1. sent[d] \in Nat /\ i \in Nat /\ i < sent[d] /\ sent[d] - i <= Window
          BY Quantities, ReceiverAssumption DEF StationRetransmit
        <5>2. QED BY <5>1, ReceiverAssumption
      <4>3. QED BY <4>1, <4>2
    <3>3. QED BY <3>1, <3>2, <2>1 DEF StationRetransmit
  <2>2. QED BY <2>1, <1>1 DEF NetInv, Back
<1>4. QED BY <1>2, <1>3 DEF ChannelInv

\* A packet behind the expected one: it has been handed over, nothing is stored.
LEMMA DuplicatePreserves ==
  ASSUME TypeOK, NEW p \in net, ChannelInv(p.data_type), HandleDuplicate(p)
  PROVE  ChannelInv(p.data_type)'
<1> DEFINE d == p.data_type
<1>1. d \in DataTypes /\ p.data \in Nat /\ p.data < Handed(d)
  BY Recognised DEF HandleDuplicate
<1>2. /\ UNCHANGED <<sent, sendSeq, expectedSeq, reassembly, handling, delivered>>
      /\ acked'[d] = acked[d] \cup {p.data}
      /\ net' \subseteq net
  BY <1>1 DEF HandleDuplicate, SendAck, Take, stationVars, TypeOK
<1>3. ExpectedInv(d)' /\ DeliveredInv(d)' /\ StoreInv(d)' /\ NetInv(d)'
  BY <1>2 DEF ChannelInv, ExpectedInv, DeliveredInv, StoreInv, NetInv, Handed, Back
<1>4. AckedInv(d)'
  BY <1>1, <1>2 DEF ChannelInv, AckedInv, Handed
<1>5. QED BY <1>3, <1>4 DEF ChannelInv

\* A packet ahead of the expected one is filed under its own number.
LEMMA OutOfOrderPreserves ==
  ASSUME TypeOK, NEW p \in net, ChannelInv(p.data_type), HandleOutOfOrder(p)
  PROVE  ChannelInv(p.data_type)'
<1> DEFINE d == p.data_type
           store == reassembly[d]
           q == p.sequence
           i == p.data
<1>1. /\ d \in DataTypes /\ i \in Nat /\ q \in 0 .. SeqMod - 1
      /\ i < sent[d] /\ i # Handed(d) /\ ~(i < Handed(d)) /\ i < Handed(d) + Window
      /\ q = Back(d, sent[d] - i) /\ q # expectedSeq[d]
  BY Recognised DEF HandleOutOfOrder
<1>2. sent[d] \in Nat /\ Handed(d) \in Nat
  BY <1>1, Quantities
<1>3. /\ UNCHANGED <<sent, sendSeq, expectedSeq, handling, delivered>>
      /\ acked'[d] = acked[d] \cup {i}
      /\ reassembly'[d] = With(store, q, i)
      /\ net' \subseteq net
  BY <1>1 DEF HandleOutOfOrder, SendAck, Take, stationVars, TypeOK, StoreOK
<1>4. /\ DOMAIN reassembly'[d] = DOMAIN store \cup {q}
      /\ reassembly'[d][q] = i
      /\ \A t \in DOMAIN store : t # q => reassembly'[d][t] = store[t]
  BY <1>3 DEF With
<1>5. ExpectedInv(d)' /\ DeliveredInv(d)' /\ NetInv(d)'
  BY <1>3 DEF ChannelInv, ExpectedInv, DeliveredInv, NetInv, Handed, Back
<1>6. StoreInv(d)'
  <2>1. ASSUME NEW t \in DOMAIN reassembly'[d]
        PROVE  /\ reassembly'[d][t] \in Handed(d) .. Handed(d) + Window - 1
               /\ reassembly'[d][t] < sent[d]
               /\ t = Back(d, sent[d] - reassembly'[d][t])
    <3>1. CASE t = q
      BY <3>1, <1>1, <1>2, <1>4, ReceiverAssumption
    <3>2. CASE t # q
      BY <3>2, <2>1, <1>4 DEF ChannelInv, StoreInv
    <3>3. QED BY <3>1, <3>2
  <2>2. handling # d => expectedSeq[d] \notin DOMAIN reassembly'[d]
    BY <1>1, <1>4 DEF ChannelInv, StoreInv
  <2>3. QED BY <2>1, <2>2, <1>3 DEF StoreInv, Handed, Back
<1>7. AckedInv(d)'
  <2>1. ASSUME NEW x \in acked'[d]
        PROVE  x < Handed(d) \/ \E t \in DOMAIN reassembly'[d] : reassembly'[d][t] = x
    <3>1. CASE x = i
      BY <3>1, <1>4
    <3>2. CASE x \in acked[d] /\ ~(x < Handed(d))
      <4>1. PICK t \in DOMAIN store : store[t] = x
        BY <3>2 DEF ChannelInv, AckedInv
      <4>2. CASE t = q
        <5>1. sendSeq[d] \in 0 .. SeqMod - 1 /\ x \in Nat
          BY <1>1, <3>2, Quantities DEF TypeOK
        <5>2. /\ x < sent[d] /\ x < Handed(d) + Window
              /\ q = Minus(sendSeq[d], sent[d] - x) /\ q = Minus(sendSeq[d], sent[d] - i)
          BY <4>1, <4>2, <1>1, <1>2, <5>1, ReceiverAssumption DEF ChannelInv, StoreInv, Back
        <5>3. sent[d] <= Handed(d) + 2 * Window
          BY DEF ChannelInv, ExpectedInv
        <5>4. sent[d] - x \in 0 .. SeqMod /\ sent[d] - i \in 0 .. SeqMod
              /\ x - i < SeqMod /\ i - x < SeqMod
          BY <5>1, <5>2, <5>3, <1>1, <1>2, <3>2, HalfBound, ReceiverAssumption
        <5>5. sent[d] - x = sent[d] - i
          <6>1. (sent[d] - x) - (sent[d] - i) < SeqMod /\ (sent[d] - i) - (sent[d] - x) < SeqMod
            BY <5>1, <5>4, <1>1, <1>2
          <6>2. QED BY <6>1, <5>1, <5>2, <5>4, MinusInjective
        <5>6. QED BY <5>1, <5>5, <1>1, <1>2, <1>4
      <4>3. CASE t # q
        BY <4>1, <4>3, <1>4
      <4>4. QED BY <4>2, <4>3
    <3>3. QED BY <3>1, <3>2, <2>1, <1>3
  <2>2. \A x \in 0 .. sent[d] - 1 - Window : x \in acked'[d]
    BY <1>3 DEF ChannelInv, AckedInv
  <2>3. QED BY <2>1, <2>2, <1>3 DEF AckedInv, Handed
<1>8. QED BY <1>5, <1>6, <1>7 DEF ChannelInv

\* Handing over the first segment that has not been handed over moves the
\* expected number on by one.
LEMMA Advance ==
  ASSUME TypeOK, NEW d \in DataTypes, ChannelInv(d), Handed(d) < sent[d],
         UNCHANGED <<sent, sendSeq>>,
         expectedSeq' = [expectedSeq EXCEPT ![d] = NextSeq(expectedSeq[d])],
         delivered' = [delivered EXCEPT ![d] = Append(@, Handed(d))]
  PROVE  Handed(d)' = Handed(d) + 1 /\ ExpectedInv(d)' /\ DeliveredInv(d)'
<1> DEFINE n == sent[d]
           e == Handed(d)
           s == sendSeq[d]
<1>1. n \in Nat /\ e \in Nat /\ s \in 0 .. SeqMod - 1 /\ delivered[d] \in Seq(Nat)
  BY Quantities
<1>2. delivered'[d] = Append(delivered[d], e) /\ expectedSeq'[d] = NextSeq(expectedSeq[d])
  BY DEF TypeOK
<1>3. Handed(d)' = e + 1
  BY <1>1, <1>2 DEF Handed
<1>4. ExpectedInv(d)'
  <2>1. n <= e + 2 * Window /\ expectedSeq[d] = Minus(s, n - e)
    BY DEF ChannelInv, ExpectedInv, Back
  <2>2. n - e \in 1 .. SeqMod /\ (n - e) - 1 = n - (e + 1)
    <3> HIDE DEF n, e
    <3>1. e < n
      BY DEF n, e
    <3>2. QED BY <1>1, <2>1, <3>1, HalfBound, ReceiverAssumption
  <2>3. NextSeq(Minus(s, n - e)) = Minus(s, (n - e) - 1)
    BY <1>1, <2>2, NextOfMinus
  <2>4. expectedSeq'[d] = Minus(s, n - (e + 1))
    BY <1>2, <2>1, <2>2, <2>3
  <2>5. sent'[d] = n /\ sendSeq'[d] = s
    OBVIOUS
  <2>6. e + 1 <= n /\ n <= (e + 1) + 2 * Window
    <3> HIDE DEF n, e
    <3>1. e < n
      BY DEF n, e
    <3>2. QED BY <1>1, <2>1, <3>1, ReceiverAssumption
  <2>7. QED BY <1>3, <2>4, <2>5, <2>6 DEF ExpectedInv, Back
<1>5. DeliveredInv(d)'
  <2>1. ASSUME NEW k \in 1 .. e + 1 PROVE delivered'[d][k] = k - 1
    <3>1. CASE k = e + 1
      BY <3>1, <1>1, <1>2 DEF Handed
    <3>2. CASE k \in 1 .. e
      <4>1. delivered'[d][k] = delivered[d][k]
        BY <3>2, <1>1, <1>2 DEF Handed
      <4>2. QED BY <3>2, <4>1 DEF ChannelInv, DeliveredInv
    <3>3. k = e + 1 \/ k \in 1 .. e
      BY ONLY <1>1, <2>1
    <3>4. QED BY <3>1, <3>2, <3>3
  <2>2. QED BY <2>1, <1>3 DEF DeliveredInv
<1>6. QED BY <1>3, <1>4, <1>5

\* A stored segment is at the position its number stands for.
LEMMA StoredPosition ==
  ASSUME TypeOK, NEW d \in DataTypes, ChannelInv(d), NEW t \in DOMAIN reassembly[d]
  PROVE  /\ reassembly[d][t] \in Nat
         /\ reassembly[d][t] < sent[d]
         /\ Handed(d) <= reassembly[d][t]
         /\ reassembly[d][t] < Handed(d) + Window
         /\ t = expectedSeq[d] <=> reassembly[d][t] = Handed(d)
<1> DEFINE r == reassembly[d][t]
           n == sent[d]
           e == Handed(d)
           s == sendSeq[d]
<1>1. n \in Nat /\ e \in Nat /\ s \in 0 .. SeqMod - 1
  BY Quantities
<1>2. r \in e .. e + Window - 1 /\ r < n /\ t = Minus(s, n - r)
  BY DEF ChannelInv, StoreInv, Back
<1>3. e <= n /\ n <= e + 2 * Window /\ expectedSeq[d] = Minus(s, n - e)
  BY DEF ChannelInv, ExpectedInv, Back
<1>4. r \in Nat /\ e <= r /\ r < e + Window
  BY <1>1, <1>2, ReceiverAssumption
<1>5. /\ n - r \in 0 .. SeqMod /\ n - e \in 0 .. SeqMod
      /\ (n - r) - (n - e) < SeqMod /\ (n - e) - (n - r) < SeqMod
  BY <1>1, <1>2, <1>3, <1>4, HalfBound, ReceiverAssumption
<1>6. t = expectedSeq[d] => n - r = n - e
  <2> SUFFICES ASSUME t = expectedSeq[d] PROVE n - r = n - e
    OBVIOUS
  <2> HIDE DEF r, n, e, s
  <2>1. QED BY <1>1, <1>2, <1>3, <1>5, MinusInjective
<1>7. n - r = n - e => r = e
  BY <1>1, <1>4
<1>8. r = e => t = expectedSeq[d]
  BY <1>2, <1>3
<1>9. QED BY <1>2, <1>4, <1>6, <1>7, <1>8

\* The expected segment arrives: nothing that is stored is in its place.
LEMMA InOrderPreserves ==
  ASSUME ~DispatchMayRaise, TypeOK, NEW p \in net, ChannelInv(p.data_type),
         HandleInOrder(p)
  PROVE  ChannelInv(p.data_type)'
<1> DEFINE d == p.data_type
<1>1. d \in DataTypes /\ p.data = Handed(d) /\ p.data < sent[d]
  BY Recognised DEF HandleInOrder
<1>2. sent[d] \in Nat /\ Handed(d) \in Nat
  BY <1>1, Quantities
<1>3. /\ UNCHANGED <<sent, sendSeq, reassembly>>
      /\ acked'[d] = acked[d] \cup {p.data}
      /\ expectedSeq' = [expectedSeq EXCEPT ![d] = NextSeq(expectedSeq[d])]
      /\ delivered' = [delivered EXCEPT ![d] = Append(@, Handed(d))]
      /\ handling' = d
      /\ net' \subseteq net
      /\ handling # d
  BY <1>1, ReceiverAssumption
     DEF HandleInOrder, HandOver, SendAck, Take, stationVars, TypeOK
<1>4. Handed(d)' = Handed(d) + 1 /\ ExpectedInv(d)' /\ DeliveredInv(d)'
  BY <1>1, <1>3, Advance
<1>5. StoreInv(d)'
  <2>1. ASSUME NEW t \in DOMAIN reassembly[d]
        PROVE  reassembly[d][t] \in Handed(d) + 1 .. (Handed(d) + 1) + Window - 1
    <3>1. t # expectedSeq[d]
      BY <1>3 DEF ChannelInv, StoreInv
    <3>2. QED BY <1>1, <1>2, <3>1, StoredPosition, ReceiverAssumption
  <2>2. QED BY <2>1, <1>3, <1>4 DEF ChannelInv, StoreInv, Back
<1>6. AckedInv(d)'
  <2>1. ASSUME NEW x \in acked'[d]
        PROVE  x < Handed(d) + 1 \/ \E t \in DOMAIN reassembly[d] : reassembly[d][t] = x
    <3>1. x \in Nat
      BY <2>1, <1>1, <1>2, <1>3 DEF TypeOK
    <3>2. CASE x = p.data
      BY <3>2, <1>1, <1>2
    <3>3. CASE x \in acked[d]
      BY <3>1, <3>3, <1>2 DEF ChannelInv, AckedInv
    <3>4. QED BY <3>2, <3>3, <2>1, <1>3
  <2>2. QED BY <2>1, <1>3, <1>4 DEF ChannelInv, AckedInv
<1>7. NetInv(d)'
  BY <1>3 DEF ChannelInv, NetInv, Back
<1>8. QED BY <1>4, <1>5, <1>6, <1>7 DEF ChannelInv

\* The drain loop takes the stored segment that is next, and no other.
LEMMA DrainNextPreserves ==
  ASSUME ~DispatchMayRaise, TypeOK, NEW d \in DataTypes, ChannelInv(d), DrainNext(d)
  PROVE  ChannelInv(d)'
<1> DEFINE q == expectedSeq[d]
           store == reassembly[d]
<1>1. q \in DOMAIN store /\ store[q] = Handed(d) /\ Handed(d) < sent[d]
  BY StoredPosition DEF DrainNext
<1>2. sent[d] \in Nat /\ Handed(d) \in Nat
  BY Quantities
<1>3. /\ UNCHANGED <<sent, sendSeq, net, acked>>
      /\ reassembly'[d] = Without(store, q)
      /\ expectedSeq' = [expectedSeq EXCEPT ![d] = NextSeq(expectedSeq[d])]
      /\ delivered' = [delivered EXCEPT ![d] = Append(@, Handed(d))]
      /\ handling' = d
  BY <1>1 DEF DrainNext, HandOver, stationVars, TypeOK, StoreOK
<1>4. /\ DOMAIN reassembly'[d] = DOMAIN store \ {q}
      /\ \A t \in DOMAIN store \ {q} : reassembly'[d][t] = store[t]
  BY <1>3 DEF Without
<1>5. Handed(d)' = Handed(d) + 1 /\ ExpectedInv(d)' /\ DeliveredInv(d)'
  BY <1>1, <1>3, Advance
<1>6. StoreInv(d)'
  <2>1. ASSUME NEW t \in DOMAIN reassembly'[d]
        PROVE  reassembly'[d][t] \in Handed(d) + 1 .. (Handed(d) + 1) + Window - 1
    <3>1. t \in DOMAIN store /\ t # q /\ reassembly'[d][t] = store[t]
      BY <2>1, <1>4
    <3>2. QED BY <1>2, <3>1, StoredPosition, ReceiverAssumption
  <2>2. ASSUME NEW t \in DOMAIN reassembly'[d]
        PROVE  /\ reassembly'[d][t] < sent'[d]
               /\ t = Back(d, sent[d] - reassembly'[d][t])
    BY <2>2, <1>3, <1>4 DEF ChannelInv, StoreInv
  <2>3. QED BY <2>1, <2>2, <1>3, <1>5 DEF StoreInv, Back
<1>7. AckedInv(d)'
  <2>1. ASSUME NEW x \in acked[d]
        PROVE  x < Handed(d) + 1 \/ \E t \in DOMAIN reassembly'[d] : reassembly'[d][t] = x
    <3>1. x \in Nat
      BY DEF TypeOK
    <3>2. CASE x < Handed(d)
      BY <3>1, <3>2, <1>2
    <3>3. CASE \E t \in DOMAIN store : store[t] = x
      <4>1. PICK t \in DOMAIN store : store[t] = x
        BY <3>3
      <4>2. CASE t = q
        BY <4>1, <4>2, <1>1, <1>2
      <4>3. CASE t # q
        BY <4>1, <4>3, <1>4
      <4>4. QED BY <4>2, <4>3
    <3>4. QED BY <3>2, <3>3 DEF ChannelInv, AckedInv
  <2>2. QED BY <2>1, <1>3, <1>5 DEF ChannelInv, AckedInv
<1>8. NetInv(d)'
  BY <1>3 DEF ChannelInv, NetInv, Back
<1>9. QED BY <1>5, <1>6, <1>7, <1>8 DEF ChannelInv

LEMMA DrainDonePreserves ==
  ASSUME NEW d \in DataTypes, ChannelInv(d), DrainDone(d)
  PROVE  ChannelInv(d)'
<1>1. UNCHANGED <<sent, sendSeq, net, acked, expectedSeq, reassembly, delivered>>
  BY DEF DrainDone, stationVars
<1>2. ExpectedInv(d)' /\ DeliveredInv(d)' /\ AckedInv(d)' /\ NetInv(d)'
  BY <1>1 DEF ChannelInv, ExpectedInv, DeliveredInv, AckedInv, NetInv, Handed, Back
<1>3. StoreInv(d)'
  BY <1>1 DEF ChannelInv, StoreInv, Handed, Back, DrainDone
<1>4. QED BY <1>2, <1>3 DEF ChannelInv

-----------------------------------------------------------------------------
(* The invariant holds. *)

LEMMA InvInit == Init => IInv
<1> SUFFICES ASSUME Init PROVE IInv
  OBVIOUS
<1>1. TypeOK
  BY TypeInit
<1>2. ASSUME NEW d \in DataTypes PROVE ChannelInv(d)
  <2>1. Handed(d) = 0 /\ sent[d] = 0 /\ sendSeq[d] = 0 /\ expectedSeq[d] = 0
    BY DEF Init, Handed
  <2>2. Minus(0, 0) = 0
    <3>1. 0 \in 0 .. SeqMod - 1 /\ 0 \in 0 .. SeqMod
      BY ReceiverAssumption
    <3>2. QED BY <3>1, MinusCases
  <2>3. ExpectedInv(d)
    BY <2>1, <2>2, ReceiverAssumption DEF ExpectedInv, Back
  <2>4. DeliveredInv(d) /\ NetInv(d)
    BY <2>1 DEF Init, DeliveredInv, NetInv
  <2>5. StoreInv(d)
    BY DEF Init, StoreInv, Empty
  <2>6. AckedInv(d)
    BY <2>1, ReceiverAssumption DEF Init, AckedInv
  <2>7. QED BY <2>3, <2>4, <2>5, <2>6 DEF ChannelInv
<1>3. QED BY <1>1, <1>2 DEF IInv

LEMMA InvStep ==
  ASSUME ~DispatchMayRaise
  PROVE  IInv /\ [Next]_vars => IInv'
<1> SUFFICES ASSUME IInv, [Next]_vars PROVE IInv'
  OBVIOUS
<1>1. TypeOK /\ TypeOK'
  BY TypeStep DEF IInv
<1>2. ASSUME NEW d \in DataTypes PROVE ChannelInv(d)
  BY <1>2 DEF IInv
<1> SUFFICES ASSUME NEW c \in DataTypes PROVE ChannelInv(c)'
  BY <1>1 DEF IInv
<1>3. ASSUME NEW d \in DataTypes, StationSend(d) PROVE ChannelInv(c)'
  <2>1. CASE c = d
    BY <1>1, <1>2, <1>3, <2>1, SendPreserves
  <2>2. CASE c # d
    BY <1>1, <1>2, <1>3, <2>2, ChannelFrame DEF StationSend, DataMessage, TypeOK
  <2>3. QED BY <2>1, <2>2
<1>4. ASSUME NEW d \in DataTypes, NEW i \in 0 .. MaxSent - 1, StationRetransmit(d, i)
      PROVE  ChannelInv(c)'
  <2>1. CASE c = d
    BY <1>1, <1>2, <1>4, <2>1, RetransmitPreserves
  <2>2. CASE c # d
    BY <1>1, <1>2, <1>4, <2>2, ChannelFrame DEF StationRetransmit, DataMessage, stationVars
  <2>3. QED BY <2>1, <2>2
<1>5. ASSUME NEW p \in net, Lose(p) PROVE ChannelInv(c)'
  BY <1>2, <1>5, ChannelFrame DEF Lose, stationVars
<1>6. ASSUME NEW p \in net, Handle(p) PROVE ChannelInv(c)'
  <2> DEFINE d == p.data_type
  <2>1. d \in DataTypes
    BY <1>1 DEF TypeOK, Message
  <2>2. CASE c = d
    BY <1>1, <1>2, <1>6, <2>1, <2>2, DuplicatePreserves, OutOfOrderPreserves,
       InOrderPreserves DEF Handle
  <2>3. CASE c # d
    <3>1. CASE HandleDuplicate(p)
      BY <1>1, <1>2, <2>1, <2>3, <3>1, ChannelFrame
         DEF HandleDuplicate, SendAck, Take, stationVars, TypeOK
    <3>2. CASE HandleOutOfOrder(p)
      BY <1>1, <1>2, <2>1, <2>3, <3>2, ChannelFrame
         DEF HandleOutOfOrder, SendAck, Take, stationVars, TypeOK, StoreOK
    <3>3. CASE HandleInOrder(p)
      BY <1>1, <1>2, <2>1, <2>3, <3>3, ChannelFrame, ReceiverAssumption
         DEF HandleInOrder, HandOver, SendAck, Take, stationVars, TypeOK
    <3>4. QED BY <1>6, <3>1, <3>2, <3>3 DEF Handle
  <2>4. QED BY <2>2, <2>3
<1>7. ASSUME NEW d \in DataTypes, Drain(d) PROVE ChannelInv(c)'
  <2>1. CASE c = d
    BY <1>1, <1>2, <1>7, <2>1, DrainNextPreserves, DrainDonePreserves DEF Drain
  <2>2. CASE c # d
    <3>1. CASE DrainNext(d)
      BY <1>1, <1>2, <2>2, <3>1, ChannelFrame
         DEF DrainNext, HandOver, stationVars, TypeOK, StoreOK
    <3>2. CASE DrainDone(d)
      BY <1>2, <2>2, <3>2, ChannelFrame DEF DrainDone, stationVars
    <3>3. QED BY <1>7, <3>1, <3>2 DEF Drain
  <2>3. QED BY <2>1, <2>2
<1>8. CASE UNCHANGED vars
  BY <1>2, <1>8, ChannelFrame DEF vars
<1>9. QED BY <1>3, <1>4, <1>5, <1>6, <1>7, <1>8 DEF Next

LEMMA Invariance ==
  ASSUME ~DispatchMayRaise
  PROVE  Spec => []IInv
<1>1. Init => IInv
  BY InvInit
<1>2. IInv /\ [Next]_vars => IInv'
  BY InvStep
<1>3. QED BY <1>1, <1>2, PTL DEF Spec

-----------------------------------------------------------------------------
(* What follows from it. *)

LEMMA InvInOrder == IInv => InOrderExactlyOnce
<1> SUFFICES ASSUME IInv, NEW d \in DataTypes
             PROVE  /\ Len(delivered[d]) <= sent[d]
                    /\ \A k \in 1 .. Len(delivered[d]) : delivered[d][k] = k - 1
  BY DEF InOrderExactlyOnce
<1>1. QED BY DEF IInv, ChannelInv, ExpectedInv, DeliveredInv, Handed

LEMMA InvAcked == IInv => AckedIsKept
<1> SUFFICES ASSUME IInv, NEW d \in DataTypes, NEW i \in acked[d]
             PROVE  \/ \E k \in 1 .. Len(delivered[d]) : delivered[d][k] = i
                    \/ \E s \in DOMAIN reassembly[d] : reassembly[d][s] = i
  BY DEF AckedIsKept
<1>1. TypeOK /\ ChannelInv(d)
  BY DEF IInv
<1>2. i \in Nat /\ Handed(d) \in Nat
  BY <1>1, Quantities DEF TypeOK
<1>3. CASE i < Handed(d)
  <2>1. i + 1 \in 1 .. Handed(d) /\ (i + 1) - 1 = i
    BY <1>2, <1>3
  <2>2. QED BY <1>1, <2>1 DEF ChannelInv, DeliveredInv, Handed
<1>4. CASE \E s \in DOMAIN reassembly[d] : reassembly[d][s] = i
  BY <1>4
<1>5. QED BY <1>1, <1>3, <1>4 DEF ChannelInv, AckedInv

LEMMA InvStranded == IInv => NothingStranded
  BY DEF IInv, ChannelInv, StoreInv, NothingStranded

\* Segments are handed over in the order they were sent and once each, for every
\* sequence space, window and packet lifetime the assumption allows.
THEOREM InOrder ==
  ASSUME ~DispatchMayRaise
  PROVE  Spec => []InOrderExactlyOnce
  BY Invariance, InvInOrder, PTL

\* No segment the session has acknowledged is ever dropped.
THEOREM AckedKept ==
  ASSUME ~DispatchMayRaise
  PROVE  Spec => []AckedIsKept
  BY Invariance, InvAcked, PTL

\* The drain loop never leaves the segment that is next in order in the store.
THEOREM Drained ==
  ASSUME ~DispatchMayRaise
  PROVE  Spec => []NothingStranded
  BY Invariance, InvStranded, PTL

-----------------------------------------------------------------------------
(* How much is stored. *)

\* The store is one-to-one: two sequence numbers do not hold the same segment.
LEMMA StoreInjective ==
  ASSUME TypeOK, NEW d \in DataTypes, ChannelInv(d),
         NEW s \in DOMAIN reassembly[d], NEW t \in DOMAIN reassembly[d],
         reassembly[d][s] = reassembly[d][t]
  PROVE  s = t
  BY DEF ChannelInv, StoreInv

\* How many positions there are between one and the end of its window.
LEMMA AheadSize ==
  ASSUME NEW h \in Nat, NEW w \in Nat \ {0}
  PROVE  IsFiniteSet(h + 1 .. h + w - 1) /\ Cardinality(h + 1 .. h + w - 1) = w - 1
<1> DEFINE a == h + 1
           b == h + w - 1
<1>1. a \in Int /\ b \in Int
  OBVIOUS
<1>2. IsFiniteSet(a .. b) /\ Cardinality(a .. b) = IF a > b THEN 0 ELSE b - a + 1
  <2> HIDE DEF a, b
  <2> QED BY <1>1, FS_Interval
<1>3. (IF a > b THEN 0 ELSE b - a + 1) = w - 1
  OBVIOUS
<1> QED BY <1>2, <1>3

\* When the handler is not at work, the first segment that has not been handed
\* over is not in the store, which leaves Window - 1 others.
LEMMA IdleBounded ==
  ASSUME TypeOK, NEW d \in DataTypes, ChannelInv(d), handling # d
  PROVE  Cardinality(DOMAIN reassembly[d]) < Window
<1> DEFINE store == reassembly[d]
           ahead == Handed(d) + 1 .. Handed(d) + Window - 1
           position == [s \in DOMAIN store |-> store[s]]
<1>1. Handed(d) \in Nat /\ Window \in Nat \ {0}
  BY Quantities, ReceiverAssumption
<1>2. ASSUME NEW s \in DOMAIN store PROVE store[s] \in ahead
  <2>1. /\ store[s] \in Nat /\ Handed(d) <= store[s] /\ store[s] < Handed(d) + Window
        /\ s = expectedSeq[d] <=> store[s] = Handed(d)
    BY StoredPosition
  <2>2. s # expectedSeq[d]
    BY DEF ChannelInv, StoreInv
  <2> QED BY <1>1, <2>1, <2>2
<1>3. IsFiniteSet(ahead) /\ Cardinality(ahead) = Window - 1
  BY <1>1, AheadSize
<1>4. position \in Injection(DOMAIN store, ahead)
  <2>1. position \in [DOMAIN store -> ahead]
    BY <1>2
  <2>2. \A s, t \in DOMAIN position : position[s] = position[t] => s = t
    BY StoreInjective
  <2> QED BY <2>1, <2>2 DEF Injection, IsInjective
<1>5. Cardinality(DOMAIN store) <= Cardinality(ahead) /\ IsFiniteSet(DOMAIN store)
  BY <1>3, <1>4, FS_Injection
<1> QED BY <1>1, <1>3, <1>5, FS_CardinalityType

\* While it is at work, segments only leave the store.
LEMMA BusyShrinks ==
  ASSUME TypeOK, [Next]_vars, NEW d \in DataTypes, handling' = d
  PROVE  DOMAIN reassembly'[d] \subseteq DOMAIN reassembly[d]
<1>0. d # NoType
  BY ReceiverAssumption
<1>1. ASSUME NEW c \in DataTypes, DrainNext(c)
      PROVE  DOMAIN reassembly'[d] \subseteq DOMAIN reassembly[d]
  BY <1>1 DEF DrainNext, Without, TypeOK, StoreOK
<1>2. ASSUME NEW p \in net, HandleOutOfOrder(p)
      PROVE  FALSE
  BY <1>0, <1>2 DEF HandleOutOfOrder
<1>3. ASSUME UNCHANGED reassembly
      PROVE  DOMAIN reassembly'[d] \subseteq DOMAIN reassembly[d]
  BY <1>3
<1> QED BY <1>1, <1>2, <1>3 DEF Next, vars, Drain, Handle, StationSend, StationRetransmit,
              DrainDone, Lose, HandleDuplicate, HandleInOrder

LEMMA StoreFinite ==
  ASSUME TypeOK, NEW d \in DataTypes
  PROVE  IsFiniteSet(DOMAIN reassembly[d])
<1>1. IsFiniteSet(0 .. SeqMod - 1)
  BY FS_Interval, ReceiverAssumption
<1>2. DOMAIN reassembly[d] \subseteq 0 .. SeqMod - 1
  BY DEF TypeOK, StoreOK
<1> QED BY <1>1, <1>2, FS_Subset

IdleStoresBounded ==
  \A d \in DataTypes : handling # d => Cardinality(DOMAIN reassembly[d]) < Window

LEMMA InvIdleBounded == IInv => IdleStoresBounded
  BY IdleBounded DEF IInv, IdleStoresBounded

LEMMA BoundedStep ==
  IInv /\ IdleStoresBounded' /\ StoreBounded /\ [Next]_vars => StoreBounded'
<1> SUFFICES ASSUME IInv, IdleStoresBounded', StoreBounded, [Next]_vars, NEW d \in DataTypes
             PROVE  Cardinality(DOMAIN reassembly'[d]) < Window
  BY DEF StoreBounded
<1>1. CASE handling' # d
  BY <1>1 DEF IdleStoresBounded
<1>2. CASE handling' = d
  <2>1. DOMAIN reassembly'[d] \in SUBSET DOMAIN reassembly[d]
    BY <1>2, BusyShrinks DEF IInv
  <2>2. IsFiniteSet(DOMAIN reassembly[d]) /\ Cardinality(DOMAIN reassembly[d]) < Window
    BY StoreFinite DEF IInv, StoreBounded
  <2>3. /\ IsFiniteSet(DOMAIN reassembly'[d])
        /\ Cardinality(DOMAIN reassembly'[d]) <= Cardinality(DOMAIN reassembly[d])
    BY <2>1, <2>2, FS_Subset
  <2> QED BY <2>2, <2>3, FS_CardinalityType, ReceiverAssumption
<1> QED BY <1>1, <1>2

\* Whatever the network repeats, and however often numbers come round, fewer segments
\* are stored than the station has outstanding (reassembly and the pop in the drain loop).
THEOREM StoreSmall ==
  ASSUME ~DispatchMayRaise
  PROVE  Spec => []StoreBounded
<1>1. Init => StoreBounded
  BY InvInit, IdleBounded, ReceiverAssumption DEF StoreBounded, IInv, Init
<1>2. IInv => IdleStoresBounded
  BY InvIdleBounded
<1>3. IInv /\ IdleStoresBounded' /\ StoreBounded /\ [Next]_vars => StoreBounded'
  BY BoundedStep
<1> QED BY <1>1, <1>2, <1>3, Invariance, PTL DEF Spec

-----------------------------------------------------------------------------
(* Nothing is lost. *)

LEMMA InvOwed == IInv => NothingOwed
<1> SUFFICES ASSUME IInv, NEW d \in DataTypes, handling # d,
                    \A i \in 0 .. sent[d] - 1 : i \in acked[d]
             PROVE  Handed(d) = sent[d]
  BY DEF NothingOwed, Handed
<1>1. TypeOK /\ ChannelInv(d) /\ sent[d] \in Nat /\ Handed(d) \in Nat /\ Handed(d) <= sent[d]
  BY Quantities DEF IInv, ChannelInv, ExpectedInv
<1>2. SUFFICES ASSUME Handed(d) < sent[d] PROVE FALSE
  BY <1>1
<1>3. Handed(d) \in acked[d]
  BY <1>1, <1>2
<1>4. PICK s \in DOMAIN reassembly[d] : reassembly[d][s] = Handed(d)
  BY <1>1, <1>3 DEF ChannelInv, AckedInv
<1>5. s = expectedSeq[d]
  BY <1>1, <1>4, StoredPosition
<1> QED BY <1>1, <1>4, <1>5 DEF ChannelInv, StoreInv

\* Once everything is acknowledged everything has been handed over: an ACK, which is sent
\* before the segment is stored or handled, is never a false promise.
THEOREM AllHanded ==
  ASSUME ~DispatchMayRaise
  PROVE  Spec => []NothingOwed
  BY Invariance, InvOwed, PTL

-----------------------------------------------------------------------------
(* Refinement: the receiver is a FIFO channel. *)

LEMMA RefinesInit == Init => Channel!Init
  BY DEF Init, Channel!Init

\* A segment handed over while the invariant holds is the next one in order.
LEMMA HandOverDelivers ==
  ASSUME TypeOK, NEW d \in DataTypes, NEW i, i = Handed(d), Handed(d) < sent[d],
         HandOver(d, i), UNCHANGED sent
  PROVE  Channel!Deliver(d)
  BY DEF HandOver, Handed, Channel!Deliver

LEMMA RefinesStep == IInv /\ [Next]_vars => [Channel!Next]_Channel!vars
<1> SUFFICES ASSUME IInv, [Next]_vars PROVE [Channel!Next]_Channel!vars
  OBVIOUS
<1>1. TypeOK /\ \A d \in DataTypes : ChannelInv(d)
  BY DEF IInv
<1>2. ASSUME NEW d \in DataTypes, StationSend(d) PROVE Channel!Next
  BY <1>2 DEF StationSend, Channel!Next, Channel!Send
<1>3. ASSUME NEW p \in net, HandleInOrder(p) PROVE Channel!Next
  <2>1. p.data_type \in DataTypes
    BY <1>1 DEF TypeOK, Message
  <2>2. p.data = Handed(p.data_type) /\ p.data < sent[p.data_type]
    BY <1>1, <1>3, <2>1, Recognised DEF HandleInOrder
  <2>3. Channel!Deliver(p.data_type)
    BY <1>1, <1>3, <2>1, <2>2, HandOverDelivers DEF HandleInOrder, stationVars
  <2>4. QED BY <2>1, <2>3 DEF Channel!Next
<1>4. ASSUME NEW d \in DataTypes, DrainNext(d) PROVE Channel!Next
  <2>1. reassembly[d][expectedSeq[d]] = Handed(d) /\ Handed(d) < sent[d]
    BY <1>1, <1>4, StoredPosition DEF DrainNext
  <2>2. Channel!Deliver(d)
    BY <1>1, <1>4, <2>1, HandOverDelivers DEF DrainNext, stationVars
  <2>3. QED BY <2>2 DEF Channel!Next
<1>5. ASSUME NEW d \in DataTypes, NEW i \in 0 .. MaxSent - 1, StationRetransmit(d, i)
      PROVE  UNCHANGED Channel!vars
  BY <1>5 DEF StationRetransmit, stationVars, Channel!vars
<1>6. ASSUME NEW p \in net, Lose(p) \/ HandleDuplicate(p) \/ HandleOutOfOrder(p)
      PROVE  UNCHANGED Channel!vars
  BY <1>6 DEF Lose, HandleDuplicate, HandleOutOfOrder, stationVars, Channel!vars
<1>7. ASSUME NEW d \in DataTypes, DrainDone(d) PROVE UNCHANGED Channel!vars
  BY <1>7 DEF DrainDone, stationVars, Channel!vars
<1>8. CASE UNCHANGED vars
  BY <1>8 DEF vars, Channel!vars
<1>9. QED
  BY <1>2, <1>3, <1>4, <1>5, <1>6, <1>7, <1>8 DEF Next, Handle, Drain

\* The receiver implements the abstract channel: initial states are initial
\* states of FifoChannel, and every step is a Send, a Deliver or a stutter.
THEOREM Implements ==
  ASSUME ~DispatchMayRaise
  PROVE  Spec => ChannelSpec
<1>1. Init => Channel!Init
  BY RefinesInit
<1>2. IInv /\ [Next]_vars => [Channel!Next]_Channel!vars
  BY RefinesStep
<1>3. Spec => []IInv
  BY Invariance
<1>4. QED BY <1>1, <1>2, <1>3, PTL DEF Spec, ChannelSpec, Channel!Spec
=============================================================================
