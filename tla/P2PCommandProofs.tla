-------------------------- MODULE P2PCommandProofs --------------------------
(***************************************************************************)
(* Proofs about P2PCommand, for every set of callers and command types,    *)
(* every number space and every number of retries.  IInv is inductive.     *)
(* The ways out of a call share a lemma, and so do the two that send.      *)
(***************************************************************************)
EXTENDS P2PCommand, TLAPS

LEMMA Numbers ==
  /\ SeqMod \in Nat /\ SeqMod > 0 /\ MaxRetries \in Nat /\ MaxRetries > 0
  /\ NoSeq \notin Seqs
  BY CommandAssumption DEF NoSeq, Seqs

LEMMA NextRange == ASSUME NEW s \in Seqs PROVE NextSequence(s) \in Seqs
  BY CommandAssumption DEF NextSequence, Seqs

LEMMA Nobody ==
  NoCaller \notin Callers /\ NoType \notin Types /\ Uses \in [Callers -> SUBSET Types]
  BY CommandAssumption

\* The channel without its first answer, and with one more.
LEMMA TailAnswers ==
  ASSUME TypeOK, answers # <<>>, answers' = Tail(answers)
  PROVE  /\ answers' \in Seq(Command) /\ Head(answers) \in Command
         /\ 1 \in DOMAIN answers /\ Head(answers) = answers[1]
         /\ \A i \in DOMAIN answers' :
              i \in Nat /\ i + 1 \in DOMAIN answers /\ i + 1 # 1 /\ answers'[i] = answers[i + 1]
  BY DEF TypeOK

LEMMA AppendAnswers ==
  ASSUME TypeOK, NEW k \in Command, answers' = Append(answers, k)
  PROVE  /\ answers' \in Seq(Command)
         /\ \A i \in DOMAIN answers' :
              \/ i \in DOMAIN answers /\ answers'[i] = answers[i]
              \/ i = Len(answers) + 1 /\ answers'[i] = k
  BY DEF TypeOK

-----------------------------------------------------------------------------
(* Sending. *)

LEMMA SendPacketEffect ==
  ASSUME TypeOK, NEW c \in Callers, NEW k \in Command, NEW first, SendPacket(c, k, first)
  PROVE  /\ acks' \subseteq Seqs /\ taken' \in [Callers -> BOOLEAN]
         /\ atStation' \subseteq Command
         /\ \A d \in Callers : d # c => taken'[d] = taken[d]
         /\ taken[c] => taken'[c]
         /\ acks' = acks \/ (acks' = acks \cup {k.seq} /\ taken'[c])
         /\ atStation' = atStation \/ (first /\ atStation' = atStation \cup {k} /\ taken'[c])
<1> USE DEF TypeOK, Command, stationVars
<1>1. CASE UNCHANGED <<acks, stationVars>>
  BY <1>1
<1>2. CASE /\ acks' = acks \cup {k.seq}
           /\ taken' = [taken EXCEPT ![c] = TRUE]
           /\ atStation' = IF first THEN atStation \cup {k} ELSE atStation
  <2>1. taken' \in [Callers -> BOOLEAN] /\ taken'[c]
    BY <1>2
  <2>2. \A d \in Callers : d # c => taken'[d] = taken[d]
    BY <1>2
  <2>3. acks' = acks \cup {k.seq} /\ acks' \subseteq Seqs
    BY <1>2
  <2>4. atStation' = atStation \/ (first /\ atStation' = atStation \cup {k})
    BY <1>2
  <2>5. QED BY <2>1, <2>2, <2>3, <2>4
<1>3. QED BY <1>1, <1>2 DEF SendPacket

\* Commands stay in one place when caller c sends command k: k is nowhere yet, or it
\* has been taken and nothing is added.
LEMMA OnceSend ==
  ASSUME TypeOK, OnceInv, UNCHANGED <<answers, value>>,
         NEW c \in Callers, NEW k \in Command, seq'[c] = k.seq,
         \A d \in Callers : d # c =>
           seq[d] # k.seq /\ seq'[d] = seq[d] /\ (pc'[d] = "idle" <=> pc[d] = "idle")
                          /\ taken'[d] = taken[d],
         \/ /\ \A u \in Unanswered : u.seq # k.seq
            /\ \A d \in Callers : value[d] # k.seq
            /\ atStation' = atStation \/ (atStation' = atStation \cup {k} /\ taken'[c])
         \/ taken[c] /\ taken'[c] /\ atStation' = atStation /\ seq[c] = k.seq
  PROVE  OnceInv'
<1>1. \A u \in Unanswered' :
        u \in Unanswered \/ (u = k /\ taken'[c] /\ \A d \in Callers : value[d] # k.seq)
  BY DEF Unanswered
<1>2. (\A u \in Unanswered, d \in Callers :
         value[d] # u.seq /\ (seq[d] = u.seq => taken[d]))'
  <2> SUFFICES ASSUME NEW u \in Unanswered', NEW d \in Callers
               PROVE  value'[d] # u.seq /\ (seq'[d] = u.seq => taken'[d])
    OBVIOUS
  <2>1. CASE u \in Unanswered
    BY <2>1 DEF OnceInv
  <2>2. CASE u = k
    BY <1>1, <2>1, <2>2
  <2>3. QED BY <1>1, <2>1, <2>2
<1>3. (\A u, l \in atStation : u.seq = l.seq => u = l)'
  BY DEF OnceInv, Unanswered
<1>4. (\A u \in atStation, i \in DOMAIN answers : u.seq # answers[i].seq)'
  BY DEF OnceInv, Unanswered
<1>5. (\A i, j \in DOMAIN answers : i # j => answers[i].seq # answers[j].seq)'
  BY DEF OnceInv
<1>6. (\A d, e \in Callers : Active(d) /\ value[e] = seq[d] => taken[d])'
  BY DEF OnceInv, Active
<1>7. QED BY <1>2, <1>3, <1>4, <1>5, <1>6 DEF OnceInv

LEMMA SendCommandPreserves ==
  ASSUME IInv, NEW c \in Callers, NEW t \in Types, SendCommand(c, t)
  PROVE  IInv'
<1> USE Numbers, Nobody DEF IInv, TypeOK, Active
<1> DEFINE k == [seq |-> sendSeq, type |-> t]
<1>1. k \in Command /\ k.seq = sendSeq /\ k.type = t
  BY DEF Command
<1>2. /\ ~Active(c) /\ NotInUse(sendSeq)
      /\ pending' = [pending EXCEPT ![sendSeq] = c]
      /\ results' = [results EXCEPT ![t] = c]
      /\ pc' = [pc EXCEPT ![c] = "ack"]
      /\ type' = [type EXCEPT ![c] = t]
      /\ seq' = [seq EXCEPT ![c] = sendSeq]
      /\ attempt' = [attempt EXCEPT ![c] = 1]
      /\ alone' = [d \in Callers |-> IF d = c THEN ~MayBeAnswered(t)
                                     ELSE alone[d] /\ type[d] # t]
      /\ UNCHANGED <<connected, acked, value, answers>>
  BY DEF SendCommand
<1>3. SendPacket(c, k, TRUE)
  BY DEF SendCommand
<1>4. /\ acks' \subseteq Seqs /\ taken' \in [Callers -> BOOLEAN]
      /\ atStation' \subseteq Command
      /\ \A d \in Callers : d # c => taken'[d] = taken[d]
      /\ acks' = acks \/ (acks' = acks \cup {k.seq} /\ taken'[c])
      /\ atStation' = atStation \/ (atStation' = atStation \cup {k} /\ taken'[c])
  BY <1>1, <1>3, SendPacketEffect
<1>5. seq[c] = NoSeq /\ type[c] = NoType /\ value[c] = NoSeq /\ ~acked[c]
  BY <1>2 DEF CallInv
<1>6. \A u \in Unanswered' : u \in Unanswered \/ u = k
  BY <1>2, <1>4 DEF Unanswered
<1> HIDE DEF k
<1>11. TypeOK'
  <2>1. sendSeq' \in Seqs
    BY NextRange DEF SendCommand
  <2>2. attempt' \in [Callers -> 0 .. MaxRetries]
    BY <1>2
  <2>3. alone' \in [Callers -> BOOLEAN]
    BY <1>2
  <2>4. QED BY <1>2, <1>4, <2>1, <2>2, <2>3
<1>12. CallInv'
  BY <1>2, <1>5 DEF CallInv, NotInUse
<1>13. AcksInv'
  <2> SUFFICES ASSUME NEW n \in acks' PROVE \E d \in Callers : seq'[d] = n /\ taken'[d]
    BY DEF AcksInv
  <2>1. CASE n \in acks
    <3>1. PICK d \in Callers : seq[d] = n /\ taken[d]
      BY <2>1 DEF AcksInv
    <3>2. d # c
      BY <1>5, <2>1, <3>1
    <3>3. QED BY <1>2, <1>4, <3>1, <3>2
  <2>2. CASE n \notin acks
    <3>1. n = k.seq /\ taken'[c]
      BY <1>4, <2>2
    <3>2. seq'[c] = n
      BY <1>1, <1>2, <3>1
    <3>3. QED BY <3>1, <3>2
  <2>3. QED BY <2>1, <2>2
<1>14. OnceInv'
  <2>1. \A u \in Unanswered : u.seq # k.seq
    BY <1>1, <1>2 DEF NotInUse
  <2>2. \A d \in Callers : value[d] # k.seq /\ seq[d] # k.seq
    BY <1>1, <1>2 DEF NotInUse
  <2>3. seq'[c] = k.seq
    BY <1>1, <1>2
  <2>4. \A d \in Callers : d # c =>
          seq[d] # k.seq /\ seq'[d] = seq[d] /\ (pc'[d] = "idle" <=> pc[d] = "idle")
                         /\ taken'[d] = taken[d]
    BY <1>2, <1>4, <2>2
  <2>5. UNCHANGED <<answers, value>>
    BY <1>2
  <2> HIDE DEF IInv, TypeOK
  <2>6. TypeOK /\ OnceInv
    BY DEF IInv
  <2>7. \A d \in Callers : value[d] # k.seq
    BY <2>2
  <2>8. QED BY <1>1, <1>4, <2>1, <2>3, <2>4, <2>5, <2>6, <2>7, OnceSend
<1>15. AloneInv'
  BY <1>1, <1>2, <1>5, <1>6 DEF AloneInv, MayBeAnswered
<1>16. AckedWasTaken'
  BY <1>2, <1>4, <1>5 DEF AckedWasTaken
<1>17. TablesHoldWaiting'
  BY <1>2, <1>5 DEF TablesHoldWaiting, CallInv
<1>18. OwnResultWhenAlone'
  BY <1>2, <1>5 DEF OwnResultWhenAlone, CallInv
<1>19. AnswerGivenOnce'
  BY <1>2 DEF AnswerGivenOnce
<1>20. QED BY <1>11, <1>12, <1>13, <1>14, <1>15, <1>16, <1>17, <1>18, <1>19

LEMMA ResendPreserves ==
  ASSUME IInv, NEW c \in Callers, Resend(c)
  PROVE  IInv'
<1> USE Numbers, Nobody DEF IInv, TypeOK, Active
<1> DEFINE k == [seq |-> seq[c], type |-> type[c]]
<1>1. /\ pc[c] = "ack" /\ attempt[c] < MaxRetries
      /\ SendPacket(c, k, ~taken[c])
      /\ attempt' = [attempt EXCEPT ![c] = @ + 1]
      /\ UNCHANGED <<connected, sendSeq, pending, results, pc, type, seq, acked, value,
                     answers, alone>>
  BY DEF Resend, tables
<1>2. k \in Command /\ k.seq = seq[c] /\ k.type = type[c]
  BY <1>1 DEF CallInv, Command
<1>3. /\ acks' \subseteq Seqs /\ taken' \in [Callers -> BOOLEAN]
      /\ atStation' \subseteq Command
      /\ \A d \in Callers : d # c => taken'[d] = taken[d]
      /\ taken[c] => taken'[c]
      /\ acks' = acks \/ (acks' = acks \cup {k.seq} /\ taken'[c])
      /\ atStation' = atStation
           \/ (~taken[c] /\ atStation' = atStation \cup {k} /\ taken'[c])
  BY <1>1, <1>2, SendPacketEffect
<1>4. \A u \in Unanswered' : u \in Unanswered \/ u = k
  BY <1>1, <1>3 DEF Unanswered
<1> HIDE DEF k
<1>11. TypeOK'
  <2>1. attempt' \in [Callers -> 0 .. MaxRetries]
    BY <1>1
  <2>2. QED BY <1>1, <1>3, <2>1
<1>12. CallInv' /\ TablesHoldWaiting' /\ OwnResultWhenAlone' /\ AnswerGivenOnce'
  BY <1>1 DEF CallInv, TablesHoldWaiting, OwnResultWhenAlone, AnswerGivenOnce
<1>13. AcksInv'
  <2> SUFFICES ASSUME NEW n \in acks' PROVE \E d \in Callers : seq'[d] = n /\ taken'[d]
    BY DEF AcksInv
  <2>1. CASE n \in acks
    <3>1. PICK d \in Callers : seq[d] = n /\ taken[d]
      BY <2>1 DEF AcksInv
    <3>2. taken'[d]
      BY <1>3, <3>1
    <3>3. QED BY <1>1, <3>1, <3>2
  <2>2. CASE n \notin acks
    BY <1>1, <1>2, <1>3, <2>2
  <2>3. QED BY <2>1, <2>2
<1>14. OnceInv'
  <2>1. \A d \in Callers : d # c => seq[d] # k.seq
    BY <1>1, <1>2 DEF CallInv
  <2>2. CASE taken[c]
    BY <1>1, <1>2, <1>3, <2>1, <2>2, OnceSend
  <2>3. CASE ~taken[c]
    <3>1. \A u \in Unanswered : u.seq # k.seq
      BY <1>2, <2>3 DEF OnceInv
    <3>2. \A d \in Callers : value[d] # k.seq
      BY <1>1, <1>2, <2>3 DEF OnceInv
    <3>3. \A d \in Callers : d # c =>
            seq[d] # k.seq /\ seq'[d] = seq[d] /\ (pc'[d] = "idle" <=> pc[d] = "idle")
                           /\ taken'[d] = taken[d]
      BY <1>1, <1>3, <2>1
    <3>4. UNCHANGED <<answers, value>> /\ seq'[c] = k.seq
      BY <1>1, <1>2
    <3> HIDE DEF IInv, TypeOK
    <3>5. TypeOK /\ OnceInv
      BY DEF IInv
    <3>6. QED BY <1>2, <1>3, <3>1, <3>2, <3>3, <3>4, <3>5, OnceSend
  <2>4. QED BY <2>2, <2>3
<1>15. AloneInv'
  BY <1>1, <1>2, <1>4 DEF AloneInv
<1>16. AckedWasTaken'
  BY <1>1, <1>3 DEF AckedWasTaken
<1>17. QED BY <1>11, <1>12, <1>13, <1>14, <1>15, <1>16

LEMMA KeepalivePreserves ==
  ASSUME IInv, Keepalive
  PROVE  IInv'
<1>1. sendSeq' \in Seqs
  BY NextRange DEF IInv, TypeOK, Keepalive
<1>2. TypeOK'
  BY <1>1 DEF IInv, TypeOK, Keepalive, tables, callVars, stationVars
<1>3. CallInv' /\ AcksInv' /\ OnceInv' /\ AloneInv'
  BY DEF IInv, CallInv, AcksInv, OnceInv, AloneInv, Active, Unanswered, Keepalive, callVars,
         stationVars
<1>4. AckedWasTaken' /\ TablesHoldWaiting' /\ OwnResultWhenAlone' /\ AnswerGivenOnce'
  BY DEF IInv, AckedWasTaken, TablesHoldWaiting, OwnResultWhenAlone, AnswerGivenOnce, Active,
         Keepalive, tables, callVars, stationVars
<1>5. QED BY <1>2, <1>3, <1>4 DEF IInv

-----------------------------------------------------------------------------
(* Waiting. *)

\* Commands stay in one place when callers only leave.
LEMMA OnceLeave ==
  ASSUME TypeOK, CallInv, OnceInv, UNCHANGED <<atStation, answers>>,
         \A d \in Callers :
           /\ value'[d] \in {value[d], NoSeq}
           /\ \/ seq'[d] = seq[d] /\ taken'[d] = taken[d] /\ (Active(d)' <=> Active(d))
              \/ seq'[d] = NoSeq /\ ~Active(d)'
  PROVE  OnceInv'
<1>1. \A u \in Unanswered : u.seq \in Seqs /\ u.seq # NoSeq
  <2>1. \A u \in Unanswered : u \in Command
    BY DEF TypeOK, Unanswered
  <2>2. QED BY <2>1, Numbers DEF Command
<1>2. Unanswered' = Unanswered
  BY DEF Unanswered
<1>3. (\A u \in Unanswered, d \in Callers :
         value[d] # u.seq /\ (seq[d] = u.seq => taken[d]))'
  BY <1>1, <1>2 DEF OnceInv
<1>4. (\A d, e \in Callers : Active(d) /\ value[e] = seq[d] => taken[d])'
  BY DEF OnceInv, CallInv
<1>5. QED BY <1>3, <1>4 DEF OnceInv

\* Every way out of a call, provided it leaves no entry of the caller behind and takes
\* none of another type.
LEMMA ReturnPreserves ==
  ASSUME IInv, NEW c \in Callers, Active(c), Return(c),
         UNCHANGED <<connected, sendSeq, atStation, answers>>,
         pending' \in [Seqs -> Callers \cup {NoCaller}],
         results' \in [Types -> Callers \cup {NoCaller}],
         \A s \in Seqs : pending'[s] # c /\ pending'[s] \in {pending[s], NoCaller},
         \A t \in Types : results'[t] # c /\ results'[t] \in {results[t], NoCaller},
         \A t \in Types : t # type[c] => results'[t] = results[t]
  PROVE  IInv'
<1> USE Numbers, Nobody DEF IInv, TypeOK, Active
<1>1. /\ acks' = acks \ {seq[c]}
      /\ pc' = [pc EXCEPT ![c] = "idle"]
      /\ type' = [type EXCEPT ![c] = NoType]
      /\ seq' = [seq EXCEPT ![c] = NoSeq]
      /\ attempt' = [attempt EXCEPT ![c] = 0]
      /\ acked' = [acked EXCEPT ![c] = FALSE]
      /\ value' = [value EXCEPT ![c] = NoSeq]
      /\ taken' = [taken EXCEPT ![c] = FALSE]
      /\ alone' = [alone EXCEPT ![c] = FALSE]
  BY DEF Return
<1>2. TypeOK'
  <2>1. attempt' \in [Callers -> 0 .. MaxRetries]
    BY <1>1
  <2>2. /\ pc' \in [Callers -> {"idle", "ack", "result", "expired"}]
        /\ type' \in [Callers -> Types \cup {NoType}]
        /\ seq' \in [Callers -> Seqs \cup {NoSeq}]
        /\ value' \in [Callers -> Seqs \cup {NoSeq}]
    BY <1>1
  <2>3. /\ acked' \in [Callers -> BOOLEAN] /\ taken' \in [Callers -> BOOLEAN]
        /\ alone' \in [Callers -> BOOLEAN]
    BY <1>1
  <2>4. QED BY <1>1, <2>1, <2>2, <2>3
<1>3. CallInv'
  BY <1>1 DEF CallInv
<1>4. AcksInv'
  <2> SUFFICES ASSUME NEW n \in acks' PROVE \E d \in Callers : seq'[d] = n /\ taken'[d]
    BY DEF AcksInv
  <2>1. PICK d \in Callers : seq[d] = n /\ taken[d]
    BY <1>1 DEF AcksInv
  <2>2. d # c
    BY <1>1, <2>1
  <2>3. QED BY <1>1, <2>1, <2>2
<1>5. OnceInv'
  <2>1. \A d \in Callers :
          /\ value'[d] \in {value[d], NoSeq}
          /\ \/ seq'[d] = seq[d] /\ taken'[d] = taken[d] /\ (Active(d)' <=> Active(d))
             \/ seq'[d] = NoSeq /\ ~Active(d)'
    BY <1>1
  <2> HIDE DEF IInv, TypeOK, Active
  <2>2. TypeOK /\ CallInv /\ OnceInv
    BY DEF IInv
  <2>3. QED BY <2>1, <2>2, OnceLeave
<1>6. AloneInv'
  <2>1. Unanswered' = Unanswered
    BY DEF Unanswered
  <2>2. \A d \in Callers : alone'[d] => d # c /\ alone[d] /\ type[d] # NoType
    BY <1>1 DEF CallInv
  <2>3. QED BY <1>1, <2>1, <2>2 DEF AloneInv
<1>7. AckedWasTaken' /\ AnswerGivenOnce'
  BY <1>1 DEF AckedWasTaken, AnswerGivenOnce
<1>8. TablesHoldWaiting'
  BY <1>1 DEF TablesHoldWaiting
<1>9. OwnResultWhenAlone'
  <2>1. \A d \in Callers : alone'[d] => d # c /\ alone[d] /\ type[d] # type[c] /\ type[d] \in Types
    BY <1>1 DEF AloneInv, CallInv
  <2>2. QED BY <1>1, <2>1 DEF OwnResultWhenAlone
<1>10. QED BY <1>2, <1>3, <1>4, <1>5, <1>6, <1>7, <1>8, <1>9

\* A caller goes on waiting, in another state.
LEMMA WaitPreserves ==
  ASSUME IInv, NEW c \in Callers, Active(c), pc[c] = "ack" => acked[c],
         NEW to \in {"result", "expired"}, pc' = [pc EXCEPT ![c] = to],
         UNCHANGED <<connected, sendSeq, pending, results, type, seq, attempt, acked, value,
                     taken, atStation, acks, answers, alone>>,
         pc[c] # "expired"
  PROVE  IInv'
<1> USE Numbers, Nobody DEF IInv, TypeOK, Active
<1>1. TypeOK'
  OBVIOUS
<1>2. CallInv' /\ AcksInv'
  BY DEF CallInv, AcksInv
<1>3. OnceInv'
  BY OnceLeave
<1>4. AloneInv'
  BY DEF AloneInv, Unanswered
<1>5. AckedWasTaken' /\ AnswerGivenOnce' /\ TablesHoldWaiting' /\ OwnResultWhenAlone'
  BY DEF AckedWasTaken, AnswerGivenOnce, TablesHoldWaiting, OwnResultWhenAlone
<1>6. QED BY <1>1, <1>2, <1>3, <1>4, <1>5

\* TablesHoldWaiting, read from the caller's side.
LEMMA Registered ==
  ASSUME TablesHoldWaiting, NEW c \in Callers
  PROVE  /\ \A s \in Seqs : pending[s] = c => pc[c] = "ack" /\ seq[c] = s /\ ~acked[c]
         /\ \A t \in Types : results[t] = c => Active(c) /\ type[c] = t /\ value[c] = NoSeq
  BY Nobody DEF TablesHoldWaiting

LEMMA ResumePreserves ==
  ASSUME IInv, NEW c \in Callers, Resume(c)
  PROVE  IInv'
<1> USE Numbers, Nobody DEF IInv, TypeOK, Active, tables, callVars, stationVars
<1>1. CASE Acknowledged(c)
  <2>1. CASE value[c] = NoSeq
    <3>1. AwaitResult(c)
      BY <1>1, <2>1 DEF Acknowledged, Proceed
    <3>2. QED BY <1>1, <3>1, WaitPreserves DEF Acknowledged, AwaitResult
  <2>2. CASE value[c] # NoSeq
    <3>1. Return(c)
      BY <1>1, <2>2 DEF Acknowledged, Proceed
    <3>2. \A s \in Seqs : pending[s] # c
      BY <1>1 DEF Acknowledged, TablesHoldWaiting
    <3>3. \A t \in Types : results[t] # c
      BY <2>2 DEF TablesHoldWaiting
    <3>4. QED BY <1>1, <3>1, <3>2, <3>3, ReturnPreserves DEF Acknowledged
  <2>3. QED BY <2>1, <2>2
<1>2. CASE Resend(c)
  BY <1>2, ResendPreserves
<1>3. CASE AckTimeout(c)
  <2>1. type[c] \in Types /\ seq[c] \in Seqs
    BY <1>3 DEF AckTimeout, CallInv
  <2>2. \A s \in Seqs : pending'[s] # c /\ pending'[s] \in {pending[s], NoCaller}
    BY <1>3, <2>1 DEF AckTimeout, TablesHoldWaiting
  <2>3. \A t \in Types : results'[t] # c /\ results'[t] \in {results[t], NoCaller}
    BY <1>3, <2>1 DEF AckTimeout, TablesHoldWaiting
  <2>4. QED BY <1>3, <2>1, <2>2, <2>3, ReturnPreserves DEF AckTimeout
<1>4. CASE ResultReturned(c)
  <2>1. \A s \in Seqs : pending[s] # c
    BY <1>4, Registered DEF ResultReturned
  <2>2. \A t \in Types : results[t] # c
    BY <1>4 DEF ResultReturned, TablesHoldWaiting
  <2>3. QED BY <1>4, <2>1, <2>2, ReturnPreserves DEF ResultReturned
<1>5. CASE ResultTimer(c)
  BY <1>5, WaitPreserves DEF ResultTimer
<1>6. CASE ResultTimeout(c)
  <2>1. type[c] \in Types
    BY <1>6 DEF ResultTimeout, CallInv
  <2>2. \A s \in Seqs : pending[s] # c
    BY <1>6, Registered DEF ResultTimeout
  <2>3. \A t \in Types : results'[t] # c /\ results'[t] \in {results[t], NoCaller}
    BY <1>6, <2>1 DEF ResultTimeout, TablesHoldWaiting
  <2>4. QED BY <1>6, <2>1, <2>2, <2>3, ReturnPreserves DEF ResultTimeout
<1>7. QED BY <1>1, <1>2, <1>3, <1>4, <1>5, <1>6 DEF Resume

-----------------------------------------------------------------------------
(* The receive loop and the network. *)

LEMMA HandleAckPreserves ==
  ASSUME IInv, HandleAck
  PROVE  IInv'
<1> USE Numbers, Nobody DEF IInv, TypeOK, Active, stationVars
<1>1. PICK S \in SUBSET acks \ {{}} :
        /\ acks' \in {acks, acks \ S}
        /\ acked' = [c \in Callers |-> acked[c] \/ \E s \in S : pending[s] = c]
        /\ pending' = [s \in Seqs |-> IF s \in S THEN NoCaller ELSE pending[s]]
  BY DEF HandleAck
<1>2. UNCHANGED <<connected, sendSeq, results, pc, type, seq, attempt, value, taken, atStation,
                  answers, alone>>
  BY DEF HandleAck
<1>3. \A c \in Callers : acked'[c] => acked[c] \/ \E s \in S : pending[s] = c
  BY <1>1
<1>4. \A c \in Callers, s \in S : pending[s] = c => Active(c) /\ seq[c] = s /\ s \in acks
  BY <1>1, Registered
<1>5. acked' \in [Callers -> BOOLEAN]
  BY <1>1
<1>6. TypeOK'
  BY <1>1, <1>2, <1>5
<1>7. CallInv'
  BY <1>2, <1>3, <1>4 DEF CallInv
<1>8. AcksInv'
  BY <1>1, <1>2 DEF AcksInv
<1>9. OnceInv' /\ AloneInv'
  BY <1>2 DEF OnceInv, AloneInv, Unanswered
<1>10. AckedWasTaken'
  <2> SUFFICES ASSUME NEW c \in Callers, acked'[c], ~acked[c] PROVE taken[c]
    BY <1>2 DEF AckedWasTaken
  <2>1. PICK s \in S : pending[s] = c
    BY <1>3
  <2>2. Active(c) /\ seq[c] = s /\ s \in acks
    BY <1>4, <2>1
  <2>3. PICK d \in Callers : seq[d] = s /\ taken[d]
    BY <2>2 DEF AcksInv
  <2>4. QED BY <2>2, <2>3 DEF CallInv
<1>11. TablesHoldWaiting'
  <2>1. ASSUME NEW s \in Seqs, pending'[s] # NoCaller
        PROVE  LET c == pending'[s] IN pc'[c] = "ack" /\ seq'[c] = s /\ ~acked'[c]
    <3> DEFINE c == pending[s]
    <3>1. s \notin S /\ pending'[s] = c /\ c \in Callers
      BY <1>1, <2>1
    <3>2. pc[c] = "ack" /\ seq[c] = s /\ ~acked[c]
      BY <2>1, <3>1, Registered
    <3>3. ~acked'[c]
      BY <1>3, <1>4, <3>1, <3>2
    <3>4. QED BY <1>2, <3>1, <3>2, <3>3
  <2>2. QED BY <1>2, <2>1 DEF TablesHoldWaiting
<1>12. OwnResultWhenAlone' /\ AnswerGivenOnce'
  BY <1>2 DEF OwnResultWhenAlone, AnswerGivenOnce
<1>13. QED BY <1>6, <1>7, <1>8, <1>9, <1>10, <1>11, <1>12

LEMMA DispatchResultPreserves ==
  ASSUME IInv, DispatchResult
  PROVE  IInv'
<1> USE Numbers, Nobody DEF IInv, TypeOK, Active, stationVars
<1> DEFINE k == Head(answers)
           c == results[k.type]
<1>1. /\ answers # <<>> /\ answers' = Tail(answers)
      /\ UNCHANGED <<connected, sendSeq, pending, pc, type, seq, attempt, acked, taken,
                     atStation, acks, alone>>
  BY DEF DispatchResult
<1>2. Resolve(k)
  BY DEF DispatchResult
<1>3. /\ answers' \in Seq(Command) /\ k \in Command
      /\ 1 \in DOMAIN answers /\ k = answers[1]
      /\ \A i \in DOMAIN answers' :
           i \in Nat /\ i + 1 \in DOMAIN answers /\ i + 1 # 1 /\ answers'[i] = answers[i + 1]
  BY <1>1, TailAnswers
<1>4. k \in Unanswered /\ k.type \in Types /\ k.seq \in Seqs
  BY <1>3 DEF Unanswered, Command
<1>5. \A u \in Unanswered' : u \in Unanswered /\ u.seq # k.seq
  BY <1>1, <1>3 DEF Unanswered, OnceInv
<1>6. \/ UNCHANGED <<results, value>>
         /\ (c \in Callers => pc[c] = "expired")
      \/ /\ c \in Callers
         /\ results' = [results EXCEPT ![k.type] = NoCaller]
         /\ value' = IF pc[c] = "expired" THEN value ELSE [value EXCEPT ![c] = k.seq]
  BY <1>2, <1>4 DEF Resolve
<1>7. c \in Callers => Active(c) /\ type[c] = k.type /\ value[c] = NoSeq
  BY <1>4, Registered
<1> HIDE DEF k, c
<1>8. TypeOK'
  BY <1>1, <1>3, <1>4, <1>6
<1>9. CallInv'
  BY <1>1, <1>6, <1>7 DEF CallInv
<1>10. AcksInv' /\ AckedWasTaken'
  BY <1>1 DEF AcksInv, AckedWasTaken
<1>11. \A d \in Callers : value'[d] = value[d] \/ value'[d] = k.seq
  BY <1>4, <1>6
<1>12. OnceInv'
  <2>1. (\A u \in Unanswered, d \in Callers :
           value[d] # u.seq /\ (seq[d] = u.seq => taken[d]))'
    BY <1>1, <1>5, <1>11 DEF OnceInv
  <2>2. (\A u \in atStation, i \in DOMAIN answers : u.seq # answers[i].seq)'
    BY <1>1, <1>3 DEF OnceInv
  <2>3. (\A i, j \in DOMAIN answers : i # j => answers[i].seq # answers[j].seq)'
    BY <1>1, <1>3 DEF OnceInv
  <2>4. (\A d, e \in Callers : Active(d) /\ value[e] = seq[d] => taken[d])'
    BY <1>1, <1>4, <1>11 DEF OnceInv
  <2>5. QED BY <1>1, <2>1, <2>2, <2>3, <2>4 DEF OnceInv
<1>13. AloneInv'
  BY <1>1, <1>5 DEF AloneInv
<1>14. TablesHoldWaiting'
  <2>1. \A t \in Types : results'[t] # NoCaller =>
          results'[t] = results[t] /\ (t # k.type \/ UNCHANGED <<results, value>>)
    BY <1>4, <1>6
  <2>2. QED BY <1>1, <1>6, <1>7, <2>1 DEF TablesHoldWaiting
<1>15. OwnResultWhenAlone'
  <2> SUFFICES ASSUME NEW d \in Callers, alone[d]
               PROVE  /\ value'[d] \in {NoSeq, seq[d]}
                      /\ pc[d] \in {"ack", "result"} /\ value'[d] = NoSeq
                           => results'[type[d]] = d
    BY <1>1 DEF OwnResultWhenAlone
  <2>1. type[d] = k.type => k.seq = seq[d]
    BY <1>4 DEF AloneInv
  <2>2. type[d] \in Types
    BY DEF CallInv
  <2>3. /\ value[d] \in {NoSeq, seq[d]}
        /\ pc[d] \in {"ack", "result"} /\ value[d] = NoSeq => results[type[d]] = d
    BY DEF OwnResultWhenAlone
  <2>4. CASE type[d] # k.type
    <3>1. value'[d] = value[d] /\ results'[type[d]] = results[type[d]]
      BY <1>6, <1>7, <2>2, <2>4
    <3>2. QED BY <2>3, <3>1
  <2>5. CASE type[d] = k.type
    <3>1. value'[d] \in {NoSeq, seq[d]}
      BY <1>11, <2>1, <2>3, <2>5
    <3>2. ASSUME pc[d] \in {"ack", "result"}, value[d] = NoSeq PROVE value'[d] # NoSeq
      <4>1. c = d
        BY <2>3, <2>5, <3>2 DEF c
      <4>2. QED BY <1>4, <1>6, <3>2, <4>1
    <3>3. value[d] # NoSeq => value'[d] # NoSeq
      BY <1>4, <1>6
    <3>4. QED BY <3>1, <3>2, <3>3
  <2>6. QED BY <2>4, <2>5
<1>16. AnswerGivenOnce'
  <2>1. \A d \in Callers : value[d] # k.seq
    BY <1>4 DEF OnceInv
  <2>2. \A d, e \in Callers : value'[d] = k.seq /\ value'[e] = k.seq => d = e
    BY <1>4, <1>6, <2>1
  <2>3. QED BY <1>11, <2>1, <2>2 DEF AnswerGivenOnce
<1>17. QED BY <1>8, <1>9, <1>10, <1>12, <1>13, <1>14, <1>15, <1>16

LEMMA DisconnectPreserves ==
  ASSUME IInv, Disconnect
  PROVE  IInv'
<1> USE Numbers, Nobody DEF IInv, TypeOK, Active, tables, callVars
<1>1. answers' \in Seq(Command) /\ DOMAIN answers' = {} /\ Unanswered' = {}
  BY DEF Disconnect, Unanswered
<1>2. connected' \in BOOLEAN
  BY DEF Disconnect
<1>3. TypeOK'
  BY <1>1, <1>2 DEF Disconnect
<1>4. CallInv' /\ AcksInv' /\ AloneInv'
  BY <1>1 DEF Disconnect, CallInv, AcksInv, AloneInv
<1>5. OnceInv'
  BY <1>1 DEF Disconnect, OnceInv
<1>6. AckedWasTaken' /\ TablesHoldWaiting' /\ OwnResultWhenAlone' /\ AnswerGivenOnce'
  BY DEF Disconnect, AckedWasTaken, TablesHoldWaiting, OwnResultWhenAlone, AnswerGivenOnce
<1>7. QED BY <1>3, <1>4, <1>5, <1>6

LEMMA StationAnswersPreserves ==
  ASSUME IInv, StationAnswers
  PROVE  IInv'
<1> USE Numbers, Nobody DEF IInv, TypeOK, Active, tables, callVars
<1>1. PICK k \in atStation :
        /\ atStation' = atStation \ {k}
        /\ answers' \in {answers, Append(answers, k)}
  BY DEF StationAnswers
<1>2. UNCHANGED <<connected, sendSeq, pending, results, pc, type, seq, attempt, acked, value,
                  taken, acks, alone>>
  BY DEF StationAnswers
<1>3. /\ answers' \in Seq(Command)
      /\ \A i \in DOMAIN answers' :
           \/ i \in DOMAIN answers /\ answers'[i] = answers[i]
           \/ i = Len(answers) + 1 /\ answers'[i] = k
  <2>1. CASE answers' = Append(answers, k)
    BY <2>1, AppendAnswers
  <2>2. CASE answers' = answers
    BY <2>2
  <2>3. QED BY <1>1, <2>1, <2>2
<1>4. \A u \in Unanswered' : u \in Unanswered
  BY <1>1, <1>3 DEF Unanswered
<1>5. TypeOK'
  BY <1>1, <1>2, <1>3
<1>6. CallInv' /\ AcksInv'
  BY <1>2 DEF CallInv, AcksInv
<1>7. OnceInv'
  <2>1. (\A u \in Unanswered, d \in Callers :
           value[d] # u.seq /\ (seq[d] = u.seq => taken[d]))'
    BY <1>2, <1>4 DEF OnceInv
  <2>2. (\A u, l \in atStation : u.seq = l.seq => u = l)'
    BY <1>1 DEF OnceInv
  <2>3. (\A u \in atStation, i \in DOMAIN answers : u.seq # answers[i].seq)'
    BY <1>1, <1>3 DEF OnceInv
  <2>4. (\A i, j \in DOMAIN answers : i # j => answers[i].seq # answers[j].seq)'
    BY <1>1, <1>3 DEF OnceInv
  <2>5. (\A d, e \in Callers : Active(d) /\ value[e] = seq[d] => taken[d])'
    BY <1>2 DEF OnceInv
  <2>6. QED BY <2>1, <2>2, <2>3, <2>4, <2>5 DEF OnceInv
<1>8. AloneInv'
  BY <1>2, <1>4 DEF AloneInv
<1>9. AckedWasTaken' /\ TablesHoldWaiting' /\ OwnResultWhenAlone' /\ AnswerGivenOnce'
  BY <1>2 DEF AckedWasTaken, TablesHoldWaiting, OwnResultWhenAlone, AnswerGivenOnce
<1>10. QED BY <1>5, <1>6, <1>7, <1>8, <1>9

LEMMA LoseAckPreserves ==
  ASSUME IInv, LoseAck
  PROVE  IInv'
<1> USE DEF IInv, TypeOK, Active, tables, callVars, stationVars
<1>1. acks' \subseteq acks
  BY DEF LoseAck
<1>2. TypeOK'
  BY <1>1 DEF LoseAck
<1>3. CallInv' /\ AcksInv' /\ OnceInv' /\ AloneInv'
  BY <1>1 DEF LoseAck, CallInv, AcksInv, OnceInv, AloneInv, Unanswered
<1>4. AckedWasTaken' /\ TablesHoldWaiting' /\ OwnResultWhenAlone' /\ AnswerGivenOnce'
  BY DEF LoseAck, AckedWasTaken, TablesHoldWaiting, OwnResultWhenAlone, AnswerGivenOnce
<1>5. QED BY <1>2, <1>3, <1>4

-----------------------------------------------------------------------------
LEMMA InvInit == Init => IInv
<1> SUFFICES ASSUME Init PROVE IInv
  OBVIOUS
<1> USE Numbers, Nobody DEF Init, Active
<1>1. answers \in Seq(Command) /\ DOMAIN answers = {} /\ Unanswered = {}
  BY DEF Unanswered
<1>2. sendSeq \in Seqs /\ attempt \in [Callers -> 0 .. MaxRetries]
  BY DEF Seqs
<1>3. TypeOK
  BY <1>1, <1>2 DEF TypeOK
<1>4. CallInv /\ AcksInv /\ OnceInv /\ AloneInv
  BY <1>1 DEF CallInv, AcksInv, OnceInv, AloneInv
<1>5. AckedWasTaken /\ TablesHoldWaiting /\ OwnResultWhenAlone /\ AnswerGivenOnce
  BY DEF AckedWasTaken, TablesHoldWaiting, OwnResultWhenAlone, AnswerGivenOnce
<1>6. QED BY <1>3, <1>4, <1>5 DEF IInv

LEMMA InvStep == IInv /\ [Next]_vars => IInv'
<1> SUFFICES ASSUME IInv, [Next]_vars PROVE IInv'
  OBVIOUS
<1>1. CASE UNCHANGED vars
  <2> USE <1>1 DEF IInv, vars, tables, callVars, stationVars, Active
  <2>1. TypeOK'
    BY DEF TypeOK
  <2>2. CallInv' /\ AcksInv' /\ OnceInv' /\ AloneInv'
    BY DEF CallInv, AcksInv, OnceInv, AloneInv, Unanswered
  <2>3. AckedWasTaken' /\ TablesHoldWaiting' /\ OwnResultWhenAlone' /\ AnswerGivenOnce'
    BY DEF AckedWasTaken, TablesHoldWaiting, OwnResultWhenAlone, AnswerGivenOnce
  <2>4. QED BY <2>1, <2>2, <2>3
<1>2. QED
  BY <1>1, SendCommandPreserves, ResumePreserves, KeepalivePreserves, HandleAckPreserves,
     DispatchResultPreserves, DisconnectPreserves, StationAnswersPreserves, LoseAckPreserves
     DEF Next, Over

LEMMA Invariance == Spec => []IInv
  BY InvInit, InvStep, PTL DEF Spec

\* Every variable keeps its type; no call sends more than MaxRetries packets.
THEOREM TypeCorrect == Spec => []TypeOK
<1>1. IInv => TypeOK
  BY DEF IInv
<1>2. QED BY <1>1, Invariance, PTL

\* No call takes a lost packet for acknowledged: an ACK counts only for the caller whose
\* packet the station took, for every number space that outlives the calls.
THEOREM AckedTaken == Spec => []AckedWasTaken
<1>1. IInv => AckedWasTaken
  BY DEF IInv
<1>2. QED BY <1>1, Invariance, PTL

\* No way out of send_command leaves an entry behind.
THEOREM NoEntryLeft == Spec => []TablesHoldWaiting
<1>1. IInv => TablesHoldWaiting
  BY DEF IInv
<1>2. QED BY <1>1, Invariance, PTL

\* A call that shares its type with no other gets its own answer.
THEOREM OwnAnswer == Spec => []OwnResultWhenAlone
<1>1. IInv => OwnResultWhenAlone
  BY DEF IInv
<1>2. QED BY <1>1, Invariance, PTL

\* No answer reaches two callers.
THEOREM OneTaker == Spec => []AnswerGivenOnce
<1>1. IInv => AnswerGivenOnce
  BY DEF IInv
<1>2. QED BY <1>1, Invariance, PTL

-----------------------------------------------------------------------------
(* Calls end. *)

\* A call that goes on leaves the others alone and has fewer steps left.
LEMMA OwnStep ==
  ASSUME TypeOK, NEW c \in Callers, Resume(c)
  PROVE  /\ StepsLeft(c)' < StepsLeft(c) /\ StepsLeft(c)' <= StepsLeft(c)
         /\ \A d \in Callers \ {c} : pc'[d] = pc[d] /\ attempt'[d] = attempt[d]
<1>1. /\ MaxRetries \in Nat /\ attempt[c] \in Nat /\ attempt[c] <= MaxRetries
      /\ pc \in [Callers -> {"idle", "ack", "result", "expired"}]
      /\ attempt \in [Callers -> 0 .. MaxRetries]
  BY Numbers DEF TypeOK
<1>2. pc[c] = "ack" => StepsLeft(c) = 3 + MaxRetries - attempt[c]
  BY DEF StepsLeft
<1>3. 3 <= 3 + MaxRetries - attempt[c]
  BY <1>1
<1>4. CASE Return(c) /\ pc[c] \in {"ack", "result", "expired"}
  <2>1. pc'[c] = "idle" /\ \A d \in Callers \ {c} : pc'[d] = pc[d] /\ attempt'[d] = attempt[d]
    BY <1>1, <1>4 DEF Return
  <2>2. StepsLeft(c)' = 0
    BY <2>1 DEF StepsLeft
  <2>3. StepsLeft(c) \in {1, 2, 3 + MaxRetries - attempt[c]}
    BY <1>4 DEF StepsLeft
  <2> QED BY <1>1, <1>3, <2>1, <2>2, <2>3
<1>5. CASE AwaitResult(c) /\ pc[c] = "ack"
  <2>1. pc'[c] = "result" /\ \A d \in Callers \ {c} : pc'[d] = pc[d] /\ attempt'[d] = attempt[d]
    BY <1>1, <1>5 DEF AwaitResult
  <2>2. StepsLeft(c)' = 2
    BY <2>1 DEF StepsLeft
  <2> QED BY <1>1, <1>2, <1>3, <1>5, <2>1, <2>2
<1>6. CASE Resend(c)
  <2>1. pc[c] = "ack" /\ pc' = pc /\ attempt' = [attempt EXCEPT ![c] = @ + 1]
    BY <1>6 DEF Resend
  <2>2. pc'[c] = "ack" /\ attempt'[c] = attempt[c] + 1
    BY <1>1, <2>1
  <2>3. StepsLeft(c)' = 3 + MaxRetries - attempt'[c]
    BY <2>2 DEF StepsLeft
  <2>4. StepsLeft(c)' < StepsLeft(c) /\ StepsLeft(c)' <= StepsLeft(c)
    BY <1>1, <1>2, <2>1, <2>2, <2>3
  <2> QED BY <1>1, <2>1, <2>4
<1>7. CASE ResultTimer(c)
  <2>1. pc[c] = "result" /\ pc' = [pc EXCEPT ![c] = "expired"] /\ attempt' = attempt
    BY <1>7 DEF ResultTimer
  <2>2. StepsLeft(c) = 2 /\ StepsLeft(c)' = 1
    BY <1>1, <2>1 DEF StepsLeft
  <2> QED BY <1>1, <2>1, <2>2
<1> QED
  BY <1>4, <1>5, <1>6, <1>7
     DEF Resume, Acknowledged, Proceed, AckTimeout, ResultReturned, ResultTimeout

LEMMA RunDownStep ==
  IInv /\ [Next]_vars =>
    \A c \in Callers :
      /\ Active(c) => 0 < StepsLeft(c) /\ StepsLeft(c)' <= StepsLeft(c)
      /\ Resume(c) => StepsLeft(c)' < StepsLeft(c)
<1> SUFFICES ASSUME IInv, [Next]_vars, NEW c \in Callers, Active(c)
             PROVE  0 < StepsLeft(c) /\ StepsLeft(c)' <= StepsLeft(c)
  BY OwnStep DEF IInv
<1>1. TypeOK /\ MaxRetries \in Nat /\ attempt[c] \in Nat /\ attempt[c] <= MaxRetries
  BY Numbers DEF IInv, TypeOK
<1>2. StepsLeft(c) \in {1, 2, 3 + MaxRetries - attempt[c]}
  BY DEF Active, StepsLeft, IInv, TypeOK
<1>3. StepsLeft(c) \in Int /\ 0 < StepsLeft(c)
  BY <1>1, <1>2
<1>4. ASSUME pc'[c] = pc[c], attempt'[c] = attempt[c]
      PROVE  StepsLeft(c)' <= StepsLeft(c)
  <2>1. StepsLeft(c)' = StepsLeft(c)
    BY <1>4 DEF StepsLeft
  <2> QED BY <1>3, <2>1
<1>5. CASE Resume(c)
  BY <1>1, <1>3, <1>5, OwnStep
<1>6. ASSUME NEW d \in Callers, d # c, Resume(d)
      PROVE  StepsLeft(c)' <= StepsLeft(c)
  BY <1>1, <1>4, <1>6, OwnStep
<1>7. ASSUME NEW d \in Callers, NEW t \in Types, SendCommand(d, t)
      PROVE  StepsLeft(c)' <= StepsLeft(c)
  <2>1. d # c /\ pc'[c] = pc[c] /\ attempt'[c] = attempt[c]
    BY <1>1, <1>7 DEF SendCommand, TypeOK
  <2> QED BY <1>4, <2>1
<1>8. CASE UNCHANGED <<pc, attempt>>
  BY <1>3, <1>4, <1>8
<1>9. \/ UNCHANGED <<pc, attempt>>
      \/ \E d \in Callers : Resume(d) \/ \E t \in Types : SendCommand(d, t)
  BY DEF Next, Keepalive, HandleAck, DispatchResult, Disconnect, StationAnswers, LoseAck,
         Over, callVars, vars
<1>10. StepsLeft(c)' <= StepsLeft(c)
  BY <1>5, <1>6, <1>7, <1>8, <1>9
<1> QED BY <1>3, <1>10

\* A call returns after less than MaxRetries + 3 steps of its own, whatever others do
\* meanwhile, disconnect() included (send_command).
THEOREM RunDown == Spec => CallsRunDown
<1>1. IInv /\ [Next]_vars =>
        [\A c \in Callers :
           /\ Active(c) => 0 < StepsLeft(c) /\ StepsLeft(c)' <= StepsLeft(c)
           /\ Resume(c) => StepsLeft(c)' < StepsLeft(c)]_vars
  BY RunDownStep
<1>2. QED BY <1>1, Invariance, PTL DEF Spec, CallsRunDown
=============================================================================
