----------------------------- MODULE P2PCommand -----------------------------
(***************************************************************************)
(* send_command() of one P2PSession (lib/p2p/session.py) and the station   *)
(* that answers.  Callers run concurrently on one session.  Each waits for *)
(* the ACK of its packet, sending it again, and then for the result.  The  *)
(* ACK is found by sequence number, the result by COMMAND TYPE.            *)
(*                                                                         *)
(* Packets to the station are lost or sent again, ACKs are lost, late,     *)
(* duplicated and reordered.  (A packet that is late is one whose ACK and  *)
(* answer are late.)  Answers come over the DATA channel, which is FIFO    *)
(* (see P2PReceiver).  Timeouts are external and may fire at any moment.   *)
(***************************************************************************)
EXTENDS Integers, Sequences

CONSTANTS
  Callers,       \* tasks that use the session
  NoCaller,      \* no task: an empty slot of a table
  Types,         \* command types
  Uses,          \* the command types each caller sends
  NoType,        \* the type of a call that has not begun
  SeqMod,        \* sequence numbers: 2^16 in the code
  MaxRetries     \* COMMAND_MAX_RETRIES

ASSUME CommandAssumption ==
  /\ NoCaller \notin Callers
  /\ NoType \notin Types
  /\ Uses \in [Callers -> SUBSET Types]
  /\ SeqMod \in Nat \ {0}
  /\ MaxRetries \in Nat \ {0}

Seqs == 0 .. SeqMod - 1
NoSeq == -1          \* None

VARIABLES
  connected,     \* _connected
  sendSeq,       \* _send_sequence
  pending,       \* _pending_commands: the caller whose ack_future a sequence number finds
  results,       \* _command_results: the caller whose result_future a type finds
  pc,            \* a caller: "idle", "ack", "result" or "expired" (its future is cancelled)
  type, seq,     \* of the caller's command
  attempt,       \* packets sent for it
  acked,         \* its ack_future is done
  value,         \* its result_future: the sequence number of the command that was
                 \* answered, or NoSeq
  taken,         \* external: a packet of it has reached the station
  atStation,     \* external: commands the station may still answer
  acks,          \* external: ACKs on their way
  answers,       \* external: the DATA channel from the station
  alone          \* history: no other command of this type could be answered since
                 \* the caller sent its own

callVars == <<pc, type, seq, attempt, acked, value>>
tables == <<pending, results>>
stationVars == <<taken, atStation>>
vars == <<connected, sendSeq, tables, callVars, stationVars, acks, answers, alone>>

Command == [seq : Seqs, type : Types]

Init ==
  /\ connected = TRUE
  /\ sendSeq = 0
  /\ pending = [s \in Seqs |-> NoCaller]
  /\ results = [t \in Types |-> NoCaller]
  /\ pc = [c \in Callers |-> "idle"]
  /\ type = [c \in Callers |-> NoType]
  /\ seq = [c \in Callers |-> NoSeq]
  /\ attempt = [c \in Callers |-> 0]
  /\ acked = [c \in Callers |-> FALSE]
  /\ value = [c \in Callers |-> NoSeq]
  /\ taken = [c \in Callers |-> FALSE]
  /\ alone = [c \in Callers |-> FALSE]
  /\ atStation = {} /\ acks = {} /\ answers = <<>>

-----------------------------------------------------------------------------
(* Sending *)

NextSequence(s) == (s + 1) % SeqMod

Active(c) == pc[c] # "idle"

\* Commands the station has and those whose answer is on its way.
Unanswered == atStation \cup {answers[i] : i \in DOMAIN answers}

\* External: 2^16 numbers last longer than a call and the packets it leaves.
NotInUse(s) ==
  /\ \A k \in Unanswered : k.seq # s
  /\ \A c \in Callers : s \notin {seq[c], value[c]}

\* A command of this type may still be answered.
MayBeAnswered(t) ==
  \/ \E c \in Callers : type[c] = t
  \/ \E k \in Unanswered : k.type = t

\* _send_to: nothing is sent without a socket, and a packet may be lost.  The
\* station acknowledges every copy it gets and takes the command once.
SendPacket(c, k, first) ==
  \/ /\ connected
     /\ acks' = acks \cup {k.seq}
     /\ taken' = [taken EXCEPT ![c] = TRUE]
     /\ atStation' = IF first THEN atStation \cup {k} ELSE atStation
  \/ UNCHANGED <<acks, stationVars>>

\* Both futures are registered before the first packet leaves.
SendCommand(c, t) ==
  /\ ~Active(c) /\ t \in Uses[c]
  /\ connected
  /\ NotInUse(sendSeq)
  /\ sendSeq' = NextSequence(sendSeq)
  /\ pending' = [pending EXCEPT ![sendSeq] = c]
  /\ results' = [results EXCEPT ![t] = c]
  /\ pc' = [pc EXCEPT ![c] = "ack"]
  /\ type' = [type EXCEPT ![c] = t]
  /\ seq' = [seq EXCEPT ![c] = sendSeq]
  /\ attempt' = [attempt EXCEPT ![c] = 1]
  /\ SendPacket(c, [seq |-> sendSeq, type |-> t], TRUE)
  /\ alone' = [d \in Callers |-> IF d = c THEN ~MayBeAnswered(t)
                                 ELSE alone[d] /\ type[d] # t]
  /\ UNCHANGED <<connected, acked, value, answers>>

\* _keepalive_loop and _send_gateway_info take numbers too; nobody waits for
\* the ACK.
Keepalive ==
  /\ connected
  /\ NotInUse(sendSeq)
  /\ sendSeq' = NextSequence(sendSeq)
  /\ UNCHANGED <<connected, tables, callVars, stationVars, acks, answers, alone>>

-----------------------------------------------------------------------------
(* Waiting *)

\* The call's locals are gone.  An ACK that is still on its way will find no entry
\* (TablesHoldWaiting), so the model drops it.
Return(c) ==
  /\ acks' = acks \ {seq[c]}
  /\ pc' = [pc EXCEPT ![c] = "idle"]
  /\ type' = [type EXCEPT ![c] = NoType]
  /\ seq' = [seq EXCEPT ![c] = NoSeq]
  /\ attempt' = [attempt EXCEPT ![c] = 0]
  /\ acked' = [acked EXCEPT ![c] = FALSE]
  /\ value' = [value EXCEPT ![c] = NoSeq]
  /\ taken' = [taken EXCEPT ![c] = FALSE]
  /\ alone' = [alone EXCEPT ![c] = FALSE]

AwaitResult(c) ==
  /\ pc' = [pc EXCEPT ![c] = "result"]
  /\ UNCHANGED <<type, seq, attempt, acked, value, taken, acks, alone>>

\* A result that is there already is returned at once.
Proceed(c) == IF value[c] = NoSeq THEN AwaitResult(c) ELSE Return(c)

\* (If the timer fires first, one more copy leaves before the future is looked at;
\* the station has the command already.)
Acknowledged(c) ==
  /\ pc[c] = "ack"
  /\ acked[c]
  /\ Proceed(c)
  /\ UNCHANGED <<connected, sendSeq, tables, atStation, answers>>

\* Mutant: no limit.
MutantUncounted(c) ==
  /\ pc[c] = "ack" /\ ~acked[c]
  /\ SendPacket(c, [seq |-> seq[c], type |-> type[c]], ~taken[c])
  /\ UNCHANGED <<connected, sendSeq, tables, callVars, answers, alone>>

Resend(c) ==
  /\ pc[c] = "ack" /\ ~acked[c]
  /\ attempt[c] < MaxRetries
  /\ SendPacket(c, [seq |-> seq[c], type |-> type[c]], ~taken[c])
  /\ attempt' = [attempt EXCEPT ![c] = @ + 1]
  /\ UNCHANGED <<connected, sendSeq, tables, pc, type, seq, acked, value, answers, alone>>

\* The last attempt: pop(seq) and pop(command_type), whoever's entries they are,
\* and also on an ACK that comes in the last instant.
AckTimeout(c) ==
  /\ pc[c] = "ack"
  /\ attempt[c] = MaxRetries
  /\ pending' = [pending EXCEPT ![seq[c]] = NoCaller]
  /\ results' = [results EXCEPT ![type[c]] = NoCaller]
  /\ Return(c)
  /\ UNCHANGED <<connected, sendSeq, atStation, answers>>

ResultReturned(c) ==
  /\ pc[c] = "result"
  /\ value[c] # NoSeq
  /\ Return(c)
  /\ UNCHANGED <<connected, sendSeq, tables, atStation, answers>>

\* The timer cancels the future; the caller finds out when it runs again.
ResultTimer(c) ==
  /\ pc[c] = "result"
  /\ pc' = [pc EXCEPT ![c] = "expired"]
  /\ UNCHANGED <<connected, sendSeq, tables, type, seq, attempt, acked, value,
                 stationVars, acks, answers, alone>>

ResultTimeout(c) ==
  /\ pc[c] = "expired"
  /\ results' = [results EXCEPT ![type[c]] = NoCaller]
  /\ Return(c)
  /\ UNCHANGED <<connected, sendSeq, pending, atStation, answers>>

-----------------------------------------------------------------------------
(* The receive loop *)

\* Mutant: an ACK also stands for the numbers before it.
MutantCumulative ==
  /\ connected
  /\ \E s \in acks :
       /\ acks' = acks \ {s}
       /\ acked' = [c \in Callers |-> acked[c] \/ \E n \in 0 .. s : pending[n] = c]
       /\ pending' = [n \in Seqs |-> IF n <= s THEN NoCaller ELSE pending[n]]
  /\ UNCHANGED <<connected, sendSeq, results, pc, type, seq, attempt, value, stationVars,
                 answers, alone>>

\* One ACK packet names several sequence numbers; a copy may follow.
HandleAck ==
  /\ connected
  /\ \E S \in SUBSET acks \ {{}} :
       /\ acks' \in {acks, acks \ S}
       /\ acked' = [c \in Callers |-> acked[c] \/ \E s \in S : pending[s] = c]
       /\ pending' = [s \in Seqs |-> IF s \in S THEN NoCaller ELSE pending[s]]
  /\ UNCHANGED <<connected, sendSeq, results, pc, type, seq, attempt, value, stationVars,
                 answers, alone>>

\* Mutants: the entry is kept; it is found whatever the type; an answer that
\* the station sends again is dispatched again.
MutantKeepEntry ==
  /\ connected /\ answers # <<>>
  /\ answers' = Tail(answers)
  /\ LET c == results[Head(answers).type]
     IN value' = IF c = NoCaller THEN value ELSE [value EXCEPT ![c] = Head(answers).seq]
  /\ UNCHANGED <<connected, sendSeq, tables, pc, type, seq, attempt, acked, stationVars,
                 acks, alone>>

MutantAnyType ==
  /\ connected /\ answers # <<>>
  /\ answers' = Tail(answers)
  /\ \E t \in Types :
       LET c == results[t]
       IN /\ c # NoCaller
          /\ results' = [results EXCEPT ![t] = NoCaller]
          /\ value' = [value EXCEPT ![c] = Head(answers).seq]
  /\ UNCHANGED <<connected, sendSeq, pending, pc, type, seq, attempt, acked, stationVars,
                 acks, alone>>

\* Without an entry the message is an event.  A future that is cancelled loses it.
Resolve(answer) ==
  LET c == results[answer.type]
  IN IF c = NoCaller THEN UNCHANGED <<results, value>>
     ELSE /\ results' = [results EXCEPT ![answer.type] = NoCaller]
          /\ value' = IF pc[c] = "expired" THEN value
                      ELSE [value EXCEPT ![c] = answer.seq]

MutantTwice ==
  /\ connected /\ answers # <<>>
  /\ answers' \in {answers, Tail(answers)}
  /\ Resolve(Head(answers))
  /\ UNCHANGED <<connected, sendSeq, pending, pc, type, seq, attempt, acked, stationVars,
                 acks, alone>>

\* _dispatch_message, for a DATA message.
DispatchResult ==
  /\ connected /\ answers # <<>>
  /\ answers' = Tail(answers)
  /\ Resolve(Head(answers))
  /\ UNCHANGED <<connected, sendSeq, pending, pc, type, seq, attempt, acked, stationVars,
                 acks, alone>>

\* disconnect() fails no future: the callers run into their timeouts.  Nothing is
\* received any more.
Disconnect ==
  /\ connected
  /\ connected' = FALSE
  /\ acks' = {} /\ atStation' = {} /\ answers' = <<>>
  /\ UNCHANGED <<sendSeq, tables, callVars, taken, alone>>

-----------------------------------------------------------------------------
(* The station and the network (external) *)

\* The station answers late, in any order, or never.
StationAnswers ==
  /\ connected
  /\ \E k \in atStation :
       /\ atStation' = atStation \ {k}
       /\ answers' \in {answers, Append(answers, k)}
  /\ UNCHANGED <<connected, sendSeq, tables, callVars, taken, acks, alone>>

LoseAck ==
  /\ connected
  /\ \E s \in acks : acks' = acks \ {s}
  /\ UNCHANGED <<connected, sendSeq, tables, callVars, stationVars, answers, alone>>

\* The session is over and nobody waits for it.
Over ==
  /\ ~connected
  /\ \A c \in Callers : ~Active(c)
  /\ UNCHANGED vars

Resume(c) ==
  \/ Acknowledged(c) \/ Resend(c) \/ AckTimeout(c)
  \/ ResultReturned(c) \/ ResultTimer(c) \/ ResultTimeout(c)

Next ==
  \/ \E c \in Callers : Resume(c) \/ \E t \in Types : SendCommand(c, t)
  \/ Keepalive
  \/ HandleAck \/ DispatchResult \/ Disconnect
  \/ StationAnswers \/ LoseAck
  \/ Over

Spec == Init /\ [][Next]_vars

\* A caller that waits has a timer, and the event loop runs it.  Nothing is
\* assumed of the station, the network or the receive loop.
Fairness == \A c \in Callers : WF_vars(Resume(c))

FairSpec == Spec /\ Fairness

-----------------------------------------------------------------------------
TypeOK ==
  /\ connected \in BOOLEAN
  /\ sendSeq \in Seqs
  /\ pending \in [Seqs -> Callers \cup {NoCaller}]
  /\ results \in [Types -> Callers \cup {NoCaller}]
  /\ pc \in [Callers -> {"idle", "ack", "result", "expired"}]
  /\ type \in [Callers -> Types \cup {NoType}]
  /\ seq \in [Callers -> Seqs \cup {NoSeq}]
  /\ attempt \in [Callers -> 0 .. MaxRetries]
  /\ acked \in [Callers -> BOOLEAN]
  /\ value \in [Callers -> Seqs \cup {NoSeq}]
  /\ taken \in [Callers -> BOOLEAN]
  /\ alone \in [Callers -> BOOLEAN]
  /\ atStation \subseteq Command /\ acks \subseteq Seqs
  /\ answers \in Seq(Command)

\* A caller whose ack_future is done has sent a packet that the station took,
\* although numbers come round and ACKs are late, duplicated and out of order.
AckedWasTaken == \A c \in Callers : acked[c] => taken[c]

\* The tables hold only callers that still wait: every way out of send_command
\* clears what the call registered, also when another call replaced its entry.
TablesHoldWaiting ==
  /\ \A s \in Seqs :
       LET c == pending[s]
       IN c # NoCaller => pc[c] = "ack" /\ seq[c] = s /\ ~acked[c]
  /\ \A t \in Types :
       LET c == results[t]
       IN c # NoCaller => Active(c) /\ type[c] = t /\ value[c] = NoSeq

\* A caller that no other command of its type could disturb gets the answer to its
\* own command, and as long as it waits that answer finds it: other types, losses,
\* late and repeated packets and the order of answers never matter.
OwnResultWhenAlone ==
  \A c \in Callers : alone[c] =>
    /\ value[c] \in {NoSeq, seq[c]}
    /\ pc[c] \in {"ack", "result"} /\ value[c] = NoSeq => results[type[c]] = c

\* No two callers are given the same answer, even if they wait for one type.
AnswerGivenOnce ==
  \A c, d \in Callers : c # d /\ value[c] # NoSeq => value[c] # value[d]

\* What send_command's docstring says: it returns the result of its command.
\* Calls that share a type break it.
OwnResult == \A c \in Callers : value[c] \in {NoSeq, seq[c]}

\* A call has less than MaxRetries + 3 steps of its own before it, each of them leaves
\* it fewer, and nothing puts its end off: not another call that replaces its entries,
\* not late answers, a full channel or disconnect() (send_command, its two waits).
StepsLeft(c) ==
  CASE pc[c] = "idle" -> 0
    [] pc[c] = "expired" -> 1
    [] pc[c] = "result" -> 2
    [] pc[c] = "ack" -> 3 + MaxRetries - attempt[c]
CallsRunDown ==
  [][\A c \in Callers :
       /\ Active(c) => 0 < StepsLeft(c) /\ StepsLeft(c)' <= StepsLeft(c)
       /\ Resume(c) => StepsLeft(c)' < StepsLeft(c)]_vars

\* Every call returns, whatever the station does, also after disconnect().
EveryCallReturns == \A c \in Callers : Active(c) ~> ~Active(c)

-----------------------------------------------------------------------------
(* Why the above hold: the inductive invariant of P2PCommandProofs. *)

\* A caller has a number, a type and perhaps a result while its call lasts, and no
\* two have the same number.
CallInv ==
  /\ \A c \in Callers :
       /\ Active(c) <=> seq[c] # NoSeq
       /\ Active(c) <=> type[c] # NoType
       /\ ~Active(c) => value[c] = NoSeq /\ ~acked[c] /\ ~alone[c]
  /\ \A c, d \in Callers : c # d /\ Active(c) => seq[c] # seq[d]

AcksInv == \A s \in acks : \E c \in Callers : seq[c] = s /\ taken[c]

\* A command that the station has taken is in one place: with the station, on the
\* channel or with a caller.  One that it has not taken is nowhere.
OnceInv ==
  /\ \A k \in Unanswered, c \in Callers :
       value[c] # k.seq /\ (seq[c] = k.seq => taken[c])
  /\ \A k, l \in atStation : k.seq = l.seq => k = l
  /\ \A k \in atStation, i \in DOMAIN answers : k.seq # answers[i].seq
  /\ \A i, j \in DOMAIN answers : i # j => answers[i].seq # answers[j].seq
  /\ \A c, d \in Callers : Active(c) /\ value[d] = seq[c] => taken[c]

\* Whatever may still be answered with the type of an undisturbed call is its own.
AloneInv ==
  \A c \in Callers : alone[c] =>
    /\ \A d \in Callers : d # c => type[d] # type[c]
    /\ \A k \in Unanswered : k.type = type[c] => k.seq = seq[c]

IInv ==
  /\ TypeOK /\ CallInv /\ AcksInv /\ OnceInv /\ AloneInv
  /\ AckedWasTaken /\ TablesHoldWaiting /\ OwnResultWhenAlone /\ AnswerGivenOnce
=============================================================================
