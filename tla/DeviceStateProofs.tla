-------------------------- MODULE DeviceStateProofs ---------------------------
(***************************************************************************)
(* Theorems about DeviceState, for all values of its constants.  A step of *)
(* DeviceState is a step of CloudApi as far as the client's variables go   *)
(* (CloudStep), so what is proved of CloudApi alone holds of the system.   *)
(***************************************************************************)
EXTENDS DeviceState, TLAPS

\* Every disjunct of CloudNext, with its task.
LEMMA CloudCases ==
  ASSUME CloudNext
  PROVE  \/ BeginLogin \/ Relogin \/ Kicked
         \/ \E t \in Tasks :
              \/ Begin(t) \/ Wake(t) \/ Send(t) \/ Lost(t) \/ Retry(t) \/ Unauthorized(t)
              \/ Fail(t) \/ Received(t) \/ Garbled(t) \/ LoginServe(t) \/ LoginReceive(t)
              \/ LoginRefused(t) \/ LoginLost(t)
              \/ \E a \in {"ok", "refused", "401"} : Serve(t, a)
  BY DEF CloudNext, Step

-----------------------------------------------------------------------------
(* The types of the client. *)

\* A call waits to be tried again only if it has an attempt left.
CallOK(c) == c \in Call /\ (c.pc = "backoff" => c.attempt < Attempts - 1)

CloudOK == CloudTypeOK /\ \A t \in Tasks : CallOK(call[t])

LEMMA IdleOK == CallOK(Idle)
  BY CloudAssumption DEF CallOK, Call, Idle

\* A new record for one call keeps the types.
LEMMA GotoOK ==
  ASSUME CloudOK, NEW t \in Tasks, NEW c, CallOK(c), Goto(t, c),
         session' \in Nat, nameless' \subseteq Nat, token' \in Nat,
         sharedKey' \in Nat \cup {DefaultKey}
  PROVE  CloudOK'
  BY DEF CloudOK, CloudTypeOK, Goto, CallOK

\* What the steps make of a record.
Pcs == {"idle", "limited", "ready", "asked", "answered", "login", "loggedIn"}

LEMMA CallFields ==
  ASSUME NEW c
  PROVE  c \in Call <=>
           /\ c = [pc |-> c.pc, attempt |-> c.attempt, session |-> c.session,
                   answer |-> c.answer, after |-> c.after, since |-> c.since]
           /\ c.pc \in Pcs \cup {"backoff"}
           /\ c.attempt \in 0 .. Attempts - 1
           /\ c.session \in Nat
           /\ c.answer \in {"none", "ok", "refused", "401"}
           /\ c.after \in {"retry", "request", "end"}
           /\ c.since \in BOOLEAN
  BY DEF Call, Pcs

LEMMA PcOK ==
  ASSUME NEW c, CallOK(c), NEW pc \in Pcs
  PROVE  CallOK([c EXCEPT !.pc = pc])
  BY CallFields DEF CallOK, Pcs, Call

\* The record of a call that goes on without a request under way, at attempt n.
Resume(pc, n) == [Idle EXCEPT !.pc = pc, !.attempt = n]

LEMMA ResumeFields ==
  ASSUME NEW pc \in Pcs \cup {"backoff"}, NEW n \in 0 .. Attempts - 1
  PROVE  /\ Resume(pc, n) \in Call
         /\ Resume(pc, n).pc = pc /\ Resume(pc, n).attempt = n
         /\ Resume(pc, n).after = "retry" /\ Resume(pc, n).session = 0
  BY DEF Resume, Idle, Call, Pcs

LEMMA RetryOK ==
  ASSUME NEW c, CallOK(c)
  PROVE  /\ CallOK(Resume("login", c.attempt))
         /\ c.attempt # Attempts - 1 =>
              /\ c.attempt + 1 \in 0 .. Attempts - 1
              /\ CallOK(Resume("backoff", c.attempt))
              /\ CallOK(Resume("ready", c.attempt + 1))
              /\ CallOK([c EXCEPT !.pc = "ready", !.attempt = @ + 1])
<1>1. c \in Call /\ c.attempt \in 0 .. Attempts - 1
  BY DEF CallOK, Call
<1>2. CallOK(Resume("login", c.attempt))
  BY <1>1, ResumeFields DEF CallOK, Pcs
<1>3. ASSUME c.attempt # Attempts - 1
      PROVE  /\ c.attempt + 1 \in 0 .. Attempts - 1
             /\ CallOK(Resume("backoff", c.attempt))
             /\ CallOK(Resume("ready", c.attempt + 1))
             /\ CallOK([c EXCEPT !.pc = "ready", !.attempt = @ + 1])
  <2>1. c.attempt < Attempts - 1 /\ c.attempt + 1 \in 0 .. Attempts - 1
    BY <1>1, <1>3, CloudAssumption
  <2>2. CallOK(Resume("backoff", c.attempt)) /\ CallOK(Resume("ready", c.attempt + 1))
    BY <1>1, <2>1, ResumeFields DEF CallOK, Pcs
  <2>3. CallOK([c EXCEPT !.pc = "ready", !.attempt = @ + 1])
    BY <1>1, <2>1 DEF CallOK, Call
  <2> QED BY <2>1, <2>2, <2>3
<1> QED
  BY <1>2, <1>3

LEMMA OvertakenOK ==
  ASSUME NEW c, CallOK(c)
  PROVE  CallOK(Overtaken(c))
  BY DEF CallOK, Call, Overtaken

LEMMA AfterLoginOK ==
  ASSUME NEW c, CallOK(c)
  PROVE  CallOK(AfterLogin(c))
<1>1. CallOK([Idle EXCEPT !.pc = "ready"])
  BY IdleOK, PcOK DEF Pcs
<1>2. c.after \in {"retry", "request", "end"}
  BY DEF CallOK, Call
<1> QED
  BY <1>1, <1>2, IdleOK, RetryOK DEF AfterLogin, Resume

LEMMA NewLoginOK ==
  /\ CallOK([Idle EXCEPT !.pc = "login", !.after = "request"])
  /\ \A n \in 0 .. Attempts - 1 :
       CallOK([Idle EXCEPT !.pc = "login", !.after = "end", !.attempt = n])
  /\ \A pc \in {"limited", "ready"} : CallOK([Idle EXCEPT !.pc = pc])
<1>1. CallOK([Idle EXCEPT !.pc = "login", !.after = "request"])
  BY IdleOK DEF CallOK, Call
<1>2. ASSUME NEW n \in 0 .. Attempts - 1
      PROVE  CallOK([Idle EXCEPT !.pc = "login", !.after = "end", !.attempt = n])
  BY IdleOK DEF CallOK, Call
<1> QED
  BY <1>1, <1>2, IdleOK, PcOK DEF Pcs

LEMMA RequestOK ==
  ASSUME NEW c, CallOK(c), NEW n \in Nat, NEW a \in {"ok", "refused", "401"}
  PROVE  /\ CallOK([c EXCEPT !.pc = "asked", !.session = n, !.since = FALSE])
         /\ CallOK([c EXCEPT !.pc = "answered", !.answer = a])
         /\ CallOK([c EXCEPT !.pc = "loggedIn", !.session = n])
  BY DEF CallOK, Call

\* Type correctness of the client.
THEOREM CloudTypes == CloudSpec => []CloudOK
<1>1. CloudInit => CloudOK
  BY IdleOK DEF CloudInit, CloudOK, CloudTypeOK, CallOK, KeyOf
<1>2. CloudOK /\ [CloudNext]_cloudVars => CloudOK'
  <2> SUFFICES ASSUME CloudOK, [CloudNext]_cloudVars
               PROVE  CloudOK'
    OBVIOUS
  <2>0. CASE UNCHANGED cloudVars
    BY <2>0 DEF CloudOK, CloudTypeOK, cloudVars
  <2>a. /\ session \in Nat /\ nameless \subseteq Nat /\ token \in Nat
        /\ sharedKey \in Nat \cup {DefaultKey}
        /\ \A t \in Tasks : CallOK(call[t]) /\ call[t].attempt \in 0 .. Attempts - 1
    BY DEF CloudOK, CloudTypeOK, CallOK, Call
  <2>1. CASE BeginLogin
    BY <2>1, <2>a, NewLoginOK, GotoOK, CloudAssumption DEF BeginLogin
  <2>2. CASE Relogin
    <3> DEFINE n == IF call[POLL].after = "end" THEN call[POLL].attempt + 1 ELSE 0
    <3>1. n \in 0 .. Attempts - 1
      BY <2>2, <2>a, CloudAssumption DEF Relogin, LastAttempt
    <3>2. CallOK([Idle EXCEPT !.pc = "login", !.after = "end", !.attempt = n])
      BY <3>1, NewLoginOK
    <3> QED BY <2>2, <2>a, <3>2, GotoOK, CloudAssumption DEF Relogin
  <2>3. CASE Kicked
    BY <2>3 DEF Kicked, CloudOK, CloudTypeOK
  <2>4. ASSUME NEW t \in Tasks, Begin(t)
        PROVE  CloudOK'
    BY <2>4, <2>a, NewLoginOK, GotoOK DEF Begin
  <2>5. ASSUME NEW t \in Tasks, Wake(t) \/ Lost(t)
        PROVE  CloudOK'
    BY <2>5, <2>a, PcOK, RetryOK, GotoOK DEF Wake, Lost, Again, LastAttempt, Resume, Pcs
  <2>6. ASSUME NEW t \in Tasks, Retry(t)
        PROVE  CloudOK'
    <3>1. call[t].attempt # Attempts - 1
      BY <2>6, <2>a, CloudAssumption DEF Retry, At, CallOK
    <3> QED BY <2>6, <2>a, <3>1, RetryOK, GotoOK DEF Retry
  <2>7. ASSUME NEW t \in Tasks, LoginLost(t)
        PROVE  CloudOK'
    BY <2>7, <2>a, IdleOK, RetryOK, GotoOK DEF LoginLost, LastAttempt, Resume
  <2>8. ASSUME NEW t \in Tasks,
               \/ Send(t) \/ Unauthorized(t)
               \/ \E a \in {"ok", "refused", "401"} : Serve(t, a)
        PROVE  CloudOK'
    BY <2>8, <2>a, RequestOK, RetryOK, GotoOK DEF Send, Unauthorized, Again, Resume, Serve
  <2>9. ASSUME NEW t \in Tasks,
               Fail(t) \/ Received(t) \/ Garbled(t) \/ LoginRefused(t)
        PROVE  CloudOK'
    BY <2>9, <2>a, IdleOK, GotoOK DEF Fail, Received, Garbled, LoginRefused
  <2>10. ASSUME NEW t \in Tasks, LoginServe(t)
         PROVE  CloudOK'
    <3>1. session' = session + 1 /\ session' \in Nat /\ nameless' \subseteq Nat
      BY <2>10, <2>a DEF LoginServe
    <3>2. CallOK([call[t] EXCEPT !.pc = "loggedIn", !.session = session + 1])
      BY <2>a, <3>1, RequestOK
    <3> QED BY <2>10, <2>a, <3>1, <3>2, GotoOK DEF LoginServe
  <2>11. ASSUME NEW t \in Tasks, LoginReceive(t)
         PROVE  CloudOK'
    <3>1. \A u \in Tasks : CallOK(AfterLogin(call[u])) /\ CallOK(Overtaken(call[u]))
      BY <2>a, OvertakenOK, AfterLoginOK
    <3>2. \A u \in Tasks : CallOK(call'[u])
      BY <2>11, <3>1 DEF LoginReceive
    <3>3. call' \in [Tasks -> Call]
      BY <2>11, <3>1 DEF LoginReceive, CallOK
    <3>4. call[t].session \in Nat /\ KeyOf(call[t].session) \in Nat \cup {DefaultKey}
      BY <2>a DEF CallOK, Call, KeyOf
    <3> QED BY <2>11, <2>a, <3>2, <3>3, <3>4 DEF LoginReceive, CloudOK, CloudTypeOK
  <2> QED
    BY <2>0, <2>1, <2>2, <2>3, <2>4, <2>5, <2>6, <2>7, <2>8, <2>9, <2>10, <2>11, CloudCases
<1> QED
  BY <1>1, <1>2, PTL DEF CloudSpec

-----------------------------------------------------------------------------
(* Token and key. *)

\* Request c is not on its way, or was sent under token n or overtaken by a login.
Fresh(c, n) == c.pc \in {"asked", "answered"} /\ ~c.since => c.session = n

\* Token and key are of one login, and a request that is on its way was sent under it
\* unless a login has completed since.  No session is newer than the cloud's newest:
\* one that is opened has not been named before.
KeyInv ==
  /\ sharedKey = KeyOf(token)
  /\ token <= session
  /\ \A t \in Tasks : Fresh(call[t], token) /\ call[t].session <= session

LEMMA GotoFresh ==
  ASSUME CloudOK, KeyInv, NEW t \in Tasks, NEW c, Goto(t, c), Fresh(c, token),
         c.session <= session, UNCHANGED <<session, nameless, token, sharedKey>>
  PROVE  KeyInv'
  BY DEF CloudOK, CloudTypeOK, KeyInv, Goto, KeyOf

LEMMA KeyStep ==
  ASSUME CloudOK, KeyInv, [CloudNext]_cloudVars
  PROVE  KeyInv'
<1>0. CASE UNCHANGED cloudVars
  BY <1>0 DEF KeyInv, KeyOf, cloudVars
<1>a. \A t \in Tasks : /\ CallOK(call[t]) /\ call[t] \in Call /\ Fresh(call[t], token)
                      /\ call[t].session \in Nat /\ call[t].session <= session
  BY DEF CloudOK, CallOK, KeyInv, Call
<1>b. /\ session \in Nat /\ token \in Nat /\ token <= session /\ sharedKey = KeyOf(token)
      /\ call \in [Tasks -> Call]
  BY DEF CloudOK, CloudTypeOK, KeyInv
<1>1. CASE BeginLogin \/ Relogin
  <2>1. \A n : /\ Fresh([Idle EXCEPT !.pc = "login", !.after = "request"], token)
               /\ Fresh([Idle EXCEPT !.pc = "login", !.after = "end", !.attempt = n], token)
               /\ [Idle EXCEPT !.pc = "login", !.after = "request"].session <= session
               /\ [Idle EXCEPT !.pc = "login", !.after = "end", !.attempt = n].session
                    <= session
    BY <1>b DEF Fresh, Idle
  <2> QED BY <1>1, <2>1, GotoFresh, CloudAssumption DEF BeginLogin, Relogin
<1>2. CASE Kicked
  BY <1>2, <1>a, <1>b DEF Kicked, KeyInv, KeyOf
<1>3. ASSUME NEW t \in Tasks,
             \/ Begin(t) \/ Wake(t) \/ Lost(t) \/ Retry(t) \/ Unauthorized(t) \/ Fail(t)
             \/ Received(t) \/ Garbled(t) \/ LoginRefused(t) \/ LoginLost(t)
      PROVE  KeyInv'
  <2> DEFINE c == call'[t]
  <2>1. call' = [call EXCEPT ![t] = c] /\ UNCHANGED <<session, nameless, token, sharedKey>>
    BY <1>3, <1>b DEF Goto, Again, Begin, Wake, Lost, Retry, Unauthorized, Fail,
                      Received, Garbled, LoginRefused, LoginLost
  <2>2. c.pc \notin {"asked", "answered"} /\ c.session <= session
    <3>0. /\ call[t] \in Call /\ call[t].session <= session /\ Idle.pc = "idle"
          /\ Idle.session <= session
      BY <1>a, <1>b DEF Idle
    <3>1. CASE Begin(t)
      BY <1>b, <3>0, <3>1 DEF Goto, Begin, Idle
    <3>2. CASE Fail(t) \/ Received(t) \/ Garbled(t) \/ LoginRefused(t)
      BY <1>b, <3>0, <3>2 DEF Goto, Fail, Received, Garbled, LoginRefused
    <3>3. CASE Wake(t) \/ Retry(t)
      BY <1>b, <3>0, <3>3 DEF Goto, Wake, Retry, Call
    <3>4. CASE Lost(t) \/ Unauthorized(t)
      BY <1>b, <3>0, <3>4 DEF Goto, Again, Lost, Unauthorized, Idle
    <3>5. CASE LoginLost(t)
      BY <1>b, <3>0, <3>5 DEF Goto, LoginLost, Idle
    <3> QED BY <1>3, <3>1, <3>2, <3>3, <3>4, <3>5
  <2> QED BY <2>1, <2>2, GotoFresh DEF Fresh, Goto
<1>4. ASSUME NEW t \in Tasks, Send(t)
      PROVE  KeyInv'
  <2> DEFINE c == [call[t] EXCEPT !.pc = "asked", !.session = token, !.since = FALSE]
  <2>1. Fresh(c, token) /\ c.session <= session
    BY <1>a, <1>b DEF Fresh, Call
  <2> QED BY <1>4, <2>1, GotoFresh DEF Send
<1>5. ASSUME NEW t \in Tasks, NEW a \in {"ok", "refused", "401"}, Serve(t, a)
      PROVE  KeyInv'
  <2> DEFINE c == [call[t] EXCEPT !.pc = "answered", !.answer = a]
  <2>1. Fresh(c, token) /\ c.session <= session
    BY <1>5, <1>a DEF Serve, At, Fresh, Call
  <2> QED BY <1>5, <2>1, GotoFresh DEF Serve
<1>6. ASSUME NEW t \in Tasks, LoginServe(t)
      PROVE  KeyInv'
  <2> DEFINE c == [call[t] EXCEPT !.pc = "loggedIn", !.session = session + 1]
  <2>1. /\ call' = [call EXCEPT ![t] = c] /\ session' = session + 1
        /\ UNCHANGED <<token, sharedKey>>
    BY <1>6 DEF LoginServe, Goto
  <2>2. c.pc = "loggedIn" /\ c.session = session + 1
    BY <1>a DEF Call
  <2>3. token \in nameless' <=> token \in nameless
    BY <1>6, <1>b DEF LoginServe
  <2>4. sharedKey' = KeyOf(token)'
    BY <1>b, <2>1, <2>3 DEF KeyOf
  <2>5. \A u \in Tasks : Fresh(call[u], token)' /\ call'[u].session <= session'
    BY <1>a, <1>b, <2>1, <2>2 DEF Fresh
  <2> QED BY <1>b, <2>1, <2>4, <2>5 DEF KeyInv
<1>7. ASSUME NEW t \in Tasks, LoginReceive(t)
      PROVE  KeyInv'
  <2>1. \A n : Fresh(AfterLogin(call[t]), n) /\ AfterLogin(call[t]).session <= session
    <3>1. call[t].after \in {"retry", "request", "end"}
      BY <1>a DEF Call
    <3>2. \A n : /\ Fresh(Idle, n) /\ Fresh([Idle EXCEPT !.pc = "ready"], n)
                 /\ Idle.session <= session
                 /\ [Idle EXCEPT !.pc = "ready"].session <= session
      BY <1>b DEF Fresh, Idle
    <3>3. \A n, m : /\ Fresh(Resume("ready", m), n)
                    /\ Resume("ready", m).session <= session
      BY <1>b DEF Fresh, Resume, Idle
    <3> QED BY <3>1, <3>2, <3>3 DEF AfterLogin, Resume
  <2>2. \A u \in Tasks : \A n :
          Fresh(Overtaken(call[u]), n) /\ Overtaken(call[u]).session <= session
    BY <1>a DEF Fresh, Overtaken, Call
  <2>3. /\ token' = call[t].session /\ UNCHANGED <<session, nameless>>
        /\ sharedKey' = KeyOf(token)'
    BY <1>7 DEF LoginReceive, KeyOf
  <2>4. \A u \in Tasks : Fresh(call[u], token)' /\ call'[u].session <= session'
    BY <1>7, <2>1, <2>2, <2>3 DEF LoginReceive, Fresh
  <2> QED BY <1>a, <2>3, <2>4 DEF KeyInv
<1> QED
  BY <1>0, <1>1, <1>2, <1>3, <1>4, <1>5, <1>6, <1>7, CloudCases

\* A response that cannot be decrypted belongs to a request that a login of another
\* task has overtaken, or to a session whose login named no key (login,
\* _decrypt_response), for any number of tasks and sessions.
THEOREM GarbledCorrect == CloudSpec => GarbledOnlyAfterLogin
<1>1. CloudInit => KeyInv
  BY DEF CloudInit, KeyInv, Fresh, Idle
<1>2. CloudOK /\ KeyInv /\ [CloudNext]_cloudVars => KeyInv'
  BY KeyStep
<1>3. KeyInv => [\A t \in Tasks :
                   Garbled(t) => call[t].since \/ call[t].session \in nameless]_cloudVars
  BY DEF KeyInv, Garbled, At, Fresh, KeyOf
<1> QED
  BY <1>1, <1>2, <1>3, CloudTypes, PTL DEF CloudSpec, GarbledOnlyAfterLogin

-----------------------------------------------------------------------------
(* Calls end. *)

\* The rank within an attempt, and the attempts left, without their CASEs.
LEMMA Left ==
  ASSUME NEW c \in Call
  PROVE  /\ c.pc = "idle" => StepsLeft(c) = 0
         /\ c.pc = "limited" => StepsLeft(c) = 8 * (2 * Attempts - 1 - c.attempt) + 7
         /\ c.pc = "ready" => StepsLeft(c) = 8 * (2 * Attempts - 1 - c.attempt) + 6
         /\ c.pc = "asked" => StepsLeft(c) = 8 * (2 * Attempts - 1 - c.attempt) + 5
         /\ c.pc = "answered" => StepsLeft(c) = 8 * (2 * Attempts - 1 - c.attempt) + 4
         /\ c.pc = "backoff" => StepsLeft(c) = 8 * (2 * Attempts - 1 - c.attempt) + 1
<1>1. /\ Rank["idle"] = 0 /\ Rank["limited"] = 7 /\ Rank["ready"] = 6 /\ Rank["asked"] = 5
      /\ Rank["answered"] = 4 /\ Rank["backoff"] = 1
  BY DEF Rank
<1>2. c.pc = "idle" => AttemptsLeft(c) = 0
  BY DEF AttemptsLeft
<1>3. c.pc \in {"limited", "ready", "asked", "answered", "backoff"}
         => AttemptsLeft(c) = 2 * Attempts - 1 - c.attempt
  BY DEF AttemptsLeft
<1> QED
  BY <1>1, <1>2, <1>3 DEF StepsLeft

LEMMA LoginLeft ==
  ASSUME NEW c \in Call, c.pc \in {"login", "loggedIn"}
  PROVE  /\ c.after = "request" => AttemptsLeft(c) = 2 * Attempts
         /\ c.after = "end" => AttemptsLeft(c) = Attempts - 1 - c.attempt
         /\ c.after = "retry" => AttemptsLeft(c) = 2 * Attempts - 1 - c.attempt
         /\ StepsLeft(c) = 8 * AttemptsLeft(c) + IF c.pc = "login" THEN 3 ELSE 2
<1>1. Rank["login"] = 3 /\ Rank["loggedIn"] = 2
  BY DEF Rank
<1> QED
  BY <1>1 DEF AttemptsLeft, StepsLeft

\* A call that is over is nearer to its end than one in progress.
LEMMA IdleIsLast ==
  ASSUME NEW c \in Call, c.pc # "idle"
  PROVE  StepsLeft(Idle) < StepsLeft(c)
<1>1. StepsLeft(Idle) = 0
  BY IdleOK, Left DEF CallOK, Idle
<1>2. c.attempt \in 0 .. Attempts - 1 /\ c.after \in {"retry", "request", "end"}
  BY DEF Call
<1>3. CASE c.pc \in {"login", "loggedIn"}
  BY <1>1, <1>2, <1>3, LoginLeft, CloudAssumption
<1>4. CASE c.pc \in {"limited", "ready", "asked", "answered", "backoff"}
  BY <1>1, <1>2, <1>4, Left, CloudAssumption
<1> QED
  BY <1>3, <1>4 DEF Call

Nearer(d, c) == StepsLeft(d) < StepsLeft(c)

\* The steps of a call, one by one: the record it has before and after.
LEMMA RequestNearer ==
  ASSUME NEW c, CallOK(c), NEW n \in Nat, NEW a \in {"ok", "refused", "401"}
  PROVE  /\ c.pc = "limited" => Nearer([c EXCEPT !.pc = "ready"], c)
         /\ c.pc = "ready" =>
              Nearer([c EXCEPT !.pc = "asked", !.session = n, !.since = FALSE], c)
         /\ c.pc = "asked" => Nearer([c EXCEPT !.pc = "answered", !.answer = a], c)
         /\ c.pc \in {"asked", "answered"} /\ c.attempt # Attempts - 1 =>
              Nearer(Resume("backoff", c.attempt), c)
         /\ c.pc = "backoff" => Nearer([c EXCEPT !.pc = "ready", !.attempt = @ + 1], c)
<1>0. c \in Call /\ c.attempt \in 0 .. Attempts - 1
  BY DEF CallOK, Call
<1> DEFINE ready == [c EXCEPT !.pc = "ready"]
           asked == [c EXCEPT !.pc = "asked", !.session = n, !.since = FALSE]
           answered == [c EXCEPT !.pc = "answered", !.answer = a]
           backoff == Resume("backoff", c.attempt)
           again == [c EXCEPT !.pc = "ready", !.attempt = @ + 1]
<1>1. ready \in Call /\ ready.pc = "ready" /\ ready.attempt = c.attempt
  BY <1>0 DEF Call
<1>2. asked \in Call /\ asked.pc = "asked" /\ asked.attempt = c.attempt
  BY <1>0 DEF Call
<1>3. answered \in Call /\ answered.pc = "answered" /\ answered.attempt = c.attempt
  BY <1>0 DEF Call
<1>4. backoff \in Call /\ backoff.pc = "backoff" /\ backoff.attempt = c.attempt
  BY <1>0, ResumeFields
<1>5. c.pc = "backoff" => /\ again \in Call /\ again.pc = "ready"
                          /\ again.attempt = c.attempt + 1
  <2>1. c.pc = "backoff" => c.attempt # Attempts - 1
    BY <1>0, CloudAssumption DEF CallOK
  <2>2. c.pc = "backoff" => again \in Call
    BY <2>1, RetryOK DEF CallOK
  <2> QED BY <1>0, <2>2 DEF Call
<1> HIDE DEF ready, asked, answered, backoff, again
<1>6. c.pc = "limited" => Nearer(ready, c)
  BY <1>0, <1>1, Left, CloudAssumption DEF Nearer
<1>7. c.pc = "ready" => Nearer(asked, c)
  BY <1>0, <1>2, Left, CloudAssumption DEF Nearer
<1>8. c.pc = "asked" => Nearer(answered, c)
  BY <1>0, <1>3, Left, CloudAssumption DEF Nearer
<1>9. c.pc \in {"asked", "answered"} => Nearer(backoff, c)
  BY <1>0, <1>4, Left, CloudAssumption DEF Nearer
<1>10. c.pc = "backoff" => Nearer(again, c)
  BY <1>0, <1>5, Left, CloudAssumption DEF Nearer
<1> QED
  BY <1>6, <1>7, <1>8, <1>9, <1>10 DEF ready, asked, answered, backoff, again

LEMMA LoginNearer ==
  ASSUME NEW c, CallOK(c), NEW n \in Nat
  PROVE  /\ c.pc = "answered" => Nearer(Resume("login", c.attempt), c)
         /\ c.pc = "login" => Nearer([c EXCEPT !.pc = "loggedIn", !.session = n], c)
         /\ c.pc \in {"login", "loggedIn"} /\ c.after = "retry" /\ c.attempt # Attempts - 1 =>
              Nearer(Resume("backoff", c.attempt), c)
         /\ c.pc = "loggedIn" => Nearer(AfterLogin(c), c)
<1>0. c \in Call /\ c.attempt \in 0 .. Attempts - 1 /\ c.after \in {"retry", "request", "end"}
  BY DEF CallOK, Call
<1> DEFINE login == Resume("login", c.attempt)
           loggedIn == [c EXCEPT !.pc = "loggedIn", !.session = n]
           backoff == Resume("backoff", c.attempt)
           again == Resume("ready", c.attempt + 1)
           first == [Idle EXCEPT !.pc = "ready"]
<1>1. /\ login \in Call /\ login.pc = "login" /\ login.after = "retry"
      /\ login.attempt = c.attempt
  BY <1>0, ResumeFields DEF Pcs
<1>2. /\ loggedIn \in Call /\ loggedIn.pc = "loggedIn" /\ loggedIn.after = c.after
      /\ loggedIn.attempt = c.attempt
  BY <1>0 DEF Call
<1>3. backoff \in Call /\ backoff.pc = "backoff" /\ backoff.attempt = c.attempt
  BY <1>0, ResumeFields
<1>4. c.attempt # Attempts - 1 => /\ again \in Call /\ again.pc = "ready"
                                  /\ again.attempt = c.attempt + 1
  <2>1. c.attempt # Attempts - 1 => c.attempt + 1 \in 0 .. Attempts - 1
    BY RetryOK
  <2> QED BY <2>1, ResumeFields DEF Pcs
<1>5. first \in Call /\ first.pc = "ready" /\ first.attempt = 0
  <2>1. first \in Call
    BY IdleOK, PcOK DEF CallOK, Pcs
  <2> QED BY <2>1 DEF Idle
<1>6. AfterLogin(c) = CASE c.after = "retry" -> IF c.attempt = Attempts - 1 THEN Idle ELSE again
                        [] c.after = "request" -> first
                        [] c.after = "end" -> Idle
  BY DEF AfterLogin, Resume
<1> HIDE DEF login, loggedIn, backoff, again, first
<1>7. c.pc = "answered" => Nearer(login, c)
  BY <1>0, <1>1, Left, LoginLeft, CloudAssumption DEF Nearer
<1>8. c.pc = "login" => Nearer(loggedIn, c)
  <2>1. c.pc = "login" => AttemptsLeft(loggedIn) = AttemptsLeft(c) /\ AttemptsLeft(c) \in Int
    BY <1>0, <1>2, LoginLeft, CloudAssumption
  <2> QED BY <1>0, <1>2, <2>1, LoginLeft DEF Nearer
<1>9. c.pc \in {"login", "loggedIn"} /\ c.after = "retry" => Nearer(backoff, c)
  BY <1>0, <1>3, Left, LoginLeft, CloudAssumption DEF Nearer
<1>10. c.pc = "loggedIn" => Nearer(AfterLogin(c), c)
  <2> SUFFICES ASSUME c.pc = "loggedIn"
               PROVE  Nearer(AfterLogin(c), c)
    OBVIOUS
  <2>1. CASE c.after = "end" \/ (c.after = "retry" /\ c.attempt = Attempts - 1)
    BY <1>0, <1>6, <2>1, IdleIsLast DEF Nearer
  <2>2. CASE c.after = "request"
    BY <1>0, <1>5, <1>6, <2>2, Left, LoginLeft, CloudAssumption DEF Nearer
  <2>3. CASE c.after = "retry" /\ c.attempt # Attempts - 1
    BY <1>0, <1>4, <1>6, <2>3, Left, LoginLeft, CloudAssumption DEF Nearer
  <2> QED BY <1>0, <2>1, <2>2, <2>3
<1> QED
  BY <1>7, <1>8, <1>9, <1>10 DEF login, loggedIn, backoff

LEMMA ReloginNearer ==
  ASSUME NEW c, CallOK(c), c.pc = "login", c.after = "end" => c.attempt # Attempts - 1,
         NEW n, n = IF c.after = "end" THEN c.attempt + 1 ELSE 0
  PROVE  Nearer([Idle EXCEPT !.pc = "login", !.after = "end", !.attempt = n], c)
<1>0. c \in Call /\ c.attempt \in 0 .. Attempts - 1 /\ c.after \in {"retry", "request", "end"}
  BY DEF CallOK, Call
<1> DEFINE d == [Idle EXCEPT !.pc = "login", !.after = "end", !.attempt = n]
<1>1. n \in 0 .. Attempts - 1
  BY <1>0, CloudAssumption
<1>2. d \in Call
  BY <1>1, NewLoginOK DEF CallOK
<1>3. d.pc = "login" /\ d.after = "end" /\ d.attempt = n
  BY DEF Idle
<1> HIDE DEF d
<1>4. Nearer(d, c)
  BY <1>0, <1>1, <1>2, <1>3, LoginLeft, CloudAssumption DEF Nearer
<1> QED
  BY <1>4 DEF d

\* Every step of the client brings the call that makes it nearer to its end, for any
\* number of attempts, however often the token is invalidated.
THEOREM CallsEndCorrect == CloudSpec => CallsEnd
<1> DEFINE Good(t) == \/ call[t].pc = "idle"
                      \/ call'[t] \in {call[t], Overtaken(call[t])}
                      \/ StepsLeft(call'[t]) < StepsLeft(call[t])
<1>1. ASSUME CloudOK, [CloudNext]_cloudVars, NEW u \in Tasks
      PROVE  Good(u)
  <2>0. CASE UNCHANGED cloudVars
    BY <2>0 DEF cloudVars
  <2>n. session \in Nat
    BY <1>1 DEF CloudOK, CloudTypeOK
  <2>a. /\ CallOK(call[u]) /\ call[u] \in Call
        /\ token \in Nat /\ session + 1 \in Nat
        /\ call \in [Tasks -> Call]
    BY <1>1, <2>n DEF CloudOK, CloudTypeOK, CallOK
  <2>b. \A t \in Tasks : \A c : Goto(t, c) /\ u # t => call'[u] = call[u]
    BY <2>a DEF Goto
  <2>c. \A c : Goto(u, c) => call'[u] = c
    BY <2>a DEF Goto
  <2>1. CASE BeginLogin \/ Relogin
    <3>1. CASE u # POLL
      BY <2>1, <2>b, <3>1, CloudAssumption DEF BeginLogin, Relogin
    <3>2. CASE u = POLL /\ Relogin
      BY <2>a, <2>c, <3>2, ReloginNearer DEF Relogin, At, LastAttempt, Nearer
    <3>3. CASE u = POLL /\ BeginLogin
      BY <3>3 DEF BeginLogin, At
    <3> QED BY <2>1, <3>1, <3>2, <3>3
  <2>2. CASE Kicked
    BY <2>2 DEF Kicked
  <2>3. ASSUME NEW t \in Tasks,
               \/ Begin(t) \/ Wake(t) \/ Send(t) \/ Lost(t) \/ Retry(t) \/ Unauthorized(t)
               \/ Fail(t) \/ Received(t) \/ Garbled(t) \/ LoginServe(t)
               \/ LoginRefused(t) \/ LoginLost(t)
               \/ \E a \in {"ok", "refused", "401"} : Serve(t, a)
        PROVE  Good(u)
    <3>1. CASE u # t
      BY <2>3, <2>b, <3>1
         DEF Begin, Again, Wake, Send, Lost, Retry, Unauthorized, Fail, Received, Garbled,
             LoginServe, LoginRefused, LoginLost, Serve
    <3>2. CASE u = t /\ (Begin(u) \/ Fail(u) \/ Received(u) \/ Garbled(u) \/ LoginRefused(u))
      BY <2>a, <2>c, <3>2, IdleIsLast
         DEF Begin, Fail, Received, Garbled, LoginRefused, At
    <3>3. CASE u = t /\ (\/ Wake(u) \/ Send(u) \/ Lost(u) \/ Retry(u)
                         \/ \E a \in {"ok", "refused", "401"} : Serve(u, a))
      BY <2>a, <2>c, <3>3, RequestNearer
         DEF Wake, Send, Lost, Again, Resume, Retry, Serve, At, LastAttempt, Nearer
    <3>4. CASE u = t /\ (Unauthorized(u) \/ LoginServe(u))
      BY <2>a, <2>c, <3>4, LoginNearer
         DEF Unauthorized, Again, Resume, LoginServe, At, Nearer
    <3>5. CASE u = t /\ LoginLost(u)
      BY <2>a, <2>c, <3>5, LoginNearer, IdleIsLast
         DEF LoginLost, Resume, At, LastAttempt, Nearer
    <3> QED BY <2>3, <3>1, <3>2, <3>3, <3>4, <3>5
  <2>4. ASSUME NEW t \in Tasks, LoginReceive(t)
        PROVE  Good(u)
    <3>1. CASE u # t
      BY <2>4, <3>1 DEF LoginReceive
    <3>2. CASE u = t
      BY <2>a, <2>4, <3>2, LoginNearer DEF LoginReceive, At, Nearer
    <3> QED BY <3>1, <3>2
  <2> HIDE DEF Good
  <2>5. CASE CloudNext
    BY <2>5, <2>1, <2>2, <2>3, <2>4, CloudCases
  <2> QED
    BY <1>1, <2>0, <2>5
<1>2. CloudOK /\ [CloudNext]_cloudVars => [\A t \in Tasks : Good(t)]_cloudVars
  BY <1>1
<1> QED
  BY <1>2, CloudTypes, PTL DEF CloudSpec, CallsEnd

-----------------------------------------------------------------------------
(* The system. *)

LEMMA CloudStep == [Next]_vars => [CloudNext]_cloudVars
<1> SUFFICES ASSUME [Next]_vars
             PROVE  [CloudNext]_cloudVars
  OBVIOUS
<1>0. Setters \subseteq Tasks /\ POLL \in Tasks
  BY CloudAssumption, StateAssumption
<1>1. CASE UNCHANGED vars
  BY <1>1 DEF vars, cloudVars
<1>2. CASE \/ \E m \in Event : OnPushMessage(m)
           \/ \E b \in BOOLEAN : OnLockEvent(b)
           \/ \E k \in Kinds, v \in Values : ChangedElsewhere(k, v)
           \/ ClearDetection
           \/ \E t \in Setters :
                (\E b \in BOOLEAN : LockStart(t, b)) \/ LockDone(t) \/ LockFailed(t)
  BY <1>2 DEF OnPushMessage, OnLockEvent, LockStart, ChangedElsewhere, ClearDetection, LockDone,
              LockFailed
<1>3. CASE KickedOut
  BY <1>3 DEF KickedOut, CloudNext
<1>4. ASSUME NEW t \in Setters, NEW k \in Kinds, NEW v \in Values, SetStart(t, k, v)
      PROVE  [CloudNext]_cloudVars
  BY <1>0, <1>4 DEF SetStart, CloudNext, Step
<1>5. ASSUME NEW t \in Setters, SetServed(t) \/ SetDone(t) \/ SetCall(t)
      PROVE  [CloudNext]_cloudVars
  BY <1>0, <1>5 DEF SetServed, SetDone, SetCall, CloudNext, Step
<1>6. CASE PollStart \/ PollDevices \/ PollServed
  BY <1>0, <1>6 DEF PollStart, PollDevices, PollServed, CloudNext, Step
<1>7. CASE PollStations \/ PollReceived \/ PollGarbled \/ PollCall
  BY <1>0, <1>7 DEF PollStations, PollReceived, PollGarbled, PollCall, CloudNext, Step
<1> QED
  BY <1>1, <1>2, <1>3, <1>4, <1>5, <1>6, <1>7 DEF Next, Poll, Command

\* The poll and the commands use the client as CloudApi describes it: what is proved
\* of CloudSpec holds while lists, settings and devices change around it.
THEOREM ClientRefined == Spec => CloudSpec
<1>1. Init => CloudInit
  BY DEF Init
<1> QED
  BY <1>1, CloudStep, PTL DEF Spec, CloudSpec

\* An answer fails to decrypt only if another login overtook it or its own login named
\* no key (_decrypt_response).
THEOREM StateGarbled == Spec => GarbledOnlyAfterLogin
  BY ClientRefined, GarbledCorrect, PTL

\* Each step of a call brings it nearer to its end (_rate_limited_request).
THEOREM StateCallsEnd == Spec => CallsEnd
  BY ClientRefined, CallsEndCorrect, PTL

-----------------------------------------------------------------------------
(* Types, and detections. *)

LEMMA NoneIsNoSetting ==
  /\ None \notin SettingType
  /\ None \notin LockingType
  /\ None.kind \notin Kinds
  BY DEF None, SettingType, LockingType, Kinds

\* What is known of a command in progress, and what the cloud makes of it.
LEMMA SettingFields ==
  ASSUME NEW c \in {None} \cup SettingType
  PROVE  /\ c # None <=> c.kind \in Kinds
         /\ c # None => /\ c.value \in Values /\ c.on \in Nat
                        /\ c.cloud \in {"before", "set", "changed"}
  BY NoneIsNoSetting DEF SettingType

LEMMA OverruledOK ==
  ASSUME NEW c \in {None} \cup SettingType, NEW k \in Kinds
  PROVE  /\ Overruled(c, k) \in {None} \cup SettingType
         /\ Overruled(c, k).kind = c.kind
         /\ Overruled(c, k) # None <=> c # None
         /\ Overruled(c, k) # c => c.kind = k /\ Overruled(c, k).cloud = "changed"
         /\ c.kind = k => Overruled(c, k).cloud # "set"
<1>1. CASE c.kind = k /\ c.cloud = "set"
  <2>1. c \in SettingType
    BY <1>1, NoneIsNoSetting
  <2>2. /\ [c EXCEPT !.cloud = "changed"] \in SettingType
        /\ [c EXCEPT !.cloud = "changed"].cloud = "changed"
        /\ [c EXCEPT !.cloud = "changed"].kind = c.kind
    BY <2>1 DEF SettingType
  <2> QED BY <1>1, <2>1, <2>2, NoneIsNoSetting DEF Overruled
<1>2. CASE ~(c.kind = k /\ c.cloud = "set")
  BY <1>2 DEF Overruled
<1> QED BY <1>1, <1>2

LEMMA SetOK ==
  ASSUME NEW c \in SettingType
  PROVE  /\ [c EXCEPT !.cloud = "set"] \in SettingType
         /\ [c EXCEPT !.cloud = "set"].cloud = "set"
         /\ [c EXCEPT !.cloud = "set"].kind = c.kind
         /\ [c EXCEPT !.cloud = "set"].value = c.value
         /\ [c EXCEPT !.cloud = "set"].on = c.on
  BY DEF SettingType

\* What a step makes of the records.
LEMMA DeviceOK ==
  ASSUME NEW d \in DeviceType, NEW b \in BOOLEAN, NEW v \in Values, NEW n \in Nat
  PROVE  /\ [d EXCEPT !.is_locked = b] \in DeviceType
         /\ [d EXCEPT !.is_locked = b].motion = d.motion
         /\ [d EXCEPT !.param = v] \in DeviceType
         /\ [d EXCEPT !.param = v].motion = d.motion
         /\ [d EXCEPT !.motion = b] \in DeviceType
         /\ [d EXCEPT !.motion = b].motion = b
         /\ NewDevice(n, v) \in DeviceType /\ NewDevice(n, v).motion = FALSE
         /\ d.made \in Nat /\ d.motion \in BOOLEAN
  BY DEF DeviceType, NewDevice

LEMMA PollOK ==
  ASSUME NEW p \in PollType, NEW v \in Values, NEW b \in BOOLEAN
  PROVE  /\ [p EXCEPT !.answer = v, !.fresh = b] \in PollType
         /\ [p EXCEPT !.fresh = b] \in PollType
         /\ PollIn("stations") \in PollType /\ PollIn("devices") \in PollType
         /\ NoPoll \in PollType
         /\ p.answer \in Values /\ p.fresh \in BOOLEAN
  BY DEF PollType, PollIn, NoPoll, Values

TimedInv == StateTypeOK /\ DetectionTimed

\* Listeners starts a timer for a detection that is on.
LEMMA ListenersOK ==
  ASSUME timers \in Nat, NEW d \in DeviceType, Listeners(d)
  PROVE  timers' \in Nat /\ (d.motion => timers' > 0)
  BY DEF Listeners, DeviceType

LEMMA TimedStep ==
  ASSUME TimedInv, [Next]_vars
  PROVE  TimedInv'
<1> USE DEF TimedInv, StateTypeOK, DetectionTimed
<1>0. CASE UNCHANGED vars
  BY <1>0 DEF vars
<1>1. ASSUME NEW m \in Event, OnPushMessage(m)
      PROVE  TimedInv'
  <2>0. (m.kind = "lock" => m.value \in BOOLEAN) /\ (m.kind = "guard" => m.value \in Values)
    BY DEF Event
  <2>1. device' \in DeviceType
    <3>1. /\ [device EXCEPT !.motion = TRUE] \in DeviceType
          /\ \A b \in BOOLEAN : [device EXCEPT !.is_locked = b] \in DeviceType
      BY DEF DeviceType
    <3>2. device' = ApplyPushToDevice(device, m)
      BY <1>1 DEF OnPushMessage
    <3> QED BY <2>0, <3>1, <3>2 DEF ApplyPushToDevice
  <2>2. guard' \in Values /\ behind' \in [Kinds -> BOOLEAN]
    <3>1. guard' \in Values
      BY <1>1, <2>0 DEF OnPushMessage
    <3>2. behind' = [behind EXCEPT !["guard"] = behind["guard"] \/ m.kind = "guard"]
      BY <1>1 DEF OnPushMessage
    <3> QED BY <3>1, <3>2
  <2>3. timers' \in Nat /\ (device'.motion => timers' > 0)
    BY <1>1, <2>1, ListenersOK DEF OnPushMessage
  <2> QED BY <1>1, <2>1, <2>2, <2>3 DEF OnPushMessage, Input
<1>2. ASSUME NEW b \in BOOLEAN, OnLockEvent(b)
      PROVE  TimedInv'
  <2>1. device' \in DeviceType
    BY <1>2, DeviceOK DEF OnLockEvent
  <2>2. timers' \in Nat /\ (device'.motion => timers' > 0)
    BY <1>2, <2>1, ListenersOK DEF OnLockEvent
  <2> QED BY <1>2, <2>1, <2>2 DEF OnLockEvent, Input
<1>3. CASE ClearDetection
  <2>1. device' \in DeviceType /\ device'.motion = FALSE
    BY <1>3, DeviceOK DEF ClearDetection
  <2> QED BY <1>3, <2>1 DEF ClearDetection
<1>4. CASE PollStart
  <2>1. poll' \in PollType
    BY <1>4, PollOK DEF PollStart, Values
  <2> QED BY <1>4, <2>1 DEF PollStart, Input, unpolled
<1>5. CASE PollDevices
  BY <1>5 DEF PollDevices, unpolled
<1>6. CASE PollServed
  <2>1. cloud[Polled] \in Values
    BY DEF Polled, Kinds
  <2> QED BY <1>6, <2>1, PollOK DEF PollServed, unpolled
<1>7. CASE PollStations
  <2>1. guard' \in Values /\ poll' \in PollType
    BY <1>7, PollOK DEF PollStations, Values
  <2>2. behind' \in [Kinds -> BOOLEAN]
    BY <1>7 DEF PollStations, PollType
  <2> QED BY <1>7, <2>1, <2>2 DEF PollStations
<1>8. CASE PollReceived
  <2>1. device' \in DeviceType
    <3>1. device.made + 1 \in Nat /\ poll.answer \in Values
      BY DEF DeviceType, PollType
    <3> QED BY <1>8, <3>1, DeviceOK DEF PollReceived
  <2>2. timers' \in Nat /\ (device'.motion => timers' > 0)
    BY <1>8, <2>1, ListenersOK DEF PollReceived
  <2>3. behind' \in [Kinds -> BOOLEAN] /\ poll' \in PollType
    BY <1>8, PollOK DEF PollReceived, PollType, Values
  <2> QED BY <1>8, <2>1, <2>2, <2>3 DEF PollReceived
<1>9. CASE PollGarbled
  <2>1. poll' \in PollType
    BY <1>9, PollOK DEF PollGarbled, Values
  <2>2. timers' \in Nat /\ (device.motion => timers' > 0)
    BY <1>9, ListenersOK DEF PollGarbled
  <2> QED BY <1>9, <2>1, <2>2 DEF PollGarbled
<1>10. CASE PollCall
  <2>1. poll' \in PollType
    BY <1>10, PollOK DEF PollCall, Values
  <2>2. timers' \in Nat /\ (device.motion => timers' > 0)
    BY <1>10, ListenersOK DEF PollCall
  <2> QED BY <1>10, <2>1, <2>2 DEF PollCall, LoginInput, Input
<1>11. ASSUME NEW t \in Setters, NEW k \in Kinds, NEW v \in Values, SetStart(t, k, v)
       PROVE  TimedInv'
  <2>1. [kind |-> k, value |-> v, on |-> device.made, cloud |-> "before"] \in SettingType
    BY DeviceOK DEF SettingType, Values
  <2> QED BY <1>11, <2>1 DEF SetStart, unset, Input
<1>12. ASSUME NEW t \in Setters, SetServed(t)
       PROVE  TimedInv'
  <2>1. /\ setting[t] # None /\ setting[t].kind \in Kinds /\ setting[t].value \in Values
        /\ UNCHANGED unset /\ UNCHANGED inputs
    BY <1>12, SettingFields DEF SetServed
  <2>2. CASE UNCHANGED <<cloud, poll, setting, behind>>
    BY <2>1, <2>2 DEF unset
  <2>3. CASE ~UNCHANGED <<cloud, poll, setting, behind>>
    <3> DEFINE k == setting[t].kind
    <3>1. /\ cloud' = [cloud EXCEPT ![k] = setting[t].value] /\ Outdated(k)
          /\ setting' = [u \in Setters |->
                           IF u = t THEN [setting[t] EXCEPT !.cloud = "set"]
                                    ELSE Overruled(setting[u], k)]
          /\ behind' = [behind EXCEPT ![k] =
                          @ \/ poll.stage # "none" \/ Forgotten(setting[t])]
      BY <1>12, <2>3 DEF SetServed
    <3>2. cloud' \in [Kinds -> Values]
      BY <2>1, <3>1
    <3>3. behind' \in [Kinds -> BOOLEAN]
      BY <2>1, <3>1 DEF Forgotten
    <3>4. setting' \in [Setters -> {None} \cup SettingType]
      <4>1. [setting[t] EXCEPT !.cloud = "set"] \in SettingType
        BY <2>1, SetOK
      <4>2. \A u \in Setters : Overruled(setting[u], k) \in {None} \cup SettingType
        BY <2>1, OverruledOK
      <4> QED BY <3>1, <4>1, <4>2
    <3>5. poll' \in PollType
      BY <3>1, PollOK DEF Outdated, Values
    <3> QED BY <2>1, <3>2, <3>3, <3>4, <3>5 DEF unset
  <2> QED BY <2>2, <2>3
<1>13. ASSUME NEW t \in Setters, SetDone(t)
       PROVE  TimedInv'
  <2>1. setting[t].kind \in Kinds /\ setting[t].value \in Values
    BY <1>13, SettingFields DEF SetDone
  <2>2. device' \in DeviceType /\ device'.motion = device.motion
    BY <1>13, <2>1, DeviceOK DEF SetDone
  <2>3. guard' \in Values
    BY <1>13, <2>1 DEF SetDone
  <2>4. behind' \in [Kinds -> BOOLEAN]
    BY <1>13, <2>1 DEF SetDone, Overwrites, Forgotten
  <2>5. setting' \in [Setters -> {None} \cup SettingType]
    BY <1>13 DEF SetDone
  <2> QED BY <1>13, <2>2, <2>3, <2>4, <2>5 DEF SetDone
<1>14. ASSUME NEW t \in Setters, SetCall(t)
       PROVE  TimedInv'
  <2>1. behind' \in [Kinds -> BOOLEAN]
    BY <1>14 DEF SetCall, Writes, Forgotten
  <2>2. setting' \in [Setters -> {None} \cup SettingType]
    BY <1>14 DEF SetCall
  <2> QED BY <1>14, <2>1, <2>2 DEF SetCall, unset, LoginInput, Input
<1>15. ASSUME NEW k \in Kinds, NEW v \in Values, ChangedElsewhere(k, v)
       PROVE  TimedInv'
  <2>1. setting' \in [Setters -> {None} \cup SettingType]
    BY <1>15, OverruledOK DEF ChangedElsewhere
  <2>2. poll' \in PollType
    BY <1>15, PollOK DEF ChangedElsewhere, Outdated, Values
  <2>3. cloud' \in [Kinds -> Values] /\ behind' \in [Kinds -> BOOLEAN]
    BY <1>15 DEF ChangedElsewhere
  <2> QED BY <1>15, <2>1, <2>2, <2>3 DEF ChangedElsewhere, Input
<1>16. ASSUME NEW t \in Setters, NEW b \in BOOLEAN, LockStart(t, b)
       PROVE  TimedInv'
  <2>1. [kind |-> "lock", value |-> b, on |-> device.made] \in LockingType
    BY DeviceOK DEF LockingType, Values
  <2> QED BY <1>16, <2>1 DEF LockStart, Input
<1>17. ASSUME NEW t \in Setters, LockDone(t)
       PROVE  TimedInv'
  <2>1. locking[t].value \in BOOLEAN
    BY <1>17 DEF LockDone, LockingType
  <2>2. device' \in DeviceType /\ device'.motion = device.motion
    <3>1. /\ [device EXCEPT !.is_locked = locking[t].value] \in DeviceType
          /\ [device EXCEPT !.is_locked = locking[t].value].motion = device.motion
      BY <2>1 DEF DeviceType
    <3> QED BY <1>17, <3>1 DEF LockDone
  <2> QED BY <1>17, <2>2 DEF LockDone
<1>18. ASSUME NEW t \in Setters, LockFailed(t)
       PROVE  TimedInv'
  BY <1>18 DEF LockFailed
<1>19. CASE KickedOut
  BY <1>19 DEF KickedOut, unpolled, LoginInput, Input
<1> QED
  BY <1>0, <1>1, <1>2, <1>3, <1>4, <1>5, <1>6, <1>7, <1>8, <1>9, <1>10, <1>11, <1>12, <1>13,
     <1>14, <1>15, <1>16, <1>17, <1>18, <1>19 DEF Next, Poll, Command

\* A detection that is on has a timer, for any number of timers, pushes, polls and
\* new device objects; with it, the types of the system.
THEOREM DetectionCorrect == Spec => [](StateTypeOK /\ DetectionTimed)
<1>1. Init => TimedInv
  BY DEF Init, TimedInv, StateTypeOK, DetectionTimed, NewDevice, DeviceType, PollType, NoPoll,
         Values, Kinds
<1>2. TimedInv /\ [Next]_vars => TimedInv'
  BY TimedStep
<1> QED
  BY <1>1, <1>2, PTL DEF Spec, TimedInv

\* Type correctness of the whole.
THEOREM StateTypes == Spec => []TypeOK
<1>1. CloudOK => CloudTypeOK
  BY DEF CloudOK
<1> QED
  BY <1>1, CloudTypes, ClientRefined, DetectionCorrect, PTL DEF TypeOK

-----------------------------------------------------------------------------
(* What is shown. *)

\* The cloud has taken the request of task t over, and its answer is on its way.
Answered(t) == At(t, "answered") /\ call[t].answer = "ok"

\* A call belongs to the poll or to the command it was made for.
OwnedInv ==
  /\ poll.stage = "none" => At(POLL, "idle")
  /\ \A t \in Setters : setting[t] # None /\ Answered(t) => setting[t].cloud # "before"

\* An answer to the poll that is not outdated is what the cloud has; one that is
\* outdated has left its mark.
AnswerInv ==
  /\ poll.fresh => poll.answer = cloud[Polled]
  /\ Answered(POLL) => poll.fresh \/ behind[Polled]

\* What the cloud has taken over of a command it keeps, or it has been changed since.
TakenInv ==
  \A t \in Setters, k \in Kinds :
    setting[t].kind = k /\ setting[t].cloud = "set" => cloud[k] = setting[t].value

ShownInv == OwnedInv /\ AnswerInv /\ TakenInv /\ SettingShown

\* What a step of one call does to the others, and to itself.
LEMMA OtherCall ==
  ASSUME call \in [Tasks -> Call], NEW t \in Tasks, NEW u \in Tasks, u # t,
         Step(t) \/ (t = POLL /\ (BeginLogin \/ Relogin))
  PROVE  call'[u].pc = call[u].pc /\ call'[u].answer = call[u].answer
<1>1. CASE LoginReceive(t)
  <2>1. call'[u] = Overtaken(call[u])
    BY <1>1 DEF LoginReceive
  <2>2. call[u] \in Call
    OBVIOUS
  <2> QED BY <2>1, <2>2 DEF Overtaken, Call
<1>2. CASE \E c : Goto(t, c)
  BY <1>2 DEF Goto
<1> QED
  BY <1>1, <1>2 DEF Step, BeginLogin, Relogin, Begin, Wake, Send, Serve, Lost, Again, Retry,
     Unauthorized, Fail, Received, Garbled, LoginServe, LoginRefused, LoginLost

LEMMA GoneTo ==
  ASSUME call \in [Tasks -> Call], NEW t \in Tasks, NEW c, Goto(t, c)
  PROVE  call'[t] = c
  BY DEF Goto

\* Steps of a call that are neither the cloud's answer nor the arrival of one.
Moves(t) ==
  \/ Begin(t) \/ Wake(t) \/ Send(t) \/ Lost(t) \/ Retry(t) \/ Unauthorized(t) \/ Fail(t)
  \/ LoginServe(t) \/ LoginReceive(t) \/ LoginRefused(t) \/ LoginLost(t)
  \/ t = POLL /\ (BeginLogin \/ Relogin)

LEMMA MovesUnanswered ==
  ASSUME call \in [Tasks -> Call], NEW t \in Tasks, Moves(t)
  PROVE  ~At(t, "answered")'
<1>0. call[t] \in Call /\ POLL \in Tasks
  BY CloudAssumption
<1>1. CASE LoginReceive(t)
  <2>1. call'[t] = AfterLogin(call[t])
    BY <1>1 DEF LoginReceive
  <2>2. AfterLogin(call[t]).pc \in {"idle", "ready"}
    BY <1>0 DEF AfterLogin, Idle, Call
  <2> QED BY <2>1, <2>2 DEF At
<1>2. CASE Begin(t)
  <2>1. PICK pc \in {"limited", "ready"} : Goto(t, [Idle EXCEPT !.pc = pc])
    BY <1>2 DEF Begin
  <2> QED BY <2>1, GoneTo DEF At, Idle
<1>3. CASE \/ Wake(t) \/ Send(t) \/ Lost(t) \/ Retry(t) \/ Unauthorized(t) \/ LoginServe(t)
  <2>1. CASE Wake(t) \/ Send(t)
    BY <1>0, <2>1 DEF Wake, Send, Goto, Call, At
  <2>2. CASE Lost(t) \/ Unauthorized(t)
    BY <1>0, <2>2 DEF Lost, Unauthorized, Again, Goto, Idle, At
  <2>3. CASE Retry(t) \/ LoginServe(t)
    BY <1>0, <2>3 DEF Retry, LoginServe, Goto, Call, At
  <2> QED BY <1>3, <2>1, <2>2, <2>3
<1>4. CASE Fail(t) \/ LoginRefused(t)
  BY <1>4, GoneTo DEF Fail, LoginRefused, At, Idle
<1>5. CASE LoginLost(t)
  <2>1. CASE Goto(t, Idle)
    BY <2>1, GoneTo DEF At, Idle
  <2>2. CASE Goto(t, [Idle EXCEPT !.pc = "backoff", !.attempt = call[t].attempt])
    BY <2>2, GoneTo DEF At, Idle
  <2> QED BY <1>5, <2>1, <2>2 DEF LoginLost
<1>6. CASE t = POLL /\ BeginLogin
  BY <1>6, GoneTo DEF BeginLogin, At, Idle
<1>7. CASE t = POLL /\ Relogin
  BY <1>0, <1>7 DEF Relogin, Idle, Goto, At
<1> QED BY <1>1, <1>2, <1>3, <1>4, <1>5, <1>6, <1>7 DEF Moves

LEMMA ServedOK ==
  ASSUME call \in [Tasks -> Call], NEW t \in Tasks, NEW a, Serve(t, a)
  PROVE  call'[t].pc = "answered" /\ call'[t].answer = a /\ At(t, "asked")
  BY GoneTo DEF Serve, Call

LEMMA Arrived ==
  ASSUME call \in [Tasks -> Call], NEW t \in Tasks, Received(t) \/ Garbled(t)
  PROVE  Answered(t) /\ call'[t].pc = "idle"
  BY GoneTo DEF Received, Garbled, Answered, At, Idle

\* A command takes the steps of its own task, the poll those of its.
TasksOK == /\ call \in [Tasks -> Call]
           /\ POLL \in Tasks /\ Setters \subseteq Tasks /\ POLL \notin Setters

LEMMA TasksDiffer == CloudTypeOK => TasksOK
  BY CloudAssumption, StateAssumption DEF CloudTypeOK, TasksOK

\* The calls other than that of task t stand where they stood.
OthersStay(t) ==
  \A u \in Tasks \ {t} : call'[u].pc = call[u].pc /\ call'[u].answer = call[u].answer

LEMMA Stay ==
  ASSUME TasksOK, NEW t \in Tasks, Step(t) \/ (t = POLL /\ (BeginLogin \/ Relogin))
  PROVE  OthersStay(t)
  BY OtherCall DEF TasksOK, OthersStay

\* Steps that touch neither a setting nor what is known of one.
LEMMA ShownFrame ==
  ASSUME ShownInv, UNCHANGED <<cloud, guard, poll, setting, behind, call>>,
         device'.param = device.param, device'.made = device.made
  PROVE  ShownInv'
  BY DEF ShownInv, OwnedInv, AnswerInv, TakenInv, SettingShown, Answered, At, Polled, Forgotten,
         Writes, Shown

\* Pushes, lock events, timers and locks.
LEMMA ShownPush ==
  ASSUME StateTypeOK, ShownInv, NEW m \in Event, OnPushMessage(m)
  PROVE  ShownInv'
<1>1. /\ device'.param = device.param /\ device'.made = device.made
      /\ UNCHANGED <<cloudVars, cloud, poll, setting>>
      /\ behind'["param"] = behind["param"]
      /\ behind'["guard"] = (behind["guard"] \/ m.kind = "guard")
      /\ m.kind # "guard" => guard' = guard
  BY DEF OnPushMessage, ApplyPushToDevice, StateTypeOK, DeviceType, Kinds
<1>2. \A k \in Kinds : behind[k] => behind'[k]
  BY <1>1 DEF Kinds
<1>3. OwnedInv' /\ TakenInv'
  BY <1>1 DEF ShownInv, OwnedInv, TakenInv, Answered, At, cloudVars
<1>4. AnswerInv'
  BY <1>1, <1>2 DEF ShownInv, AnswerInv, Answered, At, Polled, cloudVars, Kinds
<1>5. SettingShown'
  <2>1. \A t \in Setters, k \in Kinds : Writes(t, k) => Writes(t, k)'
    BY <1>1 DEF Writes, Forgotten
  <2> QED BY <1>1, <1>2, <2>1 DEF ShownInv, SettingShown, Shown, Kinds
<1> QED BY <1>3, <1>4, <1>5 DEF ShownInv

LEMMA ShownAside ==
  ASSUME StateTypeOK, ShownInv,
         \/ \E b \in BOOLEAN : OnLockEvent(b)
         \/ \E t \in Setters :
              (\E b \in BOOLEAN : LockStart(t, b)) \/ LockDone(t) \/ LockFailed(t)
         \/ ClearDetection \/ KickedOut \/ UNCHANGED vars
  PROVE  ShownInv'
<1>1. /\ device'.param = device.param /\ device'.made = device.made
      /\ UNCHANGED <<cloud, guard, poll, setting, behind, call>>
  BY DEF OnLockEvent, LockStart, ClearDetection, LockDone, LockFailed, KickedOut, Kicked,
         unpolled, vars, cloudVars, StateTypeOK, DeviceType
<1> QED BY <1>1, ShownFrame

\* The poll.
LEMMA ShownPollMoves ==
  ASSUME TasksOK, StateTypeOK, ShownInv, PollStart \/ PollDevices \/ PollCall
  PROVE  ShownInv'
<1>1. /\ Moves(POLL) /\ (Step(POLL) \/ BeginLogin \/ Relogin)
      /\ UNCHANGED <<cloud, device, guard, setting, behind>>
  BY DEF PollStart, PollDevices, PollCall, Moves, Step, unpolled
<1>2. ~At(POLL, "answered")'
  BY <1>1, MovesUnanswered DEF TasksOK
<1>3. \A u \in Setters : call'[u].pc = call[u].pc /\ call'[u].answer = call[u].answer
  BY <1>1, Stay DEF TasksOK, OthersStay
<1>4. /\ poll'.stage = "none" => At(POLL, "idle")'
      /\ poll'.fresh => poll' = poll
  BY DEF PollStart, PollDevices, PollCall, PollIn, NoPoll
<1>5. OwnedInv' /\ TakenInv'
  BY <1>1, <1>3, <1>4 DEF ShownInv, OwnedInv, TakenInv, Answered, At
<1>6. AnswerInv'
  BY <1>1, <1>2, <1>4 DEF ShownInv, AnswerInv, Answered, Polled
<1>7. SettingShown'
  BY <1>1 DEF ShownInv, SettingShown, Shown, Writes, Forgotten
<1> QED BY <1>5, <1>6, <1>7 DEF ShownInv

LEMMA ShownPollServed ==
  ASSUME TasksOK, StateTypeOK, ShownInv, PollServed
  PROVE  ShownInv'
<1>1. PICK a \in {"ok", "refused", "401"} : Serve(POLL, a)
  BY DEF PollServed
<1>2. Step(POLL) /\ At(POLL, "asked") /\ call'[POLL].pc = "answered"
  BY <1>1, ServedOK DEF Step, TasksOK
<1>3. \A u \in Setters : call'[u].pc = call[u].pc /\ call'[u].answer = call[u].answer
  BY <1>2, Stay DEF TasksOK, OthersStay
<1>4. /\ poll'.stage = poll.stage /\ poll'.fresh /\ poll'.answer = cloud[Polled]
      /\ UNCHANGED <<cloud, device, guard, setting, behind>>
  BY DEF PollServed, StateTypeOK, PollType, unpolled
<1>5. poll.stage # "none"
  BY <1>2 DEF ShownInv, OwnedInv, At
<1>6. OwnedInv' /\ TakenInv'
  BY <1>3, <1>4, <1>5 DEF ShownInv, OwnedInv, TakenInv, Answered, At
<1>7. AnswerInv'
  BY <1>4 DEF AnswerInv, Polled
<1>8. SettingShown'
  BY <1>4 DEF ShownInv, SettingShown, Shown, Writes, Forgotten
<1> QED BY <1>6, <1>7, <1>8 DEF ShownInv

\* A list takes the place of what was known: either it is what the cloud has, or
\* the difference is on record.
LEMMA ShownPollReceived ==
  ASSUME TasksOK, StateTypeOK, ShownInv, PollStations \/ PollReceived \/ PollGarbled
  PROVE  ShownInv'
<1>1. Received(POLL) \/ Garbled(POLL)
  BY DEF PollStations, PollReceived, PollGarbled
<1>2. Answered(POLL) /\ call'[POLL].pc = "idle" /\ Step(POLL)
  BY <1>1, Arrived DEF Step, TasksOK
<1>3. \A u \in Setters : call'[u].pc = call[u].pc /\ call'[u].answer = call[u].answer
  BY <1>2, Stay DEF TasksOK, OthersStay
<1>4. UNCHANGED <<cloud, setting>> /\ ~poll'.fresh
  BY DEF PollStations, PollReceived, PollGarbled, PollIn, NoPoll
<1>5. OwnedInv' /\ AnswerInv'
  BY <1>2, <1>3, <1>4 DEF ShownInv, OwnedInv, AnswerInv, Answered, At
<1>6. (poll.fresh => poll.answer = cloud[Polled]) /\ (poll.fresh \/ behind[Polled])
  BY <1>2 DEF ShownInv, AnswerInv
<1>7. CASE PollStations
  <2>1. /\ Polled = "guard" /\ guard' = poll.answer /\ UNCHANGED device
        /\ behind'["param"] = behind["param"]
        /\ behind'["guard"] = (behind["guard"] /\ ~poll.fresh)
    BY <1>7 DEF PollStations, Polled, StateTypeOK, Kinds
  <2>2. TakenInv'
    BY <1>4 DEF ShownInv, TakenInv
  <2>3. \A t \in Setters, k \in Kinds : Writes(t, k) => Writes(t, k)'
    BY <1>4, <2>1 DEF Writes, Forgotten
  <2>4. SettingShown'
    BY <1>4, <1>6, <2>1, <2>3 DEF ShownInv, SettingShown, Shown, Kinds
  <2> QED BY <1>5, <2>2, <2>4 DEF ShownInv
<1>8. CASE PollReceived
  <2>1. /\ Polled = "param" /\ device'.param = poll.answer /\ UNCHANGED guard
        /\ behind'["guard"] = behind["guard"]
        /\ behind'["param"] = (behind["param"] /\ ~poll.fresh)
    BY <1>8 DEF PollReceived, Polled, StateTypeOK, Kinds, NewDevice
  <2>2. TakenInv'
    BY <1>4 DEF ShownInv, TakenInv
  <2>3. \A t \in Setters : Writes(t, "guard") => Writes(t, "guard")'
    BY <1>4 DEF Writes, Forgotten
  <2>4. SettingShown'
    BY <1>4, <1>6, <2>1, <2>3 DEF ShownInv, SettingShown, Shown, Kinds
  <2> QED BY <1>5, <2>2, <2>4 DEF ShownInv
<1>9. CASE PollGarbled
  <2>1. UNCHANGED <<device, guard, behind>>
    BY <1>9 DEF PollGarbled
  <2> QED BY <1>4, <1>5, <2>1 DEF ShownInv, TakenInv, SettingShown, Shown, Writes, Forgotten
<1> QED BY <1>7, <1>8, <1>9

\* Commands.
LEMMA ShownSetStart ==
  ASSUME TasksOK, StateTypeOK, ShownInv, NEW t \in Setters, NEW k \in Kinds, NEW v \in Values,
         SetStart(t, k, v)
  PROVE  ShownInv'
<1>1. Moves(t) /\ Step(t) /\ t \in Tasks /\ t # POLL
  BY DEF SetStart, Moves, Step, TasksOK
<1>2. ~At(t, "answered")' /\ OthersStay(t)
  BY <1>1, MovesUnanswered, Stay DEF TasksOK
<1>3. /\ setting[t] = None /\ setting'[t].cloud = "before"
      /\ \A u \in Setters \ {t} : setting'[u] = setting[u]
      /\ UNCHANGED <<cloud, poll, behind, device, guard>>
  BY DEF SetStart, Free, StateTypeOK, unset
<1>4. OwnedInv'
  BY <1>1, <1>2, <1>3 DEF ShownInv, OwnedInv, Answered, At, OthersStay, TasksOK
<1>5. AnswerInv'
  BY <1>1, <1>2, <1>3 DEF ShownInv, AnswerInv, Answered, At, Polled, OthersStay, TasksOK
<1>6. TakenInv'
  BY <1>3 DEF ShownInv, TakenInv
<1>7. SettingShown'
  <2>1. \A u \in Setters, j \in Kinds : Writes(u, j) => Writes(u, j)'
    BY <1>3, NoneIsNoSetting DEF Writes, Forgotten
  <2> QED BY <1>3, <2>1 DEF ShownInv, SettingShown, Shown
<1> QED BY <1>4, <1>5, <1>6, <1>7 DEF ShownInv

LEMMA ShownSetServed ==
  ASSUME TasksOK, StateTypeOK, ShownInv, NEW t \in Setters, SetServed(t)
  PROVE  ShownInv'
<1>a. setting[t] \in SettingType /\ setting[t] # None /\ setting[t].kind \in Kinds
  BY SettingFields DEF SetServed, StateTypeOK
<1>0. PICK k \in Kinds : k = setting[t].kind
  BY <1>a
<1>1. PICK a \in {"ok", "refused", "401"} :
        /\ Serve(t, a)
        /\ IF a = "ok"
             THEN /\ cloud' = [cloud EXCEPT ![k] = setting[t].value]
                  /\ Outdated(k)
                  /\ setting' = [u \in Setters |->
                                   IF u = t THEN [setting[t] EXCEPT !.cloud = "set"]
                                            ELSE Overruled(setting[u], k)]
                  /\ behind' = [behind EXCEPT ![k] =
                                  @ \/ poll.stage # "none" \/ Forgotten(setting[t])]
             ELSE UNCHANGED <<cloud, poll, setting, behind>>
  BY <1>0 DEF SetServed
<1>2. UNCHANGED <<device, guard>>
  BY DEF SetServed, unset
<1>3. /\ Step(t) /\ t \in Tasks /\ t # POLL
      /\ call'[t].pc = "answered" /\ call'[t].answer = a
  BY <1>1, ServedOK DEF Step, TasksOK
<1>4. OthersStay(t)
  BY <1>3, Stay
<1>5. CASE a # "ok"
  <2>1. UNCHANGED <<cloud, poll, setting, behind>> /\ ~Answered(t)'
    BY <1>1, <1>3, <1>5 DEF Answered
  <2>2. OwnedInv'
    BY <1>3, <1>4, <2>1 DEF ShownInv, OwnedInv, Answered, At, OthersStay, TasksOK
  <2>3. AnswerInv'
    BY <1>3, <1>4, <2>1 DEF ShownInv, AnswerInv, Answered, At, Polled, OthersStay, TasksOK
  <2>4. TakenInv' /\ SettingShown'
    BY <1>2, <2>1 DEF ShownInv, TakenInv, SettingShown, Writes, Forgotten, Shown
  <2> QED BY <2>2, <2>3, <2>4 DEF ShownInv
<1>6. CASE a = "ok"
  <2>1. /\ setting'[t] = [setting[t] EXCEPT !.cloud = "set"]
        /\ setting'[t] # None /\ setting'[t].kind = k /\ setting'[t].cloud = "set"
        /\ setting'[t].value = setting[t].value /\ setting'[t].on = setting[t].on
    <3>1. setting'[t] = [setting[t] EXCEPT !.cloud = "set"]
      BY <1>1, <1>6
    <3> QED BY <1>a, <1>0, <3>1, SetOK, NoneIsNoSetting
  <2>2. \A u \in Setters \ {t} :
          /\ setting'[u] = Overruled(setting[u], k)
          /\ setting[u] \in {None} \cup SettingType
          /\ setting'[u].kind = setting[u].kind /\ (setting'[u] # None <=> setting[u] # None)
          /\ setting'[u] # setting[u] => setting[u].kind = k /\ setting'[u].cloud = "changed"
          /\ setting[u].kind = k => setting'[u].cloud # "set"
    <3>1. \A u \in Setters \ {t} : /\ setting'[u] = Overruled(setting[u], k)
                                   /\ setting[u] \in {None} \cup SettingType
      BY <1>1, <1>6 DEF StateTypeOK
    <3> QED BY <3>1, OverruledOK
  <2>3. /\ cloud'[k] = setting[t].value
        /\ \A j \in Kinds : j # k => cloud'[j] = cloud[j] /\ behind'[j] = behind[j]
        /\ behind'[k] = (behind[k] \/ poll.stage # "none" \/ Forgotten(setting[t]))
    BY <1>0, <1>1, <1>6 DEF StateTypeOK
  <2>4. /\ poll'.stage = poll.stage /\ poll'.answer = poll.answer
        /\ poll'.fresh = (poll.fresh /\ Polled # k)
    BY <1>1, <1>6 DEF Outdated, StateTypeOK, PollType
  <2>5. Polled \in Kinds /\ Polled' = Polled
    BY <2>4 DEF Polled, Kinds
  <2>6. OwnedInv'
    <3>1. (poll.stage = "none" => At(POLL, "idle"))'
      BY <1>3, <1>4, <2>4 DEF ShownInv, OwnedInv, At, OthersStay, TasksOK
    <3>2. ASSUME NEW u \in Setters \ {t}, setting'[u] # None, Answered(u)'
          PROVE  setting'[u].cloud # "before"
      <4>1. Answered(u)
        BY <1>4, <3>2 DEF Answered, At, OthersStay, TasksOK
      <4>2. setting[u].cloud # "before"
        BY <2>2, <3>2, <4>1 DEF ShownInv, OwnedInv
      <4> QED BY <2>2, <4>2
    <3>3. setting'[t].cloud # "before"
      BY <2>1
    <3> QED BY <3>1, <3>2, <3>3 DEF OwnedInv
  <2>7. AnswerInv'
    <3>1. Answered(POLL)' = Answered(POLL)
      BY <1>3, <1>4 DEF Answered, At, OthersStay, TasksOK
    <3>2. CASE Polled = k
      <4>1. Answered(POLL) => poll.stage # "none"
        BY DEF ShownInv, OwnedInv, Answered, At
      <4> QED BY <2>3, <2>4, <2>5, <3>1, <3>2, <4>1 DEF AnswerInv
    <3>3. CASE Polled # k
      BY <2>3, <2>4, <2>5, <3>1, <3>3 DEF ShownInv, AnswerInv
    <3> QED BY <3>2, <3>3
  <2>8. TakenInv'
    <3>1. ASSUME NEW u \in Setters \ {t}, NEW j \in Kinds,
                 setting'[u].kind = j, setting'[u].cloud = "set"
          PROVE  cloud'[j] = setting'[u].value
      <4>1. setting'[u] = setting[u] /\ j # k
        BY <2>2, <3>1
      <4>2. cloud[j] = setting[u].value
        BY <3>1, <4>1 DEF ShownInv, TakenInv
      <4> QED BY <2>3, <4>1, <4>2
    <3>2. setting'[t].kind = k /\ cloud'[k] = setting'[t].value
      BY <2>1, <2>3
    <3> QED BY <3>1, <3>2 DEF TakenInv
  <2>9. SettingShown'
    <3>1. behind'[k] \/ Writes(t, k)'
      <4>1. setting[t].kind = k
        BY <1>0
      <4>2. Forgotten(setting[t])' = Forgotten(setting[t])
        BY <1>2, <2>1, <4>1 DEF Forgotten
      <4> QED BY <2>1, <2>3, <4>2 DEF Writes
    <3>2. \A u \in Setters, j \in Kinds : j # k /\ Writes(u, j) => Writes(u, j)'
      BY <1>2, <2>1, <2>2 DEF Writes, Forgotten
    <3>3. \A j \in Kinds : j # k => Shown(j)' = Shown(j)
      BY <1>2 DEF Shown
    <3> QED BY <2>3, <3>1, <3>2, <3>3 DEF ShownInv, SettingShown
  <2> QED BY <2>6, <2>7, <2>8, <2>9 DEF ShownInv
<1> QED BY <1>5, <1>6

\* A command that ends leaves the others as they are.
LEMMA SettingEnds ==
  ASSUME TasksOK, StateTypeOK, ShownInv, NEW t \in Setters, Step(t), ~Answered(t)',
         setting' = [setting EXCEPT ![t] = None], UNCHANGED <<cloud, poll>>,
         \A j \in Kinds : behind[j] => behind'[j]
  PROVE  OwnedInv' /\ AnswerInv' /\ TakenInv'
<1>1. t \in Tasks /\ t # POLL /\ OthersStay(t)
  BY Stay DEF TasksOK
<1>2. setting'[t] = None /\ \A u \in Setters \ {t} : setting'[u] = setting[u]
  BY DEF StateTypeOK
<1>3. OwnedInv'
  BY <1>1, <1>2 DEF ShownInv, OwnedInv, Answered, At, OthersStay, TasksOK
<1>4. AnswerInv'
  <2>1. Polled \in Kinds /\ Polled' = Polled
    BY DEF Polled, Kinds
  <2> QED BY <1>1, <2>1 DEF ShownInv, AnswerInv, Answered, At, OthersStay, TasksOK
<1>5. TakenInv'
  BY <1>2, NoneIsNoSetting DEF ShownInv, TakenInv
<1> QED BY <1>3, <1>4, <1>5

LEMMA ShownSetDone ==
  ASSUME TasksOK, StateTypeOK, ShownInv, NEW t \in Setters, SetDone(t)
  PROVE  ShownInv'
<1>a. /\ setting[t] # None /\ setting[t].kind \in Kinds
      /\ setting[t].cloud \in {"before", "set", "changed"}
  BY SettingFields DEF SetDone, StateTypeOK
<1>0. PICK k \in Kinds : k = setting[t].kind
  BY <1>a
<1>1. /\ k = setting[t].kind /\ k \in Kinds /\ UNCHANGED <<cloud, poll>>
      /\ setting[t] # None /\ setting[t].cloud \in {"before", "set", "changed"}
      /\ setting' = [setting EXCEPT ![t] = None]
      /\ setting'[t] = None /\ \A u \in Setters \ {t} : setting'[u] = setting[u]
  BY <1>a, <1>0 DEF SetDone, StateTypeOK
<1>2. Answered(t) /\ call'[t].pc = "idle" /\ Step(t)
  BY Arrived DEF SetDone, Step, TasksOK
<1>3. setting[t].cloud # "before"
  BY <1>1, <1>2 DEF ShownInv, OwnedInv
<1>4. /\ behind'[k] = (behind[k] \/ Overwrites(t))
      /\ \A j \in Kinds : j # k => behind'[j] = behind[j]
      /\ \A j \in Kinds : behind[j] => behind'[j]
  BY <1>1 DEF SetDone, StateTypeOK
<1>5. OwnedInv' /\ AnswerInv' /\ TakenInv'
  BY <1>1, <1>2, <1>4, SettingEnds DEF Answered, At
<1>6. /\ device'.made = device.made
      /\ k # "guard" => guard' = guard
      /\ k # "param" \/ Forgotten(setting[t]) => device'.param = device.param
      /\ k = "param" /\ ~Forgotten(setting[t]) => device'.param = setting[t].value
      /\ k = "guard" => guard' = setting[t].value
  BY <1>1 DEF SetDone, StateTypeOK, DeviceType
<1>7. \A u \in Setters \ {t}, j \in Kinds : Writes(u, j) => Writes(u, j)'
  BY <1>1, <1>6 DEF Writes, Forgotten
<1>8. ASSUME NEW j \in Kinds, j # k
      PROVE  behind'[j] \/ (\E u \in Setters : Writes(u, j)') \/ Shown(j)' = cloud'[j]
  <2>1. Shown(j)' = Shown(j)
    BY <1>6, <1>8 DEF Shown, Kinds
  <2>2. ~Writes(t, j)
    BY <1>1, <1>8 DEF Writes
  <2> QED BY <1>1, <1>4, <1>7, <1>8, <2>1, <2>2 DEF ShownInv, SettingShown
<1>9. behind'[k] \/ (\E u \in Setters : Writes(u, k)') \/ Shown(k)' = cloud'[k]
  <2>1. CASE Forgotten(setting[t])
    <3>1. Shown(k)' = Shown(k) /\ ~Writes(t, k)
      <4>1. k = "param"
        BY <1>1, <2>1 DEF Forgotten
      <4> QED BY <1>6, <2>1, <4>1 DEF Shown, Writes
    <3> QED BY <1>1, <1>4, <1>7, <3>1 DEF ShownInv, SettingShown
  <2>2. CASE ~Forgotten(setting[t]) /\ setting[t].cloud = "set"
    <3>1. cloud'[k] = setting[t].value
      BY <1>1, <2>2 DEF ShownInv, TakenInv
    <3> QED BY <1>1, <1>6, <2>2, <3>1 DEF Shown, Kinds
  <2>3. CASE ~Forgotten(setting[t]) /\ setting[t].cloud = "changed"
    <3>1. Overwrites(t) \/ \E u \in Setters \ {t} : Writes(u, k)
      BY <1>1, <2>3 DEF Overwrites, Writes
    <3> QED BY <1>4, <1>7, <3>1
  <2> QED BY <1>1, <1>3, <2>1, <2>2, <2>3
<1>10. SettingShown'
  <2>1. \A j \in Kinds : behind'[j] \/ (\E u \in Setters : Writes(u, j)') \/ Shown(j)' = cloud'[j]
    BY <1>8, <1>9
  <2> QED BY <2>1 DEF SettingShown
<1> QED BY <1>5, <1>10 DEF ShownInv

LEMMA ShownSetCall ==
  ASSUME TasksOK, StateTypeOK, ShownInv, NEW t \in Setters, SetCall(t)
  PROVE  ShownInv'
<1>a. setting[t] # None /\ setting[t].kind \in Kinds
  BY SettingFields DEF SetCall, StateTypeOK
<1>0. PICK k \in Kinds : k = setting[t].kind
  BY <1>a
<1>1. k = setting[t].kind /\ UNCHANGED <<cloud, poll, device, guard>>
  BY <1>0 DEF SetCall, unset
<1>2. Moves(t) /\ Step(t) /\ t \in Tasks /\ t # POLL
  BY DEF SetCall, Moves, Step, TasksOK
<1>3. ~At(t, "answered")' /\ ~Answered(t)' /\ OthersStay(t)
  BY <1>2, MovesUnanswered, Stay DEF TasksOK, Answered
<1>4. CASE UNCHANGED <<setting, behind>>
  <2>1. OwnedInv'
    BY <1>1, <1>2, <1>3, <1>4 DEF ShownInv, OwnedInv, Answered, At, OthersStay, TasksOK
  <2>2. AnswerInv'
    BY <1>1, <1>2, <1>3, <1>4 DEF ShownInv, AnswerInv, Answered, At, Polled, OthersStay, TasksOK
  <2>3. TakenInv' /\ SettingShown'
    BY <1>1, <1>4 DEF ShownInv, TakenInv, SettingShown, Writes, Forgotten, Shown
  <2> QED BY <2>1, <2>2, <2>3 DEF ShownInv
<1>5. CASE /\ setting' = [setting EXCEPT ![t] = None]
           /\ behind' = [behind EXCEPT ![k] = @ \/ Writes(t, k)]
  <2>1. /\ behind'[k] = (behind[k] \/ Writes(t, k))
        /\ \A j \in Kinds : j # k => behind'[j] = behind[j]
        /\ \A j \in Kinds : behind[j] => behind'[j]
        /\ \A u \in Setters \ {t} : setting'[u] = setting[u]
    BY <1>1, <1>5 DEF StateTypeOK
  <2>2. OwnedInv' /\ AnswerInv' /\ TakenInv'
    BY <1>1, <1>2, <1>3, <1>5, <2>1, SettingEnds
  <2>3. \A u \in Setters \ {t}, j \in Kinds : Writes(u, j) => Writes(u, j)'
    BY <1>1, <2>1 DEF Writes, Forgotten
  <2>4. \A j \in Kinds : Writes(t, j) => j = k
    BY <1>1 DEF Writes
  <2>5. \A j \in Kinds : Shown(j)' = Shown(j)
    BY <1>1 DEF Shown
  <2>6. SettingShown'
    BY <1>1, <2>1, <2>3, <2>4, <2>5 DEF ShownInv, SettingShown
  <2> QED BY <2>2, <2>6 DEF ShownInv
<1> QED BY <1>1, <1>4, <1>5 DEF SetCall

LEMMA ShownChanged ==
  ASSUME StateTypeOK, ShownInv, NEW k \in Kinds, NEW v \in Values, ChangedElsewhere(k, v)
  PROVE  ShownInv'
<1>1. /\ UNCHANGED <<call, device, guard>> /\ behind'[k]
      /\ \A j \in Kinds : behind[j] => behind'[j]
      /\ \A j \in Kinds : j # k => cloud'[j] = cloud[j] /\ behind'[j] = behind[j]
  BY DEF ChangedElsewhere, cloudVars, StateTypeOK
<1>2. /\ poll'.stage = poll.stage /\ poll'.answer = poll.answer
      /\ poll'.fresh = (poll.fresh /\ Polled # k)
      /\ Polled \in Kinds /\ Polled' = Polled
  BY DEF ChangedElsewhere, Outdated, StateTypeOK, PollType, Polled, Kinds
<1>3. \A u \in Setters :
        /\ setting'[u] = Overruled(setting[u], k)
        /\ setting'[u].kind = setting[u].kind /\ (setting'[u] # None <=> setting[u] # None)
        /\ setting'[u] # setting[u] => setting[u].kind = k /\ setting'[u].cloud = "changed"
        /\ setting[u].kind = k => setting'[u].cloud # "set"
  <2>1. \A u \in Setters : /\ setting'[u] = Overruled(setting[u], k)
                           /\ setting[u] \in {None} \cup SettingType
    BY DEF ChangedElsewhere, StateTypeOK
  <2> QED BY <2>1, OverruledOK
<1>4. OwnedInv'
  BY <1>1, <1>2, <1>3 DEF ShownInv, OwnedInv, Answered, At
<1>5. AnswerInv'
  BY <1>1, <1>2 DEF ShownInv, AnswerInv, Answered, At
<1>6. TakenInv'
  BY <1>1, <1>3 DEF ShownInv, TakenInv
<1>7. SettingShown'
  <2>1. \A u \in Setters, j \in Kinds : j # k /\ Writes(u, j) => Writes(u, j)'
    BY <1>1, <1>3 DEF Writes, Forgotten
  <2> QED BY <1>1, <2>1 DEF ShownInv, SettingShown, Shown
<1> QED BY <1>4, <1>5, <1>6, <1>7 DEF ShownInv

LEMMA ShownStep ==
  ASSUME CloudTypeOK, StateTypeOK, ShownInv, [Next]_vars
  PROVE  ShownInv'
<1>1. TasksOK
  BY TasksDiffer
<1> QED
  BY <1>1, ShownPush, ShownAside, ShownPollMoves, ShownPollServed, ShownPollReceived,
     ShownSetStart, ShownSetServed, ShownSetDone, ShownSetCall, ShownChanged
     DEF Next, Poll, Command

\* What an entity shows of a setting is what the cloud has, for any number of polls,
\* overlapping commands, pushes, sessions and changes elsewhere, but for the exceptions that
\* SettingShown names (get_device_list, get_station_list, update_param).
THEOREM SettingIsShown == Spec => []SettingShown
<1>1. Init => ShownInv
  BY CloudAssumption DEF Init, CloudInit, ShownInv, OwnedInv, AnswerInv, TakenInv, SettingShown,
     Answered, At, Idle, NoPoll, None, NewDevice, Shown, Kinds
<1>2. CloudTypeOK /\ StateTypeOK /\ ShownInv /\ [Next]_vars => ShownInv'
  BY ShownStep
<1>3. ShownInv => SettingShown
  BY DEF ShownInv
<1> QED
  BY <1>1, <1>2, <1>3, StateTypes, PTL DEF Spec, TypeOK

=============================================================================
