------------------------------- MODULE CloudApi -------------------------------
(***************************************************************************)
(* The HTTP client of the Eufy cloud, lib/cloud_api.py: the life of one    *)
(* call of _post by one task of Home Assistant (the poll, an entity's      *)
(* command, a P2P handshake that fetches a cipher).  Tasks share the       *)
(* client's token and the key its responses are decrypted with, and every  *)
(* await lets another task in: a login of one task changes both under a    *)
(* request of another.                                                     *)
(*                                                                         *)
(* The cloud is external: each login opens a session with a key of its own *)
(* and ends the one before ("another session kicked us", coordinator.py),  *)
(* a request of an ended session is answered with 401, and requests and    *)
(* answers may be lost.  Time is abstracted: the rate limiter delays a     *)
(* call or does not.  Sessions are numbered: session number i has token i  *)
(* and key i, except that the answer to a login may name no public key of  *)
(* the server: then the client falls back on the default one, and what the *)
(* cloud encrypts with is anybody's guess.                                 *)
(***************************************************************************)
EXTENDS Integers

CONSTANTS
  Tasks,          \* the tasks that call the cloud
  POLL,           \* the one among them that is the coordinator's poll
  Attempts,       \* attempts at a request, and at a login of a poll: 3 in the code
  MaxSessions     \* bound: sessions opened with the cloud

ASSUME CloudAssumption ==
  /\ POLL \in Tasks
  /\ Attempts \in Nat \ {0}
  /\ MaxSessions \in Nat

VARIABLES
  session,    \* cloud: the newest session, the one that is valid
  token,      \* _auth_token
  nameless,   \* cloud: sessions whose login named no server_secret_info.public_key
  sharedKey,  \* _shared_key: the session it belongs to, or DefaultKey
  call        \* [Tasks -> the call each task has in progress]

cloudVars == <<session, nameless, token, sharedKey, call>>

\* The key computed from SERVER_PUBLIC_KEY_DEFAULT; no session has this number.
DefaultKey == -1

\* The client's key once it has logged in to session s.
KeyOf(s) == IF s \in nameless THEN DefaultKey ELSE s

\* Where a call stands: pc; the attempt it makes; the session the request was
\* sent under, or the one a login has opened; the cloud's answer; what follows a
\* login; and (history) whether another login has completed since it was sent.
Call == [pc : {"idle", "limited", "ready", "asked", "answered",
               "login", "loggedIn", "backoff"},
         attempt : 0 .. Attempts - 1,
         session : Nat,
         answer : {"none", "ok", "refused", "401"},
         after : {"retry", "request", "end"},
         since : BOOLEAN]

Idle == [pc |-> "idle", attempt |-> 0, session |-> 0, answer |-> "none",
         after |-> "retry", since |-> FALSE]

LastAttempt(t) == call[t].attempt = Attempts - 1

\* The call goes to pc with the fields of r changed.
Goto(t, c) == call' = [call EXCEPT ![t] = c]
At(t, pc) == call[t].pc = pc

\* The request is not under way any more, and the call goes on from pc.
Again(t, pc) == Goto(t, [Idle EXCEPT !.pc = pc, !.attempt = call[t].attempt])

\* The client starts with the token and the key of the config entry, whose login may
\* have named no key either (persistent_data then gives the default one).
CloudInit ==
  /\ session = 0
  /\ nameless \in {{}, {0}}
  /\ token = 0
  /\ sharedKey = KeyOf(0)
  /\ call = [t \in Tasks |-> Idle]

-----------------------------------------------------------------------------
(* _post and _rate_limited_request. *)

\* The limiter lets the call through or puts it to sleep, once.
Begin(t) ==
  /\ At(t, "idle")
  /\ \E pc \in {"limited", "ready"} : Goto(t, [Idle EXCEPT !.pc = pc])
  /\ UNCHANGED <<session, nameless, token, sharedKey>>

Wake(t) ==
  /\ At(t, "limited")
  /\ Goto(t, [call[t] EXCEPT !.pc = "ready"])
  /\ UNCHANGED <<session, nameless, token, sharedKey>>

\* session.request, with the token of this moment in _headers.
Send(t) ==
  /\ At(t, "ready")
  /\ Goto(t, [call[t] EXCEPT !.pc = "asked", !.session = token, !.since = FALSE])
  /\ UNCHANGED <<session, nameless, token, sharedKey>>

\* The cloud answers, with code 0 or another one.
Serve(t, answer) ==
  /\ At(t, "asked")
  /\ answer \in IF call[t].session = session THEN {"ok", "refused"} ELSE {"401"}
  /\ Goto(t, [call[t] EXCEPT !.pc = "answered", !.answer = answer])
  /\ UNCHANGED <<session, nameless, token, sharedKey>>

\* The request or the answer is lost (aiohttp.ClientError): the request is tried
\* again after a pause; or the call fails.
Lost(t) ==
  /\ At(t, "asked") \/ At(t, "answered")
  /\ ~LastAttempt(t)
  /\ Again(t, "backoff")
  /\ UNCHANGED <<session, nameless, token, sharedKey>>

\* Mutant: a retry is not counted.
MutantRetry(t) ==
  /\ At(t, "backoff")
  /\ Goto(t, [call[t] EXCEPT !.pc = "ready"])
  /\ UNCHANGED <<session, nameless, token, sharedKey>>

Retry(t) ==
  /\ At(t, "backoff")
  /\ Goto(t, [call[t] EXCEPT !.pc = "ready", !.attempt = @ + 1])
  /\ UNCHANGED <<session, nameless, token, sharedKey>>

Unauthorized(t) ==
  /\ At(t, "answered")
  /\ call[t].answer = "401"
  /\ Again(t, "login")
  /\ UNCHANGED <<session, nameless, token, sharedKey>>

\* The call ends with an exception: the last attempt was lost, or one timed out
\* (TimeoutError is no ClientError: no further attempt), or the code was not 0.
Fail(t) ==
  /\ At(t, "asked") \/ At(t, "answered")
  /\ Goto(t, Idle)
  /\ UNCHANGED <<session, nameless, token, sharedKey>>

\* The response comes in and _decrypt_response gets the list or object out of it.
\* For a session without a named key the default one may be what the cloud used.
Received(t) ==
  /\ At(t, "answered")
  /\ call[t].answer = "ok"
  /\ \/ call[t].session = sharedKey
     \/ sharedKey = DefaultKey /\ call[t].session \in nameless
  /\ Goto(t, Idle)
  /\ UNCHANGED <<session, nameless, token, sharedKey>>

\* It is encrypted with another key, of a session the client has forgotten or one it
\* was never told: what _decrypt_response returns is not a list, and the caller takes
\* it for an empty one; no exception is raised.
Garbled(t) ==
  /\ At(t, "answered")
  /\ call[t].answer = "ok"
  /\ call[t].session # sharedKey
  /\ Goto(t, Idle)
  /\ UNCHANGED <<session, nameless, token, sharedKey>>

-----------------------------------------------------------------------------
(* login *)

\* refresh_data: the token expires within a day.
BeginLogin ==
  /\ At(POLL, "idle")
  /\ Goto(POLL, [Idle EXCEPT !.pc = "login", !.after = "request"])
  /\ UNCHANGED <<session, nameless, token, sharedKey>>

\* The cloud opens a session, and ends the previous one, before the client hears of it.
\* Its answer names a key or does not.
LoginServe(t) ==
  /\ At(t, "login")
  /\ session < MaxSessions
  /\ session' = session + 1
  /\ nameless' \in {nameless, nameless \cup {session + 1}}
  /\ Goto(t, [call[t] EXCEPT !.pc = "loggedIn", !.session = session + 1])
  /\ UNCHANGED <<token, sharedKey>>

\* What a task with call c does after its login: a 401 counts as an attempt, and
\* after the last one the call fails with "Max retries exceeded".
AfterLogin(c) ==
  CASE c.after = "retry" -> IF c.attempt = Attempts - 1 THEN Idle
                            ELSE [Idle EXCEPT !.pc = "ready", !.attempt = c.attempt + 1]
    [] c.after = "request" -> [Idle EXCEPT !.pc = "ready"]
    [] c.after = "end" -> Idle

\* Requests that are on their way when a login completes.
Overtaken(c) == IF c.pc \in {"asked", "answered"} THEN [c EXCEPT !.since = TRUE] ELSE c

\* Mutant: the server's new public key is not put to use.
MutantLoginReceive(t) ==
  /\ At(t, "loggedIn")
  /\ token' = call[t].session
  /\ call' = [u \in Tasks |-> IF u = t THEN AfterLogin(call[t]) ELSE Overtaken(call[u])]
  /\ UNCHANGED <<session, nameless, sharedKey>>

\* Token and key are replaced together, without an await in between: by the session's
\* own key, or by the default one ("response decryption may fail").
LoginReceive(t) ==
  /\ At(t, "loggedIn")
  /\ token' = call[t].session
  /\ sharedKey' = KeyOf(call[t].session)
  /\ call' = [u \in Tasks |-> IF u = t THEN AfterLogin(call[t]) ELSE Overtaken(call[u])]
  /\ UNCHANGED <<session, nameless>>

\* The login is refused: a verification code or a CAPTCHA is demanded, or there
\* is another reason, and the call fails.
LoginRefused(t) ==
  /\ At(t, "login")
  /\ Goto(t, Idle)
  /\ UNCHANGED <<session, nameless, token, sharedKey>>

\* A poll that got an AuthenticationError calls _login_with_retry, and is over
\* when that is.  On a conflict it tries again, after a pause.
Relogin ==
  /\ At(POLL, "login")
  /\ call[POLL].after = "end" => ~LastAttempt(POLL)
  /\ Goto(POLL, [Idle EXCEPT !.pc = "login", !.after = "end",
                  !.attempt = IF call[POLL].after = "end" THEN call[POLL].attempt + 1 ELSE 0])
  /\ UNCHANGED <<session, nameless, token, sharedKey>>

\* A lost login is a lost attempt of the request it was made for.
LoginLost(t) ==
  /\ At(t, "login") \/ At(t, "loggedIn")
  /\ Goto(t, IF call[t].after = "retry" /\ ~LastAttempt(t)
               THEN [Idle EXCEPT !.pc = "backoff", !.attempt = call[t].attempt] ELSE Idle)
  /\ UNCHANGED <<session, nameless, token, sharedKey>>

\* Another app logs in to the account.
Kicked ==
  /\ session < MaxSessions
  /\ session' = session + 1
  /\ UNCHANGED <<nameless, token, sharedKey, call>>

Step(t) ==
  \/ Begin(t) \/ Wake(t) \/ Send(t) \/ (\E a \in {"ok", "refused", "401"} : Serve(t, a))
  \/ Lost(t) \/ Retry(t) \/ Unauthorized(t) \/ Fail(t) \/ Received(t) \/ Garbled(t)
  \/ LoginServe(t) \/ LoginReceive(t) \/ LoginRefused(t) \/ LoginLost(t)

CloudNext == BeginLogin \/ Relogin \/ Kicked \/ \E t \in Tasks : Step(t)

CloudSpec == CloudInit /\ [][CloudNext]_cloudVars

-----------------------------------------------------------------------------
CloudTypeOK ==
  /\ session \in Nat
  /\ nameless \subseteq Nat
  /\ token \in Nat
  /\ sharedKey \in Nat \cup {DefaultKey}
  /\ call \in [Tasks -> Call]

\* A response is taken for an empty list for one of two reasons only: another task's
\* login has completed while the request was on its way, or the login it was sent
\* under named no key ("response decryption may fail", login).  Whatever tasks log in
\* and in which order, token and key are of the same login (_headers,
\* _decrypt_response): a later login that does name a key puts an end to it.
GarbledOnlyAfterLogin ==
  [][\A t \in Tasks : Garbled(t) => call[t].since \/ call[t].session \in nameless]_cloudVars

\* How far a call is from its end: what is left of its attempts (the login before
\* the first one and those after the last included), and of the present one.
Rank == [idle |-> 0, backoff |-> 1, loggedIn |-> 2, login |-> 3, answered |-> 4,
         asked |-> 5, ready |-> 6, limited |-> 7]

AttemptsLeft(c) ==
  CASE c.pc = "idle" -> 0
    [] c.pc \in {"login", "loggedIn"} /\ c.after = "request" -> 2 * Attempts
    [] c.pc \in {"login", "loggedIn"} /\ c.after = "end" -> Attempts - 1 - c.attempt
    [] OTHER -> 2 * Attempts - 1 - c.attempt

StepsLeft(c) == 8 * AttemptsLeft(c) + Rank[c.pc]

\* Every call comes to an end: whatever is lost or refused, and however often
\* another login invalidates its token, each of its steps brings it nearer
\* (attempts are bounded in _rate_limited_request and _login_with_retry).
CallsEnd ==
  [][\A t \in Tasks :
       \/ call[t].pc = "idle"
       \/ call'[t] \in {call[t], Overtaken(call[t])}
       \/ StepsLeft(call'[t]) < StepsLeft(call[t])]_cloudVars
=============================================================================
