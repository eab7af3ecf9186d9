------------------------------ MODULE HttpClient ------------------------------
(***************************************************************************)
(* The HTTP client that the web and the native apps call the API with      *)
(* (packages/calendar-client): one request per call, repeated after        *)
(* failures with a growing delay.  An attempt is cut off by a timeout, but *)
(* only until the headers of its answer arrive: neither its body nor the   *)
(* request's own headers, which are resolved first, have one.              *)
(*                                                                         *)
(* An attempt that was cut off is still under way: the server may apply it *)
(* while the next one is already waiting, or long after the call has       *)
(* ended.  The network and the server are external; an answer is its class:*)
(*   ok       the request was applied                                      *)
(*   busy     408 or 429: the request was not processed                    *)
(*   error    5xx, before or after the request was applied                 *)
(*   refused  any other status, 401 and 403 among them: not applied        *)
(*   lost     no answer came (fetch throws)                                *)
(***************************************************************************)
EXTENDS Naturals, FiniteSets

CONSTANTS
    Calls,       \* the calls the app makes
    Idempotent,  \* the ones whose method may be repeated: IDEMPOTENT_METHODS
    Accounts,    \* accounts that are signed in, one after the other
    Retries      \* the client's retries

ASSUME ConstantsAssumption == Idempotent \subseteq Calls /\ Retries \in Nat

Attempts == 0..Retries
Answers == {"ok", "busy", "error", "refused", "lost"}
NoOne == "no one"

VARIABLES
    pc,       \* per call: "idle", "resolving" its headers, "sent", "reading"
              \* the answer, "wait", "ok" or "failed"
    attempt,  \* per call: the number of the current attempt
    headers,  \* per call: the account whose headers it carries
    net,      \* per attempt of a call: "none", "travelling" or its answer
    applied,  \* per call: the attempts the server has applied
    actedAs,  \* per call: the accounts it was applied for
    account   \* the account that is signed in

httpVars == <<pc, attempt, headers, net, applied, actedAs, account>>

HttpInit ==
    /\ pc = [c \in Calls |-> "idle"]
    /\ attempt = [c \in Calls |-> 0]
    /\ headers = [c \in Calls |-> NoOne]
    /\ net = [c \in Calls |-> [i \in Attempts |-> "none"]]
    /\ applied = [c \in Calls |-> {}]
    /\ actedAs = [c \in Calls |-> {}]
    /\ account \in Accounts

----------------------------------------------------------------------------
(* The client *)

Send(c, i) ==
    /\ pc' = [pc EXCEPT ![c] = "sent"]
    /\ attempt' = [attempt EXCEPT ![c] = i]
    /\ net' = [net EXCEPT ![c][i] = "travelling"]

Start(c) ==
    /\ pc[c] = "idle"
    /\ pc' = [pc EXCEPT ![c] = "resolving"]
    /\ UNCHANGED <<attempt, headers, net, applied, actedAs, account>>

\* makeRequest: the headers are resolved once per request, or cannot be.
Resolved(c) ==
    /\ pc[c] = "resolving"
    /\ \/ /\ Send(c, 0)
          /\ headers' = [headers EXCEPT ![c] = account]
       \/ /\ pc' = [pc EXCEPT ![c] = "failed"]
          /\ UNCHANGED <<attempt, headers, net>>
    /\ UNCHANGED <<applied, actedAs, account>>

\* Mutant: every failure is repeated.
RetryableAlways(c, answer) == answer \in {"busy", "error", "lost", "timeout"}

\* isRetryableError: a POST may already be applied when it fails or times out.
Retryable(c, answer) ==
    answer = "busy" \/ (c \in Idempotent /\ answer \in {"error", "lost", "timeout"})

\* Mutant: a failed attempt waits for its answer again.
SettleForever(c, answer) ==
    pc' = [pc EXCEPT ![c] =
              IF answer = "ok" THEN "ok" ELSE IF Retryable(c, answer) THEN "sent" ELSE "failed"]

\* The call repeats after a delay, or ends.
Settle(c, answer) ==
    pc' = [pc EXCEPT ![c] =
              IF answer = "ok" THEN "ok"
              ELSE IF attempt[c] < Retries /\ Retryable(c, answer) THEN "wait"
              ELSE "failed"]

\* The headers of an answer end the timeout; fetch may also throw.
Answered(c) ==
    /\ pc[c] = "sent"
    /\ \/ /\ net[c][attempt[c]] \in Answers \ {"lost"}
          /\ pc' = [pc EXCEPT ![c] = "reading"]
       \/ /\ net[c][attempt[c]] = "lost"
          /\ Settle(c, "lost")
    /\ UNCHANGED <<attempt, headers, net, applied, actedAs, account>>

\* The body has arrived; that of a success may break off or be unreadable.
BodyRead(c) ==
    /\ pc[c] = "reading"
    /\ \/ Settle(c, net[c][attempt[c]])
       \/ net[c][attempt[c]] = "ok" /\ (Settle(c, "lost") \/ Settle(c, "unreadable"))
    /\ UNCHANGED <<attempt, headers, net, applied, actedAs, account>>

\* AbortController: the client stops waiting; the attempt goes on.
Timeout(c) ==
    /\ pc[c] = "sent"
    /\ net[c][attempt[c]] = "travelling"
    /\ Settle(c, "timeout")
    /\ UNCHANGED <<attempt, headers, net, applied, actedAs, account>>

\* The delay is over.
Repeat(c) ==
    /\ pc[c] = "wait"
    /\ Send(c, attempt[c] + 1)
    /\ UNCHANGED <<headers, applied, actedAs, account>>

----------------------------------------------------------------------------
(* The network, the server, the user *)

\* The server applies the request, and its answer may not reach the client.
Apply(c, i) ==
    /\ net[c][i] = "travelling"
    /\ \E answer \in {"ok", "error", "lost"} : net' = [net EXCEPT ![c][i] = answer]
    /\ applied' = [applied EXCEPT ![c] = @ \cup {i}]
    /\ actedAs' = [actedAs EXCEPT ![c] = @ \cup {headers[c]}]
    /\ UNCHANGED <<pc, attempt, headers, account>>

Reject(c, i) ==
    /\ net[c][i] = "travelling"
    /\ \E answer \in {"busy", "error", "refused", "lost"} : net' = [net EXCEPT ![c][i] = answer]
    /\ UNCHANGED <<pc, attempt, headers, applied, actedAs, account>>

\* The user signs out, and someone signs in.
Switch ==
    /\ account' \in Accounts
    /\ UNCHANGED <<pc, attempt, headers, net, applied, actedAs>>

Timed(c) == Answered(c) \/ Timeout(c) \/ Repeat(c)
Client(c) == Start(c) \/ Resolved(c) \/ BodyRead(c) \/ Timed(c)
Network == \E c \in Calls, i \in Attempts : Apply(c, i) \/ Reject(c, i)

HttpNext == (\E c \in Calls : Client(c)) \/ Network \/ Switch

HttpSpec == HttpInit /\ [][HttpNext]_httpVars

\* Timers fire and what has arrived is handled.  No body need ever arrive, and
\* no headers need ever be resolved.
HttpFairSpec == HttpSpec /\ \A c \in Calls : WF_httpVars(Timed(c))

----------------------------------------------------------------------------
(* Properties *)

\* The state's types.
HttpTypeOK ==
    /\ pc \in [Calls -> {"idle", "resolving", "sent", "reading", "wait", "ok", "failed"}]
    /\ attempt \in [Calls -> Attempts]
    /\ headers \in [Calls -> Accounts \cup {NoOne}]
    /\ net \in [Calls -> [Attempts -> Answers \cup {"none", "travelling"}]]
    /\ applied \in [Calls -> SUBSET Attempts]
    /\ actedAs \in [Calls -> SUBSET (Accounts \cup {NoOne})]
    /\ account \in Accounts

\* A POST is applied at most once, however its attempts fail, time out or
\* arrive late.
PostAppliedOnce ==
    \A c \in Calls \ Idempotent : \A i, j \in applied[c] : i = j

\* A call that reports success was applied: no answer of an abandoned attempt
\* and no repeated attempt makes up a success.
SuccessWasApplied ==
    \A c \in Calls : pc[c] = "ok" => attempt[c] \in applied[c]

\* All attempts of a call act for one account, whoever signs in meanwhile.
OneIdentity ==
    \A c \in Calls : \A a, b \in actedAs[c] : a = b

\* A call that was sent ends within the retries it has, whatever the network
\* and the server do, unless the headers of an answer have come and its body
\* never does: that is the one wait of makeRequest after it has sent anything
\* that has no timeout (http-client.ts:253).
EveryCallEnds ==
    \A c \in Calls :
        pc[c] = "sent" ~> pc[c] \in {"ok", "failed"} \/ [](pc[c] = "reading")

\* What makes them inductive: a POST goes on only after attempts that were not
\* processed, attempts not yet made are nowhere, and what was applied was sent
\* with the call's one set of headers.
PostRepeatsUnprocessed ==
    \A c \in Calls \ Idempotent : \A i \in Attempts :
        (i < attempt[c] \/ pc[c] = "wait") /\ i <= attempt[c] => net[c][i] = "busy"

AttemptsInOrder ==
    \A c \in Calls : \A i \in Attempts :
        /\ i > attempt[c] => net[c][i] = "none"
        /\ pc[c] \in {"idle", "resolving"} => net[c][i] = "none" /\ attempt[c] = 0
        /\ pc[c] = "reading" => net[c][attempt[c]] \in Answers \ {"lost"}
        /\ i \in applied[c] => net[c][i] \in {"ok", "error", "lost"}
        /\ net[c][i] = "ok" => i \in applied[c]
        /\ pc[c] = "wait" => attempt[c] < Retries
        /\ pc[c] = "ok" => net[c][attempt[c]] = "ok"

HeadersKept ==
    \A c \in Calls :
        actedAs[c] \subseteq {headers[c]} /\ (pc[c] \in {"idle", "resolving"} => actedAs[c] = {})

HttpInv == HttpTypeOK /\ PostRepeatsUnprocessed /\ AttemptsInOrder /\ HeadersKept
=============================================================================
