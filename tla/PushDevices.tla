----------------------------- MODULE PushDevices -----------------------------
(***************************************************************************)
(* Which account a phone's push token belongs to: the registration and the *)
(* sign-out of the native apps (push-notifications.ts, PushProvider,       *)
(* AuthProvider), the API that keeps the rows (push_devices.rs), and the   *)
(* worker that deletes the ones it thinks are dead.                        *)
(*                                                                         *)
(* There is one phone with one token: token_hash is unique, so the token   *)
(* has at most one row, and a row is the account it delivers to.  A request*)
(* the phone has given up on may still be under way on the server.         *)
(***************************************************************************)
EXTENDS Naturals, FiniteSets

CONSTANTS
    Accounts,  \* the accounts that use the phone
    NoOne,     \* no account
    Scenarios  \* what may happen besides, and how often

Behaviours == {"restart",  \* the app is killed and launched again
               "kill",     \* also in the middle of a sign-out
               "force",    \* the notification settings register the phone anew
               "denied",   \* the phone may not notify
               "fail",     \* requests do not reach the server, secure storage refuses
               "late",     \* the phone gives up on a request that goes on
               "overlap",  \* a registration is under way, here or on the server, at sign-out
               "revoke",   \* the server ends the session
               "age"}      \* the row's last_seen_at is 180 days old

\* acts bounds the sign-ins, restarts, forced registrations and losses.
ASSUME PushAssumption ==
    /\ NoOne \notin Accounts
    /\ Scenarios \subseteq [may : SUBSET Behaviours, acts : Nat]

VARIABLES
    scenario, \* the one that holds, for good
    account,  \* who is signed in on the phone
    jar,      \* whose session the cookie jar has
    live,     \* accounts whose session on the phone the server recognises
    stored,   \* PUSH_TOKEN is in secure storage
    inherited,\* the stored token was there before the last sign-in
    last,     \* lastRegisteredToken is the token
    due,      \* the effect of PushProvider has not yet reached the registration
    reg,      \* the registration in flight: its step, and its request
    leave,    \* the sign-out in flight: its step, its account and its request
    reqs,     \* requests the server works on
    row,      \* the account the token's row belongs to
    told,     \* the last registration since sign-in or launch reported success
    acts

vars == <<scenario, account, jar, live, stored, inherited, last, due, reg, leave, reqs, row, told, acts>>
phone == <<account, jar, stored, inherited, last, due, reg, leave, told, acts>>

May(b) == b \in scenario.may

NoReg == [pc |-> "idle", req |-> 0]
NoLeave == [pc |-> "idle", acct |-> NoOne, req |-> 0]

Act == acts < scenario.acts /\ acts' = acts + 1

Init ==
    /\ scenario \in Scenarios
    /\ account = NoOne /\ jar = NoOne /\ live = {}
    /\ stored = FALSE /\ inherited = FALSE /\ last = FALSE /\ due = FALSE
    /\ reg = NoReg /\ leave = NoLeave
    /\ reqs = {} /\ row = NoOne
    /\ told = FALSE /\ acts = 0

\* A fresh number for a request.
Fresh == CHOOSE n \in 1..(Cardinality(reqs) + 1) : \A r \in reqs : r.id # n
Ask(kind, acct) ==
    reqs' = reqs \cup {[id |-> Fresh, kind |-> kind, acct |-> acct, pc |-> "new", found |-> NoOne, ok |-> FALSE]}

\* A request carries its session: one the server has not looked at by the time
\* the session is over is refused, whoever has signed in since.
SessionOver(a) ==
    /\ live' = live \ {a}
    /\ reqs' = {IF r.acct = a /\ r.pc = "new" THEN [r EXCEPT !.pc = "done"] ELSE r : r \in reqs}

----------------------------------------------------------------------------
(* Registering *)

SignIn(a) ==
    /\ Act
    /\ account = NoOne
    /\ account' = a /\ jar' = a /\ live' = live \cup {a} /\ due' = TRUE /\ told' = FALSE
    /\ inherited' = stored
    /\ UNCHANGED <<scenario, stored, last, reg, leave, reqs, row>>

\* registerNativePushDevice up to its first await: nothing to do when this run
\* of the app has registered the token, and one request for all callers.
Register ==
    /\ due /\ account # NoOne
    /\ due' = FALSE
    /\ told' = (told \/ last)
    /\ reg' = IF last \/ reg.pc # "idle" THEN reg ELSE [NoReg EXCEPT !.pc = "read"]
    /\ UNCHANGED <<scenario, account, jar, live, stored, inherited, last, leave, reqs, row, acts>>

\* The effect ends without the permission to notify.
Denied ==
    /\ May("denied") /\ due
    /\ due' = FALSE
    /\ UNCHANGED <<scenario, account, jar, live, stored, inherited, last, reg, leave, reqs, row, told, acts>>

\* refreshRegistration: with force, the stored token is not looked at.
RefreshRegistration ==
    /\ May("force") /\ Act
    /\ account # NoOne /\ reg.pc = "idle"
    /\ leave.pc # "idle" => May("overlap")
    /\ reg' = [NoReg EXCEPT !.pc = "ask"]
    /\ told' = FALSE
    /\ UNCHANGED <<scenario, account, jar, live, stored, inherited, last, due, leave, reqs, row>>

\* A stored token has been registered before: the request is saved.  One that
\* cannot be read counts as none.
ReadStored ==
    /\ reg.pc = "read"
    /\ \/ (stored \/ last) /\ last' = TRUE /\ told' = TRUE /\ reg' = NoReg
       \/ /\ ~last /\ (~stored \/ May("fail"))
          /\ reg' = [reg EXCEPT !.pc = "ask"] /\ UNCHANGED <<last, told>>
    /\ UNCHANGED <<scenario, account, jar, live, stored, inherited, due, leave, reqs, row, acts>>

\* The request carries the session that is in the jar now.
AskRegister ==
    /\ reg.pc = "ask"
    /\ \/ account # NoOne /\ Ask("register", account)
          /\ reg' = [pc |-> "asked", req |-> Fresh]
       \/ (account = NoOne \/ May("fail")) /\ reg' = NoReg /\ UNCHANGED reqs
    /\ UNCHANGED <<scenario, account, jar, live, stored, inherited, last, due, leave, row, told, acts>>

\* Mutant: without the finally, a refusal leaves registerInFlight set.
RegisteredNeverRefused ==
    /\ reg.pc = "asked"
    /\ \E r \in reqs :
        /\ r.id = reg.req /\ r.pc = "done" /\ r.ok
        /\ reqs' = reqs \ {r}
        /\ reg' = [NoReg EXCEPT !.pc = "persist"]
    /\ UNCHANGED <<scenario, account, jar, live, stored, inherited, last, due, leave, row, told, acts>>

RegisterAnswered ==
    /\ reg.pc = "asked"
    /\ \E r \in reqs :
        /\ r.id = reg.req /\ r.pc = "done"
        /\ reqs' = reqs \ {r}
        /\ reg' = IF r.ok THEN [NoReg EXCEPT !.pc = "persist"] ELSE NoReg
    /\ UNCHANGED <<scenario, account, jar, live, stored, inherited, last, due, leave, row, told, acts>>

\* The phone has waited long enough; the server has not.
GiveUp ==
    /\ May("late") /\ Act
    /\ \/ reg.pc = "asked" /\ reg' = NoReg /\ UNCHANGED leave
       \/ leave.pc = "asked" /\ leave' = [leave EXCEPT !.pc = "clear"] /\ UNCHANGED reg
    /\ UNCHANGED <<scenario, account, jar, live, stored, inherited, last, due, reqs, row, told>>

\* A token that cannot be stored is not known to be registered.
Persist ==
    /\ reg.pc = "persist"
    /\ \/ stored' = TRUE /\ inherited' = FALSE /\ last' = TRUE /\ told' = TRUE
       \/ May("fail") /\ UNCHANGED <<stored, inherited, last, told>>
    /\ reg' = NoReg
    /\ UNCHANGED <<scenario, account, jar, live, due, leave, reqs, row, acts>>

----------------------------------------------------------------------------
(* Signing out *)

\* Mutant: the session ends first.
SignOutFirst ==
    /\ account # NoOne /\ leave.pc = "idle"
    /\ (due \/ reg.pc # "idle" \/ reqs # {}) => May("overlap")
    /\ leave' = [NoLeave EXCEPT !.pc = "read", !.acct = account]
    /\ SessionOver(account)
    /\ UNCHANGED <<scenario, account, jar, stored, inherited, last, due, reg, row, told, acts>>

\* The first step of signOut: the headers are kept for the requests below.
SignOut ==
    /\ account # NoOne /\ leave.pc = "idle"
    /\ (due \/ reg.pc # "idle" \/ reqs # {}) => May("overlap")
    /\ leave' = [NoLeave EXCEPT !.pc = "read", !.acct = account]
    /\ UNCHANGED <<scenario, account, jar, live, stored, inherited, last, due, reg, reqs, row, told, acts>>

\* unregisterNativePushDevice: without a stored token there is nothing to do.
AskUnregister ==
    /\ leave.pc = "read"
    /\ \/ stored /\ Ask("unregister", leave.acct)
          /\ leave' = [leave EXCEPT !.pc = "asked", !.req = Fresh]
       \/ stored /\ May("fail") /\ leave' = [leave EXCEPT !.pc = "clear"] /\ UNCHANGED reqs
       \/ (~stored \/ May("fail")) /\ leave' = [leave EXCEPT !.pc = "server"] /\ UNCHANGED reqs
    /\ UNCHANGED <<scenario, account, jar, live, stored, inherited, last, due, reg, row, told, acts>>

UnregisterAnswered ==
    /\ leave.pc = "asked"
    /\ \E r \in reqs :
        /\ r.id = leave.req /\ r.pc = "done"
        /\ reqs' = reqs \ {r}
    /\ leave' = [leave EXCEPT !.pc = "clear"]
    /\ UNCHANGED <<scenario, account, jar, live, stored, inherited, last, due, reg, row, told, acts>>

\* Mutant: the token of this run of the app stays.
KeepLast ==
    /\ leave.pc = "clear"
    /\ stored' = FALSE /\ inherited' = FALSE
    /\ leave' = [leave EXCEPT !.pc = "server"]
    /\ UNCHANGED <<scenario, account, jar, live, last, due, reg, reqs, row, told, acts>>

\* clearStoredPushToken: a deletion that fails is not heard of.
ClearStored ==
    /\ leave.pc = "clear"
    /\ \/ stored' = FALSE /\ inherited' = FALSE
       \/ May("fail") /\ UNCHANGED <<stored, inherited>>
    /\ last' = FALSE
    /\ leave' = [leave EXCEPT !.pc = "server"]
    /\ UNCHANGED <<scenario, account, jar, live, due, reg, reqs, row, told, acts>>

\* The client empties the jar and asks; the server ends the session, and the
\* state is cleared in any case.
SignedOut ==
    /\ leave.pc = "server"
    /\ \/ SessionOver(leave.acct)
       \/ May("fail") /\ UNCHANGED <<live, reqs>>
    /\ account' = NoOne /\ jar' = NoOne /\ due' = FALSE
    /\ leave' = NoLeave
    /\ UNCHANGED <<scenario, stored, inherited, last, reg, row, told, acts>>

Revoke ==
    /\ May("revoke") /\ Act
    /\ account \in live /\ SessionOver(account)
    /\ UNCHANGED <<scenario, account, jar, stored, inherited, last, due, reg, leave, row, told>>

\* endSession: the phone finds its session ended; the token stays registered.
EndSession ==
    /\ account # NoOne /\ account \notin live /\ leave.pc = "idle"
    /\ account' = NoOne /\ due' = FALSE
    /\ UNCHANGED <<scenario, jar, live, stored, inherited, last, reg, leave, reqs, row, told, acts>>

\* The app is killed and launched: what is in memory is lost.  A launch that
\* cannot ask for the session shows none, and leaves the cookie and the token.
Restart ==
    /\ May("restart") /\ Act
    /\ leave.pc # "idle" => May("kill")
    /\ \/ account' = IF jar \in live THEN jar ELSE NoOne
       \/ May("fail") /\ (reqs # {} => May("overlap")) /\ account' = NoOne
    /\ last' = FALSE /\ due' = (account' # NoOne) /\ told' = FALSE
    /\ reg' = NoReg /\ leave' = NoLeave
    /\ UNCHANGED <<scenario, jar, live, stored, inherited, reqs, row>>

----------------------------------------------------------------------------
(* The server *)

Becomes(r, s) == reqs' = (reqs \ {r}) \cup {s}
Done(r, ok) == Becomes(r, [r EXCEPT !.pc = "done", !.ok = ok])

\* The session is checked, and the row with the token's hash is read.
Lookup(r) ==
    /\ r.kind = "register" /\ r.pc = "new"
    /\ IF r.acct \in live THEN Becomes(r, [r EXCEPT !.pc = "found", !.found = row])
       ELSE Done(r, FALSE)
    /\ UNCHANGED <<scenario, phone, live, row>>

\* Mutant: the other account keeps its row.
ReplaceKeepsRow(r) ==
    /\ r.kind = "register" /\ r.pc = "found" /\ r.found \notin {NoOne, r.acct}
    /\ Done(r, TRUE)
    /\ UNCHANGED <<scenario, phone, live, row>>

\* Another account's row is deleted by its id; a row that account has written
\* anew in between counts as the same one.
Replace(r) ==
    /\ r.kind = "register" /\ r.pc = "found" /\ r.found \notin {NoOne, r.acct}
    /\ row' = IF row = r.found THEN NoOne ELSE row
    /\ Becomes(r, [r EXCEPT !.found = NoOne])
    /\ UNCHANGED <<scenario, phone, live>>

\* An insert, or an update of the account's own row; the hash is unique.
Upsert(r) ==
    /\ r.kind = "register" /\ r.pc = "found" /\ r.found \in {NoOne, r.acct}
    /\ IF row \in {NoOne, r.acct}
       THEN row' = r.acct /\ Done(r, TRUE)
       ELSE UNCHANGED row /\ Done(r, FALSE)
    /\ UNCHANGED <<scenario, phone, live>>

\* delete_for: only a row of the caller.
Unregister(r) ==
    /\ r.kind = "unregister" /\ r.pc = "new"
    /\ row' = (IF r.acct \in live /\ row = r.acct THEN NoOne ELSE row)
    /\ Done(r, r.acct \in live)
    /\ UNCHANGED <<scenario, phone, live>>

\* Nobody waits for the answer any more.
Forgotten(r) ==
    /\ r.pc = "done" /\ r.id # reg.req /\ r.id # leave.req
    /\ reqs' = reqs \ {r}
    /\ UNCHANGED <<scenario, phone, live, row>>

\* The retention rule of the worker; the app is to register on its next launch.
Retention ==
    /\ May("age") /\ Act
    /\ row # NoOne /\ ~due /\ reg.pc = "idle" /\ leave.pc = "idle" /\ reqs = {}
    /\ row' = NoOne /\ told' = FALSE
    /\ UNCHANGED <<scenario, account, jar, live, stored, inherited, last, due, reg, leave, reqs>>

Server == \E r \in reqs :
    Lookup(r) \/ Replace(r) \/ Upsert(r) \/ Unregister(r) \/ Forgotten(r)

\* What the app does by itself, once its requests are answered.
Own ==
    \/ Register \/ ReadStored \/ AskRegister \/ RegisterAnswered \/ Persist
    \/ AskUnregister \/ UnregisterAnswered \/ ClearStored

App == Own \/ Denied \/ SignedOut \/ EndSession

Next ==
    \/ App \/ Server \/ RefreshRegistration \/ GiveUp \/ SignOut \/ Revoke \/ Restart \/ Retention
    \/ \E a \in Accounts : SignIn(a)

Spec == Init /\ [][Next]_vars

\* Promises go on, and secure storage answers or fails.  No request need ever
\* be answered: the body of an answer has no timeout, the sign-out has none.
FairSpec == Spec /\ WF_vars(Own)

----------------------------------------------------------------------------
(* Properties *)

\* The types of the phone's state and of the server's.
TypeOK ==
    /\ scenario \in Scenarios
    /\ {account, jar, row, leave.acct} \subseteq Accounts \cup {NoOne}
    /\ live \subseteq Accounts
    /\ {stored, inherited, last, due, told} \subseteq BOOLEAN
    /\ \A r \in reqs : r.kind \in {"register", "unregister"} /\ r.acct \in Accounts
    /\ acts \in 0..scenario.acts

Settled == ~due /\ reg.pc = "idle" /\ leave.pc = "idle" /\ reqs = {}

Only(behaviours) == scenario.may \subseteq behaviours

\* A phone whose registration has succeeded receives the notifications of the
\* account that is signed in on it, and of no other, although requests and
\* secure storage fail, a launch finds no session and a sign-out may have left
\* the row of the last account.  The one exception is a stored token that has
\* outlived the session of another account (push-notifications.ts:180).
DeliversToAccount ==
    Only({"restart", "force", "denied", "fail"}) /\ Settled /\ account \in live /\ told /\ ~inherited
        => row = account

\* A phone on which nobody is signed in receives nothing, when its requests
\* reached the server and no registration was under way at sign-out.
SignedOutIsSilent ==
    Only({"restart", "force"}) /\ Settled /\ account = NoOne => row = NoOne

\* The answer has not come.
Unanswered(x) == x.pc = "asked" /\ \A r \in reqs : r.id = x.req => r.pc # "done"

\* A registration in flight holds off every other one, and a sign-out keeps the
\* account until its last step: whatever fails or is given up, both come to an
\* end, unless one of their own requests is never answered.
InFlightEnds ==
    /\ reg.pc # "idle" ~> (reg.pc = "idle" \/ []Unanswered(reg))
    /\ leave.pc # "idle" ~>
           (leave.pc = "idle" \/ [](Unanswered(leave) \/ leave.pc = "server"))

\* Whoever signs in on a phone that may notify is registered, unless the
\* session ends before or the server never answers; no trace of the account
\* before keeps the app from asking.
Registers ==
    \A a \in Accounts :
        (Only({"restart", "force"}) /\ account = a /\ due) ~>
            (row = a \/ account # a \/ []Unanswered(reg))
=============================================================================
