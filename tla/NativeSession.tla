---------------------------- MODULE NativeSession ----------------------------
(***************************************************************************)
(* The session of the native apps (packages/native-core): what AuthProvider*)
(* shows, the cookie jar in secure storage, the fallback token in memory,  *)
(* and the requests that read, renew, confirm and end them.                *)
(*                                                                         *)
(* A session is its token; sign-ins mint tokens in order.  Each task is a  *)
(* promise chain: it reads the jar when it sends, waits for the server,    *)
(* and then writes to a jar and to a state that other tasks have changed.  *)
(* Every stretch between two awaits is one step, and so is the server's    *)
(* answer.  The Better Auth client is external: it sends the jar's token,  *)
(* stores the cookies of an answer, and empties the jar as it asks to sign *)
(* out.                                                                    *)
(***************************************************************************)
EXTENDS Naturals, FiniteSets

CONSTANTS
    MaxTokens,  \* bound: sign-ins the server accepts
    Scenarios   \* what may happen besides, and how often the user acts

Behaviours == {"restart",      \* the app is killed and started again
               "fail",         \* requests fail
               "revoke",       \* the server ends a session
               "refreshUser",  \* the profile is read again after a change
               "confirm",      \* a refused call asks whether the session is over
               "lostCookie",   \* a sign-in is answered without its cookie
               "hasty"}        \* a sign-in begins before the first check is answered

\* acts bounds the sign-ins tried, restarts, calls and refreshes.
ASSUME SessionAssumption ==
    /\ MaxTokens \in Nat
    /\ Scenarios \subseteq [may : SUBSET Behaviours, acts : Nat]

Tokens == 1..MaxTokens
Kinds == {"load", "refresh", "refreshUser", "confirm", "call", "signIn", "signOut"}
Idle == [pc |-> "idle", sent |-> 0, got |-> 0, id |-> 0]
Error == MaxTokens + 1

VARIABLES
    scenario,  \* the one that holds, for good
    valid,     \* tokens of the sessions the server recognises
    minted,    \* how many tokens were minted
    jar,       \* the session token in the cookie jar on disk, or 0
    fallback,  \* the last known token in memory, or 0
    shown,     \* the session the app shows, or 0: signed out
    hasLive,   \* hasLiveSessionRef
    loadId,    \* sessionLoadIdRef
    loading,   \* isLoading
    task,      \* the running promise of each kind
    out,       \* tokens whose session the user has ended
    misjudged, \* a session was wiped that neither the user nor the server had ended
    acts

vars == <<scenario, valid, minted, jar, fallback, shown, hasLive, loadId, loading, task, out,
          misjudged, acts>>
state == <<fallback, shown, hasLive, loadId>>

May(b) == b \in scenario.may

Start(pc, sent) == [pc |-> pc, sent |-> sent, got |-> 0, id |-> loadId]

\* A start of the app: the load effect runs first.
Init ==
    /\ scenario \in Scenarios
    /\ valid = {} /\ minted = 0
    /\ jar = 0 /\ fallback = 0 /\ shown = 0
    /\ hasLive = FALSE /\ loadId = 1 /\ loading = TRUE
    /\ task = [[k \in Kinds |-> Idle] EXCEPT !["load"] = [Idle EXCEPT !.pc = "ask", !.id = 1]]
    /\ out = {} /\ misjudged = FALSE /\ acts = 0

----------------------------------------------------------------------------
(* The pieces the tasks are made of *)

Go(k, pc) == task' = [task EXCEPT ![k].pc = pc]
End(k) == task' = [task EXCEPT ![k] = Idle]

\* getSessionCookie: the jar's token, else the fallback.
Header == IF jar # 0 THEN jar ELSE fallback

\* applySessionData
Apply(t) ==
    /\ fallback' = IF fallback = 0 THEN t ELSE fallback
    /\ hasLive' = TRUE
    /\ shown' = t
    /\ UNCHANGED loadId

\* clearSession
Clear ==
    /\ loadId' = loadId + 1
    /\ hasLive' = FALSE
    /\ fallback' = 0
    /\ shown' = 0

\* endSession: clear, and wipe what the session left on the device.
EndSession ==
    /\ Clear
    /\ misjudged' = (misjudged \/ (shown \in valid /\ task["signOut"].pc = "idle"))

\* The Better Auth client sends the jar's token; the fallback is not known to it.
Ask(k) ==
    /\ task[k].pc = "ask"
    /\ task' = [task EXCEPT ![k].pc = "asked", ![k].sent = jar]
    /\ UNCHANGED <<scenario, valid, minted, jar, state, loading, out, misjudged, acts>>

\* The session behind the token, or none, or no answer at all.
Serve(k) ==
    /\ task[k].pc = "asked" /\ k # "signIn"
    /\ \/ task' = [task EXCEPT ![k].pc = "answered",
                              ![k].got = IF task[k].sent \in valid THEN task[k].sent ELSE 0]
       \/ May("fail") /\ task' = [task EXCEPT ![k].pc = "answered", ![k].got = Error]
    /\ UNCHANGED <<scenario, valid, minted, jar, state, loading, out, misjudged, acts>>

\* The client stores the cookies of the answer before the caller sees it.  An
\* answer without a session deletes the cookie, which the store puts back.
Stores(got) == jar' = IF got \in Tokens THEN got ELSE jar

----------------------------------------------------------------------------
(* Starting, refreshing *)

Loaded ==
    LET r == task["load"]
        stale == r.id # loadId
    IN /\ r.pc = "answered"
       /\ Stores(r.got)
       /\ loading' = FALSE
       /\ End("load")
       /\ \/ (stale \/ (hasLive /\ r.got \notin Tokens)) /\ UNCHANGED <<state, misjudged>>
          \/ ~stale /\ r.got \in Tokens /\ Apply(r.got) /\ UNCHANGED misjudged
          \/ ~stale /\ r.got = 0 /\ ~hasLive /\ EndSession
          \/ ~stale /\ r.got = Error /\ ~hasLive /\ Clear /\ UNCHANGED misjudged
       /\ UNCHANGED <<scenario, valid, minted, out, acts>>

Act == acts < scenario.acts /\ acts' = acts + 1

\* The timer, or the app coming to the foreground.
Refresh ==
    /\ Act
    /\ shown # 0 /\ ~loading /\ hasLive /\ task["refresh"].pc = "idle"
    /\ task' = [task EXCEPT !["refresh"] = Start("ask", 0)]
    /\ UNCHANGED <<scenario, valid, minted, jar, state, loading, out, misjudged>>

RefreshedBlindly ==
    LET r == task["refresh"] IN
    /\ r.pc = "answered" /\ Stores(r.got) /\ End("refresh")
    /\ \/ r.got = Error /\ UNCHANGED <<state, misjudged>>
       \/ r.got \in Tokens /\ Apply(r.got) /\ UNCHANGED misjudged
       \/ r.got = 0 /\ EndSession
    /\ UNCHANGED <<scenario, valid, minted, loading, out, acts>>

RefreshedEndsOnError ==
    LET r == task["refresh"]
        changed == r.id # loadId \/ ~hasLive
    IN /\ r.pc = "answered"
       /\ IF changed THEN UNCHANGED jar ELSE Stores(r.got)
       /\ End("refresh")
       /\ \/ changed /\ UNCHANGED <<state, misjudged>>
          \/ ~changed /\ r.got \in Tokens /\ Apply(r.got) /\ UNCHANGED misjudged
          \/ ~changed /\ r.got \notin Tokens /\ EndSession
       /\ UNCHANGED <<scenario, valid, minted, loading, out, acts>>

\* onSuccess throws before the cookies are stored when the session changed.
Refreshed ==
    LET r == task["refresh"]
        changed == r.id # loadId \/ ~hasLive
    IN /\ r.pc = "answered"
       /\ IF changed THEN UNCHANGED jar ELSE Stores(r.got)
       /\ End("refresh")
       /\ \/ (changed \/ r.got = Error) /\ UNCHANGED <<state, misjudged>>
          \/ ~changed /\ r.got \in Tokens /\ Apply(r.got) /\ UNCHANGED misjudged
          \/ ~changed /\ r.got = 0 /\ EndSession
       /\ UNCHANGED <<scenario, valid, minted, loading, out, acts>>

RefreshUser ==
    /\ May("refreshUser") /\ Act
    /\ shown # 0 /\ task["signOut"].pc = "idle" /\ task["refreshUser"].pc = "idle"
    /\ task' = [task EXCEPT !["refreshUser"] = Start("ask", 0)]
    /\ UNCHANGED <<scenario, valid, minted, jar, state, loading, out, misjudged>>

UserRefreshed ==
    LET r == task["refreshUser"] IN
    /\ r.pc = "answered"
    /\ Stores(r.got)
    /\ IF r.got \in Tokens THEN Apply(r.got) ELSE UNCHANGED state
    /\ End("refreshUser")
    /\ UNCHANGED <<scenario, valid, minted, loading, out, misjudged, acts>>

----------------------------------------------------------------------------
(* Calls of the API *)

Call ==
    /\ Act
    /\ shown # 0 /\ task["call"].pc = "idle"
    /\ task' = [task EXCEPT !["call"] = Start("asked", Header)]
    /\ UNCHANGED <<scenario, valid, minted, jar, state, loading, out, misjudged>>

\* onAuthError, or persistRenewedSessionCookie up to its check of the jar.
CallAnswered ==
    LET r == task["call"] IN
    /\ r.pc = "answered"
    /\ IF r.got \in Tokens /\ Header = r.sent
       THEN Go("call", "renew")
       ELSE IF r.got = 0 /\ May("confirm") /\ task["confirm"].pc = "idle"
       THEN task' = [task EXCEPT !["call"] = Idle,
                                 !["confirm"] = Start(IF fallback # 0 THEN "write" ELSE "ask", fallback)]
       ELSE End("call")
    /\ UNCHANGED <<scenario, valid, minted, jar, state, loading, out, misjudged, acts>>

RenewUnchecked ==
    /\ task["call"].pc = "renew"
    /\ jar' = task["call"].sent
    /\ End("call")
    /\ UNCHANGED <<scenario, valid, minted, state, loading, out, misjudged, acts>>

\* The second look at the jar and the write are one synchronous stretch.
Renew ==
    LET r == task["call"] IN
    /\ r.pc = "renew"
    /\ jar' = IF Header = r.sent THEN r.sent ELSE jar
    /\ End("call")
    /\ UNCHANGED <<scenario, valid, minted, state, loading, out, misjudged, acts>>

\* confirmExpiredSessionThenClear: persistSessionTokenCookie waits for the jar
\* to be read and writes the token it was given, whatever happened meanwhile.
WriteJar ==
    /\ task["confirm"].pc = "write"
    /\ jar' = task["confirm"].sent
    /\ Go("confirm", "ask")
    /\ UNCHANGED <<scenario, valid, minted, state, loading, out, misjudged, acts>>

Confirmed ==
    LET r == task["confirm"] IN
    /\ r.pc = "answered"
    /\ Stores(r.got)
    /\ IF r.got = 0 THEN EndSession ELSE UNCHANGED <<state, misjudged>>
    /\ End("confirm")
    /\ UNCHANGED <<scenario, valid, minted, loading, out, acts>>

----------------------------------------------------------------------------
(* Signing in and out *)

SignIn ==
    /\ Act
    /\ shown = 0 /\ (loading => May("hasty")) /\ task["signIn"].pc = "idle" /\ minted < MaxTokens
    /\ loadId' = loadId + 1
    /\ task' = [task EXCEPT !["signIn"] = Start("asked", 0)]
    /\ UNCHANGED <<scenario, valid, minted, jar, fallback, shown, hasLive, loading, out, misjudged>>

\* The server mints a token and sends it as a cookie and in the answer.
SignInServed ==
    LET t == minted + 1 IN
    /\ task["signIn"].pc = "asked"
    /\ \/ /\ minted' = t /\ valid' = valid \cup {t}
          /\ \/ jar' = t
             \/ May("lostCookie") /\ UNCHANGED jar
          /\ task' = [task EXCEPT !["signIn"].pc = "cookie", !["signIn"].got = t]
       \/ May("fail") /\ End("signIn") /\ UNCHANGED <<valid, minted, jar>>
    /\ UNCHANGED <<scenario, state, loading, out, misjudged, acts>>

\* rememberSessionTokenFromJar, else ensureSessionTokenCookie; the status
\* request follows.
KeepCookie ==
    LET t == task["signIn"].got IN
    /\ task["signIn"].pc = "cookie"
    /\ jar' = IF jar # 0 THEN jar ELSE t
    /\ fallback' = jar'
    /\ Go("signIn", "final")
    /\ UNCHANGED <<scenario, valid, minted, shown, hasLive, loadId, loading, out, misjudged, acts>>

\* finalizeAuthenticatedSession: the cookie once more, then the state.
Finalize ==
    LET t == task["signIn"].got IN
    /\ task["signIn"].pc = "final"
    /\ jar' = IF jar # 0 THEN jar ELSE t
    /\ fallback' = jar'
    /\ hasLive' = TRUE /\ shown' = t
    /\ End("signIn")
    /\ UNCHANGED <<scenario, valid, minted, loadId, loading, out, misjudged, acts>>

SignOut ==
    /\ shown # 0 /\ task["signOut"].pc = "idle"
    /\ loadId' = loadId + 1 /\ hasLive' = FALSE
    /\ fallback' = 0
    /\ task' = [task EXCEPT !["signOut"] = Start("leave", Header)]
    /\ UNCHANGED <<scenario, valid, minted, jar, shown, loading, out, misjudged, acts>>

\* The requests for the devices come first; then the client empties the jar
\* and asks.
AskSignOut ==
    /\ task["signOut"].pc = "leave"
    /\ jar' = 0
    /\ Go("signOut", "ending")
    /\ UNCHANGED <<scenario, valid, minted, state, loading, out, misjudged, acts>>

\* Mutant: a sign-out that the server refuses is given up.
SignOutServedGivesUp ==
    LET t == task["signOut"].sent IN
    /\ task["signOut"].pc = "ending"
    /\ \/ valid' = valid \ {t} /\ Go("signOut", "wipe")
       \/ May("fail") /\ UNCHANGED valid /\ End("signOut")
    /\ UNCHANGED <<scenario, minted, jar, state, loading, out, misjudged, acts>>

\* The request may fail: local state is cleared regardless.
SignOutServed ==
    LET t == task["signOut"].sent IN
    /\ task["signOut"].pc = "ending"
    /\ \/ valid' = valid \ {t}
       \/ May("fail") /\ UNCHANGED valid
    /\ Go("signOut", "wipe")
    /\ UNCHANGED <<scenario, minted, jar, state, loading, out, misjudged, acts>>

SignedOut ==
    /\ task["signOut"].pc = "wipe"
    /\ Clear
    /\ out' = out \cup {task["signOut"].sent}
    /\ End("signOut")
    /\ UNCHANGED <<scenario, valid, minted, jar, loading, misjudged, acts>>

----------------------------------------------------------------------------
(* The environment *)

Restart ==
    /\ May("restart") /\ Act
    /\ fallback' = 0 /\ shown' = 0 /\ hasLive' = FALSE /\ loadId' = 1 /\ loading' = TRUE
    /\ task' = [[k \in Kinds |-> Idle] EXCEPT !["load"] = [Idle EXCEPT !.pc = "ask", !.id = 1]]
    /\ UNCHANGED <<scenario, valid, minted, jar, out, misjudged>>

Revoke ==
    /\ May("revoke")
    /\ \E t \in valid : valid' = valid \ {t}
    /\ UNCHANGED <<scenario, minted, jar, state, loading, task, out, misjudged, acts>>

Tasks ==
    \/ \E k \in Kinds : Ask(k) \/ Serve(k)
    \/ Loaded \/ Refreshed \/ UserRefreshed \/ CallAnswered \/ Renew
    \/ WriteJar \/ Confirmed
    \/ SignInServed \/ KeepCookie \/ Finalize \/ AskSignOut \/ SignOutServed \/ SignedOut

Next == Tasks \/ Refresh \/ RefreshUser \/ Call \/ SignIn \/ SignOut \/ Restart \/ Revoke

Spec == Init /\ [][Next]_vars

\* The device's own storage answers, so that a wipe that has begun ends.  No
\* request need ever be answered.
FairSpec == Spec /\ WF_vars(SignedOut)

----------------------------------------------------------------------------
(* Properties *)

\* The types of the session's state.
TypeOK ==
    /\ scenario \in Scenarios
    /\ valid \subseteq Tokens /\ out \subseteq 0..MaxTokens
    /\ minted \in 0..MaxTokens /\ loadId \in Nat /\ acts \in 0..scenario.acts
    /\ {jar, fallback, shown} \subseteq 0..MaxTokens
    /\ {hasLive, loading, misjudged} \subseteq BOOLEAN
    /\ \A k \in Kinds : task[k].sent \in 0..MaxTokens /\ task[k].got \in 0..Error

\* No profile is read again, no refused call asks whether the session is
\* over, and no sign-in loses its cookie or overtakes the first check.
Ordinary == scenario.may \subseteq {"restart", "fail", "revoke"}

\* A session the user has ended is never shown again, whatever answers to
\* earlier loads, refreshes and calls arrive later and however often the app
\* restarts.
SignedOutStaysOut == Ordinary => shown \notin out

\* A session is wiped only when the user or the server has ended it: an
\* unreachable server or an answer about another session does not.
OnlyEndedIsWiped == Ordinary => ~misjudged

\* Once everything has settled the app's requests carry the token of the
\* session it shows, although refreshes and renewing calls of an earlier one
\* wrote to the same jar.
CookieFollowsSession ==
    Ordinary /\ shown # 0 /\ (\A k \in Kinds : task[k].pc = "idle") => Header = shown

\* A sign-out ends: the session it was asked to end is no longer shown, whether
\* its requests succeed or fail and whatever else is under way or never
\* answered, unless one of its own requests is never answered.  Better Auth
\* gives those no timeout (AuthProvider.tsx:606).
SignOutEnds == \A t \in Tokens :
    (task["signOut"].pc # "idle" /\ shown = t) ~>
        (shown # t \/ [](task["signOut"].pc \in {"leave", "ending"}))
=============================================================================
