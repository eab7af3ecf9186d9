------------------------- MODULE NativeSessionProofs -------------------------
(***************************************************************************)
(* The safety of NativeSession for any number of sign-ins and of acts, and *)
(* any scenarios.                                                          *)
(***************************************************************************)
EXTENDS NativeSession, TLAPS

Task == [pc : {"idle", "ask", "asked", "answered", "renew", "write", "cookie", "final",
               "leave", "ending", "wipe"},
         sent : 0..MaxTokens, got : 0..Error, id : Nat]

\* The types, with the tokens that exist so far.
Typed ==
    /\ scenario \in Scenarios
    /\ minted \in 0..MaxTokens
    /\ valid \subseteq 1..minted
    /\ jar \in 0..minted /\ fallback \in 0..minted /\ shown \in 0..minted
    /\ loadId \in Nat
    /\ out \subseteq 0..minted

TypedFlags == hasLive \in BOOLEAN /\ loading \in BOOLEAN /\ misjudged \in BOOLEAN
TypedActs == acts \in 0..scenario.acts

\* What a task has sent or got is a token that exists.
TypedTasks ==
    /\ task \in [Kinds -> Task]
    /\ \A k \in Kinds : task[k].sent <= minted /\ (task[k].got <= minted \/ task[k].got = Error)
    /\ task["signIn"].got <= minted
    /\ task["signIn"].pc \in {"idle", "asked", "cookie", "final"}
    /\ task["signIn"].pc = "asked" => minted < MaxTokens

\* Nobody reads the profile again or asks whether the session is over.
NoOthers == task["refreshUser"].pc = "idle" /\ task["confirm"].pc = "idle"

\* While the first check runs nothing else does, and nothing is shown.
LoadFirst ==
    /\ loading = (task["load"].pc # "idle")
    /\ loading =>
        /\ \A k \in Kinds \ {"load"} : task[k].pc = "idle"
        /\ shown = 0 /\ fallback = 0 /\ ~hasLive /\ loadId = 1 /\ task["load"].id = 1
        /\ task["load"].pc \in {"ask", "asked", "answered"}
        /\ task["load"].pc \in {"asked", "answered"} => task["load"].sent = jar
        /\ task["load"].pc = "answered" => task["load"].got \in {0, jar, Error}

\* A live session is the one shown, in the jar and in memory; one that is
\* shown and not live is on its way out.
LiveAgrees ==
    /\ hasLive => shown # 0 /\ jar = shown /\ fallback = shown /\ task["signOut"].pc = "idle"
    /\ shown # 0 => hasLive \/ task["signOut"].pc # "idle"
    /\ fallback \in {0, jar}

\* A sign-in finds no session, and its cookie in the jar.
SigningIn ==
    /\ task["signIn"].pc # "idle" => shown = 0
    /\ task["signIn"].pc \in {"cookie", "final"} => task["signIn"].got = jar /\ jar # 0

\* A sign-out ends the session that is shown, and the jar is empty once it
\* has asked.
SigningOut ==
    /\ task["signOut"].pc \in {"idle", "leave", "ending", "wipe"}
    /\ task["signOut"].pc # "idle" => shown = task["signOut"].sent /\ shown # 0 /\ fallback = 0
    /\ task["signOut"].pc = "leave" => jar = shown
    /\ task["signOut"].pc \in {"ending", "wipe"} => jar = 0

\* A refresh that still counts is about the session shown.
Refreshing ==
    LET r == task["refresh"] IN
    /\ r.pc \in {"idle", "ask", "asked", "answered"}
    /\ r.pc # "idle" => r.id <= loadId
    /\ r.pc # "idle" /\ r.id = loadId =>
        /\ hasLive
        /\ r.pc # "ask" => r.sent = shown
        /\ r.pc = "answered" =>
            r.got \in {0, shown, Error} /\ (r.got = 0 => shown \notin valid)

\* A renewal is of the token that was sent.
Calling ==
    LET r == task["call"] IN
    /\ r.pc \in {"idle", "asked", "answered", "renew"}
    /\ r.pc = "answered" => r.got \in {0, r.sent, Error}
    /\ r.pc = "renew" => r.sent # 0

\* Neither the app nor the jar has a session the user has ended.
Ended == 0 \notin out /\ shown \notin out /\ jar \notin out

Inv ==
    /\ NoOthers /\ LoadFirst /\ LiveAgrees /\ SigningIn /\ SigningOut
    /\ Refreshing /\ Calling /\ Ended /\ ~misjudged

IInv == Typed /\ TypedFlags /\ TypedActs /\ TypedTasks /\ (Ordinary => Inv)

\* Sending reads the jar.
LEMMA AskKeepsInv ==
  ASSUME IInv, NEW k \in Kinds, Ask(k)
  PROVE  IInv'
<1>1. Typed'
  BY DEF IInv, Typed, state, Ask
<1>2. TypedFlags'
  BY DEF IInv, TypedFlags, state, Ask
<1>3. TypedActs'
  BY DEF IInv, TypedActs, Ask
<1>4. TypedTasks'
  BY DEF IInv, TypedTasks, Task, Kinds, Ask
<1>5. ASSUME Ordinary' PROVE Inv'
  <2>0. Inv
    BY <1>5 DEF IInv, Ordinary, Ask
  <2>1. NoOthers'
    BY <2>0 DEF Inv, NoOthers, IInv, TypedTasks, Kinds, Ask
  <2>2. LoadFirst'
    BY <2>0 DEF Inv, LoadFirst, IInv, TypedTasks, Kinds, state, Ask
  <2>3. LiveAgrees'
    BY <2>0 DEF Inv, LiveAgrees, IInv, TypedTasks, Kinds, state, Ask
  <2>4. SigningIn'
    BY <2>0 DEF Inv, SigningIn, IInv, TypedTasks, Kinds, state, Ask
  <2>5. SigningOut'
    BY <2>0 DEF Inv, SigningOut, IInv, TypedTasks, Kinds, state, Ask
  <2>6. Refreshing'
    BY <2>0 DEF Inv, LiveAgrees, Refreshing, IInv, TypedTasks, Kinds, state, Ask
  <2>7. Calling'
    BY <2>0 DEF Inv, Calling, IInv, TypedTasks, Kinds, Ask
  <2>8. Ended'
    BY <2>0 DEF Inv, Ended, state, Ask
  <2>9. ~misjudged'
    BY <2>0 DEF Inv, Ask
  <2> QED BY <2>1, <2>2, <2>3, <2>4, <2>5, <2>6, <2>7, <2>8, <2>9 DEF Inv
<1> QED BY <1>1, <1>2, <1>3, <1>4, <1>5 DEF IInv

\* The answer is about the token that was sent.
LEMMA ServeKeepsInv ==
  ASSUME IInv, NEW k \in Kinds, Serve(k)
  PROVE  IInv'
<1>1. Typed'
  BY DEF IInv, Typed, state, Serve
<1>2. TypedFlags'
  BY DEF IInv, TypedFlags, state, Serve
<1>3. TypedActs'
  BY DEF IInv, TypedActs, Serve
<1>4. TypedTasks'
  BY DEF IInv, TypedTasks, Task, Kinds, Serve
<1>5. ASSUME Ordinary' PROVE Inv'
  <2>0. Inv
    BY <1>5 DEF IInv, Ordinary, Serve
  <2>1. NoOthers'
    BY <2>0 DEF Inv, NoOthers, IInv, TypedTasks, Kinds, Serve
  <2>2. LoadFirst'
    BY <2>0 DEF Inv, LoadFirst, IInv, TypedTasks, Task, Kinds, state, Serve
  <2>3. LiveAgrees'
    BY <2>0 DEF Inv, LiveAgrees, IInv, TypedTasks, Task, Kinds, state, Serve
  <2>4. SigningIn'
    BY <2>0 DEF Inv, SigningIn, IInv, TypedTasks, Kinds, state, Serve
  <2>5. SigningOut'
    BY <2>0 DEF Inv, SigningOut, IInv, TypedTasks, Kinds, state, Serve
  <2>6. Refreshing'
    BY <2>0, SessionAssumption DEF Inv, Refreshing, IInv, Typed, TypedTasks, Task, Kinds, Error, state, Serve
  <2>7. Calling'
    BY <2>0 DEF Inv, Calling, IInv, TypedTasks, Task, Kinds, Serve
  <2>8. Ended'
    BY <2>0 DEF Inv, Ended, state, Serve
  <2>9. ~misjudged'
    BY <2>0 DEF Inv, Serve
  <2> QED BY <2>1, <2>2, <2>3, <2>4, <2>5, <2>6, <2>7, <2>8, <2>9 DEF Inv
<1> QED BY <1>1, <1>2, <1>3, <1>4, <1>5 DEF IInv

\* The first check decides for the session in the jar, which no one has ended.
LEMMA LoadedKeepsInv ==
  ASSUME IInv, Loaded
  PROVE  IInv'
<1>1. Typed'
  BY SessionAssumption DEF IInv, Typed, TypedTasks, Kinds, Tokens, Error, state, Loaded, Stores, Apply,
     Clear, EndSession
<1>2. TypedFlags'
  BY DEF IInv, Typed, TypedFlags, TypedActs, TypedTasks, Task, Kinds, Tokens, Error, Idle, state, May,
     Ordinary, Loaded, Stores, End, Apply, Clear, EndSession
<1>3. TypedActs'
  BY DEF IInv, TypedActs, Loaded
<1>4. TypedTasks'
  BY SessionAssumption DEF IInv, Typed, TypedTasks, Task, Kinds, Error, Idle, Loaded, End
<1>5. ASSUME Ordinary' PROVE Inv'
  <2>0. Inv
    BY <1>5 DEF IInv, Ordinary, Loaded
  <2>1. NoOthers'
    BY <2>0 DEF Inv, NoOthers, Loaded, End
  <2>2. LoadFirst'
    BY <2>0, <1>5, SessionAssumption DEF Inv, NoOthers, LoadFirst, LiveAgrees, SigningIn, SigningOut,
       Refreshing, Calling, Ended, IInv, Typed, TypedFlags, TypedActs, TypedTasks, Task, Kinds, Tokens,
         Error, Idle, state, May, Ordinary, Loaded, Stores, End, Apply, Clear, EndSession
  <2>a. loading
    BY <2>0 DEF Inv, LoadFirst, Loaded, IInv, TypedFlags
  <2>b. /\ task["load"].got \in {0, jar, Error} /\ task["load"].id = loadId
        /\ shown = 0 /\ fallback = 0 /\ ~hasLive /\ task["signOut"].pc = "idle"
    BY <2>0, <2>a DEF Inv, LoadFirst, Loaded, Kinds
  <2>c. task'["signOut"].pc = "idle"
    BY <2>b DEF Loaded, End
  <2>d. jar # Error /\ jar \notin out /\ 0 \notin out
    BY <2>0, SessionAssumption DEF Inv, Ended, IInv, Typed, Error
  <2>3. LiveAgrees'
    BY <2>b, <2>c DEF LiveAgrees, Tokens, Loaded, Stores, Apply, Clear, EndSession
  <2>4. SigningIn'
    BY <2>0, <1>5, SessionAssumption DEF Inv, NoOthers, LoadFirst, LiveAgrees, SigningIn, SigningOut,
       Refreshing, Calling, Ended, IInv, Typed, TypedFlags, TypedActs, TypedTasks, Task, Kinds, Tokens,
         Error, Idle, state, May, Ordinary, Loaded, Stores, End, Apply, Clear, EndSession
  <2>5. SigningOut'
    BY <2>0, <1>5, SessionAssumption DEF Inv, NoOthers, LoadFirst, LiveAgrees, SigningIn, SigningOut,
       Refreshing, Calling, Ended, IInv, Typed, TypedFlags, TypedActs, TypedTasks, Task, Kinds, Tokens,
         Error, Idle, state, May, Ordinary, Loaded, Stores, End, Apply, Clear, EndSession
  <2>6. Refreshing'
    BY <2>0 DEF Inv, LoadFirst, Refreshing, IInv, TypedFlags, TypedTasks, Task, Kinds, state, Loaded,
       End, Apply, Clear, EndSession
  <2>7. Calling'
    BY <2>0 DEF Inv, Calling, Loaded, End
  <2>8. Ended'
    BY <2>b, <2>d, SessionAssumption DEF Ended, IInv, Typed, Error, Loaded, Stores, Apply, Clear, EndSession
  <2>9. ~misjudged'
    BY <2>0 DEF Inv, LoadFirst, IInv, Typed, TypedFlags, Loaded, EndSession
  <2> QED BY <2>1, <2>2, <2>3, <2>4, <2>5, <2>6, <2>7, <2>8, <2>9 DEF Inv
<1> QED BY <1>1, <1>2, <1>3, <1>4, <1>5 DEF IInv

\* A refresh starts for the session shown.
LEMMA RefreshKeepsInv ==
  ASSUME IInv, Refresh
  PROVE  IInv'
<1>1. Typed'
  BY DEF IInv, Typed, state, Refresh
<1>2. TypedFlags'
  BY DEF IInv, TypedFlags, state, Refresh
<1>3. TypedActs'
  BY SessionAssumption DEF IInv, Typed, TypedActs, Refresh, Act
<1>4. TypedTasks'
  BY SessionAssumption DEF IInv, Typed, TypedTasks, Task, Kinds, Error, Refresh, Start
<1>5. ASSUME Ordinary' PROVE Inv'
  <2>0. Inv
    BY <1>5 DEF IInv, Ordinary, Refresh
  <2>1. NoOthers'
    BY <2>0 DEF Inv, NoOthers, Refresh
  <2>2. LoadFirst'
    BY <2>0 DEF Inv, LoadFirst, Refresh
  <2>3. LiveAgrees'
    BY <2>0 DEF Inv, LiveAgrees, state, Refresh
  <2>4. SigningIn'
    BY <2>0 DEF Inv, SigningIn, Refresh
  <2>5. SigningOut'
    BY <2>0 DEF Inv, LiveAgrees, SigningOut, Refresh
  <2>6. Refreshing'
    BY DEF Refreshing, IInv, Typed, state, Refresh, Start
  <2>7. Calling'
    BY <2>0 DEF Inv, Calling, Refresh
  <2>8. Ended'
    BY <2>0 DEF Inv, Ended, state, Refresh
  <2>9. ~misjudged'
    BY <2>0 DEF Inv, Refresh
  <2> QED BY <2>1, <2>2, <2>3, <2>4, <2>5, <2>6, <2>7, <2>8, <2>9 DEF Inv
<1> QED BY <1>1, <1>2, <1>3, <1>4, <1>5 DEF IInv

\* A refresh that no longer counts changes nothing; one that does is about
\* the session shown.
LEMMA RefreshedKeepsInv ==
  ASSUME IInv, Refreshed
  PROVE  IInv'
<1>1. Typed'
  BY SessionAssumption DEF IInv, Typed, TypedTasks, Kinds, Tokens, Error, state, Refreshed, Stores,
     Apply, Clear, EndSession
<1>2. TypedFlags'
  BY DEF IInv, Typed, TypedFlags, TypedActs, TypedTasks, Task, Kinds, Tokens, Error, Idle, state, May,
     Ordinary, Refreshed, Stores, End, Apply, Clear, EndSession
<1>3. TypedActs'
  BY DEF IInv, TypedActs, Refreshed
<1>4. TypedTasks'
  BY SessionAssumption DEF IInv, Typed, TypedTasks, Task, Kinds, Error, Idle, Refreshed, End
<1>5. ASSUME Ordinary' PROVE Inv'
  <2>0. Inv
    BY <1>5 DEF IInv, Ordinary, Refreshed
  <2>1. NoOthers'
    BY <2>0 DEF Inv, NoOthers, Refreshed, End
  <2>2. LoadFirst'
    BY <2>0 DEF Inv, LoadFirst, Kinds, Refreshed, End
  <2>3. LiveAgrees'
    BY <2>0, SessionAssumption DEF Inv, LiveAgrees, Refreshing, Tokens, Error, state, Refreshed, Stores,
       End, Apply, Clear, EndSession
  <2>4. SigningIn'
    BY <2>0 DEF Inv, LiveAgrees, SigningIn, state, Refreshed, End
  <2>5. SigningOut'
    BY <2>0 DEF Inv, LiveAgrees, SigningOut, state, Refreshed, End
  <2>6. Refreshing'
    BY DEF Refreshing, IInv, TypedTasks, Kinds, Idle, Refreshed, End
  <2>7. Calling'
    BY <2>0 DEF Inv, Calling, Refreshed, End
  <2>8. Ended'
    BY <2>0, SessionAssumption DEF Inv, Refreshing, Ended, Tokens, Error, state, Refreshed, Stores,
       Apply, Clear, EndSession
  <2>9. ~misjudged'
    BY <2>0 DEF Inv, Refreshing, IInv, TypedFlags, Refreshed, EndSession
  <2> QED BY <2>1, <2>2, <2>3, <2>4, <2>5, <2>6, <2>7, <2>8, <2>9 DEF Inv
<1> QED BY <1>1, <1>2, <1>3, <1>4, <1>5 DEF IInv

\* Reading the profile again is out of the ordinary.
LEMMA RefreshUserKeepsInv ==
  ASSUME IInv, RefreshUser
  PROVE  IInv'
<1>1. Typed'
  BY DEF IInv, Typed, state, RefreshUser
<1>2. TypedFlags'
  BY DEF IInv, TypedFlags, state, RefreshUser
<1>3. TypedActs'
  BY SessionAssumption DEF IInv, Typed, TypedActs, RefreshUser, Act
<1>4. TypedTasks'
  BY SessionAssumption DEF IInv, Typed, TypedTasks, Task, Kinds, Error, RefreshUser, Start
<1>5. ~Ordinary'
  BY DEF RefreshUser, Ordinary, May
<1> QED BY <1>1, <1>2, <1>3, <1>4, <1>5 DEF IInv

\* So is its answer: only the types are at stake.
LEMMA UserRefreshedKeepsInv ==
  ASSUME IInv, UserRefreshed
  PROVE  IInv'
<1>1. Typed'
  BY SessionAssumption DEF IInv, Typed, TypedTasks, Kinds, Tokens, Error, state, UserRefreshed, Stores, Apply
<1>2. TypedFlags'
  BY DEF IInv, Typed, TypedFlags, TypedActs, TypedTasks, Task, Kinds, Tokens, Error, Idle, state, May,
     Ordinary, UserRefreshed, Stores, End, Apply
<1>3. TypedActs'
  BY DEF IInv, TypedActs, UserRefreshed
<1>4. TypedTasks'
  BY SessionAssumption DEF IInv, Typed, TypedTasks, Task, Kinds, Error, Idle, UserRefreshed, End
<1>5. ~Ordinary'
  BY DEF UserRefreshed, Ordinary, IInv, Inv, NoOthers
<1> QED BY <1>1, <1>2, <1>3, <1>4, <1>5 DEF IInv

\* A call carries a token that exists.
LEMMA CallKeepsInv ==
  ASSUME IInv, Call
  PROVE  IInv'
<1>1. Typed'
  BY DEF IInv, Typed, state, Call
<1>2. TypedFlags'
  BY DEF IInv, TypedFlags, state, Call
<1>3. TypedActs'
  BY SessionAssumption DEF IInv, Typed, TypedActs, Call, Act
<1>4. TypedTasks'
  BY SessionAssumption DEF IInv, Typed, TypedTasks, Task, Kinds, Error, Call, Start, Header
<1>5. ASSUME Ordinary' PROVE Inv'
  <2>0. Inv
    BY <1>5 DEF IInv, Ordinary, Call
  <2>1. NoOthers'
    BY <2>0 DEF Inv, NoOthers, Call
  <2>2. LoadFirst'
    BY <2>0 DEF Inv, LoadFirst, Call
  <2>3. LiveAgrees'
    BY <2>0 DEF Inv, LiveAgrees, state, Call
  <2>4. SigningIn'
    BY <2>0 DEF Inv, SigningIn, Call
  <2>5. SigningOut'
    BY <2>0 DEF Inv, SigningOut, state, Call
  <2>6. Refreshing'
    BY <2>0 DEF Inv, Refreshing, state, Call
  <2>7. Calling'
    BY DEF Calling, Call, Start
  <2>8. Ended'
    BY <2>0 DEF Inv, Ended, state, Call
  <2>9. ~misjudged'
    BY <2>0 DEF Inv, Call
  <2> QED BY <2>1, <2>2, <2>3, <2>4, <2>5, <2>6, <2>7, <2>8, <2>9 DEF Inv
<1> QED BY <1>1, <1>2, <1>3, <1>4, <1>5 DEF IInv

\* An answer is renewed, confirmed or forgotten.
LEMMA CallAnsweredKeepsInv ==
  ASSUME IInv, CallAnswered
  PROVE  IInv'
<1>1. Typed'
  BY DEF IInv, Typed, state, CallAnswered
<1>2. TypedFlags'
  BY DEF IInv, TypedFlags, state, CallAnswered
<1>3. TypedActs'
  BY DEF IInv, TypedActs, CallAnswered
<1>4. TypedTasks'
  BY SessionAssumption DEF IInv, Typed, TypedTasks, Task, Kinds, Error, Idle, CallAnswered, Go, End, Start
<1>5. ASSUME Ordinary' PROVE Inv'
  <2>0. Inv
    BY <1>5 DEF IInv, Ordinary, CallAnswered
  <2>1. NoOthers'
    BY <1>5 DEF Inv, NoOthers, IInv, TypedTasks, Kinds, May, Ordinary, CallAnswered, Go, End
  <2>2. LoadFirst'
    BY <2>0 DEF Inv, LoadFirst, IInv, TypedTasks, Kinds, CallAnswered, Go, End
  <2>3. LiveAgrees'
    BY <2>0 DEF Inv, LiveAgrees, IInv, TypedTasks, Kinds, state, CallAnswered, Go, End
  <2>4. SigningIn'
    BY <2>0 DEF Inv, SigningIn, IInv, TypedTasks, Kinds, state, CallAnswered, Go, End
  <2>5. SigningOut'
    BY <2>0 DEF Inv, SigningOut, IInv, TypedTasks, Kinds, state, CallAnswered, Go, End
  <2>6. Refreshing'
    BY <2>0 DEF Inv, Refreshing, IInv, TypedTasks, Kinds, state, CallAnswered, Go, End
  <2>7. Calling'
    BY <2>0, SessionAssumption DEF Inv, Calling, IInv, TypedTasks, Task, Kinds, Tokens, Error, Idle,
       CallAnswered, Go, End
  <2>8. Ended'
    BY <2>0 DEF Inv, Ended, state, CallAnswered
  <2>9. ~misjudged'
    BY <2>0 DEF Inv, CallAnswered
  <2> QED BY <2>1, <2>2, <2>3, <2>4, <2>5, <2>6, <2>7, <2>8, <2>9 DEF Inv
<1> QED BY <1>1, <1>2, <1>3, <1>4, <1>5 DEF IInv

\* A renewal writes the token the jar has already.
LEMMA RenewKeepsInv ==
  ASSUME IInv, Renew
  PROVE  IInv'
<1>1. Typed'
  BY DEF IInv, Typed, TypedTasks, Task, Kinds, state, Renew
<1>2. TypedFlags'
  BY DEF IInv, TypedFlags, state, Renew
<1>3. TypedActs'
  BY DEF IInv, TypedActs, Renew
<1>4. TypedTasks'
  BY SessionAssumption DEF IInv, Typed, TypedTasks, Task, Kinds, Error, Idle, Renew, End
<1>5. ASSUME Ordinary' PROVE Inv'
  <2>0. Inv
    BY <1>5 DEF IInv, Ordinary, Renew
  <2>1. NoOthers'
    BY <2>0 DEF Inv, NoOthers, Renew, End
  <2>2. LoadFirst'
    BY <2>0 DEF Inv, LoadFirst, Kinds, Renew, End
  <2>3. LiveAgrees'
    BY <2>0 DEF Inv, LiveAgrees, state, Renew, End, Header
  <2>4. SigningIn'
    BY <2>0 DEF Inv, SigningIn, state, Renew, End, Header
  <2>5. SigningOut'
    BY <2>0 DEF Inv, SigningOut, state, Renew, End, Header
  <2>6. Refreshing'
    BY <2>0 DEF Inv, Refreshing, state, Renew, End
  <2>7. Calling'
    BY DEF Calling, IInv, TypedTasks, Kinds, Idle, Renew, End
  <2>8. Ended'
    BY <2>0 DEF Inv, LiveAgrees, Ended, state, Renew, Header
  <2>9. ~misjudged'
    BY <2>0 DEF Inv, Renew
  <2> QED BY <2>1, <2>2, <2>3, <2>4, <2>5, <2>6, <2>7, <2>8, <2>9 DEF Inv
<1> QED BY <1>1, <1>2, <1>3, <1>4, <1>5 DEF IInv

\* Nobody asks whether the session is over, in the ordinary course.
LEMMA WriteJarKeepsInv ==
  ASSUME IInv, WriteJar
  PROVE  IInv'
<1>1. Typed'
  BY DEF IInv, Typed, TypedTasks, Task, Kinds, state, WriteJar
<1>2. TypedFlags'
  BY DEF IInv, TypedFlags, state, WriteJar
<1>3. TypedActs'
  BY DEF IInv, TypedActs, WriteJar
<1>4. TypedTasks'
  BY DEF IInv, TypedTasks, Task, Kinds, WriteJar, Go
<1>5. ~Ordinary'
  BY DEF WriteJar, Ordinary, IInv, Inv, NoOthers
<1> QED BY <1>1, <1>2, <1>3, <1>4, <1>5 DEF IInv

\* Nor is there an answer to that.
LEMMA ConfirmedKeepsInv ==
  ASSUME IInv, Confirmed
  PROVE  IInv'
<1>1. Typed'
  BY SessionAssumption DEF IInv, Typed, TypedTasks, Kinds, Tokens, Error, state, Confirmed, Stores,
     Clear, EndSession
<1>2. TypedFlags'
  BY DEF IInv, Typed, TypedFlags, TypedActs, TypedTasks, Task, Kinds, Tokens, Error, Idle, state, May,
     Ordinary, Confirmed, Stores, End, Clear, EndSession
<1>3. TypedActs'
  BY DEF IInv, TypedActs, Confirmed
<1>4. TypedTasks'
  BY SessionAssumption DEF IInv, Typed, TypedTasks, Task, Kinds, Error, Idle, Confirmed, End
<1>5. ~Ordinary'
  BY DEF Confirmed, Ordinary, IInv, Inv, NoOthers
<1> QED BY <1>1, <1>2, <1>3, <1>4, <1>5 DEF IInv

\* A sign-in makes every earlier load and refresh stale.
LEMMA SignInKeepsInv ==
  ASSUME IInv, SignIn
  PROVE  IInv'
<1>1. Typed'
  BY DEF IInv, Typed, SignIn
<1>2. TypedFlags'
  BY DEF IInv, TypedFlags, SignIn
<1>3. TypedActs'
  BY SessionAssumption DEF IInv, Typed, TypedActs, SignIn, Act
<1>4. TypedTasks'
  BY SessionAssumption DEF IInv, Typed, TypedTasks, Task, Kinds, Error, SignIn, Start
<1>5. ASSUME Ordinary' PROVE Inv'
  <2>0. Inv
    BY <1>5 DEF IInv, Ordinary, SignIn
  <2>1. NoOthers'
    BY <2>0 DEF Inv, NoOthers, SignIn
  <2>2. LoadFirst'
    BY <2>0, <1>5 DEF Inv, LoadFirst, May, Ordinary, SignIn
  <2>3. LiveAgrees'
    BY <2>0 DEF Inv, LiveAgrees, SignIn
  <2>4. SigningIn'
    BY DEF SigningIn, SignIn, Start
  <2>5. SigningOut'
    BY <2>0 DEF Inv, SigningOut, SignIn
  <2>6. Refreshing'
    BY <2>0 DEF Inv, Refreshing, IInv, Typed, TypedTasks, Task, Kinds, SignIn
  <2>7. Calling'
    BY <2>0 DEF Inv, Calling, SignIn
  <2>8. Ended'
    BY <2>0 DEF Inv, Ended, SignIn
  <2>9. ~misjudged'
    BY <2>0 DEF Inv, SignIn
  <2> QED BY <2>1, <2>2, <2>3, <2>4, <2>5, <2>6, <2>7, <2>8, <2>9 DEF Inv
<1> QED BY <1>1, <1>2, <1>3, <1>4, <1>5 DEF IInv

\* A new token was never shown, and nobody has ended its session.
LEMMA SignInServedKeepsInv ==
  ASSUME IInv, SignInServed
  PROVE  IInv'
<1>1. Typed'
  BY DEF IInv, Typed, TypedTasks, Task, Kinds, state, SignInServed
<1>2. TypedFlags'
  BY DEF IInv, TypedFlags, state, SignInServed
<1>3. TypedActs'
  BY DEF IInv, TypedActs, SignInServed
<1>4. TypedTasks'
  BY SessionAssumption DEF IInv, Typed, TypedTasks, Task, Kinds, Error, Idle, SignInServed, End
<1>5. ASSUME Ordinary' PROVE Inv'
  <2>0. Inv
    BY <1>5 DEF IInv, Ordinary, SignInServed
  <2>1. NoOthers'
    BY <2>0 DEF Inv, NoOthers, IInv, TypedTasks, Kinds, SignInServed, End
  <2>2. LoadFirst'
    BY <2>0 DEF Inv, LoadFirst, IInv, TypedTasks, Kinds, SignInServed, End
  <2>3. LiveAgrees'
    BY <2>0 DEF Inv, LiveAgrees, SigningIn, IInv, Typed, TypedTasks, Task, Kinds, state, SignInServed
  <2>4. SigningIn'
    BY DEF SigningIn, IInv, Typed, TypedTasks, Task, Kinds, Idle, SignInServed, End
  <2>5. SigningOut'
    BY <2>0 DEF Inv, SigningIn, SigningOut, IInv, TypedTasks, Kinds, SignInServed, End
  <2>6. Refreshing'
    BY <2>0 DEF Inv, Refreshing, IInv, Typed, TypedTasks, Kinds, state, SignInServed, End
  <2>7. Calling'
    BY <2>0 DEF Inv, Calling, IInv, TypedTasks, Kinds, SignInServed, End
  <2>8. Ended'
    BY <2>0 DEF Inv, Ended, IInv, Typed, state, SignInServed
  <2>9. ~misjudged'
    BY <2>0 DEF Inv, SignInServed
  <2> QED BY <2>1, <2>2, <2>3, <2>4, <2>5, <2>6, <2>7, <2>8, <2>9 DEF Inv
<1> QED BY <1>1, <1>2, <1>3, <1>4, <1>5 DEF IInv

\* The cookie of the sign-in is in the jar.
LEMMA KeepCookieKeepsInv ==
  ASSUME IInv, KeepCookie
  PROVE  IInv'
<1>1. Typed'
  BY DEF IInv, Typed, TypedTasks, Task, Kinds, KeepCookie
<1>2. TypedFlags'
  BY DEF IInv, TypedFlags, KeepCookie
<1>3. TypedActs'
  BY DEF IInv, TypedActs, KeepCookie
<1>4. TypedTasks'
  BY DEF IInv, TypedTasks, Task, Kinds, KeepCookie, Go
<1>5. ASSUME Ordinary' PROVE Inv'
  <2>0. Inv
    BY <1>5 DEF IInv, Ordinary, KeepCookie
  <2>1. NoOthers'
    BY <2>0 DEF Inv, NoOthers, KeepCookie, Go
  <2>2. LoadFirst'
    BY <2>0 DEF Inv, LoadFirst, Kinds, KeepCookie, Go
  <2>3. LiveAgrees'
    BY <2>0 DEF Inv, LiveAgrees, SigningIn, KeepCookie
  <2>4. SigningIn'
    BY <2>0 DEF Inv, SigningIn, KeepCookie, Go
  <2>5. SigningOut'
    BY <2>0 DEF Inv, SigningIn, SigningOut, KeepCookie, Go
  <2>6. Refreshing'
    BY <2>0 DEF Inv, Refreshing, KeepCookie, Go
  <2>7. Calling'
    BY <2>0 DEF Inv, Calling, KeepCookie, Go
  <2>8. Ended'
    BY <2>0 DEF Inv, SigningIn, Ended, KeepCookie
  <2>9. ~misjudged'
    BY <2>0 DEF Inv, KeepCookie
  <2> QED BY <2>1, <2>2, <2>3, <2>4, <2>5, <2>6, <2>7, <2>8, <2>9 DEF Inv
<1> QED BY <1>1, <1>2, <1>3, <1>4, <1>5 DEF IInv

\* The session of the sign-in becomes the live one.
LEMMA FinalizeKeepsInv ==
  ASSUME IInv, Finalize
  PROVE  IInv'
<1>1. Typed'
  BY DEF IInv, Typed, TypedTasks, Task, Kinds, Finalize
<1>2. TypedFlags'
  BY DEF IInv, TypedFlags, Finalize
<1>3. TypedActs'
  BY DEF IInv, TypedActs, Finalize
<1>4. TypedTasks'
  BY SessionAssumption DEF IInv, Typed, TypedTasks, Task, Kinds, Error, Idle, Finalize, End
<1>5. ASSUME Ordinary' PROVE Inv'
  <2>0. Inv
    BY <1>5 DEF IInv, Ordinary, Finalize
  <2>1. NoOthers'
    BY <2>0 DEF Inv, NoOthers, Finalize, End
  <2>2. LoadFirst'
    BY <2>0 DEF Inv, LoadFirst, Kinds, Finalize, End
  <2>3. LiveAgrees'
    BY <2>0 DEF Inv, LiveAgrees, SigningIn, SigningOut, Finalize, End
  <2>4. SigningIn'
    BY DEF SigningIn, IInv, TypedTasks, Kinds, Idle, Finalize, End
  <2>5. SigningOut'
    BY <2>0 DEF Inv, SigningIn, SigningOut, Finalize, End
  <2>6. Refreshing'
    BY <2>0 DEF Inv, LiveAgrees, SigningIn, Refreshing, Finalize, End
  <2>7. Calling'
    BY <2>0 DEF Inv, Calling, Finalize, End
  <2>8. Ended'
    BY <2>0 DEF Inv, SigningIn, Ended, Finalize
  <2>9. ~misjudged'
    BY <2>0 DEF Inv, Finalize
  <2> QED BY <2>1, <2>2, <2>3, <2>4, <2>5, <2>6, <2>7, <2>8, <2>9 DEF Inv
<1> QED BY <1>1, <1>2, <1>3, <1>4, <1>5 DEF IInv

\* Only a live session is signed out, and it stops being live.
LEMMA SignOutKeepsInv ==
  ASSUME IInv, SignOut
  PROVE  IInv'
<1>1. Typed'
  BY DEF IInv, Typed, SignOut
<1>2. TypedFlags'
  BY DEF IInv, Typed, TypedFlags, TypedActs, TypedTasks, Task, Kinds, Tokens, Error, Idle, state, May,
     Ordinary, SignOut, Start, Header
<1>3. TypedActs'
  BY DEF IInv, TypedActs, SignOut
<1>4. TypedTasks'
  BY SessionAssumption DEF IInv, Typed, TypedTasks, Task, Kinds, Error, SignOut, Start, Header
<1>5. ASSUME Ordinary' PROVE Inv'
  <2>0. Inv
    BY <1>5 DEF IInv, Ordinary, SignOut
  <2>1. NoOthers'
    BY <2>0 DEF Inv, NoOthers, SignOut
  <2>2. LoadFirst'
    BY <2>0 DEF Inv, LoadFirst, SignOut
  <2>3. LiveAgrees'
    BY DEF LiveAgrees, IInv, TypedTasks, Kinds, SignOut, Start
  <2>4. SigningIn'
    BY <2>0 DEF Inv, SigningIn, SignOut
  <2>5. SigningOut'
    BY <2>0 DEF Inv, LiveAgrees, SigningOut, SignOut, Start, Header
  <2>6. Refreshing'
    BY <2>0 DEF Inv, Refreshing, IInv, Typed, TypedTasks, Task, Kinds, SignOut
  <2>7. Calling'
    BY <2>0 DEF Inv, Calling, SignOut
  <2>8. Ended'
    BY <2>0 DEF Inv, Ended, SignOut
  <2>9. ~misjudged'
    BY <2>0 DEF Inv, SignOut
  <2> QED BY <2>1, <2>2, <2>3, <2>4, <2>5, <2>6, <2>7, <2>8, <2>9 DEF Inv
<1> QED BY <1>1, <1>2, <1>3, <1>4, <1>5 DEF IInv

\* The jar is emptied before the server hears of it.
LEMMA AskSignOutKeepsInv ==
  ASSUME IInv, AskSignOut
  PROVE  IInv'
<1>1. Typed'
  BY DEF IInv, Typed, state, AskSignOut, Go
<1>2. TypedFlags'
  BY DEF IInv, TypedFlags, state, AskSignOut
<1>3. TypedActs'
  BY DEF IInv, TypedActs, AskSignOut
<1>4. TypedTasks'
  BY DEF IInv, TypedTasks, Task, Kinds, AskSignOut, Go
<1>5. ASSUME Ordinary' PROVE Inv'
  <2>0. Inv
    BY <1>5 DEF IInv, Ordinary, AskSignOut
  <2>1. NoOthers'
    BY <2>0 DEF Inv, NoOthers, AskSignOut, Go
  <2>2. LoadFirst'
    BY <2>0 DEF Inv, LoadFirst, SigningOut, AskSignOut, Go
  <2>3. LiveAgrees'
    BY <2>0 DEF Inv, LiveAgrees, SigningOut, state, AskSignOut, Go
  <2>4. SigningIn'
    BY <2>0 DEF Inv, SigningIn, SigningOut, AskSignOut, Go
  <2>5. SigningOut'
    BY <2>0 DEF Inv, SigningOut, IInv, TypedTasks, Kinds, state, AskSignOut, Go
  <2>6. Refreshing'
    BY <2>0 DEF Inv, Refreshing, state, AskSignOut, Go
  <2>7. Calling'
    BY <2>0 DEF Inv, Calling, AskSignOut, Go
  <2>8. Ended'
    BY <2>0 DEF Inv, Ended, state, AskSignOut
  <2>9. ~misjudged'
    BY <2>0 DEF Inv, AskSignOut
  <2> QED BY <2>1, <2>2, <2>3, <2>4, <2>5, <2>6, <2>7, <2>8, <2>9 DEF Inv
<1> QED BY <1>1, <1>2, <1>3, <1>4, <1>5 DEF IInv

\* Whether or not the server ends the session, only what is valid changes.
LEMMA SignOutServedKeepsInv ==
  ASSUME IInv, SignOutServed
  PROVE  IInv'
<1>1. Typed'
  BY DEF IInv, Typed, state, SignOutServed, Go
<1>2. TypedFlags'
  BY DEF IInv, TypedFlags, state, SignOutServed
<1>3. TypedActs'
  BY DEF IInv, TypedActs, SignOutServed
<1>4. TypedTasks'
  BY DEF IInv, TypedTasks, Task, Kinds, SignOutServed, Go
<1>5. ASSUME Ordinary' PROVE Inv'
  <2>0. Inv
    BY <1>5 DEF IInv, Ordinary, SignOutServed
  <2>1. NoOthers'
    BY <2>0 DEF Inv, NoOthers, SignOutServed, Go
  <2>2. LoadFirst'
    BY <2>0 DEF Inv, LoadFirst, SigningOut, SignOutServed, Go
  <2>3. LiveAgrees'
    BY <2>0 DEF Inv, LiveAgrees, SigningOut, state, SignOutServed, Go
  <2>4. SigningIn'
    BY <2>0 DEF Inv, SigningIn, SigningOut, SignOutServed, Go
  <2>5. SigningOut'
    BY <2>0 DEF Inv, SigningOut, IInv, TypedTasks, Kinds, state, SignOutServed, Go
  <2>6. Refreshing'
    BY <2>0 DEF Inv, Refreshing, state, SignOutServed, Go
  <2>7. Calling'
    BY <2>0 DEF Inv, Calling, SignOutServed, Go
  <2>8. Ended'
    BY <2>0 DEF Inv, Ended, state, SignOutServed
  <2>9. ~misjudged'
    BY <2>0 DEF Inv, SignOutServed
  <2> QED BY <2>1, <2>2, <2>3, <2>4, <2>5, <2>6, <2>7, <2>8, <2>9 DEF Inv
<1> QED BY <1>1, <1>2, <1>3, <1>4, <1>5 DEF IInv

\* The session that is ended is neither in the jar nor shown.
LEMMA SignedOutKeepsInv ==
  ASSUME IInv, SignedOut
  PROVE  IInv'
<1>1. Typed'
  <2>1. task["signOut"].sent \in 0..minted
    BY DEF IInv, TypedTasks, Task, Kinds
  <2>2. out' \subseteq 0..minted'
    BY <2>1 DEF IInv, Typed, SignedOut
  <2> QED BY <2>2 DEF IInv, Typed, SignedOut, Clear
<1>2. TypedFlags'
  BY DEF IInv, Typed, TypedFlags, TypedActs, TypedTasks, Task, Kinds, Tokens, Error, Idle, state, May,
     Ordinary, SignedOut, Clear, End
<1>3. TypedActs'
  BY DEF IInv, TypedActs, SignedOut
<1>4. TypedTasks'
  BY SessionAssumption DEF IInv, Typed, TypedTasks, Task, Kinds, Error, Idle, SignedOut, End
<1>5. ASSUME Ordinary' PROVE Inv'
  <2>0. Inv
    BY <1>5 DEF IInv, Ordinary, SignedOut
  <2>1. NoOthers'
    BY <2>0 DEF Inv, NoOthers, SignedOut, End
  <2>2. LoadFirst'
    BY <2>0 DEF Inv, LoadFirst, SigningOut, SignedOut, End
  <2>3. LiveAgrees'
    BY DEF LiveAgrees, SignedOut, Clear
  <2>4. SigningIn'
    BY <2>0 DEF Inv, SigningIn, SigningOut, SignedOut, End
  <2>5. SigningOut'
    BY DEF SigningOut, IInv, TypedTasks, Kinds, Idle, SignedOut, End
  <2>6. Refreshing'
    BY <2>0 DEF Inv, Refreshing, IInv, Typed, TypedTasks, Task, Kinds, SignedOut, Clear, End
  <2>7. Calling'
    BY <2>0 DEF Inv, Calling, SignedOut, End
  <2>8. Ended'
    BY <2>0 DEF Inv, SigningOut, Ended, SignedOut, Clear
  <2>9. ~misjudged'
    BY <2>0 DEF Inv, SignedOut
  <2> QED BY <2>1, <2>2, <2>3, <2>4, <2>5, <2>6, <2>7, <2>8, <2>9 DEF Inv
<1> QED BY <1>1, <1>2, <1>3, <1>4, <1>5 DEF IInv

\* Only the jar survives.
LEMMA RestartKeepsInv ==
  ASSUME IInv, Restart
  PROVE  IInv'
<1>1. Typed'
  BY DEF IInv, Typed, Restart
<1>2. TypedFlags'
  BY DEF IInv, Typed, TypedFlags, TypedActs, TypedTasks, Task, Kinds, Tokens, Error, Idle, state, May,
     Ordinary, Restart, Act
<1>3. TypedActs'
  BY SessionAssumption DEF IInv, Typed, TypedActs, Restart, Act
<1>4. TypedTasks'
  <2> DEFINE first == [Idle EXCEPT !.pc = "ask", !.id = 1]
  <2>1. Idle \in Task /\ first \in Task /\ first.sent = 0 /\ first.got = 0
    <3>1. Idle \in Task
      BY SessionAssumption DEF Task, Idle, Error
    <3>2. first \in Task
      BY <3>1 DEF Task
    <3> QED BY <3>1, <3>2 DEF Idle
  <2> HIDE DEF first
  <2>2. task' = [k \in Kinds |-> IF k = "load" THEN first ELSE Idle]
    BY DEF Restart, Kinds, first
  <2>3. \A k \in Kinds : task'[k] \in Task /\ task'[k].sent = 0 /\ task'[k].got = 0
    BY <2>1, <2>2 DEF Idle
  <2>4. task' \in [Kinds -> Task] /\ task'["signIn"].pc = "idle"
    BY <2>1, <2>2 DEF Idle, Kinds
  <2>5. minted' \in Nat
    BY DEF IInv, Typed, Restart
  <2> QED BY <2>3, <2>4, <2>5 DEF TypedTasks, Kinds
<1>5. ASSUME Ordinary' PROVE Inv'
  <2>0. Inv
    BY <1>5 DEF IInv, Ordinary, Restart
  <2>1. NoOthers'
    BY DEF NoOthers, Kinds, Idle, Restart
  <2>2. LoadFirst'
    BY <2>0, <1>5, SessionAssumption DEF Inv, NoOthers, LoadFirst, LiveAgrees, SigningIn, SigningOut,
       Refreshing, Calling, Ended, IInv, Typed, TypedFlags, TypedActs, TypedTasks, Task, Kinds, Tokens,
         Error, Idle, state, May, Ordinary, Restart, Act
  <2>3. LiveAgrees'
    BY DEF LiveAgrees, Restart
  <2>4. SigningIn'
    BY DEF SigningIn, Kinds, Idle, Restart
  <2>5. SigningOut'
    BY DEF SigningOut, Kinds, Idle, Restart
  <2>6. Refreshing'
    BY DEF Refreshing, Kinds, Idle, Restart
  <2>7. Calling'
    BY DEF Calling, Kinds, Idle, Restart
  <2>8. Ended'
    BY <2>0 DEF Inv, Ended, Restart
  <2>9. ~misjudged'
    BY <2>0 DEF Inv, Restart
  <2> QED BY <2>1, <2>2, <2>3, <2>4, <2>5, <2>6, <2>7, <2>8, <2>9 DEF Inv
<1> QED BY <1>1, <1>2, <1>3, <1>4, <1>5 DEF IInv

\* Fewer sessions are valid.
LEMMA RevokeKeepsInv ==
  ASSUME IInv, Revoke
  PROVE  IInv'
<1>1. Typed'
  BY DEF IInv, Typed, state, Revoke
<1>2. TypedFlags'
  BY DEF IInv, TypedFlags, state, Revoke
<1>3. TypedActs'
  BY DEF IInv, TypedActs, Revoke
<1>4. TypedTasks'
  BY DEF IInv, TypedTasks, Revoke
<1>5. ASSUME Ordinary' PROVE Inv'
  <2>0. Inv
    BY <1>5 DEF IInv, Ordinary, Revoke
  <2>1. NoOthers'
    BY <2>0 DEF Inv, NoOthers, Revoke
  <2>2. LoadFirst'
    BY <2>0 DEF Inv, LoadFirst, state, Revoke
  <2>3. LiveAgrees'
    BY <2>0 DEF Inv, LiveAgrees, state, Revoke
  <2>4. SigningIn'
    BY <2>0 DEF Inv, SigningIn, state, Revoke
  <2>5. SigningOut'
    BY <2>0 DEF Inv, SigningOut, state, Revoke
  <2>6. Refreshing'
    BY <2>0 DEF Inv, Refreshing, state, Revoke
  <2>7. Calling'
    BY <2>0 DEF Inv, Calling, Revoke
  <2>8. Ended'
    BY <2>0 DEF Inv, Ended, state, Revoke
  <2>9. ~misjudged'
    BY <2>0 DEF Inv, Revoke
  <2> QED BY <2>1, <2>2, <2>3, <2>4, <2>5, <2>6, <2>7, <2>8, <2>9 DEF Inv
<1> QED BY <1>1, <1>2, <1>3, <1>4, <1>5 DEF IInv

\* The app starts with the first check, and nothing else.
LEMMA InitInv == Init => IInv
<1> SUFFICES ASSUME Init PROVE IInv
  OBVIOUS
<1> DEFINE first == [Idle EXCEPT !.pc = "ask", !.id = 1]
<1>1. Idle \in Task
  BY SessionAssumption DEF Task, Idle, Error
<1>2. first \in Task /\ first.pc = "ask" /\ first.sent = 0 /\ first.got = 0 /\ first.id = 1
  BY <1>1 DEF Task, Idle
<1>3. task = [k \in Kinds |-> IF k = "load" THEN first ELSE Idle]
  BY DEF Init, Kinds
<1> HIDE DEF first
<1>4. \A k \in Kinds : task[k] \in Task /\ task[k].sent = 0 /\ task[k].got = 0
  BY <1>1, <1>2, <1>3 DEF Idle
<1>5. /\ \A k \in Kinds \ {"load"} : task[k].pc = "idle"
      /\ task["load"].pc = "ask" /\ task["load"].id = 1
  BY <1>2, <1>3 DEF Idle, Kinds
<1>6. Typed
  BY SessionAssumption DEF Init, Typed
<1>a. TypedFlags
  BY DEF Init, TypedFlags
<1>7. TypedActs
  BY SessionAssumption DEF Init, TypedActs
<1>8. TypedTasks
  BY <1>4, <1>5 DEF Init, TypedTasks, Kinds
<1>9. Inv
  BY <1>4, <1>5 DEF Init, Inv, NoOthers, LoadFirst, LiveAgrees, SigningIn, SigningOut, Refreshing,
       Calling, Ended, Kinds
<1> QED BY <1>6, <1>a, <1>7, <1>8, <1>9 DEF IInv

\* No step, and no stuttering, breaks the invariant.
LEMMA NextInv == IInv /\ [Next]_vars => IInv'
<1> SUFFICES ASSUME IInv, [Next]_vars PROVE IInv'
  OBVIOUS
<1>1. CASE UNCHANGED vars
  BY <1>1 DEF vars, IInv, Typed, TypedFlags, TypedActs, TypedTasks, Ordinary, Inv, NoOthers,
       LoadFirst, LiveAgrees, SigningIn, SigningOut, Refreshing, Calling, Ended
<1>2. CASE Tasks
  BY <1>2, AskKeepsInv, ServeKeepsInv, LoadedKeepsInv, RefreshedKeepsInv, UserRefreshedKeepsInv,
     CallAnsweredKeepsInv, RenewKeepsInv, WriteJarKeepsInv, ConfirmedKeepsInv,
     SignInServedKeepsInv, KeepCookieKeepsInv, FinalizeKeepsInv, AskSignOutKeepsInv,
     SignOutServedKeepsInv, SignedOutKeepsInv DEF Tasks
<1> QED
  BY <1>1, <1>2, RefreshKeepsInv, RefreshUserKeepsInv, CallKeepsInv, SignInKeepsInv,
     SignOutKeepsInv, RestartKeepsInv, RevokeKeepsInv DEF Next

LEMMA Invariance == Spec => []IInv
  BY InitInv, NextInv, PTL DEF Spec

\* The state of NativeSession has its types in every scenario.
THEOREM TypeCorrect == Spec => []TypeOK
<1>1. IInv => TypeOK
  BY SessionAssumption DEF IInv, Typed, TypedFlags, TypedActs, TypedTasks, Task, TypeOK, Tokens
<1> QED BY <1>1, Invariance, PTL

\* A session the user has ended is never shown again, for any number of
\* sign-ins, refreshes, calls and restarts: every answer that could bring it
\* back is stale or finds another token in the jar (AuthProvider.tsx).
THEOREM NeverShownAgain == Spec => []SignedOutStaysOut
<1>1. IInv => SignedOutStaysOut
  BY DEF IInv, Inv, Ended, SignedOutStaysOut
<1> QED BY <1>1, Invariance, PTL

\* The app wipes a session only after the user or the server has ended it,
\* however often requests fail.
THEOREM WipesOnlyEnded == Spec => []OnlyEndedIsWiped
<1>1. IInv => OnlyEndedIsWiped
  BY DEF IInv, Inv, OnlyEndedIsWiped
<1> QED BY <1>1, Invariance, PTL

\* Once everything has settled, requests carry the token of the session that
\* is shown.
THEOREM CookieAgrees == Spec => []CookieFollowsSession
<1>1. IInv => CookieFollowsSession
  BY DEF IInv, Inv, LiveAgrees, CookieFollowsSession, Header, Kinds
<1> QED BY <1>1, Invariance, PTL
==============================================================================
