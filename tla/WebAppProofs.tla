---------------------------- MODULE WebAppProofs ----------------------------
(***************************************************************************)
(* The safety of the web app's models: HttpClient, for any set of calls,   *)
(* any number of retries and any accounts; MailboxList, for any number of  *)
(* messages, pages of any size and users of any patience; and              *)
(* ComposeDraft, for any number of messages, texts and windows. The three  *)
(* have nothing in common but the app they are parts of: each part below   *)
(* is about one of them.                                                   *)
(***************************************************************************)
EXTENDS ComposeDraft, MailboxList, HttpClient,
        FiniteSetTheorems, WellFoundedInduction, TLAPS

----------------------------------------------------------------------------
(* PART 1. HttpClient *)

\* The attempts are numbered from zero.
LEMMA AttemptsAreNumbers == 0 \in Attempts /\ Attempts \subseteq Nat
  BY ConstantsAssumption DEF Attempts

\* An attempt before the last leaves room for another.
LEMMA NextAttempt ==
  ASSUME NEW i \in Attempts, i < Retries
  PROVE  i + 1 \in Attempts
  BY ConstantsAssumption DEF Attempts

\* Nothing was called yet: the invariant holds.
LEMMA HttpInvInit == HttpInit => HttpInv
  BY AttemptsAreNumbers, ConstantsAssumption
  DEF HttpInit, HttpInv, HttpTypeOK, PostRepeatsUnprocessed, AttemptsInOrder, HeadersKept, Answers, Attempts

\* A call that starts, or whose headers cannot be resolved, sends nothing.
LEMMA UnsentKeepsInv ==
  ASSUME HttpInv, NEW c \in Calls, NEW p \in {"resolving", "failed"},
         pc[c] \in {"idle", "resolving"}, pc' = [pc EXCEPT ![c] = p],
         UNCHANGED <<attempt, headers, net, applied, actedAs, account>>
  PROVE  HttpInv'
<1> USE AttemptsAreNumbers DEF HttpInv
<1>1. HttpTypeOK'
  BY DEF HttpTypeOK
<1>2. PostRepeatsUnprocessed'
  BY DEF HttpTypeOK, PostRepeatsUnprocessed
<1>3. AttemptsInOrder'
  BY DEF HttpTypeOK, AttemptsInOrder
<1>4. HeadersKept'
  BY DEF HttpTypeOK, HeadersKept
<1> QED BY <1>1, <1>2, <1>3, <1>4

\* A first attempt finds no attempt of its call anywhere.
LEMMA ResolvedKeepsInv ==
  ASSUME HttpInv, NEW c \in Calls, pc[c] = "resolving", Send(c, 0),
         headers' = [headers EXCEPT ![c] = account], UNCHANGED <<applied, actedAs, account>>
  PROVE  HttpInv'
<1> USE AttemptsAreNumbers DEF HttpInv
<1>1. HttpTypeOK'
  BY DEF HttpTypeOK, Send
<1>2. PostRepeatsUnprocessed'
  BY DEF HttpTypeOK, Send, PostRepeatsUnprocessed, AttemptsInOrder
<1>3. AttemptsInOrder'
  BY DEF HttpTypeOK, Send, AttemptsInOrder, Answers
<1>4. HeadersKept'
  BY DEF HttpTypeOK, Send, HeadersKept
<1> QED BY <1>1, <1>2, <1>3, <1>4

\* The headers of an answer settle nothing yet.
LEMMA HeadersComeKeepsInv ==
  ASSUME HttpInv, NEW c \in Calls, pc[c] = "sent", net[c][attempt[c]] \in Answers \ {"lost"},
         pc' = [pc EXCEPT ![c] = "reading"],
         UNCHANGED <<attempt, headers, net, applied, actedAs, account>>
  PROVE  HttpInv'
<1> USE AttemptsAreNumbers DEF HttpInv
<1>1. HttpTypeOK'
  BY DEF HttpTypeOK
<1>2. PostRepeatsUnprocessed'
  BY DEF HttpTypeOK, PostRepeatsUnprocessed
<1>3. AttemptsInOrder'
  BY DEF HttpTypeOK, AttemptsInOrder
<1>4. HeadersKept'
  BY DEF HttpTypeOK, HeadersKept
<1> QED BY <1>1, <1>2, <1>3, <1>4

\* A POST goes on to wait only when its attempt was not processed.
LEMMA SettleKeepsInv ==
  ASSUME HttpInv, NEW c \in Calls, NEW answer \in Answers \cup {"timeout", "unreadable"},
         pc[c] \in {"sent", "reading"}, Settle(c, answer),
         answer \in {"timeout", "lost", "unreadable"} \/ net[c][attempt[c]] = answer,
         UNCHANGED <<attempt, headers, net, applied, actedAs, account>>
  PROVE  HttpInv'
<1> USE AttemptsAreNumbers DEF HttpInv
<1>1. HttpTypeOK'
  BY DEF HttpTypeOK, Settle
<1>2. PostRepeatsUnprocessed'
  <2> SUFFICES ASSUME NEW d \in Calls \ Idempotent, NEW i \in Attempts,
                      i < attempt[d] \/ pc'[d] = "wait", i <= attempt[d]
               PROVE  net[d][i] = "busy"
    BY DEF PostRepeatsUnprocessed
  <2>1. CASE i < attempt[d]
    BY <2>1 DEF PostRepeatsUnprocessed
  <2>2. CASE d # c
    BY <2>2 DEF HttpTypeOK, Settle, PostRepeatsUnprocessed
  <2>3. CASE d = c /\ i = attempt[d]
    BY <2>3 DEF HttpTypeOK, Settle, Retryable, Answers
  <2>4. attempt[d] \in Nat /\ i \in Nat
    BY DEF HttpTypeOK
  <2> QED BY <2>1, <2>2, <2>3, <2>4
<1>3. AttemptsInOrder'
  BY DEF HttpTypeOK, Settle, AttemptsInOrder
<1>4. HeadersKept'
  BY DEF HttpTypeOK, Settle, HeadersKept
<1> QED BY <1>1, <1>2, <1>3, <1>4

\* A repeated attempt is the next one, and the last one was not processed if
\* the call is a POST.
LEMMA RepeatKeepsInv ==
  ASSUME HttpInv, NEW c \in Calls, Repeat(c)
  PROVE  HttpInv'
<1> USE DEF HttpInv
<1>0. attempt[c] \in Attempts /\ attempt[c] + 1 \in Attempts /\ Attempts \subseteq Nat
  BY NextAttempt, AttemptsAreNumbers DEF HttpTypeOK, AttemptsInOrder, Repeat
<1>1. HttpTypeOK'
  BY <1>0 DEF HttpTypeOK, Repeat, Send
<1>a. /\ \A d \in Calls : d # c => pc'[d] = pc[d] /\ attempt'[d] = attempt[d] /\ net'[d] = net[d]
      /\ pc[c] = "wait" /\ pc'[c] = "sent" /\ attempt'[c] = attempt[c] + 1
      /\ \A i \in Attempts : net'[c][i] = IF i = attempt[c] + 1 THEN "travelling" ELSE net[c][i]
      /\ applied' = applied
  BY <1>0 DEF HttpTypeOK, Repeat, Send
<1>2. PostRepeatsUnprocessed'
  <2> SUFFICES ASSUME NEW d \in Calls \ Idempotent, NEW i \in Attempts,
                      i < attempt'[d] \/ pc'[d] = "wait", i <= attempt'[d]
               PROVE  net'[d][i] = "busy"
    BY DEF PostRepeatsUnprocessed
  <2>1. CASE d # c
    BY <2>1, <1>a DEF PostRepeatsUnprocessed
  <2>2. CASE d = c
    <3>1. i < attempt[c] + 1
      BY <2>2, <1>a
    <3>2. i \in Nat /\ attempt[c] \in Nat
      BY <1>0
    <3>3. i <= attempt[c] /\ i # attempt[c] + 1
      BY <3>1, <3>2
    <3> QED BY <2>2, <3>3, <1>a DEF PostRepeatsUnprocessed
  <2> QED BY <2>1, <2>2
<1>3. AttemptsInOrder'
  <2> SUFFICES ASSUME NEW d \in Calls, NEW i \in Attempts
               PROVE  /\ i > attempt'[d] => net'[d][i] = "none"
                      /\ pc'[d] \in {"idle", "resolving"} => net'[d][i] = "none" /\ attempt'[d] = 0
                      /\ pc'[d] = "reading" => net'[d][attempt'[d]] \in Answers \ {"lost"}
                      /\ i \in applied'[d] => net'[d][i] \in {"ok", "error", "lost"}
                      /\ net'[d][i] = "ok" => i \in applied'[d]
                      /\ pc'[d] = "wait" => attempt'[d] < Retries
                      /\ pc'[d] = "ok" => net'[d][attempt'[d]] = "ok"
    BY DEF AttemptsInOrder
  <2>1. CASE d # c
    BY <2>1, <1>a DEF AttemptsInOrder
  <2>2. CASE d = c
    <3>0. attempt[c] \in Nat /\ i \in Nat /\ attempt[c] + 1 > attempt[c]
      <4>1. attempt[c] \in Nat /\ i \in Nat
        BY <1>0
      <4> QED BY <4>1
    <3>1. net[c][attempt[c] + 1] = "none"
      BY <1>0, <3>0 DEF AttemptsInOrder
    <3>2. attempt[c] + 1 \notin applied[c]
      BY <3>1, <1>0 DEF AttemptsInOrder
    <3>3. i > attempt[c] + 1 => net'[c][i] = "none"
      <4>1. i > attempt[c] + 1 => i > attempt[c] /\ i # attempt[c] + 1
        BY <3>0
      <4> QED BY <4>1, <1>a DEF AttemptsInOrder
    <3>4. i \in applied[c] => net'[c][i] \in {"ok", "error", "lost"}
      BY <3>2, <1>a DEF AttemptsInOrder
    <3>5. net'[c][i] = "ok" => i \in applied[c]
      BY <1>a DEF AttemptsInOrder
    <3> QED BY <2>2, <1>a, <3>3, <3>4, <3>5
  <2> QED BY <2>1, <2>2
<1>4. HeadersKept'
  BY DEF HttpTypeOK, Repeat, Send, HeadersKept
<1> QED BY <1>1, <1>2, <1>3, <1>4

\* Only an attempt under way is answered, so no processed attempt of a POST is
\* followed by another.
LEMMA NetworkKeepsInv ==
  ASSUME HttpInv, NEW c \in Calls, NEW i \in Attempts, Apply(c, i) \/ Reject(c, i)
  PROVE  HttpInv'
<1> USE AttemptsAreNumbers DEF HttpInv
<1>1. HttpTypeOK'
  <2>1. CASE Apply(c, i)
    BY <2>1 DEF HttpTypeOK, Apply, Answers
  <2>2. CASE Reject(c, i)
    BY <2>2 DEF HttpTypeOK, Reject, Answers
  <2> QED BY <2>1, <2>2
<1>2. PostRepeatsUnprocessed'
  <2>1. \A d \in Calls, k \in Attempts : net[d][k] = "busy" => net'[d][k] = "busy"
    BY DEF HttpTypeOK, Apply, Reject
  <2>2. attempt' = attempt /\ pc' = pc
    BY DEF Apply, Reject
  <2> QED BY <2>1, <2>2 DEF PostRepeatsUnprocessed
<1>3. AttemptsInOrder'
  <2>1. CASE Apply(c, i)
    BY <2>1 DEF HttpTypeOK, Apply, AttemptsInOrder, Answers
  <2>2. CASE Reject(c, i)
    BY <2>2 DEF HttpTypeOK, Reject, AttemptsInOrder, Answers
  <2> QED BY <2>1, <2>2
<1>4. HeadersKept'
  BY DEF HttpTypeOK, Apply, Reject, HeadersKept, AttemptsInOrder
<1> QED BY <1>1, <1>2, <1>3, <1>4

\* Every step keeps the invariant.
LEMMA HttpInvNext == HttpInv /\ [HttpNext]_httpVars => HttpInv'
<1> SUFFICES ASSUME HttpInv, [HttpNext]_httpVars PROVE HttpInv'
  OBVIOUS
<1>1. ASSUME NEW c \in Calls, Start(c) PROVE HttpInv'
  BY <1>1, UnsentKeepsInv DEF Start
<1>2. ASSUME NEW c \in Calls, Resolved(c) PROVE HttpInv'
  <2>1. CASE Send(c, 0) /\ headers' = [headers EXCEPT ![c] = account]
    BY <1>2, <2>1, ResolvedKeepsInv DEF Resolved
  <2>2. CASE pc' = [pc EXCEPT ![c] = "failed"] /\ UNCHANGED <<attempt, headers, net>>
    BY <1>2, <2>2, UnsentKeepsInv DEF Resolved
  <2> QED BY <1>2, <2>1, <2>2 DEF Resolved
<1>3. ASSUME NEW c \in Calls, Answered(c) PROVE HttpInv'
  <2>1. CASE pc' = [pc EXCEPT ![c] = "reading"] /\ net[c][attempt[c]] \in Answers \ {"lost"}
    BY <1>3, <2>1, HeadersComeKeepsInv DEF Answered
  <2>2. CASE Settle(c, "lost")
    BY <1>3, <2>2, SettleKeepsInv DEF Answered, Answers
  <2> QED BY <1>3, <2>1, <2>2 DEF Answered
<1>4. ASSUME NEW c \in Calls, BodyRead(c) PROVE HttpInv'
  <2>1. net[c][attempt[c]] \in Answers
    BY <1>4, AttemptsAreNumbers DEF BodyRead, HttpInv, AttemptsInOrder
  <2>2. CASE Settle(c, net[c][attempt[c]])
    BY <1>4, <2>1, <2>2, SettleKeepsInv DEF BodyRead
  <2>3. CASE Settle(c, "lost") \/ Settle(c, "unreadable")
    BY <1>4, <2>3, SettleKeepsInv DEF BodyRead, Answers
  <2> QED BY <1>4, <2>2, <2>3 DEF BodyRead
<1>5. ASSUME NEW c \in Calls, Timeout(c) PROVE HttpInv'
  BY <1>5, SettleKeepsInv DEF Timeout
<1>6. ASSUME NEW c \in Calls, Repeat(c) PROVE HttpInv'
  BY <1>6, RepeatKeepsInv
<1>7. ASSUME NEW c \in Calls, NEW i \in Attempts, Apply(c, i) \/ Reject(c, i) PROVE HttpInv'
  BY <1>7, NetworkKeepsInv
<1>8. CASE Switch \/ UNCHANGED httpVars
  BY <1>8 DEF Switch, httpVars, HttpInv, HttpTypeOK, PostRepeatsUnprocessed, AttemptsInOrder, HeadersKept
<1> QED BY <1>1, <1>2, <1>3, <1>4, <1>5, <1>6, <1>7, <1>8 DEF HttpNext, Client, Timed, Network

\* The invariant holds in every reachable state.
LEMMA HttpInvariance == HttpSpec => []HttpInv
  BY HttpInvInit, HttpInvNext, PTL DEF HttpSpec

\* The client's and the network's state always has its types.
THEOREM HttpTypeCorrect == HttpSpec => []HttpTypeOK
<1>1. HttpInv => HttpTypeOK
  BY DEF HttpInv
<1> QED BY <1>1, HttpInvariance, PTL

\* A POST is applied at most once: isRetryableError lets it go on only after an
\* answer that says it was not processed, however late its attempts arrive.
THEOREM PostsOnce == HttpSpec => []PostAppliedOnce
<1>1. HttpInv => PostAppliedOnce
  <2> SUFFICES ASSUME HttpInv, NEW c \in Calls \ Idempotent, NEW i \in applied[c], NEW j \in applied[c]
               PROVE  i = j
    BY DEF PostAppliedOnce
  <2>1. ASSUME NEW k \in applied[c] PROVE k = attempt[c]
    <3>1. k \in Attempts /\ k \in Nat /\ attempt[c] \in Nat
      BY <2>1, AttemptsAreNumbers DEF HttpInv, HttpTypeOK
    <3>2. net[c][k] \in {"ok", "error", "lost"}
      BY <2>1, <3>1 DEF HttpInv, AttemptsInOrder
    <3>3. ~(k < attempt[c])
      BY <3>1, <3>2 DEF HttpInv, PostRepeatsUnprocessed
    <3>4. ~(k > attempt[c])
      BY <3>1, <3>2 DEF HttpInv, AttemptsInOrder
    <3> QED BY <3>1, <3>3, <3>4
  <2> QED BY <2>1
<1> QED BY <1>1, HttpInvariance, PTL

\* A call that reports success was applied by the attempt it reports on.
THEOREM SuccessIsReal == HttpSpec => []SuccessWasApplied
<1>1. HttpInv => SuccessWasApplied
  BY DEF HttpInv, HttpTypeOK, AttemptsInOrder, SuccessWasApplied
<1> QED BY <1>1, HttpInvariance, PTL

\* However the user signs out and in during the delays, a call acts for one
\* account: makeRequest resolves the headers before its loop.
THEOREM CallsKeepIdentity == HttpSpec => []OneIdentity
<1>1. HttpInv => OneIdentity
  BY DEF HttpInv, HeadersKept, OneIdentity
<1> QED BY <1>1, HttpInvariance, PTL

----------------------------------------------------------------------------
(* PART 2. MailboxList *)

----------------------------------------------------------------------------
(* Pages *)

\* The part of a set of messages that has everything newer than what it has.
Top(part, set) == part \subseteq set /\ \A x \in set \ part : \A k \in part : x < k

\* Messages are finite in number.
LEMMA MessagesFinite ==
  ASSUME NEW X \in SUBSET Mail
  PROVE  /\ IsFiniteSet(X)
         /\ Cardinality(X) \in 0 .. MaxMail
         /\ \A Y \in SUBSET X : /\ IsFiniteSet(Y)
                                /\ Cardinality(Y) \in Nat
                                /\ Cardinality(Y) <= Cardinality(X)
                                /\ Cardinality(Y) = Cardinality(X) => Y = X
<1>1. MaxMail \in Nat /\ Mail = 1 .. MaxMail
  BY MailboxAssumption DEF Mail
<1>2. IsFiniteSet(Mail) /\ Cardinality(Mail) = MaxMail
  BY <1>1, FS_Interval
<1>3. IsFiniteSet(X) /\ Cardinality(X) <= MaxMail
  BY <1>2, FS_Subset
<1>4. Cardinality(X) \in Nat
  BY <1>3, FS_CardinalityType
<1>5. ASSUME NEW Y \in SUBSET X
      PROVE  /\ IsFiniteSet(Y)
             /\ Cardinality(Y) \in Nat
             /\ Cardinality(Y) <= Cardinality(X)
             /\ Cardinality(Y) = Cardinality(X) => Y = X
  BY <1>3, <1>5, FS_Subset, FS_CardinalityType
<1> QED BY <1>1, <1>3, <1>4, <1>5

\* The newest n of a set are its top part, as many of them as there are.
LEMMA NewestIsTop ==
  ASSUME NEW X \in SUBSET Mail, NEW n \in Nat
  PROVE  Top(Newest(X, n), X)
<1>1. Newest(X, n) \subseteq X
  BY DEF Newest
<1>2. ASSUME NEW x \in X \ Newest(X, n), NEW k \in Newest(X, n), ~(x < k)
      PROVE  FALSE
  <2> DEFINE A == {j \in X : j > x}
             B == {j \in X : j > k}
  <2>0. \A j \in X : j \in Int
    BY DEF Mail
  <2>1. x \in X /\ k \in X
    BY <1>1, <1>2
  <2>2. A \in SUBSET B /\ B \in SUBSET X
    <3>1. x \in Int /\ k \in Int /\ ~(x < k)
      BY <2>0, <2>1, <1>2
    <3>2. k <= x
      BY <3>1
    <3>3. ASSUME NEW j \in X, j > x PROVE j > k
      BY <3>1, <3>2, <3>3, <2>0
    <3> QED BY <3>3
  <2>3. Cardinality(B) < n /\ ~(Cardinality(A) < n)
    BY <1>2 DEF Newest
  <2>4. B \in SUBSET Mail
    BY <2>2
  <2>5. Cardinality(A) <= Cardinality(B) /\ Cardinality(A) \in Nat /\ Cardinality(B) \in Nat
    BY <2>2, <2>4, MessagesFinite
  <2> QED BY <2>3, <2>5
<1> QED BY <1>1, <1>2 DEF Top

\* More of the newest include the fewer.
LEMMA NewestGrows ==
  ASSUME NEW X \in SUBSET Mail, NEW n \in Nat, NEW p \in Nat, n <= p
  PROVE  Newest(X, n) \subseteq Newest(X, p)
<1> SUFFICES ASSUME NEW m \in Newest(X, n) PROVE m \in Newest(X, p)
  OBVIOUS
<1> DEFINE A == {j \in X : j > m}
<1>1. m \in X /\ Cardinality(A) < n
  BY DEF Newest
<1>2. A \in SUBSET X
  OBVIOUS
<1>3. Cardinality(A) \in Nat
  BY <1>2, MessagesFinite
<1>4. Cardinality(A) < p
  BY <1>1, <1>3
<1> QED BY <1>1, <1>4 DEF Newest

\* The newest none of a set are none.
LEMMA NewestNone ==
  ASSUME NEW X \in SUBSET Mail
  PROVE  Newest(X, 0) = {}
<1> SUFFICES ASSUME NEW m \in Newest(X, 0) PROVE FALSE
  OBVIOUS
<1> DEFINE A == {j \in X : j > m}
<1>1. Cardinality(A) < 0
  BY DEF Newest
<1>2. A \in SUBSET X
  OBVIOUS
<1>3. Cardinality(A) \in Nat
  BY <1>2, MessagesFinite
<1> QED BY <1>1, <1>3

\* A list without a hole is the page of its own length.
LEMMA TopIsNewest ==
  ASSUME NEW X \in SUBSET Mail, NEW L, Top(L, X)
  PROVE  Newest(X, Cardinality(L)) = L
<1>0. L \in SUBSET X /\ L \in SUBSET Mail /\ \A j \in X : j \in Int
  BY DEF Top, Mail
<1>1. Cardinality(L) \in Nat
  BY <1>0, MessagesFinite
<1>2. ASSUME NEW m \in L PROVE m \in Newest(X, Cardinality(L))
  <2> DEFINE A == {j \in X : j > m}
  <2>1. A \in SUBSET L /\ A # L
    BY <1>0, <1>2 DEF Top
  <2>2. Cardinality(A) \in Nat /\ Cardinality(A) <= Cardinality(L) /\ Cardinality(A) # Cardinality(L)
    BY <2>1, <1>0, MessagesFinite
  <2>3. Cardinality(A) < Cardinality(L)
    BY <2>2, <1>1
  <2> QED BY <2>3, <1>0, <1>2 DEF Newest
<1>3. ASSUME NEW m \in X \ L PROVE m \notin Newest(X, Cardinality(L))
  <2> DEFINE A == {j \in X : j > m}
  <2>1. L \in SUBSET A /\ A \in SUBSET Mail
    BY <1>0, <1>3 DEF Top
  <2>2. Cardinality(L) <= Cardinality(A) /\ Cardinality(A) \in Nat
    BY <2>1, MessagesFinite
  <2>3. ~(Cardinality(A) < Cardinality(L))
    BY <2>2, <1>1
  <2> QED BY <2>3 DEF Newest
<1>4. Newest(X, Cardinality(L)) \subseteq X
  BY DEF Newest
<1> QED BY <1>0, <1>2, <1>3, <1>4

\* A refreshed page takes the place of no row it does not have.
LEMMA MergeKeepsRows ==
  ASSUME NEW X \in SUBSET Mail, NEW rows, Top(rows, X), NEW n \in Nat
  PROVE  MergeRefreshed(rows, Newest(X, n)) = Newest(X, n) \cup rows
<1> DEFINE page == Newest(X, n)
<1>0. /\ rows \in SUBSET X /\ page \in SUBSET X /\ Top(page, X)
      /\ rows \in SUBSET Mail /\ page \in SUBSET Mail
  BY NewestIsTop DEF Top
<1>1. Cardinality(page) \in Nat
  BY <1>0, MessagesFinite
<1>3. ASSUME NEW x \in rows, x \in Newest(rows, Cardinality(page)), x \notin page
      PROVE  FALSE
  <2> DEFINE A == {j \in rows : j > x}
  <2>1. Cardinality(A) < Cardinality(page)
    BY <1>3 DEF Newest
  <2>2. x \in Int /\ \A j \in X : j \in Int
    BY <1>0 DEF Mail
  <2>3. ASSUME NEW k \in page PROVE k \in A
    <3>1. x < k
      BY <1>0, <1>3 DEF Top
    <3>2. k \in rows
      <4> SUFFICES ASSUME k \notin rows PROVE FALSE
        OBVIOUS
      <4>1. k < x
        BY <1>0 DEF Top
      <4>2. k \in Int /\ x \in Int
        BY <1>0, <2>2
      <4> QED BY <4>1, <4>2, <3>1
    <3> QED BY <3>1, <3>2, <2>2, <1>0
  <2>4. page \in SUBSET A /\ A \in SUBSET Mail
    BY <2>3, <1>0
  <2>5. Cardinality(page) <= Cardinality(A) /\ Cardinality(A) \in Nat
    BY <2>4, MessagesFinite
  <2> QED BY <2>1, <2>5, <1>1
<1>4. CASE rows = {}
  BY <1>4 DEF MergeRefreshed
<1>5. CASE rows # {}
  <2>1. MergeRefreshed(rows, page) = page \cup (rows \ Newest(rows, Cardinality(page)))
    BY <1>5 DEF MergeRefreshed
  <2> QED BY <2>1, <1>3
<1> QED BY <1>4, <1>5

\* Two lists without a hole have none together.
LEMMA TopsJoin ==
  ASSUME NEW X, NEW A, NEW B, Top(A, X), Top(B, X)
  PROVE  Top(A \cup B, X)
  BY DEF Top

----------------------------------------------------------------------------
(* The invariant *)

MoveKind == {"delete", "move"}
Query == {"open", "more", "refresh"}

TaskSet ==
    [kind : MoveKind \cup Query \cup {"bulk", "empty"}, folder : Folder \cup {"gone"},
     msgs : SUBSET Mail, rows : SUBSET Mail, position : 0 .. MaxMail,
     pc : {"sent", "served"}, page : SUBSET Mail]

UndoSet == [kind : MoveKind, msg : Mail, to : Folder]

Types ==
    /\ listScenario \in ListScenarios
    /\ shown \in Folder
    /\ list \subseteq Mail
    /\ total \in 0 .. MaxMail
    /\ where \in [Mail -> Place]
    /\ changed \subseteq Mail
    /\ sync = NoSync \/ (DOMAIN sync \subseteq Mail /\ sync \in [DOMAIN sync -> Place])
    /\ undos \subseteq UndoSet
    /\ tasks \subseteq TaskSet
    /\ \A t \in tasks : t.kind \in Query => t.folder \in Folder

Here == In(shown)

\* What a move has taken from the list and the server still has.
Moving == {t \in tasks : t.kind \in MoveKind /\ t.pc = "sent"}
Hidden == {u.msg : u \in undos} \cup UNION {t.msgs : t \in Moving}

\* What the list will be told of.
Known == IF sync = NoSync THEN {} ELSE DOMAIN sync
Dirty == changed \cup Known

\* A request that is no move has the app for itself.
Alone == \A t \in tasks :
    /\ t.kind \notin MoveKind => tasks = {t} /\ undos = {}
    /\ t.kind \in Query => Synced
    /\ t.kind \notin MoveKind /\ t.pc = "sent" => Synced

\* What a handler has captured is still so, and an answer says what the server has.
CapturedQuery(t) ==
    /\ t.kind \in {"more", "refresh"} => t.rows = list /\ t.folder = shown
    /\ t.position = IF t.kind = "more" THEN Cardinality(list) ELSE 0
    /\ t.pc = "served" => t.page = PageOf(t.folder, t.position)

CapturedChange(t) ==
    /\ t.kind = "bulk" =>
         /\ t.rows = list \ t.msgs
         /\ t.folder # shown
         /\ t.pc = "sent" => t.msgs \subseteq Here
         /\ t.pc = "served" => t.msgs \cap Here = {} /\ Dirty \subseteq t.msgs
    /\ t.kind = "empty" =>
         /\ t.rows = {}
         /\ shown = "trash"
         /\ t.folder = "gone"
         /\ t.pc = "served" => Here = {}
    /\ t.kind \in MoveKind =>
         /\ t.msgs \cap list = {}
         /\ t.folder # shown
         /\ t.pc = "served" => t.msgs \cap Here = {}

Captured == \A t \in tasks : (t.kind \in Query => CapturedQuery(t)) /\ CapturedChange(t)

\* No message is moved twice at once.
Apart ==
    /\ \A u \in undos : u.to # shown
    /\ \A u, v \in undos : u.msg = v.msg => u = v
    /\ \A u \in undos, t \in Moving : u.msg \notin t.msgs
    /\ \A s, t \in Moving : \A m \in s.msgs : m \in t.msgs => s = t

RowsTrue == list \subseteq Here \cup Dirty
SyncTrue == sync # NoSync => \A m \in DOMAIN sync \ changed : sync[m] = where[m]
HiddenHere == \A m \in Hidden : m \in Here /\ m \notin list /\ m \notin Dirty

\* What is dirty has left the folder, and the rows are gone or about to go.
Own ==
    /\ \A m \in Dirty : m \notin Here
    /\ sync # NoSync => \A m \in DOMAIN sync : sync[m] # shown
    /\ (\A t \in tasks : t.kind \notin {"bulk", "empty"}) => list \cap Dirty = {}

OwnChanges == undos # {} \/ tasks # {} => Own

\* No other client moves mail into the open folder.
Ordered == ~ListMay("remoteInto")

\* What a sync is going to bring into the list.
Coming == (changed \cap Here) \cup {m \in Known : sync[m] = shown}

\* What is not in the list is coming, or older than all that is there or comes.
Upward == Ordered =>
    \A x \in Here : x \notin list \cup Hidden \cup Dirty =>
    \A k \in list \cup Hidden \cup Coming : x < k

PInv == /\ Alone /\ Captured /\ Apart /\ RowsTrue /\ SyncTrue /\ HiddenHere
        /\ OwnChanges /\ Upward

\* What has not come yet is newer than what has.
MailLater == \A x, y \in Mail : where[x] = "unborn" /\ where[y] # "unborn" => y < x

----------------------------------------------------------------------------
(* Types *)

\* A page holds messages.
LEMMA PagesAreMessages ==
  ASSUME NEW f, NEW p \in Nat, where \in [Mail -> Place]
  PROVE  PageOf(f, p) \in SUBSET Mail /\ In(f) \in SUBSET Mail
<1>1. In(f) \in SUBSET Mail
  BY DEF In
<1> QED BY <1>1 DEF PageOf, Newest

\* A request that is begun is a request.
LEMMA NewTask ==
  ASSUME NEW kind \in MoveKind \cup Query \cup {"bulk", "empty"}, NEW f \in Folder \cup {"gone"},
         NEW msgs \in SUBSET Mail, NEW rows \in SUBSET Mail
  PROVE  Request(kind, f, msgs, rows) \in TaskSet
  BY MailboxAssumption DEF Request, TaskSet

\* The types hold at the start.
LEMMA ListTypesInit == ListInit => Types
<1> SUFFICES ASSUME ListInit PROVE Types
  OBVIOUS
<1>1. where \in [Mail -> Place]
  BY DEF ListInit, Place, Folder
<1>2. list \subseteq Mail /\ total \in 0 .. MaxMail
  BY <1>1, PagesAreMessages, MailboxAssumption DEF ListInit
<1> QED BY <1>1, <1>2 DEF ListInit, Types, Folder

\* What the user does keeps the types.
LEMMA UserTypes == Types /\ ListUser => Types'
<1> SUFFICES ASSUME Types, ListUser PROVE Types'
  OBVIOUS
<1> USE DEF Types
<1>1. ASSUME NEW f \in Folder, Open(f) PROVE Types'
  <2>1. Request("open", f, {}, {}) \in TaskSet
    BY NewTask DEF Query
  <2>2. Request("open", f, {}, {}).folder = f
    BY DEF Request
  <2> QED BY <1>1, <2>1, <2>2 DEF Open, Act, Counted, Begin
<1>2. CASE LoadMore
  <2> DEFINE T == [Request("more", shown, {}, list) EXCEPT !.position = Cardinality(list)]
  <2>1. Request("more", shown, {}, list) \in TaskSet /\ Request("more", shown, {}, list).folder = shown
    BY NewTask DEF Query, Request
  <2>2. Cardinality(list) \in 0 .. MaxMail
    BY MessagesFinite
  <2>3. T \in TaskSet /\ T.folder \in Folder
    BY <2>1, <2>2 DEF TaskSet
  <2> HIDE DEF T
  <2>4. tasks' = tasks \cup {T} /\ UNCHANGED <<listScenario, shown, list, total, undos, where, changed, sync>>
    BY <1>2 DEF LoadMore, Begin, T
  <2> QED BY <2>3, <2>4
<1>3. CASE ManualRefresh
  <2>1. Request("refresh", shown, {}, list) \in TaskSet
    BY NewTask DEF Query
  <2>2. Request("refresh", shown, {}, list).folder = shown
    BY DEF Request
  <2> QED BY <1>3, <2>1, <2>2 DEF ManualRefresh, Counted, Begin
<1>4. ASSUME NEW m \in Mail, MoveLater(m, "inbox", "move") \/ MoveLater(m, "trash", "delete")
      PROVE  Types'
  <2>1. PICK kind \in MoveKind, f \in Folder : MoveLater(m, f, kind)
    BY <1>4 DEF MoveKind, Folder
  <2>2. [kind |-> kind, msg |-> m, to |-> f] \in UndoSet
    BY DEF UndoSet
  <2> QED BY <2>1, <2>2 DEF MoveLater, Counted
<1>5. ASSUME NEW msgs \in SUBSET list, NEW f \in {"inbox", "trash", "gone"}, ChangeThenShow("bulk", f, msgs)
      PROVE  Types'
  <2>1. Request("bulk", f, msgs, list \ msgs) \in TaskSet
    BY NewTask DEF Query, Folder
  <2>2. Request("bulk", f, msgs, list \ msgs).kind = "bulk"
    BY DEF Request
  <2> QED BY <1>5, <2>1, <2>2 DEF ChangeThenShow, Act, Counted, Begin, Query
<1>6. CASE EmptyMailbox
  <2>1. Request("empty", "gone", {}, {}) \in TaskSet
    BY NewTask DEF Query, Folder
  <2>2. Request("empty", "gone", {}, {}).kind = "empty"
    BY DEF Request
  <2> QED BY <1>6, <2>1, <2>2 DEF EmptyMailbox, Act, Counted, Begin, Query
<1>7. ASSUME NEW u \in undos, Undo(u) PROVE Types'
  BY <1>7 DEF Undo, UndoSet
<1> QED BY <1>1, <1>2, <1>3, <1>4, <1>5, <1>6, <1>7 DEF ListUser

\* What the app and the server do keeps the types.
LEMMA ProgramTypes == Types /\ ListProgram => Types'
<1> SUFFICES ASSUME Types, ListProgram PROVE Types'
  OBVIOUS
<1> USE DEF Types
<1>1. ASSUME NEW u \in undos, ToastGone(u) PROVE Types'
  <2>1. u.kind \in MoveKind /\ u.to \in Folder /\ u.msg \in Mail
    BY DEF UndoSet
  <2>2. Request(u.kind, u.to, {u.msg}, {}) \in TaskSet
    BY <2>1, NewTask
  <2>3. Request(u.kind, u.to, {u.msg}, {}).kind \notin Query
    BY <2>1 DEF Request, Query, MoveKind
  <2> QED BY <1>1, <2>2, <2>3 DEF ToastGone, Begin
<1>2. ASSUME NEW t \in tasks, ServeQuery(t) PROVE Types'
  <2> DEFINE T == [t EXCEPT !.pc = "served", !.page = PageOf(t.folder, t.position)]
  <2>1. t \in TaskSet /\ t.position \in Nat
    BY MailboxAssumption DEF TaskSet
  <2>2. PageOf(t.folder, t.position) \in SUBSET Mail
    BY <2>1, PagesAreMessages
  <2>3. T \in TaskSet /\ T.kind = t.kind /\ T.folder = t.folder
    BY <2>1, <2>2 DEF TaskSet
  <2>4. /\ tasks' = (tasks \ {t}) \cup {T}
        /\ UNCHANGED <<listScenario, shown, list, total, undos, where, changed, sync>>
    BY <1>2 DEF ServeQuery
  <2> HIDE DEF T
  <2> QED BY <2>3, <2>4
<1>3. ASSUME NEW t \in tasks, ServeChange(t) PROVE Types'
  <2> DEFINE msgs == IF t.kind = "empty" THEN In("trash") ELSE {m \in t.msgs : where[m] \in Folder}
             T == [t EXCEPT !.pc = "served"]
  <2>1. t \in TaskSet /\ t.msgs \subseteq Mail /\ t.folder \in Place
    BY DEF TaskSet, Place
  <2>2. T \in TaskSet /\ T.kind = t.kind /\ T.folder = t.folder
    BY <2>1 DEF TaskSet
  <2>3. /\ tasks' = (tasks \ {t}) \cup {T}
        /\ where' = [m \in Mail |-> IF m \in msgs THEN t.folder ELSE where[m]]
        /\ changed' = changed \cup msgs
        /\ UNCHANGED <<listScenario, shown, list, total, undos, sync>>
    BY <1>3 DEF ServeChange
  <2>4. msgs \subseteq Mail
    BY <2>1 DEF In
  <2> HIDE DEF T, msgs
  <2> QED BY <2>1, <2>2, <2>3, <2>4
<1>4. ASSUME NEW t \in tasks, Refused(t) PROVE Types'
  <2>1. list' \subseteq Mail /\ tasks' = tasks \ {t}
    BY <1>4 DEF Refused, Finished, TaskSet
  <2> QED BY <1>4, <2>1 DEF Refused
<1>5. ASSUME NEW t \in tasks, ShowFolder(t) PROVE Types'
  <2>1. t \in TaskSet /\ t.folder \in Folder
    BY <1>5 DEF ShowFolder, Query
  <2> QED BY <1>5, <2>1, MailboxAssumption DEF ShowFolder, Finished, TaskSet
<1>6. ASSUME NEW t \in tasks, AppendPage(t) PROVE Types'
  <2> DEFINE more == t.page \ t.rows
             next == t.rows \cup more
  <2>1. t \in TaskSet
    OBVIOUS
  <2>2. t.rows \in SUBSET Mail /\ next \in SUBSET Mail
    BY <2>1 DEF TaskSet
  <2>3. Cardinality(t.rows) \in 0 .. MaxMail /\ Cardinality(next) \in 0 .. MaxMail
    BY <2>2, MessagesFinite
  <2>4. total' \in 0 .. MaxMail /\ list' \in SUBSET Mail
    BY <1>6, <2>2, <2>3 DEF AppendPage
  <2> QED BY <1>6, <2>4 DEF AppendPage, Finished
<1>7. ASSUME NEW t \in tasks, ShowRefreshed(t) PROVE Types'
  <2>1. t \in TaskSet /\ t.folder \in Folder
    BY <1>7 DEF ShowRefreshed, Query
  <2>2. list' \subseteq Mail
    BY <1>7, <2>1 DEF ShowRefreshed, MergeRefreshed, TaskSet
  <2> QED BY <1>7, <2>1, <2>2, MailboxAssumption DEF ShowRefreshed, Finished, TaskSet
<1>8. ASSUME NEW t \in tasks, Done(t) \/ ShowRemaining(t) PROVE Types'
  <2>1. t \in TaskSet
    OBVIOUS
  <2> QED BY <1>8, <2>1 DEF Done, ShowRemaining, Finished, TaskSet
<1>9. CASE FetchChanges
  <2>1. sync' = [m \in changed |-> where[m]] /\ changed' = {}
    BY <1>9 DEF FetchChanges
  <2>2. DOMAIN sync' \subseteq Mail /\ sync' \in [DOMAIN sync' -> Place]
    BY <2>1
  <2> QED BY <1>9, <2>1, <2>2 DEF FetchChanges
<1>10. CASE HandleRealtimeSync
  <2>1. list' \subseteq Mail
    BY <1>10 DEF HandleRealtimeSync, MergeSync
  <2> QED BY <1>10, <2>1 DEF HandleRealtimeSync
<1> QED BY <1>1, <1>2, <1>3, <1>4, <1>5, <1>6, <1>7, <1>8, <1>9, <1>10 DEF ListProgram

\* What happens elsewhere keeps the types.
LEMMA ElsewhereTypes ==
  ASSUME Types, Arrive \/ \E m \in Mail, f \in Folder \cup {"gone"} : MovedElsewhere(m, f)
  PROVE  Types'
<1> USE DEF Types
<1>1. CASE Arrive
  <2>1. PICK m \in In("unborn") : where' = [where EXCEPT ![m] = "inbox"] /\ changed' = changed \cup {m}
    BY <1>1 DEF Arrive
  <2>2. m \in Mail
    BY DEF In
  <2> QED BY <1>1, <2>1, <2>2 DEF Arrive, Place, Folder
<1>2. ASSUME NEW m \in Mail, NEW f \in Folder \cup {"gone"}, MovedElsewhere(m, f) PROVE Types'
  BY <1>2 DEF MovedElsewhere, Place
<1> QED BY <1>1, <1>2

\* Every step keeps the types.
LEMMA ListTypesNext == Types /\ [ListNext]_listVars => Types'
<1> SUFFICES ASSUME Types, [ListNext]_listVars PROVE Types'
  OBVIOUS
<1>1. CASE UNCHANGED listVars
  BY <1>1 DEF listVars, Types
<1> QED BY <1>1, UserTypes, ProgramTypes, ElsewhereTypes DEF ListNext

----------------------------------------------------------------------------
(* Reading *)

\* Nothing is hidden and nothing dirty when the app is at rest, or only reads.
LEMMA AtRest ==
  ASSUME Types, PInv, undos = {}, tasks = {} \/ (\E t \in tasks : t.kind \notin MoveKind),
         Dirty = {}
  PROVE  /\ Hidden = {}
         /\ list \subseteq Here
         /\ Ordered => Top(list, Here)
<1>1. Hidden = {}
  <2>1. Moving = {}
    BY DEF PInv, Alone, Moving
  <2> QED BY <2>1 DEF Hidden
<1>2. list \subseteq Here
  BY DEF PInv, RowsTrue
<1>3. Ordered => Top(list, Here)
  BY <1>1, <1>2 DEF PInv, Upward, Top
<1> QED BY <1>1, <1>2, <1>3

\* The invariant of a state in which the app is at rest, or does one thing.
LEMMA RestInv ==
  ASSUME Types', undos' = {}, changed' = {}, sync' = NoSync,
         tasks' = {} \/ \E t : tasks' = {t} /\ t.kind \notin MoveKind,
         Captured', list' \subseteq Here',
         Ordered' => Top(list', Here')
  PROVE  PInv'
<1>1. Hidden' = {} /\ Dirty' = {} /\ Known' = {} /\ Moving' = {} /\ Coming' = {}
  BY DEF Hidden, Moving, Dirty, Known, Coming
<1>2. Alone' /\ Apart' /\ RowsTrue' /\ SyncTrue' /\ HiddenHere'
  BY <1>1 DEF Alone, Synced, Apart, RowsTrue, SyncTrue, HiddenHere
<1>3. Own'
  BY <1>1 DEF Own
<1>4. OwnChanges' /\ Upward'
  BY <1>1, <1>3 DEF OwnChanges, Upward, Top
<1> QED BY <1>2, <1>4 DEF PInv

\* The list opens on the first page of the inbox, and nothing is under way.
LEMMA InitInv == ListInit => PInv
<1> SUFFICES ASSUME ListInit PROVE PInv
  OBVIOUS
<1>1. Types
  BY ListTypesInit
<1>2. Here \in SUBSET Mail /\ list = Newest(Here, PageSize) \ Newest(Here, 0)
  BY <1>1, PagesAreMessages, MailboxAssumption DEF ListInit, Types, Here, PageOf
<1>3. list = Newest(Here, PageSize)
  BY <1>2, NewestNone
<1>4. Top(list, Here)
  BY <1>2, <1>3, NewestIsTop, MailboxAssumption
<1>5. Hidden = {} /\ Dirty = {} /\ Known = {} /\ Moving = {} /\ Coming = {}
  BY DEF ListInit, Hidden, Moving, Dirty, Known, Coming
<1>7. Alone /\ Captured /\ Apart /\ RowsTrue /\ SyncTrue /\ HiddenHere
  BY <1>4, <1>5 DEF ListInit, Alone, Captured, Apart, RowsTrue, SyncTrue, HiddenHere, Top
<1>8. Own
  BY <1>5 DEF Own, ListInit
<1>9. OwnChanges /\ Upward
  BY <1>4, <1>5, <1>8 DEF OwnChanges, Upward, Top
<1> QED BY <1>7, <1>9 DEF PInv

\* A patient user starts one thing at a time.
LEMMA BeginKeeps ==
  ASSUME Types, Types', Ordered' = Ordered, PInv, tasks = {}, undos = {}, Synced,
         NEW T, T.kind \notin MoveKind, T.pc = "sent", tasks' = {T},
         T.kind \in {"more", "refresh"} => T.rows = list /\ T.folder = shown,
         T.position = IF T.kind = "more" THEN Cardinality(list) ELSE 0,
         T.kind = "bulk" => T.rows = list \ T.msgs /\ T.folder # shown /\ T.msgs \subseteq list,
         T.kind = "empty" => T.rows = {} /\ shown = "trash" /\ T.folder = "gone",
         UNCHANGED <<shown, list, total, undos, where, changed, sync>>
  PROVE  PInv'
<1>1. Dirty = {} /\ changed = {} /\ sync = NoSync
  BY DEF Synced, Dirty, Known
<1>2. list \subseteq Here /\ (Ordered => Top(list, Here))
  BY <1>1, AtRest
<1>3. Here' = Here
  BY DEF Here, In
<1>4. Captured'
  BY <1>2, <1>3 DEF Captured, CapturedQuery, CapturedChange, MoveKind
<1> QED BY <1>1, <1>2, <1>3, <1>4, RestInv

\* A patient user's request that is no move finds the app at rest.
LEMMA BeginsKeep ==
  ASSUME Types, Types', Ordered' = Ordered, Patient, PInv,
         \/ \E f \in Folder : Open(f)
         \/ LoadMore \/ ManualRefresh \/ EmptyMailbox
         \/ \E msgs \in SUBSET list, f \in {"inbox", "trash", "gone"} :
              f # shown /\ ChangeThenShow("bulk", f, msgs)
  PROVE  PInv'
<1>0. ~ListMay("hasty") /\ ~ListMay("refreshEarly")
  BY DEF Patient, ListMay
<1>1. ASSUME NEW f \in Folder, Open(f) PROVE PInv'
  <2> DEFINE T == Request("open", f, {}, {})
  <2>1. T.kind = "open" /\ T.pc = "sent" /\ T.position = 0
    BY DEF Request
  <2>2. /\ tasks = {} /\ undos = {} /\ Synced /\ tasks' = {T}
        /\ UNCHANGED <<shown, list, total, undos, where, changed, sync>>
    BY <1>0, <1>1 DEF Open, Act, Begin
  <2> HIDE DEF T
  <2> QED BY <2>1, <2>2, BeginKeeps DEF MoveKind
<1>2. CASE LoadMore
  <2> DEFINE T == [Request("more", shown, {}, list) EXCEPT !.position = Cardinality(list)]
  <2>1. /\ T.kind = "more" /\ T.pc = "sent" /\ T.rows = list /\ T.folder = shown
        /\ T.position = Cardinality(list)
    BY DEF Request
  <2>2. /\ tasks = {} /\ undos = {} /\ Synced /\ tasks' = {T}
        /\ UNCHANGED <<shown, list, total, undos, where, changed, sync>>
    BY <1>0, <1>2 DEF LoadMore, Act, Begin
  <2> HIDE DEF T
  <2> QED BY <2>1, <2>2, BeginKeeps DEF MoveKind
<1>3. CASE ManualRefresh
  <2> DEFINE T == Request("refresh", shown, {}, list)
  <2>1. T.kind = "refresh" /\ T.pc = "sent" /\ T.rows = list /\ T.folder = shown /\ T.position = 0
    BY DEF Request
  <2>2. /\ tasks = {} /\ undos = {} /\ Synced /\ tasks' = {T}
        /\ UNCHANGED <<shown, list, total, undos, where, changed, sync>>
    BY <1>0, <1>3 DEF ManualRefresh, Begin
  <2> HIDE DEF T
  <2> QED BY <2>1, <2>2, BeginKeeps DEF MoveKind
<1>4. CASE EmptyMailbox
  <2> DEFINE T == Request("empty", "gone", {}, {})
  <2>1. T.kind = "empty" /\ T.pc = "sent" /\ T.rows = {} /\ T.folder = "gone" /\ T.position = 0
    BY DEF Request
  <2>2. /\ tasks = {} /\ undos = {} /\ Synced /\ tasks' = {T} /\ shown = "trash"
        /\ UNCHANGED <<shown, list, total, undos, where, changed, sync>>
    BY <1>0, <1>4 DEF EmptyMailbox, Act, Begin
  <2> HIDE DEF T
  <2> QED BY <2>1, <2>2, BeginKeeps DEF MoveKind
<1>5. ASSUME NEW msgs \in SUBSET list, NEW f \in {"inbox", "trash", "gone"}, f # shown,
             ChangeThenShow("bulk", f, msgs)
      PROVE  PInv'
  <2> DEFINE T == Request("bulk", f, msgs, list \ msgs)
  <2>1. T.kind = "bulk" /\ T.pc = "sent" /\ T.rows = list \ msgs /\ T.folder = f /\ T.msgs = msgs /\ T.position = 0
    BY DEF Request
  <2>2. /\ tasks = {} /\ undos = {} /\ Synced /\ tasks' = {T}
        /\ UNCHANGED <<shown, list, total, undos, where, changed, sync>>
    BY <1>0, <1>5 DEF ChangeThenShow, Act, Begin
  <2> HIDE DEF T
  <2> QED BY <1>5, <2>1, <2>2, BeginKeeps DEF MoveKind
<1> QED BY <1>1, <1>2, <1>3, <1>4, <1>5

\* A query under way has the app for itself.
LEMMA QueryAlone ==
  ASSUME Types, PInv, NEW t \in tasks, t.kind \in Query
  PROVE  /\ tasks = {t} /\ undos = {} /\ Dirty = {} /\ changed = {} /\ sync = NoSync
         /\ CapturedQuery(t)
         /\ list \subseteq Here
         /\ Ordered => Top(list, Here)
<1>1. tasks = {t} /\ undos = {} /\ Synced /\ t.kind \notin MoveKind
  BY DEF PInv, Alone, Query, MoveKind
<1>2. Dirty = {} /\ changed = {} /\ sync = NoSync
  BY <1>1 DEF Dirty, Known, Synced
<1>4. CapturedQuery(t)
  BY DEF PInv, Captured
<1>5. list \subseteq Here /\ (Ordered => Top(list, Here))
  BY <1>1, <1>2, AtRest
<1> QED BY <1>1, <1>2, <1>4, <1>5

\* An answer says what the server has now.
LEMMA ServeQueryKeeps ==
  ASSUME Types, Types', Ordered' = Ordered, PInv, NEW t \in tasks, ServeQuery(t)
  PROVE  PInv'
<1>1. t.kind \in Query /\ t.pc = "sent" /\ t \in TaskSet
  BY DEF ServeQuery, Query, Types
<1>2. /\ tasks = {t} /\ undos = {} /\ changed = {} /\ sync = NoSync /\ CapturedQuery(t)
      /\ list \subseteq Here
      /\ Ordered => Top(list, Here)
  BY <1>1, QueryAlone
<1>3. PICK T : T = [t EXCEPT !.pc = "served", !.page = PageOf(t.folder, t.position)]
  OBVIOUS
<1>4. /\ tasks' = {T}
      /\ UNCHANGED <<shown, list, total, undos, where, changed, sync>>
  BY <1>2, <1>3 DEF ServeQuery
<1>5. /\ T.kind = t.kind /\ T.folder = t.folder /\ T.rows = t.rows /\ T.position = t.position
      /\ T.pc = "served" /\ T.page = PageOf(t.folder, t.position)
  BY <1>1, <1>3 DEF TaskSet
<1>6. Here' = Here
  BY <1>4 DEF Here, In
<1>7. \A f, q : PageOf(f, q)' = PageOf(f, q)
  BY <1>4 DEF In, PageOf
<1>8. CapturedQuery(T)'
  BY <1>1, <1>2, <1>4, <1>5, <1>7 DEF CapturedQuery
<1>9. Captured'
  BY <1>1, <1>4, <1>5, <1>8 DEF Captured, CapturedChange, Query, MoveKind
<1> QED BY <1>1, <1>2, <1>4, <1>5, <1>6, <1>9, RestInv DEF Query, MoveKind

\* A first page has no hole before it.
LEMMA FirstPage ==
  ASSUME NEW f \in Folder, where \in [Mail -> Place]
  PROVE  /\ PageOf(f, 0) = Newest(In(f), PageSize)
         /\ Top(PageOf(f, 0), In(f))
<1>1. In(f) \in SUBSET Mail /\ PageSize \in Nat
  BY MailboxAssumption DEF In
<1>2. PageOf(f, 0) = Newest(In(f), PageSize)
  BY <1>1, NewestNone DEF PageOf
<1> QED BY <1>1, <1>2, NewestIsTop

\* A folder shows its first page.
LEMMA ShowFolderKeeps ==
  ASSUME Types, Types', Ordered' = Ordered, PInv, NEW t \in tasks, ShowFolder(t)
  PROVE  PInv'
<1>1. t.kind \in Query /\ t.kind = "open" /\ t.pc = "served" /\ t.folder \in Folder
  BY DEF ShowFolder, Query, Types
<1>2. tasks = {t} /\ undos = {} /\ changed = {} /\ sync = NoSync /\ CapturedQuery(t)
  BY <1>1, QueryAlone
<1>3. list' = PageOf(t.folder, 0) /\ shown' = t.folder
  BY <1>1, <1>2 DEF ShowFolder, CapturedQuery
<1>4. tasks' = {} /\ UNCHANGED <<undos, where, changed, sync>>
  BY <1>2 DEF ShowFolder, Finished
<1>5. Here' = In(t.folder)
  BY <1>3, <1>4 DEF Here, In
<1>6. Top(list', Here')
  BY <1>1, <1>3, <1>5, FirstPage DEF Types
<1>8. Captured'
  BY <1>4 DEF Captured
<1> QED BY <1>2, <1>4, <1>6, <1>8, RestInv DEF Top

\* A further page continues the list where it ends.
LEMMA AppendPageKeeps ==
  ASSUME Types, Types', Ordered' = Ordered, PInv, NEW t \in tasks, AppendPage(t)
  PROVE  PInv'
<1>1. t.kind \in Query /\ t.kind = "more" /\ t.pc = "served"
  BY DEF AppendPage, Query
<1>2. /\ tasks = {t} /\ undos = {} /\ changed = {} /\ sync = NoSync /\ CapturedQuery(t)
      /\ list \subseteq Here
      /\ Ordered => Top(list, Here)
  BY <1>1, QueryAlone
<1>3. /\ t.rows = list /\ t.folder = shown
      /\ t.page = PageOf(shown, Cardinality(list))
  BY <1>1, <1>2 DEF CapturedQuery
<1>4. tasks' = {} /\ UNCHANGED <<shown, undos, where, changed, sync>>
  BY <1>2 DEF AppendPage, Finished
<1>5. Here' = Here /\ Here \in SUBSET Mail
  BY <1>4 DEF Here, In
<1> DEFINE n == Cardinality(list)
           more == t.page \ list
<1>6. n \in Nat /\ PageSize \in Nat /\ n <= n + PageSize
  BY MessagesFinite, MailboxAssumption DEF Types
<1>7. t.page = Newest(Here, n + PageSize) \ Newest(Here, n) /\ t.page \subseteq Here
  BY <1>3 DEF PageOf, Here, Newest
<1>8. list' = IF more = {} THEN list ELSE list \cup more
  BY <1>3 DEF AppendPage
<1>9. list' \subseteq Here
  BY <1>2, <1>7, <1>8
<1>10. ASSUME Ordered PROVE Top(list', Here')
  <2>1. Newest(Here, n) = list
    BY <1>2, <1>5, <1>10, TopIsNewest
  <2>2. list \subseteq Newest(Here, n + PageSize)
    BY <2>1, <1>5, <1>6, NewestGrows
  <2>3. CASE more = {}
    BY <2>3, <1>2, <1>5, <1>8, <1>10
  <2>4. CASE more # {}
    <3>1. list' = Newest(Here, n + PageSize)
      BY <2>1, <2>2, <2>4, <1>7, <1>8
    <3> QED BY <3>1, <1>5, <1>6, NewestIsTop
  <2> QED BY <2>3, <2>4
<1>11. Captured'
  BY <1>4 DEF Captured
<1> QED BY <1>2, <1>4, <1>5, <1>9, <1>10, <1>11, RestInv

\* A refreshed first page and what is kept of the list leave no gap.
LEMMA ShowRefreshedKeeps ==
  ASSUME Types, Types', Ordered' = Ordered, PInv, NEW t \in tasks, ShowRefreshed(t)
  PROVE  PInv'
<1>1. t.kind \in Query /\ t.kind = "refresh" /\ t.pc = "served" /\ t \in TaskSet
  BY DEF ShowRefreshed, Query, Types
<1>2. /\ tasks = {t} /\ undos = {} /\ changed = {} /\ sync = NoSync /\ CapturedQuery(t)
      /\ list \subseteq Here
      /\ Ordered => Top(list, Here)
  BY <1>1, QueryAlone
<1>3. t.rows = list /\ t.folder = shown /\ t.page = PageOf(shown, 0)
  BY <1>1, <1>2 DEF CapturedQuery
<1>4. /\ tasks' = {} /\ shown' = shown
      /\ list' = MergeRefreshed(list, PageOf(shown, 0))
      /\ UNCHANGED <<undos, where, changed, sync>>
  BY <1>2, <1>3 DEF ShowRefreshed, Finished
<1>5. Here' = Here /\ Here \in SUBSET Mail
  BY <1>4 DEF Here, In
<1>6. PageOf(shown, 0) = Newest(Here, PageSize) /\ Top(Newest(Here, PageSize), Here)
  BY FirstPage DEF Types, Here
<1>7. list' \subseteq Here
  BY <1>2, <1>4, <1>6 DEF MergeRefreshed, Top
<1>8. ASSUME Ordered PROVE Top(list', Here')
  <2>1. PageSize \in Nat
    BY MailboxAssumption
  <2>2. list' = Newest(Here, PageSize) \cup list
    BY <2>1, <1>2, <1>4, <1>5, <1>6, <1>8, MergeKeepsRows
  <2> QED BY <2>2, <1>2, <1>5, <1>6, <1>8, TopsJoin
<1>9. Captured'
  BY <1>4 DEF Captured
<1> QED BY <1>2, <1>4, <1>5, <1>7, <1>8, <1>9, RestInv

\* A query that fails changes nothing.
LEMMA QueryRefused ==
  ASSUME Types, Types', Ordered' = Ordered, PInv, NEW t \in tasks, t.kind \in Query, Refused(t)
  PROVE  PInv'
<1>1. /\ tasks = {t} /\ undos = {} /\ changed = {} /\ sync = NoSync
      /\ list \subseteq Here
      /\ Ordered => Top(list, Here)
  BY QueryAlone
<1>2. tasks' = {} /\ UNCHANGED <<shown, list, total, undos, where, changed, sync>>
  BY <1>1 DEF Refused, Finished, Query
<1>3. Here' = Here /\ Captured'
  BY <1>2 DEF Here, In, Captured
<1> QED BY <1>1, <1>2, <1>3, RestInv

----------------------------------------------------------------------------
(* Moving and deleting *)

\* A row that goes at once is hidden until its move is served or undone.
LEMMA MoveLaterKeeps ==
  ASSUME Types, Types', Ordered' = Ordered, Patient, PInv, NEW m \in Mail, NEW f, NEW kind, MoveLater(m, f, kind)
  PROVE  PInv'
<1>1. /\ tasks = {} /\ Synced /\ m \in list /\ f # shown /\ list' = list \ {m}
      /\ undos' = undos \cup {[kind |-> kind, msg |-> m, to |-> f]}
      /\ UNCHANGED <<shown, total, tasks, where, changed, sync>>
  BY DEF MoveLater, Patient, ListMay
<1>2. Dirty = {} /\ Dirty' = {} /\ Known' = {} /\ sync' = NoSync /\ Moving = {} /\ Moving' = {} /\ Here' = Here
      /\ Coming' = Coming
  BY <1>1 DEF Dirty, Known, Synced, Moving, Here, In, Coming
<1>3. Hidden' = Hidden \cup {m}
  <2>1. Hidden = {u.msg : u \in undos} /\ Hidden' = {u.msg : u \in undos'}
    BY <1>2 DEF Hidden
  <2>2. PICK v : v = [kind |-> kind, msg |-> m, to |-> f]
    OBVIOUS
  <2>3. undos' = undos \cup {v} /\ v.msg = m
    BY <1>1, <2>2
  <2> QED BY <2>1, <2>3
<1>4. m \notin Hidden /\ m \in Here
  BY <1>1, <1>2 DEF PInv, HiddenHere, RowsTrue
<1>5. Alone' /\ Captured' /\ RowsTrue' /\ SyncTrue'
  BY <1>1, <1>2 DEF PInv, Alone, Captured, RowsTrue, SyncTrue
<1>6. Apart'
  <2>1. \A u \in undos : u.msg # m
    BY <1>4 DEF Hidden
  <2>2. \A u \in undos : u.to # shown
    BY DEF PInv, Apart
  <2>3. \A u, v \in undos : u.msg = v.msg => u = v
    BY DEF PInv, Apart
  <2> QED BY <1>1, <1>2, <2>1, <2>2, <2>3 DEF Apart
<1>7. HiddenHere'
  BY <1>1, <1>2, <1>3, <1>4 DEF PInv, HiddenHere
<1>8. Own'
  BY <1>2 DEF Own
<1>9. list' \cup Hidden' = list \cup Hidden
  BY <1>1, <1>3
<1>10. OwnChanges' /\ Upward'
  BY <1>1, <1>2, <1>8, <1>9 DEF PInv, OwnChanges, Upward
<1> QED BY <1>5, <1>6, <1>7, <1>10 DEF PInv

\* An undone move puts back a row that is still in the folder.
LEMMA UndoKeeps ==
  ASSUME Types, Types', Ordered' = Ordered, Patient, PInv, NEW u \in undos, Undo(u)
  PROVE  PInv'
<1>1. /\ tasks = {} /\ undos' = undos \ {u} /\ list' = list \cup {u.msg}
      /\ UNCHANGED <<shown, total, tasks, where, changed, sync>>
  BY DEF Undo, Patient, ListMay
<1>2. /\ Dirty' = Dirty /\ Known' = Known /\ Moving = {} /\ Moving' = {} /\ Here' = Here
      /\ Coming' = Coming
  BY <1>1 DEF Dirty, Known, Moving, Here, In, Coming
<1>3. u.msg \in Hidden /\ u.msg \in Here /\ u.msg \notin Dirty
  BY DEF Hidden, PInv, HiddenHere
<1>4. Hidden' = Hidden \ {u.msg}
  BY <1>1, <1>2 DEF Hidden, PInv, Apart
<1>5. Alone' /\ Captured' /\ Apart' /\ RowsTrue' /\ SyncTrue'
  BY <1>1, <1>2, <1>3 DEF PInv, Alone, Captured, Apart, RowsTrue, SyncTrue
<1>6. HiddenHere'
  BY <1>1, <1>2, <1>4 DEF PInv, HiddenHere
<1>7. Own'
  BY <1>1, <1>2, <1>3 DEF PInv, OwnChanges, Own
<1>8. list' \cup Hidden' = list \cup Hidden
  BY <1>1, <1>3, <1>4
<1>9. OwnChanges' /\ Upward'
  BY <1>1, <1>2, <1>7, <1>8 DEF PInv, OwnChanges, Upward
<1> QED BY <1>5, <1>6, <1>9 DEF PInv

\* As long as something can be undone, only moves are under way.
LEMMA MovesOnly ==
  ASSUME PInv, undos # {} \/ \E t \in tasks : t.kind \in MoveKind
  PROVE  \A t \in tasks : t.kind \in MoveKind /\ t.kind \notin Query /\ t.kind \notin {"bulk", "empty"}
<1>1. \A t \in tasks : t.kind \in MoveKind
  BY DEF PInv, Alone
<1> QED BY <1>1 DEF MoveKind, Query

\* A move that is sent takes away a hidden row.
LEMMA ToastGoneKeeps ==
  ASSUME Types, Types', Ordered' = Ordered, PInv, NEW u \in undos, ToastGone(u)
  PROVE  PInv'
<1>1. PICK T : T = Request(u.kind, u.to, {u.msg}, {})
  OBVIOUS
<1>2. /\ tasks' = tasks \cup {T} /\ undos' = undos \ {u}
      /\ UNCHANGED <<shown, list, total, where, changed, sync>>
  BY <1>1 DEF ToastGone, Begin
<1>3. /\ T.kind = u.kind /\ T.kind \in MoveKind /\ T.folder = u.to /\ T.msgs = {u.msg} /\ T.pc = "sent"
  BY <1>1 DEF Request, Types, UndoSet
<1>4. /\ Dirty' = Dirty /\ Known' = Known /\ Here' = Here /\ Moving' = Moving \cup {T}
      /\ Coming' = Coming
  BY <1>2, <1>3 DEF Dirty, Known, Here, In, Moving, Coming
<1>5. Hidden' = Hidden
  BY <1>2, <1>3, <1>4 DEF Hidden, PInv, Apart
<1>6. u.msg \in Hidden /\ u.msg \notin list
  BY DEF Hidden, PInv, HiddenHere
<1>7. \A t \in tasks' : t.kind \in MoveKind /\ t.kind \notin Query /\ t.kind \notin {"bulk", "empty"}
  BY <1>2, <1>3, MovesOnly DEF MoveKind, Query
<1>8. Alone' /\ RowsTrue' /\ SyncTrue' /\ HiddenHere'
  BY <1>2, <1>4, <1>5, <1>7 DEF PInv, Alone, RowsTrue, SyncTrue, HiddenHere
<1>9. Captured'
  <2> SUFFICES ASSUME NEW t \in tasks' PROVE CapturedChange(t)'
    BY <1>7 DEF Captured
  <2>1. CASE t \in tasks
    <3>1. CapturedChange(t)
      BY <2>1 DEF PInv, Captured
    <3> QED BY <3>1, <1>2, <1>4, <1>7 DEF CapturedChange
  <2>2. CASE t = T
    BY <2>2, <1>2, <1>3, <1>6, <1>7 DEF CapturedChange, PInv, Apart
  <2> QED BY <1>2, <2>1, <2>2
<1>10. Apart'
  <2>1. \A v \in undos' : v \in undos /\ v # u /\ v.msg # u.msg /\ v.to # shown
    BY <1>2 DEF PInv, Apart
  <2>2. \A t \in Moving : u.msg \notin t.msgs
    BY DEF PInv, Apart
  <2> QED BY <1>2, <1>3, <1>4, <2>1, <2>2 DEF PInv, Apart
<1>11. Own'
  BY <1>2, <1>4, <1>7, MovesOnly DEF PInv, OwnChanges, Own
<1>12. OwnChanges' /\ Upward'
  BY <1>2, <1>4, <1>5, <1>11 DEF PInv, OwnChanges, Upward
<1> QED BY <1>8, <1>9, <1>10, <1>12 DEF PInv

\* The folder loses messages that were hidden or whose rows are about to go.
LEMMA ServedKeeps ==
  ASSUME Types, Ordered' = Ordered, PInv, NEW M \in SUBSET Here, Here' = Here \ M,
         Hidden' = Hidden \ M, changed' = changed \cup M, Own', UNCHANGED <<list, shown, sync>>
  PROVE  OwnChanges' /\ Upward' /\ HiddenHere' /\ RowsTrue'
<1>1. OwnChanges'
  BY DEF OwnChanges
<1>2. Known' = Known /\ Dirty' = Dirty \cup M
  BY DEF Known, Dirty
<1>3. Coming' \subseteq Coming
  BY <1>2 DEF Coming
<1>4. Upward'
  BY <1>2, <1>3 DEF PInv, Upward
<1>5. HiddenHere' /\ RowsTrue'
  BY <1>2 DEF PInv, HiddenHere, RowsTrue
<1> QED BY <1>1, <1>4, <1>5

\* The server moves a message that is no longer in the list.
LEMMA MoveServed ==
  ASSUME Types, Types', Ordered' = Ordered, PInv, NEW t \in tasks, t.kind \in MoveKind, ServeChange(t)
  PROVE  PInv'
<1>1. PICK T : T = [t EXCEPT !.pc = "served"]
  OBVIOUS
<1>2. t \in TaskSet /\ t.pc = "sent" /\ t \in Moving /\ t.kind # "empty" /\ shown \in Folder
  BY DEF Types, ServeChange, Moving, MoveKind
<1>3. T.kind = t.kind /\ T.msgs = t.msgs /\ T.folder = t.folder /\ T.pc = "served"
  BY <1>1, <1>2 DEF TaskSet
<1>4. \A m \in t.msgs : m \in Hidden /\ m \in Here /\ m \notin list /\ m \notin Dirty /\ where[m] = shown
  BY <1>2 DEF Hidden, PInv, HiddenHere, Here, In
<1>5. {m \in t.msgs : where[m] \in Folder} = t.msgs
  BY <1>2, <1>4
<1>6. /\ where' = [m \in Mail |-> IF m \in t.msgs THEN t.folder ELSE where[m]]
      /\ changed' = changed \cup t.msgs
      /\ tasks' = (tasks \ {t}) \cup {T}
      /\ UNCHANGED <<shown, list, total, undos, sync>>
  BY <1>1, <1>2, <1>5 DEF ServeChange
<1>7. t.folder # shown
  BY DEF PInv, Captured, CapturedChange
<1>8. Here' = Here \ t.msgs /\ t.msgs \in SUBSET Here
  BY <1>4, <1>6, <1>7 DEF Here, In
<1>9. Dirty' = Dirty \cup t.msgs /\ Known' = Known
  BY <1>6 DEF Dirty, Known
<1>10. Moving' = Moving \ {t}
  BY <1>2, <1>3, <1>6 DEF Moving
<1>11. Hidden' = Hidden \ t.msgs
  BY <1>2, <1>6, <1>10 DEF Hidden, PInv, Apart
<1>12. \A s \in tasks' : s.kind \in MoveKind /\ s.kind \notin Query /\ s.kind \notin {"bulk", "empty"}
  BY <1>3, <1>6, MovesOnly
<1>13. Own'
  <2>1. Own /\ list \cap Dirty = {}
    BY MovesOnly DEF PInv, OwnChanges, Own
  <2> QED BY <2>1, <1>4, <1>6, <1>8, <1>9 DEF Own
<1>14. OwnChanges' /\ Upward' /\ HiddenHere' /\ RowsTrue'
  BY <1>6, <1>8, <1>11, <1>13, ServedKeeps
<1>15. Alone'
  BY <1>12 DEF Alone
<1>16. Captured'
  <2> SUFFICES ASSUME NEW s \in tasks' PROVE CapturedChange(s)'
    BY <1>12 DEF Captured
  <2>1. CASE s \in tasks
    <3>1. CapturedChange(s)
      BY <2>1 DEF PInv, Captured
    <3> QED BY <3>1, <1>6, <1>8, <1>12 DEF CapturedChange
  <2>2. CASE s = T
    BY <2>2, <1>3, <1>4, <1>6, <1>7, <1>8, <1>12 DEF CapturedChange
  <2> QED BY <1>6, <2>1, <2>2
<1>17. Apart'
  BY <1>6, <1>10 DEF PInv, Apart
<1>18. SyncTrue'
  BY <1>6 DEF PInv, SyncTrue, Types
<1> QED BY <1>14, <1>15, <1>16, <1>17, <1>18 DEF PInv

\* The server changes the messages whose rows are about to go.
LEMMA ChangeServed ==
  ASSUME Types, Types', Ordered' = Ordered, PInv, NEW t \in tasks, t.kind \in {"bulk", "empty"}, ServeChange(t)
  PROVE  PInv'
<1> DEFINE M == IF t.kind = "empty" THEN Here ELSE t.msgs
<1>1. PICK T : T = [t EXCEPT !.pc = "served"]
  OBVIOUS
<1>2. t \in TaskSet /\ t.pc = "sent" /\ t.kind \notin MoveKind /\ t.kind \notin Query /\ shown \in Folder
  BY DEF Types, ServeChange, MoveKind, Query
<1>3. T.kind = t.kind /\ T.msgs = t.msgs /\ T.folder = t.folder /\ T.rows = t.rows /\ T.pc = "served"
  BY <1>1, <1>2 DEF TaskSet
<1>4. tasks = {t} /\ undos = {} /\ Synced /\ Dirty = {} /\ Known = {} /\ changed = {} /\ sync = NoSync
  BY <1>2 DEF PInv, Alone, Synced, Dirty, Known
<1>5. CapturedChange(t)
  BY DEF PInv, Captured
<1>6. M \in SUBSET Here /\ t.folder # shown
  BY <1>2, <1>5 DEF CapturedChange, Folder
<1>7. (IF t.kind = "empty" THEN In("trash") ELSE {m \in t.msgs : where[m] \in Folder}) = M
  <2>1. CASE t.kind = "empty"
    BY <2>1, <1>5 DEF CapturedChange, Here
  <2>2. CASE t.kind # "empty"
    BY <2>2, <1>2, <1>6 DEF Here, In
  <2> QED BY <2>1, <2>2
<1>8. /\ where' = [m \in Mail |-> IF m \in M THEN t.folder ELSE where[m]]
      /\ changed' = changed \cup M
      /\ tasks' = {T}
      /\ UNCHANGED <<shown, list, total, undos, sync>>
  BY <1>1, <1>4, <1>7 DEF ServeChange
<1>9. Here' = Here \ M
  BY <1>6, <1>8 DEF Here, In
<1>10. Dirty' = M /\ Known' = {} /\ sync' = NoSync
  BY <1>4, <1>8 DEF Dirty, Known
<1>11. Hidden = {} /\ Hidden' = {} /\ Moving' = {}
  BY <1>2, <1>3, <1>4, <1>8 DEF Hidden, Moving
<1>12. Own'
  BY <1>3, <1>8, <1>9, <1>10 DEF Own
<1>13. OwnChanges' /\ Upward' /\ HiddenHere' /\ RowsTrue'
  BY <1>4, <1>6, <1>8, <1>9, <1>10, <1>11, <1>12, ServedKeeps
<1>14. Alone' /\ Apart' /\ SyncTrue'
  BY <1>2, <1>3, <1>4, <1>8, <1>10, <1>11 DEF Alone, Apart, SyncTrue
<1>15. CapturedChange(T)'
  <2>1. CASE t.kind = "empty"
    BY <2>1, <1>3, <1>5, <1>8, <1>9 DEF CapturedChange, MoveKind
  <2>2. CASE t.kind = "bulk"
    BY <2>2, <1>3, <1>5, <1>8, <1>9, <1>10 DEF CapturedChange, MoveKind
  <2> QED BY <2>1, <2>2
<1>16. Captured'
  BY <1>2, <1>3, <1>8, <1>15 DEF Captured
<1> QED BY <1>13, <1>14, <1>16 DEF PInv

\* The answer to a move changes nothing.
LEMMA DoneKeeps ==
  ASSUME Types, Types', Ordered' = Ordered, PInv, NEW t \in tasks, Done(t)
  PROVE  PInv'
<1>1. /\ t.kind \in MoveKind /\ t.pc = "served" /\ tasks' = tasks \ {t}
      /\ UNCHANGED <<shown, list, total, undos, where, changed, sync>>
  BY DEF Done, Finished, MoveKind
<1>2. /\ Dirty' = Dirty /\ Known' = Known /\ Here' = Here /\ Moving' = Moving
      /\ Coming' = Coming
  BY <1>1 DEF Dirty, Known, Here, In, Moving, Coming
<1>3. Hidden' = Hidden
  BY <1>1, <1>2 DEF Hidden
<1>4. \A s \in tasks : s.kind \in MoveKind /\ s.kind \notin Query /\ s.kind \notin {"bulk", "empty"}
  BY <1>1, MovesOnly
<1>5. Alone' /\ Apart' /\ RowsTrue' /\ SyncTrue' /\ HiddenHere'
  BY <1>1, <1>2, <1>3, <1>4 DEF PInv, Alone, Apart, RowsTrue, SyncTrue, HiddenHere
<1>6. Captured'
  BY <1>1, <1>2, <1>4 DEF PInv, Captured, CapturedChange
<1>7. Own => Own'
  BY <1>1, <1>2, <1>4 DEF Own
<1>8. OwnChanges' /\ Upward'
  BY <1>1, <1>2, <1>3, <1>7 DEF PInv, OwnChanges, Upward
<1> QED BY <1>5, <1>6, <1>8 DEF PInv

\* The rows that were changed go.
LEMMA ShowRemainingKeeps ==
  ASSUME Types, Types', Ordered' = Ordered, PInv, NEW t \in tasks, ShowRemaining(t)
  PROVE  PInv'
<1>1. t.kind \in {"bulk", "empty"} /\ t.kind \notin MoveKind /\ t.pc = "served"
  BY DEF ShowRemaining, MoveKind
<1>2. tasks = {t} /\ undos = {} /\ CapturedChange(t)
  BY <1>1 DEF PInv, Alone, Captured
<1>3. tasks' = {} /\ list' = t.rows /\ UNCHANGED <<shown, total, undos, where, changed, sync>>
  BY <1>2 DEF ShowRemaining, Finished
<1>4. /\ Dirty' = Dirty /\ Known' = Known /\ Here' = Here /\ Moving = {} /\ Moving' = {}
      /\ Hidden = {} /\ Hidden' = {} /\ Coming' = Coming
  BY <1>1, <1>2, <1>3 DEF Dirty, Known, Here, In, Moving, Hidden, Coming
<1>5. list' \subseteq list /\ list' \cap Dirty = {} /\ list \cap Here \subseteq list'
  BY <1>1, <1>2, <1>3 DEF CapturedChange
<1>6. Alone' /\ Captured' /\ Apart' /\ RowsTrue' /\ SyncTrue' /\ HiddenHere' /\ OwnChanges'
  BY <1>2, <1>3, <1>4, <1>5
  DEF PInv, Alone, Captured, Apart, RowsTrue, SyncTrue, HiddenHere, OwnChanges
<1>7. Upward'
  BY <1>3, <1>4, <1>5 DEF PInv, Upward
<1> QED BY <1>6, <1>7 DEF PInv

\* A refused move puts its row back.
LEMMA RefusedKeeps ==
  ASSUME Types, Types', Ordered' = Ordered, Patient, PInv, NEW t \in tasks, Refused(t)
  PROVE  PInv'
<1>1. t.kind # "delete"
  <2> SUFFICES ASSUME t.kind = "delete" PROVE FALSE
    OBVIOUS
  <2>1. ListMay("refuseDelete")
    BY DEF Refused
  <2> QED BY <2>1 DEF Patient, ListMay
<1>2. CASE t.kind \in Query
  BY <1>2, QueryRefused
<1>3. CASE t.kind \in {"bulk", "empty"}
  <2>1. t.kind \notin MoveKind /\ t.pc = "sent"
    BY <1>3 DEF Refused, MoveKind
  <2>2. tasks = {t} /\ undos = {} /\ Synced /\ Dirty = {} /\ changed = {} /\ sync = NoSync
    BY <2>1 DEF PInv, Alone, Synced, Dirty, Known
  <2>3. tasks' = {} /\ UNCHANGED <<shown, list, total, undos, where, changed, sync>>
    BY <1>3, <2>2 DEF Refused, Finished
  <2>4. list \subseteq Here /\ (Ordered => Top(list, Here))
    BY <2>1, <2>2, AtRest
  <2>5. Here' = Here /\ Captured'
    BY <2>3 DEF Here, In, Captured
  <2> QED BY <2>2, <2>3, <2>4, <2>5, RestInv
<1>4. CASE t.kind = "move"
  <2>1. /\ t.kind \in MoveKind /\ t.pc = "sent" /\ t \in Moving /\ tasks' = tasks \ {t}
        /\ list' = list \cup t.msgs
        /\ UNCHANGED <<shown, total, undos, where, changed, sync>>
    BY <1>4 DEF Refused, Finished, MoveKind, Moving
  <2>2. /\ Dirty' = Dirty /\ Known' = Known /\ Here' = Here /\ Moving' = Moving \ {t}
        /\ Coming' = Coming
    BY <2>1 DEF Dirty, Known, Here, In, Moving, Coming
  <2>3. \A m \in t.msgs : m \in Hidden /\ m \in Here /\ m \notin Dirty
    BY <2>1 DEF Hidden, PInv, HiddenHere
  <2>4. Hidden' = Hidden \ t.msgs
    BY <2>1, <2>2 DEF Hidden, PInv, Apart
  <2>5. \A s \in tasks : s.kind \in MoveKind /\ s.kind \notin Query /\ s.kind \notin {"bulk", "empty"}
    BY <2>1, MovesOnly
  <2>6. Alone' /\ Apart' /\ RowsTrue' /\ SyncTrue' /\ HiddenHere'
    BY <2>1, <2>2, <2>3, <2>4, <2>5 DEF PInv, Alone, Apart, RowsTrue, SyncTrue, HiddenHere
  <2>7. Captured'
    <3> SUFFICES ASSUME NEW s \in tasks' PROVE CapturedChange(s)'
      BY <2>1, <2>5 DEF Captured
    <3>1. s \in tasks /\ s # t /\ CapturedChange(s)
      BY <2>1 DEF PInv, Captured
    <3>2. s.msgs \cap t.msgs = {}
      <4>1. CASE s.pc = "sent"
        BY <4>1, <3>1, <2>1, <2>5 DEF Moving, PInv, Apart
      <4>2. CASE s.pc = "served"
        BY <4>2, <3>1, <2>3, <2>5 DEF CapturedChange
      <4> QED BY <3>1, <4>1, <4>2 DEF Types, TaskSet
    <3> QED BY <3>1, <3>2, <2>1, <2>2, <2>5 DEF CapturedChange
  <2>8. Own'
    <3>1. Own /\ list \cap Dirty = {}
      BY <2>5 DEF PInv, OwnChanges, Own
    <3> QED BY <3>1, <2>1, <2>2, <2>3 DEF Own
  <2>9. list' \cup Hidden' = list \cup Hidden
    BY <2>1, <2>3, <2>4
  <2>10. OwnChanges' /\ Upward'
    BY <2>1, <2>2, <2>8, <2>9 DEF PInv, OwnChanges, Upward
  <2> QED BY <2>6, <2>7, <2>10 DEF PInv
<1> QED BY <1>1, <1>2, <1>3, <1>4 DEF Types, TaskSet, MoveKind

----------------------------------------------------------------------------
(* Changes from elsewhere, and the sync that brings them *)

\* A sync takes over what has changed.
LEMMA FetchChangesKeeps ==
  ASSUME Types, Types', Ordered' = Ordered, PInv, FetchChanges
  PROVE  PInv'
<1>1. /\ sync = NoSync /\ changed # {} /\ sync' = [m \in changed |-> where[m]] /\ changed' = {}
      /\ UNCHANGED <<shown, list, total, undos, tasks, where>>
  BY DEF FetchChanges
<1>2. sync' # NoSync /\ DOMAIN sync' = changed
  <2>1. changed \in SUBSET (1 .. MaxMail)
    BY DEF Types, Mail
  <2>2. sync' \in [changed -> {"inbox", "trash", "gone", "unborn"}]
    BY <1>1 DEF Types, Place, Folder
  <2> QED BY <2>1, <2>2, <1>1, MailboxAssumption
<1>3. Known' = changed /\ Known = {} /\ Dirty' = Dirty /\ Here' = Here /\ Moving' = Moving
  BY <1>1, <1>2 DEF Known, Dirty, Here, In, Moving
<1>4. Hidden' = Hidden
  BY <1>1, <1>3 DEF Hidden
<1>5. \A t \in tasks : t.kind \notin Query /\ (t.kind \notin MoveKind => t.pc # "sent")
  BY <1>1 DEF PInv, Alone, Synced
<1>6. Alone'
  BY <1>1, <1>5 DEF PInv, Alone
<1>7. Captured' /\ Apart' /\ RowsTrue' /\ HiddenHere'
  BY <1>1, <1>3, <1>4, <1>5 DEF PInv, Captured, CapturedChange, Apart, RowsTrue, HiddenHere
<1>8. SyncTrue'
  BY <1>1, <1>2 DEF SyncTrue
<1>9. Own => Own'
  <2>1. ASSUME Own, NEW m \in DOMAIN sync' PROVE sync'[m] # shown'
    <3>1. m \in Dirty /\ m \in Mail /\ sync'[m] = where[m]
      BY <1>1, <1>2, <2>1 DEF Dirty, Types
    <3>2. m \notin Here
      BY <2>1, <3>1 DEF Own
    <3> QED BY <3>1, <3>2, <1>1 DEF Here, In
  <2> QED BY <2>1, <1>1, <1>3 DEF Own
<1>10. Coming' = Coming
  <2>1. \A m \in changed : m \in Mail /\ (m \in Here <=> where[m] = shown)
    BY DEF Types, Here, In
  <2> QED BY <2>1, <1>1, <1>3 DEF Coming
<1>11. OwnChanges' /\ Upward'
  BY <1>1, <1>3, <1>4, <1>9, <1>10 DEF PInv, OwnChanges, Upward
<1> QED BY <1>6, <1>7, <1>8, <1>11 DEF PInv

\* A sync brings the list up to date.
LEMMA HandleRealtimeSyncKeeps ==
  ASSUME Types, Types', Ordered' = Ordered, PInv, HandleRealtimeSync
  PROVE  PInv'
<1>1. /\ sync # NoSync /\ sync' = NoSync
      /\ list' = {m \in list : m \notin DOMAIN sync} \cup {m \in DOMAIN sync : sync[m] = shown}
      /\ UNCHANGED <<shown, total, undos, tasks, where, changed>>
  BY DEF HandleRealtimeSync, MergeSync
<1>2. /\ Known = DOMAIN sync /\ Known' = {} /\ Dirty = changed \cup DOMAIN sync /\ Dirty' = changed
      /\ Here' = Here /\ Moving' = Moving
  BY <1>1 DEF Known, Dirty, Here, In, Moving
<1>3. Hidden' = Hidden
  BY <1>1, <1>2 DEF Hidden
<1>4. \A m \in DOMAIN sync : m \in Mail /\ (m \notin changed => (sync[m] = shown <=> m \in Here))
  BY <1>1 DEF Types, PInv, SyncTrue, Here, In
<1>5. \A t \in tasks : t.kind \notin Query /\ (t.kind \notin MoveKind => t.pc # "sent")
  BY <1>1 DEF PInv, Alone, Synced
<1>6. Own => list' = {m \in list : m \notin DOMAIN sync}
  BY <1>1 DEF Own
<1>7. Alone' /\ Apart' /\ SyncTrue'
  BY <1>1, <1>2, <1>5 DEF PInv, Alone, Apart, SyncTrue
<1>8. RowsTrue'
  BY <1>1, <1>2, <1>4 DEF PInv, RowsTrue
<1>9. HiddenHere'
  BY <1>1, <1>2, <1>3 DEF PInv, HiddenHere
<1>10. Captured'
  <2> SUFFICES ASSUME NEW t \in tasks PROVE CapturedChange(t)'
    BY <1>1, <1>5 DEF Captured
  <2>1. CapturedChange(t)
    BY DEF PInv, Captured
  <2>2. list' = {m \in list : m \notin DOMAIN sync}
    BY <1>6 DEF PInv, OwnChanges
  <2>3. t.kind = "bulk" => t.pc = "served"
    BY <1>5 DEF Types, TaskSet, MoveKind
  <2>4. t.kind = "bulk" => list' \ t.msgs = list \ t.msgs
    BY <2>1, <2>2, <2>3, <1>2 DEF CapturedChange
  <2> QED BY <2>1, <2>2, <2>3, <2>4, <1>1, <1>2 DEF CapturedChange
<1>11. Own => Own'
  BY <1>1, <1>2, <1>6 DEF Own
<1>12. OwnChanges'
  BY <1>1, <1>11 DEF PInv, OwnChanges
<1>13. Upward'
  <2> SUFFICES ASSUME Ordered, NEW x \in Here, x \notin list' \cup Hidden \cup changed,
                      NEW k \in list' \cup Hidden \cup (changed \cap Here)
               PROVE  x < k
    BY <1>1, <1>2, <1>3 DEF Upward, Coming
  <2>1. x \notin list \cup Hidden \cup Dirty
    BY <1>1, <1>2, <1>4
  <2>2. k \in list \cup Hidden \cup Coming
    BY <1>1, <1>2 DEF Coming
  <2> QED BY <2>1, <2>2 DEF PInv, Upward
<1> QED BY <1>7, <1>8, <1>9, <1>10, <1>12, <1>13 DEF PInv

\* Mail that comes or goes while the app is at rest is told by a sync.
LEMMA ElsewhereKeeps ==
  ASSUME Types, Types', Ordered' = Ordered, Patient, PInv, Elsewhere, NEW m \in Mail, NEW f,
         Ordered /\ f = shown => \A x \in Here : x < m,
         where' = [where EXCEPT ![m] = f], changed' = changed \cup {m},
         UNCHANGED <<shown, list, total, undos, tasks, sync>>
  PROVE  PInv'
<1>1. tasks = {} /\ undos = {} /\ tasks' = {} /\ undos' = {}
  BY DEF Elsewhere, Patient, ListMay
<1>2. Dirty' = Dirty \cup {m} /\ Hidden = {} /\ Hidden' = {} /\ Moving' = {}
  BY <1>1 DEF Dirty, Known, Hidden, Moving
<1>3. \A x \in Mail : x # m => where'[x] = where[x] /\ (x \in Here' <=> x \in Here)
  BY DEF Here, In, Types
<1>4. Alone' /\ Captured' /\ Apart' /\ HiddenHere' /\ OwnChanges'
  BY <1>1, <1>2 DEF Alone, Captured, Apart, HiddenHere, OwnChanges
<1>5. RowsTrue'
  BY <1>2, <1>3 DEF PInv, RowsTrue, Types
<1>6. SyncTrue'
  BY <1>3 DEF PInv, SyncTrue, Types
<1>7. Upward'
  <2> SUFFICES ASSUME Ordered, NEW x \in Here', x \notin list \cup Dirty \cup {m},
                      NEW k \in list \cup Coming'
               PROVE  x < k
    BY <1>2 DEF Upward
  <2>1. x \in Here /\ x \notin list \cup Hidden \cup Dirty
    BY <1>2, <1>3 DEF Here, In
  <2>2. CASE k \in list \cup Coming
    BY <2>1, <2>2 DEF PInv, Upward
  <2>3. CASE k \notin list \cup Coming
    <3>1. k = m /\ m \in Here'
      BY <2>3, <1>3 DEF Coming, Known, Types
    <3>2. f = shown
      BY <3>1 DEF Here, In, Types
    <3> QED BY <3>1, <3>2, <2>1
  <2> QED BY <2>2, <2>3
<1> QED BY <1>4, <1>5, <1>6, <1>7 DEF PInv

----------------------------------------------------------------------------
(* The properties *)

ListInv == Types /\ MailLater /\ (Patient => PInv)

\* Mail keeps coming in the order it is numbered in.
LEMMA MailLaterNext == Types /\ MailLater /\ [ListNext]_listVars => MailLater'
<1> SUFFICES ASSUME Types, MailLater, [ListNext]_listVars PROVE MailLater'
  OBVIOUS
<1>1. CASE where' = where
  BY <1>1 DEF MailLater
<1>2. CASE Arrive
  <2>1. PICK m \in In("unborn") : /\ \A k \in In("unborn") : m <= k
                                 /\ where' = [where EXCEPT ![m] = "inbox"]
    BY <1>2 DEF Arrive
  <2>2. m \in Mail /\ \A x \in Mail : x \in Int /\ (where[x] = "unborn" => m <= x)
    BY <2>1 DEF In, Mail
  <2>3. ASSUME NEW x \in Mail, NEW y \in Mail, where'[x] = "unborn", where'[y] # "unborn"
        PROVE  y < x
    <3>1. where[x] = "unborn" /\ x # m
      BY <2>1, <2>2, <2>3 DEF Types
    <3>2. CASE y = m
      BY <3>1, <3>2, <2>2
    <3>3. CASE y # m
      BY <3>1, <3>3, <2>1, <2>3 DEF Types, MailLater
    <3> QED BY <3>2, <3>3
  <2> QED BY <2>3 DEF MailLater
<1>3. ASSUME NEW m \in Mail, NEW f \in Folder \cup {"gone"}, MovedElsewhere(m, f) PROVE MailLater'
  <2>1. where' = [where EXCEPT ![m] = f] /\ where[m] # "unborn" /\ f # "unborn"
    BY <1>3 DEF MovedElsewhere, Folder
  <2> QED BY <2>1 DEF Types, MailLater
<1>4. ASSUME NEW t \in tasks, ServeChange(t) PROVE MailLater'
  <2> DEFINE msgs == IF t.kind = "empty" THEN In("trash") ELSE {m \in t.msgs : where[m] \in Folder}
  <2>1. where' = [m \in Mail |-> IF m \in msgs THEN t.folder ELSE where[m]]
    BY <1>4 DEF ServeChange
  <2>2. t.folder # "unborn" /\ \A m \in msgs : where[m] # "unborn"
    BY DEF Types, TaskSet, Folder, In
  <2> HIDE DEF msgs
  <2>3. \A m \in Mail : where'[m] = "unborn" <=> where[m] = "unborn"
    BY <2>1, <2>2
  <2> QED BY <2>3 DEF MailLater
<1>5. where' = where \/ Arrive
      \/ (\E m \in Mail, f \in Folder \cup {"gone"} : MovedElsewhere(m, f))
      \/ (\E t \in tasks : ServeChange(t))
  BY DEF ListNext, ListUser, ListProgram, Open, LoadMore, ManualRefresh, MoveLater, ChangeThenShow,
         EmptyMailbox, Undo, ToastGone, ServeQuery, Refused, ShowFolder, AppendPage, ShowRefreshed, Done,
         ShowRemaining, FetchChanges, HandleRealtimeSync, listVars
<1> QED BY <1>1, <1>2, <1>3, <1>4, <1>5

\* At the start the older messages are there and the newer ones are to come.
LEMMA MailLaterInit == ListInit => MailLater
<1> SUFFICES ASSUME ListInit PROVE MailLater
  OBVIOUS
<1>1. PICK n \in InitialMail : where = [m \in Mail |-> IF m <= n THEN "inbox" ELSE "unborn"]
  BY DEF ListInit
<1>2. n \in Int /\ \A x \in Mail : x \in Int
  BY MailboxAssumption DEF Mail
<1> QED BY <1>1, <1>2 DEF MailLater

\* The invariant holds at the start.
LEMMA ListInvInit == ListInit => ListInv
  BY ListTypesInit, MailLaterInit, InitInv DEF ListInv

\* Every step keeps the invariant.
LEMMA ListInvNext == ListInv /\ [ListNext]_listVars => ListInv'
<1> SUFFICES ASSUME ListInv, [ListNext]_listVars PROVE ListInv'
  OBVIOUS
<1>1. Types /\ Types'
  BY ListTypesNext DEF ListInv
<1>2. listScenario' = listScenario
  BY DEF ListNext, ListUser, ListProgram, Open, LoadMore, ManualRefresh, MoveLater, ChangeThenShow, EmptyMailbox,
         Undo, ToastGone, ServeQuery, ServeChange, Refused, ShowFolder, AppendPage, ShowRefreshed, Done,
         ShowRemaining, FetchChanges, HandleRealtimeSync, Arrive, MovedElsewhere, listVars
<1>20. MailLater'
  BY MailLaterNext DEF ListInv
<1>21. Ordered' = Ordered
  BY <1>2 DEF Ordered, ListMay
<1> SUFFICES ASSUME Patient PROVE PInv'
  BY <1>1, <1>2, <1>20 DEF ListInv, Patient
<1>3. PInv
  BY DEF ListInv
<1>4. CASE ListUser
  <2>1. ASSUME NEW m \in Mail, MoveLater(m, "inbox", "move") \/ MoveLater(m, "trash", "delete")
        PROVE  PInv'
    BY <2>1, <1>1, <1>21, <1>3, MoveLaterKeeps
  <2>2. ASSUME NEW u \in undos, Undo(u) PROVE PInv'
    BY <2>2, <1>1, <1>21, <1>3, UndoKeeps
  <2> QED BY <1>1, <1>21, <1>3, <1>4, <2>1, <2>2, BeginsKeep DEF ListUser
<1>5. CASE ListProgram
  <2>1. ASSUME NEW u \in undos, ToastGone(u) PROVE PInv'
    BY <2>1, <1>1, <1>21, <1>3, ToastGoneKeeps
  <2>2. ASSUME NEW t \in tasks, ServeQuery(t) \/ ShowFolder(t) \/ AppendPage(t) \/ ShowRefreshed(t)
        PROVE  PInv'
    BY <2>2, <1>1, <1>21, <1>3, ServeQueryKeeps, ShowFolderKeeps, AppendPageKeeps, ShowRefreshedKeeps
  <2>3. ASSUME NEW t \in tasks, ServeChange(t) PROVE PInv'
    <3>1. t.kind \in MoveKind \/ t.kind \in {"bulk", "empty"}
      BY <2>3 DEF ServeChange, MoveKind
    <3> QED BY <2>3, <3>1, <1>1, <1>21, <1>3, MoveServed, ChangeServed
  <2>4. ASSUME NEW t \in tasks, Refused(t) \/ Done(t) \/ ShowRemaining(t) PROVE PInv'
    BY <2>4, <1>1, <1>21, <1>3, RefusedKeeps, DoneKeeps, ShowRemainingKeeps
  <2> QED BY <1>1, <1>21, <1>3, <1>5, <2>1, <2>2, <2>3, <2>4, FetchChangesKeeps, HandleRealtimeSyncKeeps
          DEF ListProgram
<1>6. CASE Arrive
  <2>1. PICK m \in In("unborn") : where' = [where EXCEPT ![m] = "inbox"] /\ changed' = changed \cup {m}
    BY <1>6 DEF Arrive
  <2>2. m \in Mail /\ Elsewhere /\ UNCHANGED <<shown, list, total, undos, tasks, sync>>
    BY <1>6 DEF Arrive, In
  <2>3. \A x \in Here : x < m
    BY <2>2, <1>1 DEF ListInv, MailLater, In, Here, Types, Folder
  <2> QED BY <2>1, <2>2, <2>3, <1>1, <1>21, <1>3, ElsewhereKeeps
<1>7. ASSUME NEW m \in Mail, NEW f \in Folder \cup {"gone"}, MovedElsewhere(m, f) PROVE PInv'
  BY <1>7, <1>1, <1>21, <1>3, ElsewhereKeeps DEF MovedElsewhere, Ordered
<1>8. CASE UNCHANGED listVars
  <2>1. /\ Here' = Here /\ Hidden' = Hidden /\ Dirty' = Dirty /\ Known' = Known /\ Moving' = Moving
        /\ Coming' = Coming /\ \A f, p : PageOf(f, p)' = PageOf(f, p)
    BY <1>8 DEF listVars, Here, In, Hidden, Moving, Dirty, Known, Coming, PageOf
  <2>2. Captured'
    BY <1>3, <1>8, <2>1 DEF listVars, PInv, Captured, CapturedQuery, CapturedChange
  <2>3. Alone' /\ Apart' /\ RowsTrue' /\ SyncTrue' /\ HiddenHere' /\ OwnChanges' /\ Upward'
    BY <1>3, <1>8, <1>21, <2>1 DEF listVars, PInv, Alone, Synced, Apart, RowsTrue, SyncTrue, HiddenHere, OwnChanges, Own,
                            Upward
  <2> QED BY <2>2, <2>3 DEF PInv
<1> QED BY <1>4, <1>5, <1>6, <1>7, <1>8 DEF ListNext

\* The invariant holds always.
LEMMA ListInvariance == ListSpec => []ListInv
  BY ListInvInit, ListInvNext, PTL DEF ListSpec

\* The list's state always has its types, however hasty the user.
THEOREM ListTypeCorrect == ListSpec => []ListTypeOK
<1>1. ListInv => ListTypeOK
  BY DEF ListInv, Types, ListTypeOK, TaskSet, UndoSet
<1> QED BY <1>1, ListInvariance, PTL

\* What the invariant says when nothing is under way.
LEMMA SettledFacts ==
  ASSUME ListInv, Patient, ListSettled
  PROVE  list \subseteq Here /\ (Ordered => Top(list, Here))
<1>1. tasks = {} /\ undos = {} /\ Dirty = {}
  BY DEF ListSettled, Synced, Dirty, Known
<1> QED BY <1>1, AtRest DEF ListInv

\* Once everything has settled, no row stands for a message of another folder.
THEOREM RowsAreHere == ListSpec => []NoGhosts
<1>1. ListInv => NoGhosts
  BY SettledFacts DEF NoGhosts, Here
<1> QED BY <1>1, ListInvariance, PTL

\* Once everything has settled, the rows are the newest of the folder, without
\* a hole among them: what loadMoreMessages asks for by the length of the list,
\* what mergeRefreshedMailboxMessages keeps and what a sync brings fit together.
THEOREM ListHasNoGap == ListSpec => []NoGap
<1>1. ListInv => NoGap
  BY SettledFacts DEF NoGap, Ordered, Top, Here
<1> QED BY <1>1, ListInvariance, PTL

\* deferMailAction: a move that is sent, or was, is of a message without a row.
THEOREM UndoneStays == ListSpec => UndoHolds
<1>1. ListInv /\ [ListNext]_listVars =>
        [Patient => \A t \in tasks :
           t.kind \in {"delete", "move"} /\ where' # where => t.msgs \cap list = {}]_listVars
  BY DEF ListInv, PInv, Captured, CapturedChange, MoveKind
<1> QED BY <1>1, ListInvariance, PTL DEF ListSpec, UndoHolds

----------------------------------------------------------------------------
(* PART 3. ComposeDraft *)

----------------------------------------------------------------------------
(* The autosaves under way: only the first can have begun *)

\* An autosave that has not begun.
Queued == [NoTask EXCEPT !.pc = "queued"]
\* The first autosave under way.
Front == IF chain = <<>> THEN NoTask ELSE chain[1]

\* Only the first has begun; the others have captured nothing.
ChainOK ==
    /\ chain \in Seq(Task)
    /\ \A i \in DOMAIN chain : i # 1 => chain[i] = Queued
    /\ chain # <<>> => Front.pc \in {"queued", "sealed", "stored"}

\* The two tasks a save starts from.
LEMMA TaskTypes ==
  /\ NoTask \in Task /\ Queued \in Task /\ Queued.pc = "queued" /\ NoTask.pc = "idle"
  /\ Queued.prev = None /\ Queued.id = None /\ NoTask.prev = None /\ NoTask.id = None
  /\ NoTask.ahead = 0 /\ NoTask.msg = 0
<1>1. Seed \in Text
  BY ComposeAssumption DEF Seed, Text
<1> QED BY <1>1 DEF NoTask, Queued, Task, MaybeDraft

\* The first autosave under way, if there is any.
LEMMA ChainEmpty ==
  ASSUME ChainOK
  PROVE  /\ Len(chain) \in Nat
         /\ chain = <<>> <=> Len(chain) = 0
         /\ chain = <<>> => Front = NoTask
         /\ chain # <<>> => Front = Head(chain) /\ Front = chain[1] /\ Front \in Task
         /\ Front \in Task
<1>1. chain # <<>> => chain[1] \in Task /\ Head(chain) = chain[1]
  BY DEF ChainOK
<1> QED BY <1>1, TaskTypes DEF ChainOK, Front

\* An autosave that fires waits at the end.
LEMMA ChainFires ==
  ASSUME ChainOK, chain' = Append(chain, Queued)
  PROVE  /\ ChainOK'
         /\ Len(chain') = Len(chain) + 1
         /\ Front' = IF chain = <<>> THEN Queued ELSE Front
<1>1. chain' \in Seq(Task) /\ Len(chain') = Len(chain) + 1 /\ chain' # <<>>
  BY TaskTypes DEF ChainOK
<1>2. \A i \in 1 .. Len(chain) : chain'[i] = chain[i]
  BY DEF ChainOK
<1>3. chain'[Len(chain) + 1] = Queued
  BY DEF ChainOK
<1>4. Front' = IF chain = <<>> THEN Queued ELSE Front
  BY <1>1, <1>2, <1>3, ChainEmpty DEF Front, ChainOK
<1>5. \A i \in DOMAIN chain' : i # 1 => chain'[i] = Queued
  BY <1>1, <1>2, <1>3 DEF ChainOK
<1>6. Front'.pc \in {"queued", "sealed", "stored"}
  BY <1>4, TaskTypes DEF ChainOK
<1> QED BY <1>1, <1>4, <1>5, <1>6 DEF ChainOK

\* An autosave that ends leaves the ones that wait.
LEMMA ChainEnds ==
  ASSUME ChainOK, chain # <<>>, chain' = Tail(chain)
  PROVE  /\ ChainOK'
         /\ Len(chain') = Len(chain) - 1
         /\ chain' = <<>> <=> Len(chain) = 1
         /\ Front' = IF Len(chain) = 1 THEN NoTask ELSE Queued
<1>1. chain' \in Seq(Task) /\ Len(chain') = Len(chain) - 1 /\ Len(chain) \in Nat \ {0}
  BY DEF ChainOK
<1>2. \A i \in 1 .. Len(chain') : chain'[i] = chain[i + 1]
  BY <1>1 DEF ChainOK
<1>3. \A i \in 1 .. Len(chain') : chain'[i] = Queued
  <2> SUFFICES ASSUME NEW i \in 1 .. Len(chain') PROVE chain'[i] = Queued
    OBVIOUS
  <2>1. i + 1 \in DOMAIN chain /\ i + 1 # 1
    BY <1>1 DEF ChainOK
  <2> QED BY <2>1, <1>2 DEF ChainOK
<1>4. chain' = <<>> <=> Len(chain) = 1
  <2>1. chain' = <<>> <=> Len(chain') = 0
    <3> HIDE DEF ChainOK
    <3> DEFINE c == chain'
    <3>1. c \in Seq(Task)
      BY <1>1
    <3> HIDE DEF c
    <3>2. c = <<>> <=> Len(c) = 0
      BY <3>1
    <3> QED BY <3>2 DEF c
  <2>2. Len(chain') = 0 <=> Len(chain) = 1
    BY <1>1
  <2> QED BY <2>1, <2>2
<1>5. Front' = IF Len(chain) = 1 THEN NoTask ELSE Queued
  <2>1. CASE Len(chain) = 1
    BY <2>1, <1>4 DEF Front
  <2>2. CASE Len(chain) # 1
    <3>1. 1 \in 1 .. Len(chain') /\ chain' # <<>>
      BY <2>2, <1>1, <1>4
    <3>2. Front' = chain'[1]
      BY <3>1 DEF Front
    <3>3. chain'[1] = Queued
      BY <3>1, <1>3
    <3> QED BY <2>2, <3>2, <3>3
  <2> QED BY <2>1, <2>2
<1> QED BY <1>1, <1>3, <1>4, <1>5, TaskTypes DEF ChainOK

\* The first autosave goes on, the others wait.
LEMMA ChainStep ==
  ASSUME ChainOK, chain # <<>>, NEW t \in Task, t.pc \in {"queued", "sealed", "stored"},
         chain' = [chain EXCEPT ![1] = t]
  PROVE  ChainOK' /\ chain' # <<>> /\ Len(chain') = Len(chain) /\ Front' = t
<1>1. Len(chain) \in Nat \ {0} /\ DOMAIN chain = 1 .. Len(chain)
  BY DEF ChainOK
<1>2. chain' \in Seq(Task) /\ Len(chain') = Len(chain) /\ chain' # <<>> /\ DOMAIN chain' = DOMAIN chain
  BY <1>1 DEF ChainOK
<1>3. chain'[1] = t /\ \A i \in DOMAIN chain : i # 1 => chain'[i] = chain[i]
  BY <1>1
<1>4. Front' = t
  BY <1>2, <1>3 DEF Front
<1> QED BY <1>2, <1>3, <1>4 DEF ChainOK

----------------------------------------------------------------------------
(* Types *)

\* A save that has captured a message.
Begun == {"sealed", "stored"}

\* The types, and which fields are set in which stage.
TypesInv ==
    /\ TypeOK
    /\ ChainOK
    /\ editor.msg = 0 => editor = NoEditor
    /\ Front.pc \in Begun => Front.msg # 0
    /\ closing.pc # "queued"
    /\ closing.pc \in Begun => closing.msg # 0
    /\ closing.pc = "stored" => closing.id # None
    /\ sending.pc \in {"idle", "settling", "stored"}
    /\ sending.pc # "idle" => sending.msg # 0
    /\ toast.kind = "saved" => toast.id # None

\* The constants and what is fixed by them.
LEMMA Constants ==
  /\ MaxMessages \in Nat /\ Wordings \in Nat /\ Wordings > 0 /\ MaxDrafts \in Nat /\ MaxEdits \in Nat
  /\ None \notin Draft /\ None \notin Int
  /\ Seed \in Text /\ Text \subseteq Nat /\ Message \subseteq Nat /\ 0 \notin Message
  /\ NoEditor \in [shown : {"no", "panel", "full"}, msg : Message \cup {0},
                   text : Text, files : BOOLEAN, mode : {"new", "draft"}]
  /\ NoEditor.shown = "no" /\ NoEditor.msg = 0 /\ NoEditor.text = Seed /\ NoEditor.files = FALSE
<1>1. MaxMessages * Wordings \in Nat
  BY ComposeAssumption
<1> QED BY <1>1, ComposeAssumption DEF Draft, Message, Text, Seed, NoEditor

\* A message's number is a number, and 0 is no message.
LEMMA MessageIsNat ==
  ASSUME NEW m \in Message \cup {0}
  PROVE  m \in Nat /\ (m \in Message <=> m # 0)
BY Constants DEF Message

\* What the user may write is a text.
LEMMA TextsAreText ==
  ASSUME NEW m \in Message, NEW t \in TextsOf(m) \cup {Seed}
  PROVE  t \in Text
<1>1. m \in Nat /\ m >= 1 /\ m <= MaxMessages /\ MaxMessages \in Nat /\ Wordings \in Nat /\ Wordings > 0
  BY Constants DEF Message
<1>2. m * Wordings <= MaxMessages * Wordings /\ Wordings <= MaxMessages * Wordings
      /\ (m - 1) * Wordings >= 0
  BY <1>1, Z3
<1>3. (m - 1) * Wordings \in Int /\ m * Wordings \in Int /\ MaxMessages * Wordings \in Nat
  BY <1>1
<1> QED BY <1>1, <1>2, <1>3 DEF TextsOf, Text, Seed

\* The first autosave is the same if all are.
LEMMA ChainKept ==
  ASSUME UNCHANGED chain
  PROVE  Front' = Front /\ Len(chain') = Len(chain) /\ (ChainOK => ChainOK')
BY DEF Front, ChainOK

\* A stored draft is a draft.
LEMMA StoreTypes ==
  ASSUME TypeOK, NEW t \in Task, t.msg # 0, StoreDraft(t)
  PROVE  /\ drafts' \in [Draft -> [msg : Message, text : Text] \cup {None}]
         /\ drafted' \in 0 .. MaxDrafts /\ drafted' = drafted + 1
         /\ drafted + 1 \in Draft /\ sent' \subseteq Message \X Text
<1>1. [msg |-> t.msg, text |-> t.text] \in [msg : Message, text : Text]
  BY DEF Task
<1>2. drafted + 1 \in Draft /\ drafted' \in 0 .. MaxDrafts /\ drafted' = drafted + 1
  BY Constants DEF TypeOK, StoreDraft, Draft
<1> QED BY <1>1, <1>2 DEF TypeOK, StoreDraft

\* A discarded draft leaves drafts.
LEMMA DiscardTypes ==
  ASSUME TypeOK, NEW d, Discard(d)
  PROVE  drafts' \in [Draft -> [msg : Message, text : Text] \cup {None}]
BY DEF TypeOK, Discard

\* The types hold at the start.
LEMMA TypesInit == Init => TypesInv
<1> SUFFICES ASSUME Init PROVE TypesInv
  OBVIOUS
<1>1. ChainOK /\ Front = NoTask
  BY DEF Init, ChainOK, Front
<1>2. chain \in Seq(Task) /\ (Front.pc \in Begun => Front.msg # 0)
  BY <1>1, TaskTypes DEF ChainOK, Begun
<1>3. TypeOK
  <2>1. timer \in BOOLEAN
    BY DEF Init
  <2>2. editor \in [shown : {"no", "panel", "full"}, msg : Message \cup {0},
                   text : Text, files : BOOLEAN, mode : {"new", "draft"}]
    BY Constants DEF Init
  <2>3. drafts \in [Draft -> [msg : Message, text : Text] \cup {None}] /\ latest \in [Message -> Text]
    BY Constants DEF Init
  <2> QED BY <1>2, <2>1, <2>2, <2>3, Constants, TaskTypes DEF Init, TypeOK, MaybeDraft, NoToast
<1> QED BY <1>1, <1>2, <1>3, TaskTypes DEF Init, TypesInv, NoToast, Begun

\* An autosave keeps the types.
LEMMA TypesAutosave ==
  ASSUME TypesInv,
         AutosaveFires \/ AutosaveStarts \/ AutosaveStored \/ AutosaveSucceeds \/ AutosaveFails
  PROVE  TypesInv'
<1> USE DEF TypesInv, Begun
<1>1. ASSUME AutosaveFires PROVE TypesInv'
  <2>1. ChainOK' /\ Front' = IF chain = <<>> THEN Queued ELSE Front
    BY <1>1, ChainFires DEF AutosaveFires, Queued
  <2>2. chain' \in Seq(Task) /\ (Front'.pc \in Begun => Front'.msg # 0)
    BY <2>1, TaskTypes DEF ChainOK
  <2>3. timer' \in BOOLEAN
    BY <1>1 DEF AutosaveFires
  <2> QED BY <1>1, <2>1, <2>2, <2>3 DEF AutosaveFires, TypeOK, userVars, serverVars
<1>2. ASSUME NEW a \in Task, a.pc \notin {"queued"},
             a.pc = "stored" => a.id # None
      PROVE  LET b == Advance(a) IN
             b \in Task /\ b.pc = a.pc /\ b.msg = a.msg /\ b.id = a.id
  BY <1>2 DEF Advance, Task
<1>3. ASSUME chain # <<>>, AutosaveEnds
      PROVE  /\ ChainOK' /\ Front'.pc \in {"idle", "queued"}
             /\ closing' \in Task /\ sending' \in Task
             /\ closing'.pc = closing.pc /\ closing'.msg = closing.msg /\ closing'.id = closing.id
             /\ sending'.pc = sending.pc /\ sending'.msg = sending.msg
  <2>1. ChainOK' /\ Front' = IF Len(chain) = 1 THEN NoTask ELSE Queued
    BY <1>3, ChainEnds DEF AutosaveEnds
  <2>2. closing \in Task /\ sending \in Task
    BY DEF TypeOK
  <2>3. Front'.pc \in {"idle", "queued"}
    BY <2>1, TaskTypes
  <2> QED BY <1>3, <2>1, <2>2, <2>3 DEF AutosaveEnds, Advance, Task
<1>4. ASSUME AutosaveStarts PROVE TypesInv'
  <2>1. CASE AutosaveEnds
    <3>1. chain # <<>>
      BY <1>4 DEF AutosaveStarts
    <3> QED BY <1>4, <2>1, <3>1, <1>3 DEF AutosaveStarts, TypeOK, ChainOK, editorVars, userVars, serverVars
  <2>2. CASE ~NothingToSave /\ chain' = [chain EXCEPT ![1] = Capture(@)] /\ UNCHANGED <<closing, sending>>
    <3> DEFINE t == Capture(Front)
    <3>1. chain # <<>> /\ Front = chain[1] /\ Front \in Task
      BY <1>4, ChainEmpty DEF AutosaveStarts
    <3>2. editor.msg # 0
      BY <2>2, Constants DEF NothingToSave, HasUserContent
    <3>3. t \in Task /\ t.pc = "sealed" /\ t.msg # 0
      BY <3>1, <3>2 DEF Capture, Task, TypeOK
    <3>4. chain' = [chain EXCEPT ![1] = t]
      BY <2>2, <3>1 DEF ChainOK
    <3> HIDE DEF t
    <3>5. ChainOK' /\ Front' = t
      BY <3>1, <3>3, <3>4, ChainStep
    <3> QED BY <1>4, <2>2, <3>3, <3>5 DEF AutosaveStarts, TypeOK, ChainOK, editorVars, userVars, serverVars
  <2> QED BY <1>4, <2>1, <2>2 DEF AutosaveStarts
<1>5. ASSUME AutosaveStored PROVE TypesInv'
  <2> DEFINE t == [Front EXCEPT !.pc = "stored", !.id = drafted + 1]
  <2>1. chain # <<>> /\ Front = chain[1] /\ Front = Head(chain) /\ Front \in Task /\ Front.msg # 0
    BY <1>5, ChainEmpty DEF AutosaveStored
  <2>2. /\ drafts' \in [Draft -> [msg : Message, text : Text] \cup {None}]
        /\ drafted' \in 0 .. MaxDrafts
        /\ drafted + 1 \in Draft /\ sent' \subseteq Message \X Text
    BY <1>5, <2>1, StoreTypes DEF AutosaveStored
  <2>3. t \in Task /\ t.pc = "stored" /\ t.msg # 0
    BY <2>1, <2>2 DEF Task, MaybeDraft
  <2>4. chain' = [chain EXCEPT ![1] = t]
    BY <1>5, <2>1 DEF ChainOK, AutosaveStored
  <2> HIDE DEF t
  <2>5. ChainOK' /\ Front' = t
    BY <2>1, <2>3, <2>4, ChainStep
  <2> QED BY <1>5, <2>2, <2>3, <2>5 DEF AutosaveStored, TypeOK, ChainOK, editorVars, userVars
<1>6. ASSUME AutosaveSucceeds PROVE TypesInv'
  <2>1. chain # <<>> /\ Front = Head(chain) /\ Front \in Task
    BY <1>6, ChainEmpty DEF AutosaveSucceeds
  <2>2. draftId' \in MaybeDraft /\ baseline' \in SnapshotOf /\ lastSaved' \in Text \X MaybeDraft
    BY <1>6, <2>1 DEF AutosaveSucceeds, SaveSucceeds, Snapshot, TypeOK, Task, SnapshotOf
  <2> QED BY <1>6, <2>1, <2>2, <1>3 DEF AutosaveSucceeds, TypeOK, ChainOK, userVars, serverVars
<1>7. ASSUME AutosaveFails PROVE TypesInv'
  BY <1>7, <1>3 DEF AutosaveFails, TypeOK, ChainOK, editorVars, userVars, serverVars
<1> QED BY <1>1, <1>4, <1>5, <1>6, <1>7

Editors == [shown : {"no", "panel", "full"}, msg : Message \cup {0},
            text : Text, files : BOOLEAN, mode : {"new", "draft"}]

\* A dismissed editor is an editor.
LEMMA DismissTypes ==
  ASSUME Dismiss
  PROVE  /\ editor' = NoEditor /\ editor' \in Editors
         /\ draftId' \in MaybeDraft /\ baseline' \in SnapshotOf \cup {None} /\ timer' \in BOOLEAN
BY Constants DEF Dismiss, Editors, MaybeDraft

\* A seeded editor is an editor.
LEMMA SeedTypes ==
  ASSUME NEW e \in Editors, NEW d \in MaybeDraft, ApplySeed(e, d)
  PROVE  /\ editor' = e /\ editor' \in Editors
         /\ draftId' \in MaybeDraft /\ baseline' \in SnapshotOf \cup {None} /\ timer' \in BOOLEAN
<1>1. editor' = e /\ editor' \in Editors /\ draftId' \in MaybeDraft /\ baseline' \in SnapshotOf \cup {None}
  BY DEF ApplySeed, Editors, SnapshotOf
<1>2. timer' \in BOOLEAN
  BY DEF ApplySeed, Debounce
<1> QED BY <1>1, <1>2

\* What changes the editor keeps the types.
LEMMA TypesEditor ==
  ASSUME TypesInv,
         \/ StartMessage \/ Expand \/ Attach \/ ClearCompose \/ OpenSaved
         \/ Shown /\ \E t \in TextsOf(editor.msg) \cup {Seed} : Type(t)
         \/ \E d \in Draft : EditDraft(d)
         \/ OpenDraftEditor \/ EditDraftFails
         \/ DiscardUnsaved \/ CloseWithoutFiles \/ DiscardSaved \/ ToastExpires
  PROVE  TypesInv'
<1> USE DEF TypesInv
<1>1. ASSUME StartMessage PROVE TypesInv'
  <2> DEFINE e == [NoEditor EXCEPT !.shown = "panel", !.msg = started + 1]
  <2>1. started' \in 0 .. MaxMessages /\ started + 1 \in Message
    BY <1>1, Constants DEF StartMessage, TypeOK, Message
  <2>2. e \in Editors /\ e.msg # 0
    BY <2>1, Constants DEF Editors
  <2>3. ApplySeed(e, None) /\ None \in MaybeDraft
    BY <1>1 DEF StartMessage, MaybeDraft
  <2>4. released' \subseteq Message
    BY <1>1, Constants DEF StartMessage, TypeOK, Shown, NoEditor
  <2> HIDE DEF e
  <2> QED BY <1>1, <2>1, <2>2, <2>3, <2>4, SeedTypes, ChainKept
          DEF StartMessage, TypeOK, taskVars, serverVars, Editors
<1>2. ASSUME Expand PROVE TypesInv'
  <2>1. editor' \in Editors /\ editor'.msg # 0
    BY <1>2, Constants DEF Expand, TypeOK, Editors
  <2> QED BY <1>2, <2>1, ChainKept DEF Expand, TypeOK, taskVars, serverVars, userVars, Editors
<1>3. ASSUME Attach PROVE TypesInv'
  <2>1. editor' \in Editors /\ editor'.msg # 0
    BY <1>3, Constants DEF Attach, MayEdit, Shown, TypeOK, Editors
  <2>2. edits' \in 0 .. MaxEdits
    BY <1>3, Constants DEF Attach, MayEdit, TypeOK
  <2> QED BY <1>3, <2>1, <2>2, ChainKept DEF Attach, TypeOK, taskVars, serverVars, Editors
<1>4. ASSUME ClearCompose PROVE TypesInv'
  <2>1. started' \in 0 .. MaxMessages /\ started + 1 \in Message
    BY <1>4, Constants DEF ClearCompose, TypeOK, Message
  <2>2. editor' \in Editors /\ editor'.msg # 0
    BY <1>4, <2>1, Constants DEF ClearCompose, TypeOK, Editors
  <2>3. released' \subseteq Message
    BY <1>4, Constants DEF ClearCompose, Shown, TypeOK
  <2>4. timer' \in BOOLEAN
    BY <1>4 DEF ClearCompose
  <2> QED BY <1>4, <2>1, <2>2, <2>3, <2>4, ChainKept
          DEF ClearCompose, TypeOK, taskVars, serverVars, Editors, MaybeDraft
<1>5. ASSUME NEW d, FetchDraft(d), d \in Draft, UNCHANGED toast \/ toast' = NoToast PROVE TypesInv'
  <2>1. drafts[d] \in [msg : Message, text : Text]
    BY <1>5 DEF FetchDraft, Stored, TypeOK
  <2>2. opening' \in [id : Draft, msg : Message, text : Text]
    BY <1>5, <2>1 DEF FetchDraft
  <2>3. toast' \in [kind : {"none", "saved", "failed", "files"}, id : MaybeDraft]
        /\ (toast'.kind = "saved" => toast'.id # None)
    BY <1>5 DEF NoToast, MaybeDraft, TypeOK
  <2> QED BY <1>5, <2>2, <2>3, ChainKept DEF FetchDraft, TypeOK, editorVars, serverVars, userVars
<1>6. ASSUME Shown, NEW t \in TextsOf(editor.msg) \cup {Seed}, Type(t) PROVE TypesInv'
  <2>1. editor.msg \in Message
    BY <1>6, Constants DEF Shown, TypeOK
  <2>2. t \in Text
    BY <2>1, TextsAreText
  <2>3. editor' \in Editors /\ editor'.msg # 0
    BY <1>6, <2>1, <2>2, Constants DEF Type, TypeOK, Editors
  <2>4. edits' \in 0 .. MaxEdits
    BY <1>6, Constants DEF Type, MayEdit, TypeOK
  <2>5. latest' \in [Message -> Text] /\ timer' \in BOOLEAN
    BY <1>6, <2>2 DEF Type, TypeOK, Debounce
  <2> QED BY <1>6, <2>3, <2>4, <2>5, ChainKept DEF Type, TypeOK, taskVars, serverVars, Editors
<1>7. ASSUME OpenDraftEditor PROVE TypesInv'
  <2> DEFINE e == [shown |-> "full", msg |-> opening.msg, text |-> opening.text,
                   files |-> FALSE, mode |-> "draft"]
  <2>1. opening \in [id : Draft, msg : Message, text : Text]
    BY <1>7 DEF OpenDraftEditor, TypeOK
  <2>2. e \in Editors /\ e.msg # 0
    BY <2>1, Constants DEF Editors
  <2>3. ApplySeed(e, opening.id) /\ opening.id \in MaybeDraft
    BY <1>7, <2>1 DEF OpenDraftEditor, MaybeDraft
  <2>4. reopened' \subseteq Message
    BY <1>7, <2>1 DEF OpenDraftEditor, TypeOK
  <2> HIDE DEF e
  <2> QED BY <1>7, <2>2, <2>3, <2>4, SeedTypes, ChainKept DEF OpenDraftEditor, TypeOK, serverVars, Editors
<1>8. ASSUME EditDraftFails PROVE TypesInv'
  BY <1>8, ChainKept DEF EditDraftFails, TypeOK, editorVars, serverVars, userVars
<1>9. ASSUME DiscardUnsaved PROVE TypesInv'
  <2>1. released' \subseteq Message
    BY <1>9, Constants DEF DiscardUnsaved, Shown, TypeOK
  <2>2. Dismiss /\ drafts' \in [Draft -> [msg : Message, text : Text] \cup {None}]
    BY <1>9, DiscardTypes DEF DiscardUnsaved
  <2>3. toast' \in [kind : {"none", "saved", "failed", "files"}, id : MaybeDraft] /\ toast'.kind # "saved"
    BY <1>9 DEF DiscardUnsaved, NoToast, MaybeDraft
  <2> QED BY <1>9, <2>1, <2>2, <2>3, DismissTypes, ChainKept DEF DiscardUnsaved, TypeOK, taskVars, Editors
<1>10. ASSUME CloseWithoutFiles PROVE TypesInv'
  <2>1. Dismiss /\ toast' \in [kind : {"none", "saved", "failed", "files"}, id : MaybeDraft]
        /\ (toast'.kind = "saved" => toast'.id # None)
    BY <1>10 DEF CloseWithoutFiles, NoToast, MaybeDraft, TypeOK
  <2> QED BY <1>10, <2>1, DismissTypes, ChainKept DEF CloseWithoutFiles, TypeOK, taskVars, Editors, serverVars, userVars
<1>11. ASSUME DiscardSaved PROVE TypesInv'
  <2>1. toast.id \in Draft
    BY <1>11 DEF DiscardSaved, TypeOK, MaybeDraft
  <2>2. released' \subseteq Message
    BY <1>11, <2>1 DEF DiscardSaved, Stored, TypeOK
  <2>3. drafts' \in [Draft -> [msg : Message, text : Text] \cup {None}]
    BY <1>11, DiscardTypes DEF DiscardSaved
  <2>4. toast' \in [kind : {"none", "saved", "failed", "files"}, id : MaybeDraft] /\ toast'.kind # "saved"
    BY <1>11 DEF DiscardSaved, NoToast, MaybeDraft
  <2> QED BY <1>11, <2>2, <2>3, <2>4, ChainKept DEF DiscardSaved, TypeOK, taskVars, editorVars
<1>12. ASSUME ToastExpires PROVE TypesInv'
  <2>1. toast' \in [kind : {"none", "saved", "failed", "files"}, id : MaybeDraft] /\ toast'.kind # "saved"
    BY <1>12 DEF ToastExpires, NoToast, MaybeDraft
  <2> QED BY <1>12, <2>1, ChainKept DEF ToastExpires, TypeOK, taskVars, editorVars, serverVars, userVars
<1>13. ASSUME OpenSaved PROVE TypesInv'
  <2>1. toast.id \in Draft
    BY <1>13 DEF OpenSaved, TypeOK, MaybeDraft
  <2> QED BY <1>13, <2>1, <1>5 DEF OpenSaved
<1>14. ASSUME NEW d \in Draft, EditDraft(d) PROVE TypesInv'
  BY <1>14, <1>5 DEF EditDraft
<1> QED BY <1>1, <1>2, <1>3, <1>4, <1>6, <1>7, <1>8, <1>9, <1>10, <1>11, <1>12, <1>13, <1>14

\* The end of a close keeps the types of what it writes.
LEMMA FinishTypes ==
  ASSUME TypesInv, NEW saved \in MaybeDraft, FinishClose(saved)
  PROVE  /\ closing' = NoTask /\ closing' \in Task /\ closing'.pc = "idle"
         /\ toast' \in [kind : {"none", "saved", "failed", "files"}, id : MaybeDraft]
         /\ toast'.kind = "saved" => toast'.id # None
         /\ editor' = NoEditor \/ editor' = editor
         /\ editor' \in Editors
<1>1. closing' = NoTask /\ closing' \in Task /\ closing'.pc = "idle"
  BY TaskTypes DEF FinishClose
<1>2. toast' \in [kind : {"none", "saved", "failed", "files"}, id : MaybeDraft]
      /\ (toast'.kind = "saved" => toast'.id # None)
  BY DEF FinishClose, TypesInv, TypeOK, MaybeDraft
<1>3. editor' = NoEditor \/ editor' = editor
  BY DEF FinishClose
<1> QED BY <1>1, <1>2, <1>3, Constants DEF Editors, TypesInv, TypeOK

\* Whether or not a close dismisses the editor, its refs keep their types.
LEMMA KeepTypes ==
  ASSUME TypesInv, KeepOrDismiss
  PROVE  draftId' \in MaybeDraft /\ baseline' \in SnapshotOf \cup {None} /\ timer' \in BOOLEAN
<1>1. CASE editor' = NoEditor
  BY <1>1 DEF KeepOrDismiss, MaybeDraft
<1>2. CASE editor' # NoEditor
  BY <1>2 DEF KeepOrDismiss, TypesInv, TypeOK
<1> QED BY <1>1, <1>2

\* A close that saves keeps the types.
LEMMA TypesClosing ==
  ASSUME TypesInv, RequestComposeClose \/ CloseFlushes \/ CloseStored \/ CloseSucceeds \/ CloseFails
  PROVE  TypesInv'
<1> USE DEF TypesInv, Begun
<1>1. ASSUME RequestComposeClose PROVE TypesInv'
  <2> USE ChainKept DEF RequestComposeClose, TypeOK, Editors, userVars
  <2>1. ASSUME CloseUntouched PROVE TypesInv'
    <3>1. Dismiss /\ drafts' \in [Draft -> [msg : Message, text : Text] \cup {None}]
      BY <2>1, DiscardTypes DEF CloseUntouched
    <3> QED BY <1>1, <2>1, <3>1, DismissTypes DEF CloseUntouched
  <2>2. ASSUME CloseSaved PROVE TypesInv'
    <3>1. Dismiss /\ toast' \in [kind : {"none", "saved", "failed", "files"}, id : MaybeDraft]
          /\ (toast'.kind = "saved" => toast'.id # None)
      BY <2>2 DEF CloseSaved, MaybeDraft
    <3> QED BY <1>1, <2>2, <3>1, DismissTypes DEF CloseSaved
  <2>3. ASSUME CloseAfterSave PROVE TypesInv'
    <3>1. closing' \in Task /\ closing'.pc = "settling"
      BY <2>3, TaskTypes, ChainEmpty DEF CloseAfterSave, Waiting, Task
    <3>2. timer' \in BOOLEAN
      BY <2>3 DEF CloseAfterSave
    <3> QED BY <1>1, <2>3, <3>1, <3>2 DEF CloseAfterSave
  <2> QED BY <1>1, <2>1, <2>2, <2>3
<1>2. ASSUME CloseFlushes PROVE TypesInv'
  <2> USE ChainKept DEF CloseFlushes, TypeOK, Editors, userVars, serverVars
  <2>1. CASE FinishClose(draftId) /\ KeepOrDismiss
    BY <1>2, <2>1, FinishTypes, KeepTypes
  <2>2. CASE ~NothingToSave /\ closing' = Capture(closing) /\ UNCHANGED <<editorVars, toast>>
    <3>1. editor.msg # 0
      BY <2>2, Constants DEF NothingToSave, HasUserContent
    <3>2. closing' \in Task /\ closing'.pc = "sealed" /\ closing'.msg # 0
      BY <2>2, <3>1 DEF Capture, Task
    <3> QED BY <1>2, <2>2, <3>2 DEF editorVars
  <2> QED BY <1>2, <2>1, <2>2
<1>3. ASSUME CloseStored PROVE TypesInv'
  <2>1. closing \in Task /\ closing.msg # 0
    BY <1>3 DEF CloseStored, TypeOK
  <2>2. /\ drafts' \in [Draft -> [msg : Message, text : Text] \cup {None}]
        /\ drafted' \in 0 .. MaxDrafts
        /\ drafted + 1 \in Draft /\ sent' \subseteq Message \X Text
    BY <1>3, <2>1, StoreTypes DEF CloseStored
  <2>3. closing' \in Task /\ closing'.pc = "stored" /\ closing'.msg # 0 /\ closing'.id # None
    BY <1>3, <2>1, <2>2, Constants DEF CloseStored, Task, MaybeDraft
  <2> QED BY <1>3, <2>2, <2>3, ChainKept DEF CloseStored, TypeOK, editorVars, userVars
<1>4. ASSUME CloseSucceeds PROVE TypesInv'
  <2>1. closing \in Task /\ closing.id \in MaybeDraft /\ closing.id # None
    BY <1>4 DEF CloseSucceeds, TypeOK, Task
  <2>2. FinishClose(closing.id)
    BY <1>4 DEF CloseSucceeds
  <2>3. draftId' \in MaybeDraft /\ baseline' \in SnapshotOf \cup {None}
        /\ lastSaved' \in (Text \X MaybeDraft) \cup {None} /\ timer' \in BOOLEAN
    <3>1. lastSaved' = <<closing.text, closing.prev>>
      BY <1>4 DEF CloseSucceeds, SaveSucceeds
    <3>2. CASE editor' = NoEditor
      BY <1>4, <2>1, <3>1, <3>2 DEF CloseSucceeds, MaybeDraft, Task
    <3>3. CASE editor' # NoEditor
      BY <1>4, <2>1, <3>1, <3>3 DEF CloseSucceeds, MaybeDraft, Task, SaveSucceeds, TypeOK, Snapshot, SnapshotOf
    <3> QED BY <3>2, <3>3
  <2> QED BY <1>4, <2>1, <2>2, <2>3, FinishTypes, ChainKept DEF CloseSucceeds, TypeOK, Editors, serverVars, userVars
<1>5. ASSUME CloseFails PROVE TypesInv'
  <2>1. FinishClose(None) /\ KeepOrDismiss /\ None \in MaybeDraft
    BY <1>5 DEF CloseFails, MaybeDraft
  <2> QED BY <1>5, <2>1, FinishTypes, KeepTypes, ChainKept DEF CloseFails, TypeOK, Editors, serverVars, userVars
<1> QED BY <1>1, <1>2, <1>3, <1>4, <1>5

\* A send keeps the types.
LEMMA TypesSending ==
  ASSUME TypesInv, SendMessage \/ SendQueued \/ SendSucceeds \/ SendFails
  PROVE  TypesInv'
<1> USE DEF TypesInv, Begun
<1>1. ASSUME SendMessage PROVE TypesInv'
  <2>1. sending' \in Task /\ sending'.pc = "settling" /\ sending'.msg # 0
    BY <1>1, TaskTypes, ChainEmpty, Constants DEF SendMessage, Waiting, Task, HasUserContent, TypeOK
  <2>2. timer' \in BOOLEAN
    BY <1>1 DEF SendMessage
  <2> QED BY <1>1, <2>1, <2>2, ChainKept DEF SendMessage, TypeOK, serverVars, userVars
<1>2. ASSUME SendQueued PROVE TypesInv'
  <2>1. sending' \in Task /\ sending'.pc = "stored" /\ sending'.msg # 0
    BY <1>2 DEF SendQueued, Task, TypeOK
  <2>2. <<sending.msg, sending.text>> \in Message \X Text
    BY <1>2 DEF SendQueued, Task, TypeOK
  <2> QED BY <1>2, <2>1, <2>2, ChainKept DEF SendQueued, QueueMail, TypeOK, editorVars, userVars
<1>3. ASSUME SendSucceeds PROVE TypesInv'
  <2>1. drafts' \in [Draft -> [msg : Message, text : Text] \cup {None}] /\ Dismiss
    BY <1>3 DEF SendSucceeds, TypeOK
  <2>2. sending' \in Task /\ sending'.pc = "idle"
    BY <1>3, TaskTypes DEF SendSucceeds
  <2> QED BY <1>3, <2>1, <2>2, DismissTypes, ChainKept DEF SendSucceeds, TypeOK, Editors, userVars
<1>4. ASSUME SendFails PROVE TypesInv'
  <2>1. sending' \in Task /\ sending'.pc = "idle"
    BY <1>4, TaskTypes DEF SendFails
  <2>2. editor' \in Editors /\ (editor'.msg = 0 => editor' = NoEditor)
    <3>1. editor \in Editors
      BY DEF TypeOK, Editors
    <3>2. CASE editor.msg = 0
      BY <1>4, <3>1, <3>2, Constants DEF SendFails, Editors
    <3>3. CASE editor.msg # 0
      BY <1>4, <3>1, <3>3 DEF SendFails, Editors
    <3> QED BY <3>2, <3>3
  <2> QED BY <1>4, <2>1, <2>2, ChainKept DEF SendFails, TypeOK, Editors, serverVars, userVars
<1> QED BY <1>1, <1>2, <1>3, <1>4

\* Every step keeps the types.
LEMMA TypesNext == TypesInv /\ [Next]_vars => TypesInv'
<1> SUFFICES ASSUME TypesInv, [Next]_vars PROVE TypesInv'
  OBVIOUS
<1>1. CASE UNCHANGED vars
  <2> USE DEF vars, editorVars, taskVars, serverVars, userVars
  <2>1. TypeOK'
    BY <1>1 DEF TypeOK, TypesInv
  <2> QED BY <1>1, <2>1, ChainKept DEF TypesInv
<1>2. CASE Next
  <2> HIDE DEF TypesInv
  <2> QED BY <1>2, TypesEditor, TypesAutosave, TypesClosing, TypesSending DEF Next, User, Program, Failure
<1> QED BY <1>1, <1>2

----------------------------------------------------------------------------
(* What the steps do to the autosaves and to the stored drafts *)

\* The scenario is the one of the start.
LEMMA ScenarioKept == [Next]_vars => scenario' = scenario
<1> SUFFICES ASSUME [Next]_vars PROVE scenario' = scenario
  OBVIOUS
<1>1. CASE UNCHANGED vars
  BY <1>1 DEF vars
<1>2. CASE Failure \/ ToastExpires
  BY <1>2 DEF Failure, ToastExpires, EditDraftFails, AutosaveFails, CloseFails, SendFails
<1>3. CASE Program
  BY <1>3 DEF Program, OpenDraftEditor, AutosaveFires, AutosaveStarts, AutosaveStored, AutosaveSucceeds,
              CloseFlushes, CloseStored, CloseSucceeds, SendQueued, SendSucceeds
<1>4. CASE User
  BY <1>4 DEF User, StartMessage, Expand, Type, Attach, ClearCompose, EditDraft, FetchDraft, OpenSaved,
              RequestComposeClose, DiscardUnsaved, CloseWithoutFiles, DiscardSaved, SendMessage
<1> QED BY <1>1, <1>2, <1>3, <1>4 DEF Next

\* Two stages of a task that differ in the autosaves they wait for.
Same(a, b) ==
    /\ a.pc = b.pc /\ a.msg = b.msg /\ a.text = b.text /\ a.prev = b.prev /\ a.id = b.id
    /\ a.full = b.full

\* The end of an autosave: the next one waits, and whoever waits for it waits
\* for one less.
LEMMA EndsEffect ==
  ASSUME TypesInv, chain # <<>>, AutosaveEnds
  PROVE  /\ Len(chain) \in Nat \ {0} /\ Len(chain') = Len(chain) - 1
         /\ chain' = <<>> <=> Len(chain) = 1
         /\ Front' = IF Len(chain) = 1 THEN NoTask ELSE Queued
         /\ Front'.pc \in {"idle", "queued"}
         /\ Same(closing', closing) /\ closing'.ahead = IF closing.ahead > 0 THEN closing.ahead - 1 ELSE 0
         /\ Same(sending', sending) /\ sending'.ahead = IF sending.ahead > 0 THEN sending.ahead - 1 ELSE 0
<1>1. ChainOK /\ closing \in Task /\ sending \in Task
  BY DEF TypesInv, TypeOK
<1>2. ChainOK' /\ Len(chain') = Len(chain) - 1 /\ Front' = IF Len(chain) = 1 THEN NoTask ELSE Queued
  BY <1>1, ChainEnds DEF AutosaveEnds
<1>3. Len(chain) \in Nat /\ Len(chain) # 0
  BY <1>1, ChainEmpty
<1>4. chain' = <<>> <=> Len(chain) = 1
  BY <1>1, ChainEnds DEF AutosaveEnds
<1>5. Front'.pc \in {"idle", "queued"}
  BY <1>2, TaskTypes
<1>6. Same(closing', closing) /\ closing'.ahead = IF closing.ahead > 0 THEN closing.ahead - 1 ELSE 0
  BY <1>1 DEF AutosaveEnds, Advance, Task, Same
<1>7. Same(sending', sending) /\ sending'.ahead = IF sending.ahead > 0 THEN sending.ahead - 1 ELSE 0
  BY <1>1 DEF AutosaveEnds, Advance, Task, Same
<1> QED BY <1>2, <1>3, <1>4, <1>5, <1>6, <1>7

\* An autosave captures the message in the editor, or has nothing to save.
LEMMA StartsEffect ==
  ASSUME TypesInv, AutosaveStarts
  PROVE  /\ chain # <<>> /\ Front.pc = "queued"
         /\ \/ NothingToSave /\ AutosaveEnds
            \/ /\ ~NothingToSave /\ chain' # <<>> /\ Len(chain') = Len(chain)
               /\ editor.msg # 0
               /\ Front'.pc = "sealed" /\ Front'.msg = editor.msg /\ Front'.text = editor.text
               /\ Front'.prev = draftId
               /\ UNCHANGED <<closing, sending>>
<1>1. chain # <<>> /\ Front = Head(chain) /\ Front = chain[1] /\ Front \in Task /\ Front.pc = "queued"
  BY ChainEmpty DEF TypesInv, AutosaveStarts
<1>2. CASE ~NothingToSave /\ chain' = [chain EXCEPT ![1] = Capture(@)] /\ UNCHANGED <<closing, sending>>
  <2> DEFINE t == Capture(Front)
  <2>1. editor.msg # 0
    BY <1>2, Constants DEF NothingToSave, HasUserContent, TypesInv
  <2>2. t \in Task /\ t.pc = "sealed" /\ t.msg = editor.msg /\ t.text = editor.text /\ t.prev = draftId
    BY <1>1 DEF Capture, Task, TypesInv, TypeOK
  <2>3. chain' = [chain EXCEPT ![1] = t] /\ ChainOK
    BY <1>1, <1>2 DEF TypesInv, ChainOK
  <2> HIDE DEF t
  <2>4. Front' = t /\ chain' # <<>> /\ Len(chain') = Len(chain)
    BY <1>1, <2>2, <2>3, ChainStep
  <2> QED BY <1>1, <1>2, <2>1, <2>2, <2>4
<1> QED BY <1>1, <1>2 DEF AutosaveStarts

\* The server stores what the first autosave captured.
LEMMA StoredEffect ==
  ASSUME TypesInv, AutosaveStored
  PROVE  /\ chain # <<>> /\ Front.pc = "sealed" /\ Front \in Task /\ Front.msg # 0 /\ StoreDraft(Front)
         /\ chain' # <<>> /\ Len(chain') = Len(chain)
         /\ Front'.pc = "stored" /\ Front'.msg = Front.msg /\ Front'.text = Front.text
         /\ Front'.prev = Front.prev /\ Front'.id = drafted + 1
<1> DEFINE t == [Front EXCEPT !.pc = "stored", !.id = drafted + 1]
<1>1. chain # <<>> /\ Front = Head(chain) /\ Front = chain[1] /\ Front \in Task /\ Front.pc = "sealed"
  BY ChainEmpty DEF TypesInv, AutosaveStored
<1>2. StoreDraft(Front) /\ Front.msg # 0
  BY <1>1 DEF TypesInv, AutosaveStored, Begun
<1>3. drafted + 1 \in Draft
  BY <1>1, <1>2, StoreTypes DEF TypesInv
<1>4. t \in Task /\ t.pc = "stored" /\ t.msg = Front.msg /\ t.text = Front.text /\ t.prev = Front.prev
      /\ t.id = drafted + 1
  BY <1>1, <1>3 DEF Task, MaybeDraft
<1>5. chain' = [chain EXCEPT ![1] = t] /\ ChainOK
  BY <1>1 DEF TypesInv, ChainOK, AutosaveStored
<1> HIDE DEF t
<1>6. Front' = t /\ chain' # <<>> /\ Len(chain') = Len(chain)
  BY <1>1, <1>4, <1>5, ChainStep
<1> QED BY <1>1, <1>2, <1>4, <1>6

\* The server stores a draft and takes away the one before, no other.
LEMMA StoreEffect ==
  ASSUME TypesInv, NEW t \in Task, t.msg # 0, StoreDraft(t)
  PROVE  /\ drafted' = drafted + 1 /\ drafted + 1 \in Draft /\ sent' = sent
         /\ drafts'[drafted + 1] = [msg |-> t.msg, text |-> t.text]
         /\ drafts'[drafted + 1] # None
         /\ \A d \in Draft : d # drafted + 1 => drafts'[d] = IF d = t.prev THEN None ELSE drafts[d]
<1>1. drafted' = drafted + 1 /\ drafted + 1 \in Draft
  BY StoreTypes DEF TypesInv
<1>2. [msg |-> t.msg, text |-> t.text] \in [msg : Nat, text : Nat]
  BY Constants DEF Task
<1>3. [msg |-> t.msg, text |-> t.text] # None
  BY <1>2, ComposeAssumption
<1>4. drafts' = [[d \in Draft |-> IF d = t.prev THEN None ELSE drafts[d]]
                     EXCEPT ![drafted + 1] = [msg |-> t.msg, text |-> t.text]]
      /\ sent' = sent
  BY DEF StoreDraft
<1>5. drafts'[drafted + 1] = [msg |-> t.msg, text |-> t.text]
  BY <1>1, <1>4
<1>6. ASSUME NEW d \in Draft, d # drafted + 1
      PROVE  drafts'[d] = IF d = t.prev THEN None ELSE drafts[d]
  BY <1>4, <1>6
<1> QED BY <1>1, <1>3, <1>4, <1>5, <1>6

\* A discard takes away one draft at most.
LEMMA DiscardEffect ==
  ASSUME TypesInv, NEW d, Discard(d)
  PROVE  /\ \A e \in Draft : drafts'[e] = drafts[e] \/ (e = d /\ drafts'[e] = None)
         /\ ~May("refuseDiscard") /\ d \in Draft => drafts'[d] = None
BY DEF Discard, TypesInv, TypeOK

----------------------------------------------------------------------------
(* While no message is left under way: whose drafts the saves replace *)

\* The user leaves no message while it is being saved or sent.
Calm == ~May("hasty")
\* A draft the server has stored at some time, or none.
Upto(x) == x = None \/ x \in 1 .. drafted
\* A draft that is of a message, if it is still stored.
Fits(d, m) == d # None /\ Stored(d) => drafts[d].msg = m
\* Both.
Follows(d, m) == Upto(d) /\ Fits(d, m)

\* Nothing refers to a draft or a message that is yet to come.
Numbers ==
    /\ \A d \in Draft : Stored(d) => d <= drafted /\ drafts[d].msg <= started
    /\ Upto(draftId) /\ Upto(toast.id) /\ Upto(sending.prev)

\* A draft is fetched for an empty editor, and it is of the message it opens.
Opened ==
    opening # None =>
        ~Shown /\ Quiet /\ opening.msg <= started /\ Follows(opening.id, opening.msg)

\* No autosave fires without an editor or during a send.
TimerStops == ~Shown \/ sending.pc # "idle" => ~timer

\* A save is of the message in the editor, and replaces and stores drafts of
\* that message.
SaverOK(t) ==
    t.pc \in Begun =>
        /\ t.msg <= started
        /\ editor.msg # 0 => t.msg = editor.msg
        /\ Follows(t.prev, t.msg)
        /\ t.pc = "stored" => Follows(t.id, t.msg)

\* So are the first autosave and the close.
Savers == SaverOK(Front) /\ SaverOK(closing)

\* The draft the editor has is of its message.
Held == editor.msg # 0 => editor.msg <= started /\ Fits(draftId, editor.msg)

\* The part of the invariant about whose drafts they are.
OwnDrafts == Numbers /\ Opened /\ TimerStops /\ Savers /\ Held

\* What a step may do to the drafts that were ever stored.
Later ==
    /\ drafted <= drafted' /\ started <= started'
    /\ \A d \in 1 .. drafted : drafts'[d] = None \/ drafts'[d] = drafts[d]

\* A draft that is of a message stays so, or goes.
LEMMA LaterFollows ==
  ASSUME TypesInv, Later, drafted' \in Nat, NEW d \in MaybeDraft, NEW m
  PROVE  /\ Upto(d) => Upto(d)'
         /\ Upto(d) /\ Fits(d, m) => Fits(d, m)'
         /\ Follows(d, m) => Follows(d, m)'
<1>1. drafted \in Nat /\ MaxDrafts \in Nat /\ None \notin Int
  BY Constants DEF TypesInv, TypeOK
<1>2. Upto(d) => Upto(d)'
  BY <1>1 DEF Later, Upto
<1>3. Upto(d) /\ Fits(d, m) => Fits(d, m)'
  BY <1>1 DEF Later, Upto, Fits, Stored
<1> QED BY <1>2, <1>3 DEF Follows

\* A stored draft is a new one.
LEMMA LaterStores ==
  ASSUME TypesInv, NEW t \in Task, t.msg # 0, StoreDraft(t), UNCHANGED started
  PROVE  Later /\ drafted' \in Nat
<1>1. drafted \in Nat /\ started \in Nat
  BY Constants DEF TypesInv, TypeOK
<1>3. drafted' = drafted + 1
      /\ \A d \in Draft : d # drafted + 1 => drafts'[d] = None \/ drafts'[d] = drafts[d]
  BY StoreEffect
<1>2. drafted <= MaxDrafts /\ MaxDrafts \in Nat
  BY Constants DEF TypesInv, TypeOK
<1> QED BY <1>1, <1>2, <1>3 DEF Later, Draft

\* Nothing is stored at the start.
LEMMA OwnInit == Init => OwnDrafts
BY TaskTypes DEF Init, OwnDrafts, Numbers, Opened, TimerStops, Savers, SaverOK, Held, Shown, NoEditor,
   Front, Stored, Upto, NoToast, Begun

\* What a step that stores nothing may do to them.
Shrinks ==
    /\ drafted' = drafted /\ started <= started'
    /\ \A d \in Draft : drafts'[d] = None \/ drafts'[d] = drafts[d]

\* A step that stores nothing leaves fewer drafts or the same.
LEMMA ShrinksLater ==
  ASSUME TypesInv, Shrinks
  PROVE  Later /\ drafted' \in Nat
<1>1. drafted \in Nat /\ drafted <= MaxDrafts /\ MaxDrafts \in Nat
  BY Constants DEF TypesInv, TypeOK
<1> QED BY <1>1 DEF Later, Shrinks, Draft

\* A step that leaves the drafts alone.
LEMMA Unshrunk ==
  ASSUME TypesInv, UNCHANGED <<drafts, drafted, started>>
  PROVE  Shrinks
BY Constants DEF Shrinks, TypesInv, TypeOK

(* A saver is still one of the message in the editor, if only that message  *)
(* can have gone.                                                           *)
LEMMA SaverKept ==
  ASSUME TypesInv, Later, drafted' \in Nat, started' \in Nat, editor'.msg = 0 \/ editor'.msg = editor.msg,
         NEW t \in Task, SaverOK(t)
  PROVE  SaverOK(t)'
<1>1. t.prev \in MaybeDraft /\ t.id \in MaybeDraft /\ t.msg \in Nat
  BY MessageIsNat DEF Task
<1>2. started \in Nat /\ started <= started'
  BY DEF TypesInv, TypeOK, Later
<1>3. (Follows(t.prev, t.msg) => Follows(t.prev, t.msg)') /\ (Follows(t.id, t.msg) => Follows(t.id, t.msg)')
  BY <1>1, LaterFollows
<1> QED BY <1>1, <1>2, <1>3 DEF SaverOK

\* The savers stay those of the message in the editor.
LEMMA SaversKept ==
  ASSUME TypesInv, Savers, Later, drafted' \in Nat, started' \in Nat,
         editor'.msg = 0 \/ editor'.msg = editor.msg,
         Front'.pc \notin Begun \/ Front' = Front,
         closing'.pc \notin Begun \/ Same(closing', closing)
  PROVE  Savers'
<1>1. Front \in Task /\ closing \in Task
  BY ChainEmpty DEF TypesInv, TypeOK
<1>2. PICK f, c : f = Front /\ c = closing
  OBVIOUS
<1>3. SaverOK(f)' /\ SaverOK(c)'
  BY <1>1, <1>2, SaverKept DEF Savers
<1>4. SaverOK(Front)'
  BY <1>2, <1>3 DEF SaverOK
<1>5. SaverOK(closing)'
  BY <1>2, <1>3 DEF SaverOK, Same
<1> QED BY <1>4, <1>5 DEF Savers

\* The draft the editor has stays one of its message.
LEMMA HeldKept ==
  ASSUME TypesInv, Held, Numbers, Later, drafted' \in Nat, started' \in Nat,
         editor'.msg = 0 \/ editor'.msg = editor.msg, draftId' = draftId \/ draftId' = None
  PROVE  Held'
<1>1. draftId \in MaybeDraft /\ started \in Nat /\ started <= started' /\ editor.msg \in Nat
  <2>1. editor.msg \in Nat
    BY MessageIsNat DEF TypesInv, TypeOK
  <2>2. draftId \in MaybeDraft /\ started \in 0 .. MaxMessages
    BY DEF TypesInv, TypeOK
  <2> QED BY <2>1, <2>2 DEF Later
<1>2. PICK d, m : d = draftId /\ m = editor.msg
  OBVIOUS
<1>3. Upto(d) /\ Fits(d, m) => Fits(d, m)'
  BY <1>1, <1>2, LaterFollows
<1> QED BY <1>1, <1>2, <1>3 DEF Held, Numbers, Fits

\* A draft on its way to the editor stays one of its message.
LEMMA OpenedKept ==
  ASSUME TypesInv, Opened, Later, drafted' \in Nat, started' \in Nat,
         opening' = None \/ opening' = opening,
         Quiet => Quiet', ~Shown => ~Shown' \/ opening' = None
  PROVE  Opened'
<1>1. CASE opening' = None
  BY <1>1 DEF Opened
<1>2. CASE opening' = opening /\ opening # None
  <2>1. opening.id \in MaybeDraft /\ opening.msg \in Nat /\ started \in Nat /\ started <= started'
    <3>1. opening.id \in MaybeDraft /\ opening.msg \in Message
      BY <1>2 DEF TypesInv, TypeOK, MaybeDraft
    <3>2. started \in 0 .. MaxMessages
      BY DEF TypesInv, TypeOK
    <3> QED BY <3>1, <3>2, MessageIsNat DEF Later
  <2>2. PICK d, m : d = opening.id /\ m = opening.msg
    OBVIOUS
  <2>3. Follows(d, m) => Follows(d, m)'
    BY <2>1, <2>2, LaterFollows
  <2>4. Follows(opening.id, opening.msg)'
    BY <1>2, <2>2, <2>3 DEF Opened, Follows, Upto, Fits, Stored
  <2> QED BY <1>2, <2>1, <2>4 DEF Opened
<1> QED BY <1>1, <1>2

\* What counts drafts is not ahead of the server, if none is stored.
LEMMA NumbersKept ==
  ASSUME TypesInv, Numbers, Shrinks, started' \in Nat,
         draftId' = draftId \/ draftId' = None,
         toast'.id = toast.id \/ toast'.id = draftId \/ toast'.id = None,
         sending'.prev = sending.prev \/ sending'.prev = draftId \/ sending'.prev = None
  PROVE  Numbers'
<1>1. started \in Nat /\ started <= started' /\ drafted' = drafted
  BY DEF TypesInv, TypeOK, Shrinks
<1>2. Upto(draftId)' /\ Upto(toast.id)' /\ Upto(sending.prev)'
  BY <1>1 DEF Numbers, Upto
<1>3. ASSUME NEW d \in Draft, Stored(d)' PROVE d <= drafted' /\ drafts'[d].msg <= started'
  <2>1. drafts'[d] = drafts[d] /\ drafts[d] # None
    BY <1>3 DEF Stored, Shrinks
  <2>2. drafts[d].msg \in Nat
    BY <2>1, Constants DEF TypesInv, TypeOK
  <2> QED BY <1>1, <2>1, <2>2 DEF Numbers, Stored
<1> QED BY <1>2, <1>3 DEF Numbers

\* Nobody saves when nothing is under way.
LEMMA QuietSavers ==
  ASSUME TypesInv, Quiet, UNCHANGED <<chain, closing>>
  PROVE  Savers'
<1>1. Front = NoTask /\ Front' = Front
  BY ChainEmpty, ChainKept DEF TypesInv, Quiet
<1>2. Front'.pc \notin Begun /\ closing'.pc \notin Begun
  BY <1>1, TaskTypes DEF Quiet, Begun
<1> QED BY <1>2 DEF Savers, SaverOK

\* What changes the editor finds nothing under way, or leaves the message.
LEMMA OwnEditor ==
  ASSUME TypesInv, TypesInv', Calm, OwnDrafts,
         \/ StartMessage \/ Expand \/ Attach \/ ClearCompose \/ OpenSaved
         \/ \E t \in TextsOf(editor.msg) \cup {Seed} : Type(t)
         \/ \E d \in Draft : EditDraft(d)
         \/ OpenDraftEditor \/ EditDraftFails
         \/ DiscardUnsaved \/ CloseWithoutFiles \/ DiscardSaved \/ ToastExpires
         \/ RequestComposeClose
  PROVE  OwnDrafts'
<1> USE DEF OwnDrafts
<1>a. started \in Nat /\ started' \in Nat
  BY DEF TypesInv, TypeOK
<1>b. Shown => opening = None
  BY DEF Opened
<1>1. ASSUME StartMessage PROVE OwnDrafts'
  <2>1. Quiet /\ opening = None
    BY <1>1 DEF Calm, StartMessage
  <2>2. Shrinks /\ Later /\ drafted' \in Nat
    BY <1>1, <1>a, ShrinksLater DEF StartMessage, Shrinks, serverVars
  <2>3. Numbers'
    BY <1>1, <1>a, <2>2, NumbersKept DEF StartMessage, ApplySeed, taskVars
  <2>4. Savers' /\ Opened' /\ TimerStops'
    <3>1. timer' = FALSE /\ opening' = None /\ UNCHANGED <<chain, closing>>
      BY <1>1, <2>1 DEF StartMessage, ApplySeed, Debounce, NoEditor, taskVars
    <3> QED BY <2>1, <3>1, QuietSavers DEF Opened, TimerStops
  <2>5. Held'
    <3>1. editor'.msg = started + 1 /\ started' = started + 1 /\ draftId' = None
      BY <1>1 DEF StartMessage, ApplySeed, NoEditor
    <3> QED BY <1>a, <3>1 DEF Held, Fits
  <2> QED BY <2>3, <2>4, <2>5
<1>2. ASSUME Expand \/ Attach \/ \E t \in TextsOf(editor.msg) \cup {Seed} : Type(t)
      PROVE  OwnDrafts'
  <2>1. /\ Shown /\ editor'.msg = editor.msg /\ Shown'
        /\ UNCHANGED <<draftId, chain, closing, sending, opening, drafts, drafted, toast, started>>
        /\ timer' = timer \/ sending.pc = "idle"
    <3>0. editor \in Editors
      BY DEF TypesInv, TypeOK, Editors
    <3>1. CASE Expand
      BY <3>0, <3>1 DEF Expand, Shown, Editors, taskVars, serverVars, userVars
    <3>2. CASE Attach
      BY <3>0, <3>2 DEF Attach, MayEdit, Shown, Editors, taskVars, serverVars
    <3>3. ASSUME NEW t \in TextsOf(editor.msg) \cup {Seed}, Type(t)
          PROVE  /\ Shown /\ editor'.msg = editor.msg /\ Shown'
                 /\ UNCHANGED <<draftId, chain, closing, sending, opening, drafts, drafted, toast, started>>
                 /\ sending.pc = "idle"
      BY <3>0, <3>3 DEF Type, MayEdit, Shown, Editors, taskVars, serverVars
    <3> QED BY <1>2, <3>1, <3>2, <3>3
  <2>2. Shrinks /\ Later /\ drafted' \in Nat
    BY <2>1, Unshrunk, ShrinksLater
  <2>3. Front' = Front /\ Same(closing', closing)
    BY <2>1, ChainKept DEF Same
  <2>4. Savers' /\ Held' /\ Numbers'
    BY <1>a, <2>1, <2>2, <2>3, SaversKept, HeldKept, NumbersKept
  <2>5. Opened' /\ TimerStops'
    BY <1>b, <2>1 DEF Opened, TimerStops
  <2> QED BY <2>4, <2>5
<1>3. ASSUME ClearCompose PROVE OwnDrafts'
  <2>1. Quiet /\ Shown /\ Shown'
    BY <1>3 DEF Calm, ClearCompose, Settled, Shown, NoEditor
  <2>2. Shrinks /\ Later /\ drafted' \in Nat
    BY <1>3, <1>a, ShrinksLater DEF ClearCompose, Shrinks, serverVars
  <2>3. Numbers'
    BY <1>3, <1>a, <2>2, NumbersKept DEF ClearCompose, taskVars
  <2>4. Savers' /\ Opened' /\ TimerStops'
    BY <1>3, <1>b, <2>1, QuietSavers DEF ClearCompose, taskVars, Opened, TimerStops
  <2>5. Held'
    <3>1. editor'.msg = started + 1 /\ started' = started + 1 /\ draftId' = None
      BY <1>3 DEF ClearCompose, NoEditor
    <3> QED BY <1>a, <3>1 DEF Held, Fits
  <2> QED BY <2>3, <2>4, <2>5
<1>4. ASSUME NEW d \in Draft, FetchDraft(d), toast' = toast \/ toast' = NoToast PROVE OwnDrafts'
  <2>1. Quiet /\ ~Shown /\ Stored(d) /\ opening' = [id |-> d, msg |-> drafts[d].msg, text |-> drafts[d].text]
        /\ UNCHANGED <<editorVars, chain, closing, sending, drafts, drafted, started>>
    BY <1>4 DEF Calm, FetchDraft, Settled, serverVars, userVars
  <2>2. Shrinks /\ Later /\ drafted' \in Nat
    BY <2>1, Unshrunk, ShrinksLater
  <2>3. Front' = Front /\ Same(closing', closing)
    BY <2>1, ChainKept DEF Same
  <2>4. Savers' /\ Held'
    BY <1>a, <2>1, <2>2, <2>3, SaversKept, HeldKept DEF editorVars
  <2>5. Numbers'
    BY <1>4, <1>a, <2>1, <2>2, NumbersKept DEF editorVars, NoToast
  <2>6. Opened'
    <3>1. opening'.id = d /\ opening'.msg = drafts[d].msg /\ d \in 1 .. drafted /\ drafts[d].msg <= started
      BY <2>1 DEF Numbers, Draft, TypesInv, TypeOK
    <3> QED BY <2>1, <3>1 DEF Opened, Follows, Upto, Fits, Stored, Shown, Quiet, editorVars
  <2>7. TimerStops'
    BY <2>1 DEF TimerStops, Shown, editorVars
  <2> QED BY <2>4, <2>5, <2>6, <2>7
<1>5. ASSUME OpenDraftEditor PROVE OwnDrafts'
  <2>1. opening # None /\ Quiet /\ opening.msg <= started /\ Follows(opening.id, opening.msg)
    BY <1>5 DEF OpenDraftEditor, Opened
  <2>2. /\ editor'.msg = opening.msg /\ draftId' = opening.id /\ opening' = None /\ Shown'
        /\ UNCHANGED <<chain, closing, sending, toast, drafts, drafted, started>>
    BY <1>5 DEF Shown, OpenDraftEditor, ApplySeed, serverVars
  <2>3. Savers' /\ Opened' /\ TimerStops'
    BY <2>1, <2>2, QuietSavers DEF Opened, TimerStops, Quiet
  <2>4. Held' /\ Numbers'
    BY <2>1, <2>2 DEF Held, Numbers, Follows, Upto, Fits, Stored
  <2> QED BY <2>3, <2>4
<1>6. ASSUME EditDraftFails \/ ToastExpires PROVE OwnDrafts'
  <2>1. /\ UNCHANGED <<editorVars, chain, closing, sending, drafts, drafted, started>>
        /\ opening' = opening \/ opening' = None
        /\ toast' = toast \/ toast' = NoToast
    BY <1>6 DEF EditDraftFails, ToastExpires, serverVars, userVars, taskVars
  <2>2. Shrinks /\ Later /\ drafted' \in Nat
    BY <2>1, Unshrunk, ShrinksLater
  <2>3. Front' = Front /\ Same(closing', closing)
    BY <2>1, ChainKept DEF Same
  <2>4. Savers' /\ Held'
    BY <1>a, <2>1, <2>2, <2>3, SaversKept, HeldKept DEF editorVars
  <2>5. Numbers'
    BY <1>a, <2>1, <2>2, NumbersKept DEF editorVars, NoToast
  <2>6. Opened' /\ TimerStops'
    BY <1>a, <2>1, <2>2, OpenedKept DEF TimerStops, Shown, editorVars, Quiet
  <2> QED BY <2>4, <2>5, <2>6
<1>7. ASSUME Dismiss, Shrinks, UNCHANGED <<chain, closing, sending, opening, started>>,
             toast'.id = toast.id \/ toast'.id = draftId \/ toast'.id = None
      PROVE  OwnDrafts'
  <2>1. editor'.msg = 0 /\ draftId' = None /\ ~Shown' /\ timer' = FALSE
    BY <1>7 DEF Dismiss, Shown, NoEditor
  <2>2. Later /\ drafted' \in Nat
    BY <1>7, ShrinksLater
  <2>3. Front' = Front /\ Same(closing', closing)
    BY <1>7, ChainKept DEF Same
  <2>4. Savers' /\ Held'
    BY <1>a, <2>1, <2>2, <2>3, SaversKept, HeldKept
  <2>5. Numbers'
    BY <1>7, <1>a, <2>1, <2>2, NumbersKept
  <2>6. Opened' /\ TimerStops'
    BY <1>7, <1>a, <2>1, <2>2, OpenedKept DEF TimerStops, Quiet
  <2> QED BY <2>4, <2>5, <2>6
<1>8. ASSUME DiscardUnsaved PROVE OwnDrafts'
  <2>1. Shrinks
    BY <1>8, <1>a, DiscardEffect DEF DiscardUnsaved, Shrinks
  <2> QED BY <1>8, <2>1, <1>7 DEF DiscardUnsaved, taskVars, NoToast
<1>9. ASSUME CloseWithoutFiles PROVE OwnDrafts'
  <2>1. Shrinks
    BY <1>9, Unshrunk DEF CloseWithoutFiles, serverVars, userVars
  <2> QED BY <1>9, <2>1, <1>7 DEF CloseWithoutFiles, taskVars, NoToast, userVars
<1>10. ASSUME DiscardSaved PROVE OwnDrafts'
  <2>1. /\ UNCHANGED <<editorVars, chain, closing, sending, opening, started>>
        /\ toast' = NoToast /\ Shrinks
    BY <1>10, <1>a, DiscardEffect DEF DiscardSaved, Shrinks, taskVars
  <2>2. Later /\ drafted' \in Nat
    BY <2>1, ShrinksLater
  <2>3. Front' = Front /\ Same(closing', closing)
    BY <2>1, ChainKept DEF Same
  <2>4. Savers' /\ Held'
    BY <1>a, <2>1, <2>2, <2>3, SaversKept, HeldKept DEF editorVars
  <2>5. Numbers'
    BY <1>a, <2>1, <2>2, NumbersKept DEF editorVars, NoToast
  <2>6. Opened' /\ TimerStops'
    BY <1>a, <2>1, <2>2, OpenedKept DEF TimerStops, Shown, editorVars, Quiet
  <2> QED BY <2>4, <2>5, <2>6
<1>11. ASSUME RequestComposeClose PROVE OwnDrafts'
  <2>1. CASE CloseUntouched
    <3>1. Shrinks
      BY <1>11, <2>1, <1>a, DiscardEffect DEF RequestComposeClose, CloseUntouched, Shrinks, userVars
    <3> QED BY <1>11, <2>1, <3>1, <1>7 DEF RequestComposeClose, CloseUntouched, userVars
  <2>2. CASE CloseSaved
    <3>1. Shrinks
      BY <1>11, <2>2, Unshrunk DEF RequestComposeClose, CloseSaved, userVars
    <3> QED BY <1>11, <2>2, <3>1, <1>7 DEF RequestComposeClose, CloseSaved, userVars
  <2>3. CASE CloseAfterSave
    <3>1. /\ UNCHANGED <<editor, draftId, chain, sending, opening, drafts, drafted, toast, started>>
          /\ timer' = FALSE /\ closing'.pc = "settling" /\ Shown
      BY <1>11, <2>3 DEF RequestComposeClose, CloseAfterSave, Waiting, NoTask, userVars
    <3>2. Shrinks /\ Later /\ drafted' \in Nat
      BY <3>1, Unshrunk, ShrinksLater
    <3>3. Front' = Front /\ closing'.pc \notin Begun
      BY <3>1, ChainKept DEF Begun
    <3>4. Savers' /\ Held' /\ Numbers'
      BY <1>a, <3>1, <3>2, <3>3, SaversKept, HeldKept, NumbersKept
    <3>5. Opened' /\ TimerStops'
      BY <1>b, <3>1 DEF Opened, TimerStops
    <3> QED BY <3>4, <3>5
  <2> QED BY <1>11, <2>1, <2>2, <2>3 DEF RequestComposeClose
<1>12. ASSUME OpenSaved PROVE OwnDrafts'
  <2>1. toast.id \in Draft
    BY <1>12 DEF OpenSaved, TypesInv, TypeOK, MaybeDraft
  <2> QED BY <1>12, <2>1, <1>4 DEF OpenSaved
<1>13. ASSUME NEW d \in Draft, EditDraft(d) PROVE OwnDrafts'
  BY <1>13, <1>4 DEF EditDraft
<1> QED BY <1>1, <1>2, <1>3, <1>5, <1>6, <1>8, <1>9, <1>10, <1>11, <1>12, <1>13

\* What counts drafts is not ahead of the server, if one is stored.
LEMMA NumbersStored ==
  ASSUME TypesInv, Numbers, NEW t \in Task, t.msg # 0, StoreDraft(t), t.msg <= started,
         UNCHANGED <<started, draftId, toast, sending>>
  PROVE  Numbers'
<1>1. started \in Nat /\ drafted \in Nat
  BY DEF TypesInv, TypeOK
<1>2. drafted' = drafted + 1 /\ drafts'[drafted + 1] = [msg |-> t.msg, text |-> t.text]
      /\ \A d \in Draft : d # drafted + 1 => drafts'[d] = IF d = t.prev THEN None ELSE drafts[d]
  BY StoreEffect
<1>3. Upto(draftId)' /\ Upto(toast.id)' /\ Upto(sending.prev)'
  BY <1>1, <1>2 DEF Numbers, Upto
<1>4. ASSUME NEW d \in Draft, Stored(d)' PROVE d <= drafted' /\ drafts'[d].msg <= started'
  <2>0. d \in Nat
    BY DEF Draft
  <2>1. CASE d = drafted + 1
    BY <1>1, <1>2, <2>1
  <2>2. CASE d # drafted + 1
    <3>1. drafts'[d] = drafts[d] /\ Stored(d)
      BY <1>2, <1>4, <2>2 DEF Stored
    <3> QED BY <2>0, <1>1, <1>2, <3>1 DEF Numbers
  <2> QED BY <2>1, <2>2
<1> QED BY <1>3, <1>4 DEF Numbers

\* An autosave replaces a draft of its own message.
LEMMA OwnAutosave ==
  ASSUME TypesInv, TypesInv', Calm, OwnDrafts,
         AutosaveFires \/ AutosaveStarts \/ AutosaveStored \/ AutosaveSucceeds \/ AutosaveFails
  PROVE  OwnDrafts'
<1> USE DEF OwnDrafts
<1>a. started \in Nat /\ started' \in Nat
  BY DEF TypesInv, TypeOK
<1>b. chain # <<>> => opening = None
  BY DEF Opened, Quiet
<1>c. NoTask.pc \notin Begun /\ Queued.pc \notin Begun
  BY TaskTypes DEF Begun
<1>1. ASSUME AutosaveFires PROVE OwnDrafts'
  <2>1. /\ UNCHANGED <<editor, draftId, closing, sending, opening, drafts, drafted, toast, started>>
        /\ timer' = FALSE /\ timer
    BY <1>1 DEF AutosaveFires, serverVars, userVars
  <2>2. Shrinks /\ Later /\ drafted' \in Nat
    BY <2>1, Unshrunk, ShrinksLater
  <2>3. Front' = IF chain = <<>> THEN Queued ELSE Front
    BY <1>1, ChainFires DEF AutosaveFires, TypesInv, Queued
  <2>4. Savers' /\ Held' /\ Numbers'
    BY <1>a, <1>c, <2>1, <2>2, <2>3, SaversKept, HeldKept, NumbersKept DEF Same
  <2>5. Opened' /\ TimerStops'
    BY <2>1 DEF Opened, TimerStops
  <2> QED BY <2>4, <2>5
<1>2. ASSUME chain # <<>>, AutosaveEnds, UNCHANGED <<editor, timer, opening, drafts, drafted, toast, started>>
      PROVE  Savers' /\ Opened' /\ TimerStops' /\ sending'.prev = sending.prev
             /\ Shrinks /\ Later /\ drafted' \in Nat
  <2>1. Shrinks /\ Later /\ drafted' \in Nat
    BY <1>2, Unshrunk, ShrinksLater
  <2>2. Front'.pc \notin Begun /\ Same(closing', closing) /\ Same(sending', sending)
    BY <1>2, EndsEffect DEF Begun
  <2>3. Savers'
    BY <1>a, <1>2, <2>1, <2>2, SaversKept
  <2>4. Opened' /\ TimerStops'
    BY <1>2, <1>b, <2>2 DEF Opened, TimerStops, Shown, Same
  <2> QED BY <2>1, <2>2, <2>3, <2>4 DEF Same
<1>3. ASSUME AutosaveFails PROVE OwnDrafts'
  <2>1. chain # <<>> /\ AutosaveEnds /\ UNCHANGED <<editor, timer, opening, drafts, drafted, toast, started, draftId>>
    BY <1>3 DEF AutosaveFails, editorVars, serverVars, userVars
  <2>2. Held' /\ Numbers'
    BY <1>a, <1>2, <2>1, HeldKept, NumbersKept
  <2> QED BY <1>2, <2>1, <2>2
<1>4. ASSUME AutosaveStarts PROVE OwnDrafts'
  <2>1. chain # <<>> /\ UNCHANGED <<editor, timer, opening, drafts, drafted, toast, started, draftId>>
    BY <1>4 DEF AutosaveStarts, editorVars, serverVars, userVars
  <2>2. CASE AutosaveEnds
    <3>1. Held' /\ Numbers'
      BY <1>a, <1>2, <2>1, <2>2, HeldKept, NumbersKept
    <3> QED BY <1>2, <2>1, <2>2, <3>1
  <2>3. CASE ~AutosaveEnds
    <3>1. /\ editor.msg # 0 /\ UNCHANGED <<closing, sending>>
          /\ Front'.pc = "sealed" /\ Front'.msg = editor.msg /\ Front'.prev = draftId
      BY <1>4, <2>3, StartsEffect
    <3>2. Shrinks /\ Later /\ drafted' \in Nat
      BY <2>1, Unshrunk, ShrinksLater
    <3>3. Held' /\ Numbers'
      BY <1>a, <2>1, <3>1, <3>2, HeldKept, NumbersKept
    <3>4. SaverOK(Front)'
      BY <2>1, <3>1, <3>3 DEF SaverOK, Follows, Held, Numbers
    <3>5. SaverOK(closing)'
      <4>1. PICK c : c = closing
        OBVIOUS
      <4>2. SaverOK(c)'
        BY <1>a, <2>1, <3>2, <4>1, SaverKept DEF Savers, TypesInv, TypeOK
      <4> QED BY <3>1, <4>1, <4>2 DEF SaverOK
    <3>6. Opened' /\ TimerStops'
      BY <1>b, <2>1, <3>1 DEF Opened, TimerStops, Shown
    <3> QED BY <3>3, <3>4, <3>5, <3>6 DEF Savers
  <2> QED BY <2>2, <2>3
<1>5. ASSUME AutosaveStored PROVE OwnDrafts'
  <2>1. /\ chain # <<>> /\ Front.pc = "sealed" /\ Front \in Task /\ Front.msg # 0 /\ StoreDraft(Front)
        /\ Front'.pc = "stored" /\ Front'.msg = Front.msg
        /\ Front'.prev = Front.prev /\ Front'.id = drafted + 1
    BY <1>5, StoredEffect
  <2>2. UNCHANGED <<editor, timer, draftId, closing, sending, opening, toast, started>>
    BY <1>5 DEF AutosaveStored, editorVars, userVars
  <2>3. Later /\ drafted' \in Nat
    BY <2>1, <2>2, LaterStores
  <2>4. /\ drafted' = drafted + 1 /\ drafts'[drafted + 1] = [msg |-> Front.msg, text |-> Front.text]
    BY <2>1, StoreEffect
  <2>5. Front.msg <= started
    BY <2>1 DEF Savers, SaverOK, Begun
  <2>6. Numbers' /\ Held'
    BY <1>a, <2>1, <2>2, <2>3, <2>5, NumbersStored, HeldKept
  <2>7. SaverOK(Front)'
    <3>1. PICK f : f = Front
      OBVIOUS
    <3>2. SaverOK(f)'
      BY <1>a, <2>1, <2>2, <2>3, <3>1, SaverKept DEF Savers
    <3>3. Follows(Front.id, Front.msg)'
      <4>1. drafted + 1 \in 1 .. drafted'
        BY <2>4 DEF TypesInv, TypeOK
      <4> QED BY <2>1, <2>4, <4>1 DEF Follows, Upto, Fits
    <3> QED BY <2>1, <3>1, <3>2, <3>3 DEF SaverOK, Begun
  <2>8. SaverOK(closing)'
    <3>1. PICK c : c = closing
      OBVIOUS
    <3>2. SaverOK(c)'
      BY <1>a, <2>2, <2>3, <3>1, SaverKept DEF Savers, TypesInv, TypeOK
    <3> QED BY <2>2, <3>1, <3>2 DEF SaverOK
  <2>9. Opened' /\ TimerStops'
    BY <1>b, <2>1, <2>2 DEF Opened, TimerStops, Shown
  <2> QED BY <2>6, <2>7, <2>8, <2>9 DEF Savers
<1>6. ASSUME AutosaveSucceeds PROVE OwnDrafts'
  <2>1. /\ chain # <<>> /\ Front.pc = "stored" /\ draftId' = Front.id /\ AutosaveEnds
        /\ UNCHANGED <<editor, timer, opening, drafts, drafted, toast, started>>
    BY <1>6, ChainEmpty DEF AutosaveSucceeds, SaveSucceeds, TypesInv, serverVars, userVars
  <2>2. SaverOK(Front)
    BY DEF Savers
  <2>3. Held'
    BY <2>1, <2>2 DEF Held, SaverOK, Begun, Follows, Fits, Stored
  <2>4. Numbers'
    BY <1>2, <2>1, <2>2 DEF Numbers, SaverOK, Begun, Follows, Upto, Stored
  <2> QED BY <1>2, <2>1, <2>3, <2>4
<1> QED BY <1>1, <1>3, <1>4, <1>5, <1>6

\* The end of a close keeps the message or dismisses it.
LEMMA FinishEffect ==
  ASSUME NEW saved, FinishClose(saved)
  PROVE  /\ closing'.pc = "idle" /\ closing' = NoTask
         /\ editor' = NoEditor \/ editor' = editor
         /\ toast'.id = saved \/ toast'.id = None \/ toast'.id = toast.id
BY DEF FinishClose, NoTask

\* The end of a close gives the editor no draft but the one it saved.
LEMMA OwnFinish ==
  ASSUME TypesInv, TypesInv', OwnDrafts, NEW saved, FinishClose(saved), closing.pc # "idle", Upto(saved),
         UNCHANGED <<chain, sending, opening, drafts, drafted, started>>,
         IF editor' = NoEditor
         THEN draftId' = None /\ timer' = FALSE
         ELSE (draftId' = draftId \/ (draftId' = saved /\ (editor.msg # 0 => Fits(saved, editor.msg))))
              /\ timer' = timer
  PROVE  OwnDrafts'
<1> USE DEF OwnDrafts
<1>a. started \in Nat /\ started' \in Nat
  BY DEF TypesInv, TypeOK
<1>1. opening' = None
  BY DEF Opened, Quiet
<1>2. /\ closing'.pc \notin Begun
      /\ editor' = NoEditor \/ editor' = editor
      /\ toast'.id = saved \/ toast'.id = None \/ toast'.id = toast.id
  BY FinishEffect DEF Begun
<1>3. editor'.msg = 0 \/ editor'.msg = editor.msg
  BY <1>2 DEF NoEditor
<1>4. Shrinks /\ Later /\ drafted' \in Nat
  BY Unshrunk, ShrinksLater
<1>5. Savers'
  BY <1>a, <1>2, <1>3, <1>4, ChainKept, SaversKept
<1>6. Numbers'
  BY <1>2 DEF Numbers, Upto, Stored
<1>7. Held'
  <2>1. CASE editor' = NoEditor
    BY <2>1 DEF Held, NoEditor
  <2>2. CASE editor' = editor
    BY <2>2 DEF Held, Fits, Stored
  <2> QED BY <1>2, <2>1, <2>2
<1>8. Opened' /\ TimerStops'
  BY <1>1, <1>2 DEF Opened, TimerStops, Shown
<1> QED BY <1>5, <1>6, <1>7, <1>8

\* A close replaces a draft of its own message.
LEMMA OwnClosing ==
  ASSUME TypesInv, TypesInv', Calm, OwnDrafts,
         CloseFlushes \/ CloseStored \/ CloseSucceeds \/ CloseFails
  PROVE  OwnDrafts'
<1>a. started \in Nat /\ started' \in Nat
  BY DEF TypesInv, TypeOK
<1>b. closing.pc # "idle" => opening = None
  BY DEF OwnDrafts, Opened, Quiet
<1>1. ASSUME CloseFlushes PROVE OwnDrafts'
  <2>1. UNCHANGED <<chain, sending, opening, drafts, drafted, started>> /\ closing.pc = "settling"
    BY <1>1 DEF CloseFlushes, serverVars, userVars
  <2>2. CASE FinishClose(draftId) /\ KeepOrDismiss
    <3>1. Upto(draftId)
      BY DEF OwnDrafts, Numbers
    <3>2. PICK s : s = draftId
      OBVIOUS
    <3> QED BY <2>1, <2>2, <3>1, <3>2, OwnFinish DEF KeepOrDismiss, Upto
  <2>3. CASE ~NothingToSave /\ closing' = Capture(closing) /\ UNCHANGED <<editorVars, toast>>
    <3> USE DEF OwnDrafts
    <3>1. editor.msg # 0
      BY <2>3, Constants DEF NothingToSave, HasUserContent, TypesInv
    <3>2. closing'.pc = "sealed" /\ closing'.msg = editor.msg /\ closing'.prev = draftId
      BY <2>3 DEF Capture, TypesInv, TypeOK, Task
    <3>3. Shrinks /\ Later /\ drafted' \in Nat
      BY <2>1, Unshrunk, ShrinksLater
    <3>4. Held' /\ Numbers'
      BY <1>a, <2>1, <2>3, <3>3, HeldKept, NumbersKept DEF editorVars
    <3>5. SaverOK(closing)'
      BY <2>1, <2>3, <3>1, <3>2, <3>4 DEF SaverOK, Follows, Held, Numbers, editorVars
    <3>6. SaverOK(Front)'
      <4>1. PICK f : f = Front
        OBVIOUS
      <4>2. f \in Task /\ SaverOK(f)
        BY <4>1, ChainEmpty DEF Savers, TypesInv
      <4>3. SaverOK(f)'
        BY <1>a, <2>3, <3>3, <4>2, SaverKept DEF editorVars
      <4> QED BY <2>1, <4>1, <4>3, ChainKept DEF SaverOK
    <3>7. Opened' /\ TimerStops'
      BY <1>b, <2>1, <2>3 DEF Opened, TimerStops, Shown, editorVars
    <3> QED BY <3>4, <3>5, <3>6, <3>7 DEF Savers
  <2> QED BY <1>1, <2>2, <2>3 DEF CloseFlushes
<1>2. ASSUME CloseStored PROVE OwnDrafts'
  <2> USE DEF OwnDrafts
  <2>1. /\ closing.pc = "sealed" /\ closing \in Task /\ closing.msg # 0 /\ StoreDraft(closing)
        /\ UNCHANGED <<editor, timer, draftId, chain, sending, opening, toast, started>>
    BY <1>2 DEF CloseStored, editorVars, userVars, TypesInv, TypeOK, Begun
  <2>2. closing'.pc = "stored" /\ closing'.msg = closing.msg /\ closing'.prev = closing.prev
        /\ closing'.id = drafted + 1
    BY <1>2, <2>1 DEF CloseStored, Task
  <2>3. Later /\ drafted' \in Nat
    BY <2>1, LaterStores
  <2>4. drafted' = drafted + 1 /\ drafts'[drafted + 1] = [msg |-> closing.msg, text |-> closing.text]
    BY <2>1, StoreEffect
  <2>5. closing.msg <= started
    BY <2>1 DEF Savers, SaverOK, Begun
  <2>6. Numbers' /\ Held'
    BY <1>a, <2>1, <2>3, <2>5, NumbersStored, HeldKept
  <2>7. SaverOK(closing)'
    <3>1. PICK c : c = closing
      OBVIOUS
    <3>2. SaverOK(c)'
      BY <1>a, <2>1, <2>3, <3>1, SaverKept DEF Savers
    <3>3. Follows(closing.id, closing.msg)'
      <4>1. drafted + 1 \in 1 .. drafted'
        BY <2>4 DEF TypesInv, TypeOK
      <4> QED BY <2>2, <2>4, <4>1 DEF Follows, Upto, Fits
    <3> QED BY <2>1, <2>2, <3>1, <3>2, <3>3 DEF SaverOK, Begun
  <2>8. SaverOK(Front)'
    <3>1. PICK f : f = Front
      OBVIOUS
    <3>2. f \in Task /\ SaverOK(f)
      BY <3>1, ChainEmpty DEF Savers, TypesInv
    <3>3. SaverOK(f)'
      BY <1>a, <2>1, <2>3, <3>2, SaverKept
    <3> QED BY <2>1, <3>1, <3>3, ChainKept DEF SaverOK
  <2>9. Opened' /\ TimerStops'
    BY <1>b, <2>1 DEF Opened, TimerStops, Shown
  <2> QED BY <2>6, <2>7, <2>8, <2>9 DEF Savers
<1>3. ASSUME CloseSucceeds PROVE OwnDrafts'
  <2>1. /\ closing.pc = "stored" /\ FinishClose(closing.id)
        /\ UNCHANGED <<chain, sending, opening, drafts, drafted, started>>
    BY <1>3 DEF CloseSucceeds, serverVars, userVars
  <2>2. Follows(closing.id, closing.msg) /\ (editor.msg # 0 => closing.msg = editor.msg)
    BY <2>1 DEF OwnDrafts, Savers, SaverOK, Begun
  <2>3. PICK s : s = closing.id
    OBVIOUS
  <2>4. Upto(s) /\ (editor.msg # 0 => Fits(s, editor.msg))
    BY <2>2, <2>3 DEF Follows
  <2> QED BY <1>3, <2>1, <2>3, <2>4, OwnFinish DEF CloseSucceeds, SaveSucceeds
<1>4. ASSUME CloseFails PROVE OwnDrafts'
  <2>1. /\ closing.pc # "idle" /\ FinishClose(None) /\ KeepOrDismiss
        /\ UNCHANGED <<chain, sending, opening, drafts, drafted, started>>
    BY <1>4 DEF CloseFails, Fails, serverVars, userVars
  <2> QED BY <2>1, OwnFinish DEF KeepOrDismiss, Upto
<1> QED BY <1>1, <1>2, <1>3, <1>4

\* A send takes away a draft of its own message.
LEMMA OwnSending ==
  ASSUME TypesInv, TypesInv', Calm, OwnDrafts,
         SendMessage \/ SendQueued \/ SendSucceeds \/ SendFails
  PROVE  OwnDrafts'
<1> USE DEF OwnDrafts
<1>a. started \in Nat /\ started' \in Nat /\ sending \in Task /\ editor \in Editors
  BY DEF TypesInv, TypeOK, Editors
<1>b. sending.pc # "idle" \/ Shown => opening = None
  BY DEF Opened, Quiet
<1>1. ASSUME SendMessage \/ SendQueued PROVE OwnDrafts'
  <2>1. /\ UNCHANGED <<editor, draftId, chain, closing, opening, drafts, drafted, toast, started>>
        /\ sending'.prev = sending.prev \/ sending'.prev = draftId
        /\ opening = None /\ (timer' = FALSE \/ (sending.pc # "idle" /\ timer' = timer))
    <3>1. CASE SendMessage
      <4>1. sending'.prev = draftId
        BY <3>1 DEF SendMessage, Waiting, NoTask
      <4> QED BY <3>1, <4>1, <1>b DEF SendMessage, serverVars, userVars
    <3>2. CASE SendQueued
      BY <3>2, <1>a, <1>b DEF SendQueued, Task, editorVars, userVars
    <3> QED BY <1>1, <3>1, <3>2
  <2>2. Shrinks /\ Later /\ drafted' \in Nat
    BY <2>1, Unshrunk, ShrinksLater
  <2>3. Front' = Front /\ Same(closing', closing)
    BY <2>1, ChainKept DEF Same
  <2>4. Savers' /\ Held' /\ Numbers'
    BY <1>a, <2>1, <2>2, <2>3, SaversKept, HeldKept, NumbersKept
  <2>5. Opened' /\ TimerStops'
    BY <2>1 DEF Opened, TimerStops
  <2> QED BY <2>4, <2>5
<1>2. ASSUME SendSucceeds PROVE OwnDrafts'
  <2>1. /\ UNCHANGED <<chain, closing, opening, drafted, toast, started>>
        /\ sending'.prev = None /\ sending.pc # "idle"
        /\ editor'.msg = 0 /\ draftId' = None /\ timer' = FALSE
    BY <1>2 DEF SendSucceeds, Dismiss, NoEditor, NoTask, userVars
  <2>2. Shrinks /\ Later /\ drafted' \in Nat
    BY <1>2, <1>a, <2>1, ShrinksLater DEF SendSucceeds, Shrinks
  <2>3. Front' = Front /\ Same(closing', closing)
    BY <2>1, ChainKept DEF Same
  <2>4. Savers' /\ Held' /\ Numbers'
    BY <1>a, <2>1, <2>2, <2>3, SaversKept, HeldKept, NumbersKept
  <2>5. Opened' /\ TimerStops'
    BY <1>b, <2>1 DEF Opened, TimerStops
  <2> QED BY <2>4, <2>5
<1>3. ASSUME SendFails PROVE OwnDrafts'
  <2>1. /\ UNCHANGED <<draftId, timer, chain, closing, opening, drafts, drafted, toast, started>>
        /\ sending'.prev = None /\ sending.pc # "idle" /\ editor'.msg = editor.msg
    BY <1>3, <1>a DEF SendFails, NoTask, Editors, serverVars, userVars
  <2>2. Shrinks /\ Later /\ drafted' \in Nat
    BY <2>1, Unshrunk, ShrinksLater
  <2>3. Front' = Front /\ Same(closing', closing)
    BY <2>1, ChainKept DEF Same
  <2>4. Savers' /\ Held' /\ Numbers'
    BY <1>a, <2>1, <2>2, <2>3, SaversKept, HeldKept, NumbersKept
  <2>5. Opened' /\ TimerStops'
    BY <1>b, <2>1 DEF Opened, TimerStops
  <2> QED BY <2>4, <2>5
<1> QED BY <1>1, <1>2, <1>3

\* Every step of a user who leaves no message under way keeps whose drafts they
\* are.
LEMMA OwnNext ==
  ASSUME TypesInv, Calm, OwnDrafts, [Next]_vars
  PROVE  OwnDrafts'
<1>1. TypesInv'
  BY TypesNext
<1>2. CASE Next
  BY <1>1, <1>2, OwnEditor, OwnAutosave, OwnClosing, OwnSending DEF Next, User, Program, Failure
<1>3. CASE UNCHANGED vars
  <2> USE DEF vars, editorVars, taskVars, serverVars, userVars
  <2>1. Numbers' /\ Held'
    BY <1>3 DEF OwnDrafts, Numbers, Held, Upto, Fits, Stored
  <2>2. Savers'
    BY <1>3, ChainKept DEF OwnDrafts, Savers, SaverOK, Follows, Upto, Fits, Stored
  <2>3. Opened' /\ TimerStops'
    BY <1>3 DEF OwnDrafts, Opened, TimerStops, Shown, Quiet, Follows, Upto, Fits, Stored
  <2> QED BY <2>1, <2>2, <2>3 DEF OwnDrafts
<1> QED BY <1>2, <1>3

(* Nothing but a save stores a draft, and a save takes away only the draft  *)
(* it captured as the one before it.                                        *)
LEMMA OnlySavesStore ==
  ASSUME TypesInv, [Next]_vars, drafted' # drafted
  PROVE  AutosaveStored \/ CloseStored
<1>1. Next
  BY DEF vars, serverVars
<1> QED BY <1>1 DEF Next, Failure, ToastExpires, EditDraftFails, AutosaveFails, CloseFails, SendFails,
       Program, OpenDraftEditor, AutosaveFires, AutosaveStarts, AutosaveSucceeds,
       CloseFlushes, CloseSucceeds, SendQueued, SendSucceeds,
       User, StartMessage, Expand, Type, Attach, ClearCompose, EditDraft, FetchDraft, OpenSaved,
       RequestComposeClose, DiscardUnsaved, CloseWithoutFiles, DiscardSaved, SendMessage, serverVars

\* The draft that a save takes away is of the message it stores.
LEMMA OwnReplaced ==
  ASSUME TypesInv, OwnDrafts, NEW t \in Task, t.msg # 0, t.pc \in Begun, StoreDraft(t), SaverOK(t),
         NEW d \in Draft, Stored(d), drafts'[d] = None
  PROVE  drafts'[drafted'].msg = drafts[d].msg
<1>1. drafted' = drafted + 1 /\ drafts'[drafted + 1] = [msg |-> t.msg, text |-> t.text]
      /\ drafts'[drafted + 1] # None
      /\ \A e \in Draft : e # drafted + 1 => drafts'[e] = IF e = t.prev THEN None ELSE drafts[e]
  BY StoreEffect
<1>2. d # drafted + 1
  BY <1>1
<1>3. d = t.prev /\ d # None
  BY <1>1, <1>2, Constants DEF Stored
<1>4. drafts[d].msg = t.msg
  BY <1>3 DEF SaverOK, Follows, Fits
<1> QED BY <1>1, <1>4

----------------------------------------------------------------------------
(* While messages are left in peace: one draft each *)

\* The user leaves no message while it is being saved or sent, types nothing
\* during a close and answers the toasts; no answer of the server is lost.
Tidy == Only(Typing \cup {"attach", "refuseDiscard", "repeat"})
\* The same, and every discard succeeds.
Strict == Only(Typing)

\* A message has no draft but this one.
OnlyDraft(m, d) == \A e \in Draft : Stored(e) /\ drafts[e].msg = m => e = d

\* A close and a send exclude each other, and each waits for the autosaves it
\* found.
InTurn ==
    /\ closing.pc # "idle" => ~timer /\ sending.pc = "idle"
    /\ closing.pc = "settling" => Len(chain) <= closing.ahead
    /\ sending.pc = "settling" => Len(chain) <= sending.ahead
    /\ closing.pc \in Begun \/ sending.pc = "stored" => chain = <<>>

\* No message has two drafts.
Single == \A d, e \in Draft : Stored(d) /\ Stored(e) /\ drafts[d].msg = drafts[e].msg => d = e

\* A save replaces the only draft of its message, and then has stored the only
\* one.
Latest(t) ==
    /\ t.pc = "sealed" => OnlyDraft(t.msg, t.prev)
    /\ t.pc = "stored" => OnlyDraft(t.msg, t.id)

\* So do the first autosave and the close.
Latests == Latest(Front) /\ Latest(closing)

\* The editor knows the only draft of its message, unless a save has yet to
\* tell it.
Current == editor.msg # 0 /\ Front.pc # "stored" /\ closing.pc # "stored" => OnlyDraft(editor.msg, draftId)

\* A draft on its way to the editor is the only one of its message.
OpenedAlone == opening # None => OnlyDraft(opening.msg, opening.id)

\* A send is of the message in the editor, and once it is out it takes away its
\* only draft.
Sends ==
    /\ sending.pc # "idle" => sending.msg = editor.msg /\ Shown /\ toast = NoToast
    /\ sending.pc = "stored" => OnlyDraft(sending.msg, sending.prev)

\* A message that was sent has no draft, unless the send has yet to take it
\* away.
SentDrafts ==
    Strict => \A s \in sent : (sending.pc = "stored" /\ sending.msg = s[1]) \/ OnlyDraft(s[1], None)

\* Nobody goes on with a message that was sent.
SentDone ==
    Strict => \A s \in sent :
        /\ s[1] <= started
        /\ s[1] = editor.msg => sending.pc = "stored"
        /\ opening # None => opening.msg # s[1]
        /\ Front.pc \in Begun => Front.msg # s[1]
        /\ closing.pc \in Begun => closing.msg # s[1]

\* The part of the invariant about one draft each.
OneDraft ==
    /\ InTurn /\ Single /\ Latests /\ Current /\ OpenedAlone /\ Sends
    /\ SentDrafts /\ SentDone

\* What does not happen while the user is tidy.
LEMMA TidyMeans ==
  ASSUME Tidy
  PROVE  Calm /\ ~May("typeDuringClose") /\ ~May("staleToast") /\ ~May("lose")
BY DEF Tidy, Calm, Only, May, Typing

\* And what does not happen besides, for a send to leave no draft.
LEMMA StrictMeans ==
  ASSUME Strict
  PROVE  Tidy /\ ~May("refuseDiscard")
BY DEF Tidy, Strict, Only, May, Typing

\* Fewer drafts: one of a message is still the only one.
LEMMA ShrinksOnly ==
  ASSUME Shrinks
  PROVE  (\A m, d : OnlyDraft(m, d) => OnlyDraft(m, d)') /\ (Single => Single')
BY DEF Shrinks, OnlyDraft, Single, Stored

\* A save that replaces the only draft of a message stores the only one.
LEMMA StoresOnly ==
  ASSUME TypesInv, NEW t \in Task, t.msg # 0, StoreDraft(t), OnlyDraft(t.msg, t.prev)
  PROVE  /\ \A m, d : m # t.msg /\ OnlyDraft(m, d) => OnlyDraft(m, d)'
         /\ OnlyDraft(t.msg, drafted)'
         /\ Single => Single'
         /\ sent' = sent
<1>1. /\ drafted' = drafted + 1 /\ drafts'[drafted + 1] = [msg |-> t.msg, text |-> t.text] /\ sent' = sent
      /\ \A e \in Draft : e # drafted + 1 => drafts'[e] = IF e = t.prev THEN None ELSE drafts[e]
  BY StoreEffect
<1>2. drafts'[drafted + 1].msg = t.msg
  BY <1>1
<1>3. ASSUME NEW e \in Draft, e # drafted + 1, Stored(e)'
      PROVE  Stored(e) /\ drafts'[e] = drafts[e] /\ drafts[e].msg # t.msg
  <2>1. e # t.prev /\ drafts'[e] = drafts[e] /\ Stored(e)
    BY <1>1, <1>3 DEF Stored
  <2> QED BY <2>1 DEF OnlyDraft
<1>4. \A m, d : m # t.msg /\ OnlyDraft(m, d) => OnlyDraft(m, d)'
  BY <1>2, <1>3 DEF OnlyDraft
<1>5. OnlyDraft(t.msg, drafted)'
  <2> SUFFICES ASSUME NEW e \in Draft, Stored(e)', drafts'[e].msg = t.msg'
               PROVE  e = drafted'
    BY DEF OnlyDraft
  <2> QED BY <1>1, <1>3
<1>6. Single => Single'
  BY <1>2, <1>3 DEF Single
<1> QED BY <1>1, <1>4, <1>5, <1>6

\* A step after which the only drafts are still the only ones.
OnlysKept == \A m, d : OnlyDraft(m, d) => OnlyDraft(m, d)'

\* The savers know the only draft of their message as long as it is.
LEMMA LatestsKept ==
  ASSUME Latests, OnlysKept, Front' = Front \/ Front'.pc \notin Begun, Same(closing', closing)
  PROVE  Latests'
<1>1. PICK f, c : f = Front /\ c = closing
  OBVIOUS
<1>2. Latest(f)' /\ Latest(c)'
  BY <1>1 DEF Latests, Latest, OnlysKept
<1>3. Latest(Front)'
  BY <1>1, <1>2 DEF Latest, Begun
<1>4. Latest(closing)'
  BY <1>1, <1>2 DEF Latest, Same
<1> QED BY <1>3, <1>4 DEF Latests

\* The editor knows the only draft of its message as long as it is.
LEMMA CurrentKept ==
  ASSUME Current, OnlysKept, editor'.msg = 0 \/ UNCHANGED <<editor.msg, draftId>>,
         Front'.pc = "stored" \/ closing'.pc = "stored" \/ (Front.pc # "stored" /\ closing.pc # "stored")
  PROVE  Current'
<1>1. PICK m, d : m = editor.msg /\ d = draftId
  OBVIOUS
<1>2. OnlyDraft(m, d) => OnlyDraft(m, d)'
  BY DEF OnlysKept
<1> QED BY <1>1, <1>2 DEF Current, OnlyDraft

\* The draft on its way to the editor is the only one as long as it is.
LEMMA OpenedAloneKept ==
  ASSUME OpenedAlone, OnlysKept, opening' = None \/ opening' = opening
  PROVE  OpenedAlone'
<1>1. PICK m, d : m = opening.msg /\ d = opening.id
  OBVIOUS
<1>2. OnlyDraft(m, d) => OnlyDraft(m, d)'
  BY DEF OnlysKept
<1> QED BY <1>1, <1>2 DEF OpenedAlone, OnlyDraft

\* A send is of the message in the editor.
LEMMA SendsKept ==
  ASSUME Sends, OnlysKept, Same(sending', sending),
         sending.pc = "idle" \/ (Shown' /\ toast' = NoToast /\ editor'.msg = editor.msg)
  PROVE  Sends'
<1>1. PICK m, d : m = sending.msg /\ d = sending.prev
  OBVIOUS
<1>2. OnlyDraft(m, d) => OnlyDraft(m, d)'
  BY DEF OnlysKept
<1> QED BY <1>1, <1>2 DEF Sends, OnlyDraft, Same

\* A message that was sent stays without a draft.
LEMMA SentKept ==
  ASSUME TypesInv, SentDrafts, SentDone, Strict' <=> Strict, OnlysKept, Same(sending', sending), sent' = sent,
         started' \in Nat, started <= started',
         editor'.msg = 0 \/ editor'.msg = editor.msg \/ editor'.msg = started + 1,
         opening' = None \/ opening' = opening,
         Front'.pc \notin Begun \/ (Front.pc \in Begun /\ Front'.msg = Front.msg),
         closing'.pc \notin Begun \/ (closing.pc \in Begun /\ closing'.msg = closing.msg)
  PROVE  SentDrafts' /\ SentDone'
<1> SUFFICES ASSUME Strict, NEW s \in sent
             PROVE  /\ ((sending.pc = "stored" /\ sending.msg = s[1]) \/ OnlyDraft(s[1], None))'
                    /\ s[1] <= started'
                    /\ s[1] = editor'.msg => sending'.pc = "stored"
                    /\ opening' # None => opening'.msg # s[1]
                    /\ Front'.pc \in Begun => Front'.msg # s[1]
                    /\ closing'.pc \in Begun => closing'.msg # s[1]
  BY DEF SentDrafts, SentDone
<1>1. OnlyDraft(s[1], None) => OnlyDraft(s[1], None)'
  BY DEF OnlysKept
<1>2. s[1] \in Nat /\ s[1] # 0 /\ started \in Nat
  <2>1. s[1] \in Message /\ started \in 0 .. MaxMessages
    BY DEF TypesInv, TypeOK
  <2>2. PICK m \in Message : m = s[1]
    BY <2>1
  <2>3. m \in Nat /\ m # 0
    BY MessageIsNat, Constants
  <2> QED BY <2>1, <2>2, <2>3
<1>3. /\ s[1] <= started
      /\ s[1] = editor.msg => sending.pc = "stored"
      /\ opening # None => opening.msg # s[1]
      /\ Front.pc \in Begun => Front.msg # s[1]
      /\ closing.pc \in Begun => closing.msg # s[1]
  BY DEF SentDone
<1>4. s[1] <= started' /\ s[1] # started + 1
  BY <1>2, <1>3
<1>5. ((sending.pc = "stored" /\ sending.msg = s[1]) \/ OnlyDraft(s[1], None))'
  BY <1>1 DEF SentDrafts, Same
<1> QED BY <1>2, <1>3, <1>4, <1>5 DEF Same

\* A step that stores nothing and moves no save.
LEMMA OneSteady ==
  ASSUME TypesInv, OneDraft, Strict' <=> Strict, Shrinks, started' \in Nat,
         UNCHANGED <<chain, closing, sending, sent>>,
         editor'.msg = 0 \/ UNCHANGED <<editor.msg, draftId>>,
         opening' = None \/ opening' = opening,
         timer' = FALSE \/ timer' = timer \/ closing.pc = "idle",
         sending.pc = "idle" \/ (Shown' /\ toast' = NoToast /\ editor'.msg = editor.msg)
  PROVE  OneDraft'
<1>1. OnlysKept /\ (Single => Single')
  BY ShrinksOnly DEF OnlysKept
<1>2. Front' = Front /\ Len(chain') = Len(chain) /\ Same(closing', closing) /\ Same(sending', sending)
      /\ started <= started'
  BY ChainKept DEF Same, Shrinks
<1>3. Latests' /\ Current' /\ OpenedAlone' /\ Sends'
  BY <1>1, <1>2, LatestsKept, CurrentKept, OpenedAloneKept, SendsKept DEF OneDraft
<1>4. SentDrafts' /\ SentDone'
  BY <1>1, <1>2, SentKept DEF OneDraft
<1>5. InTurn'
  BY <1>2 DEF OneDraft, InTurn
<1> QED BY <1>1, <1>3, <1>4, <1>5 DEF OneDraft

\* What changes the editor leaves one draft each.
LEMMA OneEditor ==
  ASSUME TypesInv, TypesInv', Tidy, Strict' <=> Strict, OwnDrafts, OneDraft,
         \/ StartMessage \/ Expand \/ Attach \/ ClearCompose \/ OpenSaved
         \/ \E t \in TextsOf(editor.msg) \cup {Seed} : Type(t)
         \/ \E d \in Draft : EditDraft(d)
         \/ OpenDraftEditor \/ EditDraftFails
         \/ DiscardUnsaved \/ CloseWithoutFiles \/ DiscardSaved \/ ToastExpires
         \/ RequestComposeClose
  PROVE  OneDraft'
<1>a. started \in Nat /\ started' \in Nat /\ editor \in Editors /\ drafted \in Nat
  BY DEF TypesInv, TypeOK, Editors
<1>b. Calm /\ ~May("typeDuringClose") /\ ~May("staleToast")
  BY TidyMeans
<1>c. Quiet => sending.pc = "idle" /\ closing.pc = "idle" /\ chain = <<>>
  BY DEF Quiet
<1>d. ASSUME UNCHANGED chain PROVE Front' = Front /\ Len(chain') = Len(chain)
  BY <1>d, ChainKept
<1>e. Quiet => Front.pc \notin Begun /\ closing.pc \notin Begun /\ sending.pc \notin Begun
  BY ChainEmpty, TaskTypes DEF Quiet, TypesInv, Begun
<1>f. NoEditor.msg = 0
  BY DEF NoEditor
<1>g. toast # NoToast => sending.pc = "idle"
  BY DEF OneDraft, Sends
<1>1. ASSUME StartMessage \/ ClearCompose PROVE OneDraft'
  <2>1. /\ Quiet /\ opening = None /\ editor'.msg = started + 1 /\ draftId' = None /\ timer' = FALSE
        /\ started' = started + 1
        /\ UNCHANGED <<chain, closing, sending, opening, drafts, drafted, sent>>
    <3>1. CASE StartMessage
      BY <1>b, <3>1 DEF StartMessage, Calm, ApplySeed, Debounce, NoEditor, taskVars, serverVars
    <3>2. CASE ClearCompose
      BY <1>b, <3>2 DEF ClearCompose, Calm, Settled, NoEditor, taskVars, serverVars, OwnDrafts, Opened
    <3> QED BY <1>1, <3>1, <3>2
  <2>2. Shrinks
    BY <1>a, <2>1 DEF Shrinks
  <2>3. OnlysKept /\ Single' /\ Front' = Front
    BY <1>d, <2>1, <2>2, ShrinksOnly DEF OnlysKept, OneDraft
  <2>4. Latests' /\ OpenedAlone' /\ Sends' /\ SentDrafts' /\ SentDone'
    <3>1. Same(closing', closing) /\ Same(sending', sending)
      BY <2>1 DEF Same
    <3>2. sending.pc = "idle"
      BY <2>1, <1>c
    <3> QED BY <1>a, <1>e, <2>1, <2>3, <3>1, <3>2, LatestsKept, OpenedAloneKept, SendsKept, SentKept DEF OneDraft
  <2>5. Current'
    <3>1. ASSUME NEW e \in Draft, Stored(e)' PROVE drafts'[e].msg # started + 1
      <4>1. Stored(e) /\ drafts'[e] = drafts[e] /\ drafts[e].msg <= started
        BY <2>1, <3>1 DEF Stored, OwnDrafts, Numbers
      <4>2. drafts[e].msg \in Nat
        <5>1. drafts[e].msg \in Message
          BY <4>1 DEF Stored, TypesInv, TypeOK
        <5> QED BY <5>1, MessageIsNat
      <4> QED BY <4>1, <4>2, <1>a
    <3> QED BY <2>1, <3>1 DEF Current, OnlyDraft
  <2>6. InTurn'
    BY <1>c, <2>1, <2>3 DEF OneDraft, InTurn, Begun
  <2> QED BY <2>3, <2>4, <2>5, <2>6 DEF OneDraft
<1>2. ASSUME Expand \/ Attach \/ \E t \in TextsOf(editor.msg) \cup {Seed} : Type(t) PROVE OneDraft'
  <2>1. /\ UNCHANGED <<chain, closing, sending, sent, draftId, opening, drafts, drafted, toast, started>>
        /\ editor'.msg = editor.msg /\ Shown'
        /\ timer' = timer \/ closing.pc = "idle"
    <3>1. CASE Expand
      BY <1>a, <3>1 DEF Expand, Shown, Editors, taskVars, serverVars, userVars
    <3>2. ASSUME NEW t \in TextsOf(editor.msg) \cup {Seed}, Type(t)
          PROVE  /\ UNCHANGED <<chain, closing, sending, sent, draftId, opening, drafts, drafted, toast, started>>
                 /\ editor'.msg = editor.msg /\ Shown'
                 /\ closing.pc = "idle"
      BY <1>a, <1>b, <3>2 DEF Type, MayEdit, Shown, Editors, taskVars, serverVars
    <3>3. CASE Attach
      BY <1>a, <3>3 DEF Attach, MayEdit, Shown, Editors, taskVars, serverVars
    <3> QED BY <1>2, <3>1, <3>2, <3>3
  <2>2. Shrinks
    BY <2>1, Unshrunk
  <2>3. sending.pc = "idle" \/ (Shown' /\ toast' = NoToast /\ editor'.msg = editor.msg)
    BY <2>1 DEF OneDraft, Sends
  <2> QED BY <1>a, <2>1, <2>2, <2>3, OneSteady
<1>3. ASSUME NEW d \in Draft, FetchDraft(d) PROVE OneDraft'
  <2>1. Quiet /\ Stored(d) /\ opening' = [id |-> d, msg |-> drafts[d].msg, text |-> drafts[d].text]
        /\ UNCHANGED <<editorVars, chain, closing, sending, drafts, drafted, sent, started>>
    BY <1>b, <1>3 DEF Calm, FetchDraft, Settled, serverVars, userVars
  <2>2. OnlysKept /\ Single' /\ Front' = Front
    BY <1>d, <2>1, Unshrunk, ShrinksOnly DEF OnlysKept, OneDraft
  <2>3. Same(closing', closing) /\ Same(sending', sending)
    BY <2>1 DEF Same
  <2>4. sending.pc = "idle"
    BY <2>1, <1>c
  <2>5. opening'.msg = drafts[d].msg /\ opening'.id = d
    BY <2>1
  <2>6. Latests' /\ Current' /\ Sends'
    BY <2>1, <2>2, <2>3, <2>4, LatestsKept, CurrentKept, SendsKept DEF OneDraft, editorVars
  <2>7. OpenedAlone'
    BY <2>1, <2>5 DEF OneDraft, Single, OpenedAlone, OnlyDraft, Stored
  <2>8. SentDrafts'
    BY <2>1, <2>2 DEF OneDraft, SentDrafts, OnlysKept
  <2>9. SentDone'
    <3> SUFFICES ASSUME Strict, NEW s \in sent PROVE opening'.msg # s[1]
      BY <2>1, <2>2 DEF OneDraft, SentDone, editorVars
    <3>1. OnlyDraft(s[1], None)
      BY <2>4 DEF OneDraft, SentDrafts
    <3> QED BY <2>1, <2>5, <3>1, Constants DEF OnlyDraft
  <2>10. InTurn'
    BY <2>1, <2>2 DEF OneDraft, InTurn, editorVars
  <2> QED BY <2>2, <2>6, <2>7, <2>8, <2>9, <2>10 DEF OneDraft
<1>4. ASSUME OpenDraftEditor PROVE OneDraft'
  <2>1. /\ opening # None /\ Quiet /\ opening' = None
        /\ editor'.msg = opening.msg /\ draftId' = opening.id
        /\ UNCHANGED <<chain, closing, sending, toast, drafts, drafted, sent, started>>
    BY <1>4 DEF OpenDraftEditor, ApplySeed, serverVars, OwnDrafts, Opened
  <2>2. OnlysKept /\ Single' /\ Front' = Front
    BY <1>d, <2>1, Unshrunk, ShrinksOnly DEF OnlysKept, OneDraft
  <2>3. Same(closing', closing) /\ Same(sending', sending)
    BY <2>1 DEF Same
  <2>4. sending.pc = "idle"
    BY <2>1, <1>c
  <2>5. Latests' /\ Sends' /\ OpenedAlone'
    BY <2>1, <2>2, <2>3, <2>4, LatestsKept, SendsKept, OpenedAloneKept DEF OneDraft
  <2>6. Current'
    BY <2>1 DEF OneDraft, OpenedAlone, Current, OnlyDraft, Stored
  <2>7. SentDrafts'
    BY <2>1, <2>2 DEF OneDraft, SentDrafts, OnlysKept
  <2>8. SentDone'
    BY <2>1, <2>2 DEF OneDraft, SentDone
  <2>9. InTurn'
    BY <1>c, <2>1, <2>2 DEF OneDraft, InTurn
  <2> QED BY <2>2, <2>5, <2>6, <2>7, <2>8, <2>9 DEF OneDraft
<1>5. ASSUME EditDraftFails \/ ToastExpires PROVE OneDraft'
  <2>1. /\ UNCHANGED <<editorVars, chain, closing, sending, drafts, drafted, sent, started>>
        /\ opening' = opening \/ opening' = None
        /\ toast' = toast \/ toast' = NoToast
    BY <1>5 DEF EditDraftFails, ToastExpires, serverVars, userVars, taskVars
  <2>2. Shrinks
    BY <2>1, Unshrunk
  <2>3. sending.pc = "idle" \/ (Shown' /\ toast' = NoToast /\ editor'.msg = editor.msg)
    BY <2>1 DEF OneDraft, Sends, editorVars, Shown
  <2> QED BY <1>a, <2>1, <2>2, <2>3, OneSteady DEF editorVars
<1>6. ASSUME Dismiss, Shrinks, UNCHANGED <<chain, closing, sending, opening, started, sent>>, sending.pc = "idle"
      PROVE  OneDraft'
  BY <1>6, <1>a, <1>f, OneSteady DEF Dismiss
<1>7. ASSUME DiscardUnsaved PROVE OneDraft'
  <2>1. Shrinks
    BY <1>7, <1>a, DiscardEffect DEF DiscardUnsaved, Shrinks
  <2> QED BY <1>7, <1>g, <2>1, <1>6 DEF DiscardUnsaved, taskVars, NoToast
<1>8. ASSUME CloseWithoutFiles PROVE OneDraft'
  <2>1. Shrinks
    BY <1>8, Unshrunk DEF CloseWithoutFiles, serverVars, userVars
  <2> QED BY <1>8, <1>g, <2>1, <1>6 DEF CloseWithoutFiles, taskVars, NoToast, userVars, serverVars
<1>9. ASSUME DiscardSaved PROVE OneDraft'
  <2>1. /\ UNCHANGED <<editorVars, chain, closing, sending, opening, started, sent>>
        /\ Shrinks /\ toast # NoToast
    BY <1>9, <1>a, DiscardEffect DEF DiscardSaved, Shrinks, taskVars, NoToast
  <2> QED BY <1>a, <1>g, <2>1, OneSteady DEF editorVars
<1>10. ASSUME RequestComposeClose PROVE OneDraft'
  <2>0. sending.pc = "idle" /\ opening = None /\ Shown
    BY <1>10, <1>b DEF RequestComposeClose, Calm, OwnDrafts, Opened
  <2>1. CASE CloseUntouched
    <3>1. Shrinks
      BY <1>10, <2>1, <1>a, DiscardEffect DEF RequestComposeClose, CloseUntouched, Shrinks, userVars
    <3> QED BY <1>10, <2>0, <2>1, <3>1, <1>6 DEF RequestComposeClose, CloseUntouched, userVars
  <2>2. CASE CloseSaved
    <3>1. Shrinks
      BY <1>10, <2>2, Unshrunk DEF RequestComposeClose, CloseSaved, userVars
    <3> QED BY <1>10, <2>0, <2>2, <3>1, <1>6 DEF RequestComposeClose, CloseSaved, userVars
  <2>3. CASE CloseAfterSave
    <3>1. /\ UNCHANGED <<editor, draftId, chain, sending, opening, drafts, drafted, toast, started, sent>>
          /\ timer' = FALSE /\ closing'.pc = "settling" /\ closing'.ahead = Len(chain) /\ closing.pc = "idle"
      BY <1>10, <2>3 DEF RequestComposeClose, CloseAfterSave, Waiting, NoTask, userVars
    <3>2. OnlysKept /\ Single' /\ Front' = Front /\ Len(chain') = Len(chain)
      BY <1>d, <3>1, Unshrunk, ShrinksOnly DEF OnlysKept, OneDraft
    <3>3. Same(sending', sending)
      BY <3>1 DEF Same
    <3>4. Current' /\ Sends' /\ OpenedAlone' /\ SentDrafts' /\ SentDone'
      BY <1>a, <2>0, <3>1, <3>2, <3>3, CurrentKept, SendsKept, OpenedAloneKept, SentKept DEF OneDraft, Begun
    <3>5. Latests'
      <4>1. PICK f : f = Front
        OBVIOUS
      <4>2. Latest(f)'
        BY <3>2, <4>1 DEF OneDraft, Latests, Latest, OnlysKept
      <4> QED BY <3>1, <3>2, <4>1, <4>2 DEF Latests, Latest
    <3>6. InTurn'
      <4>1. Len(chain) \in Nat
        BY ChainEmpty DEF TypesInv
      <4> QED BY <2>0, <3>1, <3>2, <4>1 DEF InTurn, Begun
    <3> QED BY <3>2, <3>4, <3>5, <3>6 DEF OneDraft
  <2> QED BY <1>10, <2>1, <2>2, <2>3 DEF RequestComposeClose
<1>11. ASSUME OpenSaved PROVE OneDraft'
  <2>1. toast.id \in Draft
    BY <1>11 DEF OpenSaved, TypesInv, TypeOK, MaybeDraft
  <2> QED BY <1>11, <2>1, <1>3 DEF OpenSaved
<1>12. ASSUME NEW d \in Draft, EditDraft(d) PROVE OneDraft'
  BY <1>12, <1>3 DEF EditDraft
<1> QED BY <1>1, <1>2, <1>4, <1>5, <1>7, <1>8, <1>9, <1>10, <1>11, <1>12

\* An autosave leaves one draft each: it replaces the one before.
LEMMA OneAutosave ==
  ASSUME TypesInv, TypesInv', Tidy, Strict' <=> Strict, OwnDrafts, OneDraft,
         AutosaveFires \/ AutosaveStarts \/ AutosaveStored \/ AutosaveSucceeds \/ AutosaveFails
  PROVE  OneDraft'
<1>a. started \in Nat /\ Len(chain) \in Nat /\ closing \in Task /\ sending \in Task
  BY ChainEmpty DEF TypesInv, TypeOK
<1>b. ~May("lose")
  BY TidyMeans
<1>c. NoTask.pc \notin Begun /\ Queued.pc \notin Begun
  BY TaskTypes DEF Begun
<1>d. chain # <<>> => opening = None /\ closing.pc \notin Begun /\ sending.pc # "stored"
  BY DEF OwnDrafts, Opened, Quiet, OneDraft, InTurn
<1>1. ASSUME AutosaveFires PROVE OneDraft'
  <2>1. /\ UNCHANGED <<editor, draftId, closing, sending, opening, drafts, drafted, toast, started, sent>>
        /\ timer' = FALSE /\ timer
    BY <1>1 DEF AutosaveFires, serverVars, userVars
  <2>2. closing.pc = "idle" /\ sending.pc = "idle"
    BY <2>1 DEF OneDraft, InTurn, OwnDrafts, TimerStops
  <2>3. Front' = IF chain = <<>> THEN Queued ELSE Front
    BY <1>1, ChainFires DEF AutosaveFires, TypesInv, Queued
  <2>4. OnlysKept /\ Single'
    BY <2>1, Unshrunk, ShrinksOnly DEF OnlysKept, OneDraft
  <2>5. Same(closing', closing) /\ Same(sending', sending)
    BY <2>1 DEF Same
  <2>6. Latests' /\ OpenedAlone' /\ Sends'
    BY <1>c, <2>1, <2>2, <2>3, <2>4, <2>5, LatestsKept, OpenedAloneKept, SendsKept DEF OneDraft
  <2>7. Current'
    <3>1. chain = <<>> => Front.pc # "stored"
      BY ChainEmpty, TaskTypes DEF TypesInv
    <3> QED BY <1>c, <2>1, <2>2, <2>3, <2>4, <3>1, CurrentKept DEF OneDraft
  <2>8. SentDrafts' /\ SentDone'
    BY <1>a, <1>c, <2>1, <2>2, <2>3, <2>4, <2>5, SentKept DEF OneDraft, Begun
  <2>9. InTurn'
    BY <2>1, <2>2 DEF InTurn, Begun
  <2> QED BY <2>4, <2>6, <2>7, <2>8, <2>9 DEF OneDraft
<1>2. ASSUME chain # <<>>, AutosaveEnds,
             UNCHANGED <<editor, timer, opening, drafts, drafted, sent, toast, started>>
      PROVE  /\ OnlysKept /\ Single' /\ Latests' /\ OpenedAlone' /\ Sends' /\ SentDrafts' /\ SentDone' /\ InTurn'
             /\ Front'.pc \notin Begun /\ closing'.pc \notin Begun
  <2>1. /\ Front'.pc \notin Begun /\ Same(closing', closing) /\ Same(sending', sending)
        /\ Len(chain) # 0 /\ Len(chain') = Len(chain) - 1
        /\ closing'.ahead = IF closing.ahead > 0 THEN closing.ahead - 1 ELSE 0
        /\ sending'.ahead = IF sending.ahead > 0 THEN sending.ahead - 1 ELSE 0
    BY <1>2, EndsEffect DEF Begun
  <2>2. OnlysKept /\ Single'
    BY <1>2, Unshrunk, ShrinksOnly DEF OnlysKept, OneDraft
  <2>3. closing'.pc \notin Begun
    BY <1>2, <1>d, <2>1 DEF Same
  <2>4. Latests' /\ OpenedAlone' /\ SentDrafts' /\ SentDone'
    BY <1>2, <1>a, <2>1, <2>2, <2>3, LatestsKept, OpenedAloneKept, SentKept DEF OneDraft
  <2>5. Sends'
    <3>1. sending.pc = "idle" \/ (Shown' /\ toast' = NoToast /\ editor'.msg = editor.msg)
      BY <1>2 DEF OneDraft, Sends, Shown
    <3> QED BY <3>1, <2>1, <2>2, SendsKept DEF OneDraft
  <2>6. InTurn'
    <3>1. closing.ahead \in Nat /\ sending.ahead \in Nat
      BY <1>a DEF Task
    <3>2. closing.pc = "settling" => Len(chain') <= closing'.ahead
      BY <1>a, <2>1, <3>1 DEF OneDraft, InTurn
    <3>3. sending.pc = "settling" => Len(chain') <= sending'.ahead
      BY <1>a, <2>1, <3>1 DEF OneDraft, InTurn
    <3>4. sending'.pc # "stored"
      BY <1>2, <1>d, <2>1 DEF Same
    <3> QED BY <1>2, <2>1, <2>3, <3>2, <3>3, <3>4 DEF OneDraft, InTurn, Same
  <2> QED BY <2>1, <2>2, <2>3, <2>4, <2>5, <2>6
<1>3. ASSUME AutosaveFails PROVE OneDraft'
  <2>1. /\ chain # <<>> /\ AutosaveEnds /\ Front.pc # "stored"
        /\ UNCHANGED <<editor, timer, opening, drafts, drafted, sent, toast, started, draftId>>
    BY <1>b, <1>3, ChainEmpty DEF AutosaveFails, Fails, editorVars, serverVars, userVars, TypesInv
  <2>2. Current'
    BY <1>2, <1>d, <2>1, CurrentKept DEF OneDraft, Begun
  <2> QED BY <1>2, <2>1, <2>2 DEF OneDraft
<1>4. ASSUME AutosaveStarts PROVE OneDraft'
  <2>1. /\ chain # <<>> /\ Front.pc = "queued"
        /\ UNCHANGED <<editor, timer, opening, drafts, drafted, sent, toast, started, draftId>>
    BY <1>4, StartsEffect DEF AutosaveStarts, editorVars, serverVars, userVars
  <2>2. CASE AutosaveEnds
    <3>1. Current'
      BY <1>2, <1>d, <2>1, <2>2, CurrentKept DEF OneDraft, Begun
    <3> QED BY <1>2, <2>1, <2>2, <3>1 DEF OneDraft
  <2>3. CASE ~AutosaveEnds
    <3>1. /\ editor.msg # 0 /\ UNCHANGED <<closing, sending>>
          /\ chain' # <<>> /\ Len(chain') = Len(chain)
          /\ Front'.pc = "sealed" /\ Front'.msg = editor.msg /\ Front'.prev = draftId
      BY <1>4, <2>3, StartsEffect
    <3>2. OnlysKept /\ Single'
      BY <2>1, Unshrunk, ShrinksOnly DEF OnlysKept, OneDraft
    <3>3. Same(closing', closing) /\ Same(sending', sending)
      BY <3>1 DEF Same
    <3>4. OpenedAlone'
      BY <2>1, <3>2, OpenedAloneKept DEF OneDraft
    <3>5. Sends'
      <4>1. sending.pc = "idle" \/ (Shown' /\ toast' = NoToast /\ editor'.msg = editor.msg)
        BY <2>1 DEF OneDraft, Sends, Shown
      <4> QED BY <4>1, <3>2, <3>3, SendsKept DEF OneDraft
    <3>6. Current'
      BY <1>d, <2>1, <3>1, <3>2, CurrentKept DEF OneDraft, Begun
    <3>7. OnlyDraft(editor.msg, draftId)
      BY <1>d, <2>1, <3>1 DEF OneDraft, Current, Begun
    <3>8. Latests'
      <4>1. Latest(Front)'
        BY <2>1, <3>1, <3>7 DEF Latest, OnlyDraft, Stored
      <4>2. Latest(closing)'
        BY <1>d, <2>1, <3>1 DEF Latest, Begun
      <4> QED BY <4>1, <4>2 DEF Latests
    <3>9. SentDrafts'
      BY <2>1, <3>1, <3>2 DEF OneDraft, SentDrafts, OnlysKept
    <3>10. SentDone'
      BY <1>d, <2>1, <3>1 DEF OneDraft, SentDone
    <3>11. InTurn'
      BY <1>d, <2>1, <3>1 DEF OneDraft, InTurn
    <3> QED BY <3>2, <3>4, <3>5, <3>6, <3>8, <3>9, <3>10, <3>11 DEF OneDraft
  <2> QED BY <2>2, <2>3
<1>5. ASSUME AutosaveStored PROVE OneDraft'
  <2>1. /\ chain # <<>> /\ Front.pc = "sealed" /\ Front \in Task /\ Front.msg # 0 /\ StoreDraft(Front)
        /\ chain' # <<>> /\ Len(chain') = Len(chain)
        /\ Front'.pc = "stored" /\ Front'.msg = Front.msg
        /\ Front'.id = drafted + 1
    BY <1>5, StoredEffect
  <2>2. UNCHANGED <<editor, timer, draftId, closing, sending, opening, toast, started>>
    BY <1>5 DEF AutosaveStored, editorVars, userVars
  <2>3. OnlyDraft(Front.msg, Front.prev)
    BY <2>1 DEF OneDraft, Latests, Latest
  <2>4. PICK t \in Task : t = Front
    BY <2>1
  <2>5. /\ \A m, d : m # t.msg /\ OnlyDraft(m, d) => OnlyDraft(m, d)'
        /\ OnlyDraft(t.msg, drafted)'
        /\ Single' /\ sent' = sent
    BY <2>1, <2>3, <2>4, StoresOnly DEF OneDraft
  <2>6. drafted' = drafted + 1
    BY <2>1, StoreEffect
  <2>7. Latests'
    <3>1. Latest(Front)'
      BY <2>1, <2>4, <2>5, <2>6 DEF Latest, OnlyDraft
    <3>2. Latest(closing)'
      BY <1>d, <2>1, <2>2 DEF Latest, Begun
    <3> QED BY <3>1, <3>2 DEF Latests
  <2>8. Current' /\ OpenedAlone'
    BY <1>d, <2>1, <2>2 DEF Current, OpenedAlone
  <2>9. Sends'
    BY <1>d, <2>1, <2>2 DEF OneDraft, Sends, Shown
  <2>10. SentDrafts'
    <3> SUFFICES ASSUME Strict, NEW s \in sent PROVE OnlyDraft(s[1], None)'
      BY <2>5 DEF SentDrafts
    <3>1. OnlyDraft(s[1], None) /\ s[1] # t.msg
      BY <1>d, <2>1, <2>4 DEF OneDraft, SentDrafts, SentDone, Begun
    <3> QED BY <3>1, <2>5
  <2>11. SentDone'
    BY <2>1, <2>2, <2>5 DEF OneDraft, SentDone, Begun
  <2>12. InTurn'
    BY <1>d, <2>1, <2>2 DEF OneDraft, InTurn
  <2> QED BY <2>5, <2>7, <2>8, <2>9, <2>10, <2>11, <2>12 DEF OneDraft
<1>6. ASSUME AutosaveSucceeds PROVE OneDraft'
  <2>1. /\ chain # <<>> /\ Front.pc = "stored" /\ draftId' = Front.id /\ AutosaveEnds
        /\ UNCHANGED <<editor, timer, opening, drafts, drafted, sent, toast, started>>
    BY <1>6, ChainEmpty DEF AutosaveSucceeds, SaveSucceeds, TypesInv, serverVars, userVars
  <2>2. OnlyDraft(Front.msg, Front.id) /\ (editor.msg # 0 => Front.msg = editor.msg)
    BY <2>1 DEF OneDraft, Latests, Latest, OwnDrafts, Savers, SaverOK, Begun
  <2>3. Current'
    BY <2>1, <2>2 DEF Current, OnlyDraft, Stored
  <2> QED BY <1>2, <2>1, <2>3 DEF OneDraft
<1> QED BY <1>1, <1>3, <1>4, <1>5, <1>6

\* The end of a close leaves the editor the only draft of its message.
LEMMA OneFinish ==
  ASSUME TypesInv, Tidy, Strict' <=> Strict, OwnDrafts, OneDraft, NEW saved, FinishClose(saved), closing.pc # "idle",
         UNCHANGED <<chain, sending, opening, drafts, drafted, sent, started>>,
         IF editor' = NoEditor
         THEN timer' = FALSE
         ELSE timer' = timer
              /\ \/ draftId' = draftId /\ closing.pc # "stored"
                 \/ /\ draftId' = saved /\ Front.pc \notin Begun
                    /\ (editor.msg # 0 => OnlyDraft(editor.msg, saved))
  PROVE  OneDraft'
<1>a. started \in Nat
  BY DEF TypesInv, TypeOK
<1>1. /\ closing'.pc = "idle"
      /\ editor' = NoEditor \/ editor' = editor
  BY FinishEffect
<1>2. editor'.msg = 0 \/ editor'.msg = editor.msg
  BY <1>1 DEF NoEditor
<1>3. sending.pc = "idle" /\ opening = None
  BY DEF OneDraft, InTurn, OwnDrafts, Opened, Quiet
<1>4. OnlysKept /\ Single' /\ Front' = Front /\ Len(chain') = Len(chain)
  BY Unshrunk, ShrinksOnly, ChainKept DEF OnlysKept, OneDraft
<1>5. Same(sending', sending)
  BY DEF Same
<1>6. OpenedAlone' /\ Sends' /\ SentDrafts' /\ SentDone'
  BY <1>a, <1>1, <1>2, <1>3, <1>4, <1>5, OpenedAloneKept, SendsKept, SentKept DEF OneDraft, Begun
<1>7. Latests'
  <2>1. PICK f : f = Front
    OBVIOUS
  <2>2. Latest(f)'
    BY <1>4, <2>1 DEF OneDraft, Latests, Latest, OnlysKept
  <2> QED BY <1>1, <1>4, <2>1, <2>2 DEF Latests, Latest
<1>8. Current'
  <2>1. CASE editor' = NoEditor
    BY <2>1 DEF Current, NoEditor
  <2>2. CASE editor' = editor /\ draftId' = draftId /\ closing.pc # "stored"
    BY <1>1, <1>4, <2>2, CurrentKept DEF OneDraft
  <2>3. CASE editor' = editor /\ draftId' = saved /\ (editor.msg # 0 => OnlyDraft(editor.msg, saved))
    BY <2>3 DEF Current, OnlyDraft, Stored
  <2> QED BY <1>1, <2>1, <2>2, <2>3
<1>9. InTurn'
  BY <1>1, <1>3, <1>4 DEF OneDraft, InTurn, Begun
<1> QED BY <1>4, <1>6, <1>7, <1>8, <1>9 DEF OneDraft

\* A close leaves one draft each.
LEMMA OneClosing ==
  ASSUME TypesInv, TypesInv', Tidy, Strict' <=> Strict, OwnDrafts, OneDraft,
         CloseFlushes \/ CloseStored \/ CloseSucceeds \/ CloseFails
  PROVE  OneDraft'
<1>a. started \in Nat /\ Len(chain) \in Nat /\ closing \in Task /\ sending \in Task
  BY ChainEmpty DEF TypesInv, TypeOK
<1>b. ~May("lose")
  BY TidyMeans
<1>c. closing.pc # "idle" => opening = None /\ sending.pc = "idle" /\ ~timer
  BY DEF OwnDrafts, Opened, Quiet, OneDraft, InTurn
<1>d. chain = <<>> => Front.pc \notin Begun
  BY ChainEmpty, TaskTypes DEF TypesInv, Begun
<1>e. closing.pc \in Begun => chain = <<>> /\ Front.pc \notin Begun
  BY <1>d DEF OneDraft, InTurn
<1>1. ASSUME CloseFlushes PROVE OneDraft'
  <2>1. /\ UNCHANGED <<chain, sending, opening, drafts, drafted, sent, started>>
        /\ closing.pc = "settling" /\ closing.ahead = 0
    BY <1>1 DEF CloseFlushes, serverVars, userVars
  <2>2. CASE FinishClose(draftId) /\ KeepOrDismiss
    <3>1. PICK s : s = draftId
      OBVIOUS
    <3> QED BY <2>1, <2>2, <3>1, OneFinish DEF KeepOrDismiss
  <2>3. CASE ~NothingToSave /\ closing' = Capture(closing) /\ UNCHANGED <<editorVars, toast>>
    <3>1. editor.msg # 0
      BY <2>3, Constants DEF NothingToSave, HasUserContent, TypesInv
    <3>2. closing'.pc = "sealed" /\ closing'.msg = editor.msg /\ closing'.prev = draftId
      BY <1>a, <2>3 DEF Capture, Task
    <3>3. chain = <<>> /\ Front.pc \notin Begun
      <4>1. Len(chain) = 0
        BY <1>a, <2>1 DEF OneDraft, InTurn
      <4> QED BY <4>1, <1>d, ChainEmpty DEF TypesInv
    <3>4. OnlysKept /\ Single' /\ Front' = Front
      BY <2>1, Unshrunk, ShrinksOnly, ChainKept DEF OnlysKept, OneDraft
    <3>5. OnlyDraft(editor.msg, draftId)
      BY <2>1, <3>1, <3>3 DEF OneDraft, Current, Begun
    <3>6. Latests'
      BY <2>1, <2>3, <3>2, <3>3, <3>4, <3>5 DEF Latests, Latest, OnlyDraft, Stored, Begun, editorVars
    <3>7. Current'
      BY <2>1, <2>3, <3>5 DEF Current, OnlyDraft, Stored, editorVars
    <3>8. OpenedAlone' /\ Sends'
      BY <1>c, <2>1 DEF OpenedAlone, Sends
    <3>9. SentDrafts'
      BY <2>1, <3>4 DEF OneDraft, SentDrafts, OnlysKept
    <3>10. SentDone'
      BY <1>c, <2>1, <2>3, <3>2, <3>3, <3>4 DEF OneDraft, SentDone, editorVars
    <3>11. InTurn'
      BY <1>c, <2>1, <2>3, <3>2, <3>3 DEF InTurn, editorVars
    <3> QED BY <3>4, <3>6, <3>7, <3>8, <3>9, <3>10, <3>11 DEF OneDraft
  <2> QED BY <1>1, <2>2, <2>3 DEF CloseFlushes
<1>2. ASSUME CloseStored PROVE OneDraft'
  <2>1. /\ closing.pc = "sealed" /\ closing.msg # 0 /\ StoreDraft(closing)
        /\ UNCHANGED <<editor, timer, draftId, chain, sending, opening, toast, started>>
    BY <1>2 DEF CloseStored, editorVars, userVars, TypesInv, Begun
  <2>2. closing'.pc = "stored" /\ closing'.msg = closing.msg /\ closing'.id = drafted + 1
    BY <1>a, <1>2 DEF CloseStored, Task
  <2>3. OnlyDraft(closing.msg, closing.prev)
    BY <2>1 DEF OneDraft, Latests, Latest
  <2>4. PICK t \in Task : t = closing
    BY <1>a
  <2>5. /\ \A m, d : m # t.msg /\ OnlyDraft(m, d) => OnlyDraft(m, d)'
        /\ OnlyDraft(t.msg, drafted)'
        /\ Single' /\ sent' = sent
    BY <2>1, <2>3, <2>4, StoresOnly DEF OneDraft
  <2>6. drafted' = drafted + 1
    BY <1>a, <2>1, StoreEffect
  <2>7. chain = <<>> /\ Front' = Front /\ Front.pc \notin Begun
    BY <1>e, <2>1, ChainKept DEF Begun
  <2>8. Latests'
    BY <2>2, <2>4, <2>5, <2>6, <2>7 DEF Latests, Latest, OnlyDraft, Begun
  <2>9. Current' /\ OpenedAlone' /\ Sends'
    BY <1>c, <2>1, <2>2 DEF Current, OpenedAlone, Sends
  <2>10. SentDrafts'
    <3> SUFFICES ASSUME Strict, NEW s \in sent PROVE OnlyDraft(s[1], None)'
      BY <2>5 DEF SentDrafts
    <3>1. OnlyDraft(s[1], None) /\ s[1] # t.msg
      BY <1>c, <2>1, <2>4 DEF OneDraft, SentDrafts, SentDone, Begun
    <3> QED BY <3>1, <2>5
  <2>11. SentDone'
    BY <2>1, <2>2, <2>5, <2>7 DEF OneDraft, SentDone, Begun
  <2>12. InTurn'
    BY <1>c, <2>1, <2>2, <2>7 DEF InTurn
  <2> QED BY <2>5, <2>8, <2>9, <2>10, <2>11, <2>12 DEF OneDraft
<1>3. ASSUME CloseSucceeds PROVE OneDraft'
  <2>1. /\ closing.pc = "stored" /\ FinishClose(closing.id)
        /\ UNCHANGED <<chain, sending, opening, drafts, drafted, sent, started>>
    BY <1>3 DEF CloseSucceeds, serverVars, userVars
  <2>2. PICK s : s = closing.id
    OBVIOUS
  <2>3. editor.msg # 0 => OnlyDraft(editor.msg, s)
    BY <2>1, <2>2 DEF OneDraft, Latests, Latest, OwnDrafts, Savers, SaverOK, Begun
  <2>4. Front.pc \notin Begun
    BY <1>e, <2>1 DEF Begun
  <2> QED BY <1>3, <2>1, <2>2, <2>3, <2>4, OneFinish DEF CloseSucceeds, SaveSucceeds
<1>4. ASSUME CloseFails PROVE OneDraft'
  <2>1. /\ closing.pc = "sealed" /\ FinishClose(None) /\ KeepOrDismiss
        /\ UNCHANGED <<chain, sending, opening, drafts, drafted, sent, started>>
    BY <1>b, <1>4 DEF CloseFails, Fails, serverVars, userVars
  <2> QED BY <2>1, OneFinish DEF KeepOrDismiss
<1> QED BY <1>1, <1>2, <1>3, <1>4

\* A send leaves one draft each, and none of a message that is out.
LEMMA OneSending ==
  ASSUME TypesInv, TypesInv', Tidy, Strict' <=> Strict, OwnDrafts, OneDraft,
         SendMessage \/ SendQueued \/ SendSucceeds \/ SendFails
  PROVE  OneDraft'
<1>a. started \in Nat /\ Len(chain) \in Nat /\ closing \in Task /\ sending \in Task /\ editor \in Editors
      /\ (\A s \in sent : s[1] # 0)
  BY ChainEmpty, Constants DEF TypesInv, TypeOK, Editors
<1>b. Calm /\ ~May("lose") /\ ~May("staleToast")
  BY TidyMeans
<1>c. sending.pc # "idle" => closing.pc = "idle" /\ opening = None /\ ~timer
  BY DEF OwnDrafts, Opened, Quiet, TimerStops, OneDraft, InTurn
<1>1. ASSUME SendMessage PROVE OneDraft'
  <2>1. /\ UNCHANGED <<editor, draftId, chain, closing, opening, toast, drafts, drafted, sent, started>>
        /\ Shown /\ toast = NoToast /\ sending.pc = "idle" /\ closing.pc = "idle" /\ timer' = FALSE
    BY <1>1, <1>b DEF SendMessage, Undisturbed, Calm, serverVars, userVars
  <2>2. sending'.pc = "settling" /\ sending'.msg = editor.msg /\ sending'.ahead = Len(chain)
    BY <1>1 DEF SendMessage, Waiting, NoTask
  <2>3. OnlysKept /\ Single' /\ Front' = Front /\ Len(chain') = Len(chain)
    BY <2>1, Unshrunk, ShrinksOnly, ChainKept DEF OnlysKept, OneDraft
  <2>4. Same(closing', closing)
    BY <2>1 DEF Same
  <2>5. Latests' /\ Current' /\ OpenedAlone'
    BY <2>1, <2>3, <2>4, LatestsKept, CurrentKept, OpenedAloneKept DEF OneDraft
  <2>6. Sends'
    BY <2>1, <2>2 DEF Sends, Shown
  <2>7. SentDrafts'
    BY <2>1, <2>3 DEF OneDraft, SentDrafts, OnlysKept
  <2>8. SentDone'
    BY <2>1, <2>3 DEF OneDraft, SentDone
  <2>9. InTurn'
    BY <1>a, <2>1, <2>2, <2>3 DEF InTurn, Begun
  <2> QED BY <2>3, <2>5, <2>6, <2>7, <2>8, <2>9 DEF OneDraft
<1>2. ASSUME SendQueued PROVE OneDraft'
  <2>1. /\ UNCHANGED <<editor, draftId, timer, chain, closing, opening, toast, drafts, drafted, started>>
        /\ sending.pc = "settling" /\ sending.ahead = 0
        /\ sent' = sent \cup {<<sending.msg, sending.text>>}
    BY <1>2 DEF SendQueued, QueueMail, editorVars, userVars
  <2>2. /\ sending'.pc = "stored" /\ sending'.msg = sending.msg
        /\ sending'.prev = IF draftId # None THEN draftId ELSE sending.prev
    BY <1>2, <1>a DEF SendQueued, Task
  <2>3. chain = <<>> /\ Front.pc \notin Begun /\ closing.pc = "idle" /\ opening = None
    <3>1. Len(chain) = 0
      BY <1>a, <2>1 DEF OneDraft, InTurn
    <3> QED BY <3>1, <1>c, <2>1, ChainEmpty, TaskTypes DEF TypesInv, Begun
  <2>4. OnlysKept /\ Single' /\ Front' = Front
    BY <2>1, Unshrunk, ShrinksOnly, ChainKept DEF OnlysKept, OneDraft
  <2>5. Same(closing', closing)
    BY <2>1 DEF Same
  <2>6. Latests' /\ Current' /\ OpenedAlone'
    BY <2>1, <2>3, <2>4, <2>5, LatestsKept, CurrentKept, OpenedAloneKept DEF OneDraft
  <2>7. sending.msg = editor.msg /\ Shown /\ toast = NoToast
    BY <2>1 DEF OneDraft, Sends
  <2>8. editor.msg # 0 /\ editor.msg <= started
    BY <2>7, Constants DEF Shown, TypesInv, OwnDrafts, Held
  <2>9. OnlyDraft(editor.msg, draftId)
    BY <2>3, <2>8 DEF OneDraft, Current, Begun
  <2>10. Sends'
    <3>1. OnlyDraft(sending'.msg, sending'.prev)
      BY <2>2, <2>7, <2>9, Constants DEF OnlyDraft
    <3> QED BY <2>1, <2>2, <2>7, <3>1 DEF Sends, OnlyDraft, Shown, Stored
  <2>11. SentDrafts'
    <3> SUFFICES ASSUME Strict, NEW s \in sent', s \in sent
                 PROVE  ((sending.pc = "stored" /\ sending.msg = s[1]) \/ OnlyDraft(s[1], None))'
      BY <2>1, <2>2 DEF SentDrafts
    <3> QED BY <2>1, <2>4 DEF OneDraft, SentDrafts, OnlysKept
  <2>12. SentDone'
    BY <2>1, <2>2, <2>3, <2>4, <2>7, <2>8 DEF OneDraft, SentDone, Begun
  <2>13. InTurn'
    BY <2>1, <2>2, <2>3 DEF InTurn, Begun
  <2> QED BY <2>4, <2>6, <2>10, <2>11, <2>12, <2>13 DEF OneDraft
<1>3. ASSUME SendSucceeds PROVE OneDraft'
  <2>1. /\ UNCHANGED <<chain, closing, opening, drafted, toast, sent, started>>
        /\ sending'.pc = "idle" /\ sending.pc = "stored"
        /\ editor'.msg = 0 /\ timer' = FALSE
        /\ (drafts' = [d \in Draft |-> IF d = sending.prev THEN None ELSE drafts[d]]
             \/ (May("refuseDiscard") /\ drafts' = drafts))
    BY <1>3, <1>b DEF SendSucceeds, Dismiss, NoEditor, NoTask, userVars
  <2>2. OnlysKept /\ Single' /\ Front' = Front /\ closing.pc = "idle" /\ opening = None
    <3>1. Shrinks
      BY <1>a, <2>1, Unshrunk DEF Shrinks
    <3> QED BY <1>c, <2>1, <3>1, ShrinksOnly, ChainKept DEF OnlysKept, OneDraft
  <2>3. Same(closing', closing)
    BY <2>1 DEF Same
  <2>4. Latests' /\ Current' /\ OpenedAlone' /\ Sends'
    BY <2>1, <2>2, <2>3, LatestsKept DEF OneDraft, Current, OpenedAlone, Sends
  <2>5. OnlyDraft(sending.msg, sending.prev)
    BY <2>1 DEF OneDraft, Sends
  <2>6. SentDrafts'
    <3> SUFFICES ASSUME Strict, NEW s \in sent PROVE OnlyDraft(s[1], None)'
      BY <2>1 DEF SentDrafts
    <3>1. CASE sending.msg = s[1]
      BY <2>1, <2>5, <3>1, StrictMeans DEF OnlyDraft, Stored
    <3>2. CASE OnlyDraft(s[1], None)
      BY <2>2, <3>2 DEF OnlysKept
    <3> QED BY <3>1, <3>2 DEF OneDraft, SentDrafts
  <2>7. SentDone'
    BY <1>a, <2>1, <2>2 DEF OneDraft, SentDone
  <2>8. InTurn'
    BY <2>1, <2>2 DEF InTurn, Begun
  <2> QED BY <2>2, <2>4, <2>6, <2>7, <2>8 DEF OneDraft
<1>4. ASSUME SendFails PROVE OneDraft'
  <2>1. /\ UNCHANGED <<draftId, timer, chain, closing, opening, drafts, drafted, sent, toast, started>>
        /\ sending'.pc = "idle" /\ sending.pc = "settling" /\ editor'.msg = editor.msg
    BY <1>4, <1>a, <1>b DEF SendFails, NoTask, Editors, serverVars, userVars
  <2>2. OnlysKept /\ Single' /\ Front' = Front /\ closing.pc = "idle" /\ opening = None
    BY <1>c, <2>1, Unshrunk, ShrinksOnly, ChainKept DEF OnlysKept, OneDraft
  <2>3. Same(closing', closing)
    BY <2>1 DEF Same
  <2>4. Latests' /\ Current' /\ OpenedAlone' /\ Sends'
    BY <2>1, <2>2, <2>3, LatestsKept, CurrentKept DEF OneDraft, OpenedAlone, Sends
  <2>5. SentDrafts'
    BY <2>1, <2>2 DEF OneDraft, SentDrafts, OnlysKept
  <2>6. SentDone'
    BY <2>1, <2>2 DEF OneDraft, SentDone
  <2>7. InTurn'
    BY <2>1, <2>2 DEF InTurn, Begun
  <2> QED BY <2>2, <2>4, <2>5, <2>6, <2>7 DEF OneDraft
<1> QED BY <1>1, <1>2, <1>3, <1>4

\* Nothing is stored at the start.
LEMMA OneInit == Init => OneDraft
BY TaskTypes DEF Init, OneDraft, InTurn, Single, Latests, Latest, Current, OpenedAlone, Sends,
   SentDrafts, SentDone, Front, Stored, NoEditor, Begun

\* Every step of a tidy user leaves one draft each.
LEMMA OneNext ==
  ASSUME TypesInv, Tidy, OwnDrafts, OneDraft, [Next]_vars
  PROVE  OneDraft'
<1>1. TypesInv' /\ (Strict' <=> Strict)
  BY TypesNext, ScenarioKept DEF Strict, Only
<1>2. CASE Next
  BY <1>1, <1>2, OneEditor, OneAutosave, OneClosing, OneSending DEF Next, User, Program, Failure
<1>3. CASE UNCHANGED vars
  <2>1. Shrinks /\ started' \in Nat
    BY <1>3, Unshrunk DEF vars, serverVars, userVars, TypesInv, TypeOK
  <2>2. sending.pc = "idle" \/ (Shown' /\ toast' = NoToast /\ editor'.msg = editor.msg)
    BY <1>3 DEF vars, editorVars, OneDraft, Sends, Shown
  <2> QED BY <1>1, <1>3, <2>1, <2>2, OneSteady DEF vars, editorVars, taskVars, serverVars, userVars
<1> QED BY <1>2, <1>3

----------------------------------------------------------------------------
(* While the user waits for a save before typing on: nothing is lost *)

\* The user waits for a save before typing on, and only saves and discards may
\* fail.
Plain == Only({"attach", "replace", "refuseSave", "refuseDiscard"})

\* The latest text of a message need not be kept: it is empty, thrown away or
\* sent.
Safe(m) == latest[m] = Seed \/ m \in released \/ <<m, latest[m]>> \in sent
\* A text that is the latest of its message, unless that need not be kept.
Given(m, t) == t = latest[m] \/ Safe(m)
\* A draft that holds a text of a message.
Contains(d, m, t) == d \in Draft /\ Stored(d) /\ drafts[d].msg = m /\ drafts[d].text = t
\* The text is stored.
Holds(m, t) == \E d \in Draft : Contains(d, m, t)
\* No save has stored a draft the editor does not know of yet.
NoneStored == Front.pc # "stored" /\ closing.pc # "stored"

\* One autosave at a time is under way or will be, for what stands in the
\* editor; the editor may have been closed meanwhile if that was stored.
Pending ==
    /\ chain # <<>> => Len(chain) = 1 /\ ~timer
    /\ timer => Shown
    /\ (chain # <<>> \/ timer) /\ Shown => editor.text # Seed /\ toast = NoToast
    /\ chain # <<>> /\ closing.pc # "idle" => Shown /\ (IsDirty \/ editor.files = TRUE)

\* What a save has stored is there, and what it replaced is not.
Landed(t) ==
    t.pc = "stored" => Contains(t.id, t.msg, t.text) /\ (t.prev # None => ~Stored(t.prev))

\* So it is for the first autosave and the close.
Landeds == Landed(Front) /\ Landed(closing)

\* The editor shows the latest text of its message.
OnScreen == editor.msg # 0 => Shown /\ Given(editor.msg, editor.text)

\* No latest text is lost: what has to be proved.
Kept == \A m \in Message : Safe(m) \/ InEditor(m) \/ Holds(m, latest[m])

\* What the baseline holds is stored.
Clean ==
    /\ editor.msg # 0 /\ NoneStored /\ baseline # None =>
           baseline[1] = Seed \/ Holds(editor.msg, baseline[1])
    /\ baseline # None => baseline[2] = FALSE \/ editor.files = TRUE

\* A toast that offers to end a message stands while nothing is under way.
Toasts ==
    /\ toast # NoToast => opening = None
    /\ toast.kind = "saved" => editor.msg = 0
    /\ toast.kind \in {"files", "failed"} => Shown /\ Quiet /\ ~timer
    /\ toast.kind = "files" => editor.text = Seed \/ Holds(editor.msg, editor.text)

\* A message that was not started has no text.
Unstarted == \A m \in Message : m > started => latest[m] = Seed

\* The last save's draft before is gone, so the payload that names it is not
\* saved again.
Replaced == lastSaved # None => Upto(lastSaved[2]) /\ (lastSaved[2] # None => ~Stored(lastSaved[2]))

\* The draft the editor has is stored.
DraftStored == editor.msg # 0 /\ draftId # None /\ NoneStored => Stored(draftId)

\* A close saves what stands in the editor, as a draft that nothing refers to
\* yet.
ClosingText ==
    closing.pc \in Begun =>
        /\ closing.text # Seed /\ Given(closing.msg, closing.text)
        /\ editor.msg # 0 => editor.text = closing.text
        /\ closing.pc = "stored" => closing.id # draftId /\ closing.id # toast.id

\* So does an autosave.
FrontText ==
    Front.pc \in Begun =>
        /\ Given(Front.msg, Front.text)
        /\ editor.msg # 0 => editor.text = Front.text
        /\ Front.pc = "stored" => Front.id # draftId /\ Front.id # toast.id

\* A draft on its way to the editor holds the latest text.
OpeningText ==
    opening # None =>
        Contains(opening.id, opening.msg, opening.text) /\ Given(opening.msg, opening.text)

\* A send is of the text in the editor.
SendingText ==
    sending.pc # "idle" =>
        /\ sending.text = editor.text
        /\ Follows(sending.prev, sending.msg)
        /\ sending.pc = "stored" => <<sending.msg, sending.text>> \in sent

\* The part of the invariant about loss.
NoLoss ==
    /\ Pending /\ Landeds /\ OnScreen /\ Kept /\ Clean /\ Toasts /\ Replaced
    /\ Unstarted /\ DraftStored /\ ClosingText /\ FrontText /\ OpeningText /\ SendingText

\* What does not happen while the user waits.
LEMMA PlainMeans ==
  ASSUME Plain
  PROVE  /\ Tidy /\ Calm /\ ~May("typeDuringSave") /\ ~May("typeDuringClose") /\ ~May("staleToast")
         /\ ~May("refuseSend") /\ ~May("lose")
BY DEF Tidy, Calm, Plain, Only, May, Typing

\* What excludes what, as it follows from the parts of the invariant.
LEMMA PlainFacts ==
  ASSUME TypesInv, OwnDrafts, OneDraft, NoLoss
  PROVE  /\ Shown <=> editor.msg # 0
         /\ editor.msg = 0 => editor = NoEditor /\ editor.text = Seed /\ editor.files = FALSE
         /\ chain = <<>> => Front.pc \notin Begun
         /\ timer => Shown
         /\ (chain # <<>> \/ timer) /\ Shown => editor.text # Seed /\ toast = NoToast
         /\ chain # <<>> => closing.pc \notin Begun /\ sending.pc # "stored" /\ opening = None /\ ~timer
         /\ closing.pc \in Begun => sending.pc = "idle" /\ ~timer /\ opening = None
         /\ sending.pc # "idle" => closing.pc = "idle" /\ opening = None /\ ~timer
         /\ toast # NoToast => opening = None /\ sending.pc = "idle"
         /\ Quiet => Front.pc \notin Begun /\ closing.pc = "idle" /\ sending.pc = "idle" /\ chain = <<>>
         /\ started \in Nat /\ drafted \in Nat /\ editor \in Editors /\ closing \in Task /\ sending \in Task
<1>1. editor.msg = 0 => editor = NoEditor /\ editor.text = Seed /\ editor.files = FALSE /\ ~Shown
  BY Constants DEF TypesInv, Shown
<1>2. chain = <<>> => Front.pc \notin Begun
  BY ChainEmpty, TaskTypes DEF TypesInv, Begun
<1>3. (timer => Shown) /\ ((chain # <<>> \/ timer) /\ Shown => editor.text # Seed /\ toast = NoToast)
  BY DEF NoLoss, Pending
<1>4. chain # <<>> => closing.pc \notin Begun /\ sending.pc # "stored" /\ opening = None /\ ~timer
  BY DEF NoLoss, Pending, OneDraft, InTurn, OwnDrafts, Opened, Quiet
<1>5. closing.pc \in Begun => sending.pc = "idle" /\ ~timer /\ opening = None
  BY DEF OneDraft, InTurn, OwnDrafts, Opened, Quiet, Begun
<1>6. sending.pc # "idle" => closing.pc = "idle" /\ opening = None /\ ~timer
  BY DEF OneDraft, InTurn, OwnDrafts, Opened, Quiet, TimerStops
<1>7. toast # NoToast => opening = None /\ sending.pc = "idle"
  BY DEF NoLoss, Toasts, OneDraft, Sends
<1>8. Quiet => Front.pc \notin Begun /\ closing.pc = "idle" /\ sending.pc = "idle" /\ chain = <<>>
  BY <1>2 DEF Quiet
<1>9. started \in Nat /\ drafted \in Nat /\ editor \in Editors /\ closing \in Task /\ sending \in Task
  BY DEF TypesInv, TypeOK, Editors
<1>10. Shown <=> editor.msg # 0
  BY <1>1 DEF NoLoss, OnScreen
<1> QED BY <1>1, <1>2, <1>3, <1>4, <1>5, <1>6, <1>7, <1>8, <1>9, <1>10

\* A step that takes back neither a text, a release nor a mail.
Keeps == latest' = latest /\ released \subseteq released' /\ sent \subseteq sent'

\* A text that need not be kept, or is the latest, stays so.
LEMMA GivenKept ==
  ASSUME Keeps
  PROVE  (\A m : Safe(m) => Safe(m)') /\ (\A m, t : Given(m, t) => Given(m, t)')
BY DEF Keeps, Safe, Given

\* The same drafts hold the same texts.
LEMMA HoldsSame ==
  ASSUME drafts' = drafts
  PROVE  (\A d, m, t : Contains(d, m, t) <=> Contains(d, m, t)') /\ (\A m, t : Holds(m, t) <=> Holds(m, t)')
         /\ (\A d : Stored(d) <=> Stored(d)')
BY DEF Contains, Holds, Stored

\* What a save has stored is stored, as long as the drafts are the same.
LEMMA LandedsKept ==
  ASSUME Landeds, drafts' = drafts, Front' = Front \/ Front'.pc # "stored",
         Same(closing', closing) \/ closing'.pc # "stored"
  PROVE  Landeds'
<1>1. PICK f, c : f = Front /\ c = closing
  OBVIOUS
<1>2. Landed(f)' /\ Landed(c)'
  BY <1>1 DEF Landeds, Landed, Contains, Stored
<1>3. Landed(Front)'
  BY <1>1, <1>2 DEF Landed
<1>4. Landed(closing)'
  BY <1>1, <1>2 DEF Landed, Same
<1> QED BY <1>3, <1>4 DEF Landeds

(* Removing drafts of one message loses nothing if it needs none.           *)
LEMMA KeptKept ==
  ASSUME TypesInv, Kept, Keeps, NEW gone,
         \A d \in Draft : drafts'[d] = drafts[d] \/ (Safe(gone)' /\ (Stored(d) => drafts[d].msg = gone)),
         Shown => \/ Shown' /\ editor'.msg = editor.msg
                  \/ editor.msg = gone /\ Safe(gone)'
                  \/ Safe(editor.msg)
                  \/ Holds(editor.msg, latest[editor.msg])
  PROVE  Kept'
<1> SUFFICES ASSUME NEW m \in Message
             PROVE  Safe(m)' \/ InEditor(m)' \/ Holds(m, latest[m])'
  BY DEF Kept
<1>1. Safe(m) => Safe(m)'
  BY GivenKept
<1>2. Holds(m, latest[m]) => Safe(m)' \/ Holds(m, latest[m])'
  <2> SUFFICES ASSUME NEW d \in Draft, Contains(d, m, latest[m]) PROVE Safe(m)' \/ Contains(d, m, latest[m])'
    BY DEF Holds
  <2>1. Stored(d) /\ drafts[d].msg = m
    BY DEF Contains
  <2>2. CASE drafts'[d] = drafts[d]
    BY <2>2 DEF Contains, Stored, Keeps
  <2>3. CASE Safe(gone)' /\ (Stored(d) => drafts[d].msg = gone)
    BY <2>1, <2>3
  <2> QED BY <2>2, <2>3
<1>3. InEditor(m) => InEditor(m)' \/ Safe(m)' \/ Holds(m, latest[m])
  <2> SUFFICES ASSUME Shown, editor.msg = m, ~InEditor(m)' PROVE Safe(m)' \/ Holds(m, latest[m])
    BY DEF InEditor
  <2> QED BY <1>1 DEF InEditor
<1> QED BY <1>1, <1>2, <1>3 DEF Kept

\* A close saves the latest text, or one that need not be kept.
LEMMA ClosingKept ==
  ASSUME TypesInv, ClosingText, Keeps, closing'.pc \notin Begun \/ Same(closing', closing),
         editor'.msg = 0 \/ (editor'.msg = editor.msg /\ editor'.text = editor.text),
         draftId' = draftId \/ draftId' = None,
         toast'.id = toast.id \/ toast'.id = draftId \/ toast'.id = None
  PROVE  ClosingText'
<1>1. CASE closing'.pc \notin Begun
  BY <1>1 DEF ClosingText
<1>2. CASE Same(closing', closing) /\ closing.pc \in Begun
  <2>1. PICK m, t : m = closing.msg /\ t = closing.text
    OBVIOUS
  <2>2. Given(m, t)'
    BY <1>2, <2>1, GivenKept DEF ClosingText
  <2>3. Given(closing.msg, closing.text)'
    BY <1>2, <2>1, <2>2 DEF Given, Safe, Same
  <2>4. closing.pc = "stored" => closing.id # None
    BY DEF TypesInv
  <2> QED BY <1>2, <2>3, <2>4 DEF ClosingText, Same
<1> QED BY <1>1, <1>2 DEF Same

\* So does an autosave.
LEMMA FrontKept ==
  ASSUME TypesInv, Landeds, FrontText, Keeps, Front'.pc \notin Begun \/ Front' = Front,
         editor'.msg = 0 \/ (editor'.msg = editor.msg /\ editor'.text = editor.text),
         draftId' = draftId \/ draftId' = None,
         toast'.id = toast.id \/ toast'.id = draftId \/ toast'.id = None
  PROVE  FrontText'
<1>1. CASE Front'.pc \notin Begun
  BY <1>1 DEF FrontText
<1>2. CASE Front' = Front /\ Front.pc \in Begun
  <2>1. PICK m, t, d : m = Front.msg /\ t = Front.text /\ d = Front.id
    OBVIOUS
  <2>2. Given(m, t)'
    BY <1>2, <2>1, GivenKept DEF FrontText
  <2>3. Given(Front.msg, Front.text)'
    BY <1>2, <2>1, <2>2 DEF Given, Safe
  <2>4. Front.pc = "stored" => d # None /\ d # draftId /\ d # toast.id
    BY <1>2, <2>1, Constants DEF Landeds, Landed, Contains, FrontText
  <2> QED BY <1>2, <2>1, <2>3, <2>4 DEF FrontText
<1> QED BY <1>1, <1>2

\* A draft on its way to the editor is still what it was.
LEMMA OpeningKept ==
  ASSUME OpeningText, Keeps, opening' = None \/ (opening' = opening /\ drafts' = drafts)
  PROVE  OpeningText'
<1>1. CASE opening' = None
  BY <1>1 DEF OpeningText
<1>2. CASE opening' = opening /\ drafts' = drafts /\ opening # None
  <2>1. PICK d, m, t : d = opening.id /\ m = opening.msg /\ t = opening.text
    OBVIOUS
  <2>2. Given(m, t)' /\ Contains(d, m, t)'
    BY <1>2, <2>1, GivenKept, HoldsSame DEF OpeningText
  <2> QED BY <1>2, <2>1, <2>2 DEF OpeningText, Given, Safe, Contains, Stored
<1> QED BY <1>1, <1>2

\* The editor still shows the latest text.
LEMMA OnScreenKept ==
  ASSUME OnScreen, Keeps,
         editor'.msg = 0 \/ (editor'.msg = editor.msg /\ editor'.text = editor.text /\ (Shown => Shown'))
  PROVE  OnScreen'
<1>1. CASE editor'.msg = 0
  BY <1>1 DEF OnScreen
<1>2. CASE editor'.msg = editor.msg /\ editor'.text = editor.text /\ (Shown => Shown') /\ editor.msg # 0
  <2>1. PICK m, t : m = editor.msg /\ t = editor.text
    OBVIOUS
  <2>2. Given(m, t)' /\ Shown'
    BY <1>2, <2>1, GivenKept DEF OnScreen
  <2> QED BY <1>2, <2>1, <2>2 DEF OnScreen, Given, Safe
<1> QED BY <1>1, <1>2

\* What the baseline holds is still stored.
LEMMA CleanKept ==
  ASSUME Clean, drafts' = drafts, NoneStored' => NoneStored,
         \/ editor'.msg = 0 /\ baseline' = None
         \/ UNCHANGED <<editor.msg, baseline>> /\ (editor.files = TRUE => editor'.files = TRUE)
  PROVE  Clean'
<1>1. CASE editor'.msg = 0 /\ baseline' = None
  BY <1>1 DEF Clean
<1>2. CASE UNCHANGED <<editor.msg, baseline>> /\ (editor.files = TRUE => editor'.files = TRUE)
  <2>1. PICK m, t : m = editor.msg /\ t = baseline[1]
    OBVIOUS
  <2>2. Holds(m, t) => Holds(m, t)'
    BY HoldsSame
  <2> QED BY <1>2, <2>1, <2>2 DEF Clean, Holds, Contains, Stored
<1> QED BY <1>1, <1>2

\* The draft the editor has is still stored.
LEMMA DraftStoredKept ==
  ASSUME DraftStored, drafts' = drafts, NoneStored' => NoneStored,
         editor'.msg = 0 \/ UNCHANGED <<editor.msg, draftId>>
  PROVE  DraftStored'
BY DEF DraftStored, Stored

(* No step but a save stores a draft, so one that is gone stays gone.       *)
LEMMA ReplacedKept ==
  ASSUME TypesInv, Replaced, lastSaved' = lastSaved, Later, drafted' \in Nat
  PROVE  Replaced'
<1>1. lastSaved # None => lastSaved[2] \in MaybeDraft
  BY DEF TypesInv, TypeOK
<1>2. drafted \in Nat
  BY DEF TypesInv, TypeOK
<1>3. PICK d : d = lastSaved[2]
  OBVIOUS
<1>4. d \in MaybeDraft /\ Upto(d) => Upto(d)'
  BY LaterFollows
<1>5. Upto(d) /\ d # None /\ ~Stored(d) => ~Stored(d)'
  BY <1>2 DEF Later, Upto, Stored
<1> QED BY <1>1, <1>3, <1>4, <1>5 DEF Replaced, Upto, Stored

\* A send is still of the text in the editor.
LEMMA SendingKept ==
  ASSUME TypesInv, SendingText, Keeps, Later, drafted' \in Nat, Same(sending', sending),
         sending.pc = "idle" \/ editor'.text = editor.text
  PROVE  SendingText'
<1>1. PICK d, m : d = sending.prev /\ m = sending.msg
  OBVIOUS
<1>2. d \in MaybeDraft
  BY <1>1 DEF TypesInv, TypeOK, Task
<1>3. Follows(d, m) => Follows(d, m)'
  BY <1>2, LaterFollows
<1> QED BY <1>1, <1>3 DEF SendingText, Follows, Upto, Fits, Stored, Same, Keeps

\* A step that leaves the texts and the drafts alone loses nothing.
LEMMA LossSame ==
  ASSUME TypesInv, OwnDrafts, OneDraft, NoLoss, Keeps,
         UNCHANGED <<drafts, drafted, started, lastSaved, chain, baseline, draftId>>,
         UNCHANGED <<editor.msg, editor.text>>, editor.files = TRUE => editor'.files = TRUE,
         IsDirty => IsDirty', Shown' <=> Shown,
         timer' = timer \/ timer' = FALSE,
         OpeningText', opening' = None \/ opening' = opening \/ toast' = NoToast,
         Same(closing', closing) \/ (closing'.pc \notin Begun /\ closing.pc \notin Begun),
         Same(sending', sending),
         closing'.pc # "idle" => closing.pc # "idle" \/ (Shown /\ (IsDirty \/ editor.files = TRUE)),
         toast' = NoToast \/ (toast' = toast /\ UNCHANGED <<closing, sending>>)
  PROVE  NoLoss'
<1> USE DEF NoLoss
<1>1. Later /\ drafted' \in Nat
  BY Unshrunk, ShrinksLater
<1>2. Front' = Front /\ Len(chain') = Len(chain)
  BY ChainKept
<1>3. NoToast.id = None /\ NoToast.kind = "none"
  BY DEF NoToast
<1>4. Landeds' /\ OnScreen' /\ ClosingText' /\ OpeningText' /\ SendingText' /\ Replaced'
  <2>1. Landeds'
    BY <1>2, LandedsKept DEF Begun
  <2> QED BY <1>1, <1>3, <2>1, OnScreenKept, ClosingKept, SendingKept, ReplacedKept
<1>5. Clean' /\ DraftStored'
  <2>1. NoneStored' => NoneStored
    BY <1>2 DEF NoneStored, Same, Begun
  <2> QED BY <2>1, CleanKept, DraftStoredKept
<1>6. Kept'
  BY KeptKept
<1>7. Unstarted'
  BY DEF Unstarted, Keeps
<1>8. Pending' /\ FrontText'
  <2>1. Pending'
    BY <1>2 DEF Pending
  <2>2. FrontText'
    BY <1>2, <1>3, FrontKept
  <2> QED BY <2>1, <2>2
<1>9. Toasts'
  <2>1. CASE toast' = NoToast
    BY <1>3, <2>1 DEF Toasts
  <2>2. CASE toast' = toast /\ UNCHANGED <<closing, sending>>
    BY <2>2 DEF Toasts, Quiet, Holds, Contains, Stored
  <2> QED BY <2>1, <2>2
<1> QED BY <1>4, <1>5, <1>6, <1>7, <1>8, <1>9

\* A step that dismisses the editor loses nothing, if its text is stored or
\* need not be.
LEMMA LossDismiss ==
  ASSUME TypesInv, OwnDrafts, OneDraft, NoLoss, Keeps, Dismiss, NEW gone, gone = editor.msg,
         UNCHANGED <<drafted, started, chain>>, lastSaved' = lastSaved \/ Replaced',
         chain = <<>> \/ (drafts' = drafts /\ closing'.pc = "idle"), opening' = None, sending'.pc = "idle",
         \/ drafts' = drafts /\ (Shown => Safe(gone)' \/ Holds(gone, latest[gone]))
         \/ /\ closing.pc # "stored" /\ Safe(gone)'
            /\ \A d \in Draft : drafts'[d] = drafts[d]
                                \/ (drafts'[d] = None /\ (Stored(d) => drafts[d].msg = gone)),
         toast' = NoToast \/ toast'.kind \in {"none", "saved"},
         \/ closing'.pc = "idle" /\ chain = <<>>
         \/ closing' = closing /\ (toast'.id = toast.id \/ toast'.id = draftId \/ toast'.id = None)
  PROVE  NoLoss'
<1> USE DEF NoLoss
<1>0. editor'.msg = 0 /\ draftId' = None /\ baseline' = None /\ timer' = FALSE /\ ~Shown'
  BY DEF Dismiss, Shown, NoEditor
<1>1. NoToast.id = None /\ NoToast.kind = "none"
  BY DEF NoToast
<1>2. Front' = Front /\ (chain = <<>> => Front.pc \notin Begun) /\ chain' = chain
      /\ (closing'.pc = "idle" \/ Same(closing', closing))
  BY ChainKept, PlainFacts DEF Same
<1>3. Shrinks /\ Later /\ drafted' \in Nat
  <2>1. Shrinks
    BY Constants DEF Shrinks, TypesInv, TypeOK
  <2> QED BY <2>1, ShrinksLater
<1>4. Landeds'
  <2>1. CASE drafts' = drafts
    BY <1>2, <2>1, LandedsKept
  <2>2. CASE closing.pc # "stored" /\ drafts' # drafts
    <3>1. Front'.pc # "stored" /\ closing'.pc # "stored"
      BY <1>2, <2>2 DEF Begun, Same
    <3> QED BY <3>1 DEF Landeds, Landed
  <2> QED BY <2>1, <2>2
<1>5. OnScreen' /\ ClosingText' /\ Clean' /\ DraftStored' /\ Replaced'
  <2>1. OnScreen' /\ Clean' /\ DraftStored'
    BY <1>0 DEF OnScreen, Clean, DraftStored
  <2>2. ClosingText'
    <3>1. CASE closing'.pc = "idle"
      BY <3>1 DEF ClosingText, Begun
    <3> QED BY <1>0, <1>2, <3>1, ClosingKept
  <2> QED BY <1>3, <2>1, <2>2, ReplacedKept
<1>6. OpeningText' /\ SendingText'
  BY DEF OpeningText, SendingText
<1>7. Kept'
  <2>1. CASE drafts' = drafts /\ Safe(gone)'
    BY <2>1, KeptKept
  <2>2. CASE drafts' = drafts /\ (~Shown \/ Holds(gone, latest[gone]))
    BY <2>2, KeptKept
  <2>3. CASE /\ Safe(gone)'
             /\ \A d \in Draft : drafts'[d] = drafts[d]
                                 \/ (drafts'[d] = None /\ (Stored(d) => drafts[d].msg = gone))
    BY <2>3, KeptKept
  <2> QED BY <2>1, <2>2, <2>3
<1>8. Unstarted'
  BY DEF Unstarted, Keeps
<1>9. Pending' /\ FrontText'
  <2>1. Pending'
    BY <1>0, <1>2 DEF Pending
  <2>2. FrontText'
    <3>1. CASE chain = <<>>
      BY <1>2, <3>1 DEF FrontText
    <3> QED BY <1>0, <1>2, <3>1, FrontKept
  <2> QED BY <2>1, <2>2
<1>10. Toasts'
  BY <1>0, <1>1 DEF Toasts
<1> QED BY <1>4, <1>5, <1>6, <1>7, <1>8, <1>9, <1>10

(* A close that stops leaves the message in the editor.                     *)
LEMMA LossStays ==
  ASSUME TypesInv, OwnDrafts, OneDraft, NoLoss,
         UNCHANGED <<editorVars, lastSaved, chain, sending, opening, serverVars, userVars>>,
         closing'.pc = "idle", closing.pc \in {"settling", "sealed"}, chain = <<>>, Shown,
         toast'.kind = "failed" \/ (toast'.kind = "files" /\ editor.text = Seed)
  PROVE  NoLoss'
<1> USE DEF NoLoss, editorVars, serverVars, userVars
<1>1. opening = None /\ sending.pc = "idle" /\ ~timer
  BY DEF OwnDrafts, Opened, Quiet, OneDraft, InTurn
<1>2. Keeps /\ Later /\ drafted' \in Nat /\ Front' = Front
  BY Unshrunk, ShrinksLater, ChainKept DEF Keeps
<1>3. Landeds' /\ OnScreen' /\ OpeningText' /\ Replaced'
  <2>1. Landeds'
    BY <1>2, LandedsKept
  <2>2. OnScreen'
    BY <1>2, OnScreenKept DEF Shown
  <2>3. OpeningText'
    BY <1>2, OpeningKept
  <2>4. Replaced'
    BY <1>2, ReplacedKept
  <2> QED BY <2>1, <2>2, <2>3, <2>4
<1>4. Kept'
  BY <1>2, KeptKept DEF Shown
<1>5. Clean' /\ DraftStored'
  <2>1. NoneStored' => NoneStored
    BY <1>2 DEF NoneStored
  <2> QED BY <2>1, CleanKept, DraftStoredKept
<1>6. ClosingText' /\ SendingText' /\ Unstarted'
  BY <1>1 DEF ClosingText, SendingText, Unstarted, Begun
<1>7. Pending' /\ FrontText'
  BY <1>1, <1>2, PlainFacts DEF Pending, FrontText
<1>8. Toasts'
  BY <1>1 DEF Toasts, Quiet, Shown
<1> QED BY <1>3, <1>4, <1>5, <1>6, <1>7, <1>8

(* What the baseline says is stored is stored.                              *)
LEMMA CleanIsStored ==
  ASSUME TypesInv, OwnDrafts, OneDraft, NoLoss, ~IsDirty, Shown, editor.text # Seed
  PROVE  Holds(editor.msg, editor.text)
<1>1. editor.msg # 0
  BY PlainFacts
<1>2. baseline # None /\ baseline[1] = editor.text
  BY DEF IsDirty, Snapshot
<1>3. CASE NoneStored
  BY <1>1, <1>2, <1>3 DEF NoLoss, Clean
<1>4. CASE closing.pc = "stored"
  BY <1>1, <1>4 DEF NoLoss, Landeds, Landed, ClosingText, Holds, Contains, Begun, OwnDrafts, Savers, SaverOK
<1>5. CASE Front.pc = "stored"
  BY <1>1, <1>5 DEF NoLoss, Landeds, Landed, FrontText, Holds, Contains, Begun, OwnDrafts, Savers, SaverOK
<1> QED BY <1>3, <1>4, <1>5 DEF NoneStored

\* What changes the editor loses nothing.
LEMMA LossEditor ==
  ASSUME TypesInv, TypesInv', Plain, OwnDrafts, OneDraft, NoLoss,
         \/ StartMessage \/ Expand \/ Attach \/ ClearCompose \/ OpenSaved
         \/ \E t \in TextsOf(editor.msg) \cup {Seed} : Type(t)
         \/ \E d \in Draft : EditDraft(d)
         \/ OpenDraftEditor \/ EditDraftFails \/ ToastExpires
  PROVE  NoLoss'
<1> USE DEF NoLoss
<1>a. /\ Calm /\ ~May("typeDuringSave") /\ ~May("typeDuringClose") /\ ~May("staleToast")
      /\ started \in Nat /\ editor \in Editors
  BY PlainMeans, PlainFacts
<1>b. NoToast.id = None /\ NoToast.kind = "none"
  BY DEF NoToast
<1>c. Quiet => Front.pc \notin Begun /\ closing.pc = "idle" /\ sending.pc = "idle" /\ chain = <<>>
  BY PlainFacts
<1>d. Shown => opening = None
  BY DEF OwnDrafts, Opened
<1>1. ASSUME StartMessage \/ ClearCompose PROVE NoLoss'
  <2>1. /\ Quiet /\ opening = None /\ toast = NoToast /\ timer' = FALSE /\ draftId' = None
        /\ started' = started + 1 /\ editor'.msg = started + 1 /\ editor'.text = Seed /\ Shown'
        /\ (baseline' = None \/ baseline' = <<Seed, FALSE>>)
        /\ UNCHANGED <<lastSaved, chain, closing, sending, opening, toast, drafts, drafted, sent, latest>>
        /\ (~Shown \/ ~IsDirty \/ editor.msg \in released') /\ released \subseteq released'
    <3>1. CASE StartMessage
      BY <1>a, <3>1
      DEF StartMessage, Calm, Undisturbed, ApplySeed, Debounce, NoEditor, Shown, taskVars, serverVars
    <3>2. CASE ClearCompose
      BY <1>a, <1>d, <3>2 DEF ClearCompose, Calm, Settled, Undisturbed, NoEditor, Shown, taskVars, serverVars
    <3> QED BY <1>1, <3>1, <3>2
  <2>2. Keeps /\ Later /\ drafted' \in Nat /\ Front' = Front
    <3>1. Shrinks
      BY <1>a, <2>1 DEF Shrinks
    <3> QED BY <2>1, <3>1, ShrinksLater, ChainKept DEF Keeps
  <2>3. started + 1 \in Message
    BY <2>1 DEF StartMessage, TypesInv, TypeOK, Message
  <2>4. Landeds' /\ OpeningText' /\ Replaced'
    BY <1>c, <2>1, <2>2, LandedsKept, ReplacedKept DEF OpeningText, Same
  <2>5. OnScreen'
    <3>1. latest[started + 1] = Seed
      BY <1>a, <2>3 DEF Unstarted
    <3> QED BY <2>1, <3>1 DEF OnScreen, Given
  <2>6. Kept'
    <3>1. PICK g : g = editor.msg
      OBVIOUS
    <3>2. CASE Shown /\ editor.msg \in released'
      <4>1. Safe(g)'
        BY <3>1, <3>2 DEF Safe
      <4> QED BY <2>1, <2>2, <3>1, <4>1, KeptKept
    <3>3. CASE ~Shown
      BY <2>1, <2>2, <3>3, KeptKept
    <3>4. CASE Shown /\ ~IsDirty
      <4>1. editor.msg # 0 /\ (editor.text # Seed => Holds(g, editor.text))
        BY <3>1, <3>4, CleanIsStored, PlainFacts
      <4>2. Safe(g) \/ Holds(g, latest[g])
        BY <3>1, <4>1 DEF OnScreen, Given, Safe
      <4> QED BY <2>1, <2>2, <3>1, <4>2, KeptKept
    <3> QED BY <2>1, <3>2, <3>3, <3>4
  <2>7. Clean' /\ DraftStored' /\ ClosingText' /\ SendingText'
    <3>1. baseline' = None \/ (baseline'[1] = Seed /\ baseline'[2] = FALSE)
      <4>1. baseline' = None \/ baseline' = <<Seed, FALSE>>
        BY <2>1
      <4>2. <<Seed, FALSE>>[1] = Seed /\ <<Seed, FALSE>>[2] = FALSE
        OBVIOUS
      <4> HIDE DEF NoLoss
      <4>3. CASE baseline' = <<Seed, FALSE>>
        BY ONLY <4>2, <4>3
      <4> QED BY ONLY <4>1, <4>3
    <3>2. Clean' /\ DraftStored'
      BY <2>1, <3>1 DEF Clean, DraftStored
    <3>3. closing'.pc = "idle" /\ sending'.pc = "idle"
      BY <1>c, <2>1
    <3> QED BY <3>2, <3>3 DEF ClosingText, SendingText, Begun
  <2>8. Unstarted'
    BY <1>a, <2>1 DEF Unstarted, Message
  <2>9. Pending' /\ FrontText'
    BY <1>c, <2>1, <2>2 DEF Pending, FrontText
  <2>10. Toasts'
    BY <1>b, <2>1 DEF Toasts
  <2> QED BY <2>4, <2>5, <2>6, <2>7, <2>8, <2>9, <2>10
<1>2. ASSUME Expand \/ Attach PROVE NoLoss'
  <2>1. /\ UNCHANGED <<chain, closing, sending, sent, draftId, baseline, lastSaved, opening, drafts, drafted,
                       toast, started, latest, released, timer>>
        /\ editor'.msg = editor.msg /\ editor'.text = editor.text /\ Shown /\ Shown'
        /\ (editor'.files = editor.files \/ (editor.files = FALSE /\ editor'.files = TRUE))
    <3>1. CASE Expand
      BY <1>a, <3>1 DEF Expand, Shown, Editors, taskVars, serverVars, userVars
    <3>2. CASE Attach
      BY <1>a, <3>2 DEF Attach, MayEdit, Shown, Editors, taskVars, serverVars
    <3> QED BY <1>2, <3>1, <3>2
  <2>2. IsDirty => IsDirty'
    BY <2>1 DEF IsDirty, Snapshot, Clean
  <2>3. Keeps /\ Same(closing', closing) /\ Same(sending', sending)
    BY <2>1 DEF Keeps, Same
  <2>4. OpeningText'
    BY <2>1, <2>3, OpeningKept
  <2> QED BY <2>1, <2>2, <2>3, <2>4, LossSame
<1>3. ASSUME NEW t \in TextsOf(editor.msg) \cup {Seed}, Type(t) PROVE NoLoss'
  <2>1. /\ UNCHANGED <<chain, closing, sending, sent, draftId, baseline, lastSaved, opening, drafts, drafted,
                       toast, started, released>>
        /\ editor'.msg = editor.msg /\ editor'.text = t /\ editor'.files = editor.files /\ Shown /\ Shown'
        /\ latest' = [latest EXCEPT ![editor.msg] = t]
        /\ chain = <<>> /\ closing.pc = "idle" /\ sending.pc = "idle" /\ toast = NoToast
        /\ (timer' => t # Seed)
    BY <1>a, <1>3 DEF Type, Debounce, MayEdit, Undisturbed, Shown, Editors, taskVars, serverVars
  <2>2. editor.msg \in Message /\ latest \in [Message -> Text] /\ editor.msg <= started /\ opening = None
    BY <1>d, <2>1 DEF TypesInv, TypeOK, Shown, OwnDrafts, Held
  <2>3. latest'[editor.msg] = t /\ \A x \in Message : x # editor.msg => latest'[x] = latest[x]
    BY <2>1, <2>2
  <2>4. Front' = Front /\ Later /\ drafted' \in Nat /\ Front.pc \notin Begun
    BY <2>1, Unshrunk, ShrinksLater, ChainKept, PlainFacts
  <2>5. Landeds' /\ OpeningText' /\ Replaced' /\ ClosingText' /\ SendingText'
    BY <2>1, <2>2, <2>4, LandedsKept, ReplacedKept DEF OpeningText, ClosingText, SendingText, Same, Begun
  <2>6. OnScreen'
    BY <2>1, <2>3 DEF OnScreen, Given
  <2>7. Kept'
    <3> SUFFICES ASSUME NEW m \in Message, m # editor.msg
                 PROVE  Safe(m)' \/ InEditor(m)' \/ Holds(m, latest[m])'
      BY <2>1 DEF Kept, InEditor
    <3>1. Safe(m) \/ Holds(m, latest[m])
      BY DEF Kept, InEditor
    <3> QED BY <2>1, <2>3, <3>1 DEF Safe, Holds, Contains, Stored
  <2>8. Clean' /\ DraftStored'
    <3>1. NoneStored' => NoneStored
      BY <2>1, <2>4 DEF NoneStored
    <3> QED BY <2>1, <3>1, CleanKept, DraftStoredKept
  <2>9. Unstarted'
    <3> SUFFICES ASSUME NEW m \in Message, m > started PROVE latest'[m] = Seed
      BY <2>1 DEF Unstarted
    <3>1. m # editor.msg
      BY <1>a, <2>2, MessageIsNat
    <3> QED BY <2>3, <3>1 DEF Unstarted
  <2>10. Pending' /\ FrontText'
    <3>1. Front'.pc \notin Begun /\ chain' = <<>> /\ toast' = NoToast
      BY <2>1, <2>4
    <3> QED BY <2>1, <3>1 DEF Pending, FrontText
  <2>11. Toasts'
    BY <1>b, <2>1 DEF Toasts
  <2> QED BY <2>5, <2>6, <2>7, <2>8, <2>9, <2>10, <2>11
<1>4. ASSUME NEW d \in Draft, FetchDraft(d), toast' = NoToast PROVE NoLoss'
  <2>1. /\ Quiet /\ ~Shown /\ Stored(d) /\ opening' = [id |-> d, msg |-> drafts[d].msg, text |-> drafts[d].text]
        /\ UNCHANGED <<editorVars, chain, closing, sending, drafts, drafted, sent, lastSaved, started, latest, released>>
    BY <1>a, <1>4 DEF Calm, FetchDraft, Settled, serverVars, userVars
  <2>2. Keeps /\ Same(closing', closing) /\ Same(sending', sending)
    BY <2>1 DEF Keeps, Same
  <2>3. drafts[d].msg \in Message
    BY <2>1 DEF Stored, TypesInv, TypeOK
  <2>4. Given(drafts[d].msg, drafts[d].text)
    <3>1. CASE Safe(drafts[d].msg)
      BY <3>1 DEF Given
    <3>2. CASE Holds(drafts[d].msg, latest[drafts[d].msg])
      <4>1. PICK e \in Draft : Contains(e, drafts[d].msg, latest[drafts[d].msg])
        BY <3>2 DEF Holds
      <4>2. e = d
        BY <2>1, <4>1 DEF Contains, OneDraft, Single
      <4> QED BY <4>1, <4>2 DEF Contains, Given
    <3> QED BY <2>1, <2>3, <3>1, <3>2 DEF Kept, InEditor
  <2>5. OpeningText'
    <3>1. opening'.id = d /\ opening'.msg = drafts[d].msg /\ opening'.text = drafts[d].text
      BY <2>1
    <3> QED BY <2>1, <2>4, <3>1 DEF OpeningText, Contains, Stored, Given, Safe
  <2>6. IsDirty => IsDirty'
    BY <2>1 DEF IsDirty, Snapshot, editorVars
  <2> QED BY <1>4, <2>1, <2>2, <2>5, <2>6, LossSame DEF editorVars, Shown
<1>5. ASSUME OpenDraftEditor PROVE NoLoss'
  <2>1. /\ opening # None /\ Quiet /\ ~Shown /\ toast = NoToast
        /\ opening' = None /\ (timer' => opening.text # Seed) /\ draftId' = opening.id
        /\ editor'.msg = opening.msg /\ editor'.text = opening.text /\ Shown'
        /\ baseline' = <<opening.text, FALSE>>
        /\ UNCHANGED <<lastSaved, chain, closing, sending, toast, drafts, drafted, sent, started, latest, released>>
    BY <1>5 DEF OpenDraftEditor, ApplySeed, Debounce, Shown, serverVars, OwnDrafts, Opened, Toasts
  <2>2. Contains(opening.id, opening.msg, opening.text) /\ Given(opening.msg, opening.text)
    BY <2>1 DEF OpeningText
  <2>3. Keeps /\ Later /\ drafted' \in Nat /\ Front' = Front
    BY <2>1, Unshrunk, ShrinksLater, ChainKept DEF Keeps
  <2>4. Landeds' /\ Replaced' /\ OpeningText'
    BY <2>1, <2>3, LandedsKept, ReplacedKept DEF OpeningText, Same
  <2>5. OnScreen'
    BY <2>1, <2>2 DEF OnScreen, Given, Safe
  <2>6. Kept'
    BY <2>1, <2>3, KeptKept
  <2>7. Clean' /\ DraftStored'
    BY <2>1, <2>2 DEF Clean, DraftStored, Holds, Contains, Stored
  <2>8. ClosingText' /\ SendingText'
    BY <1>c, <2>1 DEF ClosingText, SendingText, Begun
  <2>9. Unstarted'
    BY <2>1 DEF Unstarted
  <2>10. Pending' /\ FrontText'
    BY <1>c, <2>1, <2>3 DEF Pending, FrontText
  <2>11. Toasts'
    BY <1>b, <2>1 DEF Toasts
  <2> QED BY <2>4, <2>5, <2>6, <2>7, <2>8, <2>9, <2>10, <2>11
<1>6. ASSUME EditDraftFails \/ ToastExpires PROVE NoLoss'
  <2>1. /\ UNCHANGED <<editorVars, chain, closing, sending, drafts, drafted, sent, lastSaved, started, latest, released>>
        /\ opening' = opening \/ opening' = None
        /\ toast' = toast \/ toast' = NoToast
    BY <1>6 DEF EditDraftFails, ToastExpires, serverVars, userVars, taskVars
  <2>2. Keeps /\ Same(closing', closing) /\ Same(sending', sending)
    BY <2>1 DEF Keeps, Same
  <2>3. OpeningText' /\ (IsDirty => IsDirty')
    BY <2>1, <2>2, OpeningKept DEF IsDirty, Snapshot, editorVars
  <2> QED BY <2>1, <2>2, <2>3, LossSame DEF editorVars, Shown
<1>7. ASSUME OpenSaved PROVE NoLoss'
  <2>1. toast.id \in Draft
    BY <1>7 DEF OpenSaved, TypesInv, TypeOK, MaybeDraft
  <2> QED BY <1>7, <2>1, <1>4 DEF OpenSaved
<1>8. ASSUME NEW d \in Draft, EditDraft(d) PROVE NoLoss'
  BY <1>8, <1>4, <1>a DEF EditDraft, Undisturbed
<1> QED BY <1>1, <1>2, <1>3, <1>5, <1>6, <1>7, <1>8

(* The user closes the message, or answers the toast of a closed one.       *)
LEMMA LossRequest ==
  ASSUME TypesInv, TypesInv', Plain, OwnDrafts, OneDraft, NoLoss,
         RequestComposeClose \/ DiscardUnsaved \/ CloseWithoutFiles
  PROVE  NoLoss'
<1> USE DEF NoLoss
<1>a. Calm /\ ~May("staleToast") /\ editor \in Editors /\ editor.msg \in Message \cup {0}
  BY PlainMeans, PlainFacts DEF Editors
<1>b. NoToast.id = None /\ NoToast.kind = "none"
  BY DEF NoToast
<1>c. Shown => opening = None
  BY DEF OwnDrafts, Opened
<1>d. PICK g : g = editor.msg
  OBVIOUS
<1>e. ASSUME NEW d, Discard(d), d = draftId \/ d \notin Draft
      PROVE  \A e \in Draft : drafts'[e] = drafts[e]
                              \/ (drafts'[e] = None /\ (editor.msg # 0 /\ Stored(e) => drafts[e].msg = g))
  <2> SUFFICES ASSUME NEW e \in Draft, drafts'[e] # drafts[e], editor.msg # 0, Stored(e)
               PROVE  drafts'[e] = None /\ drafts[e].msg = g
    BY <1>e, DiscardEffect
  <2>1. e = d /\ drafts'[e] = None
    BY <1>e, DiscardEffect
  <2> QED BY <1>d, <1>e, <2>1, Constants DEF OwnDrafts, Held, Fits
<1>1. ASSUME RequestComposeClose PROVE NoLoss'
  <2>1. /\ Shown /\ toast = NoToast /\ sending.pc = "idle" /\ opening = None /\ editor.msg # 0
        /\ UNCHANGED <<lastSaved, chain, sending, opening, drafted, sent, latest, released, started>>
    BY <1>1, <1>a, <1>c, PlainFacts DEF RequestComposeClose, Undisturbed, Calm, userVars
  <2>2. Keeps
    BY <2>1 DEF Keeps
  <2>3. CASE CloseUntouched
    <3>1. editor.text = Seed /\ Dismiss /\ closing' = closing /\ toast' = toast
      BY <2>3 DEF CloseUntouched, HasUserContent
    <3>2. chain = <<>> /\ closing.pc \notin Begun
      BY <2>1, <3>1, PlainFacts DEF ClosingText
    <3>3. Safe(g)'
      <4>1. Safe(g)
        BY <1>d, <2>1, <3>1 DEF OnScreen, Given, Safe
      <4> QED BY <2>2, <4>1, GivenKept
    <3>4. \A e \in Draft : drafts'[e] = drafts[e] \/ (drafts'[e] = None /\ (Stored(e) => drafts[e].msg = g))
      BY <1>e, <2>1, <2>3, Constants DEF CloseUntouched
    <3> QED BY <1>b, <1>d, <2>1, <2>2, <3>1, <3>2, <3>3, <3>4, LossDismiss DEF Begun
  <2>4. CASE CloseSaved
    <3>1. /\ editor.text # Seed /\ ~IsDirty /\ Dismiss /\ closing' = closing /\ drafts' = drafts
          /\ (toast' = toast \/ (toast'.kind = "saved" /\ toast'.id = draftId))
      BY <2>4 DEF CloseSaved, HasUserContent
    <3>2. Holds(editor.msg, editor.text)
      BY <2>1, <3>1, CleanIsStored
    <3>4. chain = <<>> \/ closing.pc = "idle"
      BY <2>4, <3>1 DEF CloseSaved, Pending
    <3>3. Safe(g)' \/ Holds(g, latest[g])
      <4>1. CASE Safe(g)
        BY <2>2, <4>1, GivenKept
      <4>2. CASE editor.text = latest[g]
        BY <1>d, <3>2, <4>2
      <4> QED BY <1>d, <2>1, <4>1, <4>2 DEF OnScreen, Given
    <3> QED BY <1>b, <1>d, <2>1, <2>2, <3>1, <3>3, <3>4, LossDismiss
  <2>5. CASE CloseAfterSave
    <3>1. /\ UNCHANGED <<editor, draftId, baseline, toast, drafts>> /\ timer' = FALSE
          /\ closing.pc = "idle" /\ closing'.pc = "settling"
      BY <2>5 DEF CloseAfterSave, Waiting, NoTask
    <3>2. OpeningText'
      BY <2>1 DEF OpeningText
    <3>3. IsDirty => IsDirty'
      BY <3>1 DEF IsDirty, Snapshot
    <3>4. Same(sending', sending) /\ (Shown' <=> Shown) /\ closing.pc \notin Begun /\ closing'.pc \notin Begun
      BY <2>1, <3>1 DEF Same, Shown, Begun
    <3>5. IsDirty \/ editor.files = TRUE
      BY <2>5 DEF CloseAfterSave, TypesInv, TypeOK
    <3> QED BY <2>1, <2>2, <3>1, <3>2, <3>3, <3>4, <3>5, LossSame
  <2> QED BY <1>1, <2>3, <2>4, <2>5 DEF RequestComposeClose
<1>2. ASSUME DiscardUnsaved PROVE NoLoss'
  <2>1. /\ toast.kind = "failed" /\ Discard(draftId) /\ Dismiss /\ toast' = NoToast
        /\ UNCHANGED <<lastSaved, chain, closing, sending, opening, drafted, sent, started, latest>>
        /\ released' = IF Shown THEN released \cup {editor.msg} ELSE released
    BY <1>2 DEF DiscardUnsaved, taskVars
  <2>2. Shown /\ Quiet /\ opening = None /\ editor.msg # 0
    BY <1>c, <2>1, PlainFacts DEF Toasts
  <2>3. Keeps /\ Safe(g)'
    BY <1>d, <2>1, <2>2 DEF Keeps, Safe
  <2>4. \A e \in Draft : drafts'[e] = drafts[e] \/ (drafts'[e] = None /\ (Stored(e) => drafts[e].msg = g))
    BY <1>e, <2>1, <2>2
  <2> QED BY <1>d, <2>1, <2>2, <2>3, <2>4, <1>b, LossDismiss DEF Quiet
<1>3. ASSUME CloseWithoutFiles PROVE NoLoss'
  <2>1. /\ toast.kind = "files" /\ Dismiss
        /\ (toast' = NoToast \/ (toast'.kind = "saved" /\ toast'.id = toast.id))
        /\ UNCHANGED <<lastSaved, chain, closing, sending, opening, drafts, drafted, sent, started, latest, released>>
    BY <1>3 DEF CloseWithoutFiles, taskVars, serverVars, userVars
  <2>2. Shown /\ Quiet /\ opening = None /\ editor.msg # 0
    BY <1>c, <2>1, PlainFacts DEF Toasts
  <2>3. Keeps
    BY <2>1 DEF Keeps
  <2>4. Safe(g)' \/ Holds(g, latest[g])
    <3>1. Safe(g) => Safe(g)'
      BY <2>3, GivenKept
    <3>2. editor.text = Seed \/ Holds(g, editor.text)
      BY <1>d, <2>1 DEF Toasts
    <3>3. editor.text = latest[g] \/ Safe(g)
      BY <1>d, <2>2 DEF OnScreen, Given
    <3> QED BY <3>1, <3>2, <3>3 DEF Safe
  <2> QED BY <1>b, <1>d, <2>1, <2>2, <2>3, <2>4, LossDismiss DEF Quiet
<1> QED BY <1>1, <1>2, <1>3

(* The draft the toast offers is no one else's.                             *)
LEMMA LossDiscard ==
  ASSUME TypesInv, TypesInv', OwnDrafts, OneDraft, NoLoss, DiscardSaved
  PROVE  NoLoss'
<1> USE DEF NoLoss
<1>1. /\ toast.kind = "saved" /\ Discard(toast.id) /\ toast' = NoToast
      /\ UNCHANGED <<editor, draftId, baseline, timer, lastSaved, chain, closing, sending, opening, drafted,
                     sent, started, latest>>
      /\ released' = IF Stored(toast.id) THEN released \cup {drafts[toast.id].msg} ELSE released
  BY DEF DiscardSaved, editorVars, taskVars
<1>2. editor.msg = 0 /\ opening = None /\ ~timer /\ sending.pc = "idle" /\ ~Shown
  <2>1. editor.msg = 0 /\ toast # NoToast
    BY <1>1 DEF Toasts, NoToast
  <2> QED BY <2>1, PlainFacts
<1>3. NoToast.id = None /\ NoToast.kind = "none"
  BY DEF NoToast
<1>4. PICK d, g : d = toast.id /\ g = drafts[d].msg
  OBVIOUS
<1>5. (\A e \in Draft : drafts'[e] = drafts[e] \/ (e = d /\ drafts'[e] = None)) /\ d # None
  BY <1>1, <1>4, DiscardEffect DEF TypesInv
<1>6. Keeps /\ Shrinks
  <2>1. Shrinks
    BY <1>1, <1>5 DEF Shrinks, TypesInv, TypeOK
  <2> QED BY <1>1, <2>1 DEF Keeps
<1>7. Later /\ drafted' \in Nat /\ Front' = Front /\ Same(closing', closing) /\ Same(sending', sending)
  BY <1>1, <1>6, ShrinksLater, ChainKept DEF Same
<1>8. Landeds'
  <2>1. ASSUME NEW c \in Task, Landed(c), c.pc = "stored" => c.id # d PROVE Landed(c)'
    <3>1. c.pc = "stored" => Contains(c.id, c.msg, c.text)'
      BY <1>5, <2>1 DEF Landed, Contains, Stored
    <3>2. c.pc = "stored" /\ c.prev # None => ~Stored(c.prev)'
      BY <1>5, <2>1 DEF Landed, Stored, MaybeDraft, Task
    <3> QED BY <3>1, <3>2 DEF Landed
  <2>2. PICK c, f : c = closing /\ f = Front
    OBVIOUS
  <2>3. c \in Task /\ f \in Task /\ Landed(c) /\ Landed(f)
    BY <2>2, ChainEmpty DEF TypesInv, TypeOK, Landeds
  <2>4. (c.pc = "stored" => c.id # d) /\ (f.pc = "stored" => f.id # d)
    BY <1>4, <2>2 DEF ClosingText, FrontText, Begun
  <2>5. Landed(c)' /\ Landed(f)'
    BY <2>1, <2>3, <2>4
  <2> QED BY <1>1, <1>7, <2>2, <2>5 DEF Landeds, Landed
<1>9. Kept'
  <2>1. Stored(d) => Safe(g)'
    BY <1>1, <1>4 DEF Safe
  <2>2. \A e \in Draft : drafts'[e] = drafts[e] \/ (Safe(g)' /\ (Stored(e) => drafts[e].msg = g))
    BY <1>4, <1>5, <2>1 DEF Stored
  <2> QED BY <1>2, <1>6, <2>2, KeptKept
<1>10. OnScreen' /\ Clean' /\ DraftStored' /\ Unstarted'
  BY <1>1, <1>2 DEF OnScreen, Clean, DraftStored, Unstarted
<1>11. ClosingText' /\ FrontText'
  BY <1>1, <1>2, <1>3, <1>6, <1>7, ClosingKept, FrontKept
<1>12. Replaced'
  BY <1>1, <1>7, ReplacedKept
<1>13. OpeningText' /\ SendingText'
  BY <1>1, <1>2 DEF OpeningText, SendingText
<1>14. Pending'
  BY <1>1, <1>2, <1>7 DEF Pending, Shown
<1>15. Toasts'
  BY <1>1, <1>3 DEF Toasts
<1> QED BY <1>8, <1>9, <1>10, <1>11, <1>12, <1>13, <1>14, <1>15

(* A save stores the text it captured, and takes away a draft of the same   *)
(* message at most.                                                         *)
LEMMA StoresHold ==
  ASSUME TypesInv, Numbers, Kept, NEW t \in Task, t.msg # 0, StoreDraft(t), Follows(t.prev, t.msg),
         Given(t.msg, t.text), UNCHANGED <<editor, latest, released, started>>
  PROVE  /\ \E n \in Draft : n = drafted + 1 /\ Contains(n, t.msg, t.text)'
         /\ t.prev # None => ~Stored(t.prev)'
         /\ Kept' /\ Keeps /\ Later /\ drafted' \in Nat /\ drafted \in Nat
<1>1. /\ drafted' = drafted + 1 /\ drafted + 1 \in Draft /\ sent' = sent
      /\ drafts'[drafted + 1] = [msg |-> t.msg, text |-> t.text]
      /\ drafts'[drafted + 1] # None
      /\ \A d \in Draft : d # drafted + 1 => drafts'[d] = IF d = t.prev THEN None ELSE drafts[d]
  BY StoreEffect
<1>2. Later /\ drafted' \in Nat /\ Keeps /\ drafted \in Nat
  BY <1>1, LaterStores DEF Keeps, TypesInv, TypeOK
<1>3. PICK n \in Draft : n = drafted + 1
  BY <1>1
<1>4. Contains(n, t.msg, t.text)'
  BY <1>1, <1>3 DEF Contains, Stored
<1>5. t.prev # None => ~Stored(t.prev)'
  <2> SUFFICES ASSUME t.prev # None PROVE drafts'[t.prev] = None
    BY DEF Stored
  <2>1. t.prev \in 1 .. drafted
    BY DEF Follows, Upto
  <2>2. t.prev \in Draft /\ t.prev # drafted + 1
    <3>1. t.prev \in MaybeDraft
      BY DEF Task
    <3> QED BY <1>2, <2>1, <3>1 DEF MaybeDraft
  <2> QED BY <1>1, <2>2
<1>6. Kept'
  <2> SUFFICES ASSUME NEW m \in Message
               PROVE  Safe(m)' \/ InEditor(m)' \/ Holds(m, latest[m])'
    BY DEF Kept
  <2>1. (Safe(m) => Safe(m)') /\ (InEditor(m) => InEditor(m)')
    BY <1>2, GivenKept DEF InEditor, Shown
  <2>2. ASSUME m = t.msg PROVE Safe(m)' \/ Holds(m, latest[m])'
    <3>1. CASE t.text = latest[m]
      BY <1>2, <1>4, <2>2, <3>1 DEF Holds, Contains, Stored, Keeps
    <3> QED BY <2>1, <2>2, <3>1 DEF Given
  <2>3. ASSUME m # t.msg, NEW d \in Draft, Contains(d, m, latest[m]) PROVE Holds(m, latest[m])'
    <3>1. Stored(d) /\ drafts[d].msg = m
      BY <2>3 DEF Contains
    <3>2. d # t.prev
      BY <2>3, <3>1, Constants DEF Follows, Fits
    <3>3. d # drafted + 1
      BY <1>2, <3>1 DEF Numbers
    <3> QED BY <1>1, <1>2, <2>3, <3>2, <3>3 DEF Holds, Contains, Stored, Keeps
  <2> QED BY <2>1, <2>2, <2>3 DEF Kept, Holds
<1> QED BY <1>2, <1>3, <1>4, <1>5, <1>6

(* A close that dismisses the editor: what it held is stored or empty.      *)
LEMMA LossCloses ==
  ASSUME TypesInv, OwnDrafts, OneDraft, NoLoss, Dismiss, chain = <<>>, closing.pc # "idle",
         UNCHANGED <<chain, sending, opening, serverVars, userVars>>, lastSaved' = lastSaved \/ Replaced',
         closing'.pc = "idle", toast' = toast \/ toast'.kind = "saved",
         Shown => editor.text = Seed \/ Holds(editor.msg, editor.text)
  PROVE  NoLoss'
<1>1. UNCHANGED <<drafts, drafted, started, latest, released, sent>>
  BY DEF serverVars, userVars
<1>2. opening = None /\ sending.pc = "idle"
  BY DEF OwnDrafts, Opened, Quiet, OneDraft, InTurn
<1>3. Keeps
  BY <1>1 DEF Keeps
<1>4. PICK g : g = editor.msg
  OBVIOUS
<1>5. Shown => Safe(g)' \/ Holds(g, latest[g])
  <2> SUFFICES ASSUME Shown PROVE Safe(g)' \/ Holds(g, latest[g])
    OBVIOUS
  <2>1. Safe(g) => Safe(g)'
    BY <1>3, GivenKept
  <2>2. editor.text = latest[g] \/ Safe(g)
    BY <1>4, PlainFacts DEF NoLoss, OnScreen, Given
  <2> QED BY <1>4, <2>1, <2>2 DEF Safe
<1>6. toast' = NoToast \/ toast'.kind \in {"none", "saved"}
  <2>1. toast.kind \in {"none", "saved", "files", "failed"}
    BY DEF TypesInv, TypeOK
  <2> QED BY <2>1 DEF NoLoss, Toasts, Quiet
<1> QED BY <1>1, <1>2, <1>3, <1>4, <1>5, <1>6, LossDismiss

\* A close that has nothing to save, or captures it, loses nothing.
LEMMA LossFlushes ==
  ASSUME TypesInv, TypesInv', OwnDrafts, OneDraft, NoLoss, CloseFlushes
  PROVE  NoLoss'
<1>1. /\ closing.pc = "settling" /\ closing.ahead = 0
      /\ UNCHANGED <<lastSaved, chain, sending, opening, serverVars, userVars>>
  BY DEF CloseFlushes
<1>2. chain = <<>> /\ Front.pc \notin Begun /\ opening = None /\ sending.pc = "idle" /\ ~timer
  <2>1. Len(chain) = 0
    <3>1. Len(chain) \in Nat
      BY ChainEmpty DEF TypesInv
    <3> QED BY <1>1, <3>1 DEF OneDraft, InTurn
  <2> QED BY <1>1, <2>1, ChainEmpty, PlainFacts DEF TypesInv, OwnDrafts, Opened, Quiet, OneDraft, InTurn
<1>3. CASE NothingToSave /\ FinishClose(draftId) /\ KeepOrDismiss
  <2>1. closing'.pc = "idle"
    BY <1>3, FinishEffect
  <2>2. editor.text # Seed => draftId = None /\ Shown
    <3> SUFFICES ASSUME editor.text # Seed PROVE draftId = None /\ Shown
      OBVIOUS
    <3>1. editor.msg # 0 /\ Shown
      BY PlainFacts
    <3>2. lastSaved = <<editor.text, draftId>>
      BY <1>3 DEF NothingToSave, HasUserContent, Payload
    <3>3. lastSaved # None /\ lastSaved[2] = draftId
      <4>1. lastSaved # None
        <5>1. editor.text \in Nat
          BY Constants DEF TypesInv, TypeOK
        <5>2. draftId \in Nat \cup {None}
          BY DEF TypesInv, TypeOK, MaybeDraft, Draft
        <5> QED BY <3>2, <5>1, <5>2, ComposeAssumption
      <4> QED BY <3>2, <4>1
    <3> QED BY <1>1, <1>2, <3>1, <3>3 DEF NoLoss, Replaced, DraftStored, NoneStored, Begun
  <2>3. CASE UNCHANGED editor /\ UNCHANGED <<draftId, baseline, timer>> /\ Shown
             /\ (toast'.kind = "failed" \/ (toast'.kind = "files" /\ editor.text = Seed))
    BY <1>1, <1>2, <2>1, <2>3, LossStays DEF editorVars
  <2>4. CASE editor' = NoEditor /\ editor.text = Seed /\ (toast' = toast \/ toast'.kind = "saved")
    <3>1. Dismiss
      BY <1>3, <2>4 DEF KeepOrDismiss, Dismiss
    <3> QED BY <1>1, <1>2, <2>1, <2>4, <3>1, LossCloses
  <2>5. CASE draftId = None /\ HasUserContent /\ toast' = [kind |-> "failed", id |-> None] /\ UNCHANGED editor
    <3>1. Shown /\ editor' # NoEditor
      BY <2>2, <2>5, Constants DEF HasUserContent
    <3> QED BY <1>3, <2>3, <2>5, <3>1 DEF KeepOrDismiss
  <2>6. CASE ~(draftId = None /\ HasUserContent) /\ editor.files /\ UNCHANGED editor
             /\ toast' = [kind |-> "files", id |-> draftId]
    <3>1. editor.files = TRUE /\ editor.text = Seed
      BY <2>2, <2>6 DEF HasUserContent, TypesInv, TypeOK
    <3>2. Shown /\ editor' # NoEditor
      BY <2>6, <3>1, PlainFacts, Constants
    <3> QED BY <1>3, <2>3, <2>6, <3>1, <3>2 DEF KeepOrDismiss
  <2>7. CASE ~(draftId = None /\ HasUserContent) /\ editor' = NoEditor
             /\ toast' = (IF draftId = None THEN toast ELSE [kind |-> "saved", id |-> draftId])
    BY <2>2, <2>4, <2>7 DEF HasUserContent
  <2> QED BY <1>3, <2>5, <2>6, <2>7 DEF FinishClose
<1>4. CASE ~NothingToSave /\ closing' = Capture(closing) /\ UNCHANGED <<editorVars, toast>>
  <2> USE DEF NoLoss
  <2>1. editor.text # Seed /\ editor.msg # 0 /\ Shown
    BY <1>4, PlainFacts DEF NothingToSave, HasUserContent
  <2>2. closing'.pc = "sealed" /\ closing'.msg = editor.msg /\ closing'.text = editor.text
    BY <1>4 DEF Capture, TypesInv, TypeOK, Task
  <2>3. UNCHANGED <<editor, draftId, baseline, timer, lastSaved, chain, sending, opening, toast,
                    drafts, drafted, sent, started, latest, released>>
    BY <1>1, <1>4 DEF editorVars, serverVars, userVars
  <2>4. Keeps /\ Later /\ drafted' \in Nat /\ Front' = Front
    BY <2>3, Unshrunk, ShrinksLater, ChainKept DEF Keeps
  <2>5. Landeds' /\ OnScreen' /\ OpeningText'
    BY <2>2, <2>3, <2>4, LandedsKept, OnScreenKept, OpeningKept DEF Shown
  <2>6. Kept' /\ Replaced'
    BY <2>3, <2>4, KeptKept, ReplacedKept DEF Shown
  <2>7. Clean' /\ DraftStored'
    <3>1. NoneStored' => NoneStored
      BY <1>1, <2>4 DEF NoneStored
    <3> QED BY <2>3, <3>1, CleanKept, DraftStoredKept
  <2>8. ClosingText' /\ SendingText' /\ Unstarted'
    BY <1>2, <2>1, <2>2, <2>3 DEF ClosingText, SendingText, Unstarted, OnScreen, Given, Safe
  <2>9. Pending' /\ FrontText'
    BY <1>2, <2>3, <2>4 DEF Pending, FrontText
  <2>10. Toasts'
    BY <1>1, <1>2, <2>3 DEF Toasts, Quiet
  <2> QED BY <2>5, <2>6, <2>7, <2>8, <2>9, <2>10
<1> QED BY <1>3, <1>4 DEF CloseFlushes

\* A close that has stored its message loses nothing.
LEMMA LossCloseStored ==
  ASSUME TypesInv, TypesInv', OwnDrafts, OneDraft, NoLoss, CloseStored
  PROVE  NoLoss'
<1> USE DEF NoLoss
<1>1. /\ closing.pc = "sealed" /\ closing \in Task /\ closing.msg # 0 /\ StoreDraft(closing)
      /\ UNCHANGED <<editor, draftId, baseline, timer, lastSaved, chain, sending, opening, toast,
                     started, latest, released>>
  BY DEF CloseStored, editorVars, userVars, TypesInv, TypeOK, Begun
<1>2. closing'.pc = "stored" /\ closing'.msg = closing.msg /\ closing'.text = closing.text
      /\ closing'.prev = closing.prev /\ closing'.id = drafted + 1
  BY <1>1 DEF CloseStored, Task
<1>3. PICK t \in Task : t = closing
  BY <1>1
<1>4. t.text # Seed /\ Given(t.msg, t.text) /\ Follows(t.prev, t.msg)
      /\ (editor.msg # 0 => editor.text = t.text)
  BY <1>1, <1>3 DEF ClosingText, OwnDrafts, Savers, SaverOK, Begun
<1>5. PICK n \in Draft : n = drafted + 1 /\ Contains(n, t.msg, t.text)'
  BY <1>1, <1>3, <1>4, StoresHold DEF OwnDrafts
<1>6. (t.prev # None => ~Stored(t.prev)') /\ Kept' /\ Keeps /\ Later /\ drafted' \in Nat /\ drafted \in Nat
  BY <1>1, <1>3, <1>4, StoresHold DEF OwnDrafts
<1>7. chain = <<>> /\ Front' = Front /\ Front.pc \notin Begun /\ opening = None /\ sending.pc = "idle" /\ ~timer
  BY <1>1, PlainFacts, ChainKept DEF Begun
<1>8. Landeds'
  BY <1>2, <1>3, <1>5, <1>6, <1>7 DEF Landeds, Landed, Contains, Stored, Begun
<1>9. OnScreen' /\ Unstarted'
  BY <1>1, <1>6, OnScreenKept DEF Shown, Unstarted
<1>10. Clean' /\ DraftStored'
  BY <1>1, <1>2 DEF Clean, DraftStored, NoneStored
<1>11. Replaced'
  BY <1>1, <1>6, ReplacedKept
<1>12. ClosingText'
  <2>1. n # draftId /\ n # toast.id
    BY <1>5, <1>6, Constants DEF OwnDrafts, Numbers, Upto
  <2>2. Given(t.msg, t.text)'
    BY <1>4, <1>6, GivenKept
  <2>3. Given(closing.msg, closing.text)'
    BY <1>2, <1>3, <2>2 DEF Given, Safe
  <2> QED BY <1>1, <1>2, <1>3, <1>4, <1>5, <2>1, <2>3 DEF ClosingText
<1>13. OpeningText' /\ SendingText'
  BY <1>1, <1>7 DEF OpeningText, SendingText
<1>14. Pending' /\ FrontText'
  BY <1>1, <1>7 DEF Pending, FrontText
<1>15. Toasts'
  BY <1>1, <1>7 DEF Toasts, Quiet
<1> QED BY <1>6, <1>8, <1>9, <1>10, <1>11, <1>12, <1>13, <1>14, <1>15

\* A close that hears of its save dismisses what is stored.
LEMMA LossCloseSucceeds ==
  ASSUME TypesInv, TypesInv', OwnDrafts, OneDraft, NoLoss, CloseSucceeds
  PROVE  NoLoss'
<1>1. /\ closing.pc = "stored" /\ FinishClose(closing.id) /\ closing.id # None
      /\ UNCHANGED <<chain, sending, opening, drafts, drafted, sent, started, latest, released>>
  BY DEF CloseSucceeds, serverVars, userVars, TypesInv
<1>2. chain = <<>> /\ Front' = Front /\ Front.pc \notin Begun /\ opening = None /\ sending.pc = "idle" /\ ~timer
  BY <1>1, PlainFacts, ChainKept DEF Begun
<1>3. Keeps /\ Later /\ drafted' \in Nat /\ closing'.pc = "idle"
  BY <1>1, Unshrunk, ShrinksLater, FinishEffect DEF Keeps
<1>4. /\ Contains(closing.id, closing.msg, closing.text)
      /\ Upto(closing.prev) /\ (closing.prev # None => ~Stored(closing.prev))
      /\ editor.msg # 0 => closing.msg = editor.msg /\ closing.text = editor.text
  BY <1>1 DEF NoLoss, Landeds, Landed, ClosingText, OwnDrafts, Savers, SaverOK, Follows, Begun
<1>5. editor.msg # 0 => Holds(editor.msg, editor.text)
  BY <1>4 DEF Holds, Contains
<1>6. lastSaved' = <<closing.text, closing.prev>>
  BY DEF CloseSucceeds, SaveSucceeds
<1>7. Replaced'
  BY <1>1, <1>4, <1>6 DEF Replaced, Upto, Stored
<1>8. CASE UNCHANGED editor /\ editor.files /\ toast' = [kind |-> "files", id |-> closing.id]
  <2> USE DEF NoLoss
  <2>1. editor.files = TRUE /\ Shown /\ editor.msg # 0 /\ editor' # NoEditor
    <3>1. editor.files = TRUE
      BY <1>8 DEF TypesInv, TypeOK
    <3>2. editor.msg # 0 /\ Shown
      BY <3>1, PlainFacts
    <3> QED BY <1>8, <3>1, <3>2, Constants
  <2>2. draftId' = closing.id /\ baseline' = <<editor.text, editor.files>> /\ timer' = timer
    BY <2>1 DEF CloseSucceeds, SaveSucceeds, Snapshot
  <2>3. Landeds' /\ OnScreen' /\ Unstarted'
    <3>1. closing'.pc # "stored"
      BY <1>3
    <3>2. Landeds'
      BY <1>1, <1>2, <3>1, LandedsKept
    <3> QED BY <1>1, <1>3, <1>8, <3>2, OnScreenKept DEF Shown, Unstarted
  <2>4. Kept'
    BY <1>1, <1>3, <1>8, KeptKept DEF Shown
  <2>5. Clean' /\ DraftStored'
    <3>1. Holds(editor.msg, editor.text)'
      <4>1. PICK m, x : m = editor.msg /\ x = editor.text
        OBVIOUS
      <4> QED BY <1>1, <1>5, <1>8, <2>1, <4>1, HoldsSame DEF Holds, Contains, Stored
    <3>2. baseline'[1] = editor.text /\ baseline'[2] = editor.files
      BY <2>2
    <3>3. Stored(closing.id)
      BY <1>4 DEF Contains
    <3> QED BY <1>1, <1>8, <2>2, <3>1, <3>2, <3>3 DEF Clean, DraftStored, Stored
  <2>6. ClosingText' /\ OpeningText' /\ SendingText'
    BY <1>1, <1>2, <1>3 DEF ClosingText, OpeningText, SendingText, Begun
  <2>7. Pending' /\ FrontText'
    BY <1>1, <1>2, <2>2 DEF Pending, FrontText
  <2>8. Toasts'
    <3>1. Holds(editor.msg, editor.text)'
      <4>1. PICK m, x : m = editor.msg /\ x = editor.text
        OBVIOUS
      <4> QED BY <1>1, <1>5, <1>8, <2>1, <4>1, HoldsSame DEF Holds, Contains, Stored
    <3>2. Shown' /\ Quiet' /\ ~timer' /\ opening' = None
      BY <1>1, <1>2, <1>3, <1>8, <2>1, <2>2 DEF Shown, Quiet
    <3>3. toast'.kind = "files"
      BY <1>8
    <3> QED BY <3>1, <3>2, <3>3 DEF Toasts
  <2> QED BY <1>7, <2>3, <2>4, <2>5, <2>6, <2>7, <2>8
<1>9. CASE editor' = NoEditor /\ toast' = [kind |-> "saved", id |-> closing.id]
  <2>1. Dismiss
    BY <1>9 DEF CloseSucceeds, Dismiss
  <2>2. toast'.kind = "saved"
    BY <1>9
  <2>3. Shown => Holds(editor.msg, editor.text)
    BY <1>5, PlainFacts
  <2>4. UNCHANGED <<chain, sending, opening, serverVars, userVars>>
    BY DEF CloseSucceeds
  <2> QED BY <1>1, <1>2, <1>3, <1>7, <2>1, <2>2, <2>3, <2>4, LossCloses
<1> QED BY <1>1, <1>8, <1>9 DEF FinishClose

\* A close whose save has failed keeps the message in the editor.
LEMMA LossCloseFails ==
  ASSUME TypesInv, TypesInv', Plain, OwnDrafts, OneDraft, NoLoss, CloseFails
  PROVE  NoLoss'
<1>1. /\ closing.pc = "sealed" /\ FinishClose(None) /\ KeepOrDismiss
      /\ UNCHANGED <<lastSaved, chain, sending, opening, serverVars, userVars>>
  BY PlainMeans DEF CloseFails, Fails
<1>2. chain = <<>> /\ closing'.pc = "idle"
  BY <1>1, PlainFacts, FinishEffect DEF Begun
<1>3. CASE editor.text # Seed
  <2>1. Shown /\ editor' = editor /\ editor.msg # 0 /\ toast'.kind = "failed"
    <3>1. Shown /\ editor.msg # 0
      BY <1>3, PlainFacts
    <3>2. editor' = editor /\ toast' = [kind |-> "failed", id |-> None]
      BY <1>1, <1>3 DEF FinishClose, HasUserContent
    <3> QED BY <3>1, <3>2
  <2>2. UNCHANGED editorVars
    BY <1>1, <2>1, Constants DEF KeepOrDismiss, editorVars
  <2> QED BY <1>1, <1>2, <2>1, <2>2, LossStays
<1>4. CASE editor.text = Seed
  <2>1. editor.msg = 0 /\ ~Shown /\ editor.files = FALSE
    BY <1>1, <1>4, PlainFacts DEF NoLoss, ClosingText, Begun
  <2>2. editor' = NoEditor /\ toast' = toast
    BY <1>1, <1>4, <2>1 DEF FinishClose, HasUserContent
  <2>3. Dismiss
    BY <1>1, <2>2 DEF KeepOrDismiss, Dismiss
  <2> QED BY <1>1, <1>2, <2>1, <2>2, <2>3, LossCloses
<1> QED BY <1>3, <1>4

(* An autosave that ends without an answer leaves everything as it was.     *)
LEMMA LossEnds ==
  ASSUME TypesInv, OwnDrafts, OneDraft, NoLoss, chain # <<>>, AutosaveEnds, Front.pc # "stored",
         UNCHANGED <<editorVars, lastSaved, opening, toast, serverVars, userVars>>
  PROVE  NoLoss'
<1> USE DEF NoLoss, editorVars, serverVars, userVars
<1>1. chain' = <<>> /\ Front' = NoTask /\ Front'.pc = "idle" /\ Same(closing', closing) /\ Same(sending', sending)
  BY EndsEffect, TaskTypes DEF Pending
<1>2. opening = None /\ ~timer /\ closing.pc \notin Begun /\ ~Quiet
  BY PlainFacts DEF Quiet
<1>3. Keeps /\ Later /\ drafted' \in Nat
  BY Unshrunk, ShrinksLater DEF Keeps
<1>4. Landeds' /\ OnScreen' /\ Kept'
  <2>1. Landeds'
    BY <1>1, LandedsKept
  <2>2. OnScreen'
    BY <1>3, OnScreenKept DEF Shown
  <2>3. Kept'
    BY <1>3, KeptKept DEF Shown
  <2> QED BY <2>1, <2>2, <2>3
<1>5. Clean' /\ DraftStored'
  <2>1. NoneStored' => NoneStored
    BY <1>1 DEF NoneStored, Same
  <2> QED BY <2>1, CleanKept, DraftStoredKept
<1>6. Replaced' /\ SendingText'
  BY <1>1, <1>3, ReplacedKept, SendingKept
<1>7. ClosingText' /\ OpeningText' /\ Unstarted'
  BY <1>1, <1>2 DEF ClosingText, OpeningText, Unstarted, Same
<1>8. Pending' /\ FrontText'
  BY <1>1, <1>2 DEF Pending, FrontText, Begun
<1>9. Toasts'
  BY <1>2 DEF Toasts
<1> QED BY <1>4, <1>5, <1>6, <1>7, <1>8, <1>9

\* An autosave loses nothing, whether or not it succeeds.
LEMMA LossAutosave ==
  ASSUME TypesInv, TypesInv', Plain, OwnDrafts, OneDraft, NoLoss,
         AutosaveFires \/ AutosaveStarts \/ AutosaveStored \/ AutosaveSucceeds \/ AutosaveFails
  PROVE  NoLoss'
<1> USE DEF NoLoss
<1>a. ASSUME chain # <<>> \/ timer
      PROVE  /\ opening = None /\ closing.pc \notin Begun
             /\ toast.kind \notin {"files", "failed"}
             /\ Shown => editor.text # Seed /\ toast = NoToast
  <2>1. opening = None
    BY <1>a, PlainFacts DEF OwnDrafts, Opened
  <2>2. closing.pc \notin Begun
    BY <1>a, PlainFacts
  <2>3. toast.kind \notin {"files", "failed"}
    BY <1>a DEF Toasts, Quiet
  <2> QED BY <1>a, <2>1, <2>2, <2>3 DEF Pending
<1>b. chain # <<>> => Len(chain) = 1 /\ ~timer /\ sending.pc # "stored"
  BY PlainFacts DEF Pending
<1>c. NoToast.id = None /\ NoToast.kind = "none"
  BY DEF NoToast
<1>1. ASSUME UNCHANGED <<editor, draftId, baseline, lastSaved, closing, sending, opening, toast,
                         drafts, drafted, sent, started, latest, released>>,
             timer' = FALSE, chain # <<>> \/ timer, Front.pc # "stored",
             Len(chain') = 1, Front'.pc # "stored",
             Front'.pc \in Begun => editor.msg # 0 /\ Front'.msg = editor.msg /\ Front'.text = editor.text,
             chain = <<>> => closing.pc = "idle"
      PROVE  NoLoss'
  <2>0. opening = None /\ closing.pc \notin Begun /\ toast.kind \notin {"files", "failed"}
    BY <1>1, <1>a
  <2>1. Keeps /\ Later /\ drafted' \in Nat
    BY <1>1, Unshrunk, ShrinksLater DEF Keeps
  <2>2. Same(closing', closing) /\ Same(sending', sending)
    BY <1>1 DEF Same
  <2>3. Landeds'
    BY <1>1, <2>2, LandedsKept
  <2>4. OnScreen' /\ Kept'
    BY <1>1, <2>1, OnScreenKept, KeptKept DEF Shown
  <2>5. Clean' /\ DraftStored'
    <3>1. NoneStored' => NoneStored
      BY <1>1 DEF NoneStored
    <3> QED BY <1>1, <3>1, CleanKept, DraftStoredKept
  <2>6. Replaced' /\ SendingText'
    BY <1>1, <2>1, <2>2, ReplacedKept, SendingKept
  <2>7. ClosingText' /\ OpeningText' /\ Unstarted'
    BY <1>1, <2>0 DEF ClosingText, OpeningText, Unstarted
  <2>8. Pending' /\ FrontText'
    <3>1. Pending'
      BY <1>1, <1>a DEF Pending, Shown, IsDirty, Snapshot
    <3>2. FrontText'
      BY <1>1 DEF FrontText, OnScreen, Given, Safe
    <3> QED BY <3>1, <3>2
  <2>9. Toasts'
    BY <1>1, <2>0, <1>c DEF Toasts
  <2> QED BY <2>3, <2>4, <2>5, <2>6, <2>7, <2>8, <2>9
<1>2. ASSUME AutosaveFires PROVE NoLoss'
  <2>1. /\ timer /\ timer' = FALSE /\ chain' = Append(chain, Queued) /\ chain = <<>>
        /\ UNCHANGED <<editor, draftId, baseline, lastSaved, closing, sending, opening, toast,
                       drafts, drafted, sent, started, latest, released>>
    BY <1>2, <1>b DEF AutosaveFires, serverVars, userVars, Queued
  <2>2. ChainOK /\ Len(chain) = 0 /\ Front.pc = "idle"
    BY <2>1, ChainEmpty, TaskTypes DEF TypesInv
  <2>3. Len(chain') = 1 /\ Front'.pc = "queued"
    BY <2>1, <2>2, ChainFires, TaskTypes
  <2>4. closing.pc = "idle"
    BY <2>1 DEF OneDraft, InTurn
  <2> QED BY <1>1, <2>1, <2>2, <2>3, <2>4 DEF Begun
<1>3. ASSUME AutosaveStarts PROVE NoLoss'
  <2>1. /\ chain # <<>> /\ Front.pc = "queued"
        /\ UNCHANGED <<editorVars, lastSaved, opening, toast, serverVars, userVars>>
    BY <1>3, StartsEffect DEF AutosaveStarts
  <2>2. CASE AutosaveEnds
    BY <2>1, <2>2, LossEnds
  <2>3. CASE ~AutosaveEnds
    <3>1. /\ Len(chain') = Len(chain) /\ Front'.pc = "sealed" /\ UNCHANGED <<closing, sending>>
          /\ editor.msg # 0 /\ Front'.msg = editor.msg /\ Front'.text = editor.text
      BY <1>3, <2>3, StartsEffect
    <3>2. timer' = FALSE
      BY <1>b, <2>1 DEF editorVars, TypesInv, TypeOK
    <3> QED BY <1>1, <1>b, <2>1, <3>1, <3>2 DEF editorVars, serverVars, userVars
  <2> QED BY <2>2, <2>3
<1>4. ASSUME AutosaveStored PROVE NoLoss'
  <2>1. /\ chain # <<>> /\ Front.pc = "sealed" /\ Front \in Task /\ Front.msg # 0 /\ StoreDraft(Front)
        /\ chain' # <<>> /\ Len(chain') = Len(chain)
        /\ Front'.pc = "stored" /\ Front'.msg = Front.msg /\ Front'.text = Front.text
        /\ Front'.prev = Front.prev /\ Front'.id = drafted + 1
    BY <1>4, StoredEffect
  <2>0. opening = None /\ closing.pc \notin Begun /\ toast.kind \notin {"files", "failed"}
    BY <1>a, <2>1
  <2>2. UNCHANGED <<editor, draftId, baseline, timer, lastSaved, closing, sending, opening, toast,
                    started, latest, released>>
    BY <1>4 DEF AutosaveStored, editorVars, userVars
  <2>3. PICK t \in Task : t = Front
    BY <2>1
  <2>4. Given(t.msg, t.text) /\ Follows(t.prev, t.msg) /\ (editor.msg # 0 => editor.text = t.text)
    BY <2>1, <2>3 DEF FrontText, OwnDrafts, Savers, SaverOK, Begun
  <2>5. PICK n \in Draft : n = drafted + 1 /\ Contains(n, t.msg, t.text)'
    BY <2>1, <2>2, <2>3, <2>4, StoresHold DEF OwnDrafts
  <2>6. (t.prev # None => ~Stored(t.prev)') /\ Kept' /\ Keeps /\ Later /\ drafted' \in Nat /\ drafted \in Nat
    BY <2>1, <2>2, <2>3, <2>4, StoresHold DEF OwnDrafts
  <2>7. Landeds'
    BY <2>0, <2>1, <2>2, <2>3, <2>5, <2>6 DEF Landeds, Landed, Contains, Stored, Begun
  <2>8. OnScreen' /\ Unstarted'
    BY <2>2, <2>6, OnScreenKept DEF Shown, Unstarted
  <2>9. Clean' /\ DraftStored'
    BY <2>1, <2>2 DEF Clean, DraftStored, NoneStored
  <2>10. Replaced' /\ SendingText'
    <3>1. Same(sending', sending)
      BY <2>2 DEF Same
    <3> QED BY <2>2, <2>6, <3>1, ReplacedKept, SendingKept
  <2>11. ClosingText' /\ OpeningText'
    BY <2>0, <2>2 DEF ClosingText, OpeningText
  <2>12. Pending' /\ FrontText'
    <3>1. Pending'
      BY <1>b, <2>1, <2>2 DEF Pending, Shown, IsDirty, Snapshot
    <3>2. n # draftId /\ n # toast.id
      BY <2>5, <2>6, Constants DEF OwnDrafts, Numbers, Upto
    <3>3. Given(t.msg, t.text)'
      BY <2>4, <2>6, GivenKept
    <3>4. Given(Front.msg, Front.text)'
      BY <2>1, <2>3, <3>3 DEF Given, Safe
    <3>5. FrontText'
      BY <2>1, <2>2, <2>3, <2>4, <2>5, <3>2, <3>4 DEF FrontText
    <3> QED BY <3>1, <3>5
  <2>13. Toasts'
    BY <2>0, <2>2 DEF Toasts
  <2> QED BY <2>6, <2>7, <2>8, <2>9, <2>10, <2>11, <2>12, <2>13
<1>5. ASSUME AutosaveSucceeds PROVE NoLoss'
  <2>1. /\ chain # <<>> /\ Front.pc = "stored" /\ draftId' = Front.id /\ AutosaveEnds
        /\ lastSaved' = <<Front.text, Front.prev>> /\ baseline' = <<editor.text, editor.files>>
        /\ UNCHANGED <<editor, timer, opening, toast, drafts, drafted, sent, started, latest, released>>
    BY <1>5, ChainEmpty DEF AutosaveSucceeds, SaveSucceeds, Snapshot, TypesInv, serverVars, userVars
  <2>0. opening = None /\ closing.pc \notin Begun /\ toast.kind \notin {"files", "failed"}
    BY <1>a, <2>1
  <2>2. chain' = <<>> /\ Front' = NoTask /\ Front'.pc = "idle" /\ Same(closing', closing) /\ Same(sending', sending)
    BY <1>b, <2>1, EndsEffect, TaskTypes
  <2>3. Keeps /\ Later /\ drafted' \in Nat
    BY <2>1, Unshrunk, ShrinksLater DEF Keeps
  <2>4. /\ editor.msg # 0 => Contains(Front.id, editor.msg, editor.text)
        /\ Upto(Front.prev) /\ (Front.prev # None => ~Stored(Front.prev))
    BY <2>1 DEF FrontText, Landeds, Landed, OwnDrafts, Savers, SaverOK, Follows, Begun
  <2>5. Landeds'
    BY <2>1, <2>2, LandedsKept
  <2>6. OnScreen' /\ Kept'
    BY <2>1, <2>3, OnScreenKept, KeptKept DEF Shown
  <2>7. Clean' /\ DraftStored'
    <3>1. baseline'[1] = editor.text /\ baseline'[2] = editor.files
      BY <2>1
    <3>2. editor.files \in BOOLEAN
      BY DEF TypesInv, TypeOK
    <3>3. editor.msg # 0 => Holds(editor.msg, editor.text)' /\ Stored(Front.id)
      BY <2>1, <2>4 DEF Holds, Contains, Stored
    <3> QED BY <2>1, <3>1, <3>2, <3>3 DEF Clean, DraftStored, Stored
  <2>8. Replaced'
    BY <2>1, <2>4 DEF Replaced, Upto, Stored
  <2>9. SendingText'
    BY <2>1, <2>2, <2>3, SendingKept
  <2>10. ClosingText' /\ OpeningText' /\ Unstarted'
    BY <2>0, <2>1, <2>2 DEF ClosingText, OpeningText, Unstarted, Same
  <2>11. Pending' /\ FrontText'
    <3>1. Pending'
      BY <1>b, <2>1, <2>2 DEF Pending, Shown
    <3> QED BY <2>2, <3>1 DEF FrontText, Begun
  <2>12. Toasts'
    BY <2>0, <2>1 DEF Toasts
  <2> QED BY <2>5, <2>6, <2>7, <2>8, <2>9, <2>10, <2>11, <2>12
<1>6. ASSUME AutosaveFails PROVE NoLoss'
  <2>1. /\ chain # <<>> /\ AutosaveEnds /\ Front.pc = "sealed"
        /\ UNCHANGED <<editorVars, lastSaved, opening, toast, serverVars, userVars>>
    BY <1>6, PlainMeans, ChainEmpty DEF AutosaveFails, Fails, TypesInv
  <2> QED BY <2>1, LossEnds
<1> QED BY <1>2, <1>3, <1>4, <1>5, <1>6

\* A send dismisses what is sent.
LEMMA LossSending ==
  ASSUME TypesInv, TypesInv', Plain, OwnDrafts, OneDraft, NoLoss,
         SendMessage \/ SendQueued \/ SendSucceeds \/ SendFails
  PROVE  NoLoss'
<1> USE DEF NoLoss
<1>a. Calm /\ ~May("staleToast") /\ ~May("refuseSend") /\ ~May("lose") /\ sending \in Task
  BY PlainMeans, PlainFacts
<1>b. sending.pc # "idle" => Shown /\ editor.msg # 0 /\ sending.msg = editor.msg /\ toast = NoToast
                             /\ closing.pc = "idle" /\ opening = None /\ ~timer
  <2>1. sending.pc # "idle" => Shown /\ sending.msg = editor.msg /\ toast = NoToast
    BY DEF OneDraft, Sends
  <2>2. sending.pc # "idle" => closing.pc = "idle" /\ opening = None /\ ~timer
    BY PlainFacts
  <2>3. Shown => editor.msg # 0
    BY PlainFacts
  <2> QED BY <2>1, <2>2, <2>3
<1>c. NoToast.id = None /\ NoToast.kind = "none"
  BY DEF NoToast
<1>1. ASSUME SendMessage \/ SendQueued PROVE NoLoss'
  <2>1. /\ UNCHANGED <<editor, draftId, baseline, lastSaved, chain, closing, opening, toast,
                       drafts, drafted, started, latest, released>>
        /\ timer' = FALSE /\ toast = NoToast /\ opening = None /\ closing.pc = "idle"
        /\ Shown /\ editor.msg # 0 /\ sent \subseteq sent'
        /\ (timer \/ ~timer)
    <3>1. CASE SendMessage
      BY <1>a, <3>1, PlainFacts DEF SendMessage, Undisturbed, Calm, OwnDrafts, Opened, serverVars, userVars
    <3>2. CASE SendQueued
      <4>1. timer = FALSE
        BY <1>b, <3>2 DEF SendQueued, TypesInv, TypeOK
      <4> QED BY <1>b, <3>2, <4>1 DEF SendQueued, QueueMail, editorVars, userVars
    <3> QED BY <1>1, <3>1, <3>2
  <2>2. Keeps /\ Later /\ drafted' \in Nat /\ Front' = Front /\ Len(chain') = Len(chain)
    BY <2>1, Unshrunk, ShrinksLater, ChainKept DEF Keeps
  <2>3. Landeds'
    BY <2>1, <2>2, LandedsKept
  <2>4. OnScreen' /\ Kept'
    BY <2>1, <2>2, OnScreenKept, KeptKept DEF Shown
  <2>5. Clean' /\ DraftStored'
    <3>1. NoneStored' => NoneStored
      BY <2>1, <2>2 DEF NoneStored
    <3> QED BY <2>1, <3>1, CleanKept, DraftStoredKept
  <2>6. Replaced'
    BY <2>1, <2>2, ReplacedKept
  <2>7. ClosingText' /\ OpeningText' /\ Unstarted'
    BY <2>1 DEF ClosingText, OpeningText, Unstarted, Begun
  <2>8. Pending' /\ FrontText'
    <3>1. Pending'
      BY <2>1, <2>2 DEF Pending, Shown, IsDirty, Snapshot
    <3>2. FrontText'
      BY <2>1, <2>2, FrontKept
    <3> QED BY <3>1, <3>2
  <2>9. Toasts'
    BY <1>c, <2>1 DEF Toasts
  <2>10. SendingText'
    <3>1. Follows(draftId, editor.msg)
      BY <2>1 DEF OwnDrafts, Held, Numbers, Follows
    <3>2. CASE SendMessage
      <4>1. /\ sending'.pc = "settling" /\ sending'.msg = editor.msg /\ sending'.text = editor.text
            /\ sending'.prev = draftId
        BY <3>2 DEF SendMessage, Waiting, NoTask
      <4> QED BY <2>1, <3>1, <4>1 DEF SendingText, Follows, Upto, Fits, Stored
    <3>3. CASE SendQueued
      <4>1. /\ sending.pc = "settling" /\ sending'.pc = "stored" /\ sending'.msg = sending.msg
            /\ sending'.text = sending.text
            /\ (sending'.prev = draftId \/ sending'.prev = sending.prev)
            /\ sent' = sent \cup {<<sending.msg, sending.text>>}
        BY <1>a, <3>3 DEF SendQueued, QueueMail, Task
      <4>2. Follows(sending'.prev, sending.msg)
        BY <1>b, <3>1, <4>1 DEF SendingText
      <4> QED BY <2>1, <4>1, <4>2 DEF SendingText, Follows, Upto, Fits, Stored
    <3> QED BY <1>1, <3>2, <3>3
  <2> QED BY <2>3, <2>4, <2>5, <2>6, <2>7, <2>8, <2>9, <2>10
<1>2. ASSUME SendSucceeds PROVE NoLoss'
  <2>1. /\ sending.pc = "stored" /\ sending'.pc = "idle" /\ Dismiss
        /\ UNCHANGED <<lastSaved, chain, closing, opening, toast, drafted, sent, started, latest, released>>
        /\ (drafts' = [d \in Draft |-> IF d = sending.prev THEN None ELSE drafts[d]] \/ drafts' = drafts)
    BY <1>2 DEF SendSucceeds, NoTask, userVars
  <2>2. chain = <<>>
    BY <2>1 DEF OneDraft, InTurn
  <2>3. PICK g, q : g = editor.msg /\ q = sending.prev
    OBVIOUS
  <2>4. Keeps
    BY <2>1 DEF Keeps
  <2>5. Safe(g)'
    <3>1. <<g, editor.text>> \in sent
      BY <1>b, <2>1, <2>3 DEF SendingText
    <3>2. Safe(g)
      BY <1>b, <2>1, <2>3, <3>1 DEF OnScreen, Given, Safe
    <3> QED BY <2>4, <3>2, GivenKept
  <2>6. \A e \in Draft : drafts'[e] = drafts[e] \/ (drafts'[e] = None /\ (Stored(e) => drafts[e].msg = g))
    <3>1. Fits(q, g)
      BY <1>b, <2>1, <2>3 DEF SendingText, Follows
    <3> QED BY <2>1, <2>3, <3>1, Constants DEF Fits
  <2>7. toast' = NoToast /\ closing.pc = "idle" /\ opening' = None
    BY <1>b, <2>1
  <2> QED BY <2>1, <2>2, <2>3, <2>4, <2>5, <2>6, <2>7, LossDismiss
<1>3. ~SendFails
  BY <1>a DEF SendFails
<1> QED BY <1>1, <1>2, <1>3

\* Nothing is written at the start.
LEMMA LossInit == Init => NoLoss
<1> SUFFICES ASSUME Init PROVE NoLoss
  OBVIOUS
<1>1. /\ editor.msg = 0 /\ ~Shown /\ draftId = None /\ baseline = None /\ lastSaved = None /\ timer = FALSE
      /\ chain = <<>> /\ closing.pc = "idle" /\ sending.pc = "idle" /\ opening = None
      /\ toast = NoToast /\ toast.kind = "none"
  BY DEF Init, NoEditor, NoTask, NoToast, Shown
<1>2. Front.pc = "idle"
  BY <1>1, TaskTypes DEF Front
<1>3. \A m \in Message : latest[m] = Seed
  BY DEF Init
<1>4. Pending /\ Landeds /\ OnScreen /\ Kept /\ Clean /\ Replaced /\ Unstarted /\ DraftStored
  BY <1>1, <1>2, <1>3 DEF Pending, Landeds, Landed, OnScreen, Kept, Safe, Clean, Replaced, Unstarted, DraftStored,
                          Begun
<1>5. Toasts /\ ClosingText /\ FrontText /\ OpeningText /\ SendingText
  BY <1>1, <1>2 DEF Toasts, ClosingText, FrontText, OpeningText, SendingText, Begun
<1> QED BY <1>4, <1>5 DEF NoLoss

\* A step that changes nothing loses nothing.
LEMMA LossStutters ==
  ASSUME TypesInv, OwnDrafts, OneDraft, NoLoss, UNCHANGED vars
  PROVE  NoLoss'
<1>1. UNCHANGED <<editor, draftId, baseline, timer, lastSaved, chain, closing, sending, opening, toast,
                  drafts, drafted, sent, started, latest, released>>
  BY DEF vars, editorVars, taskVars, serverVars, userVars
<1>2. Keeps /\ Same(closing', closing) /\ Same(sending', sending)
  BY <1>1 DEF Keeps, Same
<1>3. (IsDirty => IsDirty') /\ (Shown' <=> Shown)
  BY <1>1 DEF IsDirty, Snapshot, Shown
<1>4. OpeningText'
  BY <1>1, <1>2, OpeningKept DEF NoLoss
<1> QED BY <1>1, <1>2, <1>3, <1>4, LossSame

\* Every step of a user who waits loses nothing.
LEMMA LossNext ==
  ASSUME TypesInv, Plain, OwnDrafts, OneDraft, NoLoss, [Next]_vars
  PROVE  NoLoss'
<1>1. TypesInv'
  BY TypesNext
<1>2. CASE User
  BY <1>1, <1>2, LossEditor, LossRequest, LossDiscard, LossSending DEF User
<1>3. CASE Program
  BY <1>1, <1>3, LossEditor, LossAutosave, LossFlushes, LossCloseStored, LossCloseSucceeds, LossSending DEF Program
<1>4. CASE Failure \/ ToastExpires
  BY <1>1, <1>4, LossEditor, LossAutosave, LossCloseFails, LossSending DEF Failure
<1>5. CASE UNCHANGED vars
  BY <1>5, LossStutters
<1> QED BY <1>2, <1>3, <1>4, <1>5 DEF Next

----------------------------------------------------------------------------
(* The theorems *)

(* The inductive invariant: each part holds while the user and the server   *)
(* keep to what it needs, which never changes.                              *)
Inv ==
    /\ TypesInv
    /\ Calm => OwnDrafts
    /\ Tidy => OneDraft
    /\ Plain => NoLoss

\* The invariant holds at the start.
LEMMA InvInit == Init => Inv
BY TypesInit, OwnInit, OneInit, LossInit DEF Inv

\* Every step keeps the invariant.
LEMMA InvNext == Inv /\ [Next]_vars => Inv'
<1> SUFFICES ASSUME Inv, [Next]_vars PROVE Inv'
  OBVIOUS
<1>1. (Calm' => Calm) /\ (Tidy' => Tidy) /\ (Plain' => Plain)
  BY ScenarioKept DEF Calm, Tidy, Plain, Only, May
<1>2. TypesInv'
  BY TypesNext DEF Inv
<1>3. Calm => OwnDrafts'
  BY OwnNext DEF Inv
<1>4. Tidy => OneDraft'
  BY OneNext, TidyMeans DEF Inv
<1>5. Plain => NoLoss'
  BY LossNext, TidyMeans, PlainMeans DEF Inv
<1> QED BY <1>1, <1>2, <1>3, <1>4, <1>5 DEF Inv

\* The invariant holds always.
LEMMA Invariance == Spec => []Inv
BY InvInit, InvNext, PTL DEF Spec

(* The variables keep their types.                                          *)
THEOREM TypeCorrect == Spec => []TypeOK
<1>1. Inv => TypeOK
  BY DEF Inv, TypesInv
<1> QED BY Invariance, <1>1, PTL

(* A save takes away no draft but an earlier one of the same message, as    *)
(* long as no message is left while it is being saved or sent.              *)
THEOREM ReplacesOnlyItsOwn == Spec => DraftsReplacedByOwn
<1> DEFINE OwnOnly == ~May("hasty") => \A d \in Draft :
               Stored(d) /\ drafts'[d] = None /\ drafted' # drafted
                   => drafts'[drafted'].msg = drafts[d].msg
<1>1. Inv /\ [Next]_vars => [OwnOnly]_vars
  <2> SUFFICES ASSUME Inv, [Next]_vars, Calm, NEW d \in Draft,
                      Stored(d), drafts'[d] = None, drafted' # drafted
               PROVE  drafts'[drafted'].msg = drafts[d].msg
    BY DEF Calm
  <2>1. TypesInv /\ OwnDrafts
    BY DEF Inv
  <2>2. PICK t \in Task : t.msg # 0 /\ t.pc \in Begun /\ StoreDraft(t) /\ SaverOK(t)
    <3>1. CASE AutosaveStored
      BY <2>1, <3>1, StoredEffect DEF OwnDrafts, Savers, Begun
    <3>2. CASE CloseStored
      BY <2>1, <3>2 DEF CloseStored, OwnDrafts, Savers, TypesInv, TypeOK, Begun
    <3> QED BY <2>1, <3>1, <3>2, OnlySavesStore
  <2> QED BY <2>1, <2>2, OwnReplaced
<1> QED BY Invariance, <1>1, PTL DEF Spec, DraftsReplacedByOwn

(* A message has one draft at most, whatever its autosaves' timing and      *)
(* failures, as long as the user finishes it before leaving it.             *)
THEOREM OneDraftEach == Spec => []OneDraftPerMessage
<1>1. Inv => OneDraftPerMessage
  <2> SUFFICES ASSUME Inv, Strict, NEW m \in Message PROVE Cardinality(DraftsOf(m)) <= 1
    BY DEF OneDraftPerMessage, Strict
  <2>1. Single
    BY StrictMeans DEF Inv, OneDraft
  <2>2. CASE DraftsOf(m) = {}
    BY <2>2, FS_EmptySet
  <2>3. ASSUME NEW d \in DraftsOf(m) PROVE Cardinality(DraftsOf(m)) <= 1
    <3>1. DraftsOf(m) = {d}
      BY <2>1, <2>3 DEF DraftsOf, Single
    <3>2. Cardinality({d}) = 1
      BY FS_Singleton
    <3> QED BY <3>1, <3>2
  <2> QED BY <2>2, <2>3
<1> QED BY Invariance, <1>1, PTL

(* A message that was sent leaves no draft once everything has settled.     *)
THEOREM SentIsGone == Spec => []SentLeavesNoDraft
<1>1. Inv => SentLeavesNoDraft
  <2> SUFFICES ASSUME Inv, Strict, Quiet, NEW s \in sent PROVE DraftsOf(s[1]) = {}
    BY DEF SentLeavesNoDraft, Strict
  <2>1. OnlyDraft(s[1], None)
    BY StrictMeans DEF Inv, OneDraft, SentDrafts, Quiet
  <2> QED BY <2>1, Constants DEF OnlyDraft, DraftsOf
<1> QED BY Invariance, <1>1, PTL

(* What the user last wrote in a message is never dropped silently.         *)
THEOREM NothingDropped == Spec => []NoSilentLoss
<1>1. Inv => NoSilentLoss
  <2> SUFFICES ASSUME Inv, Plain, NEW m \in Message
               PROVE  \/ latest[m] = Seed \/ m \in released \/ InEditor(m)
                      \/ IsStored(m, latest[m]) \/ <<m, latest[m]>> \in sent
    BY DEF NoSilentLoss, Plain
  <2>1. Holds(m, latest[m]) => IsStored(m, latest[m])
    BY DEF Holds, Contains, IsStored, DraftsOf
  <2> QED BY <2>1 DEF Inv, NoLoss, Kept, Safe
<1> QED BY Invariance, <1>1, PTL

=============================================================================
