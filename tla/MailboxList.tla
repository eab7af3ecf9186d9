----------------------------- MODULE MailboxList -----------------------------
(***************************************************************************)
(* The list of messages of the open folder in apps/web, and what changes   *)
(* it: opening folders, loading further pages, refreshing, moving and      *)
(* deleting with a chance to undo, and the realtime sync                   *)
(* (apps/web/hooks/use-mail-app.ts and the helpers it calls).              *)
(*                                                                         *)
(* A handler captures the list it was rendered with.  What it computes     *)
(* from that list after an await replaces the list of that moment.         *)
(*                                                                         *)
(* The list is kept sorted by receivedAt, so it is a set here: messages    *)
(* are numbered in the order they were received, the newest highest.       *)
(***************************************************************************)
EXTENDS Integers, FiniteSets

CONSTANTS
    MaxMail,        \* bound: messages that ever exist
    InitialMail,    \* how many messages may be in the inbox at the start
    PageSize,       \* resolveMailboxMessagesPageSize
    MaxActs,        \* bound: what the user does
    ListScenarios,  \* sets of ListBehaviour: what may happen
    NoSync          \* no sync result is on its way

ListBehaviour == {
    "remote",         \* mail arrives or is moved elsewhere while the app waits for nothing
    "remoteInto",     \* and another client moves mail into the open folder
    "remoteDuring",   \* and while the app waits for an answer
    "hasty",          \* the user goes on while the app waits for an answer, or while
                      \* a move can still be undone
    "refreshEarly",   \* the user refreshes while a sync is on its way
    "refuseMove",     \* the server refuses a move
    "refuseDelete",   \* the server refuses to move a message to the trash
    "refuseRead"}     \* a query fails

ASSUME MailboxAssumption ==
    /\ MaxMail \in Nat
    /\ InitialMail \subseteq 0 .. MaxMail
    /\ PageSize \in Nat \ {0}
    /\ MaxActs \in Nat
    /\ ListScenarios \subseteq SUBSET ListBehaviour
    /\ \A set \in SUBSET (1 .. MaxMail) :
          NoSync \notin [set -> {"inbox", "trash", "gone", "unborn"}]

Mail == 1 .. MaxMail
Folder == {"inbox", "trash"}
Place == Folder \cup {"gone", "unborn"}

VARIABLES
    listScenario, \* the one that holds, for good
    shown,        \* selectedMailboxId
    list,         \* the messages in the list
    total,        \* totalMessages, 0 until the app has concluded it
    undos,        \* moves the user may still undo
    tasks,        \* requests under way, with what their handlers captured
    where,        \* the server: the folder of each message
    changed,      \* messages changed on the server since the last sync
    sync,         \* a sync result on its way to the list
    acts          \* what the user has done

listVars == <<listScenario, shown, list, total, undos, tasks, where, changed, sync, acts>>

ListMay(b) == b \in listScenario
In(f) == {m \in Mail : where[m] = f}

\* Email/query sorts by receivedAt, the newest first.
Newest(set, n) == {m \in set : Cardinality({k \in set : k > m}) < n}
PageOf(f, position) == Newest(In(f), position + PageSize) \ Newest(In(f), position)

\* hasMoreMailboxMessages
HasMore(loaded, count) ==
    IF count > 0 THEN loaded < count ELSE loaded > 0 /\ loaded % PageSize = 0

Request(kind, folder, msgs, rows) ==
    [kind |-> kind, folder |-> folder, msgs |-> msgs, rows |-> rows, position |-> 0,
     pc |-> "sent", page |-> {}]

ListInit ==
    /\ listScenario \in ListScenarios
    /\ shown = "inbox"
    /\ \E n \in InitialMail : where = [m \in Mail |-> IF m <= n THEN "inbox" ELSE "unborn"]
    /\ list = PageOf("inbox", 0)
    /\ total = 0
    /\ undos = {}
    /\ tasks = {}
    /\ changed = {}
    /\ sync = NoSync
    /\ acts = 0

Synced == changed = {} /\ sync = NoSync
Counted == acts < MaxActs /\ acts' = acts + 1
Act == Counted /\ ((tasks = {} /\ undos = {} /\ Synced) \/ ListMay("hasty"))

Running(kind) == \E t \in tasks : t.kind = kind
Begin(t) == tasks' = tasks \cup {t}

-----------------------------------------------------------------------------
(* Reading *)

\* refreshMailboxMessages: the folder is shown once its first page is here.
Open(f) ==
    /\ Act
    /\ Begin(Request("open", f, {}, {}))
    /\ UNCHANGED <<listScenario, shown, list, total, undos, where, changed, sync>>

\* Mutant: the position is one too far.
LoadMoreSkips ==
    /\ Act
    /\ ~Running("more")
    /\ HasMore(Cardinality(list), total)
    /\ Begin([Request("more", shown, {}, list) EXCEPT !.position = Cardinality(list) + 1])
    /\ UNCHANGED <<listScenario, shown, list, total, undos, where, changed, sync>>

\* loadMoreMessages: the position is the length of the list.
LoadMore ==
    /\ Act
    /\ ~Running("more")
    /\ HasMore(Cardinality(list), total)
    /\ Begin([Request("more", shown, {}, list) EXCEPT !.position = Cardinality(list)])
    /\ UNCHANGED <<listScenario, shown, list, total, undos, where, changed, sync>>

\* handleManualRefresh
ManualRefresh ==
    /\ Counted
    /\ (tasks = {} /\ undos = {} /\ (Synced \/ ListMay("refreshEarly"))) \/ ListMay("hasty")
    /\ ~Running("refresh")
    /\ Begin(Request("refresh", shown, {}, list))
    /\ UNCHANGED <<listScenario, shown, list, total, undos, where, changed, sync>>

\* mergeRefreshedMailboxMessages: as many rows as the first page has give way
\* to it.  More would be kept if the new total were larger, but it is 0.
MergeRefreshed(rows, page) ==
    IF rows = {} THEN page ELSE page \cup (rows \ Newest(rows, Cardinality(page)))

Finished(t) == tasks' = tasks \ {t}

ShowFolder(t) ==
    /\ t.kind = "open"
    /\ t.pc = "served"
    /\ Finished(t)
    /\ total' = 0
    /\ list' = t.page
    /\ shown' = t.folder
    /\ UNCHANGED <<listScenario, undos, where, changed, sync, acts>>

\* appendMailboxMessages and what loadMoreMessages concludes from it.
AppendPage(t) ==
    LET more == t.page \ t.rows
        next == t.rows \cup more
    IN /\ t.kind = "more"
       /\ t.pc = "served"
       /\ Finished(t)
       /\ IF more = {}
          THEN total' = Cardinality(t.rows) /\ UNCHANGED list
          ELSE /\ total' = IF Cardinality(more) < PageSize THEN Cardinality(next) ELSE total
               /\ list' = next
       /\ UNCHANGED <<listScenario, shown, undos, where, changed, sync, acts>>

ShowRefreshed(t) ==
    /\ t.kind = "refresh"
    /\ t.pc = "served"
    /\ Finished(t)
    /\ total' = 0
    /\ list' = MergeRefreshed(t.rows, t.page)
    /\ shown' = t.folder
    /\ UNCHANGED <<listScenario, undos, where, changed, sync, acts>>

\* getMailboxMessages: the server answers a query.  The query does not ask how
\* many messages match, so the answer's total is 0.
ServeQuery(t) ==
    /\ t.kind \in {"open", "more", "refresh"}
    /\ t.pc = "sent"
    /\ tasks' = (tasks \ {t}) \cup {[t EXCEPT !.pc = "served",
         !.page = PageOf(t.folder, t.position)]}
    /\ UNCHANGED <<listScenario, shown, list, total, undos, where, changed, sync, acts>>

-----------------------------------------------------------------------------
(* Moving and deleting *)

\* handleMoveMessage, and handleDeleteMessage outside the trash: the row goes
\* at once, the request waits until the toast is gone.
MoveLater(m, f, kind) ==
    /\ Counted
    /\ (tasks = {} /\ Synced) \/ ListMay("hasty")
    /\ m \in list
    /\ f # shown
    /\ list' = list \ {m}
    /\ undos' = undos \cup {[kind |-> kind, msg |-> m, to |-> f]}
    /\ UNCHANGED <<listScenario, shown, total, tasks, where, changed, sync>>

\* Mutant: the row is back, and the request goes out all the same.
UndoForgets(u) ==
    /\ list' = list \cup {u.msg}
    /\ UNCHANGED <<listScenario, shown, total, undos, tasks, where, changed, sync, acts>>

Undo(u) ==
    /\ tasks = {} \/ ListMay("hasty")
    /\ undos' = undos \ {u}
    /\ list' = list \cup {u.msg}
    /\ UNCHANGED <<listScenario, shown, total, tasks, where, changed, sync, acts>>

ToastGone(u) ==
    /\ undos' = undos \ {u}
    /\ Begin(Request(u.kind, u.to, {u.msg}, {}))
    /\ UNCHANGED <<listScenario, shown, list, total, where, changed, sync, acts>>

\* handleDeleteMessage in the trash, handleBulkDelete, handleBulkMove and
\* handleEmptyMailbox: the rows go when the server has answered.
ChangeThenShow(kind, f, msgs) ==
    /\ Act
    /\ msgs # {}
    /\ msgs \subseteq list
    /\ Begin(Request(kind, f, msgs, list \ msgs))
    /\ UNCHANGED <<listScenario, shown, list, total, undos, where, changed, sync>>

EmptyMailbox ==
    /\ Act
    /\ shown = "trash"
    /\ Begin(Request("empty", "gone", {}, {}))
    /\ UNCHANGED <<listScenario, shown, list, total, undos, where, changed, sync>>

\* Email/set.  A destroyed message stays destroyed.
ServeChange(t) ==
    LET msgs == IF t.kind = "empty" THEN In("trash") ELSE {m \in t.msgs : where[m] \in Folder}
    IN /\ t.kind \in {"delete", "move", "bulk", "empty"}
       /\ t.pc = "sent"
       /\ where' = [m \in Mail |-> IF m \in msgs THEN t.folder ELSE where[m]]
       /\ changed' = changed \cup msgs
       /\ tasks' = (tasks \ {t}) \cup {[t EXCEPT !.pc = "served"]}
       /\ UNCHANGED <<listScenario, shown, list, total, undos, sync, acts>>

Done(t) ==
    /\ t.kind \in {"delete", "move"}
    /\ t.pc = "served"
    /\ Finished(t)
    /\ UNCHANGED <<listScenario, shown, list, total, undos, where, changed, sync, acts>>

ShowRemaining(t) ==
    /\ t.kind \in {"bulk", "empty"}
    /\ t.pc = "served"
    /\ Finished(t)
    /\ list' = t.rows
    /\ UNCHANGED <<listScenario, shown, total, undos, where, changed, sync, acts>>

\* A refused move puts its row back; a refused deletion is only logged.
Refused(t) ==
    /\ t.pc = "sent"
    /\ ListMay(CASE t.kind \in {"open", "more", "refresh"} -> "refuseRead"
             [] t.kind = "delete" -> "refuseDelete"
             [] OTHER -> "refuseMove")
    /\ Finished(t)
    /\ list' = IF t.kind = "move" THEN list \cup t.msgs ELSE list
    /\ UNCHANGED <<listScenario, shown, total, undos, where, changed, sync, acts>>

-----------------------------------------------------------------------------
(* Changes from elsewhere, and the sync that brings them *)

Elsewhere ==
    /\ ListMay("remote")
    /\ (tasks = {} /\ undos = {}) \/ ListMay("remoteDuring")

Arrive ==
    /\ Elsewhere
    /\ \E m \in In("unborn") :
         /\ \A k \in In("unborn") : m <= k
         /\ where' = [where EXCEPT ![m] = "inbox"]
         /\ changed' = changed \cup {m}
    /\ UNCHANGED <<listScenario, shown, list, total, undos, tasks, sync, acts>>

MovedElsewhere(m, f) ==
    /\ Elsewhere
    /\ acts < MaxActs
    /\ where[m] \in Folder \ {f}
    /\ f = shown => ListMay("remoteInto")
    /\ where' = [where EXCEPT ![m] = f]
    /\ changed' = changed \cup {m}
    /\ acts' = acts + 1
    /\ UNCHANGED <<listScenario, shown, list, total, undos, tasks, sync>>

FetchChanges ==
    /\ sync = NoSync
    /\ changed # {}
    /\ sync' = [m \in changed |-> where[m]]
    /\ changed' = {}
    /\ UNCHANGED <<listScenario, shown, list, total, undos, tasks, where, acts>>

\* Mutant: what has left the folder stays in the list.
MergeAddsOnly(rows, delta) ==
    rows \cup {m \in DOMAIN delta : delta[m] = shown}

\* mergeMessagesForMailbox
MergeSync(rows, delta) ==
    {m \in rows : m \notin DOMAIN delta} \cup {m \in DOMAIN delta : delta[m] = shown}

\* handleRealtimeSync: the list follows, the total does not.
HandleRealtimeSync ==
    /\ sync # NoSync
    /\ list' = MergeSync(list, sync)
    /\ sync' = NoSync
    /\ UNCHANGED <<listScenario, shown, total, undos, tasks, where, changed, acts>>

-----------------------------------------------------------------------------
ListUser ==
    \/ \E f \in Folder : Open(f)
    \/ LoadMore
    \/ ManualRefresh
    \/ \E m \in Mail : MoveLater(m, "inbox", "move") \/ MoveLater(m, "trash", "delete")
    \/ \E msgs \in SUBSET list, f \in {"inbox", "trash", "gone"} :
         /\ f # shown
         /\ f = "gone" => shown = "trash"
         /\ ChangeThenShow("bulk", f, msgs)
    \/ EmptyMailbox
    \/ \E u \in undos : Undo(u)

ListProgram ==
    \/ \E u \in undos : ToastGone(u)
    \/ \E t \in tasks :
         \/ ServeQuery(t) \/ ServeChange(t) \/ Refused(t)
         \/ ShowFolder(t) \/ AppendPage(t) \/ ShowRefreshed(t) \/ Done(t) \/ ShowRemaining(t)
    \/ FetchChanges
    \/ HandleRealtimeSync

ListNext == ListUser \/ ListProgram \/ Arrive \/ \E m \in Mail, f \in Folder \cup {"gone"} : MovedElsewhere(m, f)

ListSpec == ListInit /\ [][ListNext]_listVars

-----------------------------------------------------------------------------
(* Properties *)

ListTypeOK ==
    /\ listScenario \in ListScenarios
    /\ shown \in Folder
    /\ list \subseteq Mail
    /\ total \in 0 .. MaxMail
    /\ where \in [Mail -> Place]
    /\ changed \subseteq Mail
    /\ \A u \in undos : u.msg \in Mail /\ u.to \in Folder
    /\ \A t \in tasks : t.pc \in {"sent", "served"} /\ t.rows \subseteq Mail

ListSettled == tasks = {} /\ undos = {} /\ Synced

\* The user waits for each answer, and no deletion is refused, of which the
\* app tells nobody; elsewhere mail is touched while the app is at rest.
Patient == listScenario \subseteq {"remote", "remoteInto", "refuseMove", "refuseRead"}

\* When nothing is under way, what the list lacks of its folder is older than
\* every row: paging by the length of the list, merging a refreshed page,
\* moving, undoing and syncing leave no hole among the rows, which no further
\* page would fill.  (Mail that another client moves into the folder is merged
\* wherever it belongs, above older mail that is not loaded yet.)
NoGap ==
    Patient /\ ~ListMay("remoteInto") /\ ListSettled =>
    \A m \in In(shown) \ list, k \in list : m < k

\* When nothing is under way, no row stands for a message that is in another
\* folder or gone.
NoGhosts == Patient /\ ListSettled => list \subseteq In(shown)

\* A message whose row is in the list, put back by the user or never gone, is
\* not moved away by a request that was waiting for the toast to go.
UndoHolds ==
    [][Patient => \A t \in tasks :
          t.kind \in {"delete", "move"} /\ where' # where => t.msgs \cap list = {}]_listVars
=============================================================================
