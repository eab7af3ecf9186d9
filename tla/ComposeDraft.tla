----------------------------- MODULE ComposeDraft -----------------------------
(***************************************************************************)
(* Composing a message in apps/web: the editor, the draft autosave behind  *)
(* it, closing, discarding, reopening and sending.                         *)
(*                                                                         *)
(* The editor's state and the refs beside it change synchronously; saving, *)
(* closing and sending are promises.  A promise captures what it needs,    *)
(* waits for the server, and then writes to the refs of whatever the       *)
(* editor holds by then.  Each stretch of code between two awaits is one   *)
(* step, and so is each change the mail server makes.                      *)
(***************************************************************************)
EXTENDS Integers, Sequences, FiniteSets

CONSTANTS
    MaxMessages,  \* bound: messages the user starts
    Wordings,     \* texts the user may give one message
    MaxDrafts,    \* bound: drafts the server stores
    MaxEdits,     \* bound: edits, of text and of attachments
    Scenarios,    \* sets of Behaviour: what the user and the server may do
    None

Behaviour == {
    "attach",          \* attach a file
    "typeDuringSave",  \* type while an autosave is under way
    "typeDuringClose", \* type while closing waits for its save
    "replace",         \* begin a reply or a forward while a message is in the editor
    "hasty",           \* leave, replace or reopen a message while a save or a send is
    "staleToast",      \* go on with a message while a toast offers to end it
    "repeat",          \* write the same text in two messages
    "refuseSave",      \* a save or a decryption fails
    "refuseDiscard",   \* the removal of a draft fails
    "refuseSend",      \* a send fails
    "lose"}            \* the answer to a request is lost

ASSUME ComposeAssumption ==
    /\ MaxMessages \in Nat
    /\ Wordings \in Nat \ {0}
    /\ MaxDrafts \in Nat
    /\ MaxEdits \in Nat
    /\ Scenarios \subseteq SUBSET Behaviour
    /\ None \notin Int
    /\ None \notin [msg : Nat, text : Nat]
    /\ None \notin Nat \X (Nat \cup {None})

Message == 1 .. MaxMessages
Draft == 1 .. MaxDrafts

\* The text a message is seeded with: nothing the user wrote.
Seed == 0
Text == 0 .. MaxMessages * Wordings

VARIABLES
    scenario,   \* the one that holds, for good
    editor,     \* the message in the editor, and whether it is shown
    draftId,    \* draftIdRef: the stored draft a save replaces
    baseline,   \* baselineRef: what counts as unchanged
    lastSaved,  \* lastSavedDataRef: the payload of the last save
    timer,      \* an autosave is pending
    chain,      \* the autosaves under way, each waiting for the one before
    closing,    \* the close that saves first
    sending,    \* the send under way
    opening,    \* a stored draft being fetched for the editor
    toast,      \* the toast with the id compose-draft-saved
    drafts,     \* the server's Drafts mailbox
    drafted,    \* drafts it has ever stored
    sent,       \* what it has queued for delivery
    edits,      \* edits made
    started,    \* messages started
    latest,     \* the text the user last gave each message
    released,   \* messages the user threw away, or replaced before they were saved
    reopened    \* messages opened again from their draft

editorVars == <<editor, draftId, baseline, timer>>
taskVars == <<chain, closing, sending, opening>>
serverVars == <<drafts, drafted, sent>>
userVars == <<edits, started, latest, released, reopened>>
vars == <<scenario, editorVars, lastSaved, taskVars, toast, serverVars, userVars>>

Shown == editor.shown # "no"
NoEditor == [shown |-> "no", msg |-> 0, text |-> Seed, files |-> FALSE, mode |-> "new"]
NoTask == [pc |-> "idle", ahead |-> 0, msg |-> 0, text |-> Seed, prev |-> None,
           id |-> None, full |-> FALSE]
NoToast == [kind |-> "none", id |-> None]
Stored(d) == drafts[d] # None
May(b) == b \in scenario
Only(behaviours) == scenario \subseteq behaviours

TextsOf(m) ==
    IF May("repeat")
    THEN 1 .. Wordings
    ELSE (m - 1) * Wordings + 1 .. m * Wordings

\* The user answers a toast, or lets it go, before going on with a message.
Undisturbed == toast = NoToast \/ May("staleToast")

Quiet == chain = <<>> /\ closing.pc = "idle" /\ sending.pc = "idle"
Settled == Quiet \/ May("hasty")

Init ==
    /\ scenario \in Scenarios
    /\ editor = NoEditor
    /\ draftId = None
    /\ baseline = None
    /\ lastSaved = None
    /\ timer = FALSE
    /\ chain = <<>>
    /\ closing = NoTask
    /\ sending = NoTask
    /\ opening = None
    /\ toast = NoToast
    /\ drafts = [d \in Draft |-> None]
    /\ drafted = 0
    /\ sent = {}
    /\ edits = 0
    /\ started = 0
    /\ latest = [m \in Message |-> Seed]
    /\ released = {}
    /\ reopened = {}

-----------------------------------------------------------------------------
(* The editor *)

Snapshot == <<editor.text, editor.files>>
IsDirty == baseline = None \/ baseline # Snapshot
HasUserContent == editor.text # Seed

\* The debounce begins anew when the fields have changed.  It is an effect of a
\* child: whether anything is unsaved it reads from draftRef, which the parent's
\* effect brings up to date only afterwards.
Debounce(text, saved) == text # Seed /\ (saved = None \/ saved # Snapshot)

\* Bound: the saves begun now find room on the server.
Room == drafted + Len(chain) + 2 <= MaxDrafts

\* Seeding resets the refs and makes the seeded state the baseline.
ApplySeed(e, draft) ==
    /\ editor' = e
    /\ draftId' = draft
    /\ baseline' = <<e.text, e.files>>
    /\ timer' = Debounce(e.text, <<e.text, e.files>>)

Dismiss ==
    /\ editor' = NoEditor
    /\ draftId' = None
    /\ baseline' = None
    /\ timer' = FALSE

\* A new message, a reply or a forward.  Only opening a new message from the
\* list asks the message in the editor to close first; a reply, a forward or a
\* message to a recipient replaces it, saved or not.
StartMessage ==
    /\ started < MaxMessages
    /\ (opening = None /\ Quiet /\ (~Shown \/ May("replace"))) \/ May("hasty")
    /\ Undisturbed
    /\ started' = started + 1
    /\ released' = IF Shown /\ IsDirty THEN released \cup {editor.msg} ELSE released
    /\ ApplySeed([NoEditor EXCEPT !.shown = "panel", !.msg = started + 1], None)
    /\ UNCHANGED <<scenario, lastSaved, taskVars, toast, serverVars, edits, latest, reopened>>

Expand ==
    /\ editor.shown = "panel"
    /\ editor' = [editor EXCEPT !.shown = "full"]
    /\ UNCHANGED <<scenario, draftId, baseline, timer, lastSaved, taskVars, toast, serverVars, userVars>>

MayEdit ==
    /\ Shown
    /\ Undisturbed
    /\ Room
    /\ sending.pc = "idle"  \* the fields are disabled while a send is under way
    /\ edits < MaxEdits
    /\ chain = <<>> \/ May("typeDuringSave")
    /\ closing.pc = "idle" \/ May("typeDuringClose")

\* The first change after a save, or of a new message, sets no timer.
Type(t) ==
    /\ MayEdit
    /\ t # editor.text
    /\ editor' = [editor EXCEPT !.text = t]
    /\ edits' = edits + 1
    /\ latest' = [latest EXCEPT ![editor.msg] = t]
    /\ timer' = Debounce(t, baseline)
    /\ UNCHANGED <<scenario, draftId, baseline, lastSaved, taskVars, toast, serverVars, started, released, reopened>>

\* Attaching a file is no change of the fields the debounce watches.
Attach ==
    /\ MayEdit
    /\ May("attach")
    /\ ~editor.files
    /\ editor' = [editor EXCEPT !.files = TRUE]
    /\ edits' = edits + 1
    /\ UNCHANGED <<scenario, draftId, baseline, timer, lastSaved, taskVars, toast, serverVars, started, latest, released, reopened>>

\* Mutant: "Clear" empties the fields and keeps draftIdRef.
ClearKeepsDraft ==
    /\ Shown
    /\ Undisturbed
    /\ Settled
    /\ sending.pc = "idle"
    /\ started < MaxMessages
    /\ started' = started + 1
    /\ released' = released \cup {editor.msg}
    /\ editor' = [NoEditor EXCEPT !.shown = editor.shown, !.msg = started + 1]
    /\ baseline' = None
    /\ timer' = FALSE
    /\ UNCHANGED <<scenario, draftId, lastSaved, taskVars, toast, serverVars, edits, latest, reopened>>

\* "Clear", once confirmed, forgets the draft as well; it stays stored.
ClearCompose ==
    /\ Shown
    /\ Undisturbed
    /\ Settled
    /\ sending.pc = "idle"
    /\ started < MaxMessages
    /\ started' = started + 1
    /\ released' = released \cup {editor.msg}
    /\ editor' = [NoEditor EXCEPT !.shown = editor.shown, !.msg = started + 1]
    /\ draftId' = None
    /\ baseline' = None
    /\ timer' = FALSE
    /\ UNCHANGED <<scenario, lastSaved, taskVars, toast, serverVars, edits, latest, reopened>>

\* Fetches and decrypts a stored draft for the editor.
FetchDraft(d) ==
    /\ Stored(d)
    /\ Settled
    /\ Room
    /\ opening = None
    /\ ~Shown
    /\ opening' = [id |-> d, msg |-> drafts[d].msg, text |-> drafts[d].text]
    /\ UNCHANGED <<scenario, editorVars, lastSaved, chain, closing, sending, serverVars, userVars>>

EditDraft(d) ==
    /\ Undisturbed
    /\ FetchDraft(d)
    /\ UNCHANGED toast

\* "Open" on the toast of a saved draft.
OpenSaved ==
    /\ toast.kind = "saved"
    /\ FetchDraft(toast.id)
    /\ toast' = NoToast

OpenDraftEditor ==
    /\ opening # None
    /\ ApplySeed([shown |-> "full", msg |-> opening.msg, text |-> opening.text,
                  files |-> FALSE, mode |-> "draft"], opening.id)
    /\ opening' = None
    /\ reopened' = reopened \cup {opening.msg}
    /\ UNCHANGED <<scenario, lastSaved, chain, closing, sending, toast, serverVars, edits, started, latest, released>>

\* A draft that cannot be decrypted stays closed and intact.
EditDraftFails ==
    /\ opening # None
    /\ May("refuseSave")
    /\ opening' = None
    /\ UNCHANGED <<scenario, editorVars, lastSaved, chain, closing, sending, toast, serverVars, userVars>>

-----------------------------------------------------------------------------
(* Saving a draft *)

Payload == <<editor.text, draftId>>

\* The early returns of saveDraftOnce.
NothingToSave == ~HasUserContent \/ Payload = lastSaved

\* Mutant: a save does not say which draft it replaces.
CaptureForgetsDraft(task) ==
    [task EXCEPT !.pc = "sealed", !.msg = editor.msg, !.text = editor.text]

\* What a save captures before it seals the message and calls the server.
Capture(task) ==
    [task EXCEPT !.pc = "sealed", !.msg = editor.msg, !.text = editor.text, !.prev = draftId]

\* The server stores the new draft and destroys the one it replaces.
StoreDraft(task) ==
    /\ drafted < MaxDrafts
    /\ drafted' = drafted + 1
    /\ drafts' = [[d \in Draft |-> IF d = task.prev THEN None ELSE drafts[d]]
                      EXCEPT ![drafted + 1] = [msg |-> task.msg, text |-> task.text]]
    /\ UNCHANGED sent

\* What a save does with the server's answer, whatever the editor holds now.
SaveSucceeds(task) ==
    /\ draftId' = task.id
    /\ lastSaved' = <<task.text, task.prev>>
    /\ baseline' = Snapshot

\* Mutant: a send that waits for nothing.
WaitingForNone(task) == [task EXCEPT !.pc = "settling"]

\* A save or a send that waits for the autosaves it found under way.
Waiting(task) == [task EXCEPT !.pc = "settling", !.ahead = Len(chain)]
Advance(task) == [task EXCEPT !.ahead = IF @ > 0 THEN @ - 1 ELSE 0]

\* Mutant: a timer that fires while a save is under way is let go.
AutosaveFiresAlone ==
    /\ timer
    /\ timer' = FALSE
    /\ chain' = IF chain = <<>> THEN <<[NoTask EXCEPT !.pc = "queued"]>> ELSE chain
    /\ UNCHANGED <<scenario, editor, draftId, baseline, lastSaved, closing, sending, opening, toast, serverVars, userVars>>

AutosaveFires ==
    /\ timer
    /\ timer' = FALSE
    /\ chain' = Append(chain, [NoTask EXCEPT !.pc = "queued"])
    /\ UNCHANGED <<scenario, editor, draftId, baseline, lastSaved, closing, sending, opening, toast, serverVars, userVars>>

AutosaveEnds ==
    /\ chain' = Tail(chain)
    /\ closing' = Advance(closing)
    /\ sending' = Advance(sending)

AutosaveStarts ==
    /\ chain # <<>>
    /\ Head(chain).pc = "queued"
    /\ \/ /\ NothingToSave
          /\ AutosaveEnds
       \/ /\ ~NothingToSave
          /\ chain' = [chain EXCEPT ![1] = Capture(@)]
          /\ UNCHANGED <<closing, sending>>
    /\ UNCHANGED <<scenario, editorVars, lastSaved, opening, toast, serverVars, userVars>>

AutosaveStored ==
    /\ chain # <<>>
    /\ Head(chain).pc = "sealed"
    /\ StoreDraft(Head(chain))
    /\ chain' = [chain EXCEPT ![1].pc = "stored", ![1].id = drafted + 1]
    /\ UNCHANGED <<scenario, editorVars, lastSaved, closing, sending, opening, toast, userVars>>

AutosaveSucceeds ==
    /\ chain # <<>>
    /\ Head(chain).pc = "stored"
    /\ SaveSucceeds(Head(chain))
    /\ AutosaveEnds
    /\ UNCHANGED <<scenario, editor, timer, opening, toast, serverVars, userVars>>

Fails(task) ==
    \/ task.pc = "sealed" /\ May("refuseSave")
    \/ task.pc = "stored" /\ May("lose")

\* The editor shows "Draft not saved"; the next edit tries again.
AutosaveFails ==
    /\ chain # <<>>
    /\ Fails(Head(chain))
    /\ AutosaveEnds
    /\ UNCHANGED <<scenario, editorVars, lastSaved, opening, toast, serverVars, userVars>>

-----------------------------------------------------------------------------
(* Closing *)

\* The server destroys a draft, or the request fails.
Discard(d) ==
    \/ /\ d \in Draft
       /\ drafts' = [drafts EXCEPT ![d] = None]
    \/ /\ d \notin Draft \/ May("refuseDiscard")
       /\ UNCHANGED drafts

CloseUntouched ==
    /\ ~HasUserContent /\ ~editor.files
    /\ Discard(IF editor.mode = "draft" THEN None ELSE draftId)
    /\ Dismiss
    /\ UNCHANGED <<closing, toast>>

CloseSaved ==
    /\ HasUserContent /\ ~IsDirty /\ ~editor.files
    /\ Dismiss
    /\ toast' = IF draftId = None THEN toast ELSE [kind |-> "saved", id |-> draftId]
    /\ UNCHANGED <<closing, drafts>>

CloseAfterSave ==
    /\ (HasUserContent /\ IsDirty) \/ editor.files
    /\ closing.pc = "idle"
    /\ Room
    /\ closing' = Waiting(NoTask)
    /\ timer' = FALSE
    /\ UNCHANGED <<editor, draftId, baseline, toast, drafts>>

RequestComposeClose ==
    /\ Shown
    /\ Undisturbed
    /\ sending.pc = "idle" \/ May("hasty")
    /\ CloseUntouched \/ CloseSaved \/ CloseAfterSave
    /\ UNCHANGED <<scenario, lastSaved, chain, sending, opening, drafted, sent, userVars>>

\* Mutant: closing goes on when the save has failed.
FinishCloseAnyway(saved) ==
    /\ closing' = NoTask
    /\ toast' = IF saved = None THEN toast ELSE [kind |-> "saved", id |-> saved]
    /\ editor' = NoEditor

\* The end of saveDraftAndClose: `saved` is the draft flush returned.
FinishClose(saved) ==
    LET failed == saved = None /\ HasUserContent
    IN  /\ closing' = NoTask
        /\ \/ /\ failed
              /\ toast' = [kind |-> "failed", id |-> None]
              /\ UNCHANGED editor
           \/ /\ ~failed /\ editor.files
              /\ toast' = [kind |-> "files", id |-> saved]
              /\ UNCHANGED editor
           \/ /\ ~failed /\ ~editor.files
              /\ toast' = IF saved = None THEN toast ELSE [kind |-> "saved", id |-> saved]
              /\ editor' = NoEditor

\* Dismissing clears the refs; a close that stops leaves them alone.
KeepOrDismiss ==
    IF editor' = NoEditor
    THEN draftId' = None /\ baseline' = None /\ timer' = FALSE
    ELSE UNCHANGED <<draftId, baseline, timer>>

CloseFlushes ==
    /\ closing.pc = "settling"
    /\ closing.ahead = 0
    /\ \/ /\ NothingToSave
          /\ FinishClose(draftId)
          /\ KeepOrDismiss
       \/ /\ ~NothingToSave
          /\ closing' = Capture(closing)
          /\ UNCHANGED <<editorVars, toast>>
    /\ UNCHANGED <<scenario, lastSaved, chain, sending, opening, serverVars, userVars>>

CloseStored ==
    /\ closing.pc = "sealed"
    /\ StoreDraft(closing)
    /\ closing' = [closing EXCEPT !.pc = "stored", !.id = drafted + 1]
    /\ UNCHANGED <<scenario, editorVars, lastSaved, chain, sending, opening, toast, userVars>>

CloseSucceeds ==
    /\ closing.pc = "stored"
    /\ FinishClose(closing.id)
    /\ IF editor' = NoEditor
       THEN /\ draftId' = None /\ baseline' = None /\ timer' = FALSE
            /\ lastSaved' = <<closing.text, closing.prev>>
       ELSE /\ SaveSucceeds(closing)
            /\ UNCHANGED timer
    /\ UNCHANGED <<scenario, chain, sending, opening, serverVars, userVars>>

CloseFails ==
    /\ Fails(closing)
    /\ FinishClose(None)
    /\ KeepOrDismiss
    /\ UNCHANGED <<scenario, lastSaved, chain, sending, opening, serverVars, userVars>>

\* "Discard" on the toast of a failed save.
DiscardUnsaved ==
    /\ toast.kind = "failed"
    /\ toast' = NoToast
    /\ released' = IF Shown THEN released \cup {editor.msg} ELSE released
    /\ Discard(draftId)
    /\ Dismiss
    /\ UNCHANGED <<scenario, lastSaved, taskVars, drafted, sent, edits, started, latest, reopened>>

\* "Close anyway" on the toast about attachments.
CloseWithoutFiles ==
    /\ toast.kind = "files"
    /\ Dismiss
    /\ toast' = IF toast.id = None THEN NoToast ELSE [kind |-> "saved", id |-> toast.id]
    /\ UNCHANGED <<scenario, lastSaved, taskVars, serverVars, userVars>>

\* "Discard" on the toast of a saved draft.
DiscardSaved ==
    /\ toast.kind = "saved"
    /\ toast' = NoToast
    /\ released' = IF Stored(toast.id)
                   THEN released \cup {drafts[toast.id].msg} ELSE released
    /\ Discard(toast.id)
    /\ UNCHANGED <<scenario, editorVars, lastSaved, taskVars, drafted, sent, edits, started, latest, reopened>>

ToastExpires ==
    /\ toast # NoToast
    /\ toast' = NoToast
    /\ UNCHANGED <<scenario, editorVars, lastSaved, taskVars, serverVars, userVars>>

-----------------------------------------------------------------------------
(* Sending *)

SendMessage ==
    /\ Shown
    /\ Undisturbed
    /\ HasUserContent
    /\ sending.pc = "idle"
    /\ closing.pc = "idle" \/ May("hasty")
    /\ sending' = [Waiting(NoTask) EXCEPT !.msg = editor.msg, !.text = editor.text,
                       !.prev = draftId, !.full = (editor.shown = "full")]
    /\ timer' = FALSE
    /\ UNCHANGED <<scenario, editor, draftId, baseline, lastSaved, chain, closing, opening, toast, serverVars, userVars>>

\* The server queues the mail; only then does its draft go.
QueueMail(m, t) == sent' = sent \cup {<<m, t>>}

\* The autosaves have settled: the send replaces the draft stored by now.
SendQueued ==
    /\ sending.pc = "settling"
    /\ sending.ahead = 0
    /\ QueueMail(sending.msg, sending.text)
    /\ sending' = [sending EXCEPT !.pc = "stored",
                                  !.prev = IF draftId # None THEN draftId ELSE @]
    /\ UNCHANGED <<scenario, editorVars, lastSaved, chain, closing, opening, toast, drafts, drafted, userVars>>

\* Once the mail is out its draft goes, and the editor is reset.
SendSucceeds ==
    /\ sending.pc = "stored"
    /\ \/ drafts' = [d \in Draft |-> IF d = sending.prev THEN None ELSE drafts[d]]
       \/ May("refuseDiscard") /\ UNCHANGED drafts
    /\ sending' = NoTask
    /\ Dismiss
    /\ UNCHANGED <<scenario, lastSaved, chain, closing, opening, toast, drafted, sent, userVars>>

\* The full-size editor hides after a send, whether or not it went out.
SendFails ==
    /\ \/ sending.pc = "settling" /\ sending.ahead = 0 /\ May("refuseSend")
       \/ sending.pc = "stored" /\ May("lose")
    /\ sending' = NoTask
    /\ editor' = [editor EXCEPT !.shown = IF sending.full /\ @ = "full" THEN "no" ELSE @]
    /\ UNCHANGED <<scenario, draftId, baseline, timer, lastSaved, chain, closing, opening, toast, serverVars, userVars>>

-----------------------------------------------------------------------------
User ==
    \/ StartMessage
    \/ Expand
    \/ Shown /\ \E t \in TextsOf(editor.msg) \cup {Seed} : Type(t)
    \/ Attach
    \/ ClearCompose
    \/ \E d \in Draft : EditDraft(d)
    \/ OpenSaved
    \/ RequestComposeClose
    \/ DiscardUnsaved
    \/ CloseWithoutFiles
    \/ DiscardSaved
    \/ SendMessage

Program ==
    \/ OpenDraftEditor
    \/ AutosaveFires \/ AutosaveStarts \/ AutosaveStored \/ AutosaveSucceeds
    \/ CloseFlushes \/ CloseStored \/ CloseSucceeds
    \/ SendQueued \/ SendSucceeds

Failure ==
    \/ EditDraftFails
    \/ AutosaveFails
    \/ CloseFails
    \/ SendFails

Next == User \/ Program \/ Failure \/ ToastExpires

Spec == Init /\ [][Next]_vars

\* Timers fire; requests are assumed to be answered or refused, which no timeout
\* of the app sees to.  The user need not do anything.
FairSpec == Spec /\ WF_vars(Program)
-----------------------------------------------------------------------------
(* Properties *)

SnapshotOf == Text \X BOOLEAN
MaybeDraft == Draft \cup {None}
Task == [pc : {"idle", "queued", "settling", "sealed", "stored"}, ahead : Nat,
         msg : Message \cup {0}, text : Text, prev : MaybeDraft, id : MaybeDraft,
         full : BOOLEAN]

TypeOK ==
    /\ scenario \in Scenarios
    /\ editor \in [shown : {"no", "panel", "full"}, msg : Message \cup {0},
                   text : Text, files : BOOLEAN, mode : {"new", "draft"}]
    /\ draftId \in MaybeDraft
    /\ baseline \in SnapshotOf \cup {None}
    /\ lastSaved \in (Text \X MaybeDraft) \cup {None}
    /\ timer \in BOOLEAN
    /\ chain \in Seq(Task)
    /\ closing \in Task
    /\ sending \in Task
    /\ opening \in [id : Draft, msg : Message, text : Text] \cup {None}
    /\ toast \in [kind : {"none", "saved", "failed", "files"}, id : MaybeDraft]
    /\ drafts \in [Draft -> [msg : Message, text : Text] \cup {None}]
    /\ drafted \in 0 .. MaxDrafts
    /\ sent \subseteq Message \X Text
    /\ edits \in 0 .. MaxEdits
    /\ started \in 0 .. MaxMessages
    /\ latest \in [Message -> Text]
    /\ released \subseteq Message
    /\ reopened \subseteq Message

DraftsOf(m) == {d \in Draft : Stored(d) /\ drafts[d].msg = m}
IsStored(m, t) == \E d \in DraftsOf(m) : drafts[d].text = t
InEditor(m) == Shown /\ editor.msg = m
BeingSaved(m, t) ==
    \/ \E i \in DOMAIN chain : chain[i].pc = "sealed" /\ chain[i].msg = m /\ chain[i].text = t
    \/ closing.pc = "sealed" /\ closing.msg = m /\ closing.text = t

\* What the user last wrote in a message is in front of them, stored as a
\* draft or on its way there, sent, or thrown away by the user, and only a reply
\* or a forward begun over unsaved text drops it silently.  No other order of
\* autosaves, closing, reopening, failures and sending does
\* (use-mail-compose-controller.tsx:205), as long as the user waits for a save
\* before typing on and leaves no message while it is being saved or sent.
NoSilentLoss ==
    Only({"attach", "replace", "refuseSave", "refuseDiscard"}) => \A m \in Message :
        \/ latest[m] = Seed
        \/ m \in released
        \/ InEditor(m)
        \/ IsStored(m, latest[m])
        \/ BeingSaved(m, latest[m])
        \/ <<m, latest[m]>> \in sent

\* The user types on during saves, which may fail, but leaves no message while
\* it is being saved or sent.
Typing == {"typeDuringSave", "replace", "refuseSave", "refuseSend"}

\* Every autosave replaces the draft of the one before, so a message leaves
\* one draft however its saves are timed and whichever fail, as long as it is
\* not left while they run (use-compose-draft-autosave.ts:204).
OneDraftPerMessage ==
    Only(Typing) /\ Quiet => \A m \in Message : Cardinality(DraftsOf(m)) <= 1

\* A send replaces the draft that is actually stored: once it is over, the
\* message is in the Sent mailbox and not among the drafts
\* (mail-compose-bridge.ts:46).
SentLeavesNoDraft ==
    Only(Typing) /\ Quiet => \A s \in sent : DraftsOf(s[1]) = {}

\* A stored draft goes when a later text of the same message replaces it, when
\* the message is sent or when the user discards it; a save of another message
\* never takes it away (use-compose-draft-autosave.ts:169), unless the user
\* turns to that message while the first one's save is under way.
DraftsReplacedByOwn ==
    [][~May("hasty") => \A d \in Draft :
          Stored(d) /\ drafts'[d] = None /\ drafted' # drafted
              => drafts'[drafted'].msg = drafts[d].msg]_vars

\* Once the debounce runs, what stands in the editor does not stay unstored:
\* unless the user edits it again it is saved, if the server accepts it, also
\* when the timer fires while an earlier text is being saved
\* (use-compose-draft-autosave.ts:262).  Without a timer, after a single change,
\* it waits for the next change or the close.
Unstored == Shown /\ HasUserContent /\ ~IsStored(editor.msg, editor.text)
AutosaveLands ==
    \A n \in 1 .. MaxEdits :
        Only({"attach", "replace", "typeDuringSave"}) /\ edits = n /\ timer /\ Unstored
            ~> edits # n \/ ~Unstored
=============================================================================
