# Solace: a TLA+ model of the calendar and mail platform's core

This directory is a verification project for the repository beside it (Solace: a calendar and mail
platform with a Rust API, a Rust notification worker, a Next.js web app and two Expo apps). It holds
TLA+ modules that model the parts of the servers and of the clients where concurrency, failure and
time meet, TLC configurations that check them on small instances, and TLAPS proofs of safety
properties for every size of the system.

## 1. Inventory

Paths are relative to `src/`. "State" is what a part keeps between requests.

| Part | State | Operations | Hard behaviour | What makes it correct |
|---|---|---|---|---|
| Notification worker (`apps/notifications/src/{main,worker,jobs,schedule}.rs`) | `notification_job` rows: status, attempts, `available_at`, payload; running ticks | `claim_due`, `claim_pending`, dispatch by mail or push, `mark_sent`, `mark_failed`, `skip`, drain at shutdown | overlapping ticks and processes, tick timeout against lease, lost answers, crashes between two statements | a job has one holder, attempts are bounded, an email is neither lost nor repeated, every job settles |
| APNs client (`apns.rs`) | cached bearer token | send, environment fallback | answer lost after delivery | every answer is retried or final, never both |
| Retention (`retention.rs`) | age of logs and jobs | hourly batches | two cleaners at once | only settled rows go |
| Reminder schedule (`apps/backend/src/notifications`, `events/service.rs`) | `event_notification` rows; `calendar_event.start`, `reminder`, `updated_at` | set, delete, seal reminders; create, update, duplicate, move, delete events | the rebuild after an update is a sequence of statements; the worker claims in between | rows agree with the event, none doubled, none outlives it |
| Push devices (`push_devices.rs`) | `push_device` rows by token | register, unregister, environment switch | a token that changes accounts | a token belongs to its last registrant |
| Mail push outbox (`mail/push.rs`, `mail/webhook.rs`) | `new_mail` jobs | webhook ingest, coalescing enqueue | check-then-insert | one job per email |
| Mail sync, realtime (`mail/sync.rs`, `mail/realtime.rs`) | per-account locks, subscribers | sync, fan-out, reconnect | missed wake-ups, stale cursors | a change is eventually seen |
| Mail provisioning (`mail/service.rs`) | mailbox rows, Stalwart principals | provision, alias, delete | two systems without a common transaction | no orphan on either side |
| Authentication (`auth`) | sessions, verifications, rate limits, hash permits | sign in, one-time tokens, two-factor | a token used twice at once | single use, bounded attempts |
| Account deletion (`account`) | everything above | ordered deletes | partial failure | repeatable until done |
| Subscriptions (`subscriptions`) | feeds, leases, synced events | scheduler, refresh | lease expiry during a fetch | one refresher per feed |
| Calendars, categories (`calendars`, `categories`) | default flag, order | create, delete, reorder | two defaults at once | exactly one default |
| Invites, invitations (`invites`, `invitations`, `events/rsvp.rs`) | use counts, attendee copies | redeem, import, respond, purge | last use redeemed twice | uses never exceed the limit |
| Recurring events (`recurring`) | series rows, exceptions | edit, split, delete | series edited beneath its reminders | expansion follows the rule |
| E2EE store (`e2ee`) | password envelope and device rows per account | upload, replace at a password change, register and drop devices | an upload crosses a password change | the sign-in password opens the envelope |
| Composing mail (`apps/web/components/mail`, `hooks/use-compose-draft-autosave.ts`) | the editor, refs beside it (`draftId`, baseline, last saved payload), a chain of saves | type, autosave, close, reopen, discard, send | a save's end writes to the refs of whatever the editor holds by then | nothing written is dropped, one draft per message, none once it is sent |
| Message list (`apps/web/hooks/use-mail-app.ts`, `lib/mail/mail-list-merge.ts`) | rows, total, moves that can be undone | open, page, refresh, move, delete, undo, merge a sync | handlers use the list they were rendered with | the rows have no gap and no ghost, an undo holds |
| Account keys (`apps/web/lib/e2ee-*.ts`, `packages/e2ee`, `packages/native-core`) | device id, key pair and salt on disk, key in memory | bootstrap, mint, unwrap, register, change password, sign out | killed between two writes, two clients at once, two accounts on a phone | the key is never lost, and gone with the session when it can be brought back |
| Secure storage (`packages/native-core/src/lib/secure-store-chunked.ts`) | base item and chunks in four layouts | read, write, remove | crash between two items, deletions nobody awaits | a register |
| Native session (`providers/AuthProvider.tsx`, `lib/session-cookie.ts`, `lib/api.ts`) | cookie jar, token in memory, the session shown, load ids | load, sign in, refresh, renew, sign out | late answers of an earlier session | who signed out stays out, and only an ended session is wiped |
| Push registration (`lib/push-notifications.ts`, `providers/PushProvider.tsx`) | stored token, registration in flight | register, force, unregister at sign-out | sign-out against a registration in flight | pushes go to who is signed in |
| Event cache (`apps/native-calendar`) | one list per range, written ahead | create, move, delete, roll back, invalidate, seed, prefetch | refused mutations, answers older than what was written ahead | the screen ends at the truth |
| API client (`packages/calendar-client/src/http-client.ts`) | attempts of a call | send, time out, repeat | an attempt given up is applied later | a POST is applied once |

How they interact: the API (`apps/backend`) and the worker (`apps/notifications`) share only the
Postgres database. The API writes `event_notification` rows; the worker claims due ones, queues
`notification_job` rows in the same transaction and delivers those. The API also queues `new_mail`
jobs and keeps the `push_device` rows that the worker reads. There is no lock between the two beyond
row locks (`FOR UPDATE SKIP LOCKED`) and the lease in `available_at`.

The clients share only the API and the JMAP server behind it; on a phone the session, the account
keys and the push registration share one sign-out (`AuthProvider`) and one secure storage.

`PROJECT.json` lists every part with its status, and the hazards with the line where each bites.

## 2. Modules

| Module | Models |
|---|---|
| `NotificationWorker` | the worker's ticks, jobs, deliveries, timeouts, crashes and deploys |
| `ReminderSchedule` | the reminders of one event as the API keeps them |
| `ComposeDraft` | writing mail in the web app, and its drafts on the server |
| `MailboxList` | the message list of the web app, and the folders on the server |
| `E2eeKeys` | the account keys on phones, in browsers and on the server |
| `ChunkedStore` | one value in a phone's secure storage |
| `CrashSafeRegister` | what callers rely on from it: the abstract specification `ChunkedStore` implements |
| `NativeSession` | the session of the native apps: cookie jar, screens, late answers |
| `PushDevices` | a phone's push token between the app, the API and the worker |
| `EventCache` | the event lists of the native calendar, written ahead of the server |
| `HttpClient` | calls, attempts and retries of the API client |
| `...Proofs` | theorems about the module of that name, which they extend |
| `WebAppProofs` | theorems about `HttpClient`, `MailboxList` and `ComposeDraft`, which it extends |
| `MC...` | the instances TLC checks, in a module that extends the one of that name |

### Scenarios

Many modules have a variable `scenario` (in `MailboxList` `listScenario`: names that the web app's
models would share have a prefix), chosen once in `Init` from the constant `Scenarios` and never
changed: the set of things that may happen besides the ordinary (a save is refused, the app
is killed, two requests overlap, ...), and sometimes bounds. It keeps one specification for all of
them: an action that belongs to a behaviour has the guard `May("...")`. A property that the code
guarantees only while some behaviour is absent says so in its first conjunct (`Only(...)`,
`Ordinary`, `Undisturbed`, `Patient`, `~May(...)`); section 3 says for each what happens otherwise.

### NotificationWorker

One account with reminders, devices and settings, and any number of worker processes, each with
several ticks that may overlap. A job row is a reminder, a channel and a copy number.

| Model | Code |
|---|---|
| `reminder`, `prefs`, `gone`, `device` | `event_notification.is_sent` and its due time, settings, deleted events, enabled `push_device` rows |
| `status`, `fallback`, `attempts`, `wait` | columns of `notification_job`; `wait` is the time left until `available_at` |
| `pc`, `left`, `claim`, `cur`, `todo`, `allSent` | the local state of `Worker::process` and what it awaits |
| `mode`, `drain` | a process: running, draining after a stop signal, stopped |
| `budget` | crashes, timeouts, deploys and failed or unanswered statements the environment may still cause |
| `tries`, `mails`, `got` | history: what was handed to the mail server and APNs, and what arrived |

`StartTick` is the interval of `run_ticks`; `ClaimDue` and `ClaimPending` are the two claims, each
one transaction or statement that may also fail or take effect without an answer; `Dispatch` is
`dispatch` up to the delivery (exhausted attempts, missing configuration, no device, event gone);
`SendMail` and `SendToDevice` are one request each with all its outcomes; `MarkSent`, `MarkFailed`
and `Skip` write the outcome back, `Skip` together with the fallback email. `TickTimesOut`, `Crash`,
`Shutdown`, `Exit` and `Restart` drop ticks at any await. Instants are kept as the time left until
them, so that time need not be bounded. `TimePasses` does not pass a deadline that nobody has acted
on: tokio's timers are taken to be punctual at the model's grain (a unit is several seconds). This
is the one assumption on time; the lease property rests on it.

Wording, payload layout, logs and the status page are left out; a payload is `emailFallback` only.

### ReminderSchedule

One event, its `reminder` column, its `event_notification` rows and any number of API requests.

| Model | Code |
|---|---|
| `event`, `version` | the `calendar_event` row and its `updated_at`, which every write renews |
| `rows` | `event_notification` rows; `of` is the start their instant was computed from, `copy` tells equal rows apart |
| `pc`, `seen`, `ask`, `from`, `asOf`, `todo` | the local state of a request between its statements |
| `scenario` | what the event is (own, series, invitation), whether its requests come one after the other, and how many there are |
| `missed` | rows inserted since a delete of the reminders took its snapshot |
| `broken` | history since the settings were last saved: a rebuild was cut off, or overtaken by the event's start, or a delete crossed a save |

`BeginUpdate` to `InsertNext` are the statements of `update` and `reschedule_reminders`: read, write
if `updated_at` is what was read, read the rows, delete them, insert them one by one. `BeginSet` and
`CommitSet` are `notifications::set`, whose writes are one transaction: its first statement updates
the event's row, so two of them wait for each other. `DeleteReminders` and `ClearReminder` are the two
statements of `notifications::delete`: it locks the event's row only with the second one, so a save
may commit between them, whose rows the first has not seen. `PurgeReminders` and `PurgeEvent` are
`rsvp::purge`. `EditSeries` and `ImportInvitation` write the event and leave its reminders.
`Abort` is a statement that fails, or the end of the process, between any two statements.

Assumptions: two writes of an event never get the same `updated_at` (a millisecond clock), and a
setting that is switched off is left out of the set a save asks for, as it leaves no row. Encrypted
titles and leads, time zones and local dates are not modelled.


### ComposeDraft

`editor`, `draftId`, `baseline`, `lastSaved` and `timer` are the state and the refs of
`use-mail-compose-controller.tsx` and `use-compose-draft-autosave.ts`; `chain` is the chained
autosaves (`inflightSaveRef`), `closing`, `sending` and `opening` the promises of those names;
`drafts`, `drafted` and `sent` are the server's mailboxes. `latest`, `released` and `reopened` are
history. A promise is a task with a step counter and what it captured; each stretch of code between
two awaits is one step, and so is the server's `Email/set`, which stores a draft and destroys the
one it replaces in one request. Texts are numbers: the seed, and the wordings of each message.
`Debounce` is the effect that sets the timer; being a child's, it asks `isComposeDirty` before the
parent's effect has brought `draftRef` up to date, so it compares the fields before the change.
`StartMessage` covers a reply, a forward and a message to a recipient as well as a new one; under
"replace" the first three begin over a message that stands in the editor.

### MailboxList

`list` is a set because the code sorts it by `receivedAt` after every change; messages are numbered
by age. `tasks` are requests under way with the rows, position and folder their handlers captured.
`getMailboxMessages` does not ask for the number of matches (`jmap-client.ts:866`), so a folder's
total is 0 unless a short page has shown where the folder ends;
`undos` are the toasts whose move has not been sent yet (`deferMailAction`). `changed` and `sync`
are the realtime channel: a sync reports every change since the last one, and merges into the list
of the moment it is applied, while a refresh merges into the list of the moment it was started.
`Patient` is the condition of the properties: the user waits for answers, no deletion is refused, and
others change mail only while the app waits for nothing; `Arrive` and `MovedElsewhere` are those
changes.

### E2eeKeys

The server's `envelope` and `rows`, and for each client the slots of `disk`, the key in memory
(`session`) and the promises `boot` and `leave`. The actions are the steps of
`bootstrap`, of `registerDeviceForSession`, of `changePassword` and of sign-out, split at every
request and every write to disk: a phone writes id, key and salt one by one (`WriteDisk`) into one
slot whoever is signed in, a browser writes a record per account in one transaction
(`WriteRecord`). Keys, devices and envelopes are numbered as they are made; wrapping opens exactly
with the right key pair or password. `Fetch` is the bootstrap's answer together with the record read
from the disk beside it, which later steps use as it was read. The copy of the own keys is written
with the key pair, and a client runs one bootstrap at a time.

An upload of an envelope is two steps: the server finds the session (`Ask`), then replaces the row,
whatever has become of that session (`Seal`, `Reseal`). A password change is two as well: password and
envelope (`ChangePassword`), then the end of the other sessions (`Revoke`). When the app is killed, a
request it has made has either taken effect or not by the time the app is up again. A phone's launch
finds its session, finds none and wipes, or cannot ask and wipes nothing (`Restart`, `leave` is
"unseen"). What can go together is named in `Behaviours`; four of the five properties fail in the code
under one of them and say so in their condition:

* `KeyNeverLost` and `OneKey` leave out starts at once ("race") and first envelopes from a phone that
  keeps a device ("over"); `KeyNeverLost` also phones that change hands (`Unshared`) and "cross";
* `SaltVouches` leaves out "over" on a phone: `uploadPasswordEnvelope` writes the salt as soon as the
  envelope is up, before the slot's old key has gone (`WriteDisk` at "sealed");
* `PasswordOpens` leaves out "cross": a change that crosses an upload, or is cut between its statements;
* `GoneWithSession` leaves out sessions that end in the middle of a start ("leave"), and a phone whose
  last launch could not ask for its session.

Two password changes at once, and a browser that keeps its session because the sign-out request failed
and then goes on using it in the same tab, are left to the user's next act.

### ChunkedStore and CrashSafeRegister

`base` and `chunks` are the items of the secure store; four layouts are read and one is written, and
the Better Auth client (external) writes two more. `call` is the asynchronous or synchronous call under
way, step by step; `background` the chunks whose deletion nobody awaits; `Crash` ends everything but
the items and the deletions already handed over. `Register` maps what a read would return and the
value being written to `CrashSafeRegister`, whose write may blank, commit or be abandoned.

### NativeSession

`jar` and `fallback` are the cookie on disk and in memory, `shown`, `hasLive`, `loadId` and
`loading` the state and refs of `AuthProvider`, `task` the running promise of each kind (load,
refresh, reading the profile, a renewing call, a refused call, sign-in, sign-out). `valid` is the server's.
Every promise is split at its awaits, with the load-id checks where the code makes them. A sign-out
makes its requests for the devices, empties the jar and asks (`AskSignOut`), waits for the server
(`SignOutServed`), wipes and clears (`SignedOut`). Sign-up,
passkey sign-in and the passkey step-up are not modelled.

### PushDevices

`stored`, `last`, `due`, `reg` and `leave` are the phone's side; `reqs` are requests on the server,
which go on when the phone gives up on them; `row` is the account the token's row belongs to
(`token_hash` is unique). `jar` is the account whose cookie the phone has: a launch signs it in, unless
its session check fails (`Restart`). `inherited` is history: the stored token was there before the
account signed in. Under "fail" secure storage refuses too: a token may not be read, stored or
deleted. `Retention` and the worker's delete are the server's own. There is one token: rotation is not
modelled.

### EventCache

A range and the place of an event are sets of days. `data`, `stale` and `fetch` are the query
library's state per range (external, from its use: what is written by hand counts as fresh, an
invalidated range is read again at once on the screen and when next shown otherwise). `mut` and
`ref` are the mutations and the snapshot refs of the hooks. Everything happens within the 60 s of
`staleTime`; failing reads, recurring events and the collection of unused queries are left out.

### HttpClient

Per call the attempt under way, per attempt what the network has made of it. Headers are resolved
once per request (`Resolved`), as `makeRequest` does with the native apps' `getHeaders`; a browser's
cookies follow the session instead, so `OneIdentity` is about the native apps. The timeout is for the
headers of an answer only (`Answered` against `Timeout`): its body may break off (`BodyRead`) or never
come, and the headers of a request may never be resolved, since neither wait has a timeout.
`EveryCallEnds` says that these are the only two: it starts where a request was sent, and allows a
call to read for ever.

## 3. Runs

Bounds are chosen so that each of the named situations happens; the mutants in `PROJECT.json` show
that each property notices the bug it is about.

| Run | Checks | Instance |
|---|---|---|
| `worker` | `LeaseExclusive`, `OnlyDisruptionsRemail`, `OnlyDisruptionsRequeue`, `EmailNotLost` | two processes, a reminder by mail and push (deferred or side by side), a device that comes and goes, one disruption of any kind |
| `worker_live` | `RemindersSettle` | one process, one disruption, fairness |
| `worker_duplicate` | `NoDuplicateReminder`: violated | two devices, no disruption |
| `schedule` | `ColumnFollowsRows`, `RowsFollowStart`, `OneRowPerLead`, `FiresOnTime`, `NoOrphans`, `ReschedulesCurrentStart` | an own event with three requests one after the other; a series with three and an invitation with four that overlap; one request is cut off; two starts, leads 0 and 2, the clock and the worker beside them |
| `compose` | `NoSilentLoss`, `OneDraftPerMessage`, `SentLeavesNoDraft`, `DraftsReplacedByOwn`, `AutosaveLands` | two messages, three edits, four drafts, six scenarios |
| `store` | `AsyncReadAgrees`, `IsRegister` | two calls, values of up to three chunks, from every layout; with and without waiting for deletions |
| `list` | `NoGap`, `NoGhosts`, `UndoHolds` | five messages on pages of two, five acts; refusals, mail that arrives while pages are left to load, and other clients' moves out of the open folder, or into it too |
| `keys` | `KeyNeverLost`, `OneKey`, `SaltVouches`, `PasswordOpens`, `GoneWithSession` | six scenarios: a phone and a browser one after the other, at once, or with password changes that cross uploads; a phone alone; two accounts on a phone, with and without a first envelope over a kept device; four or five acts; kills, failures, lost answers, launches without an answer |
| `session` | `SignedOutStaysOut`, `OnlyEndedIsWiped`, `CookieFollowsSession`, `SignOutEnds` | two tokens, six acts with restarts, failures and revocations; three acts with everything |
| `http` | `PostAppliedOnce`, `EveryCallEnds` | a POST and a PUT, one retry, two accounts |
| `push` | `DeliversToAccount`, `SignedOutIsSilent`, `InFlightEnds`, `Registers` | two accounts on a phone, five acts; three acts with everything |
| `cache` | `ShownIsTrue`, `NoGhost`, `KeptWhileSaving`, `ShownLoads` | two days, three ranges, two events, two mutations; three scenarios |

Why the bounds are enough: the worker's protocol relates two holders of one job, so two ticks and
one job meet every conflict; three attempts give a first, a repeated and an exhausted one; the
lease is one unit longer than the timeout, the tightest the code's `45 s < 2 min` allows, and the
proofs cover every other choice, as they do for the other safety properties of section 4. The schedule needs a row that exists, one being rebuilt and a
second actor. The client modules need two of whatever may be confused (messages, accounts, tokens,
mutations) and enough acts for one of them to be started, left and overtaken. Processes and
requests that are interchangeable are given as a symmetry set in `worker` and `schedule`, whose
properties do not tell them apart. `CHECK_DEADLOCK FALSE`: once the user's acts, the requests or
the clock are used up, the system rests.

Fairness. `worker_live`: the interval of a running process keeps firing, every await ends (APNs
requests and the connection pool have timeouts, and the tick as a whole has one), a stopped process
is restarted by its host, a draining one exits, and time passes; nothing is assumed of the mail
server or of APNs, which may refuse for ever, or of devices, and the number of disruptions is
finite. In the clients: timers fire, promises go on and local storage answers. Requests need not be
answered, because nothing in the clients sees to it: the HTTP client's timeout ends with the headers
(`http-client.ts:253`), and Better Auth's requests have none. So `HttpClient` has `WF` of what has a timer
or has arrived (`Timed`), `NativeSession` of the last step of a sign-out (`SignedOut`), `PushDevices` of
what the app does once it has its answers (`Own`); their liveness properties say which request may
hold the app up for ever, and that nothing else does. `AutosaveLands` and `ShownLoads` do assume that
the server answers each request or refuses it (`WF` of `Program` in `ComposeDraft` and of `Network` in
`EventCache`): an autosave, or a range, whose answer never comes does wait for ever. Nothing is assumed
of the user.

`IsRegister` is a refinement: every step of `ChunkedStore` is a step of `CrashSafeRegister` under
`Register`, or leaves it as it is. Type invariants (`TypeOK`) are stated in every module; they are
theorems.

### What the code does otherwise

One disagreement is kept as a run:

* `worker_duplicate`: a push that one of two devices accepts and the other does not is retried to
  both, and whatever skips it then queues the email as well: the owner gets both. In the trace the
  device that accepted it is unregistered meanwhile and the other one is gone, so that the retry finds
  no device; a device that rejects every attempt has the same effect. The worker's README promises
  "No duplicate reminders".

The others are what the properties' first conjuncts leave out. Each can be seen by adding the
behaviour to a scenario of the `MC` module and taking the conjunct out.

* Reminders. Two updates of an event at once both delete the old rows before either inserts its own
  (`events/service.rs:684`), and each reminder is doubled: the optimistic lock covers the event's row
  only. Editing a whole series (`recurring/service.rs:409`) and importing an organizer's change leave
  the rows as they are. An event saved after its start has no rows, so moving it to the future
  schedules nothing while its reminder is still shown (`events/service.rs:666`). A rebuild during which the event
  starts inserts no more rows and leaves the column (`events/service.rs:687`,
  `notifications/calculator.rs:98`); moved to the future afterwards, the event shows a reminder that
  is not scheduled. Deleting the reminders of an invitation while its settings are saved leaves the
  saved rows with a column that shows none (`notifications/service.rs:234`). The next save of the
  settings puts each of the last two right, which is why `broken` starts anew with it.
* Composing. Reply and Forward, their shortcuts and a message to a recipient replace what stands in the
  editor without closing it (`use-mail-app.ts:1926`, `use-mail-app-content-controller.tsx:419`): text
  that is not saved is dropped. A single change of a message that counts as unchanged sets no timer
  (`use-compose-draft-autosave.ts:262` reads `draftRef` before `use-mail-compose-controller.tsx:140`
  has updated it) and is stored with the next change or the close; and a draft opened again is saved
  once more unchanged, which replaces it. Text typed while an autosave is under way counts as saved when it ends
  (`use-mail-compose-controller.tsx:149`), and closing before the next one drops it. A send from the
  full-size editor that fails hides the editor (`use-mail-app-content-controller.tsx:585`). A save that
  ends after the user has turned to another message gives that message its draft id
  (`use-compose-draft-autosave.ts:168`). A close that is saving while the message is sent stores a
  draft afterwards (`:234`); a message emptied and closed during its first autosave leaves a draft.
* Message list. No folder has a total, so a further page is offered only while the number of rows is
  a multiple of the page size (`mail-pagination.ts:11`): once a row is moved away or a message
  arrives, older mail is not offered until the folder is opened again or the number fits. (`NoGap`
  says that what is missing is the oldest, not that it is offered.) For the same reason a refresh
  before a sync drops as many rows as mail has arrived (`mail-list-merge.ts:40`), and mail that
  another client moves into the folder is shown above older mail that is not loaded, which the
  position of the next page then skips. A refresh that overlaps a sync brings removed rows back
  (`use-mail-app.ts:2909`).
* Account keys. Two clients of a new account that start at once make two keys, and sign-out may
  forget the one that lost (`native-e2ee-provider.ts:204`). A phone's one slot loses a key kept at
  sign-out when another account signs in (`:175`). A start that is killed twice can leave a device
  row without a key (`E2eeProvider.tsx:293`). A tab closed before the wipe, or a session that ends
  during a bootstrap, leaves the key on disk (`auth-local-state.ts:53`, `native-e2ee-provider.ts:174`).
  A first envelope sent from a phone that still keeps another account's device puts its salt beside
  that device's key (`:325`, before `:174` clears the slot): killed there, the phone's next sign-out
  forgets that key though no envelope is known to hold it, against the comment at `:202`. An upload that the server
  lets in before a password change and stores after it leaves an envelope of the old password
  (`e2ee/routes.rs:113`, `e2ee/queries.rs:185`), and so does one from another session when the change
  stops before it ends the others (`auth/passwords.rs:149`, `:153`). A phone that was killed during
  sign-out and then cannot ask for its session shows nobody and keeps key and salt until a launch can
  (`AuthProvider.tsx:653`, `:656`). In a browser a sign-out whose request fails leaves the cookie, and
  so the session (`auth-local-state.ts:69`). `SaltVouches` without "over", `PasswordOpens` without
  "cross" and `GoneWithSession` of a phone that is "unseen" are violated in the run's scenarios.
* Secure storage. A call that does not wait for the last one's deletions may lose its value to them
  (`secure-store-chunked.ts:181`). Where the Better Auth client does not wait for them either, chunks of
  two values can be joined: it writes over the older slot while the deletions take chunks of the
  newer. It takes four calls, and came to light in the proof.
* Session. `refreshUser` (`AuthProvider.tsx:816`) and `persistSessionTokenCookie`
  (`session-cookie.ts:186`) apply what they bring after a sign-out; the answer to whether a session is
  over may be about another one than it ends (`api.ts:92`). A sign-out whose
  request is never answered leaves the account on the screen and its keys on the disk
  (`AuthProvider.tsx:606`).
* HTTP client. The timeout of an attempt is cleared when the headers of its answer arrive
  (`http-client.ts:253`): a body that stops coming, or `getHeaders` and `onResponseHeaders` that never
  return (`:212`, `:259`), hang the call for good.
* Push. A stored token that outlives its session stops the next account's registration, which reports
  success, and the phone goes on receiving the first account's notifications
  (`push-notifications.ts:180`): after a launch whose session check failed (`AuthProvider.tsx:656`), a
  deletion that secure storage refused (`push-notifications.ts:151`), or a session the server ended
  (`AuthProvider.tsx:427`). `DeliversToAccount` excepts such a token; taking `~inherited` out shows it.
  After retention has deleted the row it stops there too. A sign-out while a registration is in flight
  deletes nothing (`push-notifications.ts:205`). Without the permission to notify nothing is registered,
  and giving it later takes effect with the next launch or forced registration (`PushProvider.tsx:128`).
* Event cache. A refused mutation puts back whole lists, over what others wrote since
  (`optimistic-events.ts:331`), and two creates share a snapshot (`use-event-sheet-mutations.ts:70`); a
  range on its first load misses an event created meanwhile (`optimistic-events.ts:247`); a range first
  shown while a create that is then refused is under way keeps its placeholder.

## 4. Proofs

TLAPS checks the eight proof modules from nothing. A theorem holds for every value of the constants
that satisfies the assumptions named in the module it is about, and every scenario: where a property
starts with a condition on the scenario, the invariant has a part for each such condition
(`Ordinary => Inv`, `Serial => SerialInv`), and a part without condition that gives the types. Every
inductive invariant was an invariant of a TLC run before it was proved.

`NotificationWorkerProofs`, from `TimeAssumption` (`TickTimeout < Lease`, `TickTimeout < Drain`; the
code has 45 s, 2 min and 50 s), `RetryAssumption`, `BoundAssumption` and `SetAssumption`:

* `LeaseExclusiveAlways`, `SentIsFinalAlways`, `AttemptsBoundedAlways`, `EmailNotLostAlways`,
  `DrainCutsNoTickAlways`, `OnlyDisruptionsRemailAlways`, `OnlyDisruptionsRequeueAlways`,
  `TypeCorrect`.
* None of these is inductive as it stands. The invariant that carries them says of every job in a
  tick's hands that the row's lease outlasts the tick (`wait > left`), that the claim counted the
  attempt the row has, and that nobody has marked it sent (`HandInv`). A second claim needs
  `wait = 0`, so a held job is never claimed; this gives exclusion, and exclusion makes the blind
  writes of `mark_failed` and `skip` harmless. `TriesInv` and `MailInv` relate the histories to the
  counted attempts and to the disruptions so far; `DrainInv` says that a tick of a draining process
  has less time left than the process waits. `RequeueInv` counts email rows: a reminder has one push
  job that stands in for its email, and as long as that job may still hand over, also after a skip
  whose answer was lost, every email row has cost a disruption.

`ReminderScheduleProofs`, from `ScheduleAssumption`:

* `ReschedulesCurrentStartAlways`: the invariant is that an update that has read the event knows its
  start as long as the version is the one it read (`PhaseOf`), which holds because every write
  renews the version. `NoOrphansAlways` and `ScheduleTypeCorrect` follow from the same invariant.
* `ColumnFollowsRowsAlways`, `OneRowPerLeadAlways`, `RowsFollowStartAlways`: where only `set` writes
  rows, they agree with the column whatever runs at once, except from a delete that crossed a save
  to the next save (`InvitationInv`). Where `update` rebuilds
  them, one request at a time, the invariant follows the one request that is under way through its
  statements (`SoloPhase`): what it has read, has still to insert, and which of rows, plan or column
  agree by then. The attempt to prove the column's property showed that it was false on larger
  instances, when the event starts during a rebuild; `broken` now tells that case too.
* `FiresOnTimeAlways`: arithmetic of whole minutes, for every length of a minute.

`ChunkedStoreProofs`, from `ChunkedAssumption` and `NoneAssumption`, for values of any length:

* `StoreIsRegister`, the refinement: the initial state maps to one of `CrashSafeRegister`, and every
  step to a step of it or to none. It needs the behaviours "overlap" and "lateAdapter" to be absent
  (`Alone`); "late" and "readDuringWrite" may be there. The invariant says that the chunks the base
  item names first are all of one value (`ActiveWhole`): a call that reuses their keys has blanked the
  base item before, one that has not writes another layout (`Writes`), and what is still to be
  deleted is in a layout the base item does not name (`DoomedElsewhere`).
* `ReadsAgree` and `TypeCorrect`.

`E2eeKeysProofs`, from `KeysAssumption`, for any number of accounts, phones and browsers and in
every scenario, races, crossing requests and kept devices included; each theorem has the condition of
its property:

* `SaltNeverLies` needs to know what every running bootstrap is about to write (`TaskSound`) and that
  the key in memory is the one on disk (`SessionSound`); `EnvelopeOpens`, that a bootstrap of a live
  session has the current password or none (`PasswordCurrent`); both, that a bootstrap that outlives
  its session is stale, or its sign-out still under way (`SignedOut`). `SaltVouches` is part of it for
  the clients whose salt is to be trusted (`Trusted`), `PasswordOpens` and `PasswordCurrent` while
  nothing crosses: an upload that is past its session check holds the current password, as no change
  is made beside it. `WipeIsFinished` follows the deletions of a sign-out (`Wiped`). `TypeCorrect`.
* `KeyIsOne`, while starts do not race (`~May("race")`) and no first envelope goes up from a phone that
  keeps a device (`~May("over")`). The invariant `KeyInv` names all the places
  a key may be in, of an account (`Of`: envelope, rows, keys used) and of a client (`By`: disk, memory,
  what a bootstrap has read or is about to write), and says that each device belongs to one account and
  one client (`Identified`), that of two bootstraps of an account one has only a salt left to write
  (`Alone`), and that all the places of an account that yield a key yield the same (`SoleKey`). A new
  key is minted only by a client that sees no row; a row that stays says that there is none to mint
  (`Anchored`), and `Keeper` is what each client's memory and disk owe the account.
* `NoKeyIsLost`, of one account in use besides (`Unshared`): until the account has an envelope, a
  client's disk holds the key that is in use, and its row is registered (`Holder`). A sign-out forgets
  only keys whose salt it has seen, and a salt is on a disk only once there is an envelope
  (`Forgettable`); a bootstrap that is cut off has left on the disk what it wrote or read (`Written`).
  `Within` keeps the other accounts out.

`NativeSessionProofs`, from `SessionAssumption`, for any number of tokens and acts:

* `NeverShownAgain`, `WipesOnlyEnded`, `CookieAgrees`, `TypeCorrect`. The invariant relates what each
  promise has captured to the refs it will check: a refresh whose load id is still current is about
  the session that is shown (`Refreshing`), a live session is the one shown, in the jar and in memory
  (`LiveAgrees`), a renewal is of the token that was sent (`Calling`).

`PushDevicesProofs`, from `PushAssumption`, for any accounts and any number of acts:

* `Delivers`, `SilentAfterSignOut`, `TypeCorrect`. Whatever says that the token is registered (the
  stored token that is the account's own, an answer, a registration about to store it) is right about
  the row (`StoredIsRegistered`); an account whose registration has ended has the token stored, so that
  its sign-out deletes the row (`EndsRegistered`) and leaves no token behind (`LeavesNothing`).

`EventCacheProofs`, from `SetAssumption`, for any ranges and places, any number of events and of
mutations:

* `NoGhostAlways` and `KeptWhileSavingAlways` of mutations that follow one another (`SerialInv`):
  nothing is read while a mutation has written ahead, its placeholder is only in lists that its
  snapshot will put back, and no snapshot has one.
* `ShownIsTrueAlways` of mutations at once (`OverlapInv`): a list is stale, or what the server has, or
  *owed* a read by a mutation that is under way (`DataTrue`), and the same is so of an answer that was
  read before the last change (`FetchTrue`). A create reads again only the ranges it is in, so that
  everything known of its event has to have one place (`Created`); that the server refuses nothing
  needs that the user acts on events that exist (`ScreenAccounted`). Seeding a range from others is a
  lemma of its own (`SeedsTrue`).
* `TypeCorrect`: a list has only events of its range, and the ids of the creates under way remain.

`WebAppProofs` has a part for each of three models, which share nothing but the app.

Of `HttpClient`, from `ConstantsAssumption`, for any calls and any number of retries:

* `PostsOnce`, `SuccessIsReal`, `CallsKeepIdentity`, `HttpTypeCorrect`. That a POST is applied once is
  not inductive: an attempt that was given up may be applied at any later time. The invariant says
  that a POST goes on only after attempts whose answer was "not processed"
  (`PostRepeatsUnprocessed`), that what is applied has left the network (`AttemptsInOrder`), and
  that a call keeps its headers (`HeadersKept`).

Of `MailboxList`, from `MailboxAssumption`, for any number of messages and acts and pages of any size:

* `ListHasNoGap`, `RowsAreHere`, `UndoneStays`, all of a user who waits (`Patient => PInv`), and
  `ListTypeCorrect`. While a request or a toast is under way rows may stand for messages that have
  left, and messages may be in neither the list nor a page. The invariant
  accounts for each: a row is in the folder or a sync will say that it is not (`RowsTrue`,
  `SyncTrue`); a message of the folder is in the list, *hidden* by a move that may still be undone, about
  to be told by a sync, or older than all of those (`Upward`), because what arrives is newer than
  what is there (`MailLater`). A query finds nothing else under way (`Alone`), so what it captured is still so when its
  answer comes (`Captured`). An undo holds because no message is moved twice at once (`Apart`) and a
  hidden one is not in the list (`HiddenHere`).
* The lemmas under them are about pages: the newest `n` of a set are its top part, and appending the
  next page, or merging a refreshed first page, leaves no gap.

Of `ComposeDraft`, from `ComposeAssumption`, for any number of messages, wordings, edits and drafts, with a
part of the invariant for each condition of the properties:

* `ReplacesOnlyItsOwn`, while no message is left with a save or a send under way (`Calm => OwnDrafts`):
  the draft a save has captured, and the one the editor holds, are of the message it is about
  (`Savers`, `Held`), although the refs say only "the current draft".
* `OneDraftEach` and `SentIsGone`, while in addition the user answers toasts and types
  nothing during a close, and no answer is lost
  (`Tidy => OneDraft`): a message's only draft is the one the refs know, or the one a save has just
  stored (`OnlyDraft`); what is still queued behind that save captures its draft when it begins,
  not before (`ChainOK`). A send waits for both kinds of save before it captures the draft to replace.
* `NothingDropped`, while in addition the user waits for a save before typing on
  (`Plain => NoLoss`): the latest text is in the editor, stored or given up (`Kept`), which includes what
  a reply or a forward was begun over while it was unsaved. An autosave under way is about the latest
  text of its message and about what stands in the editor, unless the editor was closed because that
  was stored (`Pending`, `FrontText`), what a save has
  stored is there (`Landed`), and what the baseline calls saved is stored (`Clean`); so every step that
  takes a text out of the editor finds it among the drafts.
* `TypeCorrect`, from `TypesInv`: the types, and which fields of a task are set at which stage.

Only model-checked: every liveness property (`RemindersSettle`, `AutosaveLands`, `SignOutEnds`,
`EveryCallEnds`, `InFlightEnds`, `Registers`, `ShownLoads`: fairness is out of the prover's reach). Every
safety property that a passing run checks is a theorem. `NoDuplicateReminder` is false.

## 5. Not modelled yet, and the plan

In order:

1. The lanes of overlapping events in the calendars' timelines: first fit against the abstract
   "no two events that overlap share a lane, and no lane is left empty", with proofs.
2. `MailPushOutbox`: webhook ingest and sync both enqueue `new_mail` jobs; the check-then-insert and
   the partial unique index.
3. Reading and marking messages in the web app (automatic read against "mark unread"), the passkey
   bridge, and the sync of the native mail app.
4. Sealed titles in `ReminderSchedule`; single-use tokens and attempt limits of `auth`; invite use
   counts; the default calendar; the lease of `subscriptions`; ordered deletion in `account`;
   provisioning against Stalwart.

Left out for good: parsers and formatting (ICS, mail templates, JSON payloads), recurrence
expansion (its reference is the RFC), routing and validation, generated schemas, third-party server
configuration, and screens and forms, which are most of the repository's lines.
