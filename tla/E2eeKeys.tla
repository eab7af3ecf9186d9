------------------------------ MODULE E2eeKeys ------------------------------
(***************************************************************************)
(* The account keys: how phones (packages/native-core) and browsers        *)
(* (apps/web) mint, open, keep and forget the key that encrypts everything *)
(* an account owns.                                                        *)
(*                                                                         *)
(* The server keeps, for each account, at most one password envelope (the  *)
(* account key wrapped with the sign-in password, named by its salt) and   *)
(* one row for each device (the account key wrapped for that device's key  *)
(* pair).  A client keeps its key pair on disk and the salt of the         *)
(* envelope known to hold the same account key: sign-out forgets the key   *)
(* pair only while such a salt is known.  A client that holds no key opens *)
(* the envelope, and mints a key when the account has neither an envelope  *)
(* nor a device.                                                           *)
(*                                                                         *)
(* Account keys, devices and envelopes are numbered as they are made.  A   *)
(* device is [id, key], a salt is [n, key]: both are random strings that   *)
(* identify what they were made with.  Wrapping and unwrapping succeed     *)
(* exactly with the right key pair or password.  A phone has one slot on   *)
(* disk, written field by field, whoever is signed in; a browser has one   *)
(* record for each account, written in one transaction.                    *)
(***************************************************************************)
EXTENDS Naturals, FiniteSets

CONSTANTS
    Accounts,   \* the accounts
    Phones,     \* clients that run the native apps
    Browsers,   \* clients that run the web app
    MaxMinted,  \* bound: keys, devices and envelopes ever made
    Scenarios   \* who takes part, what may happen and how many acts are taken

Behaviours == {"restart",  \* the app is killed at any point and started again
               "fail",     \* a request fails
               "lose",     \* the server answers, the client does not hear it
               "passkey",  \* sign-in without a password
               "race",     \* two clients of an account start at the same time
               "leave",    \* a session ends, or the next begins, in mid-flight
               "cross",    \* a password change crosses an upload, or stops half-way
               "over"}     \* a first envelope goes up from a phone that keeps a device

Clients == Phones \cup Browsers

\* acts bounds the sign-ins, restarts and password changes.
ASSUME KeysAssumption ==
    /\ Phones \cap Browsers = {}
    /\ "nobody" \notin Accounts
    /\ MaxMinted \in Nat
    /\ Scenarios \subseteq [may : SUBSET Behaviours, accounts : SUBSET Accounts,
                            clients : SUBSET Clients, acts : Nat]

None == [n |-> 0, key |-> 0]
NoDevice == [id |-> 0, key |-> 0]
Empty == [id |-> NoDevice, priv |-> NoDevice, salt |-> None]
Idle == [pc |-> "idle"]

VARIABLES
    scenario,  \* the one that holds, for good
    pw,        \* account -> its current password, counted by its changes
    envelope,  \* account -> [pw, salt]; pw = 0: the account has none
    rows,      \* account -> the devices the server knows
    live,      \* clients whose session the server recognises
    who,       \* client -> the account of its stored session, or "nobody"
    password,  \* client -> the sign-in password still in memory, or 0
    disk,      \* client -> slot -> the stored device id, key pair and salt
    session,   \* client -> the account key in memory, or 0
    boot,      \* client -> the running bootstrap
    leave,     \* client -> the running sign-out or wipe, or what a launch left unseen
    used,      \* account -> keys that were ever active, so may encrypt data
    minted,    \* how many keys, devices and envelopes were made
    acts       \* how many acts were spent

server == <<pw, envelope, rows, live>>
memory == <<password, session>>
vars == <<scenario, pw, envelope, rows, live, who, password, disk, session, boot, leave, used, minted,
          acts>>

May(b) == b \in scenario.may
NoEnvelope == [pw |-> 0, salt |-> None]
Slot(c, a) == IF c \in Phones THEN "phone" ELSE a
Slots(c) == IF c \in Phones THEN {"phone"} ELSE Accounts
Stored(c, a) == disk[c][Slot(c, a)]

Init ==
    /\ scenario \in Scenarios
    /\ pw = [a \in Accounts |-> 1]
    /\ envelope = [a \in Accounts |-> NoEnvelope]
    /\ rows = [a \in Accounts |-> {}]
    /\ live = {}
    /\ who = [c \in Clients |-> "nobody"]
    /\ password = [c \in Clients |-> 0]
    /\ disk = [c \in Clients |-> [s \in Slots(c) |-> Empty]]
    /\ session = [c \in Clients |-> 0]
    /\ boot = [c \in Clients |-> Idle]
    /\ leave = [c \in Clients |-> Idle]
    /\ used = [a \in Accounts |-> {}]
    /\ minted = 0
    /\ acts = 0

----------------------------------------------------------------------------
(* What happens to a client *)

Act == acts < scenario.acts /\ acts' = acts + 1

\* Only one client of an account is starting, unless starts may race.
OthersStarted(c, a) ==
    ~May("race") =>
        \A d \in {e \in Clients \ {c} : boot[e].pc # "idle"} : boot[d].account # a

\* bootstrap: the effect of NavigationGuard on a phone, the login page or the
\* E2eeBootstrap component in a browser.
Started(c, a) == [boot EXCEPT ![c] = [pc |-> "fetch", account |-> a, stale |-> FALSE]]

\* The wipe that a session the server ended leaves behind is not awaited.
Wiping(c) == leave[c].pc \in {"check", "forget", "salt"} /\ leave[c].ended

SignIn(c, a) ==
    /\ Act
    /\ c \in scenario.clients /\ a \in scenario.accounts
    /\ boot[c].pc = "idle"
    /\ \/ who[c] = "nobody" /\ (leave[c].pc = "idle" \/ (May("leave") /\ Wiping(c)))
       \/ leave[c].pc = "unseen"
    /\ OthersStarted(c, a)
    /\ \E p \in {pw[a]} \cup (IF May("passkey") THEN {0} ELSE {}) :
           password' = [password EXCEPT ![c] = p]
    /\ who' = [who EXCEPT ![c] = a]
    /\ live' = live \cup {c}
    /\ boot' = Started(c, a)
    /\ leave' = [leave EXCEPT ![c] = IF @.pc = "unseen" THEN Idle ELSE @]
    /\ UNCHANGED <<scenario, pw, envelope, rows, disk, session, used, minted>>

\* The app is killed and started again: what was in memory is gone, and a
\* sign-out that was under way stops where it was.  A phone whose cookie is
\* gone finds no session and wipes (loadSession, endSession); a browser's
\* login page drops only its settings (clearOrphanedClientAuthArtifacts).  A
\* phone that cannot ask for its session shows nobody and wipes nothing
\* (loadSession, clearSession): its cookie, if it has one, stays unseen.
Restart(c) ==
    /\ May("restart") /\ Act
    /\ password' = [password EXCEPT ![c] = 0]
    /\ session' = [session EXCEPT ![c] = 0]
    /\ \/ /\ who[c] # "nobody" => OthersStarted(c, who[c])
          /\ boot' = IF who[c] = "nobody" THEN [boot EXCEPT ![c] = Idle] ELSE Started(c, who[c])
          /\ leave' = [leave EXCEPT ![c] =
                         IF who[c] = "nobody" /\ c \in Phones
                         THEN [pc |-> "check", ended |-> TRUE] ELSE Idle]
       \/ /\ May("fail") /\ c \in Phones
          /\ boot' = [boot EXCEPT ![c] = Idle]
          /\ leave' = [leave EXCEPT ![c] = [pc |-> "unseen"]]
    /\ UNCHANGED <<scenario, server, who, disk, used, minted>>

----------------------------------------------------------------------------
(* Bootstrap *)

GoTo(c, task) == boot' = [boot EXCEPT ![c] = task]
Done(c) == GoTo(c, Idle)

\* A request fails at the session check, or after it.
Fails(c) ==
    /\ \/ /\ boot[c].pc \in {"fetch", "seal", "put", "reput", "reseal"}
          /\ May("fail") \/ c \notin live
       \/ boot[c].pc \in {"sealing", "resealing", "ending"} /\ May("fail")
    /\ Done(c)
    /\ UNCHANGED <<scenario, server, who, memory, disk, leave, used, minted, acts>>

\* The account is no longer signed in here: isStale, isBootstrapCurrent.
GiveUp(c) ==
    /\ boot[c].pc = "decide" /\ boot[c].stale
    /\ Done(c)
    /\ UNCHANGED <<scenario, server, who, memory, disk, leave, used, minted, acts>>

\* What is on the disk is read along with the answer, and used later.
Fetch(c) ==
    LET b == boot[c] IN
    /\ b.pc = "fetch" /\ c \in live
    /\ GoTo(c, IF b.stale THEN Idle
               ELSE [pc |-> "decide", account |-> b.account, stale |-> FALSE,
                     rows |-> rows[b.account], envelope |-> envelope[b.account],
                     mine |-> Stored(c, b.account)])
    /\ UNCHANGED <<scenario, server, who, memory, disk, leave, used, minted, acts>>

\* Mutant of Lock: an account without an envelope counts as new.
LockIgnoresDevices(hasEnvelope, hasOtherDevices) == hasEnvelope

Lock(hasEnvelope, hasOtherDevices) ==
    IF ~hasEnvelope THEN hasOtherDevices ELSE TRUE

Opens(c, env) == env.pw # 0 /\ password[c] = env.pw

\* The key pair on disk belongs to the stored device id.  A phone also needs
\* the device's row; a browser uploads a missing row again.
DeviceOpens(d) == d.id # NoDevice /\ d.priv = d.id

Activate(c, a, k) ==
    /\ session' = [session EXCEPT ![c] = k]
    /\ used' = [used EXCEPT ![a] = @ \cup {k}]

\* Mutant of ResolvedSalt: a password that opens the envelope is enough.
SaltUnprobed(c, stored, env, k) ==
    IF env.pw # 0 /\ (stored = env.salt \/ Opens(c, env)) THEN env.salt ELSE None

\* resolveDeviceEnvelopeSalt
ResolvedSalt(c, stored, env, k) ==
    IF env.pw = 0 THEN None
    ELSE IF stored = env.salt THEN stored
    ELSE IF Opens(c, env) /\ env.salt.key = k THEN env.salt ELSE None

\* The sign-in password, when it is at hand and the account still has no
\* envelope to be made with it; 0 otherwise.
MissingEnvelope(c, env) == IF env.pw = 0 THEN password[c] ELSE 0

\* This client's own device opens the account key.
UseDevice(c) ==
    LET b == boot[c]
        d == b.mine
    IN /\ b.pc = "decide" /\ ~b.stale
       /\ DeviceOpens(d) /\ d.id \in b.rows
       /\ Activate(c, b.account, d.id.key)
       /\ GoTo(c, [pc |-> "resolve", account |-> b.account, stale |-> FALSE,
                   salt |-> ResolvedSalt(c, d.salt, b.envelope, d.id.key),
                   secret |-> MissingEnvelope(c, b.envelope)])
       /\ password' = IF b.envelope.pw = 0 THEN password ELSE [password EXCEPT ![c] = 0]
       /\ UNCHANGED <<scenario, server, who, disk, leave, minted, acts>>

\* A browser's record without its row: the row is uploaded first.
Reupload(c) ==
    LET b == boot[c]
        d == b.mine
    IN /\ b.pc = "decide" /\ ~b.stale
       /\ c \in Browsers /\ DeviceOpens(d) /\ d.id \notin b.rows
       /\ GoTo(c, [b EXCEPT !.pc = "reput"])
       /\ UNCHANGED <<scenario, server, who, memory, disk, leave, used, minted, acts>>

Reuploaded(c) ==
    LET b == boot[c] IN
    /\ b.pc = "reput" /\ c \in live
    /\ rows' = [rows EXCEPT ![b.account] = @ \cup {b.mine.id}]
    /\ GoTo(c, IF b.stale THEN Idle
               ELSE [b EXCEPT !.pc = "decide", !.rows = @ \cup {b.mine.id}])
    /\ UNCHANGED <<scenario, pw, envelope, live, who, memory, disk, leave, used, minted, acts>>

\* rememberDeviceEnvelopeSalt, then the missing envelope is uploaded with the
\* sign-in password.
Resolve(c) ==
    LET b == boot[c] IN
    /\ b.pc = "resolve"
    /\ disk' = [disk EXCEPT ![c][Slot(c, b.account)].salt =
                  IF c \in Browsers /\ Stored(c, b.account).id = NoDevice THEN @ ELSE b.salt]
    /\ GoTo(c, IF b.secret # 0 THEN [b EXCEPT !.pc = "reseal"] ELSE Idle)
    /\ UNCHANGED <<scenario, server, who, memory, leave, used, minted, acts>>

Mint(n) == minted + n <= MaxMinted /\ minted' = minted + n
Salt(k) == [n |-> minted', key |-> k]

PutEnvelope(a, p, salt) == envelope' = [envelope EXCEPT ![a] = [pw |-> p, salt |-> salt]]

\* There is neither an id nor a key pair in the slot.
KeepsNone(d) == d.id = NoDevice /\ d.priv = NoDevice

\* An envelope is made and sent, and the server finds the session that sends
\* it.  What it does next no longer depends on that session.
Ask(c) ==
    LET b == boot[c] IN
    /\ b.pc \in {"seal", "reseal"} /\ c \in live
    /\ b.pc = "reseal" => session[c] # 0
    /\ b.pc = "seal" /\ c \in Phones => May("over") \/ KeepsNone(Stored(c, b.account))
    /\ Mint(1)
    /\ GoTo(c, IF b.pc = "seal"
               THEN [b EXCEPT !.pc = "sealing", !.salt = Salt(b.device.key)]
               ELSE [b EXCEPT !.pc = "resealing", !.salt = Salt(session[c])])
    /\ UNCHANGED <<scenario, server, who, memory, disk, leave, used, acts>>

Reseal(c) ==
    LET b == boot[c] IN
    /\ b.pc = "resealing"
    /\ PutEnvelope(b.account, b.secret, b.salt)
    /\ password' = [password EXCEPT ![c] = 0]
    /\ \/ GoTo(c, [b EXCEPT !.pc = "resolve", !.secret = 0])
       \/ May("lose") /\ Done(c)
    /\ UNCHANGED <<scenario, pw, rows, live, who, disk, session, leave, used, minted, acts>>

\* No device key here.  A stored id whose key pair does not fit loses its row.
WithoutDevice(c) ==
    LET b == boot[c]
        d == b.mine
    IN /\ b.pc = "decide" /\ ~b.stale
       /\ IF c \in Phones THEN ~(DeviceOpens(d) /\ d.id \in b.rows) ELSE ~DeviceOpens(d)
       /\ \/ /\ d.id \in b.rows /\ d.priv # NoDevice /\ c \in live
             /\ rows' = [rows EXCEPT ![b.account] = @ \ {d.id}]
          \/ /\ d.id \notin b.rows \/ d.priv = NoDevice \/ c \notin live \/ May("fail")
             /\ UNCHANGED rows
       /\ \/ /\ Opens(c, b.envelope)
             /\ Mint(1)
             /\ GoTo(c, [pc |-> "put", account |-> b.account, stale |-> FALSE,
                         device |-> [id |-> minted', key |-> b.envelope.salt.key],
                         salt |-> b.envelope.salt, secret |-> 0])
             /\ UNCHANGED leave
          \/ /\ ~Opens(c, b.envelope)
             /\ Lock(b.envelope.pw # 0, b.rows # {})
             /\ Done(c)
             /\ leave' = [leave EXCEPT ![c] =
                            IF @.pc = "idle" THEN [pc |-> "row", account |-> b.account] ELSE @]
             /\ UNCHANGED minted
          \/ /\ ~Opens(c, b.envelope)
             /\ ~Lock(b.envelope.pw # 0, b.rows # {})
             /\ Mint(2)
             /\ GoTo(c, [pc |-> IF password[c] # 0 THEN "seal" ELSE "put",
                         account |-> b.account, stale |-> FALSE,
                         device |-> [id |-> minted', key |-> minted' - 1],
                         salt |-> None, secret |-> password[c]])
             /\ UNCHANGED leave
       /\ UNCHANGED <<scenario, pw, envelope, live, who, memory, disk, used, acts>>

\* The first envelope goes up before the first device.
Seal(c) ==
    LET b == boot[c] IN
    /\ b.pc = "sealing"
    /\ PutEnvelope(b.account, b.secret, b.salt)
    /\ \/ /\ password' = [password EXCEPT ![c] = 0]
          /\ GoTo(c, [b EXCEPT !.pc = IF c \in Phones THEN "sealed" ELSE "put"])
       \/ May("lose") /\ Done(c) /\ UNCHANGED password
    /\ UNCHANGED <<scenario, pw, rows, live, who, disk, session, leave, used, minted, acts>>

\* registerDeviceForSession, provisionLocalDevice: the row, then the disk.
PutDevice(c) ==
    LET b == boot[c] IN
    /\ b.pc = "put" /\ c \in live
    /\ rows' = [rows EXCEPT ![b.account] = @ \cup {b.device}]
    /\ \/ GoTo(c, [b EXCEPT !.pc = IF c \in Phones THEN "clearSalt" ELSE "record"])
       \/ May("lose") /\ Done(c)
    /\ UNCHANGED <<scenario, pw, envelope, live, who, memory, disk, leave, used, minted, acts>>


\* One write to the disk; the last one makes the session active.
Write(c, from, to, slot) ==
    LET b == boot[c] IN
    /\ b.pc = from
    /\ disk' = [disk EXCEPT ![c][Slot(c, b.account)] = slot]
    /\ IF to = "active"
       THEN /\ Done(c)
            /\ IF b.stale THEN UNCHANGED <<memory, used>>
               ELSE /\ Activate(c, b.account, b.device.key)
                    /\ password' = [password EXCEPT ![c] = 0]
       ELSE GoTo(c, [b EXCEPT !.pc = to]) /\ UNCHANGED <<memory, used>>
    /\ UNCHANGED <<scenario, server, who, leave, minted, acts>>

\* Mutant of WriteDisk: the old salt stays until the new one is written.
WriteKeepsSalt(c) ==
    LET b == boot[c]
        d == Stored(c, b.account)
    IN /\ b.pc \in {"sealed", "clearSalt", "writeId", "writeKey", "writeSalt"}
       /\ \/ Write(c, "sealed", "put", [d EXCEPT !.salt = b.salt])
          \/ Write(c, "clearSalt", "writeId", d)
          \/ Write(c, "writeId", "writeKey", [d EXCEPT !.id = b.device])
          \/ Write(c, "writeKey", "writeSalt", [d EXCEPT !.priv = b.device])
          \/ Write(c, "writeSalt", "active",
                   [d EXCEPT !.salt = IF b.salt = None THEN @ ELSE b.salt])

\* A phone: the salt of a first envelope is remembered once it is up.  The
\* registration of a device then starts with the old salt and ends with the new.
WriteDisk(c) ==
    LET b == boot[c]
        d == Stored(c, b.account)
    IN /\ b.pc \in {"sealed", "clearSalt", "writeId", "writeKey", "writeSalt"}
       /\ \/ Write(c, "sealed", "put", [d EXCEPT !.salt = b.salt])
          \/ Write(c, "clearSalt", "writeId", [d EXCEPT !.salt = None])
          \/ Write(c, "writeId", "writeKey", [d EXCEPT !.id = b.device])
          \/ Write(c, "writeKey", "writeSalt", [d EXCEPT !.priv = b.device])
          \/ Write(c, "writeSalt", "active",
                   [d EXCEPT !.salt = IF b.salt = None THEN @ ELSE b.salt])

\* A browser: one record, put in one transaction.
WriteRecord(c) ==
    /\ boot[c].pc = "record"
    /\ Write(c, "record", "active",
             [id |-> boot[c].device, priv |-> boot[c].device, salt |-> boot[c].salt])

----------------------------------------------------------------------------
(* Changing the password *)

\* The answer, or its loss.  The client then remembers the new salt.
Changed(c, a, salt) ==
    \/ GoTo(c, [pc |-> "resolve", account |-> a, stale |-> FALSE, salt |-> salt, secret |-> 0])
    \/ May("lose") /\ Done(c)

\* delete_other_user_sessions
EndOthers(c, a) == live' = {d \in live : d = c \/ who[d] # a}

\* No upload of the account's envelope is past its session check.
Uncrossed(a) ==
    \A d \in Clients : boot[d].pc \in {"sealing", "resealing"} => boot[d].account # a

\* Mutant of ChangePassword: the other sessions stay.
ChangeKeepsSessions(c) ==
    LET a == who[c] IN
    /\ Act
    /\ a # "nobody" /\ c \in live /\ session[c] # 0
    /\ boot[c].pc = "idle" /\ leave[c].pc = "idle"
    /\ May("cross") \/ Uncrossed(a)
    /\ Mint(1)
    /\ pw' = [pw EXCEPT ![a] = @ + 1]
    /\ PutEnvelope(a, pw'[a], Salt(session[c]))
    /\ Changed(c, a, Salt(session[c]))
    /\ UNCHANGED <<scenario, rows, live, who, memory, disk, leave, used>>

\* The server stores the password and its envelope together, then ends the
\* account's other sessions.
ChangePassword(c) ==
    LET a == who[c] IN
    /\ Act
    /\ a # "nobody" /\ c \in live /\ session[c] # 0
    /\ boot[c].pc = "idle" /\ leave[c].pc = "idle"
    /\ May("cross") \/ Uncrossed(a)
    /\ Mint(1)
    /\ pw' = [pw EXCEPT ![a] = @ + 1]
    /\ PutEnvelope(a, pw'[a], Salt(session[c]))
    /\ \/ ~May("cross") /\ EndOthers(c, a) /\ Changed(c, a, Salt(session[c]))
       \/ /\ May("cross") /\ UNCHANGED live
          /\ GoTo(c, [pc |-> "ending", account |-> a, stale |-> FALSE,
                      salt |-> Salt(session[c]), secret |-> 0])
    /\ UNCHANGED <<scenario, rows, who, memory, disk, leave, used>>

\* The second statement of the change.
Revoke(c) ==
    LET b == boot[c] IN
    /\ b.pc = "ending"
    /\ EndOthers(c, b.account)
    /\ GoTo(c, [b EXCEPT !.pc = "resolve"]) \/ (May("lose") /\ Done(c))
    /\ UNCHANGED <<scenario, pw, envelope, rows, who, memory, disk, leave, used, minted, acts>>

----------------------------------------------------------------------------
(* The end of a session *)

Leaving(c, task) == leave' = [leave EXCEPT ![c] = task]

\* clearSession, resetE2eeBootstrap: a running bootstrap becomes stale.
ClearMemory(c) ==
    /\ session' = [session EXCEPT ![c] = 0]
    /\ password' = [password EXCEPT ![c] = 0]
    /\ boot' = [boot EXCEPT ![c] = IF @.pc = "idle" THEN @ ELSE [@ EXCEPT !.stale = TRUE]]

SignOut(c) ==
    /\ who[c] # "nobody" /\ leave[c].pc = "idle"
    /\ boot[c].pc = "idle" \/ May("leave")
    /\ Leaving(c, [pc |-> "row", account |-> who[c]])
    /\ UNCHANGED <<scenario, server, who, memory, disk, boot, used, minted, acts>>

\* Mutant of Recoverable: every stored key goes.
RecoverableAll(c) == {s \in Slots(c) : disk[c][s].id # NoDevice}

\* The salt is all that says a key may be forgotten.
Recoverable(c) == {s \in Slots(c) : disk[c][s].salt # None}

\* The rows of the devices that are about to be forgotten go while the
\* session lasts; a failed request is ignored.
DropRows(c) ==
    LET a == leave[c].account IN
    /\ leave[c].pc = "row"
    /\ \/ /\ c \in live
          /\ rows' = [rows EXCEPT ![a] = @ \ {disk[c][s].id : s \in Recoverable(c)}]
       \/ (c \notin live \/ May("fail")) /\ UNCHANGED rows
    /\ Leaving(c, [pc |-> "server"])
    /\ UNCHANGED <<scenario, pw, envelope, live, who, memory, disk, boot, used, minted, acts>>

\* Mutant of ServerSignOut: the wipe is left to the next start.
SignOutSkipsWipe(c) ==
    /\ leave[c].pc = "server"
    /\ who' = [who EXCEPT ![c] = "nobody"]
    /\ live' = live \ {c}
    /\ ClearMemory(c)
    /\ Leaving(c, Idle)
    /\ UNCHANGED <<scenario, pw, envelope, rows, disk, used, minted, acts>>

\* A phone drops its cookie as it makes the request, whether or not the
\* server hears it; a browser's goes with the answer.
ServerSignOut(c) ==
    /\ leave[c].pc = "server"
    /\ \/ who' = [who EXCEPT ![c] = "nobody"] /\ live' = live \ {c}
       \/ c \in Browsers /\ May("fail") /\ UNCHANGED <<who, live>>
    /\ Leaving(c, [pc |-> "check", ended |-> FALSE])
    /\ UNCHANGED <<scenario, pw, envelope, rows, memory, disk, boot, used, minted, acts>>

\* endSession: the server has ended the session; the wipe is not awaited.
SessionEnded(c) ==
    /\ who[c] # "nobody" /\ c \notin live /\ leave[c].pc = "idle"
    /\ boot[c].pc = "idle" \/ May("leave")
    /\ who' = [who EXCEPT ![c] = "nobody"]
    /\ ClearMemory(c)
    /\ Leaving(c, [pc |-> "check", ended |-> TRUE])
    /\ UNCHANGED <<scenario, server, disk, used, minted, acts>>

\* clearRecoverableStoredDevice, deleteRecoverableE2eeDevices: which slots
\* may go, then their keys, then (on a phone) the salt.  A phone that signs
\* out clears its memory after the wipe, a browser before it.
CheckSalt(c) ==
    LET gone == Recoverable(c) IN
    /\ leave[c].pc = "check"
    /\ IF ~leave[c].ended /\ (c \in Browsers \/ gone = {})
       THEN ClearMemory(c) ELSE UNCHANGED <<memory, boot>>
    /\ Leaving(c, IF gone = {} THEN Idle
                  ELSE [pc |-> "forget", slots |-> gone, ended |-> leave[c].ended])
    /\ UNCHANGED <<scenario, server, who, disk, used, minted, acts>>

Forget(c) ==
    /\ leave[c].pc = "forget"
    /\ disk' = [disk EXCEPT ![c] = [s \in Slots(c) |->
                  IF s \notin leave[c].slots THEN disk[c][s]
                  ELSE IF c \in Phones THEN [Empty EXCEPT !.salt = disk[c][s].salt]
                  ELSE Empty]]
    /\ Leaving(c, IF c \in Phones THEN [pc |-> "salt", ended |-> leave[c].ended] ELSE Idle)
    /\ UNCHANGED <<scenario, server, who, memory, boot, used, minted, acts>>

ForgetSalt(c) ==
    /\ leave[c].pc = "salt"
    /\ disk' = [disk EXCEPT ![c]["phone"].salt = None]
    /\ IF leave[c].ended THEN UNCHANGED <<memory, boot>> ELSE ClearMemory(c)
    /\ Leaving(c, Idle)
    /\ UNCHANGED <<scenario, server, who, used, minted, acts>>

Next ==
    \E c \in Clients :
        \/ \E a \in Accounts : SignIn(c, a)
        \/ Restart(c) \/ Fails(c) \/ Fetch(c) \/ GiveUp(c)
        \/ UseDevice(c) \/ Reupload(c) \/ Reuploaded(c) \/ Resolve(c)
        \/ Ask(c) \/ Reseal(c) \/ Seal(c)
        \/ WithoutDevice(c) \/ PutDevice(c) \/ WriteDisk(c) \/ WriteRecord(c)
        \/ ChangePassword(c) \/ Revoke(c)
        \/ SignOut(c) \/ DropRows(c) \/ ServerSignOut(c) \/ SessionEnded(c)
        \/ CheckSalt(c) \/ Forget(c) \/ ForgetSalt(c)

Spec == Init /\ [][Next]_vars

----------------------------------------------------------------------------
(* Properties *)

Quiet(c) == boot[c].pc = "idle" /\ leave[c].pc = "idle"
Numbers == 0..MaxMinted
Salts == [n : Numbers, key : Numbers]
Devices == [id : Numbers, key : Numbers]

\* The types of what the server and the clients keep.
TypeOK ==
    /\ scenario \in Scenarios
    /\ pw \in [Accounts -> 1..scenario.acts + 1]
    /\ envelope \in [Accounts -> [pw : 0..scenario.acts + 1, salt : Salts]]
    /\ rows \in [Accounts -> SUBSET Devices]
    /\ live \subseteq Clients
    /\ who \in [Clients -> Accounts \cup {"nobody"}]
    /\ password \in [Clients -> 0..scenario.acts + 1]
    /\ \A c \in Clients : disk[c] \in [Slots(c) -> [id : Devices, priv : Devices, salt : Salts]]
    /\ session \in [Clients -> Numbers]
    /\ used \in [Accounts -> SUBSET Numbers]
    /\ \A c \in Clients : boot[c].pc # "idle" => boot[c].account \in Accounts

\* A client can still open key k of account a from its disk.
Holds(c, a, k) ==
    LET d == Stored(c, a) IN
    DeviceOpens(d) /\ d.id.key = k /\ (c \in Phones => d.id \in rows[a])

InEnvelope(a, k) == envelope[a].pw = pw[a] /\ envelope[a].salt.key = k

\* No account takes over another's phone: one account is all there is.
Unshared == \A a, e \in scenario.accounts : a = e

\* A key that data may be encrypted with is never lost while clients start
\* one after the other, no phone changes hands and no password change crosses
\* an upload: the envelope the current password opens, or some client's disk,
\* still yields it.
KeyNeverLost ==
    ~May("race") /\ ~May("over") /\ ~May("cross") /\ Unshared =>
    \A a \in Accounts : \A k \in used[a] : InEnvelope(a, k) \/ \E c \in Clients : Holds(c, a, k)

\* An account has one key: no client that starts when the others have started,
\* and where no other account's device is kept, mints or opens a second one.
OneKey == ~May("race") /\ ~May("over") => \A a \in Accounts : Cardinality(used[a]) <= 1

\* A stored salt vouches for the key pair it lies beside, wherever the app
\* dies between the writes: the envelope it names holds the same account key.
\* Not so on a phone that remembers the salt of an account's first envelope
\* while it still keeps an earlier account's device.
SaltVouches ==
    \A c \in Clients : c \in Browsers \/ ~May("over") =>
        \A s \in Slots(c) :
            LET d == disk[c][s] IN
            (d.salt # None /\ d.priv # NoDevice) => d.salt.key = d.priv.key

\* The sign-in password opens the envelope, whatever uploads and password
\* changes there have been, while none of them crosses another.
PasswordOpens == ~May("cross") => \A a \in Accounts : envelope[a].pw \in {0, pw[a]}

\* Once a phone's session is over and everything it started has ended, no key
\* that the password can bring back is left on the disk, whenever the app was
\* killed, provided the session did not end in the middle of a start.  A phone
\* whose last launch could not ask for its session is not done.
GoneWithSession ==
    ~May("leave") => \A c \in Phones : who[c] = "nobody" /\ Quiet(c) =>
        \A s \in Slots(c) : disk[c][s].salt = None \/ disk[c][s].priv = NoDevice
=============================================================================
