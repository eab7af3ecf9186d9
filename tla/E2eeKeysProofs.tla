---------------------------- MODULE E2eeKeysProofs ----------------------------
(***************************************************************************)
(* Proofs about E2eeKeys for any number of accounts, phones and browsers,  *)
(* any number of acts and every scenario: each theorem has the condition   *)
(* of its property, and nothing else is left out.                          *)
(*                                                                         *)
(* SaltVouches needs to know what every running bootstrap is about to      *)
(* write (TaskSound) and that the key in memory is the one on disk         *)
(* (SessionSound); PasswordOpens, that a bootstrap of a live session has   *)
(* the current password or none (PasswordCurrent); both, that a bootstrap  *)
(* that outlives its session is stale or its sign-out still under way      *)
(* (SignedOut).  A salt is Trusted in a browser, and on a phone on which   *)
(* no first envelope goes up over a kept device; an upload that is past    *)
(* its session check has the current password while nothing crosses it.    *)
(*                                                                         *)
(* OneKey needs to know, while starts do not race and every salt is to be  *)
(* trusted, of whom every device is                                        *)
(* (Identified), that of two bootstraps of an account one only settles its *)
(* salt (Alone), that all that holds a key of the account holds the same   *)
(* (SoleKey), and that an account whose key is in use has an envelope or a *)
(* row that stays (Anchored): a client that starts then sees one of them   *)
(* and mints no second key. KeyNeverLost needs to know besides, of the one *)
(* account there is, that until it has an envelope some client holds the   *)
(* key (Holder), because no salt lies on any disk (Forgettable) and no     *)
(* write is half done where the key is (Written).                          *)
(***************************************************************************)
EXTENDS E2eeKeys, FiniteSetTheorems, TLAPS

-----------------------------------------------------------------------------
(* The invariant *)

Slot0 == [id : Devices, priv : Devices, salt : Salts]
Envelopes == [pw : Nat, salt : Salts]

Reading == [pc : {"fetch"}, account : Accounts, stale : BOOLEAN]
Deciding == [pc : {"decide", "reput"}, account : Accounts, stale : BOOLEAN,
             rows : SUBSET Devices, envelope : Envelopes, mine : Slot0]
VouchSteps == {"resolve", "reseal", "resealing", "ending"}
WriteSteps == {"seal", "sealing", "sealed", "put",
               "clearSalt", "writeId", "writeKey", "writeSalt", "record"}
Vouching == [pc : VouchSteps, account : Accounts, stale : BOOLEAN, salt : Salts, secret : Nat]
Writing == [pc : WriteSteps, account : Accounts, stale : BOOLEAN, device : Devices, salt : Salts,
            secret : Nat]
Resting == [pc : {"idle"}]
Tasks == Resting \cup Reading \cup Deciding \cup Vouching \cup Writing

Leaves == Resting \cup [pc : {"row"}, account : Accounts] \cup [pc : {"server", "unseen"}]
          \cup [pc : {"check", "salt"}, ended : BOOLEAN]
          \cup [pc : {"forget"}, slots : SUBSET ({"phone"} \cup Accounts), ended : BOOLEAN]

TypedServer ==
    /\ scenario \in Scenarios
    /\ acts \in 0 .. scenario.acts
    /\ pw \in [Accounts -> 1 .. acts + 1]
    /\ envelope \in [Accounts -> [pw : 0 .. scenario.acts + 1, salt : Salts]]
    /\ rows \in [Accounts -> SUBSET Devices]
    /\ live \in SUBSET Clients
    /\ minted \in 0 .. MaxMinted

TypedClients ==
    /\ who \in [Clients -> Accounts \cup {"nobody"}]
    /\ password \in [Clients -> 0 .. acts + 1]
    /\ session \in [Clients -> Numbers]
    /\ used \in [Accounts -> SUBSET Numbers]

TypedDisk ==
    /\ disk = [c \in Clients |-> disk[c]]
    /\ \A c \in Clients : disk[c] \in [Slots(c) -> Slot0]

TypedTasks ==
    /\ boot \in [Clients -> Tasks]
    /\ leave \in [Clients -> Leaves]
    /\ \A c \in Clients : boot[c].pc = "record" => c \in Browsers
    /\ \A c \in Clients : boot[c].pc \in {"sealed", "clearSalt", "writeId", "writeKey", "writeSalt"}
                          => c \in Phones
    /\ \A c \in Clients : leave[c].pc = "salt" => c \in Phones

Typed == TypedServer /\ TypedClients /\ TypedDisk /\ TypedTasks

\* A live session is somebody's, and a bootstrap is of the account signed in.
LiveIsSomebody(c) == c \in live => who[c] # "nobody"
BootsOwn(c) == boot[c].pc # "idle" => who[c] \in {"nobody", boot[c].account}

\* A bootstrap that may still take or use the password has the current one,
\* while no change crosses an upload.
PasswordCurrent(c) ==
    LET b == boot[c] IN
    /\ b.pc = "ending" => b.secret = 0
    /\ b.pc \in VouchSteps \cup WriteSteps => b.secret <= scenario.acts + 1
    /\ ~May("cross") =>
         /\ b.pc \in {"fetch", "decide", "reput"} /\ c \in live => password[c] \in {0, pw[b.account]}
         /\ \/ b.pc \in {"resolve", "reseal", "seal"} /\ c \in live
            \/ b.pc \in {"sealing", "resealing"}
            => b.secret \in {0, pw[b.account]}

\* After the session a client forgets its key, and its bootstrap is stale,
\* at the latest when the sign-out ends.  A phone that has not seen its
\* session has no key and no bootstrap.
SignedOut(c) ==
    /\ leave[c].pc = "unseen" => session[c] = 0 /\ boot[c].pc = "idle"
    /\ who[c] = "nobody" =>
        /\ leave[c].pc \notin {"row", "server"}
        /\ session[c] # 0 \/ (boot[c].pc # "idle" /\ ~boot[c].stale) =>
             /\ leave[c].pc \in {"check", "forget", "salt"} /\ ~leave[c].ended
             /\ c \in Browsers => leave[c].pc = "check"

\* The key in memory is the one on disk.
SessionSound(c) ==
    session[c] # 0 =>
        /\ boot[c].pc = "idle" \/ boot[c].pc \in VouchSteps
        /\ who[c] # "nobody" =>
             LET d == Stored(c, who[c]) IN d.priv = NoDevice \/ d.priv.key = session[c]

\* A salt on the disk of c is that of the key pair it lies beside.
Trusted(c) == c \in Browsers \/ ~May("over")

\* What a bootstrap is about to write.
TaskSound(c) ==
    LET b == boot[c]
        d == Stored(c, b.account)
    IN  /\ b.pc \in VouchSteps /\ Trusted(c) =>
             (b.salt # None /\ d.priv # NoDevice => b.salt.key = d.priv.key)
        /\ b.pc = "seal" => b.salt = None
        /\ b.pc = "sealing" => b.salt.key = b.device.key
        /\ b.pc \in WriteSteps => (b.salt # None => b.salt.key = b.device.key)
        /\ b.pc \in {"sealing", "sealed"} /\ c \in Phones /\ Trusted(c) => KeepsNone(d)
        /\ b.pc \in {"decide", "reput"} =>
             /\ Trusted(c) /\ b.mine.salt # None /\ b.mine.priv # NoDevice =>
                  b.mine.salt.key = b.mine.priv.key
             /\ (d.id = b.mine.id /\ d.priv = b.mine.priv) \/ (d.id = NoDevice /\ d.priv = NoDevice)
             /\ b.pc = "reput" => c \in Browsers /\ b.mine.id # NoDevice
        /\ b.pc \in {"writeId", "writeKey", "writeSalt"} => d.salt = None
        /\ b.pc = "writeSalt" => d.priv \in {b.device, NoDevice}

Vouched(c) ==
    Trusted(c) =>
        \A s \in Slots(c) : disk[c][s].salt # None /\ disk[c][s].priv # NoDevice =>
            disk[c][s].salt.key = disk[c][s].priv.key

\* Without a session that ends in mid-flight, a bootstrap runs alone.
Orderly(c) ==
    ~May("leave") /\ boot[c].pc # "idle" => who[c] # "nobody" /\ leave[c].pc = "idle"

\* How far the wipe of a phone has come.
Wiped(c) ==
    ~May("leave") /\ c \in Phones /\ who[c] = "nobody" =>
        /\ leave[c].pc = "idle" => disk[c]["phone"].salt = None \/ disk[c]["phone"].priv = NoDevice
        /\ leave[c].pc = "forget" => leave[c].slots = {"phone"}
        /\ leave[c].pc = "salt" => disk[c]["phone"].priv = NoDevice

Client(c) ==
    /\ LiveIsSomebody(c)
    /\ BootsOwn(c)
    /\ PasswordCurrent(c)
    /\ SignedOut(c)
    /\ SessionSound(c)
    /\ TaskSound(c)
    /\ Vouched(c)
    /\ Orderly(c)
    /\ Wiped(c)

IInv ==
    /\ Typed
    /\ PasswordOpens
    /\ \A c \in Clients : Client(c)
-----------------------------------------------------------------------------
(* Records *)

\* The constants are of the types of what they stand for.
LEMMA Constants0 ==
  /\ None \in Salts /\ NoDevice \in Devices /\ Empty \in Slot0 /\ Idle \in Tasks /\ Idle \in Leaves
  /\ Idle.pc = "idle" /\ Empty.priv = NoDevice /\ Empty.salt = None
  /\ 0 \in Numbers /\ "phone" \in {"phone"} \cup Accounts
  BY KeysAssumption DEF None, NoDevice, Empty, Idle, Salts, Devices, Slot0, Numbers, Tasks, Resting, Leaves

\* A task has the fields of its stage.
LEMMA TaskShape ==
  ASSUME NEW b \in Tasks
  PROVE  /\ b.pc = "fetch" => b \in Reading
         /\ b.pc \in {"decide", "reput"} => b \in Deciding
         /\ b.pc \in VouchSteps => b \in Vouching
         /\ b.pc \in WriteSteps => b \in Writing
         /\ b.pc = "idle" => b \in Resting
         /\ b.pc # "idle" => b.account \in Accounts /\ b.stale \in BOOLEAN
         /\ b.pc \in {"idle", "fetch", "decide", "reput"} \cup VouchSteps \cup WriteSteps
         /\ b.pc \in VouchSteps \cup WriteSteps => b.salt \in Salts /\ b.secret \in Nat
         /\ b.pc \in WriteSteps => b.device \in Devices
  BY DEF Tasks, Reading, Deciding, Vouching, Writing, Resting, VouchSteps, WriteSteps

\* A bootstrap that starts is a task.
LEMMA NewReading ==
  ASSUME NEW a \in Accounts
  PROVE  [pc |-> "fetch", account |-> a, stale |-> FALSE] \in Tasks
  BY DEF Tasks, Reading

\* What was fetched makes a task.
LEMMA NewDeciding ==
  ASSUME NEW a \in Accounts, NEW r \in SUBSET Devices, NEW e \in Envelopes, NEW m \in Slot0
  PROVE  [pc |-> "decide", account |-> a, stale |-> FALSE, rows |-> r, envelope |-> e, mine |-> m] \in Tasks
  BY DEF Tasks, Deciding

\* A salt to remember makes a task.
LEMMA NewVouching ==
  ASSUME NEW p \in VouchSteps, NEW a \in Accounts, NEW s \in Salts, NEW m \in Nat
  PROVE  [pc |-> p, account |-> a, stale |-> FALSE, salt |-> s, secret |-> m] \in Tasks
  BY DEF Tasks, Vouching

\* A device to register makes a task.
LEMMA NewWriting ==
  ASSUME NEW p \in WriteSteps, NEW a \in Accounts, NEW d \in Devices, NEW s \in Salts, NEW m \in Nat
  PROVE  [pc |-> p, account |-> a, stale |-> FALSE, device |-> d, salt |-> s, secret |-> m] \in Tasks
  BY DEF Tasks, Writing

\* A task that uploads its row again is otherwise the same.
LEMMA DecidingOn ==
  ASSUME NEW b \in Deciding
  PROVE  LET n == [b EXCEPT !.pc = "reput"]
         IN  n \in Tasks /\ n.pc = "reput" /\ n.account = b.account /\ n.stale = b.stale
             /\ n.rows = b.rows /\ n.envelope = b.envelope /\ n.mine = b.mine
  BY DEF Tasks, Deciding

\* A task that goes on to its next request or write is otherwise the same.
LEMMA VouchingOn ==
  ASSUME NEW b \in Vouching, NEW p \in VouchSteps
  PROVE  LET n == [b EXCEPT !.pc = p]
         IN  n \in Tasks /\ n.pc = p /\ n.account = b.account /\ n.stale = b.stale /\ n.salt = b.salt
             /\ n.secret = b.secret
  BY DEF Tasks, Vouching

\* A task that uploaded it has the salt to remember.
LEMMA VouchingAgain ==
  ASSUME NEW b \in Vouching
  PROVE  LET n == [b EXCEPT !.pc = "resolve", !.secret = 0]
         IN  n \in Tasks /\ n.pc = "resolve" /\ n.account = b.account /\ n.stale = b.stale
             /\ n.salt = b.salt /\ n.secret = 0
  BY DEF Tasks, Vouching, VouchSteps

\* A task that goes on to its next write is otherwise the same.
LEMMA WritingOn ==
  ASSUME NEW b \in Writing, NEW p \in WriteSteps
  PROVE  LET n == [b EXCEPT !.pc = p]
         IN  n \in Tasks /\ n.pc = p /\ n.account = b.account /\ n.stale = b.stale
             /\ n.device = b.device /\ n.salt = b.salt /\ n.secret = b.secret
  BY DEF Tasks, Writing

\* A task that becomes stale is otherwise the same.
LEMMA Staled ==
  ASSUME NEW b \in Tasks, b.pc # "idle"
  PROVE  LET n == [b EXCEPT !.stale = TRUE]
         IN  /\ n \in Tasks /\ n.pc = b.pc /\ n.account = b.account /\ n.stale = TRUE
             /\ b.pc \in VouchSteps => n.salt = b.salt /\ n.secret = b.secret
             /\ b \in Writing => n.device = b.device /\ n.salt = b.salt /\ n.secret = b.secret
             /\ b \in Deciding => n.rows = b.rows /\ n.envelope = b.envelope /\ n.mine = b.mine
  BY DEF Tasks, Reading, Deciding, Vouching, Writing, Resting, VouchSteps, WriteSteps

\* A sign-out has the fields of its stage.
LEMMA LeaveShape ==
  ASSUME NEW l \in Leaves
  PROVE  /\ l.pc = "row" => l.account \in Accounts
         /\ l.pc \in {"check", "forget", "salt"} => l.ended \in BOOLEAN
         /\ l.pc \in {"idle", "row", "server", "unseen", "check", "forget", "salt"}
  BY DEF Leaves, Resting

\* The stages of a sign-out.
LEMMA NewLeaves ==
  /\ \A a \in Accounts : [pc |-> "row", account |-> a] \in Leaves
  /\ [pc |-> "server"] \in Leaves /\ [pc |-> "unseen"] \in Leaves
  /\ \A e \in BOOLEAN : [pc |-> "check", ended |-> e] \in Leaves /\ [pc |-> "salt", ended |-> e] \in Leaves
  /\ \A e \in BOOLEAN : \A S \in SUBSET ({"phone"} \cup Accounts) :
       [pc |-> "forget", slots |-> S, ended |-> e] \in Leaves
  BY DEF Leaves

\* The first stage of a wipe.
LEMMA WipeLeave ==
  /\ [pc |-> "check", ended |-> TRUE] \in Leaves /\ [pc |-> "check", ended |-> TRUE].pc = "check"
  /\ [pc |-> "check", ended |-> FALSE] \in Leaves /\ [pc |-> "check", ended |-> FALSE].pc = "check"
  BY DEF Leaves

\* The slot of an account is one of the client.
LEMMA SlotIs ==
  ASSUME NEW c \in Clients, NEW a \in Accounts
  PROVE  /\ Slot(c, a) \in Slots(c)
         /\ Slots(c) \subseteq {"phone"} \cup Accounts
         /\ c \in Phones => Slots(c) = {"phone"} /\ Slot(c, a) = "phone"
         /\ c \in Browsers => c \notin Phones
         /\ c \notin Phones => c \in Browsers
  BY KeysAssumption DEF Slot, Slots, Clients

\* A slot has a device id, a key pair and a salt.
LEMMA SlotFields ==
  ASSUME NEW d \in Slot0
  PROVE  d.id \in Devices /\ d.priv \in Devices /\ d.salt \in Salts
  BY DEF Slot0

\* A slot with another salt is otherwise the same.
LEMMA SlotSalted ==
  ASSUME NEW d \in Slot0, NEW s \in Salts
  PROVE  LET n == [d EXCEPT !.salt = s] IN n \in Slot0 /\ n.id = d.id /\ n.priv = d.priv /\ n.salt = s
  BY DEF Slot0

\* A slot with another id or key pair is otherwise the same.
LEMMA SlotKeyed ==
  ASSUME NEW d \in Slot0, NEW v \in Devices
  PROVE  /\ LET n == [d EXCEPT !.id = v] IN n \in Slot0 /\ n.id = v /\ n.priv = d.priv /\ n.salt = d.salt
         /\ LET n == [d EXCEPT !.priv = v] IN n \in Slot0 /\ n.id = d.id /\ n.priv = v /\ n.salt = d.salt
  BY DEF Slot0

-----------------------------------------------------------------------------
(* Steps that leave a client, or most of it, alone *)

\* What one client keeps has its type.
LEMMA ClientTyped ==
  ASSUME Typed, NEW c \in Clients
  PROVE  /\ boot[c] \in Tasks /\ leave[c] \in Leaves
         /\ who[c] \in Accounts \cup {"nobody"} /\ password[c] \in 0 .. acts + 1 /\ session[c] \in Numbers
         /\ \A a \in Accounts : Stored(c, a) = disk[c][Slot(c, a)] /\ Stored(c, a) \in Slot0
  BY SlotIs DEF Typed, TypedClients, TypedDisk, TypedTasks, Stored

Same(d) ==
    /\ who'[d] = who[d] /\ password'[d] = password[d] /\ session'[d] = session[d]
    /\ boot'[d] = boot[d] /\ leave'[d] = leave[d] /\ disk'[d] = disk[d]

\* A client that stays as it is keeps its part of the invariant.
LEMMA SameKeeps ==
  ASSUME NEW d \in Clients, Client(d), Same(d), d \in live' => d \in live, scenario' = scenario,
         ~May("cross") /\ (d \in live' \/ boot[d].pc \in {"sealing", "resealing"}) /\ boot[d].pc # "idle" =>
             pw'[boot[d].account] = pw[boot[d].account]
  PROVE  Client(d)'
<1>1. LiveIsSomebody(d)' /\ BootsOwn(d)' /\ PasswordCurrent(d)'
  BY DEF Client, Same, LiveIsSomebody, BootsOwn, PasswordCurrent, May
<1>2. SignedOut(d)' /\ SessionSound(d)'
  BY DEF Client, Same, SignedOut, SessionSound, Stored
<1>3. TaskSound(d)' /\ Vouched(d)'
  BY DEF Client, Same, TaskSound, Vouched, Stored, Trusted, May
<1>4. Orderly(d)' /\ Wiped(d)'
  BY DEF Client, Same, Orderly, Wiped, May
<1> QED BY <1>1, <1>2, <1>3, <1>4 DEF Client

\* A step of one client.
LEMMA Assemble ==
  ASSUME IInv, NEW c \in Clients, TypedServer', TypedClients', TypedDisk', TypedTasks', PasswordOpens',
         Client(c)', \A d \in Clients : d # c => Same(d), live' \subseteq live \cup {c}, scenario' = scenario,
         \A d \in Clients :
             d # c /\ ~May("cross") /\ (d \in live' \/ boot[d].pc \in {"sealing", "resealing"})
               /\ boot[d].pc # "idle" => pw'[boot[d].account] = pw[boot[d].account]
  PROVE  IInv'
<1>1. ASSUME NEW d \in Clients, d # c PROVE Client(d)'
  BY SameKeeps DEF IInv
<1> QED BY <1>1 DEF IInv, Typed

\* A bootstrap ends.
LEMMA Stops ==
  ASSUME NEW c \in Clients, Client(c), boot'[c] = Idle, who'[c] = who[c], session'[c] = session[c],
         leave'[c] = leave[c], disk'[c] = disk[c], c \in live' => c \in live, scenario' = scenario
  PROVE  Client(c)'
<1>0. boot'[c].pc = "idle"
  BY Constants0
<1>1. LiveIsSomebody(c)' /\ BootsOwn(c)' /\ PasswordCurrent(c)' /\ Orderly(c)'
  BY <1>0 DEF Client, LiveIsSomebody, BootsOwn, PasswordCurrent, Orderly, VouchSteps, WriteSteps
<1>2. SignedOut(c)' /\ SessionSound(c)'
  BY <1>0 DEF Client, SignedOut, SessionSound, Stored
<1>3. TaskSound(c)' /\ Vouched(c)' /\ Wiped(c)'
  BY <1>0 DEF Client, TaskSound, Vouched, Wiped, May, Trusted, VouchSteps, WriteSteps
<1> QED BY <1>1, <1>2, <1>3 DEF Client

\* The memory of a client is cleared, and its bootstrap stale.
LEMMA Clears ==
  ASSUME Typed, NEW c \in Clients, ClearMemory(c)
  PROVE  /\ session' \in [Clients -> Numbers] /\ password' \in [Clients -> 0 .. acts + 1]
         /\ boot' \in [Clients -> Tasks]
         /\ session'[c] = 0 /\ password'[c] = 0
         /\ boot'[c].pc = boot[c].pc
         /\ boot[c].pc # "idle" => boot'[c].stale = TRUE /\ boot'[c].account = boot[c].account
         /\ boot[c].pc \in VouchSteps \cup WriteSteps =>
              boot'[c].salt = boot[c].salt /\ boot'[c].secret = boot[c].secret
         /\ boot[c].pc \in WriteSteps => boot'[c].device = boot[c].device
         /\ boot[c].pc \in {"decide", "reput"} =>
              boot'[c].rows = boot[c].rows /\ boot'[c].envelope = boot[c].envelope
                /\ boot'[c].mine = boot[c].mine
         /\ \A d \in Clients : d # c =>
              session'[d] = session[d] /\ password'[d] = password[d] /\ boot'[d] = boot[d]
<1>1. boot[c] \in Tasks /\ boot \in [Clients -> Tasks] /\ 0 \in 0 .. acts + 1
  BY DEF Typed, TypedTasks, TypedServer
<1>2. CASE boot[c].pc = "idle"
  <2>1. boot' = [boot EXCEPT ![c] = boot[c]]
    BY <1>2 DEF ClearMemory
  <2> QED BY <1>1, <1>2, Constants0 DEF ClearMemory, Typed, TypedClients
<1>3. CASE boot[c].pc # "idle"
  <2>1. boot' = [boot EXCEPT ![c] = [boot[c] EXCEPT !.stale = TRUE]]
    BY <1>3 DEF ClearMemory
  <2>2. boot'[c] = [boot[c] EXCEPT !.stale = TRUE]
    BY <1>1, <2>1
  <2>3. /\ boot'[c] \in Tasks /\ boot'[c].pc = boot[c].pc /\ boot'[c].account = boot[c].account
        /\ boot'[c].stale = TRUE
        /\ boot[c].pc \in VouchSteps =>
             boot'[c].salt = boot[c].salt /\ boot'[c].secret = boot[c].secret
        /\ boot[c] \in Writing =>
             boot'[c].device = boot[c].device /\ boot'[c].salt = boot[c].salt
               /\ boot'[c].secret = boot[c].secret
        /\ boot[c] \in Deciding =>
             boot'[c].rows = boot[c].rows /\ boot'[c].envelope = boot[c].envelope
               /\ boot'[c].mine = boot[c].mine
    BY <1>1, <1>3, <2>2, Staled
  <2>4. \A d \in Clients : d # c => boot'[d] = boot[d]
    BY <2>1
  <2>5. boot' \in [Clients -> Tasks]
    BY <1>1, <2>1, <2>3
  <2>6. boot[c].pc \in WriteSteps => boot[c] \in Writing
    BY <1>1, TaskShape
  <2>7. boot[c].pc \in {"decide", "reput"} => boot[c] \in Deciding
    BY <1>1, TaskShape
  <2> QED BY <1>1, <2>3, Constants0 DEF ClearMemory, Typed, TypedClients
<1> QED BY <1>2, <1>3

\* What a client forgets with its memory.
LEMMA ClearsKeeps ==
  ASSUME Typed, NEW c \in Clients, Client(c), ClearMemory(c), disk'[c] = disk[c],
         who'[c] \in {who[c], "nobody"}, pw' = pw, live' \subseteq live, c \in live' => who'[c] = who[c],
         scenario' = scenario
  PROVE  /\ LiveIsSomebody(c)' /\ BootsOwn(c)' /\ PasswordCurrent(c)' /\ SessionSound(c)'
         /\ TaskSound(c)' /\ Vouched(c)'
<1>1. LiveIsSomebody(c)' /\ BootsOwn(c)'
  BY Clears DEF Client, LiveIsSomebody, BootsOwn
<1>2. PasswordCurrent(c)'
  <2>0. /\ password'[c] = 0 /\ boot'[c].pc = boot[c].pc
        /\ boot[c].pc # "idle" => boot'[c].account = boot[c].account
        /\ boot[c].pc \in VouchSteps \cup WriteSteps => boot'[c].secret = boot[c].secret
    BY Clears
  <2>2. CASE boot[c].pc = "idle"
    BY <2>0, <2>2 DEF PasswordCurrent, VouchSteps, WriteSteps
  <2>3. CASE boot[c].pc \in VouchSteps \cup WriteSteps
    BY <2>0, <2>3 DEF Client, PasswordCurrent, May, VouchSteps, WriteSteps
  <2>4. CASE boot[c].pc \in {"fetch", "decide", "reput"}
    BY <2>0, <2>4 DEF PasswordCurrent, VouchSteps, WriteSteps
  <2>5. boot[c] \in Tasks
    BY DEF Typed, TypedTasks
  <2> QED BY <2>2, <2>3, <2>4, <2>5, TaskShape
<1>3. TaskSound(c)'
  <2>1. CASE boot[c].pc = "idle"
    BY <2>1, Clears DEF TaskSound, VouchSteps, WriteSteps
  <2>2. CASE boot[c].pc # "idle"
    <3>1. boot'[c].account = boot[c].account /\ boot'[c].pc = boot[c].pc
      BY <2>2, Clears
    <3>2. TaskSound(c) /\ disk'[c][Slot(c, boot'[c].account)] = disk[c][Slot(c, boot[c].account)]
      BY <3>1 DEF Client
    <3>3. CASE boot[c].pc \in {"decide", "reput"}
      <4>1. boot'[c].mine = boot[c].mine
        BY <3>3, Clears
      <4> QED BY <3>1, <3>2, <3>3, <4>1 DEF TaskSound, Stored, Trusted, May, VouchSteps, WriteSteps
    <3>4. CASE boot[c].pc \in VouchSteps
      <4>1. boot'[c].salt = boot[c].salt
        BY <3>4, Clears
      <4> QED BY <3>1, <3>2, <3>4, <4>1 DEF TaskSound, Stored, Trusted, May, VouchSteps, WriteSteps
    <3>5. CASE boot[c].pc \notin {"decide", "reput"} \cup VouchSteps
      <4>1. boot[c].pc \in WriteSteps =>
              boot'[c].device = boot[c].device /\ boot'[c].salt = boot[c].salt
        BY Clears
      <4> QED BY <3>1, <3>2, <3>5, <4>1 DEF TaskSound, Stored, Trusted, May, KeepsNone, VouchSteps,
            WriteSteps
    <3> QED BY <3>3, <3>4, <3>5
  <2> QED BY <2>1, <2>2
<1>4. Vouched(c)'
  BY DEF Client, Vouched, Trusted, May
<1>5. SessionSound(c)'
  BY Clears DEF SessionSound
<1> QED BY <1>1, <1>2, <1>3, <1>4, <1>5

-----------------------------------------------------------------------------
(* Every step keeps the invariant *)

\* A sign-in finds the client without a key.
LEMMA SignInKeeps ==
  ASSUME IInv, NEW c \in Clients, NEW a \in Accounts, SignIn(c, a)
  PROVE  IInv'
<1>0. Typed /\ Client(c) /\ PasswordOpens
  BY DEF IInv
<1>1. /\ who'[c] = a /\ boot[c].pc = "idle"
      /\ password'[c] \in {0, pw[a]} /\ password' \in [Clients -> 0 .. acts + 1]
      /\ boot' = [boot EXCEPT ![c] = [pc |-> "fetch", account |-> a, stale |-> FALSE]]
      /\ boot'[c] = [pc |-> "fetch", account |-> a, stale |-> FALSE]
      /\ \/ who[c] = "nobody" /\ (leave[c].pc = "idle" \/ (May("leave") /\ Wiping(c)))
         \/ leave[c].pc = "unseen"
      /\ leave' = [leave EXCEPT ![c] = leave'[c]]
      /\ leave'[c] = IF leave[c].pc = "unseen" THEN Idle ELSE leave[c]
      /\ session' = session /\ disk' = disk /\ pw' = pw /\ scenario' = scenario
           /\ envelope' = envelope
  BY <1>0 DEF Typed, TypedServer, TypedClients, TypedTasks, SignIn, Started
<1>2. session[c] = 0
  BY <1>0, <1>1 DEF Client, SignedOut, Wiping
<1>a. /\ leave'[c] \in Leaves /\ leave'[c].pc # "unseen"
      /\ leave'[c].pc = "salt" => leave[c].pc = "salt"
      /\ leave'[c].pc = "idle" \/ May("leave")
  BY <1>0, <1>1, Constants0, ClientTyped DEF Wiping
<1>3. TypedServer'
  BY <1>0, KeysAssumption DEF Typed, TypedServer, SignIn, Act
<1>4. TypedClients'
  BY <1>0 DEF Typed, TypedServer, TypedClients, SignIn, Act
<1>5. TypedDisk'
  BY <1>0, <1>1 DEF Typed, TypedDisk
<1>6. TypedTasks'
  <2>1. boot'[c] \in Tasks /\ boot'[c].pc = "fetch"
    BY <1>1, NewReading
  <2> QED BY <1>0, <1>1, <1>a, <2>1 DEF Typed, TypedTasks
<1>7. Client(c)'
  <2>1. LiveIsSomebody(c)'
    BY <1>1, KeysAssumption DEF LiveIsSomebody
  <2>2. BootsOwn(c)'
    BY <1>1 DEF BootsOwn
  <2>3. PasswordCurrent(c)'
    <3>1. boot'[c].pc = "fetch" /\ boot'[c].account = a
      BY <1>1
    <3> QED BY <1>1, <3>1 DEF PasswordCurrent, VouchSteps, WriteSteps
  <2>4. SignedOut(c)'
    BY <1>1, <1>a, KeysAssumption DEF SignedOut
  <2>5. SessionSound(c)'
    BY <1>1, <1>2 DEF SessionSound
  <2>6. TaskSound(c)'
    BY <1>1 DEF TaskSound, VouchSteps, WriteSteps
  <2>7. Vouched(c)'
    BY <1>0, <1>1 DEF Client, Vouched, Trusted, May
  <2>8. Orderly(c)'
    BY <1>1, <1>a, KeysAssumption DEF Orderly, May
  <2>9. Wiped(c)'
    BY <1>1, KeysAssumption DEF Wiped
  <2> QED BY <2>1, <2>2, <2>3, <2>4, <2>5, <2>6, <2>7, <2>8, <2>9 DEF Client
<1>8. \A d \in Clients : d # c => Same(d)
  BY <1>0, <1>1 DEF Same, SignIn
<1>9. PasswordOpens'
  BY <1>0 DEF PasswordOpens, May, SignIn
<1> QED BY <1>3, <1>4, <1>5, <1>6, <1>7, <1>8, <1>9, Assemble DEF SignIn

\* What was in memory is gone.
LEMMA RestartKeeps ==
  ASSUME IInv, NEW c \in Clients, Restart(c)
  PROVE  IInv'
<1>0. Typed /\ Client(c) /\ PasswordOpens
  BY DEF IInv
<1>1. /\ session'[c] = 0 /\ password'[c] = 0 /\ who' = who /\ disk' = disk /\ pw' = pw /\ live' = live
      /\ scenario' = scenario
      /\ boot' = [boot EXCEPT ![c] = boot'[c]]
      /\ leave' = [leave EXCEPT ![c] = leave'[c]]
      /\ password' = [password EXCEPT ![c] = 0] /\ session' = [session EXCEPT ![c] = 0]
      /\ \/ /\ boot'[c] = IF who[c] = "nobody" THEN Idle
                          ELSE [pc |-> "fetch", account |-> who[c], stale |-> FALSE]
            /\ leave'[c] = IF who[c] = "nobody" /\ c \in Phones THEN [pc |-> "check", ended |-> TRUE]
                           ELSE Idle
         \/ boot'[c] = Idle /\ leave'[c] = [pc |-> "unseen"]
  BY <1>0, ClientTyped, TaskShape, LeaveShape DEF Typed, TypedServer, TypedClients, TypedDisk,
     TypedTasks, Restart, Act, Started, server, memory
<1>2. /\ boot'[c] \in Tasks /\ boot'[c].pc \in {"idle", "fetch"}
      /\ leave'[c] \in Leaves /\ leave'[c].pc \in {"idle", "check", "unseen"}
      /\ boot'[c].pc # "idle" => boot'[c].account = who[c] /\ who[c] # "nobody" /\ leave'[c].pc = "idle"
      /\ c \in Phones /\ who[c] = "nobody" => leave'[c].pc # "idle"
  <2>1. CASE boot'[c] = Idle /\ leave'[c] = [pc |-> "unseen"]
    BY <2>1, NewLeaves, Constants0
  <2>2. CASE /\ who[c] = "nobody" /\ boot'[c] = Idle
             /\ leave'[c] = IF c \in Phones THEN [pc |-> "check", ended |-> TRUE] ELSE Idle
    <3>1. /\ boot'[c] = Idle /\ leave'[c] \in {[pc |-> "check", ended |-> TRUE], Idle}
          /\ c \in Phones => leave'[c] = [pc |-> "check", ended |-> TRUE]
      BY <1>1, <2>2
    <3> QED BY <2>2, <3>1, WipeLeave, Constants0
  <2>3. CASE /\ who[c] # "nobody" /\ leave'[c] = Idle
             /\ boot'[c] = [pc |-> "fetch", account |-> who[c], stale |-> FALSE]
    <3>1. who[c] \in Accounts
      BY <1>0, <2>3, ClientTyped
    <3> QED BY <2>3, <3>1, NewReading, Constants0
  <2> QED BY <1>1, <2>1, <2>2, <2>3
<1>3. TypedServer'
  BY <1>0, KeysAssumption DEF Typed, TypedServer, Restart, Act, server
<1>4. TypedClients'
  BY <1>0, Constants0 DEF Typed, TypedClients, Restart, Act
<1>5. TypedDisk'
  BY <1>0 DEF Typed, TypedDisk, Restart
<1>6. TypedTasks'
  BY <1>0, <1>1, <1>2 DEF Typed, TypedTasks
<1>7. Client(c)'
  <2>1. LiveIsSomebody(c)'
    BY <1>0, <1>1 DEF Client, LiveIsSomebody
  <2>2. BootsOwn(c)'
    BY <1>1, <1>2 DEF BootsOwn
  <2>3. PasswordCurrent(c)'
    BY <1>1, <1>2 DEF PasswordCurrent, VouchSteps, WriteSteps
  <2>4. SignedOut(c)'
    BY <1>1, <1>2 DEF SignedOut
  <2>5. SessionSound(c)'
    BY <1>1 DEF SessionSound
  <2>6. TaskSound(c)'
    BY <1>2 DEF TaskSound, VouchSteps, WriteSteps
  <2>7. Vouched(c)'
    BY <1>0, <1>1 DEF Client, Vouched, Trusted, May
  <2>8. Orderly(c)'
    BY <1>1, <1>2 DEF Orderly
  <2>9. Wiped(c)'
    BY <1>1, <1>2 DEF Wiped
  <2> QED BY <2>1, <2>2, <2>3, <2>4, <2>5, <2>6, <2>7, <2>8, <2>9 DEF Client
<1>8. \A d \in Clients : d # c => Same(d)
  BY <1>0, <1>1 DEF Typed, TypedTasks, TypedClients, Same
<1>9. PasswordOpens'
  BY <1>0 DEF PasswordOpens, May, Restart, server
<1> QED BY <1>1, <1>3, <1>4, <1>5, <1>6, <1>7, <1>8, <1>9, Assemble

\* A request that fails ends the bootstrap.
LEMMA FailsKeeps ==
  ASSUME IInv, NEW c \in Clients, Fails(c)
  PROVE  IInv'
<1>0. Typed /\ Client(c) /\ PasswordOpens
  BY DEF IInv
<1>1. /\ boot' = [boot EXCEPT ![c] = Idle] /\ boot'[c] = Idle
      /\ UNCHANGED <<scenario, server, who, memory, disk, leave, used, minted, acts>>
  BY <1>0 DEF Typed, TypedTasks, Fails, Done, GoTo
<1>3. TypedServer'
  BY <1>0 DEF Typed, TypedServer, Fails, server
<1>4. TypedClients'
  BY <1>0 DEF Typed, TypedClients, Fails, memory
<1>5. TypedDisk'
  BY <1>0 DEF Typed, TypedDisk, Fails
<1>6. TypedTasks'
  BY <1>0, <1>1, Constants0 DEF Typed, TypedTasks
<1>7. Client(c)'
  BY <1>0, <1>1, Stops DEF server, memory
<1>8. \A d \in Clients : d # c => Same(d)
  BY <1>1 DEF Same, memory
<1>9. PasswordOpens'
  BY <1>0 DEF PasswordOpens, May, Fails, server
<1> QED BY <1>1, <1>3, <1>4, <1>5, <1>6, <1>7, <1>8, <1>9, Assemble DEF server

\* A stale bootstrap ends.
LEMMA GiveUpKeeps ==
  ASSUME IInv, NEW c \in Clients, GiveUp(c)
  PROVE  IInv'
<1>0. Typed /\ Client(c) /\ PasswordOpens
  BY DEF IInv
<1>1. /\ boot' = [boot EXCEPT ![c] = Idle] /\ boot'[c] = Idle
      /\ UNCHANGED <<scenario, server, who, memory, disk, leave, used, minted, acts>>
  BY <1>0 DEF Typed, TypedTasks, GiveUp, Done, GoTo
<1>3. TypedServer'
  BY <1>0 DEF Typed, TypedServer, GiveUp, server
<1>4. TypedClients'
  BY <1>0 DEF Typed, TypedClients, GiveUp, memory
<1>5. TypedDisk'
  BY <1>0 DEF Typed, TypedDisk, GiveUp
<1>6. TypedTasks'
  BY <1>0, <1>1, Constants0 DEF Typed, TypedTasks
<1>7. Client(c)'
  BY <1>0, <1>1, Stops DEF server, memory
<1>8. \A d \in Clients : d # c => Same(d)
  BY <1>1 DEF Same, memory
<1>9. PasswordOpens'
  BY <1>0 DEF PasswordOpens, May, GiveUp, server
<1> QED BY <1>1, <1>3, <1>4, <1>5, <1>6, <1>7, <1>8, <1>9, Assemble DEF server

\* What the server has is fetched for the account.
LEMMA FetchKeeps ==
  ASSUME IInv, NEW c \in Clients, Fetch(c)
  PROVE  IInv'
<1>0. Typed /\ Client(c) /\ PasswordOpens
  BY DEF IInv
<1>1. /\ boot[c].pc = "fetch" /\ boot[c].account \in Accounts
      /\ boot' = [boot EXCEPT ![c] = boot'[c]]
      /\ \/ boot'[c] = Idle
         \/ /\ ~boot[c].stale
            /\ boot'[c] = [pc |-> "decide", account |-> boot[c].account, stale |-> FALSE,
                           rows |-> rows[boot[c].account], envelope |-> envelope[boot[c].account],
                           mine |-> Stored(c, boot[c].account)]
      /\ UNCHANGED <<scenario, server, who, memory, disk, leave, used, minted, acts>>
  BY <1>0, TaskShape DEF Typed, TypedTasks, Fetch, GoTo
<1>2. boot'[c] \in Tasks /\ boot'[c].pc \in {"idle", "decide"}
  <2>1. /\ rows[boot[c].account] \in SUBSET Devices /\ envelope[boot[c].account] \in Envelopes
        /\ Stored(c, boot[c].account) \in Slot0
    BY <1>0, <1>1, ClientTyped DEF Typed, TypedServer, Envelopes
  <2> QED BY <1>1, <2>1, NewDeciding, Constants0
<1>3. TypedServer'
  BY <1>0 DEF Typed, TypedServer, Fetch, server
<1>4. TypedClients'
  BY <1>0, <1>1 DEF Typed, TypedClients, memory
<1>5. TypedDisk'
  BY <1>0, <1>1 DEF Typed, TypedDisk
<1>6. TypedTasks'
  BY <1>0, <1>1, <1>2 DEF Typed, TypedTasks
<1>7. Client(c)'
  <2>1. CASE boot'[c] = Idle
    BY <1>0, <1>1, <2>1, Stops DEF server, memory
  <2>2. CASE /\ boot'[c].pc = "decide" /\ boot'[c].account = boot[c].account
             /\ ~boot[c].stale /\ ~boot'[c].stale /\ boot'[c].mine = Stored(c, boot[c].account)
    <3>0. TaskSound(c)'
      BY <1>0, <1>1, <2>2, SlotIs DEF Client, Vouched, TaskSound, Stored, Trusted, May, VouchSteps, WriteSteps
    <3>1. LiveIsSomebody(c)' /\ BootsOwn(c)' /\ PasswordCurrent(c)' /\ Orderly(c)'
      BY <1>0, <1>1, <2>2 DEF Client, LiveIsSomebody, BootsOwn, PasswordCurrent, Orderly, May, server,
         memory, VouchSteps, WriteSteps
    <3>2. SignedOut(c)' /\ SessionSound(c)' /\ Vouched(c)' /\ Wiped(c)'
      BY <1>0, <1>1, <2>2 DEF Client, SignedOut, SessionSound, Vouched, Wiped, May, memory, Trusted,
         VouchSteps
    <3> QED BY <3>0, <3>1, <3>2 DEF Client
  <2> QED BY <1>1, <2>1, <2>2
<1>8. \A d \in Clients : d # c => Same(d)
  BY <1>0, <1>1 DEF Typed, TypedTasks, Same, memory
<1>9. PasswordOpens'
  BY <1>0 DEF PasswordOpens, May, Fetch, server
<1> QED BY <1>1, <1>3, <1>4, <1>5, <1>6, <1>7, <1>8, <1>9, Assemble DEF server

\* The key of the device on disk becomes the session's.
LEMMA UseDeviceKeeps ==
  ASSUME IInv, NEW c \in Clients, UseDevice(c)
  PROVE  IInv'
<1>0. Typed /\ Client(c) /\ PasswordOpens
  BY DEF IInv
<1>1. /\ boot[c].pc = "decide" /\ ~boot[c].stale /\ boot[c].account \in Accounts
      /\ boot[c].mine \in Slot0 /\ DeviceOpens(boot[c].mine)
      /\ boot[c].envelope \in Envelopes
      /\ boot' = [boot EXCEPT ![c] = boot'[c]]
      /\ session' = [session EXCEPT ![c] = boot[c].mine.id.key]
      /\ password'[c] \in {0, password[c]}
      /\ UNCHANGED <<scenario, server, who, disk, leave, minted, acts>>
  BY <1>0, ClientTyped, TaskShape DEF Typed, TypedTasks, Deciding, UseDevice, GoTo, Activate
<1>2. /\ boot[c].mine.priv = boot[c].mine.id
      /\ session'[c] = boot[c].mine.priv.key /\ session'[c] \in Numbers
      /\ boot'[c] \in Tasks /\ boot'[c].salt \in Salts
      /\ boot'[c].pc = "resolve" /\ boot'[c].account = boot[c].account /\ ~boot'[c].stale
      /\ boot'[c].secret \in {0, password[c]}
      /\ Trusted(c) => (boot'[c].salt # None => boot'[c].salt.key = boot[c].mine.priv.key)
      /\ Stored(c, boot[c].account).priv \in {boot[c].mine.priv, NoDevice}
  <2> DEFINE d == boot[c].mine
             s == ResolvedSalt(c, d.salt, boot[c].envelope, d.id.key)
             m == MissingEnvelope(c, boot[c].envelope)
  <2>1. d \in Slot0 /\ d.priv = d.id /\ d.id # NoDevice /\ d.id \in Devices /\ d.salt \in Salts
        /\ boot[c].envelope.salt \in Salts
    BY <1>1 DEF DeviceOpens, Slot0, Envelopes
  <2>2. Trusted(c) => (d.salt # None /\ d.priv # NoDevice => d.salt.key = d.priv.key)
    BY <1>0, <1>1 DEF Client, TaskSound, Trusted, May, VouchSteps, WriteSteps
  <2>3. s \in Salts /\ (Trusted(c) => (s # None => s.key = d.priv.key))
    BY <2>1, <2>2, Constants0 DEF ResolvedSalt
  <2>4. m \in Nat /\ m \in {0, password[c]}
    BY <1>0, ClientTyped DEF MissingEnvelope, Typed, TypedServer
  <2>5. boot'[c] = [pc |-> "resolve", account |-> boot[c].account, stale |-> FALSE, salt |-> s, secret |-> m]
    BY <1>0 DEF UseDevice, GoTo, Typed, TypedTasks
  <2> HIDE DEF s, m
  <2>6. boot'[c] \in Tasks
    BY <1>1, <2>3, <2>4, <2>5, NewVouching DEF VouchSteps
  <2>7. session'[c] = d.priv.key /\ session'[c] \in Numbers
    BY <1>0, <1>1, <2>1 DEF Typed, TypedClients, Devices
  <2>8. Stored(c, boot[c].account).priv \in {boot[c].mine.priv, NoDevice}
    BY <1>0, <1>1 DEF Client, TaskSound, Trusted, May, VouchSteps, WriteSteps
  <2> QED BY <2>1, <2>3, <2>4, <2>5, <2>6, <2>7, <2>8
<1>3. TypedServer'
  BY <1>0, <1>1 DEF Typed, TypedServer, server
<1>4. TypedClients'
  BY <1>0, <1>1, <1>2, Constants0 DEF Typed, TypedServer, TypedClients, UseDevice, Activate
<1>5. TypedDisk'
  BY <1>0 DEF Typed, TypedDisk, UseDevice
<1>6. TypedTasks'
  BY <1>0, <1>1, <1>2 DEF Typed, TypedTasks
<1>7. Client(c)'
  <2>1. LiveIsSomebody(c)'
    BY <1>0, <1>1 DEF Client, LiveIsSomebody, server
  <2>2. BootsOwn(c)'
    BY <1>0, <1>1, <1>2 DEF Client, BootsOwn
  <2>3. PasswordCurrent(c)'
    <3>1. 0 <= scenario.acts + 1 /\ password[c] <= scenario.acts + 1
      BY <1>0, KeysAssumption, ClientTyped DEF Typed, TypedServer
    <3>2. ~May("cross") /\ c \in live => password[c] \in {0, pw[boot[c].account]}
      BY <1>0, <1>1 DEF Client, PasswordCurrent
    <3> QED BY <1>1, <1>2, <3>1, <3>2 DEF PasswordCurrent, server, May, VouchSteps, WriteSteps
  <2>4. SignedOut(c)'
    BY <1>0, <1>1 DEF Client, SignedOut
  <2>5. SessionSound(c)'
    BY <1>0, <1>1, <1>2, KeysAssumption DEF Client, SessionSound, BootsOwn, Stored, server, VouchSteps
  <2>6. TaskSound(c)'
    BY <1>1, <1>2 DEF TaskSound, Stored, Trusted, May, VouchSteps, WriteSteps
  <2>7. Vouched(c)'
    BY <1>0, <1>1 DEF Client, Vouched, Trusted, May
  <2>8. Orderly(c)'
    BY <1>0, <1>1 DEF Client, Orderly, May
  <2>9. Wiped(c)'
    BY <1>0, <1>1 DEF Client, Wiped, May
  <2> QED BY <2>1, <2>2, <2>3, <2>4, <2>5, <2>6, <2>7, <2>8, <2>9 DEF Client
<1>8. \A d \in Clients : d # c => Same(d)
  BY DEF Same, UseDevice, GoTo, Activate
<1>9. PasswordOpens'
  BY <1>0 DEF PasswordOpens, May, UseDevice, server
<1> QED BY <1>1, <1>3, <1>4, <1>5, <1>6, <1>7, <1>8, <1>9, Assemble DEF server

\* A browser is about to upload its device again.
LEMMA ReuploadKeeps ==
  ASSUME IInv, NEW c \in Clients, Reupload(c)
  PROVE  IInv'
<1>0. Typed /\ Client(c) /\ PasswordOpens
  BY DEF IInv
<1>1. /\ boot[c].pc = "decide" /\ boot[c] \in Deciding
      /\ boot' = [boot EXCEPT ![c] = [boot[c] EXCEPT !.pc = "reput"]]
      /\ boot'[c] = [boot[c] EXCEPT !.pc = "reput"]
      /\ UNCHANGED <<scenario, server, who, memory, disk, leave, used, minted, acts>>
  BY <1>0, TaskShape DEF Typed, TypedTasks, Reupload, GoTo
<1>2. boot'[c] \in Tasks /\ boot'[c].pc = "reput" /\ boot'[c].account = boot[c].account
        /\ boot'[c].stale = boot[c].stale /\ boot'[c].mine = boot[c].mine
  BY <1>1, DecidingOn
<1>3. TypedServer'
  BY <1>0 DEF Typed, TypedServer, Reupload, server
<1>4. TypedClients'
  BY <1>0, <1>1 DEF Typed, TypedClients, memory
<1>5. TypedDisk'
  BY <1>0, <1>1 DEF Typed, TypedDisk
<1>6. TypedTasks'
  BY <1>0, <1>1, <1>2 DEF Typed, TypedTasks
<1>7. Client(c)'
  <2>1. LiveIsSomebody(c)'
    BY <1>0, <1>1 DEF Client, LiveIsSomebody, server
  <2>2. BootsOwn(c)'
    BY <1>0, <1>1 DEF Client, BootsOwn
  <2>3. PasswordCurrent(c)'
    BY <1>0, <1>1 DEF Client, PasswordCurrent, server, memory, May, VouchSteps, WriteSteps
  <2>4. SignedOut(c)'
    BY <1>0, <1>1 DEF Client, SignedOut, memory
  <2>5. SessionSound(c)'
    BY <1>0, <1>1 DEF Client, SessionSound, memory, VouchSteps
  <2>6. TaskSound(c)'
    <3>1. c \in Browsers /\ boot[c].mine.id # NoDevice
      BY DEF Reupload, DeviceOpens
    <3> QED BY <1>0, <1>1, <1>2, <3>1 DEF Client, TaskSound, Stored, Trusted, May, VouchSteps, WriteSteps
  <2>7. Vouched(c)'
    BY <1>0, <1>1 DEF Client, Vouched, Trusted, May
  <2>8. Orderly(c)'
    BY <1>0, <1>1 DEF Client, Orderly, May
  <2>9. Wiped(c)'
    BY <1>0, <1>1 DEF Client, Wiped, May
  <2> QED BY <2>1, <2>2, <2>3, <2>4, <2>5, <2>6, <2>7, <2>8, <2>9 DEF Client
<1>8. \A d \in Clients : d # c => Same(d)
  BY <1>1 DEF Same, memory
<1>9. PasswordOpens'
  BY <1>0 DEF PasswordOpens, May, Reupload, server
<1> QED BY <1>1, <1>3, <1>4, <1>5, <1>6, <1>7, <1>8, <1>9, Assemble DEF server

\* The device is back among the account's.
LEMMA ReuploadedKeeps ==
  ASSUME IInv, NEW c \in Clients, Reuploaded(c)
  PROVE  IInv'
<1>0. Typed /\ Client(c) /\ PasswordOpens
  BY DEF IInv
<1>1. /\ boot[c].pc = "reput" /\ boot[c] \in Deciding
      /\ boot' = [boot EXCEPT ![c] = boot'[c]]
      /\ boot'[c] = IF boot[c].stale THEN Idle
                    ELSE [boot[c] EXCEPT !.pc = "decide", !.rows = boot[c].rows \cup {boot[c].mine.id}]
      /\ rows' = [rows EXCEPT ![boot[c].account] = rows[boot[c].account] \cup {boot[c].mine.id}]
      /\ UNCHANGED <<scenario, pw, envelope, live, who, memory, disk, leave, used, minted, acts>>
  BY <1>0, TaskShape DEF Typed, TypedTasks, Reuploaded, GoTo
<1>2. /\ boot[c].mine.id \in Devices /\ boot[c].account \in Accounts
      /\ boot'[c] \in Tasks
      /\ boot'[c] = Idle \/ (boot'[c].pc = "decide" /\ boot'[c].account = boot[c].account
           /\ boot'[c].stale = boot[c].stale /\ boot'[c].mine = boot[c].mine)
  <2>1. boot[c].mine.id \in Devices /\ boot[c].account \in Accounts
          /\ boot[c].rows \in SUBSET Devices
    BY <1>0, <1>1, ClientTyped DEF Deciding, Slot0
  <2>2. boot[c].rows \cup {boot[c].mine.id} \in SUBSET Devices
    BY <2>1
  <2>3. CASE boot[c].stale
    BY <1>1, <2>1, <2>3, Constants0
  <2>4. CASE ~boot[c].stale
    <3>1. PICK r \in SUBSET Devices : r = boot[c].rows \cup {boot[c].mine.id}
      BY <2>2
    <3>2. boot'[c] = [boot[c] EXCEPT !.pc = "decide", !.rows = r]
      BY <1>1, <2>4, <3>1
    <3> QED BY <1>1, <2>1, <3>2 DEF Deciding, Tasks
  <2> QED BY <2>3, <2>4
<1>3. TypedServer'
  BY <1>0, <1>1, <1>2 DEF Typed, TypedServer
<1>4. TypedClients'
  BY <1>0, <1>1 DEF Typed, TypedClients, memory
<1>5. TypedDisk'
  BY <1>0, <1>1 DEF Typed, TypedDisk
<1>6. TypedTasks'
  BY <1>0, <1>1, <1>2, Constants0 DEF Typed, TypedTasks
<1>7. Client(c)'
  <2>1. LiveIsSomebody(c)'
    BY <1>0, <1>1 DEF Client, LiveIsSomebody
  <2>2. BootsOwn(c)'
    BY <1>0, <1>1, Constants0 DEF Client, BootsOwn
  <2>3. PasswordCurrent(c)'
    BY <1>0, <1>1, Constants0 DEF Client, PasswordCurrent, memory, May, VouchSteps, WriteSteps
  <2>4. SignedOut(c)'
    BY <1>0, <1>1, Constants0 DEF Client, SignedOut, memory
  <2>5. SessionSound(c)'
    BY <1>0, <1>1 DEF Client, SessionSound, memory, VouchSteps
  <2>6. TaskSound(c)'
    BY <1>0, <1>1, <1>2, Constants0 DEF Client, TaskSound, Stored, Trusted, May, VouchSteps, WriteSteps
  <2>7. Vouched(c)'
    BY <1>0, <1>1 DEF Client, Vouched, Trusted, May
  <2>8. Orderly(c)'
    BY <1>0, <1>1 DEF Client, Orderly, May
  <2>9. Wiped(c)'
    BY <1>0, <1>1 DEF Client, Wiped, May
  <2> QED BY <2>1, <2>2, <2>3, <2>4, <2>5, <2>6, <2>7, <2>8, <2>9 DEF Client
<1>8. \A d \in Clients : d # c => Same(d)
  BY <1>0, <1>1 DEF Typed, TypedTasks, Same, memory
<1>9. PasswordOpens'
  BY <1>0 DEF PasswordOpens, May, Reuploaded
<1> QED BY <1>3, <1>4, <1>5, <1>6, <1>7, <1>8, <1>9, Assemble DEF Reuploaded

\* The salt is remembered beside the key pair it vouches for.
LEMMA ResolveKeeps ==
  ASSUME IInv, NEW c \in Clients, Resolve(c)
  PROVE  IInv'
<1>0. Typed /\ Client(c) /\ PasswordOpens
  BY DEF IInv
<1>1. /\ boot[c].pc = "resolve" /\ boot[c] \in Vouching
      /\ boot' = [boot EXCEPT ![c] = boot'[c]]
      /\ boot'[c] = IF boot[c].secret # 0 THEN [boot[c] EXCEPT !.pc = "reseal"] ELSE Idle
      /\ UNCHANGED <<scenario, server, who, memory, leave, used, minted, acts>>
  BY <1>0, TaskShape DEF Typed, TypedTasks, Resolve, GoTo, VouchSteps
<1>2. /\ boot[c].account \in Accounts /\ boot'[c] \in Tasks
      /\ boot'[c].pc = "idle" \/ (boot'[c].pc = "reseal" /\ boot'[c].secret = boot[c].secret
           /\ boot'[c].account = boot[c].account
                                 /\ boot'[c].stale = boot[c].stale /\ boot'[c].salt = boot[c].salt)
      /\ TypedDisk' /\ \A d \in Clients : d # c => disk'[d] = disk[d]
      /\ \A t \in Slots(c) : /\ disk'[c][t].priv = disk[c][t].priv
                             /\ disk'[c][t].salt = disk[c][t].salt \/ (t = Slot(c, boot[c].account)
                                  /\ disk'[c][t].salt = boot[c].salt)
  <2>1. boot[c].salt \in Salts /\ boot[c].account \in Accounts
    BY <1>1 DEF Vouching
  <2>2. PICK s \in Slots(c) : s = Slot(c, boot[c].account)
    BY <2>1, SlotIs
  <2>3. PICK d \in Slot0 : d = disk[c][s] /\ d = Stored(c, boot[c].account)
    BY <1>0, <2>1, <2>2, ClientTyped
  <2>4. PICK v \in Salts : /\ v \in {d.salt, boot[c].salt}
                           /\ v = IF c \in Browsers /\ d.id = NoDevice THEN d.salt ELSE boot[c].salt
    BY <2>1, SlotFields
  <2>5. PICK n \in Slot0 : n.priv = d.priv /\ n.salt = v /\ n = [d EXCEPT !.salt = v]
    BY SlotSalted
  <2>6. disk' = [disk EXCEPT ![c][s] = n]
    BY <1>0, <2>2, <2>3, <2>4, <2>5 DEF Resolve, Typed, TypedDisk, Slot0
  <2>8. TypedDisk' /\ disk'[c][s] = n /\ (\A t \in Slots(c) : t # s => disk'[c][t] = disk[c][t])
        /\ \A e \in Clients : e # c => disk'[e] = disk[e]
    <3>1. TypedDisk
      BY <1>0 DEF Typed
    <3> QED BY <2>6, <3>1 DEF TypedDisk
  <2>7. boot'[c] \in Tasks /\ (boot'[c].pc = "idle" \/ (boot'[c].pc = "reseal"
           /\ boot'[c].secret = boot[c].secret
           /\ boot'[c].account = boot[c].account /\ boot'[c].stale = boot[c].stale
                /\ boot'[c].salt = boot[c].salt))
    <3>1. "reseal" \in VouchSteps
      BY DEF VouchSteps
    <3> QED BY <1>1, <3>1, VouchingOn, Constants0
  <2> QED BY <2>1, <2>2, <2>3, <2>4, <2>5, <2>7, <2>8
<1>3. TypedServer'
  BY <1>0, <1>1, <1>2, KeysAssumption, Constants0 DEF Typed, TypedServer, TypedClients, TypedDisk,
     TypedTasks, Resolve, GoTo, server, memory
<1>4. TypedClients'
  BY <1>0, <1>1, <1>2, KeysAssumption, Constants0 DEF Typed, TypedServer, TypedClients, TypedDisk,
     TypedTasks, Resolve, GoTo, server, memory
<1>5. TypedDisk'
  BY <1>2
<1>6. TypedTasks'
  BY <1>0, <1>1, <1>2 DEF Typed, TypedTasks
<1>7. Client(c)'
  <2>1. LiveIsSomebody(c)'
    BY <1>0, <1>1 DEF Client, LiveIsSomebody, server
  <2>2. BootsOwn(c)'
    BY <1>0, <1>1, <1>2 DEF Client, BootsOwn
  <2>3. PasswordCurrent(c)'
    BY <1>0, <1>1, <1>2 DEF Client, PasswordCurrent, server, memory, May, VouchSteps, WriteSteps
  <2>4. SignedOut(c)'
    BY <1>0, <1>1, <1>2 DEF Client, SignedOut, memory
  <2>5. SessionSound(c)'
    BY <1>0, <1>1, <1>2, SlotIs DEF Client, SessionSound, BootsOwn, Stored, memory, VouchSteps
  <2>6. TaskSound(c)'
    BY <1>0, <1>1, <1>2, SlotIs DEF Client, TaskSound, TaskSound, Stored, Trusted, May, VouchSteps, WriteSteps
  <2>7. Vouched(c)'
    BY <1>0, <1>1, <1>2 DEF Client, Vouched, TaskSound, Stored, Trusted, May, VouchSteps, WriteSteps
  <2>8. Orderly(c)'
    BY <1>0, <1>1 DEF Client, Orderly, May
  <2>9. Wiped(c)'
    BY <1>0, <1>1 DEF Client, Wiped, Orderly, May
  <2> QED BY <2>1, <2>2, <2>3, <2>4, <2>5, <2>6, <2>7, <2>8, <2>9 DEF Client
<1>8. \A d \in Clients : d # c => Same(d)
  BY <1>0, <1>1, <1>2 DEF Typed, TypedTasks, Same, memory
<1>9. PasswordOpens'
  BY <1>0 DEF PasswordOpens, May, Resolve, server
<1> QED BY <1>1, <1>2, <1>3, <1>4, <1>6, <1>7, <1>8, <1>9, Assemble DEF server

\* The envelope that is sent has the salt of the key on disk, or of the first
\* device.
LEMMA AskKeeps ==
  ASSUME IInv, NEW c \in Clients, Ask(c)
  PROVE  IInv'
<1>0. Typed /\ Client(c) /\ PasswordOpens
  BY DEF IInv
<1>1. /\ boot[c].pc \in {"seal", "reseal"} /\ boot[c].account \in Accounts /\ c \in live
      /\ boot[c].pc = "seal" => boot[c] \in Writing /\ boot[c].device \in Devices
      /\ boot[c].pc = "reseal" => boot[c] \in Vouching /\ session[c] # 0
      /\ boot[c].pc = "seal" /\ c \in Phones => May("over") \/ KeepsNone(Stored(c, boot[c].account))
      /\ session[c] \in Numbers /\ minted' = minted + 1 /\ minted' \in 0 .. MaxMinted
      /\ boot' = [boot EXCEPT ![c] = boot'[c]]
      /\ boot'[c] = IF boot[c].pc = "seal"
                    THEN [boot[c] EXCEPT !.pc = "sealing", !.salt = Salt(boot[c].device.key)]
                    ELSE [boot[c] EXCEPT !.pc = "resealing", !.salt = Salt(session[c])]
      /\ UNCHANGED <<scenario, server, who, memory, disk, leave, used, acts>>
  <2>1. boot[c] \in Tasks /\ session[c] \in Numbers /\ boot \in [Clients -> Tasks]
    BY <1>0, ClientTyped DEF Typed, TypedTasks
  <2>2. /\ boot[c].pc \in {"seal", "reseal"} /\ boot[c].account \in Accounts
        /\ boot[c].pc = "seal" => boot[c] \in Writing /\ boot[c].device \in Devices
        /\ boot[c].pc = "reseal" => boot[c] \in Vouching
    BY <2>1, TaskShape DEF Ask, VouchSteps, WriteSteps
  <2>3. minted' = minted + 1 /\ minted' \in 0 .. MaxMinted
    BY <1>0 DEF Ask, Mint, Typed, TypedServer
  <2> QED BY <2>1, <2>2, <2>3 DEF Ask, GoTo
<1>2. /\ boot'[c] \in Tasks /\ boot'[c].account = boot[c].account /\ boot'[c].stale = boot[c].stale
      /\ boot'[c].secret = boot[c].secret
      /\ \/ /\ boot[c].pc = "seal" /\ boot'[c].pc = "sealing" /\ boot'[c].device = boot[c].device
            /\ boot'[c].salt.key = boot[c].device.key
         \/ /\ boot[c].pc = "reseal" /\ boot'[c].pc = "resealing" /\ boot'[c].salt.key = session[c]
  <2>1. \A k \in Numbers : Salt(k) \in Salts /\ Salt(k).key = k
    BY <1>1 DEF Salt, Salts, Numbers
  <2>2. CASE boot[c].pc = "seal"
    <3>1. boot[c].device.key \in Numbers
      BY <1>1, <2>2 DEF Devices
    <3>2. PICK t \in Salts : t = Salt(boot[c].device.key) /\ t.key = boot[c].device.key
      BY <2>1, <3>1
    <3>3. boot'[c] = [boot[c] EXCEPT !.pc = "sealing", !.salt = t] /\ boot[c] \in Writing
      BY <1>1, <2>2, <3>2
    <3>4. /\ boot'[c] \in Tasks /\ boot'[c].pc = "sealing" /\ boot'[c].account = boot[c].account
          /\ boot'[c].stale = boot[c].stale /\ boot'[c].salt = t /\ boot'[c].secret = boot[c].secret
          /\ boot'[c].device = boot[c].device
      BY <3>3 DEF Writing, WriteSteps, Tasks
    <3> QED BY <2>2, <3>2, <3>4
  <2>3. CASE boot[c].pc = "reseal"
    <3>1. PICK t \in Salts : t = Salt(session[c]) /\ t.key = session[c]
      BY <1>1, <2>1
    <3>2. boot'[c] = [boot[c] EXCEPT !.pc = "resealing", !.salt = t] /\ boot[c] \in Vouching
      BY <1>1, <2>3, <3>1
    <3>3. /\ boot'[c] \in Tasks /\ boot'[c].pc = "resealing" /\ boot'[c].account = boot[c].account
          /\ boot'[c].stale = boot[c].stale /\ boot'[c].salt = t /\ boot'[c].secret = boot[c].secret
      BY <3>2 DEF Vouching, VouchSteps, Tasks
    <3> QED BY <2>3, <3>1, <3>3
  <2> QED BY <1>1, <2>2, <2>3
<1>3. TypedServer'
  BY <1>0, <1>1 DEF Typed, TypedServer, server
<1>4. TypedClients'
  BY <1>0, <1>1 DEF Typed, TypedClients, memory
<1>5. TypedDisk'
  BY <1>0, <1>1 DEF Typed, TypedDisk
<1>6. TypedTasks'
  BY <1>0, <1>1, <1>2 DEF Typed, TypedTasks
<1>7. Client(c)'
  <2>1. LiveIsSomebody(c)' /\ BootsOwn(c)'
    BY <1>0, <1>1, <1>2 DEF Client, LiveIsSomebody, BootsOwn, server
  <2>2. PasswordCurrent(c)'
    BY <1>0, <1>1, <1>2 DEF Client, PasswordCurrent, May, VouchSteps, WriteSteps, server
  <2>3. SignedOut(c)'
    BY <1>0, <1>1, <1>2 DEF Client, SignedOut, memory
  <2>4. SessionSound(c)'
    BY <1>0, <1>1, <1>2 DEF Client, SessionSound, Stored, VouchSteps, memory
  <2>5. TaskSound(c)'
    <3>1. CASE boot[c].pc = "seal"
      <4>1. c \in Phones /\ Trusted(c) => KeepsNone(Stored(c, boot[c].account))
        BY <1>1, <3>1, SlotIs DEF Trusted
      <4> QED BY <1>1, <1>2, <3>1, <4>1 DEF TaskSound, Stored, Trusted, May, KeepsNone, VouchSteps, WriteSteps
    <3>2. CASE boot[c].pc = "reseal"
      <4>1. /\ session[c] # 0 /\ who[c] = boot[c].account
            /\ Stored(c, boot[c].account).priv = NoDevice \/ Stored(c, boot[c].account).priv.key = session[c]
        BY <1>0, <1>1, <3>2, KeysAssumption DEF Client, LiveIsSomebody, BootsOwn, SessionSound
      <4> QED BY <1>1, <1>2, <3>2, <4>1 DEF TaskSound, Stored, VouchSteps, WriteSteps
    <3> QED BY <1>1, <3>1, <3>2
  <2>6. Vouched(c)' /\ Wiped(c)'
    BY <1>0, <1>1 DEF Client, Vouched, Wiped, Trusted, May
  <2>7. Orderly(c)'
    BY <1>0, <1>1 DEF Client, Orderly, May
  <2> QED BY <2>1, <2>2, <2>3, <2>4, <2>5, <2>6, <2>7 DEF Client
<1>8. \A d \in Clients : d # c => Same(d)
  BY <1>0, <1>1 DEF Typed, TypedTasks, Same, memory
<1>9. PasswordOpens'
  BY <1>0, <1>1 DEF PasswordOpens, May, server
<1> QED BY <1>1, <1>3, <1>4, <1>5, <1>6, <1>7, <1>8, <1>9, Assemble DEF server

\* The missing envelope is sealed with the password it was made with.
LEMMA ResealKeeps ==
  ASSUME IInv, NEW c \in Clients, Reseal(c)
  PROVE  IInv'
<1>0. Typed /\ Client(c) /\ PasswordOpens
  BY DEF IInv
<1>1. /\ boot[c].pc = "resealing" /\ boot[c] \in Vouching /\ boot[c].account \in Accounts
      /\ boot[c].secret \in 0 .. scenario.acts + 1 /\ boot[c].salt \in Salts
      /\ ~May("cross") => boot[c].secret \in {0, pw[boot[c].account]}
      /\ envelope' = [envelope EXCEPT ![boot[c].account] = [pw |-> boot[c].secret, salt |-> boot[c].salt]]
      /\ password' = [password EXCEPT ![c] = 0] /\ password'[c] = 0
      /\ boot' = [boot EXCEPT ![c] = boot'[c]]
      /\ boot'[c] = Idle \/ boot'[c] = [boot[c] EXCEPT !.pc = "resolve", !.secret = 0]
      /\ UNCHANGED <<scenario, pw, rows, live, who, disk, session, leave, used, minted, acts>>
  <2>1. boot[c] \in Tasks /\ boot \in [Clients -> Tasks] /\ boot[c].pc = "resealing"
    BY <1>0, ClientTyped DEF Typed, TypedTasks, Reseal
  <2>2. boot[c] \in Vouching /\ boot[c].account \in Accounts /\ boot[c].salt \in Salts
        /\ boot[c].secret \in Nat
    BY <2>1, TaskShape DEF VouchSteps
  <2>3. /\ boot[c].secret <= scenario.acts + 1
        /\ ~May("cross") => boot[c].secret \in {0, pw[boot[c].account]}
    BY <1>0, <2>1 DEF Client, PasswordCurrent, VouchSteps
  <2>4. scenario.acts \in Nat
    BY <1>0, KeysAssumption DEF Typed, TypedServer
  <2>5. password' = [password EXCEPT ![c] = 0] /\ password'[c] = 0
    BY <1>0 DEF Reseal, Typed, TypedClients
  <2>6. boot[c].secret \in 0 .. scenario.acts + 1
    BY <2>2, <2>3, <2>4
  <2>7. /\ boot' = [boot EXCEPT ![c] = boot'[c]]
        /\ boot'[c] = Idle \/ boot'[c] = [boot[c] EXCEPT !.pc = "resolve", !.secret = 0]
    BY <2>1 DEF Reseal, GoTo, Done
  <2> QED BY <2>1, <2>2, <2>3, <2>5, <2>6, <2>7 DEF Reseal, PutEnvelope
<1>2. /\ boot'[c] \in Tasks
      /\ \/ boot'[c] = Idle
         \/ /\ boot'[c].pc = "resolve" /\ boot'[c].account = boot[c].account /\ boot'[c].stale = boot[c].stale
            /\ boot'[c].salt = boot[c].salt /\ boot'[c].secret = 0
  BY <1>1, VouchingAgain, Constants0
<1>3. TypedServer'
  BY <1>0, <1>1 DEF Typed, TypedServer
<1>4. TypedClients'
  BY <1>0, <1>1 DEF Typed, TypedServer, TypedClients
<1>5. TypedDisk'
  BY <1>0, <1>1 DEF Typed, TypedDisk
<1>6. TypedTasks'
  BY <1>0, <1>1, <1>2, Constants0 DEF Typed, TypedTasks
<1>7. Client(c)'
  <2>0. CASE boot'[c] = Idle
    BY <1>0, <1>1, <2>0, Stops
  <2>n. CASE boot'[c] # Idle
    <3>0. /\ boot'[c].pc = "resolve" /\ boot'[c].account = boot[c].account /\ boot'[c].stale = boot[c].stale
          /\ boot'[c].salt = boot[c].salt /\ boot'[c].secret = 0
      BY <1>2, <2>n
    <3>1. LiveIsSomebody(c)' /\ BootsOwn(c)'
      BY <1>0, <1>1, <3>0 DEF Client, LiveIsSomebody, BootsOwn
    <3>3. PasswordCurrent(c)'
      <4>1. scenario.acts \in Nat /\ scenario' = scenario
        BY <1>0, <1>1, KeysAssumption DEF Typed, TypedServer
      <4> QED BY <3>0, <4>1 DEF PasswordCurrent
    <3>4. SignedOut(c)'
      BY <1>0, <1>1, <3>0 DEF Client, SignedOut
    <3>5. SessionSound(c)'
      BY <1>0, <1>1, <3>0 DEF Client, SessionSound, Stored, VouchSteps
    <3>6. TaskSound(c)'
      BY <1>0, <1>1, <3>0 DEF Client, TaskSound, Stored, Trusted, May, VouchSteps, WriteSteps
    <3>7. Vouched(c)' /\ Wiped(c)'
      BY <1>0, <1>1 DEF Client, Vouched, Wiped, Trusted, May
    <3>8. Orderly(c)'
      BY <1>0, <1>1 DEF Client, Orderly, May
    <3> QED BY <3>1, <3>3, <3>4, <3>5, <3>6, <3>7, <3>8 DEF Client
  <2> QED BY <2>0, <2>n
<1>8. \A d \in Clients : d # c => Same(d)
  BY <1>0, <1>1 DEF Typed, TypedTasks, TypedClients, Same
<1>9. PasswordOpens'
  BY <1>0, <1>1 DEF PasswordOpens, May, Typed, TypedServer
<1> QED BY <1>1, <1>3, <1>4, <1>5, <1>6, <1>7, <1>8, <1>9, Assemble

\* A client without a device key makes one, or is locked out.
LEMMA WithoutDeviceKeeps ==
  ASSUME IInv, NEW c \in Clients, WithoutDevice(c)
  PROVE  IInv'
<1>0. Typed /\ Client(c) /\ PasswordOpens
  BY DEF IInv
<1>1. /\ boot[c].pc = "decide" /\ ~boot[c].stale /\ boot[c].account \in Accounts
      /\ boot[c].envelope \in Envelopes
      /\ minted' \in 0 .. MaxMinted
      /\ rows' = [rows EXCEPT ![boot[c].account] = rows'[boot[c].account]]
      /\ rows'[boot[c].account] \subseteq rows[boot[c].account]
      /\ boot' = [boot EXCEPT ![c] = boot'[c]]
      /\ UNCHANGED <<scenario, pw, envelope, live, who, memory, disk, used, acts>>
  <2>1. boot[c] \in Deciding /\ boot[c].pc = "decide" /\ ~boot[c].stale /\ boot \in [Clients -> Tasks]
    BY <1>0, TaskShape DEF WithoutDevice, Typed, TypedTasks
  <2>2. boot[c].account \in Accounts /\ boot[c].envelope \in Envelopes
    BY <2>1 DEF Deciding
  <2>3. minted' \in 0 .. MaxMinted
    BY <1>0 DEF WithoutDevice, Mint, Typed, TypedServer
  <2>4. /\ rows' = [rows EXCEPT ![boot[c].account] = rows'[boot[c].account]]
        /\ rows'[boot[c].account] \subseteq rows[boot[c].account]
    BY <1>0 DEF WithoutDevice, Typed, TypedServer
  <2>5. boot' = [boot EXCEPT ![c] = boot'[c]]
    BY DEF WithoutDevice, GoTo, Done
  <2> QED BY <2>2, <2>3, <2>4, <2>5 DEF WithoutDevice
<1>2. \/ leave' = leave /\ boot'[c] \in Tasks /\ boot'[c].pc \in {"seal", "put"}
           /\ boot'[c].account = boot[c].account /\ boot'[c].secret \in {0, password[c]}
         /\ ~boot'[c].stale /\ (boot'[c].pc = "seal" => boot'[c].salt = None)
         /\ (boot'[c].salt # None => boot'[c].salt.key = boot'[c].device.key)
      \/ boot'[c] = Idle /\ leave' = [leave EXCEPT ![c] = leave'[c]]
         /\ leave'[c] \in {leave[c], [pc |-> "row", account |-> boot[c].account]}
         /\ (leave'[c] # leave[c] => leave[c].pc = "idle")
  <2>1. CASE /\ leave' = leave /\ minted' = minted + 1
             /\ boot' = [boot EXCEPT ![c] = [pc |-> "put", account |-> boot[c].account, stale |-> FALSE,
                                 device |-> [id |-> minted', key |-> boot[c].envelope.salt.key],
                                 salt |-> boot[c].envelope.salt, secret |-> 0]]
    <3>1. PICK d \in Devices : d = [id |-> minted', key |-> boot[c].envelope.salt.key]
            /\ d.key = boot[c].envelope.salt.key
      <4>1. minted' \in Numbers /\ boot[c].envelope.salt.key \in Numbers
        BY <1>1 DEF Numbers, Envelopes, Salts
      <4>2. PICK n \in Numbers, k \in Numbers : n = minted' /\ k = boot[c].envelope.salt.key
        BY <4>1
      <4>3. [id |-> n, key |-> k] \in Devices /\ [id |-> n, key |-> k].key = k
        BY DEF Devices
      <4> QED BY <4>2, <4>3
    <3>2. PICK s \in Salts : s = boot[c].envelope.salt
      BY <1>1 DEF Envelopes
    <3>3. boot'[c] = [pc |-> "put", account |-> boot[c].account, stale |-> FALSE, device |-> d, salt |-> s,
                      secret |-> 0]
      BY <1>0, <2>1, <3>1, <3>2 DEF Typed, TypedTasks
    <3>4. boot'[c] \in Tasks
      BY <1>1, <3>3 DEF Tasks, Writing, WriteSteps
    <3> QED BY <2>1, <3>1, <3>2, <3>3, <3>4
  <2>2. CASE /\ leave' = leave /\ minted' = minted + 2
             /\ boot' = [boot EXCEPT ![c] = [pc |-> IF password[c] # 0 THEN "seal" ELSE "put",
                                 account |-> boot[c].account, stale |-> FALSE,
                                 device |-> [id |-> minted', key |-> minted' - 1], salt |-> None,
                                 secret |-> password[c]]]
    <3>1. PICK d \in Devices : d = [id |-> minted', key |-> minted' - 1]
      <4>1. minted' \in Numbers /\ minted' - 1 \in Numbers
        BY <1>0, <1>1, <2>2, KeysAssumption DEF Numbers, Typed, TypedServer
      <4>2. PICK n \in Numbers, k \in Numbers : n = minted' /\ k = minted' - 1
        BY <4>1
      <4>3. [id |-> n, key |-> k] \in Devices
        BY DEF Devices
      <4> QED BY <4>2, <4>3
    <3>2. PICK p \in {"seal", "put"} : p = IF password[c] # 0 THEN "seal" ELSE "put"
      OBVIOUS
    <3>3. boot'[c] = [pc |-> p, account |-> boot[c].account, stale |-> FALSE, device |-> d, salt |-> None,
                      secret |-> password[c]]
      BY <1>0, <2>2, <3>1, <3>2 DEF Typed, TypedTasks
    <3>5. PICK m \in Nat : m = password[c]
      BY <1>0, ClientTyped DEF Typed, TypedServer
    <3>4. boot'[c] \in Tasks
      BY <1>1, <3>3, <3>5, Constants0 DEF Tasks, Writing, WriteSteps
    <3> QED BY <2>2, <3>3, <3>4
  <2>3. CASE /\ boot' = [boot EXCEPT ![c] = Idle]
             /\ leave' = [leave EXCEPT ![c] = IF leave[c].pc = "idle" THEN [pc |-> "row",
                  account |-> boot[c].account]
                                              ELSE leave[c]]
    BY <1>0, <2>3 DEF Typed, TypedTasks
  <2> QED BY <2>1, <2>2, <2>3 DEF WithoutDevice, Mint, GoTo, Done
<1>3. TypedServer'
  BY <1>0, <1>1, <1>2, KeysAssumption, Constants0 DEF Typed, TypedServer, TypedClients, TypedDisk,
     TypedTasks, WithoutDevice, GoTo, Done, Mint, server, memory
<1>4. TypedClients'
  BY <1>0, <1>1 DEF Typed, TypedClients, memory
<1>5. TypedDisk'
  BY <1>0, <1>1 DEF Typed, TypedDisk
<1>6. TypedTasks'
  BY <1>0, <1>1, <1>2, NewLeaves, Constants0 DEF Typed, TypedTasks
<1>7. Client(c)'
  <2>1. CASE leave' = leave /\ boot'[c].pc \in {"seal", "put"}
    <3>0. /\ boot'[c].account = boot[c].account /\ ~boot'[c].stale /\ (boot'[c].pc = "seal"
               => boot'[c].salt = None)
          /\ boot'[c].secret \in {0, password[c]}
          /\ (boot'[c].salt # None => boot'[c].salt.key = boot'[c].device.key)
      BY <1>2, <2>1, Constants0
    <3>1. LiveIsSomebody(c)' /\ BootsOwn(c)' /\ Orderly(c)'
      BY <1>0, <1>1, <2>1, <3>0 DEF Client, LiveIsSomebody, BootsOwn, Orderly, May, memory
    <3>4. PasswordCurrent(c)'
      <4>1. 0 <= scenario.acts + 1 /\ password[c] <= scenario.acts + 1
        BY <1>0, KeysAssumption, ClientTyped DEF Typed, TypedServer
      <4>2. ~May("cross") /\ c \in live => password[c] \in {0, pw[boot[c].account]}
        BY <1>0, <1>1 DEF Client, PasswordCurrent
      <4> QED BY <1>1, <2>1, <3>0, <4>1, <4>2 DEF PasswordCurrent, May
    <3>2. SignedOut(c)' /\ SessionSound(c)'
      BY <1>0, <1>1, <2>1 DEF Client, SignedOut, SessionSound, memory, VouchSteps
    <3>3. TaskSound(c)' /\ Vouched(c)' /\ Wiped(c)'
      BY <1>0, <1>1, <2>1, <3>0 DEF Client, TaskSound, Vouched, Wiped, May, Trusted, VouchSteps, WriteSteps
    <3> QED BY <3>1, <3>2, <3>3, <3>4 DEF Client
  <2>2. CASE boot'[c] = Idle /\ leave'[c] = leave[c]
    BY <1>0, <1>1, <2>2, Stops DEF memory
  <2>3. CASE boot'[c] = Idle /\ leave[c].pc = "idle"
          /\ leave'[c] = [pc |-> "row", account |-> boot[c].account]
    <3>0. boot'[c].pc = "idle" /\ leave'[c].pc = "row" /\ who[c] # "nobody"
      BY <1>0, <1>1, <2>3, Constants0 DEF Client, SignedOut
    <3>1. LiveIsSomebody(c)' /\ BootsOwn(c)' /\ PasswordCurrent(c)' /\ Orderly(c)'
      BY <1>1, <3>0 DEF LiveIsSomebody, BootsOwn, PasswordCurrent, Orderly, May, VouchSteps, WriteSteps
    <3>2. SignedOut(c)' /\ SessionSound(c)'
      BY <1>0, <1>1, <3>0 DEF Client, SignedOut, SessionSound, memory, VouchSteps
    <3>3. TaskSound(c)' /\ Vouched(c)' /\ Wiped(c)'
      BY <1>0, <1>1, <3>0 DEF Client, TaskSound, Vouched, Wiped, Trusted, May, VouchSteps, WriteSteps
    <3> QED BY <3>1, <3>2, <3>3 DEF Client
  <2> QED BY <1>2, <2>1, <2>2, <2>3
<1>8. \A d \in Clients : d # c => Same(d)
  BY <1>0, <1>1, <1>2 DEF Typed, TypedTasks, Same, memory
<1>9. PasswordOpens'
  BY <1>0 DEF PasswordOpens, May, WithoutDevice
<1> QED BY <1>3, <1>4, <1>5, <1>6, <1>7, <1>8, <1>9, Assemble DEF WithoutDevice

\* The first envelope is sealed with the password it was made with.
LEMMA SealKeeps ==
  ASSUME IInv, NEW c \in Clients, Seal(c)
  PROVE  IInv'
<1>0. Typed /\ Client(c) /\ PasswordOpens
  BY DEF IInv
<1>1. /\ boot[c].pc = "sealing" /\ boot[c] \in Writing /\ boot[c].account \in Accounts
      /\ boot[c].secret \in 0 .. scenario.acts + 1 /\ boot[c].salt \in Salts
      /\ ~May("cross") => boot[c].secret \in {0, pw[boot[c].account]}
      /\ envelope' = [envelope EXCEPT ![boot[c].account] = [pw |-> boot[c].secret, salt |-> boot[c].salt]]
      /\ password' \in [Clients -> 0 .. acts + 1] /\ password'[c] \in {0, password[c]}
      /\ \A d \in Clients : d # c => password'[d] = password[d]
      /\ boot' = [boot EXCEPT ![c] = boot'[c]]
      /\ boot'[c] = Idle \/ boot'[c] = [boot[c] EXCEPT !.pc = IF c \in Phones THEN "sealed" ELSE "put"]
      /\ UNCHANGED <<scenario, pw, rows, live, who, disk, session, leave, used, minted, acts>>
  <2>1. boot[c] \in Tasks /\ boot \in [Clients -> Tasks] /\ boot[c].pc = "sealing"
    BY <1>0, ClientTyped DEF Typed, TypedTasks, Seal
  <2>2. boot[c] \in Writing /\ boot[c].account \in Accounts /\ boot[c].salt \in Salts
        /\ boot[c].secret \in Nat
    BY <2>1, TaskShape DEF WriteSteps
  <2>3. /\ boot[c].secret <= scenario.acts + 1
        /\ ~May("cross") => boot[c].secret \in {0, pw[boot[c].account]}
    BY <1>0, <2>1 DEF Client, PasswordCurrent, WriteSteps
  <2>4. scenario.acts \in Nat /\ password \in [Clients -> 0 .. acts + 1] /\ 0 \in 0 .. acts + 1
    BY <1>0, KeysAssumption DEF Typed, TypedServer, TypedClients
  <2>5. password' = password \/ password' = [password EXCEPT ![c] = 0]
    BY DEF Seal
  <2>6. boot[c].secret \in 0 .. scenario.acts + 1
    BY <2>2, <2>3, <2>4
  <2>7. /\ boot' = [boot EXCEPT ![c] = boot'[c]]
        /\ boot'[c] = Idle \/ boot'[c] = [boot[c] EXCEPT !.pc = IF c \in Phones THEN "sealed" ELSE "put"]
    BY <2>1 DEF Seal, GoTo, Done
  <2>8. /\ password' \in [Clients -> 0 .. acts + 1] /\ password'[c] \in {0, password[c]}
        /\ \A d \in Clients : d # c => password'[d] = password[d]
    BY <2>4, <2>5
  <2> QED BY <2>1, <2>2, <2>3, <2>6, <2>7, <2>8 DEF Seal, PutEnvelope
<1>2. /\ boot'[c] \in Tasks
      /\ \/ boot'[c] = Idle
         \/ /\ boot'[c].pc = (IF c \in Phones THEN "sealed" ELSE "put")
            /\ boot'[c].account = boot[c].account /\ boot'[c].stale = boot[c].stale
            /\ boot'[c].salt = boot[c].salt /\ boot'[c].device = boot[c].device
            /\ boot'[c].secret = boot[c].secret
  <2>1. PICK p \in WriteSteps : p = IF c \in Phones THEN "sealed" ELSE "put"
    BY DEF WriteSteps
  <2>2. CASE boot'[c] = Idle
    BY <2>2, Constants0
  <2>3. CASE boot'[c] = [boot[c] EXCEPT !.pc = p]
    BY <1>1, <2>1, <2>3, WritingOn
  <2> QED BY <1>1, <2>1, <2>2, <2>3
<1>3. TypedServer'
  BY <1>0, <1>1 DEF Typed, TypedServer
<1>4. TypedClients'
  BY <1>0, <1>1 DEF Typed, TypedClients
<1>5. TypedDisk'
  BY <1>0, <1>1 DEF Typed, TypedDisk
<1>6. TypedTasks'
  BY <1>0, <1>1, <1>2, Constants0 DEF Typed, TypedTasks
<1>7. Client(c)'
  <2>1. LiveIsSomebody(c)'
    BY <1>0, <1>1 DEF Client, LiveIsSomebody
  <2>2. BootsOwn(c)'
    BY <1>0, <1>1, <1>2, Constants0 DEF Client, BootsOwn
  <2>3. PasswordCurrent(c)'
    BY <1>0, <1>1, <1>2, Constants0 DEF Client, PasswordCurrent, May, VouchSteps, WriteSteps
  <2>4. SignedOut(c)'
    BY <1>0, <1>1, <1>2, Constants0 DEF Client, SignedOut
  <2>5. SessionSound(c)'
    BY <1>0, <1>1 DEF Client, SessionSound, VouchSteps
  <2>6. TaskSound(c)'
    BY <1>0, <1>1, <1>2, Constants0 DEF Client, TaskSound, Stored, KeepsNone, Trusted, May, VouchSteps,
       WriteSteps
  <2>7. Vouched(c)'
    BY <1>0, <1>1 DEF Client, Vouched, Trusted, May
  <2>8. Orderly(c)'
    BY <1>0, <1>1 DEF Client, Orderly, May
  <2>9. Wiped(c)'
    BY <1>0, <1>1 DEF Client, Wiped, May
  <2> QED BY <2>1, <2>2, <2>3, <2>4, <2>5, <2>6, <2>7, <2>8, <2>9 DEF Client
<1>8. \A d \in Clients : d # c => Same(d)
  BY <1>0, <1>1 DEF Typed, TypedTasks, Same
<1>9. PasswordOpens'
  BY <1>0, <1>1 DEF PasswordOpens, May, Typed, TypedServer
<1> QED BY <1>1, <1>3, <1>4, <1>5, <1>6, <1>7, <1>8, <1>9, Assemble

\* The device is among the account's before it is on disk.
LEMMA PutDeviceKeeps ==
  ASSUME IInv, NEW c \in Clients, PutDevice(c)
  PROVE  IInv'
<1>0. Typed /\ Client(c) /\ PasswordOpens
  BY DEF IInv
<1>1. /\ boot[c].pc = "put" /\ boot[c] \in Writing /\ boot[c].account \in Accounts
           /\ boot[c].device \in Devices
      /\ boot' = [boot EXCEPT ![c] = boot'[c]]
      /\ boot'[c] \in {Idle, [boot[c] EXCEPT !.pc = IF c \in Phones THEN "clearSalt" ELSE "record"]}
      /\ UNCHANGED <<scenario, pw, envelope, live, who, memory, disk, leave, used, minted, acts>>
  BY <1>0, TaskShape DEF Typed, TypedTasks, Writing, WriteSteps, PutDevice, GoTo, Done
<1>2. /\ boot'[c] \in Tasks
      /\ \/ boot'[c] = Idle
         \/ /\ boot'[c].pc = (IF c \in Phones THEN "clearSalt" ELSE "record")
            /\ boot'[c].account = boot[c].account /\ boot'[c].stale = boot[c].stale
            /\ boot'[c].salt = boot[c].salt /\ boot'[c].device = boot[c].device
            /\ boot'[c].secret = boot[c].secret
  <2>1. PICK p \in WriteSteps : p = IF c \in Phones THEN "clearSalt" ELSE "record"
    BY DEF WriteSteps
  <2>2. CASE boot'[c] = Idle
    BY <2>2, Constants0
  <2>3. CASE boot'[c] = [boot[c] EXCEPT !.pc = p]
    BY <1>1, <2>1, <2>3, WritingOn
  <2> QED BY <1>1, <2>1, <2>2, <2>3
<1>3. TypedServer'
  BY <1>0, <1>1 DEF Typed, TypedServer, PutDevice
<1>4. TypedClients'
  BY <1>0, <1>1 DEF Typed, TypedClients, memory
<1>5. TypedDisk'
  BY <1>0 DEF Typed, TypedDisk, PutDevice
<1>6. TypedTasks'
  BY <1>0, <1>1, <1>2, Constants0 DEF Typed, TypedTasks, Clients
<1>7. Client(c)'
  <2>1. LiveIsSomebody(c)'
    BY <1>0, <1>1 DEF Client, LiveIsSomebody
  <2>2. BootsOwn(c)'
    BY <1>0, <1>1, <1>2, Constants0 DEF Client, BootsOwn
  <2>3. PasswordCurrent(c)'
    BY <1>0, <1>1, <1>2, Constants0 DEF Client, PasswordCurrent, memory, May, VouchSteps, WriteSteps
  <2>4. SignedOut(c)'
    BY <1>0, <1>1, <1>2, Constants0 DEF Client, SignedOut, memory
  <2>5. SessionSound(c)'
    BY <1>0, <1>1 DEF Client, SessionSound, memory, VouchSteps
  <2>6. TaskSound(c)'
    BY <1>0, <1>1, <1>2, Constants0 DEF Client, TaskSound, Trusted, May, VouchSteps, WriteSteps
  <2>7. Vouched(c)'
    BY <1>0, <1>1 DEF Client, Vouched, Trusted, May
  <2>8. Orderly(c)'
    BY <1>0, <1>1 DEF Client, Orderly, May
  <2>9. Wiped(c)'
    BY <1>0, <1>1 DEF Client, Wiped, May
  <2> QED BY <2>1, <2>2, <2>3, <2>4, <2>5, <2>6, <2>7, <2>8, <2>9 DEF Client
<1>8. \A d \in Clients : d # c => Same(d)
  BY <1>0, <1>1 DEF Typed, TypedTasks, Same, memory
<1>9. PasswordOpens'
  BY <1>0 DEF PasswordOpens, May, PutDevice
<1> QED BY <1>3, <1>4, <1>5, <1>6, <1>7, <1>8, <1>9, Assemble DEF PutDevice

\* One write of a device to the disk.
LEMMA WriteFacts ==
  ASSUME Typed, NEW c \in Clients, NEW f, NEW t, NEW n \in Slot0, Write(c, f, t, n),
         f \in {"sealed", "clearSalt", "writeId", "writeKey", "writeSalt", "record"},
         t \in {"put", "writeId", "writeKey", "writeSalt", "active"}
  PROVE  /\ boot[c].pc = f /\ boot[c] \in Writing /\ boot[c].account \in Accounts
         /\ TypedDisk' /\ disk'[c][Slot(c, boot[c].account)] = n
         /\ \A s \in Slots(c) : s # Slot(c, boot[c].account) => disk'[c][s] = disk[c][s]
         /\ TypedClients' /\ boot' \in [Clients -> Tasks]
         /\ t = "active" => /\ boot'[c].pc = "idle"
                            /\ session'[c] = session[c] \/ (~boot[c].stale
                                 /\ session'[c] = boot[c].device.key)
         /\ t # "active" => /\ session'[c] = session[c] /\ password'[c] = password[c]
                            /\ boot'[c].pc = t /\ boot'[c].account = boot[c].account
                                 /\ boot'[c].stale = boot[c].stale
                            /\ boot'[c].device = boot[c].device /\ boot'[c].salt = boot[c].salt
                            /\ boot'[c].secret = boot[c].secret
         /\ \A d \in Clients : d # c => Same(d)
         /\ UNCHANGED <<scenario, pw, envelope, rows, live, who, leave, minted, acts>>
<1>1. /\ boot[c].pc = f /\ boot[c] \in Writing /\ boot[c].account \in Accounts
           /\ boot[c].device.key \in Numbers
      /\ boot \in [Clients -> Tasks]
  BY TaskShape DEF Write, Typed, TypedTasks, Writing, WriteSteps, Devices
<1>2. PICK s \in Slots(c) : s = Slot(c, boot[c].account)
  BY <1>1, SlotIs
<1>3. disk' = [disk EXCEPT ![c][s] = n]
  BY <1>2 DEF Write
<1>4. TypedDisk' /\ disk'[c][s] = n /\ (\A r \in Slots(c) : r # s => disk'[c][r] = disk[c][r])
      /\ \A e \in Clients : e # c => disk'[e] = disk[e]
  BY <1>3 DEF TypedDisk, Typed
<1>5. UNCHANGED <<scenario, pw, envelope, rows, live, who, leave, minted, acts>>
  BY DEF Write, server
<1>6. CASE t = "active"
  <2>1. boot' = [boot EXCEPT ![c] = Idle]
    BY <1>6 DEF Write, Done, GoTo
  <2>2. boot' \in [Clients -> Tasks] /\ boot'[c].pc = "idle" /\ \A d \in Clients : d # c => boot'[d] = boot[d]
    BY <1>1, <2>1, Constants0
  <2>3. CASE boot[c].stale
    <3>1. session' = session /\ password' = password /\ used' = used
      BY <2>3 DEF Write, memory
    <3>2. TypedClients'
      BY <3>1, <1>5 DEF Typed, TypedClients
    <3> QED BY <1>1, <1>2, <1>4, <1>5, <1>6, <2>2, <3>1, <3>2 DEF Same
  <2>4. CASE ~boot[c].stale
    <3>1. /\ session' = [session EXCEPT ![c] = boot[c].device.key] /\ password' = [password EXCEPT ![c] = 0]
          /\ used' = [used EXCEPT ![boot[c].account] = @ \cup {boot[c].device.key}]
      BY <1>6, <2>4 DEF Write, Activate
    <3>2. 0 \in 0 .. acts + 1
      BY DEF Typed, TypedServer
    <3>3. TypedClients'
      BY <1>1, <1>5, <3>1, <3>2 DEF Typed, TypedClients
    <3>4. /\ session'[c] = boot[c].device.key
          /\ \A d \in Clients : d # c => session'[d] = session[d] /\ password'[d] = password[d]
      BY <3>1 DEF Typed, TypedClients
    <3> QED BY <1>1, <1>2, <1>4, <1>5, <1>6, <2>2, <2>4, <3>3, <3>4 DEF Same
  <2> QED BY <2>3, <2>4
<1>7. CASE t # "active"
  <2>1. boot' = [boot EXCEPT ![c] = [boot[c] EXCEPT !.pc = t]]
    BY <1>7 DEF Write, GoTo
  <2>2. boot'[c] = [boot[c] EXCEPT !.pc = t] /\ \A d \in Clients : d # c => boot'[d] = boot[d]
    BY <1>1, <2>1
  <2>3. /\ boot'[c] \in Tasks /\ boot'[c].pc = t /\ boot'[c].account = boot[c].account
        /\ boot'[c].stale = boot[c].stale /\ boot'[c].device = boot[c].device /\ boot'[c].salt = boot[c].salt
        /\ boot'[c].secret = boot[c].secret
    <3>1. PICK p \in WriteSteps : p = t
      BY <1>7 DEF WriteSteps
    <3> QED BY <1>1, <2>2, <3>1, WritingOn
  <2>4. boot' \in [Clients -> Tasks]
    BY <1>1, <2>1, <2>3
  <2>5. session' = session /\ password' = password /\ used' = used
    BY <1>7 DEF Write, memory
  <2>6. TypedClients'
    BY <1>5, <2>5 DEF Typed, TypedClients
  <2> QED BY <1>1, <1>2, <1>4, <1>5, <1>7, <2>2, <2>4, <2>5, <2>6 DEF Same
<1> QED BY <1>6, <1>7

\* A write that leaves a sound slot keeps the invariant.
LEMMA WriteKeeps ==
  ASSUME IInv, NEW c \in Clients, NEW f, NEW t, NEW n \in Slot0, Write(c, f, t, n),
         f \in {"sealed", "clearSalt", "writeId", "writeKey", "writeSalt", "record"},
         t \in {"put", "writeId", "writeKey", "writeSalt", "active"},
         Trusted(c) => (n.salt # None /\ n.priv # NoDevice => n.salt.key = n.priv.key),
         t # "active" => c \in Phones, t \notin {"put", "active"} => n.salt = None,
         t \in {"writeSalt", "active"} => n.priv \in {boot[c].device, NoDevice}
  PROVE  IInv'
<1>0. Typed /\ Client(c) /\ PasswordOpens
  BY DEF IInv
<1> DEFINE s == Slot(c, boot[c].account)
<1>1. /\ boot[c].pc = f /\ boot[c].account \in Accounts /\ disk'[c][s] = n /\ s \in Slots(c)
      /\ \A r \in Slots(c) : r # s => disk'[c][r] = disk[c][r]
  BY <1>0, WriteFacts, SlotIs
<1>2. /\ t = "active" => boot'[c].pc = "idle"
      /\ t = "active" => session'[c] = session[c] \/ (~boot[c].stale /\ session'[c] = boot[c].device.key)
      /\ t # "active" => /\ session'[c] = session[c] /\ password'[c] = password[c]
                         /\ boot'[c].pc = t /\ boot'[c].account = boot[c].account
                              /\ boot'[c].stale = boot[c].stale
                         /\ boot'[c].device = boot[c].device /\ boot'[c].salt = boot[c].salt
                         /\ boot'[c].secret = boot[c].secret
  BY <1>0, WriteFacts
<1>3. /\ TypedDisk' /\ TypedClients' /\ boot' \in [Clients -> Tasks]
      /\ \A d \in Clients : d # c => Same(d)
      /\ UNCHANGED <<scenario, pw, envelope, rows, live, who, leave, minted, acts>>
  BY <1>0, WriteFacts
<1> HIDE DEF s
<1>4. session[c] = 0 /\ (who[c] # "nobody" => who[c] = boot[c].account)
  BY <1>0, <1>1 DEF Client, SessionSound, BootsOwn, VouchSteps
<1>5. TypedServer'
  BY <1>0, <1>3 DEF Typed, TypedServer
<1>6. TypedTasks'
  BY <1>0, <1>2, <1>3 DEF Typed, TypedTasks, Same
<1>7. LiveIsSomebody(c)' /\ BootsOwn(c)' /\ PasswordCurrent(c)'
  BY <1>0, <1>1, <1>2, <1>3 DEF Client, LiveIsSomebody, BootsOwn, PasswordCurrent, May, VouchSteps, WriteSteps
<1>8. SignedOut(c)'
  BY <1>0, <1>1, <1>2, <1>3 DEF Client, SignedOut
<1>9. SessionSound(c)'
  <2>1. CASE session'[c] = 0
    BY <2>1 DEF SessionSound, VouchSteps
  <2>2. CASE session'[c] # 0
    <3>1. t = "active" /\ session'[c] = boot[c].device.key /\ boot'[c].pc = "idle"
      BY <1>2, <1>4, <2>2
    <3>2. who'[c] # "nobody" => disk'[c][Slot(c, who'[c])] = n
      BY <1>1, <1>3, <1>4 DEF s
    <3> QED BY <3>1, <3>2 DEF SessionSound, Stored, VouchSteps
  <2> QED BY <2>1, <2>2
<1>10. TaskSound(c)'
  <2>1. CASE t = "active"
    BY <1>2, <2>1 DEF TaskSound, Trusted, May, VouchSteps, WriteSteps
  <2>2. CASE t # "active"
    <3>1. /\ boot'[c].pc = t /\ boot'[c].device = boot[c].device /\ boot'[c].salt = boot[c].salt
          /\ disk'[c][Slot(c, boot'[c].account)] = n
          /\ (boot[c].salt # None => boot[c].salt.key = boot[c].device.key)
      BY <1>0, <1>1, <1>2, <2>2 DEF Client, TaskSound, s, Trusted, May, VouchSteps, WriteSteps
    <3> QED BY <3>1 DEF TaskSound, Stored, Trusted, May, VouchSteps, WriteSteps
  <2> QED BY <2>1, <2>2
<1>11. Vouched(c)'
  BY <1>0, <1>1, <1>3 DEF Client, Vouched, Trusted, May
<1>12. Orderly(c)' /\ Wiped(c)'
  BY <1>0, <1>1, <1>3 DEF Client, Orderly, Wiped, May
<1>13. PasswordOpens'
  BY <1>0, <1>3 DEF PasswordOpens, May
<1>14. Client(c)'
  BY <1>7, <1>8, <1>9, <1>10, <1>11, <1>12 DEF Client
<1> QED BY <1>3, <1>5, <1>6, <1>13, <1>14, Assemble

\* A phone writes the salt last, and beside the key it vouches for.
LEMMA WriteDiskKeeps ==
  ASSUME IInv, NEW c \in Clients, WriteDisk(c)
  PROVE  IInv'
<1>0. Typed /\ Client(c)
  BY DEF IInv
<1>1. /\ boot[c].pc \in {"sealed", "clearSalt", "writeId", "writeKey", "writeSalt"} /\ boot[c] \in Writing
      /\ boot[c].account \in Accounts /\ boot[c].device \in Devices /\ boot[c].salt \in Salts
  BY <1>0, ClientTyped, TaskShape DEF WriteDisk, Writing, WriteSteps
<1>2. c \in Phones
  BY <1>0, <1>1 DEF Typed, TypedTasks
<1>3. PICK d \in Slot0 : d = Stored(c, boot[c].account)
  BY <1>0, <1>1, ClientTyped
<1>5. /\ boot[c].pc = "sealed" /\ Trusted(c) => d.priv = NoDevice
      /\ boot[c].salt # None => boot[c].salt.key = boot[c].device.key
      /\ boot[c].pc \in {"writeId", "writeKey", "writeSalt"} => d.salt = None
      /\ boot[c].pc = "writeSalt" => d.priv \in {boot[c].device, NoDevice}
  BY <1>0, <1>1, <1>2, <1>3 DEF Client, TaskSound, KeepsNone, WriteSteps
<1>4. CASE Write(c, "sealed", "put", [d EXCEPT !.salt = boot[c].salt])
  <2>1. PICK n \in Slot0 : n = [d EXCEPT !.salt = boot[c].salt] /\ n.salt = boot[c].salt /\ n.priv = d.priv
    BY <1>1, SlotSalted
  <2>2. boot[c].pc = "sealed"
    BY <1>4 DEF Write
  <2> QED BY <1>2, <1>4, <1>5, <2>1, <2>2, WriteKeeps
<1>6. CASE Write(c, "clearSalt", "writeId", [d EXCEPT !.salt = None])
  <2>1. PICK n \in Slot0 : n = [d EXCEPT !.salt = None] /\ n.salt = None
    BY SlotSalted, Constants0
  <2> QED BY <1>2, <1>6, <2>1, WriteKeeps
<1>7. CASE Write(c, "writeId", "writeKey", [d EXCEPT !.id = boot[c].device])
  <2>1. PICK n \in Slot0 : n = [d EXCEPT !.id = boot[c].device] /\ n.salt = d.salt /\ n.priv = d.priv
    BY <1>1, SlotKeyed
  <2>2. boot[c].pc = "writeId"
    BY <1>7 DEF Write
  <2> QED BY <1>2, <1>5, <1>7, <2>1, <2>2, WriteKeeps
<1>8. CASE Write(c, "writeKey", "writeSalt", [d EXCEPT !.priv = boot[c].device])
  <2>1. PICK n \in Slot0 : n = [d EXCEPT !.priv = boot[c].device] /\ n.salt = d.salt
          /\ n.priv = boot[c].device
    BY <1>1, SlotKeyed
  <2>2. boot[c].pc = "writeKey"
    BY <1>8 DEF Write
  <2> QED BY <1>2, <1>5, <1>8, <2>1, <2>2, WriteKeeps
<1>9. CASE Write(c, "writeSalt", "active",
        [d EXCEPT !.salt = IF boot[c].salt = None THEN @ ELSE boot[c].salt])
  <2>1. PICK v \in Salts : v = IF boot[c].salt = None THEN d.salt ELSE boot[c].salt
    BY <1>1, SlotFields
  <2>2. PICK n \in Slot0 : n = [d EXCEPT !.salt = v] /\ n.salt = v /\ n.priv = d.priv
    BY SlotSalted
  <2>3. boot[c].pc = "writeSalt"
    BY <1>9 DEF Write
  <2>4. n = [d EXCEPT !.salt = IF boot[c].salt = None THEN @ ELSE boot[c].salt]
    BY <2>1, <2>2
  <2>5. Write(c, "writeSalt", "active", n)
    BY <1>9, <2>4
  <2> QED BY <1>5, <2>1, <2>2, <2>3, <2>5, WriteKeeps
<1> QED BY <1>3, <1>4, <1>6, <1>7, <1>8, <1>9 DEF WriteDisk

\* A browser writes the device and its salt together.
LEMMA WriteRecordKeeps ==
  ASSUME IInv, NEW c \in Clients, WriteRecord(c)
  PROVE  IInv'
<1>0. Typed /\ Client(c)
  BY DEF IInv
<1>1. /\ boot[c].pc = "record" /\ boot[c] \in Writing /\ boot[c].device \in Devices /\ boot[c].salt \in Salts
  BY <1>0, ClientTyped, TaskShape DEF WriteRecord, Writing, WriteSteps
<1>2. boot[c].salt # None => boot[c].salt.key = boot[c].device.key
  BY <1>0, <1>1 DEF Client, TaskSound, Trusted, May, VouchSteps, WriteSteps
<1>3. PICK n \in Slot0 : /\ n = [id |-> boot[c].device, priv |-> boot[c].device, salt |-> boot[c].salt]
                         /\ n.priv = boot[c].device /\ n.salt = boot[c].salt
  <2>1. PICK v \in Devices, s \in Salts : v = boot[c].device /\ s = boot[c].salt
    BY <1>1
  <2>2. [id |-> v, priv |-> v, salt |-> s] \in Slot0
    BY DEF Slot0
  <2> QED BY <2>1, <2>2
<1>4. Write(c, "record", "active", n)
  BY <1>3 DEF WriteRecord
<1> QED BY <1>2, <1>3, <1>4, WriteKeeps

\* The new envelope holds the key on disk, and no other session of the
\* account is left to use the old password.
LEMMA ChangePasswordKeeps ==
  ASSUME IInv, NEW c \in Clients, ChangePassword(c)
  PROVE  IInv'
<1>0. Typed /\ Client(c) /\ PasswordOpens
  BY DEF IInv
<1>1. /\ who[c] \in Accounts /\ who[c] # "nobody" /\ c \in live /\ session[c] # 0 /\ session[c] \in Numbers
      /\ boot[c].pc = "idle" /\ leave[c].pc = "idle"
      /\ boot \in [Clients -> Tasks]
  BY <1>0, ClientTyped DEF ChangePassword, Typed, TypedTasks
<1>2. /\ acts \in Nat /\ acts' = acts + 1 /\ acts' \in 0 .. scenario.acts
      /\ minted' \in 0 .. MaxMinted
  BY <1>0, KeysAssumption DEF ChangePassword, Act, Mint, Typed, TypedServer
<1>3. /\ UNCHANGED <<scenario, rows, who, password, session, disk, leave, used>>
      /\ live' = live \/ (~May("cross") /\ live' = {d \in live : d = c \/ who[d] # who[c]})
      /\ ~May("cross") => live' = {d \in live : d = c \/ who[d] # who[c]} /\ Uncrossed(who[c])
      /\ pw' = [pw EXCEPT ![who[c]] = @ + 1]
  BY DEF ChangePassword, EndOthers, memory
<1>4. PICK s \in Salts : s = Salt(session[c]) /\ s.key = session[c]
  <2>1. minted' \in Numbers
    BY <1>2 DEF Numbers
  <2>2. Salt(session[c]) \in Salts /\ Salt(session[c]).key = session[c]
    BY <1>1, <2>1 DEF Salt, Salts
  <2> QED BY <2>2
<1>5. envelope' = [envelope EXCEPT ![who[c]] = [pw |-> pw'[who[c]], salt |-> s]]
  BY <1>4 DEF ChangePassword, PutEnvelope
<1>6. /\ pw'[who[c]] \in 1 .. acts' + 1 /\ pw' \in [Accounts -> 1 .. acts' + 1]
      /\ \A a \in Accounts : a # who[c] => pw'[a] = pw[a]
  BY <1>0, <1>1, <1>2, <1>3 DEF Typed, TypedServer
<1>7. TypedServer'
  <2>1. [pw |-> pw'[who[c]], salt |-> s] \in [pw : 0 .. scenario.acts + 1, salt : Salts]
    BY <1>2, <1>6, KeysAssumption, <1>0 DEF Typed, TypedServer
  <2>2. envelope' \in [Accounts -> [pw : 0 .. scenario.acts + 1, salt : Salts]]
    BY <1>0, <1>5, <2>1 DEF Typed, TypedServer
  <2>3. live' \in SUBSET Clients
    BY <1>0, <1>3 DEF Typed, TypedServer
  <2> QED BY <1>0, <1>2, <1>3, <1>6, <2>2, <2>3 DEF Typed, TypedServer
<1>8. TypedClients' /\ TypedDisk'
  BY <1>0, <1>2, <1>3 DEF Typed, TypedClients, TypedDisk
<1>9. PasswordOpens'
  BY <1>0, <1>3, <1>5, <1>6 DEF PasswordOpens, Typed, TypedServer, May
<1>10. \/ boot' = boot
       \/ boot' = [boot EXCEPT ![c] = Idle]
       \/ \E p \in {"resolve", "ending"} :
            boot' = [boot EXCEPT ![c] = [pc |-> p, account |-> who[c], stale |-> FALSE, salt |-> s,
                                         secret |-> 0]]
  BY <1>4 DEF ChangePassword, Changed, GoTo, Done
<1>11. /\ boot' \in [Clients -> Tasks] /\ \A d \in Clients : d # c => boot'[d] = boot[d]
       /\ \/ boot'[c].pc = "idle"
          \/ /\ boot'[c].pc \in {"resolve", "ending"} /\ boot'[c].account = who[c] /\ ~boot'[c].stale
             /\ boot'[c].salt = s /\ boot'[c].secret = 0
  <2>1. CASE boot' = boot \/ boot' = [boot EXCEPT ![c] = Idle]
    BY <1>1, <2>1, Constants0
  <2>2. ASSUME NEW p \in {"resolve", "ending"},
               boot' = [boot EXCEPT ![c] = [pc |-> p, account |-> who[c], stale |-> FALSE, salt |-> s,
                                            secret |-> 0]]
        PROVE  /\ boot' \in [Clients -> Tasks] /\ \A d \in Clients : d # c => boot'[d] = boot[d]
               /\ boot'[c].pc \in {"resolve", "ending"} /\ boot'[c].account = who[c]
               /\ ~boot'[c].stale /\ boot'[c].salt = s /\ boot'[c].secret = 0
    <3>1. p \in VouchSteps /\ 0 \in Nat
      BY DEF VouchSteps
    <3> QED BY <1>1, <2>2, <3>1, NewVouching
  <2> QED BY <1>10, <2>1, <2>2
<1>12. TypedTasks'
  BY <1>0, <1>3, <1>11 DEF Typed, TypedTasks
<1>13. Client(c)'
  <2>1. LiveIsSomebody(c)' /\ BootsOwn(c)' /\ SignedOut(c)' /\ Orderly(c)'
    BY <1>1, <1>3, <1>11 DEF LiveIsSomebody, BootsOwn, SignedOut, Orderly, May
  <2>2. PasswordCurrent(c)'
    BY <1>0, <1>2, <1>3, <1>11, KeysAssumption DEF PasswordCurrent, May, VouchSteps, WriteSteps,
       Typed, TypedServer
  <2>3. SessionSound(c)' /\ Vouched(c)' /\ Wiped(c)'
    BY <1>0, <1>3, <1>11 DEF Client, SessionSound, Vouched, Wiped, Stored, May, Trusted, VouchSteps
  <2>4. TaskSound(c)'
    <3>1. LET d == Stored(c, who[c]) IN d.priv = NoDevice \/ d.priv.key = session[c]
      BY <1>0, <1>1 DEF Client, SessionSound, VouchSteps
    <3> QED BY <1>3, <1>4, <1>11, <3>1 DEF TaskSound, Stored, Trusted, May, VouchSteps, WriteSteps
  <2> QED BY <2>1, <2>2, <2>3, <2>4 DEF Client
<1>14. \A d \in Clients : d # c => Same(d)
  BY <1>3, <1>11 DEF Same
<1>15. ASSUME NEW d \in Clients, d # c, ~May("cross"), boot[d].pc # "idle",
              d \in live' \/ boot[d].pc \in {"sealing", "resealing"}
       PROVE  pw'[boot[d].account] = pw[boot[d].account]
  <2>1. boot[d].account \in Accounts
    BY <1>1, <1>15, TaskShape
  <2>2. CASE d \in live'
    <3>1. d \in live /\ who[d] # who[c] /\ who[d] # "nobody" /\ who[d] = boot[d].account
      BY <1>3, <1>15, <2>2 DEF IInv, Client, LiveIsSomebody, BootsOwn
    <3> QED BY <1>6, <2>1, <3>1
  <2>3. CASE boot[d].pc \in {"sealing", "resealing"}
    BY <1>3, <1>6, <1>15, <2>1, <2>3 DEF Uncrossed
  <2> QED BY <1>15, <2>2, <2>3
<1>16. live' \subseteq live
  BY <1>3
<1> QED BY <1>3, <1>7, <1>8, <1>9, <1>12, <1>13, <1>14, <1>15, <1>16, Assemble

\* The other sessions end; what the change uploaded stays.
LEMMA RevokeKeeps ==
  ASSUME IInv, NEW c \in Clients, Revoke(c)
  PROVE  IInv'
<1>0. Typed /\ Client(c) /\ PasswordOpens
  BY DEF IInv
<1>1. /\ boot[c].pc = "ending" /\ boot[c] \in Vouching /\ boot \in [Clients -> Tasks]
      /\ UNCHANGED <<scenario, pw, envelope, rows, who, memory, disk, leave, used, minted, acts>>
      /\ live' = {d \in live : d = c \/ who[d] # boot[c].account}
      /\ boot' = [boot EXCEPT ![c] = boot'[c]]
      /\ boot'[c] = Idle \/ boot'[c] = [boot[c] EXCEPT !.pc = "resolve"]
  <2>1. boot[c] \in Tasks /\ boot \in [Clients -> Tasks] /\ boot[c].pc = "ending"
    BY <1>0, ClientTyped DEF Typed, TypedTasks, Revoke
  <2>2. boot[c] \in Vouching
    BY <2>1, TaskShape DEF VouchSteps
  <2> QED BY <2>1, <2>2 DEF Revoke, EndOthers, GoTo, Done
<1>2. /\ boot'[c] \in Tasks
      /\ \/ boot'[c].pc = "idle"
         \/ /\ boot'[c].pc = "resolve" /\ boot'[c].account = boot[c].account
            /\ boot'[c].stale = boot[c].stale /\ boot'[c].salt = boot[c].salt
            /\ boot'[c].secret = boot[c].secret
  <2>1. PICK p \in VouchSteps : p = "resolve"
    BY DEF VouchSteps
  <2>2. CASE boot'[c] = Idle
    BY <2>2, Constants0
  <2>3. CASE boot'[c] = [boot[c] EXCEPT !.pc = p]
    BY <1>1, <2>1, <2>3, VouchingOn
  <2> QED BY <1>1, <2>1, <2>2, <2>3
<1>3. TypedServer'
  BY <1>0, <1>1 DEF Typed, TypedServer
<1>4. TypedClients' /\ TypedDisk'
  BY <1>0, <1>1 DEF Typed, TypedClients, TypedDisk, memory
<1>6. TypedTasks'
  BY <1>0, <1>1, <1>2 DEF Typed, TypedTasks
<1>7. Client(c)'
  <2>1. LiveIsSomebody(c)' /\ BootsOwn(c)' /\ SignedOut(c)' /\ Orderly(c)' /\ Wiped(c)' /\ Vouched(c)'
    BY <1>0, <1>1, <1>2 DEF Client, LiveIsSomebody, BootsOwn, SignedOut, Orderly, Wiped, Vouched,
       Trusted, May, memory
  <2>2. PasswordCurrent(c)'
    BY <1>0, <1>1, <1>2 DEF Client, PasswordCurrent, May, VouchSteps, WriteSteps
  <2>3. SessionSound(c)'
    BY <1>0, <1>1, <1>2 DEF Client, SessionSound, Stored, memory, VouchSteps
  <2>4. TaskSound(c)'
    BY <1>0, <1>1, <1>2 DEF Client, TaskSound, Stored, Trusted, May, VouchSteps, WriteSteps
  <2> QED BY <2>1, <2>2, <2>3, <2>4 DEF Client
<1>8. \A d \in Clients : d # c => Same(d)
  BY <1>0, <1>1 DEF Typed, TypedTasks, Same, memory
<1>9. PasswordOpens'
  BY <1>0, <1>1 DEF PasswordOpens, May
<1>10. live' \subseteq live
  BY <1>1
<1> QED BY <1>1, <1>3, <1>4, <1>6, <1>7, <1>8, <1>9, <1>10, Assemble

\* A sign-out begins.
LEMMA SignOutKeeps ==
  ASSUME IInv, NEW c \in Clients, SignOut(c)
  PROVE  IInv'
<1>0. Typed /\ Client(c) /\ PasswordOpens
  BY DEF IInv
<1>1. /\ who[c] # "nobody" /\ who[c] \in Accounts /\ (boot[c].pc = "idle" \/ May("leave"))
      /\ leave' = [leave EXCEPT ![c] = [pc |-> "row", account |-> who[c]]] /\ leave'[c].pc = "row"
      /\ UNCHANGED <<scenario, server, who, memory, disk, boot, used, minted, acts>>
  BY <1>0, ClientTyped DEF Typed, TypedTasks, SignOut, Leaving
<1>3. TypedServer'
  BY <1>0 DEF Typed, TypedServer, SignOut, server
<1>4. TypedClients'
  BY <1>0 DEF Typed, TypedClients, SignOut, memory
<1>5. TypedDisk'
  BY <1>0 DEF Typed, TypedDisk, SignOut
<1>6. TypedTasks'
  BY <1>0, <1>1, NewLeaves DEF Typed, TypedTasks
<1>7. Client(c)'
  <2>1. LiveIsSomebody(c)'
    BY <1>1 DEF LiveIsSomebody
  <2>2. BootsOwn(c)'
    BY <1>0, <1>1 DEF Client, BootsOwn
  <2>3. PasswordCurrent(c)'
    BY <1>0, <1>1 DEF Client, PasswordCurrent, server, memory, May, VouchSteps, WriteSteps
  <2>4. SignedOut(c)'
    BY <1>1 DEF SignedOut
  <2>5. SessionSound(c)'
    BY <1>0, <1>1 DEF Client, SessionSound, Stored, memory, VouchSteps
  <2>6. TaskSound(c)'
    BY <1>0, <1>1 DEF Client, TaskSound, Stored, Trusted, May, VouchSteps, WriteSteps
  <2>7. Vouched(c)'
    BY <1>0, <1>1 DEF Client, Vouched, Trusted, May
  <2>8. Orderly(c)'
    BY <1>1 DEF Orderly, May
  <2>9. Wiped(c)'
    BY <1>1 DEF Wiped
  <2> QED BY <2>1, <2>2, <2>3, <2>4, <2>5, <2>6, <2>7, <2>8, <2>9 DEF Client
<1>8. \A d \in Clients : d # c => Same(d)
  BY <1>1 DEF Same, memory
<1>9. PasswordOpens'
  BY <1>0 DEF PasswordOpens, May, SignOut, server
<1> QED BY <1>1, <1>3, <1>4, <1>5, <1>6, <1>7, <1>8, <1>9, Assemble DEF server

\* The rows of what is about to be forgotten go.
LEMMA DropRowsKeeps ==
  ASSUME IInv, NEW c \in Clients, DropRows(c)
  PROVE  IInv'
<1>0. Typed /\ Client(c) /\ PasswordOpens
  BY DEF IInv
<1>1. /\ leave[c].pc = "row" /\ leave[c].account \in Accounts
      /\ leave' = [leave EXCEPT ![c] = [pc |-> "server"]] /\ leave'[c].pc = "server"
      /\ UNCHANGED <<scenario, pw, envelope, live, who, memory, disk, boot, used, minted, acts>>
  BY <1>0, LeaveShape DEF Typed, TypedTasks, DropRows, Leaving
<1>3. TypedServer'
  BY <1>0, <1>1, KeysAssumption, Constants0 DEF Typed, TypedServer, TypedClients, TypedDisk, TypedTasks,
     DropRows, Leaving, server, memory
<1>4. TypedClients'
  BY <1>0 DEF Typed, TypedClients, DropRows, memory
<1>5. TypedDisk'
  BY <1>0 DEF Typed, TypedDisk, DropRows
<1>6. TypedTasks'
  BY <1>0, <1>1, NewLeaves DEF Typed, TypedTasks
<1>7. Client(c)'
  <2>1. LiveIsSomebody(c)'
    BY <1>0, <1>1 DEF Client, LiveIsSomebody
  <2>2. BootsOwn(c)'
    BY <1>0, <1>1 DEF Client, BootsOwn
  <2>3. PasswordCurrent(c)'
    BY <1>0, <1>1 DEF Client, PasswordCurrent, memory, May, VouchSteps, WriteSteps
  <2>4. SignedOut(c)'
    BY <1>0, <1>1 DEF Client, SignedOut
  <2>5. SessionSound(c)'
    BY <1>0, <1>1 DEF Client, SessionSound, Stored, memory, VouchSteps
  <2>6. TaskSound(c)'
    BY <1>0, <1>1 DEF Client, TaskSound, Stored, Trusted, May, VouchSteps, WriteSteps
  <2>7. Vouched(c)'
    BY <1>0, <1>1 DEF Client, Vouched, Trusted, May
  <2>8. Orderly(c)'
    BY <1>0, <1>1 DEF Client, Orderly, May
  <2>9. Wiped(c)'
    BY <1>1 DEF Wiped
  <2> QED BY <2>1, <2>2, <2>3, <2>4, <2>5, <2>6, <2>7, <2>8, <2>9 DEF Client
<1>8. \A d \in Clients : d # c => Same(d)
  BY <1>1 DEF Same, memory
<1>9. PasswordOpens'
  BY <1>0 DEF PasswordOpens, May, DropRows
<1> QED BY <1>1, <1>3, <1>4, <1>5, <1>6, <1>7, <1>8, <1>9, Assemble

\* The session ends, the memory is still to be cleared.
LEMMA ServerSignOutKeeps ==
  ASSUME IInv, NEW c \in Clients, ServerSignOut(c)
  PROVE  IInv'
<1>0. Typed /\ Client(c) /\ PasswordOpens
  BY DEF IInv
<1>1. /\ leave[c].pc = "server"
      /\ \A d \in Clients : d # c => who'[d] = who[d]
      /\ \/ who' = [who EXCEPT ![c] = "nobody"] /\ who'[c] = "nobody" /\ live' = live \ {c}
         \/ who' = who /\ live' = live
      /\ leave' = [leave EXCEPT ![c] = [pc |-> "check", ended |-> FALSE]]
      /\ leave'[c].pc = "check" /\ ~leave'[c].ended
      /\ UNCHANGED <<scenario, pw, envelope, rows, memory, disk, boot, used, minted, acts>>
  BY <1>0 DEF Typed, TypedTasks, TypedClients, ServerSignOut, Leaving
<1>3. TypedServer'
  BY <1>0, <1>1 DEF Typed, TypedServer
<1>4. TypedClients'
  BY <1>0, <1>1 DEF Typed, TypedClients, memory
<1>5. TypedDisk'
  BY <1>0 DEF Typed, TypedDisk, ServerSignOut
<1>6. TypedTasks'
  BY <1>0, <1>1, NewLeaves DEF Typed, TypedTasks
<1>7. Client(c)'
  <2>1. LiveIsSomebody(c)'
    BY <1>0, <1>1 DEF Client, LiveIsSomebody
  <2>2. BootsOwn(c)'
    BY <1>0, <1>1 DEF Client, BootsOwn
  <2>3. PasswordCurrent(c)'
    BY <1>0, <1>1 DEF Client, PasswordCurrent, memory, May, VouchSteps, WriteSteps
  <2>4. SignedOut(c)'
    BY <1>1 DEF SignedOut
  <2>5. SessionSound(c)'
    BY <1>0, <1>1 DEF Client, SessionSound, Stored, memory, VouchSteps
  <2>6. TaskSound(c)'
    BY <1>0, <1>1 DEF Client, TaskSound, Stored, Trusted, May, VouchSteps, WriteSteps
  <2>7. Vouched(c)'
    BY <1>0, <1>1 DEF Client, Vouched, Trusted, May
  <2>8. Orderly(c)'
    BY <1>0, <1>1 DEF Client, Orderly, May
  <2>9. Wiped(c)'
    BY <1>1 DEF Wiped
  <2> QED BY <2>1, <2>2, <2>3, <2>4, <2>5, <2>6, <2>7, <2>8, <2>9 DEF Client
<1>8. \A d \in Clients : d # c => Same(d)
  BY <1>1 DEF Same, memory
<1>9. PasswordOpens'
  BY <1>0 DEF PasswordOpens, May, ServerSignOut
<1> QED BY <1>1, <1>3, <1>4, <1>5, <1>6, <1>7, <1>8, <1>9, Assemble

\* The server has ended the session: the memory goes with it.
LEMMA SessionEndedKeeps ==
  ASSUME IInv, NEW c \in Clients, SessionEnded(c)
  PROVE  IInv'
<1>0. Typed /\ Client(c) /\ PasswordOpens
  BY DEF IInv
<1>1. /\ who[c] # "nobody" /\ c \notin live /\ leave[c].pc = "idle" /\ (boot[c].pc = "idle" \/ May("leave"))
      /\ who' = [who EXCEPT ![c] = "nobody"] /\ who'[c] = "nobody" /\ ClearMemory(c)
      /\ leave' = [leave EXCEPT ![c] = [pc |-> "check", ended |-> TRUE]] /\ leave'[c].pc = "check"
      /\ scenario' = scenario /\ pw' = pw /\ envelope' = envelope /\ rows' = rows /\ live' = live
           /\ disk' = disk
      /\ used' = used /\ minted' = minted /\ acts' = acts
  BY <1>0 DEF Typed, TypedTasks, TypedClients, SessionEnded, Leaving, server
<1>2. /\ session' \in [Clients -> Numbers] /\ password' \in [Clients -> 0 .. acts + 1]
           /\ boot' \in [Clients -> Tasks]
      /\ session'[c] = 0 /\ boot'[c].pc = boot[c].pc /\ (boot[c].pc # "idle" => boot'[c].stale = TRUE)
      /\ \A d \in Clients : d # c => session'[d] = session[d] /\ password'[d] = password[d]
           /\ boot'[d] = boot[d]
  BY <1>0, <1>1, Clears
<1>3. TypedServer'
  BY <1>0, <1>1 DEF Typed, TypedServer
<1>4. TypedClients'
  BY <1>0, <1>1, <1>2 DEF Typed, TypedClients
<1>5. TypedDisk'
  BY <1>0, <1>1 DEF Typed, TypedDisk
<1>6. TypedTasks'
  BY <1>0, <1>1, <1>2, NewLeaves DEF Typed, TypedTasks
<1>7. Client(c)'
  <2>1. LiveIsSomebody(c)' /\ BootsOwn(c)' /\ PasswordCurrent(c)' /\ SessionSound(c)'
          /\ TaskSound(c)' /\ Vouched(c)'
    BY <1>0, <1>1, ClearsKeeps
  <2>2. SignedOut(c)'
    BY <1>1, <1>2 DEF SignedOut
  <2>3. Orderly(c)' /\ Wiped(c)'
    BY <1>1, <1>2 DEF Orderly, Wiped, May
  <2> QED BY <2>1, <2>2, <2>3 DEF Client
<1>8. \A d \in Clients : d # c => Same(d)
  BY <1>1, <1>2 DEF Same
<1>9. PasswordOpens'
  BY <1>0 DEF PasswordOpens, May, SessionEnded, server
<1> QED BY <1>1, <1>3, <1>4, <1>5, <1>6, <1>7, <1>8, <1>9, Assemble

\* The memory is cleared or left alone.
MemoryEnds(c) ==
    /\ session' \in [Clients -> Numbers] /\ password' \in [Clients -> 0 .. acts + 1]
         /\ boot' \in [Clients -> Tasks]
    /\ session'[c] \in {0, session[c]} /\ password'[c] \in {0, password[c]} /\ boot'[c].pc = boot[c].pc
    /\ boot[c].pc # "idle" => boot'[c].account = boot[c].account /\ (boot[c].stale => boot'[c].stale)
    /\ boot[c].pc \in VouchSteps \cup WriteSteps => boot'[c].secret = boot[c].secret
    /\ boot[c].pc \in VouchSteps => boot'[c].salt = boot[c].salt
    /\ boot[c].pc \in WriteSteps =>
         boot'[c].device = boot[c].device /\ boot'[c].salt = boot[c].salt
    /\ boot[c].pc \in {"decide", "reput"} =>
         boot'[c].rows = boot[c].rows /\ boot'[c].envelope = boot[c].envelope /\ boot'[c].mine = boot[c].mine
    /\ \A d \in Clients : d # c =>
         session'[d] = session[d] /\ password'[d] = password[d] /\ boot'[d] = boot[d]

\* A step of a wipe clears the memory or leaves it.
LEMMA EndsMemory ==
  ASSUME Typed, NEW c \in Clients, ClearMemory(c) \/ UNCHANGED <<memory, boot>>
  PROVE  MemoryEnds(c)
<1>1. CASE ClearMemory(c)
  BY <1>1, Clears DEF MemoryEnds
<1>2. CASE UNCHANGED <<memory, boot>>
  BY <1>2 DEF MemoryEnds, memory, Typed, TypedClients, TypedTasks
<1> QED BY <1>1, <1>2

\* A wipe takes keys and salts from the disk and puts none there.
Thinner(c) ==
    \A s \in Slots(c) : /\ \/ disk'[c][s].id = disk[c][s].id /\ disk'[c][s].priv = disk[c][s].priv
                           \/ disk'[c][s].id = NoDevice /\ disk'[c][s].priv = NoDevice
                        /\ disk'[c][s].salt \in {disk[c][s].salt, None}

\* A step of a wipe keeps what does not depend on how far it has come.
LEMMA WipeKeeps ==
  ASSUME Typed, NEW c \in Clients, Client(c), MemoryEnds(c), Thinner(c), UNCHANGED <<scenario, pw, live, who>>
  PROVE  /\ LiveIsSomebody(c)' /\ BootsOwn(c)' /\ PasswordCurrent(c)' /\ SessionSound(c)'
         /\ TaskSound(c)' /\ Vouched(c)'
<1>1. LiveIsSomebody(c)' /\ BootsOwn(c)' /\ PasswordCurrent(c)'
  BY DEF Client, MemoryEnds, LiveIsSomebody, BootsOwn, PasswordCurrent, May, VouchSteps, WriteSteps
<1>2. SessionSound(c)'
  <2>1. CASE session'[c] = 0
    BY <2>1 DEF SessionSound, VouchSteps
  <2>2. CASE session'[c] # 0
    <3>1. session'[c] = session[c] /\ boot'[c].pc \in {"idle"} \cup VouchSteps
      BY <2>2 DEF MemoryEnds, Client, SessionSound, VouchSteps
    <3>2. CASE who[c] # "nobody"
      <4>1. who[c] \in Accounts /\ Slot(c, who[c]) \in Slots(c)
        BY <3>2, ClientTyped, SlotIs
      <4>2. disk[c][Slot(c, who[c])].priv = NoDevice \/ disk[c][Slot(c, who[c])].priv.key = session[c]
        BY <2>2, <3>1, <3>2 DEF Client, SessionSound, Stored, VouchSteps
      <4>3. disk'[c][Slot(c, who[c])].priv \in {disk[c][Slot(c, who[c])].priv, NoDevice}
        BY <4>1 DEF Thinner
      <4> QED BY <3>1, <4>2, <4>3 DEF SessionSound, Stored, VouchSteps
    <3> QED BY <3>1, <3>2 DEF SessionSound, VouchSteps
  <2> QED BY <2>1, <2>2
<1>3. TaskSound(c)'
  <2>1. CASE boot[c].pc = "idle"
    BY <2>1 DEF MemoryEnds, TaskSound, Trusted, May, VouchSteps, WriteSteps
  <2>2. CASE boot[c].pc # "idle"
    <3>1. PICK s \in Slots(c) : s = Slot(c, boot[c].account) /\ s = Slot(c, boot'[c].account)
      BY <2>2, TaskShape, SlotIs DEF MemoryEnds
    <3>2. /\ \/ disk'[c][s].id = disk[c][s].id /\ disk'[c][s].priv = disk[c][s].priv
             \/ disk'[c][s].id = NoDevice /\ disk'[c][s].priv = NoDevice
          /\ disk'[c][s].salt \in {disk[c][s].salt, None}
      BY DEF Thinner
    <3> QED BY <3>1, <3>2 DEF Client, MemoryEnds, TaskSound, Stored, KeepsNone, Trusted, May, VouchSteps,
               WriteSteps
  <2> QED BY <2>1, <2>2
<1>4. Vouched(c)'
  BY DEF Client, Vouched, Thinner, Trusted, May
<1> QED BY <1>1, <1>2, <1>3, <1>4

\* The slots that may go are read.
LEMMA CheckSaltKeeps ==
  ASSUME IInv, NEW c \in Clients, CheckSalt(c)
  PROVE  IInv'
<1>0. Typed /\ Client(c) /\ PasswordOpens
  BY DEF IInv
<1>1. /\ leave[c].pc = "check" /\ leave' = [leave EXCEPT ![c] = leave'[c]]
      /\ leave[c].ended \in BOOLEAN
      /\ disk' = disk /\ Recoverable(c) \in SUBSET ({"phone"} \cup Accounts)
      /\ IF ~leave[c].ended /\ (c \in Browsers \/ Recoverable(c) = {})
         THEN ClearMemory(c) ELSE UNCHANGED <<memory, boot>>
      /\ leave'[c] = IF Recoverable(c) = {} THEN Idle
                     ELSE [pc |-> "forget", slots |-> Recoverable(c), ended |-> leave[c].ended]
      /\ leave'[c] \in Leaves /\ leave'[c].pc \in {"idle", "forget"}
  <2>1. leave[c].pc = "check" /\ leave[c].ended \in BOOLEAN /\ leave \in [Clients -> Leaves]
    BY <1>0, LeaveShape DEF CheckSalt, Typed, TypedTasks
  <2>2. Recoverable(c) \in SUBSET ({"phone"} \cup Accounts)
    BY DEF Recoverable, Slots
  <2>3. leave'[c] = IF Recoverable(c) = {} THEN Idle
                    ELSE [pc |-> "forget", slots |-> Recoverable(c), ended |-> leave[c].ended]
    BY <2>1 DEF CheckSalt, Leaving
  <2>4. CASE Recoverable(c) = {}
    BY <2>1, <2>4, Constants0 DEF CheckSalt, Leaving
  <2>5. CASE Recoverable(c) # {}
    <3>1. leave'[c] \in Leaves /\ leave'[c].pc = "forget"
      BY <2>1, <2>2, <2>3, <2>5, NewLeaves
    <3> QED BY <2>1, <2>2, <3>1 DEF CheckSalt, Leaving
  <2> QED BY <2>4, <2>5
<1>2. UNCHANGED <<scenario, pw, envelope, rows, live, who, used, minted, acts>>
  BY DEF CheckSalt, server
<1>3. /\ TypedDisk' /\ Thinner(c) /\ (\A d \in Clients : d # c => disk'[d] = disk[d])
      /\ MemoryEnds(c)
  <2>1. MemoryEnds(c)
    BY <1>0, <1>1, EndsMemory
  <2> QED BY <1>0, <1>1, <2>1 DEF Typed, TypedDisk, Thinner
<1>4. TypedServer' /\ TypedClients'
  BY <1>0, <1>2, <1>3 DEF Typed, TypedServer, TypedClients, MemoryEnds
<1>5. TypedTasks'
  <2>1. leave' \in [Clients -> Leaves] /\ (\A d \in Clients : d # c => leave'[d] = leave[d])
        /\ (leave'[c].pc = "salt" => c \in Phones)
    BY <1>0, <1>1 DEF Typed, TypedTasks
  <2>2. boot' \in [Clients -> Tasks] /\ \A d \in Clients : boot'[d].pc = boot[d].pc
    BY <1>3 DEF MemoryEnds
  <2> QED BY <1>0, <2>1, <2>2 DEF Typed, TypedTasks
<1>6. LiveIsSomebody(c)' /\ BootsOwn(c)' /\ PasswordCurrent(c)' /\ SessionSound(c)' /\ TaskSound(c)'
        /\ Vouched(c)'
  BY <1>0, <1>2, <1>3, WipeKeeps
<1>7. SignedOut(c)'
  <2>1. CASE ~leave[c].ended /\ (c \in Browsers \/ Recoverable(c) = {})
    <3>1. session'[c] = 0 /\ boot'[c].pc = boot[c].pc /\ (boot[c].pc # "idle" => boot'[c].stale = TRUE)
      BY <1>0, <1>1, <2>1, Clears
    <3>2. leave'[c].pc \notin {"row", "server", "unseen"}
      BY <1>1
    <3> QED BY <3>1, <3>2 DEF SignedOut
  <2>2. CASE leave[c].ended
    <3>1. session' = session /\ boot' = boot
      BY <1>1, <2>2 DEF memory
    <3> QED BY <1>0, <1>1, <1>2, <2>2, <3>1 DEF Client, SignedOut
  <2>3. CASE ~leave[c].ended /\ c \notin Browsers /\ Recoverable(c) # {}
    <3>1. leave'[c].pc = "forget" /\ ~leave'[c].ended
      BY <1>1, <2>3
    <3> QED BY <2>3, <3>1 DEF SignedOut
  <2> QED BY <2>1, <2>2, <2>3
<1>8. Orderly(c)'
  BY <1>0, <1>1, <1>2, <1>3 DEF Client, Orderly, MemoryEnds, May
<1>9. Wiped(c)'
  <2>1. SUFFICES ASSUME ~May("leave"), c \in Phones, who[c] = "nobody" PROVE Wiped(c)'
    BY <1>2 DEF Wiped, May
  <2>2. CASE Recoverable(c) = {}
    <3>1. disk[c]["phone"].salt = None
      BY <2>1, <2>2 DEF Recoverable, Slots
    <3>2. leave'[c].pc = "idle"
      BY <1>1, <2>2, Constants0
    <3> QED BY <1>1, <3>1, <3>2 DEF Wiped
  <2>3. CASE Recoverable(c) # {}
    <3>1. Recoverable(c) = {"phone"}
      BY <2>1, <2>3 DEF Recoverable, Slots
    <3>2. leave'[c].pc = "forget" /\ leave'[c].slots = {"phone"}
      BY <1>1, <3>1
    <3> QED BY <3>2 DEF Wiped
  <2> QED BY <2>2, <2>3
<1>10. Client(c)'
  BY <1>6, <1>7, <1>8, <1>9 DEF Client
<1>11. \A d \in Clients : d # c => Same(d)
  BY <1>0, <1>1, <1>2, <1>3 DEF Typed, TypedTasks, Same, MemoryEnds
<1>12. PasswordOpens'
  BY <1>0, <1>2 DEF PasswordOpens, May
<1> QED BY <1>2, <1>3, <1>4, <1>5, <1>10, <1>11, <1>12, Assemble

\* What is forgotten leaves the disk, and nothing else does.
LEMMA ForgetThins ==
  ASSUME Typed, NEW c \in Clients, Forget(c)
  PROVE  TypedDisk' /\ Thinner(c) /\ \A d \in Clients : d # c => disk'[d] = disk[d]
<1>1. ASSUME NEW s \in Slots(c)
      PROVE  /\ disk'[c][s] \in Slot0
             /\ \/ disk'[c][s].id = disk[c][s].id /\ disk'[c][s].priv = disk[c][s].priv
                \/ disk'[c][s].id = NoDevice /\ disk'[c][s].priv = NoDevice
             /\ disk'[c][s].salt \in {disk[c][s].salt, None}
  <2>1. PICK d \in Slot0 : d = disk[c][s]
    BY DEF Typed, TypedDisk
  <2>2. d.salt \in Salts
    BY SlotFields
  <2>3. PICK n \in Slot0 : n = [Empty EXCEPT !.salt = d.salt] /\ n.priv = NoDevice /\ n.salt = d.salt
    BY <2>2, SlotSalted, Constants0
  <2>4. n.id = NoDevice /\ Empty.id = NoDevice
    BY <2>3 DEF Empty
  <2>5. disk'[c][s] \in {d, n, Empty}
    BY <2>1, <2>3 DEF Forget
  <2> QED BY <2>1, <2>3, <2>4, <2>5, Constants0
<1>2. (\A d \in Clients : d # c => disk'[d] = disk[d]) /\ disk' = [d \in Clients |-> disk'[d]]
  BY DEF Forget, Typed, TypedDisk
<1>3. disk'[c] = [s \in Slots(c) |-> disk'[c][s]]
  BY DEF Forget, Typed, TypedDisk
<1>4. disk'[c] \in [Slots(c) -> Slot0]
  BY <1>1, <1>3
<1>5. TypedDisk'
  BY <1>2, <1>4 DEF Typed, TypedDisk
<1> QED BY <1>1, <1>2, <1>5 DEF Thinner

\* The keys that the envelope holds go.
LEMMA ForgetKeeps ==
  ASSUME IInv, NEW c \in Clients, Forget(c)
  PROVE  IInv'
<1>0. Typed /\ Client(c) /\ PasswordOpens
  BY DEF IInv
<1>1. /\ leave[c].pc = "forget" /\ leave' = [leave EXCEPT ![c] = leave'[c]]
      /\ leave[c].ended \in BOOLEAN /\ UNCHANGED <<memory, boot>>
      /\ c \in Phones => leave'[c] = [pc |-> "salt", ended |-> leave[c].ended]
      /\ c \notin Phones => leave'[c] = Idle
      /\ leave'[c] \in Leaves
  <2>1. leave[c].pc = "forget" /\ leave[c].ended \in BOOLEAN /\ leave \in [Clients -> Leaves]
    BY <1>0, LeaveShape DEF Forget, Typed, TypedTasks
  <2>2. leave'[c] = IF c \in Phones THEN [pc |-> "salt", ended |-> leave[c].ended] ELSE Idle
    BY <2>1 DEF Forget, Leaving
  <2>3. leave'[c] \in Leaves
    BY <2>1, <2>2, NewLeaves, Constants0
  <2> QED BY <2>1, <2>3 DEF Forget, Leaving
<1>2. UNCHANGED <<scenario, pw, envelope, rows, live, who, used, minted, acts>>
  BY DEF Forget, server
<1>3. /\ TypedDisk' /\ Thinner(c) /\ (\A d \in Clients : d # c => disk'[d] = disk[d])
      /\ MemoryEnds(c)
  BY <1>0, <1>1, ForgetThins, EndsMemory
<1>4. TypedServer' /\ TypedClients'
  BY <1>0, <1>2, <1>3 DEF Typed, TypedServer, TypedClients, MemoryEnds
<1>5. TypedTasks'
  <2>1. leave' \in [Clients -> Leaves] /\ (\A d \in Clients : d # c => leave'[d] = leave[d])
        /\ (leave'[c].pc = "salt" => c \in Phones)
    BY <1>0, <1>1, Constants0 DEF Typed, TypedTasks
  <2>2. boot' \in [Clients -> Tasks] /\ \A d \in Clients : boot'[d].pc = boot[d].pc
    BY <1>3 DEF MemoryEnds
  <2> QED BY <1>0, <2>1, <2>2 DEF Typed, TypedTasks
<1>6. LiveIsSomebody(c)' /\ BootsOwn(c)' /\ PasswordCurrent(c)' /\ SessionSound(c)' /\ TaskSound(c)'
        /\ Vouched(c)'
  BY <1>0, <1>2, <1>3, WipeKeeps
<1>7. SignedOut(c)'
  <2>1. session' = session /\ boot' = boot
    BY <1>1 DEF memory
  <2>2. CASE c \in Phones
    <3>1. leave'[c].pc = "salt" /\ leave'[c].ended = leave[c].ended /\ c \notin Browsers
      BY <1>1, <2>2, KeysAssumption
    <3> QED BY <1>0, <1>2, <2>1, <3>1 DEF Client, SignedOut
  <2>3. CASE c \notin Phones
    <3>1. leave'[c].pc = "idle" /\ c \in Browsers
      BY <1>1, <2>3, Constants0 DEF Clients
    <3> QED BY <1>0, <1>1, <1>2, <2>1, <3>1 DEF Client, SignedOut
  <2> QED BY <2>2, <2>3
<1>8. Orderly(c)'
  BY <1>0, <1>1, <1>2 DEF Client, Orderly, May
<1>9. Wiped(c)'
  <2>1. SUFFICES ASSUME ~May("leave"), c \in Phones, who[c] = "nobody" PROVE Wiped(c)'
    BY <1>2 DEF Wiped, May
  <2>2. leave[c].slots = {"phone"}
    BY <1>0, <1>1, <2>1 DEF Client, Wiped
  <2>3. disk'[c]["phone"] = [Empty EXCEPT !.salt = disk[c]["phone"].salt]
    BY <1>0, <2>1, <2>2 DEF Forget, Slots, Typed, TypedDisk
  <2>4. disk'[c]["phone"].priv = NoDevice
    BY <2>3 DEF Empty
  <2>5. leave'[c].pc = "salt"
    BY <1>1, <2>1
  <2> QED BY <2>4, <2>5 DEF Wiped
<1>10. Client(c)'
  BY <1>6, <1>7, <1>8, <1>9 DEF Client
<1>11. \A d \in Clients : d # c => Same(d)
  BY <1>0, <1>1, <1>2, <1>3 DEF Typed, TypedTasks, Same, MemoryEnds
<1>12. PasswordOpens'
  BY <1>0, <1>2 DEF PasswordOpens, May
<1> QED BY <1>2, <1>3, <1>4, <1>5, <1>10, <1>11, <1>12, Assemble

\* The salt leaves the disk last.
LEMMA ForgetSaltThins ==
  ASSUME Typed, NEW c \in Clients, ForgetSalt(c)
  PROVE  TypedDisk' /\ Thinner(c) /\ \A d \in Clients : d # c => disk'[d] = disk[d]
<1>1. "phone" \in Slots(c) /\ Slots(c) = {"phone"}
  BY DEF ForgetSalt, Typed, TypedTasks, Slots
<1>2. PICK d \in Slot0 : d = disk[c]["phone"]
  BY <1>1 DEF Typed, TypedDisk
<1>3. PICK n \in Slot0 : n = [d EXCEPT !.salt = None] /\ n.id = d.id /\ n.priv = d.priv /\ n.salt = None
  BY SlotSalted, Constants0
<1>4. disk' = [disk EXCEPT ![c]["phone"] = n]
  BY <1>2, <1>3 DEF ForgetSalt
<1>5. TypedDisk' /\ disk'[c]["phone"] = n /\ \A e \in Clients : e # c => disk'[e] = disk[e]
  BY <1>1, <1>4 DEF Typed, TypedDisk
<1> QED BY <1>1, <1>2, <1>3, <1>5 DEF Thinner

\* The salt goes last.
LEMMA ForgetSaltKeeps ==
  ASSUME IInv, NEW c \in Clients, ForgetSalt(c)
  PROVE  IInv'
<1>0. Typed /\ Client(c) /\ PasswordOpens
  BY DEF IInv
<1>1. /\ leave[c].pc = "salt" /\ leave' = [leave EXCEPT ![c] = Idle] /\ leave'[c] = Idle
      /\ IF leave[c].ended THEN UNCHANGED <<memory, boot>> ELSE ClearMemory(c)
      /\ c \in Phones /\ leave[c].ended \in BOOLEAN
  BY <1>0, LeaveShape DEF ForgetSalt, Leaving, Typed, TypedTasks
<1>2. UNCHANGED <<scenario, pw, envelope, rows, live, who, used, minted, acts>>
  BY DEF ForgetSalt, server
<1>3. /\ TypedDisk' /\ Thinner(c) /\ (\A d \in Clients : d # c => disk'[d] = disk[d])
      /\ MemoryEnds(c)
  BY <1>0, <1>1, ForgetSaltThins, EndsMemory
<1>4. TypedServer' /\ TypedClients'
  BY <1>0, <1>2, <1>3 DEF Typed, TypedServer, TypedClients, MemoryEnds
<1>5. TypedTasks'
  <2>1. leave' \in [Clients -> Leaves] /\ (\A d \in Clients : d # c => leave'[d] = leave[d])
        /\ (leave'[c].pc = "salt" => c \in Phones)
    BY <1>0, <1>1, Constants0 DEF Typed, TypedTasks
  <2>2. boot' \in [Clients -> Tasks] /\ \A d \in Clients : boot'[d].pc = boot[d].pc
    BY <1>3 DEF MemoryEnds
  <2> QED BY <1>0, <2>1, <2>2 DEF Typed, TypedTasks
<1>6. LiveIsSomebody(c)' /\ BootsOwn(c)' /\ PasswordCurrent(c)' /\ SessionSound(c)' /\ TaskSound(c)'
        /\ Vouched(c)'
  BY <1>0, <1>2, <1>3, WipeKeeps
<1>7. SignedOut(c)'
  BY <1>0, <1>1, <1>2, <1>3, Constants0, SlotIs, Clears DEF Client, SignedOut, MemoryEnds
<1>8. Orderly(c)'
  BY <1>0, <1>1, <1>2, <1>3 DEF Client, Orderly, MemoryEnds, May
<1>9. Wiped(c)'
  <2>1. disk'[c]["phone"].salt = None
    BY <1>0, <1>1 DEF ForgetSalt, Typed, TypedDisk, Slots
  <2> QED BY <1>1, <2>1, Constants0 DEF Wiped
<1>10. Client(c)'
  BY <1>6, <1>7, <1>8, <1>9 DEF Client
<1>11. \A d \in Clients : d # c => Same(d)
  BY <1>1, <1>2, <1>3 DEF Same, MemoryEnds
<1>12. PasswordOpens'
  BY <1>0, <1>2 DEF PasswordOpens, May
<1> QED BY <1>2, <1>3, <1>4, <1>5, <1>10, <1>11, <1>12, Assemble

-----------------------------------------------------------------------------
(* The theorems *)

\* The invariant holds at first.
LEMMA InitInv == Init => IInv
<1> SUFFICES ASSUME Init PROVE IInv
  OBVIOUS
<1>1. /\ \A s \in Scenarios : s.acts \in Nat
      /\ 0 \in 0 .. scenario.acts /\ 0 \in 0 .. 0 + 1 /\ 1 \in 1 .. 0 + 1 /\ 0 \in 0 .. MaxMinted
  BY KeysAssumption DEF Init
<1>2. NoEnvelope \in [pw : 0 .. 0 + 1, salt : Salts] /\ NoEnvelope.pw = 0
  BY Constants0 DEF NoEnvelope
<1>3. TypedServer
  BY <1>1, <1>2 DEF Init, TypedServer
<1>4. TypedClients /\ TypedDisk
  BY Constants0 DEF Init, TypedClients, TypedDisk
<1>5. TypedTasks
  BY Constants0 DEF Init, TypedTasks
<1>6. PasswordOpens
  BY <1>2 DEF Init, PasswordOpens
<1>7. ASSUME NEW c \in Clients PROVE Client(c)
  <2>1. /\ boot[c].pc = "idle" /\ leave[c].pc = "idle" /\ session[c] = 0 /\ c \notin live
        /\ \A s \in Slots(c) : disk[c][s].salt = None
    BY Constants0 DEF Init
  <2>2. c \in Phones => disk[c]["phone"].salt = None
    BY <2>1 DEF Slots
  <2> QED BY <2>1, <2>2 DEF Client, LiveIsSomebody, BootsOwn, PasswordCurrent, SignedOut, SessionSound,
        TaskSound, Vouched, Orderly, Wiped, VouchSteps, WriteSteps
<1> QED BY <1>3, <1>4, <1>5, <1>6, <1>7 DEF IInv, Typed

\* A step that changes nothing keeps it.
LEMMA StutterInv == IInv /\ UNCHANGED vars => IInv'
<1> SUFFICES ASSUME IInv, UNCHANGED vars PROVE IInv'
  OBVIOUS
<1>1. Typed'
  BY DEF vars, IInv, Typed, TypedServer, TypedClients, TypedDisk, TypedTasks
<1>2. PasswordOpens'
  BY DEF vars, IInv, PasswordOpens, May
<1>3. ASSUME NEW c \in Clients PROVE Client(c)'
  <2>1. Client(c) /\ Same(c) /\ scenario' = scenario /\ live' = live /\ pw' = pw
    BY DEF vars, IInv, Same
  <2> QED BY <2>1, SameKeeps
<1> QED BY <1>1, <1>2, <1>3 DEF IInv

\* Every step keeps it.
LEMMA NextInv == IInv /\ [Next]_vars => IInv'
<1> SUFFICES ASSUME IInv, Next PROVE IInv'
  BY StutterInv
<1>1. PICK c \in Clients :
        \/ \E a \in Accounts : SignIn(c, a)
        \/ Restart(c) \/ Fails(c) \/ Fetch(c) \/ GiveUp(c)
        \/ UseDevice(c) \/ Reupload(c) \/ Reuploaded(c) \/ Resolve(c)
        \/ Ask(c) \/ Reseal(c) \/ Seal(c)
        \/ WithoutDevice(c) \/ PutDevice(c) \/ WriteDisk(c) \/ WriteRecord(c)
        \/ ChangePassword(c) \/ Revoke(c)
        \/ SignOut(c) \/ DropRows(c) \/ ServerSignOut(c) \/ SessionEnded(c)
        \/ CheckSalt(c) \/ Forget(c) \/ ForgetSalt(c)
  BY Zenon DEF Next
<1>2. CASE \E a \in Accounts : SignIn(c, a)
  BY <1>2, SignInKeeps, Zenon
<1>3. CASE Restart(c) \/ Fails(c) \/ Fetch(c) \/ GiveUp(c)
  BY <1>3, RestartKeeps, FailsKeeps, FetchKeeps, GiveUpKeeps, Zenon
<1>4. CASE UseDevice(c) \/ Reupload(c) \/ Reuploaded(c) \/ Resolve(c)
  BY <1>4, UseDeviceKeeps, ReuploadKeeps, ReuploadedKeeps, ResolveKeeps, Zenon
<1>9. CASE Ask(c) \/ Reseal(c) \/ Seal(c)
  BY <1>9, AskKeeps, ResealKeeps, SealKeeps, Zenon
<1>5. CASE WithoutDevice(c) \/ PutDevice(c) \/ WriteDisk(c) \/ WriteRecord(c)
  BY <1>5, WithoutDeviceKeeps, PutDeviceKeeps, WriteDiskKeeps, WriteRecordKeeps, Zenon
<1>6. CASE ChangePassword(c) \/ Revoke(c)
  BY <1>6, ChangePasswordKeeps, RevokeKeeps, Zenon
<1>7. CASE SignOut(c) \/ DropRows(c) \/ ServerSignOut(c) \/ SessionEnded(c)
  BY <1>7, SignOutKeeps, DropRowsKeeps, ServerSignOutKeeps, SessionEndedKeeps, Zenon
<1>8. CASE CheckSalt(c) \/ Forget(c) \/ ForgetSalt(c)
  BY <1>8, CheckSaltKeeps, ForgetKeeps, ForgetSaltKeeps, Zenon
<1> QED BY <1>1, <1>2, <1>3, <1>4, <1>5, <1>6, <1>7, <1>8, <1>9

\* It holds in every reachable state.
LEMMA Invariance == Spec => []IInv
  BY InitInv, NextInv, PTL DEF Spec

\* Whatever the server and the clients keep has its type.
THEOREM TypeCorrect == Spec => []TypeOK
<1>1. IInv => TypeOK
  <2> SUFFICES ASSUME IInv PROVE TypeOK
    OBVIOUS
  <2>1. acts \in 0 .. scenario.acts /\ scenario.acts \in Nat
    BY KeysAssumption DEF IInv, Typed, TypedServer
  <2>2. /\ scenario \in Scenarios /\ pw \in [Accounts -> 1 .. scenario.acts + 1]
        /\ rows \in [Accounts -> SUBSET Devices] /\ live \subseteq Clients
    BY <2>1 DEF IInv, Typed, TypedServer
  <2>3. envelope \in [Accounts -> [pw : 0 .. scenario.acts + 1, salt : Salts]]
    BY <2>1 DEF IInv, Typed, TypedServer
  <2>4. /\ who \in [Clients -> Accounts \cup {"nobody"}] /\ password \in [Clients -> 0 .. scenario.acts + 1]
        /\ session \in [Clients -> Numbers] /\ used \in [Accounts -> SUBSET Numbers]
    BY <2>1 DEF IInv, Typed, TypedClients
  <2>5. \A c \in Clients : disk[c] \in [Slots(c) -> [id : Devices, priv : Devices, salt : Salts]]
    BY DEF IInv, Typed, TypedDisk, Slot0
  <2>6. \A c \in Clients : boot[c].pc # "idle" => boot[c].account \in Accounts
    BY TaskShape DEF IInv, Typed, TypedTasks
  <2> QED BY <2>2, <2>3, <2>4, <2>5, <2>6 DEF TypeOK
<1> QED BY <1>1, Invariance, PTL

\* SaltVouches, for every number of clients and wherever an app is killed:
\* the salt beside a stored key pair names an envelope with the same key.
THEOREM SaltNeverLies == Spec => []SaltVouches
<1>1. IInv => SaltVouches
  BY DEF IInv, Client, Vouched, SaltVouches, Trusted
<1> QED BY <1>1, Invariance, PTL

\* PasswordOpens, for every number of clients and password changes: the
\* current password opens the account's envelope.
THEOREM EnvelopeOpens == Spec => []PasswordOpens
<1>1. IInv => PasswordOpens
  BY DEF IInv
<1> QED BY <1>1, Invariance, PTL

\* GoneWithSession, for every number of clients: a wipe that was cut short is
\* made good before the phone is quiet again.
THEOREM WipeIsFinished == Spec => []GoneWithSession
<1>1. IInv => GoneWithSession
  <2> SUFFICES ASSUME IInv, ~May("leave"), NEW c \in Phones, who[c] = "nobody", Quiet(c), NEW s \in Slots(c)
               PROVE  disk[c][s].salt = None \/ disk[c][s].priv = NoDevice
    BY DEF GoneWithSession
  <2>1. s = "phone" /\ c \in Clients
    BY DEF Slots, Clients
  <2> QED BY <2>1 DEF IInv, Client, Wiped, Quiet
<1> QED BY <1>1, Invariance, PTL

-----------------------------------------------------------------------------
(* One key for each account: the invariant while starts do not race *)

Sealed(a) == envelope[a].pw # 0
Reads(c) == boot[c].pc \in {"decide", "reput"}
Vouches(c) == boot[c].pc \in VouchSteps
Writes(c) == boot[c].pc \in WriteSteps

\* A bootstrap that only has a salt to write.
Settles(c) == boot[c].pc \in {"resolve", "ending"} /\ boot[c].secret = 0

\* Device d is account a's as client c knows it.
Has(c, a, d) ==
    \/ c \in Browsers /\ d # NoDevice /\ disk[c][a].id = d
    \/ Writes(c) /\ boot[c].account = a /\ boot[c].device = d
    \/ Reads(c) /\ boot[c].account = a /\ d \in boot[c].rows
    \/ c \in Browsers /\ Reads(c) /\ boot[c].account = a /\ d # NoDevice /\ boot[c].mine.id = d

\* Device d belongs to account a.
Of(a, d) == d \in rows[a] \/ \E c \in Clients : Has(c, a, d)

\* Device d is client c's.
By(c, d) ==
    \/ d # NoDevice /\ \E s \in Slots(c) : disk[c][s].id = d
    \/ d # NoDevice /\ Reads(c) /\ boot[c].mine.id = d
    \/ Writes(c) /\ boot[c].device = d

\* Client c is about to open an envelope of account a that holds key k.
Opening(c, a, k) ==
    Reads(c) /\ boot[c].account = a /\ boot[c].envelope.pw # 0 /\ boot[c].envelope.salt.key = k

\* Key k is account a's, wherever it is.
KeyOf(a, k) ==
    \/ \E d \in Devices : Of(a, d) /\ d.key = k
    \/ k \in used[a]
    \/ Sealed(a) /\ envelope[a].salt.key = k
    \/ \E c \in Clients : Opening(c, a, k)

\* Devices are numbered as they are made, for one account and by one client.
Numbered ==
    /\ \A a \in Accounts, d \in Devices : Of(a, d) => d.id \in 1 .. minted
    /\ \A c \in Clients, d \in Devices : By(c, d) => d.id \in 1 .. minted
OneAccount == \A a, e \in Accounts, d \in Devices : Of(a, d) /\ Of(e, d) => a = e
OneClient == \A c, e \in Clients, d \in Devices : By(c, d) /\ By(e, d) => c = e
SoleKey(a) == \A k, l \in Numbers : KeyOf(a, k) /\ KeyOf(a, l) => k = l

\* Of two bootstraps of an account one has only a salt left to write.
Alone ==
    \A c, e \in Clients :
        c # e /\ boot[c].pc # "idle" /\ boot[e].pc # "idle" /\ boot[c].account = boot[e].account =>
            Settles(c) \/ Settles(e)

\* An account without an envelope keeps a row that no phone takes back.
Anchored(a) ==
    used[a] # {} /\ ~Sealed(a) =>
        \E x \in rows[a] : \A p \in Phones :
            /\ disk[p]["phone"].id = x => disk[p]["phone"].priv = x
            /\ Reads(p) /\ boot[p].mine.id = x => boot[p].mine.priv = x

InUse(c) == session[c] # 0 /\ who[c] # "nobody" => session[c] \in used[who[c]]

\* A browser's record is whole, and its row is there while no envelope is.
Recorded(c) ==
    c \in Browsers =>
        \A a \in Accounts :
            /\ disk[c][a].priv = disk[c][a].id
            /\ disk[c][a].id # NoDevice /\ ~Sealed(a) => disk[c][a].id \in rows[a]

SaltSealed(c) ==
    \A s \in Slots(c), a \in Accounts :
        disk[c][s].salt # None /\ disk[c][s].id \in rows[a] => Sealed(a)

\* The steps of a device that has no row yet.
Unsent == {"seal", "sealing", "sealed", "put"}

\* A client that writes a device of an account without envelope is its first.
First(c) ==
    Writes(c) /\ ~Sealed(boot[c].account) =>
        /\ used[boot[c].account] = {}
        /\ rows[boot[c].account] \subseteq {boot[c].device}
        /\ boot[c].pc \notin Unsent => boot[c].device \in rows[boot[c].account]

\* What was fetched still holds where it matters.
ReadSound(c) ==
    Reads(c) =>
        /\ boot[c].envelope.pw # 0 => Sealed(boot[c].account)
        /\ ~Sealed(boot[c].account) => boot[c].rows \subseteq rows[boot[c].account]
        /\ boot[c].pc = "decide" /\ boot[c].rows = {} /\ boot[c].envelope.pw = 0 =>
             /\ ~Sealed(boot[c].account)
             /\ rows[boot[c].account] = {} /\ used[boot[c].account] = {}
        /\ c \in Browsers =>
             /\ boot[c].mine.priv = boot[c].mine.id
             /\ boot[c].mine.id # NoDevice /\ ~Sealed(boot[c].account) =>
                  boot[c].mine.id \in rows[boot[c].account]

Unwritten(c) == boot[c].pc \in Unsent => \A s \in Slots(c) : disk[c][s].id # boot[c].device

\* A salt that has been sent is that of an envelope.
SaltKnown(c) ==
    /\ Vouches(c) \/ Writes(c)
    /\ boot[c].pc \notin {"sealing", "resealing"}
    /\ boot[c].salt # None
    => Sealed(boot[c].account)

\* The device on a phone is not another account's than the one it is used for.
OwnSlot(c) ==
    c \in Phones =>
        /\ Vouches(c) => \A a \in Accounts : Of(a, disk[c]["phone"].id) => a = boot[c].account
        /\ session[c] # 0 /\ who[c] # "nobody" =>
             \A a \in Accounts : Of(a, disk[c]["phone"].id) => a = who[c]
        /\ boot[c].pc = "writeKey" => disk[c]["phone"].id \in {boot[c].device, NoDevice}
        /\ boot[c].pc = "writeSalt" =>
             \/ disk[c]["phone"].id = NoDevice
             \/ disk[c]["phone"].id = boot[c].device /\ disk[c]["phone"].priv = boot[c].device

\* An envelope is made with a password, and a missing one with a key in use.
Sealing(c) ==
    /\ boot[c].pc \in {"seal", "sealing", "reseal", "resealing"} => boot[c].secret # 0
    /\ boot[c].pc = "resealing" => boot[c].salt.key \in used[boot[c].account]

Keeper(c) ==
    /\ InUse(c) /\ Recorded(c) /\ SaltSealed(c)
    /\ First(c) /\ ReadSound(c) /\ Unwritten(c)
    /\ SaltKnown(c) /\ OwnSlot(c) /\ Sealing(c)

Identified == Numbered /\ OneAccount /\ OneClient

KeyInv ==
    /\ Identified
    /\ Alone
    /\ \A a \in Accounts : SoleKey(a) /\ Anchored(a)
    /\ \A c \in Clients : Keeper(c)

-----------------------------------------------------------------------------
(* What the steps of one client leave to the others *)

\* The devices of an account and of a client after a step: those there were
\* before, and those made in the step, for its account and by its client.
LEMMA IdentifiedKept ==
  ASSUME Identified, minted \in Nat, minted' \in Nat, minted <= minted',
         NEW c \in Clients, NEW a \in Accounts,
         \A e \in Accounts, d \in Devices : Of(e, d)' => Of(e, d) \/ (e = a
           /\ d.id \in minted + 1 .. minted'),
         \A e \in Clients, d \in Devices : By(e, d)' => By(e, d) \/ (e = c /\ d.id \in minted + 1 .. minted')
  PROVE  Identified'
<1>1. Numbered'
  <2>1. ASSUME NEW e \in Accounts, NEW d \in Devices, Of(e, d)' PROVE d.id \in 1 .. minted'
    <3>1. Of(e, d) => d.id \in 1 .. minted
      BY DEF Identified, Numbered
    <3>2. Of(e, d) \/ d.id \in minted + 1 .. minted'
      BY <2>1
    <3> QED BY <3>1, <3>2
  <2>2. ASSUME NEW e \in Clients, NEW d \in Devices, By(e, d)' PROVE d.id \in 1 .. minted'
    <3>1. By(e, d) => d.id \in 1 .. minted
      BY DEF Identified, Numbered
    <3>2. By(e, d) \/ d.id \in minted + 1 .. minted'
      BY <2>2
    <3> QED BY <3>1, <3>2
  <2> QED BY <2>1, <2>2 DEF Numbered
<1>2. OneAccount'
  <2>1. ASSUME NEW e \in Accounts, NEW f \in Accounts, NEW d \in Devices, Of(e, d)', Of(f, d)' PROVE e = f
    <3>1. /\ Of(e, d) \/ (e = a /\ d.id \in minted + 1 .. minted')
          /\ Of(f, d) \/ (f = a /\ d.id \in minted + 1 .. minted')
      BY <2>1
    <3>2. Of(e, d) \/ Of(f, d) => d.id \in 1 .. minted
      BY DEF Identified, Numbered
    <3>3. Of(e, d) /\ Of(f, d) => e = f
      BY DEF Identified, OneAccount
    <3> QED BY <3>1, <3>2, <3>3
  <2> QED BY <2>1 DEF OneAccount
<1>3. OneClient'
  <2>1. ASSUME NEW e \in Clients, NEW f \in Clients, NEW d \in Devices, By(e, d)', By(f, d)' PROVE e = f
    <3>1. /\ By(e, d) \/ (e = c /\ d.id \in minted + 1 .. minted')
          /\ By(f, d) \/ (f = c /\ d.id \in minted + 1 .. minted')
      BY <2>1
    <3>2. By(e, d) \/ By(f, d) => d.id \in 1 .. minted
      BY DEF Identified, Numbered
    <3>3. By(e, d) /\ By(f, d) => e = f
      BY DEF Identified, OneClient
    <3> QED BY <3>1, <3>2, <3>3
  <2> QED BY <2>1 DEF OneClient
<1> QED BY <1>1, <1>2, <1>3 DEF Identified

\* A client that stays as it is knows and owns what it did.
LEMMA SameHas ==
  ASSUME NEW e \in Clients, Same(e)
  PROVE  /\ \A a, d : Has(e, a, d)' = Has(e, a, d)
         /\ \A d : By(e, d)' = By(e, d)
         /\ \A a, k : Opening(e, a, k)' = Opening(e, a, k)
  BY DEF Same, Has, By, Opening, Writes, Reads

\* The devices after a step of client c, from what c knows and the rows.
LEMMA DevicesAfter ==
  ASSUME NEW c \in Clients, \A e \in Clients : e # c => Same(e)
  PROVE  /\ \A a, d : Of(a, d)' => d \in rows'[a] \/ Has(c, a, d)' \/ Of(a, d)
         /\ \A e \in Clients : \A d : By(e, d)' => By(e, d) \/ (e = c /\ By(c, d)')
         /\ \A e \in Clients : \A a, k : Opening(e, a, k)' => Opening(e, a, k) \/ (e = c /\ Opening(c, a, k)')
  BY SameHas DEF Of

\* What a step of client c does to account a that another client relies on.
Steady(c, a) ==
    /\ Sealed(a) => Sealed(a)'
    /\ used[a] \subseteq used'[a]
    /\ \A x \in Devices : x \in rows[a] /\ x \notin rows'[a] /\ ~Sealed(a)' => By(c, x)
    /\ \A x \in Devices : x \in rows'[a] /\ x \notin rows[a] => By(c, x)

\* An account that another client reads or writes does not get its first key.
Untouched(a) ==
    /\ used'[a] = used[a]
    /\ used[a] = {} /\ ~Sealed(a) => ~Sealed(a)'
    /\ ~Sealed(a)' => rows'[a] = rows[a]

\* Another client loses nothing in a step of client c.
LEMMA OthersKept ==
  ASSUME IInv, IInv', Identified, NEW c \in Clients, NEW e \in Clients, e # c, Same(e), Keeper(e),
         e \in live' => e \in live,
         \A a \in Accounts, d \in Devices : Of(a, d)' => Of(a, d) \/ d.id > minted,
         \A a \in Accounts : Steady(c, a),
         boot[e].pc # "idle" /\ ~Settles(e) => Untouched(boot[e].account)
  PROVE  Keeper(e)'
<1>0. /\ boot[e].pc # "idle" => boot[e].account \in Accounts
      /\ who[e] # "nobody" => who[e] \in Accounts
      /\ \A s \in Slots(e) : disk[e][s].id \in Devices /\ disk'[e][s] = disk[e][s]
      /\ \A a \in Accounts : rows[a] \subseteq Devices /\ rows'[a] \subseteq Devices
      /\ e \in Browsers => \A a \in Accounts : a \in Slots(e)
      /\ e \in Phones => "phone" \in Slots(e)
      /\ minted \in Nat
  <2>1. e \in Browsers => \A a \in Accounts : a \in Slots(e)
    BY SlotIs DEF Slots
  <2>2. e \in Phones => "phone" \in Slots(e)
    BY DEF Slots
  <2>3. boot[e].pc # "idle" => boot[e].account \in Accounts
    BY TaskShape DEF IInv, Typed, TypedTasks
  <2>4. who[e] # "nobody" => who[e] \in Accounts
    BY DEF IInv, Typed, TypedClients
  <2>5. \A s \in Slots(e) : disk[e][s].id \in Devices /\ disk'[e][s] = disk[e][s]
    BY DEF IInv, Typed, TypedDisk, Slot0, Same
  <2>6. \A a \in Accounts : rows[a] \subseteq Devices /\ rows'[a] \subseteq Devices
    BY DEF IInv, Typed, TypedServer
  <2>7. minted \in Nat
    BY KeysAssumption DEF IInv, Typed, TypedServer
  <2> QED BY <2>1, <2>2, <2>3, <2>4, <2>5, <2>6, <2>7
<1>1. \A s \in Slots(e) : disk[e][s].id # NoDevice => By(e, disk[e][s].id) /\ ~By(c, disk[e][s].id)
                                                      /\ disk[e][s].id.id \in 1 .. minted
  BY <1>0 DEF By, Identified, OneClient, Numbered
<1>2. ~By(c, NoDevice)
  BY Constants0 DEF Identified, Numbered, NoDevice
<1>3. \A s \in Slots(e), a \in Accounts : Of(a, disk[e][s].id)' => Of(a, disk[e][s].id)
  <2>1. ASSUME NEW s \in Slots(e), NEW a \in Accounts, Of(a, disk[e][s].id)', ~Of(a, disk[e][s].id)
        PROVE  FALSE
    <3>1. disk[e][s].id.id > minted
      BY <1>0, <2>1
    <3>2. disk[e][s].id = NoDevice
      BY <1>0, <1>1, <3>1
    <3> QED BY <1>0, <3>1, <3>2 DEF NoDevice
  <2> QED BY <2>1
<1>4. InUse(e)' /\ Sealing(e)' /\ Unwritten(e)'
  BY <1>0 DEF Keeper, InUse, Sealing, Unwritten, Same, Steady
<1>5. Recorded(e)'
  BY <1>0, <1>1 DEF Keeper, Recorded, Steady
<1>6. SaltSealed(e)'
  <2>1. ASSUME NEW s \in Slots(e), NEW a \in Accounts, disk[e][s].salt # None, disk[e][s].id \in rows'[a]
        PROVE  Sealed(a)'
    <3>1. disk[e][s].id \in rows[a]
      BY <1>0, <1>1, <1>2, <2>1 DEF Steady
    <3> QED BY <2>1, <3>1 DEF Keeper, SaltSealed, Steady
  <2> QED BY <1>0, <2>1 DEF SaltSealed
<1>7. First(e)'
  <2> SUFFICES ASSUME Writes(e), ~Sealed(boot[e].account)' PROVE First(e)'
    BY DEF First, Same, Writes
  <2>1. PICK a \in Accounts : a = boot[e].account
    BY <1>0 DEF Writes, WriteSteps
  <2>2. Untouched(a) /\ Steady(c, a) /\ boot'[e] = boot[e]
    BY <2>1 DEF Writes, Settles, Same, WriteSteps
  <2>3. ~Sealed(a)' /\ ~Sealed(a)
    BY <2>1, <2>2 DEF Steady, Sealed
  <2>4. rows'[a] = rows[a] /\ used'[a] = used[a]
    BY <2>2, <2>3 DEF Untouched
  <2> QED BY <2>1, <2>2, <2>3, <2>4 DEF Keeper, First
<1>8. ReadSound(e)'
  <2> SUFFICES ASSUME Reads(e) PROVE ReadSound(e)'
    BY DEF ReadSound, Same, Reads
  <2>1. PICK a \in Accounts : a = boot[e].account
    BY <1>0 DEF Reads
  <2>2. Untouched(a) /\ Steady(c, a) /\ boot'[e] = boot[e]
    BY <2>1 DEF Reads, Settles, Same
  <2>3. boot[e].envelope.pw # 0 => Sealed(a)'
    BY <2>1, <2>2 DEF Keeper, ReadSound, Steady
  <2>4. ~Sealed(a)' => boot[e].rows \subseteq rows'[a]
    BY <2>1, <2>2 DEF Keeper, ReadSound, Steady, Untouched
  <2>5. boot[e].pc = "decide" /\ boot[e].rows = {} /\ boot[e].envelope.pw = 0 =>
          ~Sealed(a)' /\ rows'[a] = {} /\ used'[a] = {}
    BY <2>1, <2>2 DEF Keeper, ReadSound, Untouched
  <2>6. e \in Browsers =>
          /\ boot[e].mine.priv = boot[e].mine.id
          /\ boot[e].mine.id # NoDevice /\ ~Sealed(a)' => boot[e].mine.id \in rows'[a]
    BY <2>1, <2>2 DEF Keeper, ReadSound, Steady, Untouched
  <2> QED BY <2>1, <2>2, <2>3, <2>4, <2>5, <2>6 DEF ReadSound, Sealed
<1>9. SaltKnown(e)'
  <2> SUFFICES ASSUME Vouches(e) \/ Writes(e), boot[e].salt # None,
                      boot[e].pc \notin {"sealing", "resealing"}
               PROVE  SaltKnown(e)'
    BY DEF SaltKnown, Same, Writes, Vouches
  <2>1. PICK a \in Accounts : a = boot[e].account
    BY <1>0 DEF Writes, Vouches, VouchSteps, WriteSteps
  <2>2. Sealed(a)' /\ boot'[e] = boot[e]
    BY <2>1 DEF Keeper, SaltKnown, Steady, Same
  <2> QED BY <2>1, <2>2 DEF SaltKnown, Sealed
<1>10. OwnSlot(e)'
  BY <1>0, <1>3 DEF Keeper, OwnSlot, Same, Vouches
<1> QED BY <1>4, <1>5, <1>6, <1>7, <1>8, <1>9, <1>10 DEF Keeper

\* The keys of an account after a step of client c, when those that c brings
\* there were the account's before.
LEMMA KeysAfter ==
  ASSUME NEW c \in Clients, \A e \in Clients : e # c => Same(e), NEW a \in Accounts, SoleKey(a),
         \A d \in Devices : d \in rows'[a] \/ Has(c, a, d)' => KeyOf(a, d.key),
         \A k \in used'[a] : KeyOf(a, k),
         Sealed(a)' => KeyOf(a, envelope'[a].salt.key),
         \A k \in Numbers : Opening(c, a, k)' => KeyOf(a, k)
  PROVE  SoleKey(a)'
<1>1. ASSUME NEW k \in Numbers, KeyOf(a, k)' PROVE KeyOf(a, k)
  <2>1. CASE \E d \in Devices : Of(a, d)' /\ d.key = k
    <3>1. PICK d \in Devices : Of(a, d)' /\ d.key = k
      BY <2>1
    <3>2. d \in rows'[a] \/ Has(c, a, d)' \/ Of(a, d)
      BY <3>1, DevicesAfter
    <3> QED BY <3>1, <3>2 DEF KeyOf
  <2>2. CASE k \in used'[a]
    BY <2>2
  <2>3. CASE Sealed(a)' /\ envelope'[a].salt.key = k
    BY <2>3
  <2>4. CASE \E e \in Clients : Opening(e, a, k)'
    <3>1. PICK e \in Clients : Opening(e, a, k)'
      BY <2>4
    <3>2. Opening(e, a, k) \/ Opening(c, a, k)'
      BY <3>1, DevicesAfter
    <3> QED BY <3>1, <3>2 DEF KeyOf
  <2> QED BY <1>1, <2>1, <2>2, <2>3, <2>4 DEF KeyOf
<1> QED BY <1>1 DEF SoleKey

\* Bootstraps do not come to run side by side.
LEMMA AloneKept ==
  ASSUME Alone, NEW c \in Clients, \A e \in Clients : e # c => Same(e),
         \/ boot'[c].pc = "idle"
         \/ /\ boot[c].pc # "idle" /\ boot'[c].account = boot[c].account
            /\ Settles(c) => Settles(c)'
         \/ Settles(c)'
         \/ \A e \in Clients : e # c /\ boot[e].pc # "idle" => boot[e].account # boot'[c].account
  PROVE  Alone'
<1> SUFFICES ASSUME NEW f \in Clients, NEW e \in Clients, f # e, boot'[f].pc # "idle", boot'[e].pc # "idle",
                    boot'[f].account = boot'[e].account
             PROVE  Settles(f)' \/ Settles(e)'
  BY DEF Alone
<1>1. \A x \in Clients : x # c => boot'[x] = boot[x] /\ Settles(x)' = Settles(x)
  BY DEF Same, Settles
<1> QED BY <1>1 DEF Alone

\* A bootstrap that brings nothing new.
Idler(c) ==
    \/ boot'[c].pc \in {"idle", "fetch"}
    \/ /\ \/ boot'[c].pc = boot[c].pc
          \/ boot[c].pc = "decide" /\ boot'[c].pc = "reput"
          \/ boot[c].pc \in {"resolve", "ending"} /\ boot'[c].pc \in {"resolve", "reseal"}
          \/ boot[c].pc = "reseal" /\ boot'[c].pc = "resealing"
          \/ boot[c].pc = "seal" /\ boot'[c].pc = "sealing"
       /\ boot'[c].account = boot[c].account
       /\ Writes(c) => boot'[c].device = boot[c].device
       /\ Writes(c) => boot'[c].salt = boot[c].salt \/ boot'[c].pc = "sealing"
       /\ Reads(c) => /\ boot'[c].rows = boot[c].rows /\ boot'[c].envelope = boot[c].envelope
                      /\ boot'[c].mine = boot[c].mine
       /\ Vouches(c) => boot'[c].salt = boot[c].salt \/ boot'[c].pc = "resealing"

\* A device that stays on the disk with its key, or leaves it.
Fading(c) ==
    \A s \in Slots(c) :
        \/ disk'[c][s].id = disk[c][s].id /\ disk'[c][s].priv = disk[c][s].priv
        \/ disk'[c][s].id = NoDevice /\ disk'[c][s].priv = NoDevice

\* Such a bootstrap brings no device and opens nothing new.
LEMMA IdlerHas ==
  ASSUME NEW c \in Clients, Idler(c), Fading(c)
  PROVE  /\ \A a \in Accounts, d \in Devices : Has(c, a, d)' => Has(c, a, d)
         /\ \A d : By(c, d)' => By(c, d)
         /\ \A a, k : Opening(c, a, k)' => Opening(c, a, k)
<1>1. c \in Browsers => \A a \in Accounts : a \in Slots(c)
  BY SlotIs DEF Slots
<1>2. \A a \in Accounts, d \in Devices : Has(c, a, d)' => Has(c, a, d)
  BY <1>1 DEF Idler, Fading, Has, Writes, Reads, WriteSteps
<1>3. \A d : By(c, d)' => By(c, d)
  BY DEF Idler, Fading, By, Writes, Reads, WriteSteps
<1>4. \A a, k : Opening(c, a, k)' => Opening(c, a, k)
  BY DEF Idler, Opening, Reads
<1> QED BY <1>2, <1>3, <1>4

\* The row that an account without envelope keeps stays the one it keeps.
LEMMA AnchoredKept ==
  ASSUME Identified, NEW c \in Clients, \A e \in Clients : e # c => Same(e), NEW a \in Accounts, Anchored(a),
         rows[a] \subseteq Devices, Sealed(a) => Sealed(a)', used'[a] = used[a],
         \A x \in rows[a] :
           x \in rows'[a] \/ (c \in Phones /\ Reads(c) /\ boot[c].mine.id = x /\ boot[c].mine.priv # x),
         Fading(c), Reads(c)' => (Reads(c) /\ boot'[c].mine = boot[c].mine) \/ boot'[c].mine = Stored(c, a)
  PROVE  Anchored(a)'
<1> SUFFICES ASSUME used'[a] # {}, ~Sealed(a)' PROVE Anchored(a)'
  BY DEF Anchored
<1>1. PICK x \in rows[a] : \A p \in Phones :
        /\ disk[p]["phone"].id = x => disk[p]["phone"].priv = x
        /\ Reads(p) /\ boot[p].mine.id = x => boot[p].mine.priv = x
  BY DEF Anchored
<1>2. x # NoDevice /\ x \in rows'[a]
  <2>1. x # NoDevice
    BY DEF Identified, Numbered, Of, NoDevice
  <2> QED BY <1>1, <2>1
<1>3. ASSUME NEW p \in Phones
      PROVE  /\ disk'[p]["phone"].id = x => disk'[p]["phone"].priv = x
             /\ Reads(p)' /\ boot'[p].mine.id = x => boot'[p].mine.priv = x
  <2>1. CASE p # c
    BY <1>1, <2>1 DEF Same, Clients, Reads
  <2>2. CASE p = c
    <3>1. "phone" \in Slots(c) /\ Stored(c, a) = disk[c]["phone"]
      BY <2>2 DEF Slots, Stored, Slot
    <3> QED BY <1>1, <1>2, <2>2, <3>1 DEF Fading
  <2> QED BY <2>1, <2>2
<1> QED BY <1>2, <1>3 DEF Anchored

\* A step that changes nothing but a client's session and how it leaves, and
\* what it forgets.
LEMMA CalmKept ==
  ASSUME IInv, IInv', KeyInv, NEW c \in Clients, \A e \in Clients : e # c => Same(e),
         \A e \in Clients : e # c /\ e \in live' => e \in live,
         UNCHANGED <<envelope, rows, used>>, minted <= minted', Fading(c), Idler(c), Alone',
         session'[c] # 0 /\ who'[c] # "nobody" => session'[c] = session[c] /\ who'[c] = who[c],
         SaltSealed(c)', Sealing(c)'
  PROVE  KeyInv'
<1>0. minted \in Nat /\ minted' \in Nat
  BY KeysAssumption DEF IInv, Typed, TypedServer
<1>1. /\ \A a \in Accounts, d \in Devices : Of(a, d)' => Of(a, d)
      /\ \A e \in Clients, d \in Devices : By(e, d)' => By(e, d)
  <2>1. ASSUME NEW a \in Accounts, NEW d \in Devices, Of(a, d)' PROVE Of(a, d)
    <3>1. d \in rows'[a] \/ Has(c, a, d)' \/ Of(a, d)
      BY <2>1, DevicesAfter
    <3>2. Has(c, a, d)' => Has(c, a, d)
      BY IdlerHas
    <3> QED BY <3>1, <3>2 DEF Of
  <2>2. ASSUME NEW e \in Clients, NEW d \in Devices, By(e, d)' PROVE By(e, d)
    <3>1. By(e, d) \/ (e = c /\ By(c, d)')
      BY <2>2, DevicesAfter
    <3>2. By(c, d)' => By(c, d)
      BY IdlerHas
    <3> QED BY <3>1, <3>2
  <2> QED BY <2>1, <2>2
<1>2. Identified'
  <2>1. ASSUME NEW a \in Accounts PROVE Identified'
    BY <1>0, <1>1, IdentifiedKept DEF KeyInv
  <2>2. ASSUME Accounts = {} PROVE Identified'
    BY <1>0, <1>1, <2>2 DEF KeyInv, Identified, Numbered, OneAccount, OneClient
  <2> QED BY <2>1, <2>2
<1>3. ASSUME NEW a \in Accounts PROVE SoleKey(a)' /\ Anchored(a)'
  <2>1. SoleKey(a) /\ Anchored(a) /\ Identified
    BY DEF KeyInv
  <2>2. \A d \in Devices : d \in rows'[a] \/ Has(c, a, d)' => KeyOf(a, d.key)
    BY IdlerHas DEF KeyOf, Of
  <2>3. \A k \in used'[a] : KeyOf(a, k)
    BY DEF KeyOf
  <2>4. Sealed(a)' => KeyOf(a, envelope'[a].salt.key)
    BY DEF KeyOf, Sealed
  <2>5. \A k \in Numbers : Opening(c, a, k)' => KeyOf(a, k)
    BY IdlerHas DEF KeyOf
  <2>6. SoleKey(a)'
    BY <2>1, <2>2, <2>3, <2>4, <2>5, KeysAfter
  <2>7. rows[a] \subseteq Devices /\ Sealed(a)' = Sealed(a)
    BY DEF IInv, Typed, TypedServer, Sealed
  <2>8. Reads(c)' => Reads(c) /\ boot'[c].mine = boot[c].mine
    BY DEF Idler, Reads
  <2>9. Anchored(a)'
    BY <2>1, <2>7, <2>8, AnchoredKept
  <2> QED BY <2>6, <2>9
<1>4. ASSUME NEW e \in Clients, e # c PROVE Keeper(e)'
  <2>1. Keeper(e) /\ Identified /\ Same(e)
    BY <1>4 DEF KeyInv
  <2>2. \A a \in Accounts : Steady(c, a) /\ Untouched(a)
    BY DEF Steady, Untouched, Sealed
  <2>3. boot[e].pc # "idle" => boot[e].account \in Accounts
    BY TaskShape DEF IInv, Typed, TypedTasks
  <2>4. \A a \in Accounts, d \in Devices : Of(a, d)' => Of(a, d) \/ d.id > minted
    BY <1>1
  <2> QED BY <1>4, <2>1, <2>2, <2>3, <2>4, OthersKept
<1>5. Keeper(c)'
  <2>0. Keeper(c) /\ Identified
    BY DEF KeyInv
  <2>1. InUse(c)' /\ SaltSealed(c)'
    BY <2>0 DEF Keeper, InUse
  <2>2. Recorded(c)'
    <3>1. c \in Browsers => Slots(c) = Accounts
      BY KeysAssumption DEF Slots
    <3> QED BY <2>0, <3>1 DEF Keeper, Recorded, Sealed, Fading
  <2>3. Unwritten(c)'
    <3>1. Writes(c) => boot[c].device # NoDevice
      <4>1. Writes(c) => boot[c].device \in Devices /\ By(c, boot[c].device)
        BY TaskShape DEF IInv, Typed, TypedTasks, By, Writes
      <4> QED BY <2>0, <4>1 DEF Identified, Numbered, NoDevice
    <3> QED BY <2>0, <3>1 DEF Keeper, Unwritten, Fading, Idler, Writes, Unsent, WriteSteps
  <2>4. First(c)'
    BY <2>0 DEF Keeper, First, Sealed, Idler, Writes, Unsent, WriteSteps
  <2>6. ReadSound(c)'
    BY <2>0 DEF Keeper, ReadSound, Sealed, Idler, Reads
  <2>7. SaltKnown(c)'
    BY <2>0 DEF Keeper, SaltKnown, Sealed, Idler, Writes, Vouches, VouchSteps, WriteSteps
  <2>5. OwnSlot(c)'
    <3> SUFFICES ASSUME c \in Phones PROVE OwnSlot(c)'
      BY DEF OwnSlot
    <3>1. disk[c]["phone"].id \in Devices /\ "phone" \in Slots(c)
      BY DEF IInv, Typed, TypedDisk, Slots, Slot0
    <3>2. \A a \in Accounts : Of(a, disk[c]["phone"].id)' => Of(a, disk[c]["phone"].id)
      <4>1. NoDevice \in Devices /\ \A a \in Accounts : ~Of(a, NoDevice)
        BY <2>0, Constants0 DEF Identified, Numbered, NoDevice
      <4> QED BY <1>1, <3>1, <4>1 DEF Fading
    <3>3. OwnSlot(c)
      BY <2>0 DEF Keeper
    <3>4. Vouches(c)' => \A a \in Accounts : Of(a, disk[c]["phone"].id)' => a = boot'[c].account
      BY <3>2, <3>3 DEF OwnSlot, Idler, Vouches, VouchSteps
    <3>5. session'[c] # 0 /\ who'[c] # "nobody" =>
            \A a \in Accounts : Of(a, disk[c]["phone"].id)' => a = who'[c]
      BY <3>2, <3>3 DEF OwnSlot
    <3>6. boot'[c].pc \in {"writeKey", "writeSalt"} =>
            boot'[c].pc = boot[c].pc /\ boot'[c].device = boot[c].device
      BY DEF Idler, Writes, WriteSteps
    <3> QED BY <3>1, <3>3, <3>4, <3>5, <3>6 DEF OwnSlot, Fading
  <2> QED BY <2>0, <2>1, <2>2, <2>3, <2>4, <2>5, <2>6, <2>7 DEF Keeper
<1> QED BY <1>2, <1>3, <1>4, <1>5 DEF KeyInv

-----------------------------------------------------------------------------
(* Steps that bring no device and no key *)

\* The counter of what was made does not fall when it stays as it is.
LEMMA MintedStays ==
  ASSUME IInv, minted' = minted
  PROVE  minted <= minted'
  BY KeysAssumption DEF IInv, Typed, TypedServer

\* Clearing the memory makes a bootstrap stale and nothing else.
LEMMA ClearsIdler ==
  ASSUME Typed, NEW c \in Clients, ClearMemory(c)
  PROVE  /\ Idler(c) /\ boot'[c].pc = boot[c].pc
         /\ boot[c].pc # "idle" => boot'[c].account = boot[c].account
         /\ Settles(c) => Settles(c)'
         /\ Vouches(c) \/ Writes(c) => boot'[c].salt = boot[c].salt /\ boot'[c].secret = boot[c].secret
         /\ session'[c] = 0 /\ password'[c] = 0
         /\ \A e \in Clients : e # c =>
              session'[e] = session[e] /\ password'[e] = password[e] /\ boot'[e] = boot[e]
<1>1. /\ session'[c] = 0 /\ password'[c] = 0
      /\ \A e \in Clients : e # c =>
           session'[e] = session[e] /\ password'[e] = password[e] /\ boot'[e] = boot[e]
  BY Clears
<1>2. CASE boot[c].pc = "idle"
  <2>1. boot'[c].pc = "idle"
    BY <1>2, Clears
  <2> QED BY <1>1, <1>2, <2>1 DEF Idler, Settles, Vouches, Writes, VouchSteps, WriteSteps
<1>3. CASE boot[c].pc # "idle"
  <2>1. boot[c] \in Tasks /\ boot'[c] = [boot[c] EXCEPT !.stale = TRUE]
    BY <1>3 DEF ClearMemory, Typed, TypedTasks
  <2>2. boot'[c].pc = boot[c].pc /\ boot'[c].account = boot[c].account
    BY <1>3, Clears
  <2>3. Writes(c) => boot'[c].device = boot[c].device /\ boot'[c].salt = boot[c].salt
                     /\ boot'[c].secret = boot[c].secret
    BY Clears DEF Writes
  <2>4. Reads(c) => /\ boot'[c].rows = boot[c].rows /\ boot'[c].envelope = boot[c].envelope
                    /\ boot'[c].mine = boot[c].mine
    BY Clears DEF Reads
  <2>5. Vouches(c) => boot'[c].salt = boot[c].salt /\ boot'[c].secret = boot[c].secret
    BY Clears DEF Vouches
  <2>6. Settles(c) => Settles(c)'
    BY <2>2, <2>5 DEF Settles, Vouches, VouchSteps
  <2> QED BY <1>1, <2>2, <2>3, <2>4, <2>5, <2>6 DEF Idler
<1> QED BY <1>2, <1>3

\* No other client of the account is starting.
LEMMA SignInKey ==
  ASSUME IInv, IInv', KeyInv, ~May("race"), NEW c \in Clients, NEW a \in Accounts, SignIn(c, a)
  PROVE  KeyInv'
<1>1. Typed /\ Client(c) /\ Keeper(c) /\ Alone
  BY DEF IInv, KeyInv
<1>2. /\ who'[c] = a /\ a # "nobody"
      /\ boot'[c] = [pc |-> "fetch", account |-> a, stale |-> FALSE]
      /\ \/ who[c] = "nobody" /\ boot[c].pc = "idle" /\ (leave[c].pc = "idle" \/ Wiping(c))
         \/ leave[c].pc = "unseen"
      /\ UNCHANGED <<scenario, pw, envelope, rows, disk, session, used, minted>>
      /\ live' = live \cup {c}
  BY <1>1, KeysAssumption DEF SignIn, Started, Typed, TypedTasks, TypedClients
<1>3. \A e \in Clients : e # c => Same(e)
  BY DEF Same, SignIn, Started
<1>4. session[c] = 0
  BY <1>1, <1>2 DEF Client, SignedOut, Wiping
<1>5. \A e \in Clients : e # c /\ boot[e].pc # "idle" => boot[e].account # boot'[c].account
  BY <1>2 DEF SignIn, OthersStarted
<1>6. Alone'
  BY <1>1, <1>3, <1>5, AloneKept
<1>7. Sealing(c)' /\ Idler(c) /\ Fading(c) /\ SaltSealed(c)'
  BY <1>1, <1>2 DEF Keeper, Sealing, Idler, Fading, SaltSealed, Sealed
<1> QED BY <1>2, <1>3, <1>4, <1>6, <1>7, MintedStays, CalmKept

\* A client that starts again starts alone.
LEMMA RestartKey ==
  ASSUME IInv, IInv', KeyInv, ~May("race"), NEW c \in Clients, Restart(c)
  PROVE  KeyInv'
<1>1. Typed /\ Client(c) /\ Keeper(c) /\ Alone
  BY DEF IInv, KeyInv
<1>2. /\ session'[c] = 0
      /\ \/ boot'[c] = Idle
         \/ /\ who[c] # "nobody" /\ OthersStarted(c, who[c])
            /\ boot'[c] = [pc |-> "fetch", account |-> who[c], stale |-> FALSE]
      /\ UNCHANGED <<scenario, pw, envelope, rows, live, who, disk, used, minted>>
  BY <1>1 DEF Restart, Started, Typed, TypedTasks, TypedClients, server
<1>3. \A e \in Clients : e # c => Same(e)
  <2>1. \A e \in Clients : e # c => boot'[e] = boot[e] /\ leave'[e] = leave[e]
    BY <1>1 DEF Restart, Started, Typed, TypedTasks
  <2>2. \A e \in Clients : e # c => session'[e] = session[e] /\ password'[e] = password[e]
    BY <1>1 DEF Restart, Typed, TypedClients
  <2> QED BY <1>2, <2>1, <2>2 DEF Same
<1>5. boot'[c].pc = "idle" \/ \A e \in Clients : e # c /\ boot[e].pc # "idle"
        => boot[e].account # boot'[c].account
  BY <1>2, Constants0 DEF OthersStarted
<1>6. Alone'
  BY <1>1, <1>3, <1>5, AloneKept
<1>7. Sealing(c)' /\ Idler(c) /\ Fading(c) /\ SaltSealed(c)'
  BY <1>1, <1>2, Constants0 DEF Keeper, Sealing, Idler, Fading, SaltSealed, Sealed
<1> QED BY <1>2, <1>3, <1>6, <1>7, MintedStays, CalmKept

\* A bootstrap that ends takes nothing with it.
LEMMA DoneKey ==
  ASSUME IInv, IInv', KeyInv, NEW c \in Clients, Fails(c) \/ GiveUp(c)
  PROVE  KeyInv'
<1>1. Typed /\ Keeper(c) /\ Alone
  BY DEF IInv, KeyInv
<1>2. /\ boot'[c] = Idle /\ \A e \in Clients : e # c => boot'[e] = boot[e]
      /\ UNCHANGED <<scenario, pw, envelope, rows, live, who, password, session, disk, leave, used, minted>>
  BY <1>1 DEF Fails, GiveUp, Done, GoTo, Typed, TypedTasks, server, memory
<1>3. \A e \in Clients : e # c => Same(e)
  BY <1>2 DEF Same
<1>6. Alone'
  BY <1>1, <1>2, <1>3, AloneKept, Constants0
<1>7. Sealing(c)' /\ Idler(c) /\ Fading(c) /\ SaltSealed(c)'
  BY <1>1, <1>2, Constants0 DEF Keeper, Sealing, Idler, Fading, SaltSealed, Sealed
<1> QED BY <1>2, <1>3, <1>6, <1>7, MintedStays, CalmKept

\* A sign-out begins, or the cookie goes.
LEMMA SignOutKey ==
  ASSUME IInv, IInv', KeyInv, NEW c \in Clients, SignOut(c) \/ ServerSignOut(c)
  PROVE  KeyInv'
<1>1. Typed /\ Keeper(c) /\ Alone
  BY DEF IInv, KeyInv
<1>2. /\ UNCHANGED <<scenario, pw, envelope, rows, password, session, disk, boot, used, minted>>
      /\ live' \subseteq live /\ who'[c] \in {who[c], "nobody"}
      /\ \A e \in Clients : e # c => leave'[e] = leave[e] /\ who'[e] = who[e]
  BY <1>1 DEF SignOut, ServerSignOut, Leaving, Typed, TypedTasks, TypedClients, server, memory
<1>3. \A e \in Clients : e # c => Same(e)
  BY <1>2 DEF Same
<1>6. Alone'
  BY <1>1, <1>2 DEF Alone, Settles
<1>7. Sealing(c)' /\ Idler(c) /\ Fading(c) /\ SaltSealed(c)'
  BY <1>1, <1>2 DEF Keeper, Sealing, Idler, Fading, SaltSealed, Sealed
<1> QED BY <1>2, <1>3, <1>6, <1>7, MintedStays, CalmKept

\* A session that ends clears the memory.
LEMMA SessionEndedKey ==
  ASSUME IInv, IInv', KeyInv, NEW c \in Clients, SessionEnded(c)
  PROVE  KeyInv'
<1>1. Typed /\ Keeper(c) /\ Alone
  BY DEF IInv, KeyInv
<1>2. /\ UNCHANGED <<scenario, pw, envelope, rows, live, disk, used, minted>>
      /\ \A e \in Clients : e # c => leave'[e] = leave[e] /\ who'[e] = who[e]
      /\ who'[c] = "nobody" /\ c \notin live /\ ClearMemory(c)
  BY <1>1 DEF SessionEnded, Leaving, Typed, TypedTasks, TypedClients, server
<1>3. /\ Idler(c) /\ boot'[c].pc = boot[c].pc /\ (boot[c].pc # "idle" => boot'[c].account = boot[c].account)
      /\ Settles(c) => Settles(c)'
      /\ \A e \in Clients : e # c =>
           session'[e] = session[e] /\ password'[e] = password[e] /\ boot'[e] = boot[e]
  BY <1>1, <1>2, ClearsIdler
<1>4. \A e \in Clients : e # c => Same(e)
  BY <1>2, <1>3 DEF Same
<1>6. Alone'
  BY <1>1, <1>3, <1>4, AloneKept
<1>7. Sealing(c)' /\ Fading(c) /\ SaltSealed(c)'
  BY <1>1, <1>2, <1>3, ClearsIdler DEF Keeper, Sealing, Fading, SaltSealed, Sealed, Vouches, Writes,
     VouchSteps, WriteSteps
<1> QED BY <1>2, <1>3, <1>4, <1>6, <1>7, MintedStays, CalmKept

\* A wipe begins, with or without the memory.
LEMMA CheckSaltKey ==
  ASSUME IInv, IInv', KeyInv, NEW c \in Clients, CheckSalt(c)
  PROVE  KeyInv'
<1>1. Typed /\ Client(c) /\ Keeper(c) /\ Alone
  BY DEF IInv, KeyInv
<1>2. /\ UNCHANGED <<scenario, pw, envelope, rows, live, who, disk, used, minted>>
      /\ \A e \in Clients : e # c => leave'[e] = leave[e]
      /\ leave'[c].pc \in {"idle", "forget"}
      /\ leave'[c].pc = "forget" => leave'[c].ended = leave[c].ended
      /\ leave[c].pc = "check"
  BY <1>1, Constants0 DEF CheckSalt, Leaving, Typed, TypedTasks, server
<1>3. Fading(c) /\ SaltSealed(c)'
  BY <1>1, <1>2 DEF Keeper, Fading, SaltSealed, Sealed
<1>4. CASE ClearMemory(c) /\ ~leave[c].ended
  <2>1. /\ Idler(c) /\ boot'[c].pc = boot[c].pc /\ (boot[c].pc # "idle" => boot'[c].account = boot[c].account)
        /\ Settles(c) => Settles(c)'
        /\ \A e \in Clients : e # c =>
             session'[e] = session[e] /\ password'[e] = password[e] /\ boot'[e] = boot[e]
        /\ session'[c] = 0
    BY <1>1, <1>4, ClearsIdler
  <2>2. \A e \in Clients : e # c => Same(e)
    BY <1>2, <2>1 DEF Same
  <2>3. Alone'
    BY <1>1, <2>1, <2>2, AloneKept
  <2>4. Sealing(c)'
    BY <1>1, <1>2, <1>4, <2>1, ClearsIdler DEF Keeper, Sealing, Vouches, Writes, VouchSteps, WriteSteps
  <2> QED BY <1>2, <1>3, <2>1, <2>2, <2>3, <2>4, MintedStays, CalmKept
<1>5. CASE UNCHANGED <<memory, boot>>
  <2>1. \A e \in Clients : e # c => Same(e)
    BY <1>2, <1>5 DEF Same, memory
  <2>2. Alone' /\ Idler(c) /\ Sealing(c)'
    BY <1>1, <1>2, <1>5 DEF Alone, Settles, Idler, Keeper, Sealing, memory
  <2> QED BY <1>2, <1>3, <1>5, <2>1, <2>2, MintedStays, CalmKept DEF memory
<1> QED BY <1>4, <1>5 DEF CheckSalt

\* A browser is about to upload its row again.
LEMMA ReuploadKey ==
  ASSUME IInv, IInv', KeyInv, NEW c \in Clients, Reupload(c)
  PROVE  KeyInv'
<1>1. Typed /\ Keeper(c) /\ Alone
  BY DEF IInv, KeyInv
<1>2. /\ UNCHANGED <<scenario, pw, envelope, rows, live, who, password, session, disk, leave, used, minted>>
      /\ boot[c].pc = "decide" /\ boot[c] \in Deciding
      /\ boot'[c] = [boot[c] EXCEPT !.pc = "reput"]
      /\ \A e \in Clients : e # c => boot'[e] = boot[e]
  BY <1>1, TaskShape DEF Reupload, GoTo, Typed, TypedTasks, server, memory
<1>3. \A e \in Clients : e # c => Same(e)
  BY <1>2 DEF Same
<1>4. /\ boot'[c].pc = "reput" /\ boot'[c].account = boot[c].account /\ boot'[c].rows = boot[c].rows
      /\ boot'[c].envelope = boot[c].envelope /\ boot'[c].mine = boot[c].mine
  BY <1>2, DecidingOn
<1>5. Idler(c) /\ ~Settles(c)
  BY <1>2, <1>4 DEF Idler, Writes, Vouches, Settles
<1>6. Alone'
  BY <1>1, <1>2, <1>3, <1>4, <1>5, AloneKept
<1>7. Sealing(c)' /\ Fading(c) /\ SaltSealed(c)'
  BY <1>1, <1>2, <1>4 DEF Keeper, Sealing, Fading, SaltSealed, Sealed
<1> QED BY <1>2, <1>3, <1>5, <1>6, <1>7, MintedStays, CalmKept

\* The salt is all that is written to the disk.
LEMMA ResolveSlots ==
  ASSUME Typed, NEW c \in Clients, Resolve(c)
  PROVE  /\ \A e \in Clients : e # c => disk'[e] = disk[e]
         /\ \A s \in Slots(c) :
              /\ disk'[c][s].id = disk[c][s].id /\ disk'[c][s].priv = disk[c][s].priv
              /\ \/ disk'[c][s].salt = disk[c][s].salt
                 \/ s = Slot(c, boot[c].account) /\ disk'[c][s].salt = boot[c].salt
<1>1. boot[c] \in Vouching /\ boot[c].account \in Accounts
  BY TaskShape DEF Resolve, Typed, TypedTasks, VouchSteps
<1>2. PICK s \in Slots(c) : s = Slot(c, boot[c].account)
  BY <1>1, SlotIs
<1>3. PICK d \in Slot0 : d = disk[c][s]
  BY DEF Typed, TypedDisk
<1>4. PICK t \in Salts : t \in {d.salt, boot[c].salt} /\ disk' = [disk EXCEPT ![c][s].salt = t]
  BY <1>1, <1>2, <1>3 DEF Resolve, Stored, Slot0, Vouching
<1>5. LET n == [d EXCEPT !.salt = t] IN n.id = d.id /\ n.priv = d.priv /\ n.salt = t
  BY SlotSalted
<1>6. disk'[c][s] = [d EXCEPT !.salt = t] /\ \A x \in Slots(c) : x # s => disk'[c][x] = disk[c][x]
  BY <1>3, <1>4 DEF Typed, TypedDisk
<1>7. \A e \in Clients : e # c => disk'[e] = disk[e]
  BY <1>1, <1>4 DEF Typed, TypedDisk
<1> QED BY <1>2, <1>3, <1>4, <1>5, <1>6, <1>7

\* The salt is put beside the device of the account it was resolved for.
LEMMA ResolveKey ==
  ASSUME IInv, IInv', KeyInv, NEW c \in Clients, Resolve(c)
  PROVE  KeyInv'
<1>1. Typed /\ Keeper(c) /\ Alone /\ Identified
  BY DEF IInv, KeyInv
<1>2. /\ UNCHANGED <<scenario, pw, envelope, rows, live, who, password, session, leave, used, minted>>
      /\ boot[c].pc = "resolve" /\ boot[c] \in Vouching /\ boot[c].account \in Accounts
      /\ boot'[c] = IF boot[c].secret # 0 THEN [boot[c] EXCEPT !.pc = "reseal"] ELSE Idle
      /\ \A e \in Clients : e # c => boot'[e] = boot[e]
  BY <1>1, TaskShape DEF Resolve, GoTo, Typed, TypedTasks, server, memory, VouchSteps
<1>3. /\ \A e \in Clients : e # c => disk'[e] = disk[e]
      /\ \A s \in Slots(c) :
           /\ disk'[c][s].id = disk[c][s].id /\ disk'[c][s].priv = disk[c][s].priv
           /\ \/ disk'[c][s].salt = disk[c][s].salt
              \/ s = Slot(c, boot[c].account) /\ disk'[c][s].salt = boot[c].salt
  BY <1>1, ResolveSlots
<1>4. \A e \in Clients : e # c => Same(e)
  BY <1>2, <1>3 DEF Same, Resolve, memory
<1>5. /\ boot'[c].pc \in {"idle", "reseal"}
      /\ boot'[c].pc = "reseal" => boot[c].secret # 0 /\ boot'[c].account = boot[c].account
           /\ boot'[c].salt = boot[c].salt /\ boot'[c].secret = boot[c].secret
  <2>1. PICK p \in VouchSteps : p = "reseal"
    BY DEF VouchSteps
  <2> QED BY <1>2, <2>1, VouchingOn, Constants0
<1>6. Idler(c) /\ Alone'
  <2>1. Idler(c)
    BY <1>2, <1>5 DEF Idler, Writes, Reads
  <2>2. boot'[c].pc = "idle" \/ ~Settles(c)
    BY <1>5 DEF Settles
  <2> QED BY <1>1, <1>2, <1>4, <1>5, <2>1, <2>2, AloneKept
<1>7. SaltSealed(c)'
  <2>1. ASSUME NEW s \in Slots(c), NEW a \in Accounts, disk'[c][s].salt # None, disk[c][s].id \in rows[a]
        PROVE  Sealed(a)
    <3>1. CASE disk'[c][s].salt = disk[c][s].salt
      BY <1>1, <2>1, <3>1 DEF Keeper, SaltSealed
    <3>2. CASE s = Slot(c, boot[c].account) /\ disk'[c][s].salt = boot[c].salt
      <4>1. Sealed(boot[c].account)
        BY <1>1, <1>2, <2>1, <3>2 DEF Keeper, SaltKnown, Vouches, VouchSteps
      <4>2. Of(a, disk[c][s].id) /\ disk[c][s].id \in Devices
        BY <1>1, <2>1 DEF Of, Typed, TypedDisk, Slot0
      <4>3. CASE c \in Phones
        BY <1>1, <1>2, <3>2, <4>1, <4>2, <4>3, SlotIs DEF Keeper, OwnSlot, Vouches, VouchSteps
      <4>4. CASE c \in Browsers
        <5>1. s = boot[c].account
          BY <3>2, <4>4, KeysAssumption DEF Slot
        <5>2. disk[c][s].id # NoDevice
          BY <1>1, <4>2 DEF Identified, Numbered, NoDevice
        <5>3. Of(boot[c].account, disk[c][s].id)
          BY <4>4, <5>1, <5>2 DEF Of, Has
        <5> QED BY <1>1, <1>2, <4>1, <4>2, <5>3 DEF Identified, OneAccount
      <4> QED BY <4>3, <4>4 DEF Clients
    <3> QED BY <1>3, <3>1, <3>2
  <2> QED BY <1>2, <1>3, <2>1 DEF SaltSealed, Sealed
<1>8. Sealing(c)' /\ Fading(c)
  BY <1>1, <1>2, <1>3, <1>5 DEF Keeper, Sealing, Fading
<1> QED BY <1>2, <1>4, <1>6, <1>7, <1>8, MintedStays, CalmKept

\* A step of a wipe takes devices from the disk and changes no account.
LEMMA WipeKey ==
  ASSUME IInv, IInv', KeyInv, NEW c \in Clients, Thinner(c), \A e \in Clients : e # c => disk'[e] = disk[e],
         UNCHANGED <<pw, envelope, rows, live, who, used, minted>>,
         ClearMemory(c) \/ UNCHANGED <<memory, boot>>,
         \A e \in Clients : e # c => leave'[e] = leave[e]
  PROVE  KeyInv'
<1>1. Typed /\ Client(c) /\ Keeper(c) /\ Alone /\ Identified
  BY DEF IInv, KeyInv
<1>2. Fading(c)
  BY <1>1 DEF Thinner, Fading, Keeper
<1>3. SaltSealed(c)'
  <2>1. \A a \in Accounts : NoDevice \notin rows[a]
    BY <1>1, Constants0 DEF Identified, Numbered, Of, NoDevice
  <2> QED BY <1>1, <2>1 DEF Keeper, SaltSealed, Thinner, Sealed
<1>4. CASE ClearMemory(c)
  <2>1. /\ Idler(c) /\ boot'[c].pc = boot[c].pc /\ (boot[c].pc # "idle" => boot'[c].account = boot[c].account)
        /\ Settles(c) => Settles(c)'
        /\ \A e \in Clients : e # c =>
             session'[e] = session[e] /\ password'[e] = password[e] /\ boot'[e] = boot[e]
        /\ session'[c] = 0
    BY <1>1, <1>4, ClearsIdler
  <2>2. \A e \in Clients : e # c => Same(e)
    BY <2>1 DEF Same
  <2>3. Alone'
    BY <1>1, <2>1, <2>2, AloneKept
  <2>4. Sealing(c)'
    BY <1>1, <1>4, <2>1, ClearsIdler DEF Keeper, Sealing, Vouches, Writes, VouchSteps, WriteSteps
  <2> QED BY <1>2, <1>3, <2>1, <2>2, <2>3, <2>4, MintedStays, CalmKept
<1>5. CASE UNCHANGED <<memory, boot>>
  <2>1. \A e \in Clients : e # c => Same(e)
    BY <1>5 DEF Same, memory
  <2>2. Alone' /\ Idler(c) /\ Sealing(c)'
    BY <1>1, <1>5 DEF Alone, Settles, Idler, Keeper, Sealing, memory
  <2> QED BY <1>2, <1>3, <1>5, <2>1, <2>2, MintedStays, CalmKept DEF memory
<1> QED BY <1>4, <1>5

\* The keys that the envelope holds go, then the salt.
LEMMA ForgetKey ==
  ASSUME IInv, IInv', KeyInv, NEW c \in Clients, Forget(c) \/ ForgetSalt(c)
  PROVE  KeyInv'
<1>1. Typed /\ Client(c) /\ Keeper(c)
  BY DEF IInv, KeyInv
<1>2. Thinner(c) /\ \A e \in Clients : e # c => disk'[e] = disk[e]
  BY <1>1, ForgetThins, ForgetSaltThins
<1>3. CASE Forget(c)
  <2>1. /\ UNCHANGED <<pw, envelope, rows, live, who, used, minted, memory, boot>>
        /\ \A e \in Clients : e # c => leave'[e] = leave[e]
    BY <1>1, <1>3 DEF Forget, Leaving, Typed, TypedTasks, server
  <2> QED BY <1>2, <2>1, WipeKey
<1>4. CASE ForgetSalt(c)
  <2>1. /\ UNCHANGED <<pw, envelope, rows, live, who, used, minted>>
        /\ \A e \in Clients : e # c => leave'[e] = leave[e]
        /\ ClearMemory(c) \/ UNCHANGED <<memory, boot>>
    BY <1>1, <1>4 DEF ForgetSalt, Leaving, Typed, TypedTasks, server
  <2> QED BY <1>2, <2>1, WipeKey
<1> QED BY <1>3, <1>4

-----------------------------------------------------------------------------
(* Steps that bring a device or a key *)

\* What a step of client c for account a has to keep.
LEMMA StepKept ==
  ASSUME IInv, IInv', KeyInv, NEW c \in Clients, NEW a \in Accounts, \A e \in Clients : e # c => Same(e),
         \A e \in Clients : e # c /\ e \in live' => e \in live, minted <= minted',
         \A e \in Accounts, d \in Devices :
           d \in rows'[e] \/ Has(c, e, d)' => Of(e, d) \/ (e = a /\ d.id \in minted + 1 .. minted'),
         \A d \in Devices : By(c, d)' => By(c, d) \/ d.id \in minted + 1 .. minted',
         \A e \in Accounts : Steady(c, e),
         \A e \in Accounts :
           Untouched(e) \/ (e = a /\ boot[c].pc # "idle" /\ boot[c].account = a /\ ~Settles(c)),
         \A e \in Accounts : SoleKey(e)' /\ Anchored(e)',
         Alone', Keeper(c)'
  PROVE  KeyInv'
<1>1. minted \in Nat /\ minted' \in Nat /\ Identified /\ Alone
  BY KeysAssumption DEF IInv, Typed, TypedServer, KeyInv
<1>2. ASSUME NEW e \in Accounts, NEW d \in Devices, Of(e, d)'
      PROVE  Of(e, d) \/ (e = a /\ d.id \in minted + 1 .. minted')
  <2>1. d \in rows'[e] \/ Has(c, e, d)' \/ Of(e, d)
    BY <1>2, DevicesAfter
  <2> QED BY <2>1
<1>3. ASSUME NEW e \in Clients, NEW d \in Devices, By(e, d)'
      PROVE  By(e, d) \/ (e = c /\ d.id \in minted + 1 .. minted')
  <2>1. By(e, d) \/ (e = c /\ By(c, d)')
    BY <1>3, DevicesAfter
  <2> QED BY <2>1
<1>4. Identified'
  BY <1>1, <1>2, <1>3, IdentifiedKept
<1>5. ASSUME NEW e \in Clients, e # c PROVE Keeper(e)'
  <2>1. Keeper(e) /\ Same(e)
    BY <1>5 DEF KeyInv
  <2>2. boot[e].pc # "idle" => boot[e].account \in Accounts
    BY TaskShape DEF IInv, Typed, TypedTasks
  <2>3. \A f \in Accounts, d \in Devices : Of(f, d)' => Of(f, d) \/ d.id > minted
    BY <1>1, <1>2
  <2>4. boot[e].pc # "idle" /\ ~Settles(e) => Untouched(boot[e].account)
    BY <1>1, <1>5, <2>2 DEF Alone
  <2> QED BY <1>1, <1>5, <2>1, <2>3, <2>4, OthersKept
<1> QED BY <1>4, <1>5 DEF KeyInv

\* The rows, the envelope and the record of the account are read.
LEMMA FetchKey ==
  ASSUME IInv, IInv', KeyInv, NEW c \in Clients, Fetch(c)
  PROVE  KeyInv'
<1>1. Typed /\ Keeper(c) /\ Alone /\ Identified /\ minted \in Nat
  BY KeysAssumption DEF IInv, KeyInv, Typed, TypedServer
<1>2. PICK a \in Accounts : a = boot[c].account
  BY <1>1, TaskShape DEF Fetch, Typed, TypedTasks
<1>3. /\ UNCHANGED <<scenario, pw, envelope, rows, live, who, password, session, disk, leave, used, minted>>
      /\ boot[c].pc = "fetch" /\ \A e \in Clients : e # c => boot'[e] = boot[e]
      /\ IF boot[c].stale THEN boot'[c] = Idle
         ELSE boot'[c] = [pc |-> "decide", account |-> a, stale |-> FALSE, rows |-> rows[a],
                          envelope |-> envelope[a], mine |-> Stored(c, a)]
  BY <1>1, <1>2 DEF Fetch, GoTo, Typed, TypedTasks, server, memory
<1>4. \A e \in Clients : e # c => Same(e)
  BY <1>3 DEF Same
<1>5. ~Settles(c)
  BY <1>3 DEF Settles
<1>6. CASE boot'[c] = Idle
  <2>1. Alone'
    BY <1>1, <1>3, <1>4, <1>6, AloneKept, Constants0
  <2>2. Sealing(c)' /\ Idler(c) /\ Fading(c) /\ SaltSealed(c)'
    BY <1>1, <1>3, <1>6, Constants0 DEF Keeper, Sealing, Idler, Fading, SaltSealed, Sealed
  <2> QED BY <1>3, <1>4, <2>1, <2>2, MintedStays, CalmKept
<1>7. CASE /\ boot'[c].pc = "decide" /\ boot'[c].account = a /\ boot'[c].rows = rows[a]
           /\ boot'[c].envelope = envelope[a] /\ boot'[c].mine = Stored(c, a)
  <2>1. Alone'
    BY <1>1, <1>2, <1>3, <1>4, <1>5, <1>7, AloneKept
  <2>2. PICK s \in Slots(c) : s = Slot(c, a) /\ Stored(c, a) = disk[c][s] /\ (c \in Browsers => s = a)
    BY SlotIs, KeysAssumption DEF Stored, Slot
  <2>3. \A e \in Accounts, d \in Devices : d \in rows'[e] \/ Has(c, e, d)' => Of(e, d)
    BY <1>3, <1>7, <2>2 DEF Of, Has, Writes, Reads, WriteSteps
  <2>4. \A d \in Devices : By(c, d)' => By(c, d)
    BY <1>3, <1>7, <2>2 DEF By, Writes, Reads, WriteSteps
  <2>5. \A e \in Accounts : Steady(c, e) /\ Untouched(e)
    BY <1>3 DEF Steady, Untouched, Sealed
  <2>6. ASSUME NEW e \in Accounts PROVE SoleKey(e)' /\ Anchored(e)'
    <3>1. SoleKey(e) /\ Anchored(e)
      BY DEF KeyInv
    <3>2. \A d \in Devices : d \in rows'[e] \/ Has(c, e, d)' => KeyOf(e, d.key)
      BY <2>3 DEF KeyOf
    <3>3. /\ \A k \in used'[e] : KeyOf(e, k)
          /\ Sealed(e)' => KeyOf(e, envelope'[e].salt.key)
          /\ \A k \in Numbers : Opening(c, e, k)' => KeyOf(e, k)
      BY <1>3, <1>7 DEF KeyOf, Sealed, Opening
    <3>4. SoleKey(e)'
      BY <1>4, <3>1, <3>2, <3>3, KeysAfter
    <3>5. Stored(c, e) = Stored(c, a) \/ c \notin Phones
      BY DEF Stored, Slot
    <3>6. Anchored(e)'
      <4>1. Fading(c) /\ rows[e] \subseteq Devices /\ Sealed(e)' = Sealed(e)
        BY <1>1, <1>3 DEF Fading, Typed, TypedServer, Sealed
      <4>2. CASE c \in Phones
        <5>1. boot'[c].mine = Stored(c, e)
          BY <1>7, <3>5, <4>2
        <5> QED BY <1>1, <1>3, <1>4, <3>1, <4>1, <5>1, AnchoredKept
      <4>3. CASE c \notin Phones
        BY <1>3, <1>4, <3>1, <4>1, <4>3 DEF Anchored, Same, Clients, Reads
      <4> QED BY <4>2, <4>3
    <3> QED BY <3>4, <3>6
  <2>7. Keeper(c)'
    <3>1. ReadSound(c)'
      <4>1. envelope[a].pw = 0 /\ rows[a] = {} => used[a] = {}
        BY DEF KeyInv, Anchored, Sealed
      <4>2. c \in Browsers => /\ Stored(c, a).priv = Stored(c, a).id
                              /\ Stored(c, a).id # NoDevice /\ ~Sealed(a) => Stored(c, a).id \in rows[a]
        BY <1>1, <2>2 DEF Keeper, Recorded
      <4> QED BY <1>3, <1>7, <4>1, <4>2 DEF ReadSound, Sealed, Reads
    <3>2. OwnSlot(c)'
      <4>1. ASSUME c \in Phones PROVE /\ disk[c]["phone"].id \in Devices
                                      /\ \A e \in Accounts : Of(e, disk[c]["phone"].id)'
                                           => Of(e, disk[c]["phone"].id)
        <5>1. PICK d \in Devices : d = disk[c]["phone"].id
          BY <1>1, <4>1 DEF Typed, TypedDisk, Slots, Slot0
        <5>2. ASSUME NEW e \in Accounts, Of(e, d)' PROVE Of(e, d)
          BY <1>4, <2>3, <5>2, DevicesAfter
        <5> QED BY <1>3, <5>1, <5>2
      <4> QED BY <1>1, <1>3, <1>7, <4>1 DEF Keeper, OwnSlot, Vouches, VouchSteps
    <3>3. InUse(c)' /\ Recorded(c)' /\ SaltSealed(c)' /\ First(c)' /\ Unwritten(c)' /\ SaltKnown(c)'
            /\ Sealing(c)'
      BY <1>1, <1>3, <1>7 DEF Keeper, InUse, Recorded, SaltSealed, First, Unwritten, SaltKnown, Sealing,
                              Sealed, Writes, Vouches, WriteSteps, VouchSteps, Unsent
    <3> QED BY <3>1, <3>2, <3>3 DEF Keeper
  <2> QED BY <1>1, <1>3, <1>4, <2>1, <2>3, <2>4, <2>5, <2>6, <2>7, StepKept
<1> QED BY <1>3, <1>6, <1>7

\* There is no device without a number.
LEMMA NoneOf ==
  ASSUME Identified
  PROVE  /\ \A a \in Accounts : ~Of(a, NoDevice) /\ NoDevice \notin rows[a]
         /\ \A c \in Clients : ~By(c, NoDevice)
  BY Constants0 DEF Identified, Numbered, Of, NoDevice

\* A phone's device is whose it was.
LEMMA PhoneKept ==
  ASSUME IInv, Identified, NEW c \in Phones, \A e \in Clients : e # c => Same(e),
         disk'[c]["phone"].id = disk[c]["phone"].id,
         \A e \in Accounts, d \in Devices : d \in rows'[e] \/ Has(c, e, d)' => Of(e, d) \/ d.id > minted
  PROVE  \A e \in Accounts : Of(e, disk[c]["phone"].id)' => Of(e, disk[c]["phone"].id)
<1>0. c \in Clients /\ minted \in Nat
  BY KeysAssumption DEF Clients, IInv, Typed, TypedServer
<1>1. PICK d \in Devices : d = disk[c]["phone"].id
  BY <1>0 DEF IInv, Typed, TypedDisk, Slots, Slot0
<1>2. d = NoDevice \/ d.id \in 1 .. minted
  <2>1. d # NoDevice => By(c, d)
    BY <1>1 DEF By, Slots
  <2> QED BY <1>0, <2>1 DEF Identified, Numbered
<1>3. ASSUME NEW e \in Accounts, Of(e, d)' PROVE Of(e, d)
  <2>1. Of(e, d) \/ d.id > minted
    BY <1>0, <1>3, DevicesAfter
  <2> QED BY <1>0, <1>2, <2>1 DEF NoDevice
<1> QED BY <1>1, <1>3

\* The device opens the key that all that the account has was made with.
LEMMA UseDeviceKey ==
  ASSUME IInv, IInv', KeyInv, NEW c \in Clients, UseDevice(c)
  PROVE  KeyInv'
<1>1. Typed /\ Client(c) /\ Keeper(c) /\ Alone /\ Identified /\ minted \in Nat
  BY KeysAssumption DEF IInv, KeyInv, Typed, TypedServer
<1>2. PICK a \in Accounts : a = boot[c].account
  BY <1>1, TaskShape DEF UseDevice, Typed, TypedTasks
<1>3. PICK d \in Devices : d = boot[c].mine.id /\ d = boot[c].mine.priv /\ d # NoDevice /\ d \in boot[c].rows
  BY <1>1, TaskShape DEF UseDevice, DeviceOpens, Typed, TypedTasks, Deciding, Slot0
<1>4. /\ UNCHANGED <<scenario, pw, envelope, rows, live, who, disk, leave, minted>>
      /\ boot[c].pc = "decide" /\ \A e \in Clients : e # c => boot'[e] = boot[e]
      /\ used' = [used EXCEPT ![a] = used[a] \cup {d.key}] /\ session'[c] = d.key
      /\ boot'[c].pc = "resolve" /\ boot'[c].account = a
      /\ boot'[c].salt = ResolvedSalt(c, boot[c].mine.salt, boot[c].envelope, d.key)
  BY <1>1, <1>2, <1>3 DEF UseDevice, Activate, GoTo, Typed, TypedTasks, TypedClients, server
<1>5. \A e \in Clients : e # c => Same(e)
  BY DEF Same, UseDevice, GoTo, Activate
<1>6. Reads(c) /\ ~Settles(c) /\ ~Reads(c)' /\ ~Writes(c)'
  BY <1>4 DEF Reads, Settles, Writes, WriteSteps
<1>7. /\ Of(a, d) /\ By(c, d) /\ (~Sealed(a) => d \in rows[a])
      /\ \A e \in Accounts : Of(e, d) => e = a
  <2>1. Of(a, d) /\ By(c, d)
    BY <1>2, <1>3, <1>6 DEF Of, Has, By
  <2>2. ~Sealed(a) => d \in rows[a]
    BY <1>1, <1>2, <1>3, <1>6 DEF Keeper, ReadSound
  <2> QED BY <1>1, <2>1, <2>2 DEF Identified, OneAccount
<1>8. /\ \A e \in Accounts, x \in Devices : x \in rows'[e] \/ Has(c, e, x)' => Of(e, x)
      /\ \A x \in Devices : By(c, x)' => By(c, x)
  BY <1>4, <1>6 DEF Of, Has, By
<1>9. \A e \in Accounts : Steady(c, e) /\ (e # a => Untouched(e)) /\ Sealed(e)' = Sealed(e)
  BY <1>1, <1>4 DEF Steady, Untouched, Sealed, Typed, TypedClients
<1>10. ASSUME NEW e \in Accounts PROVE SoleKey(e)' /\ Anchored(e)'
  <2>1. SoleKey(e) /\ Anchored(e)
    BY DEF KeyInv
  <2>2. \A x \in Devices : x \in rows'[e] \/ Has(c, e, x)' => KeyOf(e, x.key)
    BY <1>8 DEF KeyOf
  <2>3. \A k \in used'[e] : KeyOf(e, k)
    BY <1>1, <1>4, <1>7 DEF KeyOf, Typed, TypedClients
  <2>4. /\ Sealed(e)' => KeyOf(e, envelope'[e].salt.key)
        /\ \A k \in Numbers : Opening(c, e, k)' => KeyOf(e, k)
    BY <1>4, <1>6, <1>9 DEF KeyOf, Opening
  <2>5. SoleKey(e)'
    BY <1>5, <2>1, <2>2, <2>3, <2>4, KeysAfter
  <2>6. CASE e # a
    <3>1. used'[e] = used[e] /\ Fading(c) /\ rows[e] \subseteq Devices
      BY <1>1, <1>4, <2>6 DEF Fading, Typed, TypedClients, TypedServer
    <3> QED BY <1>1, <1>4, <1>5, <1>6, <1>9, <2>1, <2>5, <3>1, AnchoredKept
  <2>7. CASE e = a /\ ~Sealed(a)
    <3>1. ASSUME NEW p \in Phones
          PROVE  /\ disk'[p]["phone"].id = d => disk'[p]["phone"].priv = d
                 /\ Reads(p)' /\ boot'[p].mine.id = d => boot'[p].mine.priv = d
      <4>1. CASE p # c
        <5>1. ~By(p, d) /\ Same(p)
          BY <1>1, <1>5, <1>7, <4>1 DEF Identified, OneClient, Clients
        <5>2. disk'[p]["phone"].id # d /\ ~(Reads(p)' /\ boot'[p].mine.id = d)
          BY <1>3, <5>1 DEF By, Same, Slots, Reads
        <5> QED BY <5>2
      <4>2. CASE p = c
        <5>1. Stored(c, a) = disk[c]["phone"]
          BY <4>2 DEF Stored, Slot
        <5>2. disk[c]["phone"].id = d => disk[c]["phone"].priv = d
          BY <1>1, <1>2, <1>3, <1>4, <5>1 DEF Client, TaskSound
        <5> QED BY <1>4, <1>6, <4>2, <5>2
      <4> QED BY <4>1, <4>2
    <3> QED BY <1>4, <1>7, <2>5, <2>7, <3>1 DEF Anchored
  <2>8. CASE e = a /\ Sealed(a)
    BY <1>9, <2>5, <2>8 DEF Anchored
  <2> QED BY <2>6, <2>7, <2>8
<1>11. Alone'
  BY <1>1, <1>2, <1>4, <1>5, <1>6, AloneKept
<1>12. Keeper(c)'
  <2>1. who[c] \in {"nobody", a}
    BY <1>1, <1>2, <1>4 DEF Client, BootsOwn
  <2>2. InUse(c)'
    BY <1>1, <1>4, <2>1 DEF InUse, Typed, TypedClients
  <2>3. SaltKnown(c)'
    <3>1. boot'[c].salt # None => boot[c].envelope.pw # 0
      BY <1>4 DEF ResolvedSalt
    <3> QED BY <1>1, <1>2, <1>4, <1>6, <3>1 DEF Keeper, ReadSound, SaltKnown, Sealed
  <2>4. OwnSlot(c)'
    <3> SUFFICES ASSUME c \in Phones PROVE OwnSlot(c)'
      BY DEF OwnSlot
    <3>1. Stored(c, a) = disk[c]["phone"]
      BY DEF Stored, Slot
    <3>2. disk[c]["phone"].id \in {d, NoDevice}
      BY <1>1, <1>2, <1>3, <1>4, <3>1 DEF Client, TaskSound
    <3>3. \A e \in Accounts : Of(e, disk[c]["phone"].id)' => Of(e, disk[c]["phone"].id)
      BY <1>1, <1>4, <1>5, <1>8, PhoneKept
    <3>4. \A e \in Accounts : Of(e, disk[c]["phone"].id)' => e = a
      BY <1>1, <1>7, <3>2, <3>3, NoneOf
    <3> QED BY <1>4, <2>1, <3>4 DEF OwnSlot
  <2>5. Recorded(c)' /\ SaltSealed(c)' /\ First(c)' /\ ReadSound(c)' /\ Unwritten(c)' /\ Sealing(c)'
    BY <1>1, <1>4, <1>6 DEF Keeper, Recorded, SaltSealed, First, ReadSound, Unwritten, Sealing,
       Sealed, Writes, WriteSteps, Unsent
  <2> QED BY <2>2, <2>3, <2>4, <2>5 DEF Keeper
<1> QED BY <1>1, <1>2, <1>4, <1>5, <1>6, <1>8, <1>9, <1>10, <1>11, <1>12, StepKept

\* A row that comes back is the one that was there while no envelope was.
LEMMA ReuploadedKey ==
  ASSUME IInv, IInv', KeyInv, NEW c \in Clients, Reuploaded(c)
  PROVE  KeyInv'
<1>1. Typed /\ Client(c) /\ Keeper(c) /\ Alone /\ Identified /\ minted \in Nat
  BY KeysAssumption DEF IInv, KeyInv, Typed, TypedServer
<1>2. boot[c].pc = "reput" /\ boot[c] \in Deciding
  BY <1>1, TaskShape DEF Reuploaded, Typed, TypedTasks
<1>3. PICK a \in Accounts : a = boot[c].account
  BY <1>2 DEF Deciding
<1>4. PICK d \in Devices : d = boot[c].mine.id /\ d # NoDevice /\ c \in Browsers
  BY <1>1, <1>2 DEF Deciding, Slot0, Client, TaskSound
<1>5. /\ UNCHANGED <<scenario, pw, envelope, live, who, password, session, disk, leave, used, minted>>
      /\ rows' = [rows EXCEPT ![a] = rows[a] \cup {d}] /\ \A e \in Clients : e # c => boot'[e] = boot[e]
      /\ boot'[c] = IF boot[c].stale THEN Idle
                    ELSE [boot[c] EXCEPT !.pc = "decide", !.rows = boot[c].rows \cup {d}]
  BY <1>1, <1>3, <1>4 DEF Reuploaded, GoTo, Typed, TypedTasks, memory
<1>6. \A e \in Clients : e # c => Same(e)
  BY <1>5 DEF Same
<1>7. /\ boot'[c].pc \in {"idle", "decide"}
      /\ boot'[c].pc = "decide" => /\ boot'[c].account = a /\ boot'[c].rows = boot[c].rows \cup {d}
                                   /\ boot'[c].envelope = boot[c].envelope /\ boot'[c].mine = boot[c].mine
  <2>1. CASE boot[c].stale
    BY <1>5, <2>1, Constants0
  <2>2. CASE ~boot[c].stale
    <3>1. PICK r : r = boot[c].rows \cup {d}
      OBVIOUS
    <3>2. boot'[c] = [boot[c] EXCEPT !.pc = "decide", !.rows = r]
      BY <1>5, <2>2, <3>1
    <3> QED BY <1>2, <1>3, <3>1, <3>2 DEF Deciding
  <2> QED BY <2>1, <2>2
<1>8. Reads(c) /\ ~Settles(c) /\ ~Writes(c)' /\ ~Vouches(c)' /\ c \notin Phones
  BY <1>2, <1>4, <1>7, KeysAssumption DEF Reads, Settles, Writes, Vouches, WriteSteps, VouchSteps
<1>9. Of(a, d) /\ By(c, d) /\ (~Sealed(a) => d \in rows[a])
  BY <1>1, <1>3, <1>4, <1>8 DEF Of, Has, By, Keeper, ReadSound
<1>10. /\ \A e \in Accounts, x \in Devices : x \in rows'[e] \/ Has(c, e, x)' => Of(e, x)
       /\ \A x \in Devices : By(c, x)' => By(c, x)
  <2>1. ASSUME NEW e \in Accounts, NEW x \in Devices, x \in rows'[e] \/ Has(c, e, x)' PROVE Of(e, x)
    BY <1>1, <1>3, <1>5, <1>7, <1>8, <1>9, <2>1 DEF Of, Has, Reads, Typed, TypedServer
  <2>2. ASSUME NEW x \in Devices, By(c, x)' PROVE By(c, x)
    BY <1>5, <1>7, <1>8, <2>2 DEF By, Reads
  <2> QED BY <2>1, <2>2
<1>11. \A e \in Accounts : Steady(c, e) /\ Untouched(e) /\ Sealed(e)' = Sealed(e)
         /\ rows[e] \subseteq rows'[e]
                           /\ (~Sealed(e) => rows'[e] = rows[e])
  BY <1>1, <1>5, <1>9 DEF Steady, Untouched, Sealed, Typed, TypedServer
<1>12. ASSUME NEW e \in Accounts PROVE SoleKey(e)' /\ Anchored(e)'
  <2>1. SoleKey(e) /\ Anchored(e)
    BY DEF KeyInv
  <2>2. \A x \in Devices : x \in rows'[e] \/ Has(c, e, x)' => KeyOf(e, x.key)
    BY <1>10 DEF KeyOf
  <2>3. /\ \A k \in used'[e] : KeyOf(e, k)
        /\ Sealed(e)' => KeyOf(e, envelope'[e].salt.key)
        /\ \A k \in Numbers : Opening(c, e, k)' => KeyOf(e, k)
    BY <1>3, <1>5, <1>7, <1>8, <1>11 DEF KeyOf, Opening, Reads
  <2>4. SoleKey(e)'
    BY <1>6, <2>1, <2>2, <2>3, KeysAfter
  <2>5. Fading(c) /\ rows[e] \subseteq Devices /\ (Reads(c)' => Reads(c) /\ boot'[c].mine = boot[c].mine)
    BY <1>1, <1>5, <1>7, <1>8 DEF Fading, Typed, TypedServer, Reads
  <2>6. Anchored(e)'
    BY <1>1, <1>5, <1>6, <1>11, <2>1, <2>5, AnchoredKept
  <2> QED BY <2>4, <2>6
<1>13. Alone'
  BY <1>1, <1>2, <1>3, <1>6, <1>7, <1>8, AloneKept
<1>14. Keeper(c)'
  <2>1. ReadSound(c)'
    BY <1>1, <1>3, <1>4, <1>5, <1>7, <1>8, <1>11 DEF Keeper, ReadSound, Reads, Sealed
  <2>2. SaltSealed(c)'
    <3>1. ASSUME NEW s \in Slots(c), NEW e \in Accounts, disk[c][s].salt # None, disk[c][s].id \in rows'[e]
          PROVE  Sealed(e)
      BY <1>1, <1>11, <3>1 DEF Keeper, SaltSealed
    <3> QED BY <1>5, <3>1 DEF SaltSealed, Sealed
  <2>3. Recorded(c)'
    BY <1>1, <1>5, <1>11 DEF Keeper, Recorded, Sealed
  <2>4. InUse(c)' /\ First(c)' /\ Unwritten(c)' /\ SaltKnown(c)' /\ OwnSlot(c)' /\ Sealing(c)'
    BY <1>1, <1>5, <1>7, <1>8 DEF Keeper, InUse, First, Unwritten, SaltKnown, OwnSlot, Sealing, Writes,
       WriteSteps, Unsent
  <2> QED BY <2>1, <2>2, <2>3, <2>4 DEF Keeper
<1> QED BY <1>1, <1>5, <1>6, <1>10, <1>11, <1>12, <1>13, <1>14, StepKept

\* A key in use is put into an envelope, and a salt may be left to write.
LEMMA ResealedKey ==
  ASSUME IInv, IInv', KeyInv, NEW c \in Clients, NEW a \in Accounts, \A e \in Clients : e # c => Same(e),
         \A e \in Clients : e # c /\ e \in live' => e \in live, minted <= minted',
         UNCHANGED <<rows, disk, used, session, who, leave>>, NEW k \in used[a],
         (Vouches(c) /\ boot[c].account = a) \/ (session[c] # 0 /\ who[c] = a),
         \A e \in Accounts : e # a => envelope'[e] = envelope[e],
         envelope'[a].pw # 0, envelope'[a].salt.key = k,
         boot'[c].pc = "idle" \/ (boot'[c].pc \in {"resolve", "ending"} /\ boot'[c].secret = 0
                                    /\ boot'[c].account = a)
  PROVE  KeyInv'
<1>1. Typed /\ Client(c) /\ Keeper(c) /\ Alone /\ Identified /\ minted \in Nat /\ a # "nobody"
  BY KeysAssumption DEF IInv, KeyInv, Typed, TypedServer
<1>3. ~Writes(c)' /\ ~Reads(c)'
  BY DEF Writes, Reads, WriteSteps
<1>4. /\ \A e \in Accounts, x \in Devices : x \in rows'[e] \/ Has(c, e, x)' => Of(e, x)
      /\ \A x \in Devices : By(c, x)' => By(c, x)
  BY <1>3 DEF Of, Has, By
<1>5. \A e \in Accounts : Steady(c, e) /\ Untouched(e) /\ (Sealed(e) => Sealed(e)') /\ (e # a
        => Sealed(e)' = Sealed(e))
                          /\ Sealed(a)'
  BY DEF Steady, Untouched, Sealed
<1>6. ASSUME NEW e \in Accounts PROVE SoleKey(e)' /\ Anchored(e)'
  <2>1. SoleKey(e) /\ Anchored(e)
    BY DEF KeyInv
  <2>2. \A x \in Devices : x \in rows'[e] \/ Has(c, e, x)' => KeyOf(e, x.key)
    BY <1>4 DEF KeyOf
  <2>3. Sealed(e)' => KeyOf(e, envelope'[e].salt.key)
    BY <1>5 DEF KeyOf, Sealed
  <2>4. /\ \A l \in used'[e] : KeyOf(e, l)
        /\ \A l \in Numbers : Opening(c, e, l)' => KeyOf(e, l)
    BY <1>3 DEF KeyOf, Opening
  <2>5. SoleKey(e)'
    BY <2>1, <2>2, <2>3, <2>4, KeysAfter
  <2>6. Fading(c) /\ rows[e] \subseteq Devices
    BY <1>1 DEF Fading, Typed, TypedServer
  <2>7. Anchored(e)'
    BY <1>1, <1>3, <1>5, <2>1, <2>6, AnchoredKept
  <2> QED BY <2>5, <2>7
<1>7. Alone'
  <2>1. boot'[c].pc = "idle" \/ Settles(c)'
    BY DEF Settles
  <2> QED BY <1>1, <2>1, AloneKept
<1>8. Keeper(c)'
  <2>1. OwnSlot(c)'
    <3> SUFFICES ASSUME c \in Phones PROVE OwnSlot(c)'
      BY DEF OwnSlot
    <3>1. \A e \in Accounts : Of(e, disk[c]["phone"].id)' => Of(e, disk[c]["phone"].id)
      BY <1>1, <1>4, PhoneKept
    <3>2. \A e \in Accounts : Of(e, disk[c]["phone"].id)' => e = a
      BY <1>1, <3>1 DEF Keeper, OwnSlot
    <3>3. session[c] # 0 /\ who[c] # "nobody" =>
            \A e \in Accounts : Of(e, disk[c]["phone"].id)' => e = who[c]
      BY <1>1, <3>1 DEF Keeper, OwnSlot
    <3>4. boot'[c].pc \notin {"writeKey", "writeSalt"}
      OBVIOUS
    <3> QED BY <3>2, <3>3, <3>4 DEF OwnSlot, Vouches, VouchSteps
  <2>2. SaltKnown(c)'
    BY <1>3, <1>5 DEF SaltKnown, Sealed, Vouches, VouchSteps
  <2>3. Recorded(c)' /\ SaltSealed(c)'
    BY <1>1, <1>5 DEF Keeper, Recorded, SaltSealed
  <2>4. InUse(c)' /\ First(c)' /\ ReadSound(c)' /\ Unwritten(c)' /\ Sealing(c)'
    BY <1>1, <1>3 DEF Keeper, InUse, First, ReadSound, Unwritten, Sealing, Unsent
  <2> QED BY <2>1, <2>2, <2>3, <2>4 DEF Keeper
<1> QED BY <1>1, <1>4, <1>5, <1>6, <1>7, <1>8, StepKept

\* A missing envelope gets a key in use.
LEMMA ResealKey ==
  ASSUME IInv, IInv', KeyInv, NEW c \in Clients, Reseal(c)
  PROVE  KeyInv'
<1>1. Typed /\ Client(c) /\ Keeper(c)
  BY DEF IInv, KeyInv
<1>2. boot[c].pc = "resealing" /\ boot[c] \in Vouching /\ Vouches(c)
  BY <1>1, TaskShape DEF Reseal, Typed, TypedTasks, VouchSteps, Vouches
<1>3. PICK a \in Accounts : a = boot[c].account
  BY <1>2 DEF Vouching
<1>4. PICK k \in used[a] : k = boot[c].salt.key /\ boot[c].secret # 0
  BY <1>1, <1>2, <1>3 DEF Keeper, Sealing
<1>5. /\ UNCHANGED <<rows, disk, used, session, who, leave, live, minted>>
      /\ \A e \in Clients : e # c => boot'[e] = boot[e] /\ password'[e] = password[e]
      /\ envelope' = [envelope EXCEPT ![a] = [pw |-> boot[c].secret, salt |-> boot[c].salt]]
      /\ boot'[c] = Idle \/ boot'[c] = [boot[c] EXCEPT !.pc = "resolve", !.secret = 0]
  BY <1>1, <1>3 DEF Reseal, PutEnvelope, GoTo, Done, Typed, TypedTasks, TypedClients
<1>7. /\ \A e \in Accounts : e # a => envelope'[e] = envelope[e]
      /\ envelope'[a].pw # 0 /\ envelope'[a].salt.key = k
  BY <1>1, <1>4, <1>5 DEF Typed, TypedServer
<1>8. boot'[c].pc = "idle" \/ (boot'[c].pc = "resolve" /\ boot'[c].secret = 0 /\ boot'[c].account = a)
  BY <1>2, <1>3, <1>5, Constants0, VouchingAgain
<1>9. \A e \in Clients : e # c => Same(e)
  BY <1>5 DEF Same
<1> QED BY <1>2, <1>3, <1>4, <1>5, <1>7, <1>8, <1>9, MintedStays, ResealedKey

\* A changed password gets the key in memory, which is in use.
LEMMA ChangePasswordKey ==
  ASSUME IInv, IInv', KeyInv, NEW c \in Clients, ChangePassword(c)
  PROVE  KeyInv'
<1>1. Typed /\ Client(c) /\ Keeper(c)
  BY DEF IInv, KeyInv
<1>2. PICK a \in Accounts : a = who[c]
  BY <1>1 DEF ChangePassword, Typed, TypedClients
<1>3. PICK t : t = Salt(session[c]) /\ t.key = session[c]
  <2>1. Salt(session[c]).key = session[c]
    BY DEF Salt
  <2> QED BY <2>1
<1>4. /\ UNCHANGED <<rows, disk, used, session, who, leave, password>> /\ session[c] # 0
           /\ live' \subseteq live
      /\ \A e \in Clients : e # c => boot'[e] = boot[e]
      /\ pw' = [pw EXCEPT ![a] = pw[a] + 1]
      /\ envelope' = [envelope EXCEPT ![a] = [pw |-> pw'[a], salt |-> t]]
      /\ boot[c].pc = "idle"
      /\ minted' = minted + 1
  BY <1>1, <1>2, <1>3
     DEF ChangePassword, Changed, Done, EndOthers, PutEnvelope, GoTo, Mint, Typed, TypedTasks, TypedServer,
         memory
<1>5. minted <= minted' /\ pw[a] \in Nat
  <2>1. minted \in Nat /\ pw[a] \in Nat
    BY <1>1, KeysAssumption DEF Typed, TypedServer
  <2> QED BY <1>4, <2>1
<1>6. PICK k \in used[a] : k = session[c]
  BY <1>1, <1>2, <1>4, KeysAssumption DEF Keeper, InUse
<1>7. /\ \A e \in Accounts : e # a => envelope'[e] = envelope[e]
      /\ envelope'[a].pw # 0 /\ envelope'[a].salt.key = k
  <2>1. pw'[a] # 0
    BY <1>1, <1>4, <1>5 DEF Typed, TypedServer
  <2> QED BY <1>1, <1>3, <1>4, <1>6, <2>1 DEF Typed, TypedServer
<1>8. boot'[c].pc = "idle"
        \/ (boot'[c].pc \in {"resolve", "ending"} /\ boot'[c].secret = 0 /\ boot'[c].account = a)
  <2>1. \/ boot'[c] = Idle
        \/ \E p \in {"resolve", "ending"} :
             boot'[c] = [pc |-> p, account |-> a, stale |-> FALSE, salt |-> t, secret |-> 0]
    BY <1>1, <1>2, <1>3 DEF ChangePassword, Changed, Done, GoTo, Typed, TypedTasks
  <2> QED BY <2>1, Constants0
<1>9. \A e \in Clients : e # c => Same(e)
  BY <1>4 DEF Same
<1> QED BY <1>2, <1>4, <1>5, <1>6, <1>7, <1>8, <1>9, ResealedKey

\* A first envelope is made for the device that is registered next, a missing
\* one with the key in memory, which is in use.
LEMMA AskKey ==
  ASSUME IInv, IInv', KeyInv, NEW c \in Clients, Ask(c)
  PROVE  KeyInv'
<1>1. Typed /\ Client(c) /\ Keeper(c) /\ Alone
  BY DEF IInv, KeyInv
<1>2. /\ UNCHANGED <<envelope, rows, live, who, password, session, disk, leave, used>>
      /\ minted' = minted + 1 /\ c \in live
      /\ \A e \in Clients : e # c => boot'[e] = boot[e]
  BY <1>1 DEF Ask, GoTo, Mint, Typed, TypedTasks, server, memory
<1>3. minted <= minted'
  <2>1. minted \in Nat
    BY <1>1, KeysAssumption DEF Typed, TypedServer
  <2> QED BY <1>2, <2>1
<1>4. \A e \in Clients : e # c => Same(e)
  BY <1>2 DEF Same
<1>5. CASE boot[c].pc = "seal"
  <2>1. boot[c] \in Writing
    BY <1>1, <1>5, TaskShape DEF Typed, TypedTasks, WriteSteps
  <2>2. PICK t : t = Salt(boot[c].device.key) /\ boot'[c] = [boot[c] EXCEPT !.pc = "sealing", !.salt = t]
    BY <1>1, <1>5 DEF Ask, GoTo, Typed, TypedTasks
  <2>3. /\ boot'[c].pc = "sealing" /\ boot'[c].account = boot[c].account /\ boot'[c].device = boot[c].device
        /\ boot'[c].secret = boot[c].secret
    BY <2>1, <2>2 DEF Writing
  <2>4. Idler(c) /\ ~Settles(c)
    BY <1>5, <2>3 DEF Idler, Settles, Reads, Vouches, VouchSteps
  <2>5. Alone'
    BY <1>1, <1>4, <1>5, <2>3, <2>4, AloneKept
  <2>6. Sealing(c)' /\ Fading(c) /\ SaltSealed(c)'
    BY <1>1, <1>2, <1>5, <2>3 DEF Keeper, Sealing, Fading, SaltSealed, Sealed
  <2> QED BY <1>2, <1>3, <1>4, <2>4, <2>5, <2>6, CalmKept
<1>6. CASE boot[c].pc = "reseal"
  <2>1. boot[c] \in Vouching
    BY <1>1, <1>6, TaskShape DEF Typed, TypedTasks, VouchSteps
  <2>2. PICK t : t = Salt(session[c]) /\ boot'[c] = [boot[c] EXCEPT !.pc = "resealing", !.salt = t]
    BY <1>1, <1>6 DEF Ask, GoTo, Typed, TypedTasks
  <2>3. /\ boot'[c].pc = "resealing" /\ boot'[c].account = boot[c].account
        /\ boot'[c].secret = boot[c].secret /\ boot'[c].salt = t
    BY <2>1, <2>2 DEF Vouching
  <2>4. Idler(c) /\ ~Settles(c)
    BY <1>6, <2>3 DEF Idler, Settles, Reads, Writes, WriteSteps
  <2>5. Alone'
    BY <1>1, <1>4, <1>6, <2>3, <2>4, AloneKept
  <2>6. t.key \in used[boot[c].account]
    <3>1. t.key = session[c]
      BY <2>2 DEF Salt
    <3>2. session[c] # 0 /\ who[c] # "nobody" /\ who[c] = boot[c].account
      BY <1>1, <1>2, <1>6 DEF Ask, Client, LiveIsSomebody, BootsOwn
    <3> QED BY <1>1, <3>1, <3>2 DEF Keeper, InUse
  <2>7. Sealing(c)' /\ Fading(c) /\ SaltSealed(c)'
    BY <1>1, <1>2, <1>6, <2>3, <2>6 DEF Keeper, Sealing, Fading, SaltSealed, Sealed
  <2> QED BY <1>2, <1>3, <1>4, <2>4, <2>5, <2>7, CalmKept
<1> QED BY <1>5, <1>6 DEF Ask

\* The other sessions end.
LEMMA RevokeKey ==
  ASSUME IInv, IInv', KeyInv, NEW c \in Clients, Revoke(c)
  PROVE  KeyInv'
<1>1. Typed /\ Client(c) /\ Keeper(c) /\ Alone
  BY DEF IInv, KeyInv
<1>2. /\ UNCHANGED <<envelope, rows, who, password, session, disk, leave, used, minted>>
      /\ live' \subseteq live /\ boot[c].pc = "ending"
      /\ \A e \in Clients : e # c => boot'[e] = boot[e]
      /\ boot'[c] = Idle \/ boot'[c] = [boot[c] EXCEPT !.pc = "resolve"]
  BY <1>1 DEF Revoke, EndOthers, GoTo, Done, Typed, TypedTasks, memory
<1>3. boot[c] \in Vouching /\ boot[c].secret = 0 /\ "resolve" \in VouchSteps
  BY <1>1, <1>2, TaskShape DEF Typed, TypedTasks, Client, PasswordCurrent, VouchSteps
<1>4. \A e \in Clients : e # c => Same(e)
  BY <1>2 DEF Same
<1>5. \/ boot'[c].pc = "idle"
      \/ /\ boot'[c].pc = "resolve" /\ boot'[c].account = boot[c].account
         /\ boot'[c].salt = boot[c].salt /\ boot'[c].secret = 0
  <2>1. PICK p \in VouchSteps : p = "resolve"
    BY <1>3
  <2>2. LET n == [boot[c] EXCEPT !.pc = p]
        IN  n.pc = p /\ n.account = boot[c].account /\ n.salt = boot[c].salt /\ n.secret = boot[c].secret
    BY <1>3, VouchingOn
  <2> QED BY <1>2, <1>3, <2>1, <2>2, Constants0
<1>6. Alone'
  <2>1. boot'[c].pc = "idle" \/ Settles(c)'
    BY <1>5 DEF Settles
  <2> QED BY <1>1, <1>4, <2>1, AloneKept
<1>7. Sealing(c)' /\ Idler(c) /\ Fading(c) /\ SaltSealed(c)'
  BY <1>1, <1>2, <1>5 DEF Keeper, Sealing, Idler, Fading, SaltSealed, Sealed, Writes, WriteSteps, Reads
<1> QED BY <1>2, <1>4, <1>6, <1>7, MintedStays, CalmKept

\* The first envelope holds the key of the first device.
LEMMA SealKey ==
  ASSUME IInv, IInv', KeyInv, NEW c \in Clients, Seal(c)
  PROVE  KeyInv'
<1>1. Typed /\ Client(c) /\ Keeper(c) /\ Alone /\ Identified /\ minted \in Nat
  BY KeysAssumption DEF IInv, KeyInv, Typed, TypedServer
<1>2. boot[c].pc = "sealing" /\ boot[c] \in Writing
  BY <1>1, TaskShape DEF Seal, Typed, TypedTasks, WriteSteps
<1>3. PICK a \in Accounts : a = boot[c].account
  BY <1>2 DEF Writing
<1>4. PICK d \in Devices : d = boot[c].device
  BY <1>2 DEF Writing
<1>5. PICK t : t = boot[c].salt /\ t.key = d.key /\ boot[c].secret # 0
  BY <1>1, <1>2, <1>4 DEF Client, TaskSound, Keeper, Sealing
<1>6. /\ UNCHANGED <<rows, disk, used, session, who, leave, live, minted>>
      /\ \A e \in Clients : e # c => boot'[e] = boot[e] /\ password'[e] = password[e]
      /\ envelope' = [envelope EXCEPT ![a] = [pw |-> boot[c].secret, salt |-> t]]
      /\ boot'[c] = Idle \/ \E p \in {"sealed", "put"} : boot'[c] = [boot[c] EXCEPT !.pc = p]
  BY <1>1, <1>3, <1>4, <1>5 DEF Seal, PutEnvelope, GoTo, Done, Typed, TypedTasks, TypedClients
<1>7. /\ boot'[c].pc \in {"idle", "sealed", "put"}
      /\ boot'[c].pc # "idle" => boot'[c].account = a /\ boot'[c].device = d /\ boot'[c].salt = t
                                   /\ boot'[c].secret = boot[c].secret
  <2>1. ASSUME NEW p \in {"sealed", "put"}
        PROVE  LET n == [boot[c] EXCEPT !.pc = p]
               IN  /\ n.pc = p /\ n.account = boot[c].account /\ n.device = boot[c].device
                   /\ n.salt = boot[c].salt /\ n.secret = boot[c].secret
    <3>1. p \in WriteSteps
      BY DEF WriteSteps
    <3> QED BY <1>2, <3>1, WritingOn
  <2> QED BY <1>3, <1>4, <1>5, <1>6, <2>1, Constants0
<1>8. \A e \in Clients : e # c => Same(e)
  BY <1>6 DEF Same
<1>9. Writes(c) /\ ~Settles(c) /\ ~Reads(c)' /\ ~Vouches(c)' /\ minted <= minted'
  BY <1>1, <1>2, <1>6, <1>7 DEF Writes, Settles, Reads, Vouches, WriteSteps, VouchSteps
<1>10. Of(a, d) /\ By(c, d)
  BY <1>3, <1>4, <1>9 DEF Of, Has, By
<1>11. /\ \A e \in Accounts, x \in Devices : x \in rows'[e] \/ Has(c, e, x)' => Of(e, x)
       /\ \A x \in Devices : By(c, x)' => By(c, x)
  BY <1>3, <1>4, <1>6, <1>7, <1>9 DEF Of, Has, By, Writes, WriteSteps
<1>12. \A e \in Accounts : Steady(c, e) /\ (e # a => Untouched(e)) /\ (Sealed(e) => Sealed(e)')
                           /\ (e # a => envelope'[e] = envelope[e])
  BY <1>1, <1>5, <1>6 DEF Steady, Untouched, Sealed, Typed, TypedServer
<1>13. Sealed(a)' /\ envelope'[a].salt.key = d.key
  BY <1>1, <1>5, <1>6 DEF Sealed, Typed, TypedServer
<1>14. ASSUME NEW e \in Accounts PROVE SoleKey(e)' /\ Anchored(e)'
  <2>1. SoleKey(e) /\ Anchored(e)
    BY DEF KeyInv
  <2>2. \A x \in Devices : x \in rows'[e] \/ Has(c, e, x)' => KeyOf(e, x.key)
    BY <1>11 DEF KeyOf
  <2>3. Sealed(e)' => KeyOf(e, envelope'[e].salt.key)
    BY <1>10, <1>12, <1>13 DEF KeyOf, Sealed
  <2>4. /\ \A k \in used'[e] : KeyOf(e, k)
        /\ \A k \in Numbers : Opening(c, e, k)' => KeyOf(e, k)
    BY <1>6, <1>9 DEF KeyOf, Opening
  <2>5. SoleKey(e)'
    BY <1>8, <2>1, <2>2, <2>3, <2>4, KeysAfter
  <2>6. Fading(c) /\ rows[e] \subseteq Devices
    BY <1>1, <1>6 DEF Fading, Typed, TypedServer
  <2>7. Anchored(e)'
    BY <1>1, <1>6, <1>8, <1>9, <1>12, <2>1, <2>6, AnchoredKept
  <2> QED BY <2>5, <2>7
<1>15. Alone'
  BY <1>1, <1>2, <1>3, <1>7, <1>8, <1>9, AloneKept
<1>16. Keeper(c)'
  <2>1. OwnSlot(c)'
    <3> SUFFICES ASSUME c \in Phones PROVE OwnSlot(c)'
      BY DEF OwnSlot
    <3>1. \A e \in Accounts : Of(e, disk[c]["phone"].id)' => Of(e, disk[c]["phone"].id)
      BY <1>1, <1>6, <1>8, <1>11, PhoneKept
    <3> QED BY <1>1, <1>6, <1>7, <1>9, <3>1 DEF Keeper, OwnSlot
  <2>2. SaltKnown(c)' /\ First(c)'
    BY <1>7, <1>9, <1>13 DEF SaltKnown, First, Sealed, Writes, Unsent, WriteSteps
  <2>3. Recorded(c)' /\ SaltSealed(c)'
    BY <1>1, <1>6, <1>12 DEF Keeper, Recorded, SaltSealed
  <2>4. InUse(c)' /\ ReadSound(c)' /\ Unwritten(c)' /\ Sealing(c)'
    BY <1>1, <1>2, <1>4, <1>6, <1>7, <1>9 DEF Keeper, InUse, ReadSound, Unwritten, Sealing, Unsent
  <2> QED BY <2>1, <2>2, <2>3, <2>4 DEF Keeper
<1> QED BY <1>1, <1>2, <1>3, <1>6, <1>8, <1>9, <1>11, <1>12, <1>14, <1>15, <1>16, StepKept

\* A device gets its row before it is on the disk.
LEMMA PutDeviceKey ==
  ASSUME IInv, IInv', KeyInv, NEW c \in Clients, PutDevice(c)
  PROVE  KeyInv'
<1>1. Typed /\ Client(c) /\ Keeper(c) /\ Alone /\ Identified /\ minted \in Nat
  BY KeysAssumption DEF IInv, KeyInv, Typed, TypedServer
<1>2. boot[c].pc = "put" /\ boot[c] \in Writing
  BY <1>1, TaskShape DEF PutDevice, Typed, TypedTasks, WriteSteps
<1>3. PICK a \in Accounts : a = boot[c].account
  BY <1>2 DEF Writing
<1>4. PICK d \in Devices : d = boot[c].device
  BY <1>2 DEF Writing
<1>5. /\ UNCHANGED <<envelope, password, disk, used, minted, session, who, leave, live>>
      /\ \A e \in Clients : e # c => boot'[e] = boot[e]
      /\ rows' = [rows EXCEPT ![a] = rows[a] \cup {d}]
      /\ \E p \in {"clearSalt", "record"} : boot'[c] = Idle \/ boot'[c] = [boot[c] EXCEPT !.pc = p]
  BY <1>1, <1>3, <1>4 DEF PutDevice, GoTo, Done, Typed, TypedTasks, memory
<1>6. /\ boot'[c].pc \in {"idle", "clearSalt", "record"}
      /\ boot'[c].pc # "idle" => boot'[c].account = a /\ boot'[c].device = d /\ boot'[c].salt = boot[c].salt
  <2>1. ASSUME NEW p \in {"clearSalt", "record"}
        PROVE  LET n == [boot[c] EXCEPT !.pc = p]
               IN  /\ n.pc = p /\ n.account = boot[c].account /\ n.device = boot[c].device
                   /\ n.salt = boot[c].salt
    <3>1. p \in WriteSteps
      BY DEF WriteSteps
    <3> QED BY <1>2, <3>1, WritingOn
  <2> QED BY <1>3, <1>4, <1>5, <2>1, Constants0
<1>7. \A e \in Clients : e # c => Same(e)
  BY <1>5 DEF Same
<1>8. Writes(c) /\ ~Settles(c) /\ ~Reads(c)' /\ ~Vouches(c)' /\ minted <= minted'
  BY <1>1, <1>2, <1>5, <1>6 DEF Writes, Settles, Reads, Vouches, WriteSteps, VouchSteps
<1>9. Of(a, d) /\ By(c, d)
  BY <1>3, <1>4, <1>8 DEF Of, Has, By
<1>10. /\ \A e \in Accounts, x \in Devices : x \in rows'[e] \/ Has(c, e, x)' => Of(e, x)
       /\ \A x \in Devices : By(c, x)' => By(c, x)
  <2>1. ASSUME NEW e \in Accounts, NEW x \in Devices, x \in rows'[e] \/ Has(c, e, x)' PROVE Of(e, x)
    BY <1>1, <1>3, <1>4, <1>5, <1>6, <1>8, <1>9, <2>1 DEF Of, Has, Writes, Typed, TypedServer, WriteSteps
  <2>2. ASSUME NEW x \in Devices, By(c, x)' PROVE By(c, x)
    BY <1>4, <1>5, <1>6, <1>8, <2>2 DEF By, Writes, WriteSteps
  <2> QED BY <2>1, <2>2
<1>11. \A e \in Accounts : /\ Steady(c, e) /\ (e # a => Untouched(e) /\ rows'[e] = rows[e])
                           /\ Sealed(e)' = Sealed(e) /\ rows[e] \subseteq rows'[e]
  BY <1>1, <1>5, <1>9 DEF Steady, Untouched, Sealed, Typed, TypedServer
<1>12. ASSUME NEW e \in Accounts PROVE SoleKey(e)' /\ Anchored(e)'
  <2>1. SoleKey(e) /\ Anchored(e)
    BY DEF KeyInv
  <2>2. \A x \in Devices : x \in rows'[e] \/ Has(c, e, x)' => KeyOf(e, x.key)
    BY <1>10 DEF KeyOf
  <2>3. /\ \A k \in used'[e] : KeyOf(e, k)
        /\ Sealed(e)' => KeyOf(e, envelope'[e].salt.key)
        /\ \A k \in Numbers : Opening(c, e, k)' => KeyOf(e, k)
    BY <1>5, <1>8, <1>11 DEF KeyOf, Opening
  <2>4. SoleKey(e)'
    BY <1>7, <2>1, <2>2, <2>3, KeysAfter
  <2>5. Fading(c) /\ rows[e] \subseteq Devices
    BY <1>1, <1>5 DEF Fading, Typed, TypedServer
  <2>6. Anchored(e)'
    BY <1>1, <1>5, <1>7, <1>8, <1>11, <2>1, <2>5, AnchoredKept
  <2> QED BY <2>4, <2>6
<1>13. Alone'
  BY <1>1, <1>2, <1>3, <1>6, <1>7, <1>8, AloneKept
<1>14. Keeper(c)'
  <2>1. OwnSlot(c)'
    <3> SUFFICES ASSUME c \in Phones PROVE OwnSlot(c)'
      BY DEF OwnSlot
    <3>1. \A e \in Accounts : Of(e, disk[c]["phone"].id)' => Of(e, disk[c]["phone"].id)
      BY <1>1, <1>5, <1>7, <1>10, PhoneKept
    <3> QED BY <1>1, <1>5, <1>6, <1>8, <3>1 DEF Keeper, OwnSlot
  <2>2. SaltKnown(c)'
    BY <1>1, <1>2, <1>3, <1>5, <1>6, <1>8 DEF Keeper, SaltKnown, Sealed, Writes, WriteSteps
  <2>3. First(c)'
    <3>1. ~Sealed(a) => used[a] = {} /\ rows[a] \subseteq {d}
      BY <1>1, <1>3, <1>4, <1>8 DEF Keeper, First, Unsent
    <3>2. ~Sealed(a) => used'[a] = {} /\ rows'[a] \subseteq {d} /\ d \in rows'[a]
      BY <1>1, <1>5, <3>1 DEF Typed, TypedServer
    <3> QED BY <1>6, <1>11, <3>2 DEF First, Writes, Sealed, WriteSteps, Unsent
  <2>4. Recorded(c)'
    BY <1>1, <1>5, <1>11 DEF Keeper, Recorded, Sealed
  <2>5. SaltSealed(c)'
    <3>1. \A s \in Slots(c) : disk[c][s].id # d
      BY <1>1, <1>2, <1>4 DEF Keeper, Unwritten, Unsent
    <3>2. \A s \in Slots(c), e \in Accounts : disk[c][s].id \in rows'[e] => disk[c][s].id \in rows[e]
      BY <1>1, <1>5, <3>1 DEF Typed, TypedServer
    <3> QED BY <1>1, <1>5, <3>2 DEF Keeper, SaltSealed, Sealed
  <2>6. InUse(c)' /\ ReadSound(c)' /\ Unwritten(c)' /\ Sealing(c)'
    BY <1>1, <1>5, <1>6, <1>8 DEF Keeper, InUse, ReadSound, Unwritten, Sealing, Unsent
  <2> QED BY <2>1, <2>2, <2>3, <2>4, <2>5, <2>6 DEF Keeper
<1> QED BY <1>1, <1>2, <1>3, <1>5, <1>7, <1>8, <1>10, <1>11, <1>12, <1>13, <1>14, StepKept

\* The rows that a sign-out drops are of accounts with an envelope.
LEMMA DropRowsKey ==
  ASSUME IInv, IInv', KeyInv, NEW c \in Clients, DropRows(c)
  PROVE  KeyInv'
<1>1. Typed /\ Client(c) /\ Keeper(c) /\ Alone /\ Identified /\ minted \in Nat
  BY KeysAssumption DEF IInv, KeyInv, Typed, TypedServer
<1>2. PICK a \in Accounts : a = leave[c].account
  BY <1>1, LeaveShape DEF DropRows, Typed, TypedTasks
<1>3. /\ UNCHANGED <<envelope, password, disk, boot, used, minted, session, who, live>>
      /\ \A e \in Clients : e # c => leave'[e] = leave[e]
      /\ leave'[c].pc = "server"
      /\ rows' = rows \/ rows' = [rows EXCEPT ![a] = rows[a] \ {disk[c][s].id : s \in Recoverable(c)}]
  BY <1>1, <1>2 DEF DropRows, Leaving, Typed, TypedTasks, memory
<1>4. \A e \in Clients : e # c => Same(e)
  BY <1>3 DEF Same
<1>5. \A e \in Accounts : /\ rows'[e] \subseteq rows[e] /\ (~Sealed(e) => rows'[e] = rows[e])
                          /\ Sealed(e)' = Sealed(e)
  <2>1. \A s \in Recoverable(c) : disk[c][s].id \in rows[a] => Sealed(a)
    BY <1>1 DEF Recoverable, Keeper, SaltSealed
  <2>2. rows \in [Accounts -> SUBSET Devices]
    BY <1>1 DEF Typed, TypedServer
  <2>3. rows'[a] \subseteq rows[a] /\ (~Sealed(a) => rows'[a] = rows[a])
    BY <1>3, <2>1, <2>2
  <2>4. \A e \in Accounts : e # a => rows'[e] = rows[e]
    BY <1>3, <2>2
  <2> QED BY <1>3, <2>3, <2>4 DEF Sealed
<1>6. Idler(c) /\ Fading(c) /\ minted <= minted'
  BY <1>1, <1>3 DEF Idler, Fading
<1>7. /\ \A e \in Accounts, x \in Devices : x \in rows'[e] \/ Has(c, e, x)' => Of(e, x)
      /\ \A x \in Devices : By(c, x)' => By(c, x)
  BY <1>5, <1>6, IdlerHas DEF Of
<1>8. \A e \in Accounts : Steady(c, e) /\ Untouched(e)
  BY <1>3, <1>5 DEF Steady, Untouched
<1>9. ASSUME NEW e \in Accounts PROVE SoleKey(e)' /\ Anchored(e)'
  <2>1. SoleKey(e) /\ Anchored(e)
    BY DEF KeyInv
  <2>2. \A x \in Devices : x \in rows'[e] \/ Has(c, e, x)' => KeyOf(e, x.key)
    BY <1>7 DEF KeyOf
  <2>3. /\ \A k \in used'[e] : KeyOf(e, k)
        /\ Sealed(e)' => KeyOf(e, envelope'[e].salt.key)
        /\ \A k \in Numbers : Opening(c, e, k)' => KeyOf(e, k)
    BY <1>3, <1>5, <1>6, IdlerHas DEF KeyOf
  <2>4. SoleKey(e)'
    BY <1>4, <2>1, <2>2, <2>3, KeysAfter
  <2>5. Anchored(e)'
    BY <1>3, <1>5, <2>1 DEF Anchored, Reads
  <2> QED BY <2>4, <2>5
<1>10. Alone'
  BY <1>1, <1>3 DEF Alone, Settles
<1>11. Keeper(c)'
  <2>1. OwnSlot(c)'
    <3> SUFFICES ASSUME c \in Phones PROVE OwnSlot(c)'
      BY DEF OwnSlot
    <3>1. \A e \in Accounts : Of(e, disk[c]["phone"].id)' => Of(e, disk[c]["phone"].id)
      BY <1>1, <1>3, <1>4, <1>7, PhoneKept
    <3> QED BY <1>1, <1>3, <3>1 DEF Keeper, OwnSlot, Vouches, VouchSteps
  <2>2. ReadSound(c)'
    <3>1. boot[c].pc # "idle" => boot[c].account \in Accounts
      BY <1>1, TaskShape DEF Typed, TypedTasks
    <3> QED BY <1>1, <1>3, <1>5, <3>1 DEF Keeper, ReadSound, Reads, Sealed
  <2>3. First(c)'
    <3>1. boot[c].pc # "idle" => boot[c].account \in Accounts
      BY <1>1, TaskShape DEF Typed, TypedTasks
    <3> QED BY <1>1, <1>3, <1>5, <3>1 DEF Keeper, First, Writes, Sealed, WriteSteps, Unsent
  <2>4. Recorded(c)' /\ SaltSealed(c)'
    BY <1>1, <1>3, <1>5 DEF Keeper, Recorded, SaltSealed, Sealed
  <2>5. InUse(c)' /\ Unwritten(c)' /\ SaltKnown(c)' /\ Sealing(c)'
    BY <1>1, <1>3 DEF Keeper, InUse, Unwritten, SaltKnown, Sealing, Writes, Vouches, Sealed, WriteSteps,
       VouchSteps, Unsent
  <2> QED BY <2>1, <2>2, <2>3, <2>4, <2>5 DEF Keeper
<1> QED BY <1>1, <1>3, <1>4, <1>6, <1>7, <1>8, <1>9, <1>10, <1>11, StepKept

\* Whoever finds nothing of an account, and is the only one to start, is first.
LEMMA NoKeys ==
  ASSUME KeyInv, NEW c \in Clients, NEW a \in Accounts, boot[c].pc = "decide", boot[c].account = a,
         boot[c].rows = {}, boot[c].envelope.pw = 0
  PROVE  /\ ~Sealed(a) /\ rows[a] = {} /\ used[a] = {}
         /\ \A x \in Devices : ~Of(a, x)
         /\ \A e \in Clients, k \in Numbers : ~Opening(e, a, k)
<1>1. ~Sealed(a) /\ rows[a] = {} /\ used[a] = {}
  BY DEF KeyInv, Keeper, ReadSound, Reads
<1>2. \A e \in Clients : e # c /\ boot[e].pc # "idle" /\ boot[e].account = a
        => boot[e].pc \in {"resolve", "ending"}
  BY DEF KeyInv, Alone, Settles
<1>3. \A e \in Clients, k \in Numbers : ~Opening(e, a, k)
  BY <1>2 DEF Opening, Reads
<1>4. ASSUME NEW x \in Devices, NEW e \in Clients, Has(e, a, x) PROVE FALSE
  <2>1. Keeper(e)
    BY DEF KeyInv
  <2>2. CASE e \in Browsers /\ x # NoDevice /\ disk[e][a].id = x
    BY <1>1, <2>1, <2>2 DEF Keeper, Recorded
  <2>3. CASE Writes(e) /\ boot[e].account = a
    BY <1>2, <2>3 DEF Writes, WriteSteps
  <2>4. CASE Reads(e) /\ boot[e].account = a /\ x \in boot[e].rows
    BY <1>2, <2>4 DEF Reads
  <2>5. CASE e \in Browsers /\ Reads(e) /\ boot[e].account = a /\ x # NoDevice /\ boot[e].mine.id = x
    BY <1>1, <1>2, <2>1, <2>5 DEF Keeper, ReadSound
  <2> QED BY <1>4, <2>2, <2>3, <2>4, <2>5 DEF Has
<1> QED BY <1>1, <1>3, <1>4 DEF Of

\* A device is made for the key in the envelope, or for the first key.
LEMMA WithoutDeviceMakes ==
  ASSUME Typed, minted \in Nat, Typed', NEW c \in Clients, WithoutDevice(c), NEW a \in Accounts,
    a = boot[c].account
  PROVE  /\ minted' \in Nat /\ minted <= minted'
         /\ boot'[c].pc \in {"idle", "seal", "put"}
         /\ boot'[c].pc # "idle" =>
              /\ boot'[c].account = a /\ boot'[c].device \in Devices
              /\ boot'[c].device.id \in minted + 1 .. minted'
              /\ \/ /\ boot[c].envelope.pw # 0 /\ boot'[c].pc = "put"
                    /\ boot'[c].device.key = boot[c].envelope.salt.key
                 \/ /\ boot[c].rows = {} /\ boot[c].envelope.pw = 0 /\ boot'[c].salt = None
                    /\ boot'[c].pc = "seal" => boot'[c].secret # 0
<1>1. minted' \in Nat /\ boot \in [Clients -> Tasks]
  BY KeysAssumption DEF Typed, TypedServer, TypedTasks
<1>2. boot'[c].pc # "idle" => boot'[c].account \in Accounts
  BY TaskShape DEF Typed, TypedTasks
<1>3. CASE /\ Opens(c, boot[c].envelope)
           /\ Mint(1)
           /\ GoTo(c, [pc |-> "put", account |-> boot[c].account, stale |-> FALSE,
                       device |-> [id |-> minted', key |-> boot[c].envelope.salt.key],
                       salt |-> boot[c].envelope.salt, secret |-> 0])
  <2>1. /\ boot'[c].pc = "put" /\ boot'[c].account = a
        /\ boot'[c].device = [id |-> minted', key |-> boot[c].envelope.salt.key]
    BY <1>1, <1>3 DEF GoTo
  <2>2. boot'[c].device.id = minted' /\ boot'[c].device.key = boot[c].envelope.salt.key
    BY <2>1
  <2>3. minted' = minted + 1 /\ boot[c].envelope.pw # 0
    BY <1>3 DEF Mint, Opens
  <2>4. PICK b \in Tasks : b = boot'[c]
    BY DEF Typed, TypedTasks
  <2>5. b.device \in Devices
    BY <2>1, <2>4, TaskShape DEF WriteSteps
  <2> QED BY <1>1, <2>1, <2>2, <2>3, <2>4, <2>5
<1>4. CASE Done(c) /\ UNCHANGED minted
  BY <1>1, <1>4, Constants0 DEF Done, GoTo
<1>5. CASE /\ ~Opens(c, boot[c].envelope)
           /\ ~Lock(boot[c].envelope.pw # 0, boot[c].rows # {})
           /\ Mint(2)
           /\ GoTo(c, [pc |-> IF password[c] # 0 THEN "seal" ELSE "put",
                       account |-> boot[c].account, stale |-> FALSE,
                       device |-> [id |-> minted', key |-> minted' - 1], salt |-> None,
                       secret |-> password[c]])
  <2>1. /\ boot'[c].pc = IF password[c] # 0 THEN "seal" ELSE "put"
        /\ boot'[c].account = a /\ boot'[c].salt = None /\ boot'[c].secret = password[c]
        /\ boot'[c].device = [id |-> minted', key |-> minted' - 1]
    BY <1>1, <1>5 DEF GoTo
  <2>2. boot'[c].device.id = minted'
    BY <2>1
  <2>3. minted' = minted + 2 /\ boot[c].envelope.pw = 0 /\ boot[c].rows = {}
    BY <1>5 DEF Mint, Lock
  <2>4. PICK b \in Tasks : b = boot'[c]
    BY DEF Typed, TypedTasks
  <2>5. b.device \in Devices
    BY <2>1, <2>4, TaskShape DEF WriteSteps
  <2> QED BY <1>1, <2>1, <2>2, <2>3, <2>4, <2>5
<1> QED BY <1>3, <1>4, <1>5 DEF WithoutDevice

\* Only a phone whose key pair is not the row's device takes a row back.
LEMMA WithoutDeviceTakes ==
  ASSUME Typed, Identified, NEW c \in Clients, Keeper(c), WithoutDevice(c), NEW a \in Accounts,
    a = boot[c].account
  PROVE  /\ \A e \in Accounts : rows'[e] \subseteq rows[e]
         /\ \A e \in Accounts : \A x \in rows[e] :
              x \in rows'[e] \/ (e = a /\ c \in Phones /\ boot[c].mine.id = x
                /\ boot[c].mine.priv # x /\ x \in boot[c].rows)
<1>1. boot[c].pc = "decide" /\ boot[c] \in Deciding
  BY TaskShape DEF WithoutDevice, Typed, TypedTasks
<1>2. PICK d \in Devices : d = boot[c].mine.id
  BY <1>1 DEF Deciding, Slot0
<1>3. CASE UNCHANGED rows
  BY <1>3
<1>4. CASE d \in boot[c].rows /\ rows' = [rows EXCEPT ![a] = rows[a] \ {d}]
  <2>1. Reads(c) /\ Of(a, d)
    BY <1>1, <1>4 DEF Reads, Of, Has
  <2>2. d # NoDevice
    BY <2>1, NoneOf
  <2>3. c \in Phones /\ boot[c].mine.priv # d
    BY <1>2, <1>4, <2>1, <2>2 DEF WithoutDevice, DeviceOpens, Keeper, ReadSound, Clients
  <2>4. rows \in [Accounts -> SUBSET Devices]
    BY DEF Typed, TypedServer
  <2> QED BY <1>2, <1>4, <2>3, <2>4
<1> QED BY <1>2, <1>3, <1>4 DEF WithoutDevice

\* A new device has the key that the account has, or the account has none.
LEMMA WithoutDeviceKey ==
  ASSUME IInv, IInv', KeyInv, NEW c \in Clients, WithoutDevice(c)
  PROVE  KeyInv'
<1>1. Typed /\ Client(c) /\ Keeper(c) /\ Alone /\ Identified /\ minted \in Nat /\ Typed'
  BY KeysAssumption DEF IInv, KeyInv, Typed, TypedServer
<1>2. boot[c].pc = "decide" /\ boot[c] \in Deciding
  BY <1>1, TaskShape DEF WithoutDevice, Typed, TypedTasks
<1>3. PICK a \in Accounts : a = boot[c].account
  BY <1>2 DEF Deciding
<1>4. /\ UNCHANGED <<envelope, password, disk, used, session, who, live>>
      /\ \A e \in Clients : e # c => boot'[e] = boot[e] /\ leave'[e] = leave[e]
      /\ leave'[c] = leave[c] \/ leave'[c].pc = "row"
  <2>1. UNCHANGED <<envelope, password, disk, used, session, who, live>>
    BY DEF WithoutDevice, memory
  <2>2. \A e \in Clients : e # c => boot'[e] = boot[e] /\ leave'[e] = leave[e]
    BY <1>1 DEF WithoutDevice, GoTo, Done, Typed, TypedTasks
  <2>3. leave'[c] = leave[c] \/ leave'[c].pc = "row"
    BY <1>1 DEF WithoutDevice, Typed, TypedTasks
  <2> QED BY <2>1, <2>2, <2>3
<1>5. /\ minted' \in Nat /\ minted <= minted'
      /\ boot'[c].pc \in {"idle", "seal", "put"}
      /\ boot'[c].pc # "idle" =>
           /\ boot'[c].account = a /\ boot'[c].device \in Devices
           /\ boot'[c].device.id \in minted + 1 .. minted'
           /\ \/ /\ boot[c].envelope.pw # 0 /\ boot'[c].pc = "put"
                 /\ boot'[c].device.key = boot[c].envelope.salt.key
              \/ /\ boot[c].rows = {} /\ boot[c].envelope.pw = 0 /\ boot'[c].salt = None
                 /\ boot'[c].pc = "seal" => boot'[c].secret # 0
  BY <1>1, <1>3, WithoutDeviceMakes
<1>6. /\ \A e \in Accounts : rows'[e] \subseteq rows[e]
      /\ \A e \in Accounts : \A x \in rows[e] :
           x \in rows'[e] \/ (e = a /\ c \in Phones /\ boot[c].mine.id = x /\ boot[c].mine.priv # x
             /\ x \in boot[c].rows)
  BY <1>1, <1>3, WithoutDeviceTakes
<1>7. \A e \in Clients : e # c => Same(e)
  BY <1>4 DEF Same
<1>8. Reads(c) /\ ~Settles(c) /\ ~Reads(c)' /\ ~Vouches(c)' /\ (Writes(c)' => boot'[c].pc # "idle")
  BY <1>2, <1>5 DEF Reads, Settles, Vouches, Writes, WriteSteps, VouchSteps
<1>9. /\ \A e \in Accounts, x \in Devices :
           x \in rows'[e] \/ Has(c, e, x)' => Of(e, x) \/ (e = a /\ x = boot'[c].device /\ Writes(c)')
      /\ \A x \in Devices : By(c, x)' => By(c, x) \/ (x = boot'[c].device /\ Writes(c)')
  BY <1>4, <1>5, <1>6, <1>8 DEF Of, Has, By
<1>10. \A e \in Accounts : /\ Steady(c, e) /\ (e # a => Untouched(e)) /\ Sealed(e)' = Sealed(e)
  <2>1. \A e \in Accounts : \A x \in rows[e] : x \in rows'[e] \/ (By(c, x) /\ e = a)
    BY <1>1, <1>3, <1>6, <1>8, NoneOf DEF By, Of, Has
  <2> QED BY <1>4, <1>6, <2>1 DEF Steady, Untouched, Sealed
<1>11. \A e \in Accounts : Anchored(e)'
  <2>1. ASSUME NEW e \in Accounts PROVE Anchored(e)'
    <3>1. Anchored(e) /\ Fading(c) /\ rows[e] \subseteq Devices
      BY <1>1, <1>4 DEF KeyInv, Fading, Typed, TypedServer
    <3> QED BY <1>1, <1>4, <1>6, <1>7, <1>8, <1>10, <3>1, AnchoredKept
  <2> QED BY <2>1
<1>12. ASSUME NEW e \in Accounts PROVE SoleKey(e)'
  <2>1. SoleKey(e)
    BY DEF KeyInv
  <2>2. /\ \A k \in used'[e] : KeyOf(e, k)
        /\ Sealed(e)' => KeyOf(e, envelope'[e].salt.key)
        /\ \A k \in Numbers : Opening(c, e, k)' => KeyOf(e, k)
    BY <1>4, <1>8, <1>10 DEF KeyOf, Opening
  <2>3. CASE e # a \/ boot[c].envelope.pw # 0 \/ boot'[c].pc = "idle"
    <3>1. boot'[c].pc # "idle" /\ boot[c].envelope.pw # 0 => KeyOf(a, boot'[c].device.key)
      BY <1>3, <1>5, <1>8 DEF KeyOf, Opening
    <3>2. \A x \in Devices : x \in rows'[e] \/ Has(c, e, x)' => KeyOf(e, x.key)
      BY <1>8, <1>9, <2>3, <3>1 DEF KeyOf
    <3> QED BY <1>7, <2>1, <2>2, <3>2, KeysAfter
  <2>4. CASE e = a /\ boot[c].envelope.pw = 0 /\ boot'[c].pc # "idle"
    <3>1. boot[c].rows = {}
      BY <1>5, <2>4
    <3>2. /\ ~Sealed(a) /\ rows[a] = {} /\ used[a] = {}
          /\ \A x \in Devices : ~Of(a, x)
          /\ \A f \in Clients, k \in Numbers : ~Opening(f, a, k)
      BY <1>2, <1>3, <2>4, <3>1, NoKeys
    <3>3. ASSUME NEW x \in Devices, Of(a, x)' PROVE x = boot'[c].device
      <4>1. x \in rows'[a] \/ Has(c, a, x)' \/ Of(a, x)
        BY <1>7, <3>3, DevicesAfter
      <4> QED BY <1>9, <3>2, <4>1
    <3>4. \A f \in Clients, k \in Numbers : ~Opening(f, a, k)'
      BY <1>7, <1>8, <3>2, DevicesAfter DEF Opening
    <3>5. ~Sealed(a)' /\ used'[a] = {}
      BY <1>4, <3>2 DEF Sealed
    <3>6. \A k \in Numbers : KeyOf(a, k)' => k = boot'[c].device.key
      BY <3>3, <3>4, <3>5 DEF KeyOf
    <3> QED BY <2>4, <3>6 DEF SoleKey
  <2> QED BY <2>3, <2>4
<1>13. Alone'
  BY <1>1, <1>2, <1>3, <1>5, <1>7, <1>8, AloneKept
<1>14. Keeper(c)'
  <2>1. OwnSlot(c)'
    <3> SUFFICES ASSUME c \in Phones PROVE OwnSlot(c)'
      BY DEF OwnSlot
    <3>1. \A e \in Accounts, x \in Devices : x \in rows'[e] \/ Has(c, e, x)' => Of(e, x) \/ x.id > minted
      BY <1>1, <1>5, <1>8, <1>9
    <3>2. \A e \in Accounts : Of(e, disk[c]["phone"].id)' => Of(e, disk[c]["phone"].id)
      BY <1>1, <1>4, <1>7, <3>1, PhoneKept
    <3> QED BY <1>1, <1>4, <1>5, <1>8, <3>2 DEF Keeper, OwnSlot
  <2>2. SaltKnown(c)'
    <3>1. boot[c].envelope.pw # 0 => Sealed(a)
      BY <1>1, <1>3, <1>8 DEF Keeper, ReadSound
    <3> QED BY <1>4, <1>5, <1>8, <3>1 DEF SaltKnown, Sealed
  <2>3. First(c)'
    <3> SUFFICES ASSUME Writes(c)', ~Sealed(a)' PROVE First(c)'
      BY <1>5, <1>8 DEF First, Sealed, Unsent
    <3>1. ~Sealed(a)
      BY <1>10
    <3>2. boot[c].envelope.pw = 0 /\ boot[c].rows = {}
      BY <1>1, <1>3, <1>5, <1>8, <3>1 DEF Keeper, ReadSound
    <3>3. rows[a] = {} /\ used[a] = {}
      BY <1>2, <1>3, <3>2, NoKeys
    <3> QED BY <1>4, <1>5, <1>6, <1>8, <3>3 DEF First, Unsent
  <2>4. Recorded(c)'
    <3>1. c \in Browsers => rows[a] = rows'[a] /\ \A e \in Accounts : rows[e] \subseteq rows'[e]
      BY <1>6, KeysAssumption
    <3> QED BY <1>1, <1>4, <1>10, <3>1 DEF Keeper, Recorded
  <2>5. SaltSealed(c)'
    BY <1>1, <1>4, <1>6, <1>10 DEF Keeper, SaltSealed
  <2>6. Unwritten(c)'
    <3>1. ASSUME NEW s \in Slots(c), Writes(c)', disk[c][s].id = boot'[c].device PROVE FALSE
      <4>1. PICK d \in Devices : d = disk[c][s].id
        BY <1>1 DEF Typed, TypedDisk, Slot0
      <4>2. d # NoDevice => d.id \in 1 .. minted
        BY <1>1, <4>1 DEF By, Identified, Numbered
      <4> QED BY <1>1, <1>5, <1>8, <3>1, <4>1, <4>2 DEF NoDevice
    <3> QED BY <1>4, <3>1 DEF Unwritten, Writes, WriteSteps, Unsent
  <2>7. InUse(c)' /\ ReadSound(c)' /\ Sealing(c)'
    <3>1. boot'[c].pc = "seal" => boot'[c].secret # 0
      BY <1>5
    <3> QED BY <1>1, <1>4, <1>5, <1>8, <3>1 DEF Keeper, InUse, ReadSound, Sealing
  <2> QED BY <2>1, <2>2, <2>3, <2>4, <2>5, <2>6, <2>7 DEF Keeper
<1>15. /\ \A e \in Accounts, x \in Devices :
            x \in rows'[e] \/ Has(c, e, x)' => Of(e, x) \/ (e = a /\ x.id \in minted + 1 .. minted')
       /\ \A x \in Devices : By(c, x)' => By(c, x) \/ x.id \in minted + 1 .. minted'
  BY <1>5, <1>8, <1>9
<1> QED BY <1>1, <1>2, <1>3, <1>4, <1>5, <1>7, <1>8, <1>10, <1>11, <1>12, <1>13, <1>14, <1>15, StepKept

\* A write puts a device where no account but its own has one, and the last
\* one starts to use the key of a device that has its row.
LEMMA WrittenKey ==
  ASSUME IInv, IInv', KeyInv, NEW c \in Clients, NEW f, NEW t, NEW n \in Slot0, Write(c, f, t, n),
         \/ f = "sealed" /\ t = "put" /\ n.id = NoDevice /\ n.priv = NoDevice
         \/ /\ f \in {"clearSalt", "writeId", "writeKey", "writeSalt", "record"}
            /\ t \in {"writeId", "writeKey", "writeSalt", "active"},
         n.id \in {Stored(c, boot[c].account).id, boot[c].device},
         n.priv = Stored(c, boot[c].account).priv \/ n.id \in {boot[c].device, NoDevice},
         t = "writeKey" => n.id \in {boot[c].device, NoDevice},
         t \in {"writeSalt", "active"} => n.id = NoDevice \/ (n.id = boot[c].device
           /\ n.priv = boot[c].device),
         n.salt # None => Sealed(boot[c].account) /\ n.id \in {boot[c].device, NoDevice},
         c \in Browsers => n.id = boot[c].device /\ n.priv = boot[c].device
  PROVE  KeyInv'
<1>1. Typed /\ Client(c) /\ Keeper(c) /\ Alone /\ Identified /\ minted \in Nat
  BY KeysAssumption DEF IInv, KeyInv, Typed, TypedServer
<1>2. /\ boot[c].pc = f /\ boot[c] \in Writing
      /\ \A e \in Clients : e # c => Same(e)
      /\ UNCHANGED <<scenario, pw, envelope, rows, live, who, leave, minted, acts>>
  BY <1>1, WriteFacts
<1>3. PICK a \in Accounts : a = boot[c].account
  BY <1>2 DEF Writing
<1>4. PICK d \in Devices : d = boot[c].device
  BY <1>2 DEF Writing
<1>5. PICK s \in Slots(c) : s = Slot(c, a) /\ Stored(c, a) = disk[c][s] /\ (c \in Browsers => s = a)
        /\ (c \in Phones => s = "phone")
  BY SlotIs, KeysAssumption DEF Stored, Slot
<1>6. /\ disk'[c][s] = n /\ \A r \in Slots(c) : r # s => disk'[c][r] = disk[c][r]
      /\ t = "active" => boot'[c].pc = "idle"
      /\ t # "active" => /\ boot'[c].pc = t /\ boot'[c].account = a
                         /\ boot'[c].device = d /\ boot'[c].salt = boot[c].salt
  BY <1>1, <1>3, <1>4, <1>5, WriteFacts
<1>7. session[c] = 0
  BY <1>1, <1>2 DEF Client, SessionSound, VouchSteps
<1>8. \/ used' = used /\ session'[c] = 0
      \/ t = "active" /\ used' = [used EXCEPT ![a] = used[a] \cup {d.key}] /\ session'[c] = d.key
  <2>1. CASE t = "active"
    BY <1>1, <1>3, <1>4, <1>7, <2>1 DEF Write, Activate, memory, Typed, TypedClients
  <2>2. CASE t # "active"
    BY <1>7, <2>2 DEF Write, memory
  <2> QED BY <2>1, <2>2
<1>9. Writes(c) /\ ~Settles(c) /\ ~Reads(c)' /\ ~Vouches(c)' /\ minted <= minted'
  BY <1>1, <1>2, <1>6 DEF Writes, Settles, Reads, Vouches, WriteSteps, VouchSteps
<1>10. /\ Of(a, d) /\ By(c, d) /\ d # NoDevice
       /\ \A e \in Accounts : Of(e, d) => e = a
       /\ \A e \in Clients : By(e, d) => e = c
       /\ ~Sealed(a) => used[a] = {} /\ rows[a] \subseteq {d} /\ (f # "sealed" => d \in rows[a])
  <2>1. Of(a, d) /\ By(c, d)
    BY <1>3, <1>4, <1>9 DEF Of, Has, By
  <2>2. d # NoDevice
    BY <1>1, <2>1, NoneOf
  <2>3. ~Sealed(a) => used[a] = {} /\ rows[a] \subseteq {d} /\ (f # "sealed" => d \in rows[a])
    BY <1>1, <1>2, <1>3, <1>4, <1>9 DEF Keeper, First, Unsent
  <2> QED BY <1>1, <2>1, <2>2, <2>3 DEF Identified, OneAccount, OneClient
<1>11. n.id \in {disk[c][s].id, d} /\ (n.id # NoDevice => By(c, n.id))
  BY <1>3, <1>4, <1>5, <1>10 DEF By
<1>12. /\ \A e \in Accounts, x \in Devices : x \in rows'[e] \/ Has(c, e, x)' => Of(e, x)
       /\ \A x \in Devices : By(c, x)' => By(c, x)
  <2>1. ASSUME NEW e \in Accounts, NEW x \in Devices, x \in rows'[e] \/ Has(c, e, x)' PROVE Of(e, x)
    <3>1. CASE x \in rows'[e]
      BY <1>2, <3>1 DEF Of
    <3>2. CASE Writes(c)' /\ boot'[c].account = e /\ boot'[c].device = x
      BY <1>6, <1>10, <3>2 DEF Writes, WriteSteps
    <3>3. CASE c \in Browsers /\ x # NoDevice /\ disk'[c][e].id = x
      <4>1. e \in Slots(c)
        BY <3>3, KeysAssumption DEF Slots
      <4>2. CASE e = a
        BY <1>4, <1>5, <1>6, <1>10, <3>3, <4>2
      <4>3. CASE e # a
        BY <1>5, <1>6, <3>3, <4>1, <4>3 DEF Of, Has
      <4> QED BY <4>2, <4>3
    <3> QED BY <1>9, <2>1, <3>1, <3>2, <3>3 DEF Has
  <2>2. ASSUME NEW x \in Devices, By(c, x)' PROVE By(c, x)
    BY <1>6, <1>9, <1>10, <1>11, <2>2 DEF By, Writes, WriteSteps
  <2> QED BY <2>1, <2>2
<1>13. \A e \in Accounts : /\ Steady(c, e) /\ (e # a => Untouched(e)) /\ Sealed(e)' = Sealed(e)
                           /\ (e # a => used'[e] = used[e])
  BY <1>1, <1>2, <1>8 DEF Steady, Untouched, Sealed, Typed, TypedClients
<1>14. ASSUME NEW e \in Accounts PROVE SoleKey(e)'
  <2>1. SoleKey(e)
    BY DEF KeyInv
  <2>2. \A x \in Devices : x \in rows'[e] \/ Has(c, e, x)' => KeyOf(e, x.key)
    BY <1>12 DEF KeyOf
  <2>3. \A k \in used'[e] : KeyOf(e, k)
    BY <1>1, <1>8, <1>10 DEF KeyOf, Typed, TypedClients
  <2>4. /\ Sealed(e)' => KeyOf(e, envelope'[e].salt.key)
        /\ \A k \in Numbers : Opening(c, e, k)' => KeyOf(e, k)
    BY <1>2, <1>9, <1>13 DEF KeyOf, Opening
  <2> QED BY <1>2, <2>1, <2>2, <2>3, <2>4, KeysAfter
<1>15. ASSUME NEW e \in Accounts PROVE Anchored(e)'
  <2>1. CASE e # a
    <3> SUFFICES ASSUME used'[e] # {}, ~Sealed(e)' PROVE Anchored(e)'
      BY DEF Anchored
    <3>1. PICK x \in rows[e] : \A p \in Phones :
            /\ disk[p]["phone"].id = x => disk[p]["phone"].priv = x
            /\ Reads(p) /\ boot[p].mine.id = x => boot[p].mine.priv = x
      BY <1>13, <2>1 DEF KeyInv, Anchored
    <3>2. x # NoDevice /\ x # d
      BY <1>1, <1>10, <2>1, <3>1, NoneOf DEF Of
    <3>3. ASSUME NEW p \in Phones
          PROVE  /\ disk'[p]["phone"].id = x => disk'[p]["phone"].priv = x
                 /\ Reads(p)' /\ boot'[p].mine.id = x => boot'[p].mine.priv = x
      <4>1. CASE p # c
        BY <1>2, <3>1, <4>1 DEF Same, Clients, Reads
      <4>2. CASE p = c
        BY <1>3, <1>4, <1>5, <1>6, <1>9, <3>1, <3>2, <4>2
      <4> QED BY <4>1, <4>2
    <3> QED BY <1>2, <3>1, <3>3 DEF Anchored
  <2>2. CASE e = a /\ used' = used
    BY <1>10, <1>13, <2>2 DEF Anchored
  <2>3. CASE e = a /\ used' # used
    <3> SUFFICES ASSUME ~Sealed(a)' PROVE Anchored(a)'
      BY <2>3 DEF Anchored
    <3>1. d \in rows'[a] /\ t = "active"
      BY <1>2, <1>8, <1>10, <1>13, <2>3 DEF Sealed
    <3>2. ASSUME NEW p \in Phones
          PROVE  /\ disk'[p]["phone"].id = d => disk'[p]["phone"].priv = d
                 /\ Reads(p)' /\ boot'[p].mine.id = d => boot'[p].mine.priv = d
      <4>1. CASE p # c
        <5>1. ~By(p, d) /\ Same(p)
          BY <1>2, <1>10, <4>1 DEF Clients
        <5>2. disk'[p]["phone"].id # d /\ ~(Reads(p)' /\ boot'[p].mine.id = d)
          BY <1>10, <5>1 DEF By, Same, Slots, Reads
        <5> QED BY <5>2
      <4>2. CASE p = c
        BY <1>4, <1>5, <1>6, <1>9, <1>10, <3>1, <4>2
      <4> QED BY <4>1, <4>2
    <3> QED BY <3>1, <3>2 DEF Anchored
  <2> QED BY <2>1, <2>2, <2>3
<1>16. Alone'
  <2>1. boot'[c].pc = "idle" \/ (boot[c].pc # "idle" /\ boot'[c].account = boot[c].account)
    BY <1>2, <1>3, <1>6
  <2> QED BY <1>1, <1>2, <1>9, <2>1, AloneKept
<1>17. Keeper(c)'
  <2>1. who[c] \in {"nobody", a}
    BY <1>1, <1>2, <1>3 DEF Client, BootsOwn
  <2>2. InUse(c)'
    BY <1>1, <1>2, <1>8, <2>1 DEF InUse, Typed, TypedClients
  <2>3. Recorded(c)'
    <3> SUFFICES ASSUME c \in Browsers, NEW e \in Accounts
                 PROVE  /\ disk'[c][e].priv = disk'[c][e].id
                        /\ disk'[c][e].id # NoDevice /\ ~Sealed(e)' => disk'[c][e].id \in rows'[e]
      BY DEF Recorded
    <3>1. e \in Slots(c)
      BY KeysAssumption DEF Slots
    <3>2. CASE e = a
      BY <1>2, <1>4, <1>5, <1>6, <1>10, <1>13, <3>2
    <3>3. CASE e # a
      BY <1>1, <1>2, <1>5, <1>6, <1>13, <3>1, <3>3 DEF Keeper, Recorded
    <3> QED BY <3>2, <3>3
  <2>4. SaltSealed(c)'
    <3>1. ASSUME NEW r \in Slots(c), NEW e \in Accounts, disk'[c][r].salt # None, disk'[c][r].id \in rows[e]
          PROVE  Sealed(e)
      <4>1. CASE r = s
        <5>1. n.id = d /\ Sealed(a)
          BY <1>1, <1>3, <1>4, <1>6, <3>1, <4>1, NoneOf
        <5> QED BY <1>6, <1>10, <3>1, <4>1, <5>1 DEF Of
      <4>2. CASE r # s
        BY <1>1, <1>6, <3>1, <4>2 DEF Keeper, SaltSealed
      <4> QED BY <4>1, <4>2
    <3> QED BY <1>2, <1>13, <3>1 DEF SaltSealed
  <2>5. First(c)'
    <3>1. boot'[c].pc = "idle" \/ (boot'[c].account = a /\ boot'[c].device = d /\ boot'[c].pc = t)
      BY <1>6
    <3>2. t # "active" => used' = used
      BY <1>8
    <3>3. ~Sealed(a)' => used[a] = {} /\ rows'[a] \subseteq {d} /\ (t # "put" => d \in rows'[a])
      BY <1>2, <1>10, <1>13
    <3> QED BY <1>6, <3>1, <3>2, <3>3 DEF First, Writes, Sealed, WriteSteps, Unsent
  <2>6. SaltKnown(c)'
    <3>1. boot[c].salt # None => Sealed(a)
      BY <1>1, <1>2, <1>3, <1>9 DEF Keeper, SaltKnown
    <3> QED BY <1>2, <1>6, <1>9, <3>1 DEF SaltKnown, Sealed, Writes, WriteSteps
  <2>7. OwnSlot(c)'
    <3> SUFFICES ASSUME c \in Phones PROVE OwnSlot(c)'
      BY DEF OwnSlot
    <3>1. disk'[c]["phone"] = n
      BY <1>5, <1>6
    <3>2. session'[c] # 0 => n.id \in {NoDevice, d}
      BY <1>4, <1>8
    <3>3. ASSUME NEW e \in Accounts, session'[c] # 0, Of(e, n.id)' PROVE e = a
      <4>1. n.id \in Devices
        BY SlotFields
      <4>2. Of(e, n.id)
        BY <1>2, <1>12, <3>3, <4>1, DevicesAfter
      <4> QED BY <1>1, <1>10, <3>2, <3>3, <4>2, NoneOf
    <3>4. session'[c] # 0 /\ who'[c] # "nobody" =>
            \A e \in Accounts : Of(e, disk[c]["phone"].id)' => e = who'[c]
      BY <1>2, <2>1, <3>1, <3>3
    <3>5. boot'[c].pc = "writeKey" => disk'[c]["phone"].id \in {boot'[c].device, NoDevice}
      BY <1>4, <1>6, <3>1
    <3>6. boot'[c].pc = "writeSalt" =>
            \/ disk'[c]["phone"].id = NoDevice
            \/ disk'[c]["phone"].id = boot'[c].device /\ disk'[c]["phone"].priv = boot'[c].device
      BY <1>4, <1>6, <3>1
    <3> QED BY <1>9, <3>4, <3>5, <3>6 DEF OwnSlot
  <2>8. ReadSound(c)' /\ Sealing(c)'
    BY <1>1, <1>2, <1>6, <1>9 DEF Keeper, ReadSound, Sealing
  <2>9. Unwritten(c)'
    <3>1. t = "put" => \A r \in Slots(c) : disk[c][r].id # d
      BY <1>1, <1>2, <1>4 DEF Keeper, Unwritten, Unsent
    <3>2. t = "put" => \A r \in Slots(c) : disk'[c][r].id # d
      BY <1>6, <1>10, <3>1
    <3> QED BY <1>6, <3>2 DEF Unwritten, Unsent
  <2> QED BY <2>2, <2>3, <2>4, <2>5, <2>6, <2>7, <2>8, <2>9 DEF Keeper
<1> QED BY <1>1, <1>2, <1>3, <1>9, <1>12, <1>13, <1>14, <1>15, <1>16, <1>17, StepKept

\* A phone writes what it is about to use, part by part.
LEMMA WriteDiskKey ==
  ASSUME IInv, IInv', KeyInv, ~May("over"), NEW c \in Clients, WriteDisk(c)
  PROVE  KeyInv'
<1>0. Typed /\ Client(c) /\ Keeper(c)
  BY DEF IInv, KeyInv
<1>1. /\ boot[c].pc \in {"sealed", "clearSalt", "writeId", "writeKey", "writeSalt"} /\ boot[c] \in Writing
      /\ boot[c].account \in Accounts /\ boot[c].device \in Devices /\ boot[c].salt \in Salts
  BY <1>0, ClientTyped, TaskShape DEF WriteDisk, Writing, WriteSteps
<1>2. c \in Phones /\ c \notin Browsers
  BY <1>0, <1>1, KeysAssumption DEF Typed, TypedTasks
<1>3. PICK d \in Slot0 : d = Stored(c, boot[c].account)
  BY <1>0, <1>1, ClientTyped
<1>4. /\ boot[c].salt # None => Sealed(boot[c].account)
      /\ boot[c].pc \in {"writeId", "writeKey", "writeSalt"} => d.salt = None
      /\ boot[c].pc = "writeKey" => d.id \in {boot[c].device, NoDevice}
      /\ boot[c].pc = "writeSalt" => d.id = NoDevice \/ (d.id = boot[c].device /\ d.priv = boot[c].device)
      /\ boot[c].pc = "sealed" => d.id = NoDevice /\ d.priv = NoDevice
  <2>1. d = disk[c]["phone"]
    BY <1>2, <1>3 DEF Stored, Slot
  <2>2. boot[c].salt # None => Sealed(boot[c].account)
    BY <1>0, <1>1 DEF Keeper, SaltKnown, Writes, WriteSteps
  <2> QED BY <1>0, <1>1, <1>2, <1>3, <2>1, <2>2 DEF Client, TaskSound, Trusted, KeepsNone, Keeper, OwnSlot
<1>5. CASE Write(c, "sealed", "put", [d EXCEPT !.salt = boot[c].salt])
  <2>1. PICK n \in Slot0 : n = [d EXCEPT !.salt = boot[c].salt] /\ n.salt = boot[c].salt /\ n.id = d.id
                           /\ n.priv = d.priv
    BY <1>1, SlotSalted
  <2>2. boot[c].pc = "sealed"
    BY <1>5 DEF Write
  <2> QED BY <1>2, <1>3, <1>4, <1>5, <2>1, <2>2, WrittenKey
<1>6. CASE Write(c, "clearSalt", "writeId", [d EXCEPT !.salt = None])
  <2>1. PICK n \in Slot0 : n = [d EXCEPT !.salt = None] /\ n.salt = None /\ n.id = d.id /\ n.priv = d.priv
    BY SlotSalted, Constants0
  <2> QED BY <1>2, <1>3, <1>6, <2>1, WrittenKey
<1>7. CASE Write(c, "writeId", "writeKey", [d EXCEPT !.id = boot[c].device])
  <2>1. PICK n \in Slot0 : /\ n = [d EXCEPT !.id = boot[c].device] /\ n.salt = d.salt /\ n.priv = d.priv
                           /\ n.id = boot[c].device
    BY <1>1, SlotKeyed
  <2>2. boot[c].pc = "writeId"
    BY <1>7 DEF Write
  <2> QED BY <1>2, <1>3, <1>4, <1>7, <2>1, <2>2, WrittenKey
<1>8. CASE Write(c, "writeKey", "writeSalt", [d EXCEPT !.priv = boot[c].device])
  <2>1. PICK n \in Slot0 : /\ n = [d EXCEPT !.priv = boot[c].device] /\ n.salt = d.salt /\ n.id = d.id
                           /\ n.priv = boot[c].device
    BY <1>1, SlotKeyed
  <2>2. boot[c].pc = "writeKey"
    BY <1>8 DEF Write
  <2> QED BY <1>2, <1>3, <1>4, <1>8, <2>1, <2>2, WrittenKey
<1>9. CASE Write(c, "writeSalt", "active",
        [d EXCEPT !.salt = IF boot[c].salt = None THEN @ ELSE boot[c].salt])
  <2>1. PICK v \in Salts : v = IF boot[c].salt = None THEN d.salt ELSE boot[c].salt
    BY <1>1, SlotFields
  <2>2. PICK n \in Slot0 : n = [d EXCEPT !.salt = v] /\ n.salt = v /\ n.id = d.id /\ n.priv = d.priv
    BY SlotSalted
  <2>3. boot[c].pc = "writeSalt"
    BY <1>9 DEF Write
  <2>4. n = [d EXCEPT !.salt = IF boot[c].salt = None THEN @ ELSE boot[c].salt]
    BY <2>1, <2>2
  <2>5. Write(c, "writeSalt", "active", n)
    BY <1>9, <2>4
  <2>6. n.salt # None => Sealed(boot[c].account)
    BY <1>4, <2>1, <2>2, <2>3
  <2> QED BY <1>2, <1>3, <1>4, <2>2, <2>3, <2>5, <2>6, WrittenKey
<1> QED BY <1>3, <1>5, <1>6, <1>7, <1>8, <1>9 DEF WriteDisk

\* A browser writes all of it at once.
LEMMA WriteRecordKey ==
  ASSUME IInv, IInv', KeyInv, NEW c \in Clients, WriteRecord(c)
  PROVE  KeyInv'
<1>0. Typed /\ Client(c) /\ Keeper(c)
  BY DEF IInv, KeyInv
<1>1. /\ boot[c].pc = "record" /\ boot[c] \in Writing /\ boot[c].device \in Devices /\ boot[c].salt \in Salts
  BY <1>0, ClientTyped, TaskShape DEF WriteRecord, Writing, WriteSteps
<1>2. boot[c].salt # None => Sealed(boot[c].account)
  BY <1>0, <1>1 DEF Keeper, SaltKnown, Writes, WriteSteps
<1>3. PICK n \in Slot0 : /\ n = [id |-> boot[c].device, priv |-> boot[c].device, salt |-> boot[c].salt]
                         /\ n.id = boot[c].device /\ n.priv = boot[c].device /\ n.salt = boot[c].salt
  <2>1. PICK v \in Devices, s \in Salts : v = boot[c].device /\ s = boot[c].salt
    BY <1>1
  <2>2. [id |-> v, priv |-> v, salt |-> s] \in Slot0
    BY DEF Slot0
  <2> QED BY <2>1, <2>2
<1>4. Write(c, "record", "active", n)
  BY <1>3 DEF WriteRecord
<1> QED BY <1>2, <1>3, <1>4, WrittenKey

-----------------------------------------------------------------------------
(* One key for each account *)

\* At first no account has a key.
LEMMA InitKey ==
  ASSUME Init
  PROVE  KeyInv
<1>1. \A c \in Clients : /\ boot[c].pc = "idle" /\ leave[c].pc = "idle" /\ session[c] = 0 /\ who[c] = "nobody"
                         /\ \A s \in Slots(c) : disk[c][s] = Empty
  BY Constants0 DEF Init
<1>2. Empty.id = NoDevice /\ Empty.priv = NoDevice /\ Empty.salt = None /\ minted = 0
  BY DEF Empty, Init
<1>3. \A a \in Accounts : rows[a] = {} /\ used[a] = {} /\ ~Sealed(a)
  BY DEF Init, Sealed, NoEnvelope
<1>4. \A c \in Clients : ~Reads(c) /\ ~Writes(c) /\ ~Vouches(c)
  BY <1>1 DEF Reads, Writes, Vouches, WriteSteps, VouchSteps
<1>5. /\ \A c \in Clients, a \in Accounts : c \in Browsers => a \in Slots(c)
      /\ \A c \in Phones : c \in Clients /\ "phone" \in Slots(c)
  BY KeysAssumption DEF Slots, Clients
<1>6. \A a \in Accounts, d \in Devices : ~Of(a, d)
  BY <1>1, <1>2, <1>3, <1>4, <1>5 DEF Of, Has
<1>7. \A c \in Clients, d \in Devices : ~By(c, d)
  BY <1>1, <1>2, <1>4 DEF By
<1>8. \A a \in Accounts, k \in Numbers : ~KeyOf(a, k)
  BY <1>3, <1>4, <1>6 DEF KeyOf, Opening
<1>9. \A a \in Accounts : SoleKey(a) /\ Anchored(a)
  BY <1>3, <1>8 DEF SoleKey, Anchored
<1>10. Identified /\ Alone
  BY <1>1, <1>6, <1>7 DEF Identified, Numbered, OneAccount, OneClient, Alone
<1>11. ASSUME NEW c \in Clients PROVE Keeper(c)
  <2>1. Recorded(c) /\ SaltSealed(c)
    BY <1>1, <1>2, <1>3, <1>5 DEF Recorded, SaltSealed
  <2>2. InUse(c) /\ First(c) /\ ReadSound(c) /\ Unwritten(c) /\ SaltKnown(c) /\ OwnSlot(c)
          /\ Sealing(c)
    BY <1>1, <1>4 DEF InUse, First, ReadSound, Unwritten, SaltKnown, OwnSlot, Sealing, Unsent
  <2> QED BY <2>1, <2>2 DEF Keeper
<1> QED BY <1>9, <1>10, <1>11 DEF KeyInv

\* Every step keeps KeyInv, while starts do not race.
LEMMA NextKey ==
  ASSUME IInv, IInv', KeyInv, ~May("race"), ~May("over"), Next
  PROVE  KeyInv'
<1>1. PICK c \in Clients :
        \/ \E a \in Accounts : SignIn(c, a)
        \/ Restart(c) \/ Fails(c) \/ Fetch(c) \/ GiveUp(c)
        \/ UseDevice(c) \/ Reupload(c) \/ Reuploaded(c) \/ Resolve(c)
        \/ Ask(c) \/ Reseal(c) \/ Seal(c)
        \/ WithoutDevice(c) \/ PutDevice(c) \/ WriteDisk(c) \/ WriteRecord(c)
        \/ ChangePassword(c) \/ Revoke(c)
        \/ SignOut(c) \/ DropRows(c) \/ ServerSignOut(c) \/ SessionEnded(c)
        \/ CheckSalt(c) \/ Forget(c) \/ ForgetSalt(c)
  BY DEF Next
<1>2. CASE \E a \in Accounts : SignIn(c, a)
  BY <1>2, SignInKey
<1>3. CASE Restart(c) \/ Fails(c) \/ Fetch(c) \/ GiveUp(c)
  BY <1>3, RestartKey, DoneKey, FetchKey
<1>4. CASE UseDevice(c) \/ Reupload(c) \/ Reuploaded(c) \/ Resolve(c) \/ Reseal(c)
  BY <1>4, UseDeviceKey, ReuploadKey, ReuploadedKey, ResolveKey, ResealKey
<1>5. CASE Ask(c) \/ WithoutDevice(c) \/ Seal(c) \/ PutDevice(c) \/ WriteDisk(c) \/ WriteRecord(c)
  BY <1>5, AskKey, WithoutDeviceKey, SealKey, PutDeviceKey, WriteDiskKey, WriteRecordKey
<1>6. CASE ChangePassword(c) \/ Revoke(c) \/ DropRows(c)
  BY <1>6, ChangePasswordKey, RevokeKey, DropRowsKey
<1>7. CASE SignOut(c) \/ ServerSignOut(c) \/ SessionEnded(c) \/ CheckSalt(c) \/ Forget(c) \/ ForgetSalt(c)
  BY <1>7, SignOutKey, SessionEndedKey, CheckSaltKey, ForgetKey
<1> QED BY <1>1, <1>2, <1>3, <1>4, <1>5, <1>6, <1>7

\* The invariant of an account's key, while starts do not race.
KeyIInv == IInv /\ (~May("race") /\ ~May("over") => KeyInv)

\* What may happen stays as it was chosen.
LEMMA StaysInScenario == Next => scenario' = scenario
<1> SUFFICES ASSUME Next PROVE scenario' = scenario
  OBVIOUS
<1>1. PICK c \in Clients :
        \/ \E a \in Accounts : SignIn(c, a)
        \/ Restart(c) \/ Fails(c) \/ Fetch(c) \/ GiveUp(c)
        \/ UseDevice(c) \/ Reupload(c) \/ Reuploaded(c) \/ Resolve(c)
        \/ Ask(c) \/ Reseal(c) \/ Seal(c)
        \/ WithoutDevice(c) \/ PutDevice(c) \/ WriteDisk(c) \/ WriteRecord(c)
        \/ ChangePassword(c) \/ Revoke(c)
        \/ SignOut(c) \/ DropRows(c) \/ ServerSignOut(c) \/ SessionEnded(c)
        \/ CheckSalt(c) \/ Forget(c) \/ ForgetSalt(c)
  BY DEF Next
<1>2. CASE \E a \in Accounts : SignIn(c, a)
  BY <1>2 DEF SignIn
<1>3. CASE Restart(c) \/ Fails(c) \/ Fetch(c) \/ GiveUp(c)
  BY <1>3 DEF Restart, Fails, Fetch, GiveUp
<1>4. CASE UseDevice(c) \/ Reupload(c) \/ Reuploaded(c) \/ Resolve(c) \/ Reseal(c)
  BY <1>4 DEF UseDevice, Reupload, Reuploaded, Resolve, Reseal
<1>5. CASE Ask(c) \/ WithoutDevice(c) \/ Seal(c) \/ PutDevice(c)
  BY <1>5 DEF Ask, WithoutDevice, Seal, PutDevice
<1>6. CASE WriteDisk(c) \/ WriteRecord(c)
  BY <1>6 DEF WriteDisk, WriteRecord, Write
<1>7. CASE ChangePassword(c) \/ Revoke(c) \/ SignOut(c) \/ DropRows(c) \/ ServerSignOut(c) \/ SessionEnded(c)
  BY <1>7 DEF ChangePassword, Revoke, SignOut, DropRows, ServerSignOut, SessionEnded
<1>8. CASE CheckSalt(c) \/ Forget(c) \/ ForgetSalt(c)
  BY <1>8 DEF CheckSalt, Forget, ForgetSalt
<1> QED BY <1>1, <1>2, <1>3, <1>4, <1>5, <1>6, <1>7, <1>8

\* KeyIInv holds in every reachable state.
LEMMA KeyInvariance == Spec => []KeyIInv
<1>1. Init => KeyIInv
  BY InitInv, InitKey DEF KeyIInv
<1>2. KeyIInv /\ [Next]_vars => KeyIInv'
  <2> SUFFICES ASSUME IInv, ~May("race") /\ ~May("over") => KeyInv, [Next]_vars PROVE KeyIInv'
    BY DEF KeyIInv
  <2>1. IInv'
    BY NextInv
  <2>2. scenario' = scenario
    <3>1. CASE UNCHANGED vars
      BY <3>1 DEF vars
    <3>2. CASE Next
      BY <3>2, StaysInScenario
    <3> QED BY <3>1, <3>2
  <2> SUFFICES ASSUME ~May("race")', ~May("over")' PROVE KeyInv'
    BY <2>1 DEF KeyIInv
  <2>3. ~May("race") /\ ~May("over") /\ KeyInv
    BY <2>2 DEF May
  <2>4. CASE UNCHANGED vars
    <3>1. /\ envelope' = envelope /\ rows' = rows /\ used' = used /\ minted' = minted
          /\ live' = live /\ who' = who /\ password' = password /\ session' = session
          /\ disk' = disk /\ boot' = boot /\ leave' = leave
      BY <2>4 DEF vars, server, memory
    <3>2. /\ \A c, a, d : Has(c, a, d)' = Has(c, a, d)
          /\ \A c, d : By(c, d)' = By(c, d)
          /\ \A c, a, k : Opening(c, a, k)' = Opening(c, a, k)
          /\ \A a : Sealed(a)' = Sealed(a)
          /\ \A c : Reads(c)' = Reads(c) /\ Writes(c)' = Writes(c) /\ Vouches(c)' = Vouches(c)
                   /\ Settles(c)' = Settles(c)
      BY <3>1 DEF Has, By, Opening, Sealed, Reads, Writes, Vouches, Settles
    <3>3. \A a, d : Of(a, d)' = Of(a, d)
      BY <3>1, <3>2 DEF Of
    <3>4. \A a, k : KeyOf(a, k)' = KeyOf(a, k)
      BY <3>1, <3>2, <3>3 DEF KeyOf
    <3>5. Identified' /\ Alone'
      BY <2>3, <3>1, <3>2, <3>3 DEF KeyInv, Identified, Numbered, OneAccount, OneClient, Alone
    <3>6. \A a \in Accounts : SoleKey(a)' /\ Anchored(a)'
      BY <2>3, <3>1, <3>2, <3>4 DEF KeyInv, SoleKey, Anchored
    <3>7. ASSUME NEW c \in Clients PROVE Keeper(c)'
      <4>1. InUse(c)' /\ Recorded(c)' /\ SaltSealed(c)' /\ Sealing(c)' /\ Unwritten(c)'
        BY <2>3, <3>1, <3>2 DEF KeyInv, Keeper, InUse, Recorded, SaltSealed, Sealing, Unwritten
      <4>2. First(c)' /\ ReadSound(c)' /\ SaltKnown(c)'
        BY <2>3, <3>1, <3>2 DEF KeyInv, Keeper, First, ReadSound, SaltKnown
      <4>3. OwnSlot(c)'
        BY <2>3, <3>1, <3>2, <3>3 DEF KeyInv, Keeper, OwnSlot
      <4> QED BY <4>1, <4>2, <4>3 DEF Keeper
    <3> QED BY <3>5, <3>6, <3>7 DEF KeyInv
  <2>5. CASE Next
    BY <2>1, <2>3, <2>5, NextKey
  <2> QED BY <2>4, <2>5
<1> QED BY <1>1, <1>2, PTL DEF Spec

\* OneKey, for any number of phones, browsers and accounts, whatever fails or
\* is killed: clients of an account that start one after the other use one key.
THEOREM KeyIsOne == Spec => []OneKey
<1>1. KeyIInv => OneKey
  <2> SUFFICES ASSUME IInv, KeyInv, NEW a \in Accounts PROVE Cardinality(used[a]) <= 1
    BY DEF KeyIInv, OneKey
  <2>1. used[a] \subseteq Numbers
    BY DEF IInv, Typed, TypedServer, TypedClients
  <2>2. \A k, l \in used[a] : k = l
    BY <2>1 DEF KeyInv, SoleKey, KeyOf
  <2>3. CASE used[a] = {}
    BY <2>3, FS_EmptySet
  <2>4. CASE used[a] # {}
    <3>1. PICK k : k \in used[a]
      BY <2>4
    <3>2. used[a] = {k}
      BY <2>2, <3>1
    <3>3. Cardinality({k}) = 1
      BY FS_Singleton
    <3> QED BY <3>2, <3>3
  <2> QED BY <2>3, <2>4
<1> QED BY <1>1, KeyInvariance, PTL

-----------------------------------------------------------------------------
(* No key is lost: the invariant while one account is in use *)

Within(a) ==
    /\ \A c \in Clients : who[c] \in {"nobody", a} /\ (boot[c].pc # "idle" => boot[c].account = a)
    /\ \A e \in Accounts : e # a => used[e] = {}

\* A salt on the disk, or one a wipe has seen there, is that of an envelope.
Forgettable(c, a) ==
    \A s \in Slots(c) :
        disk[c][s].salt # None \/ (leave[c].pc = "forget" /\ s \in leave[c].slots) => Sealed(a)

\* Until there is an envelope the disk keeps what the bootstrap wrote or read.
Written(c, a) ==
    ~Sealed(a) =>
        /\ boot[c].pc = "writeKey" => Stored(c, a).id = boot[c].device
        /\ boot[c].pc = "writeSalt" => Stored(c, a).id = boot[c].device /\ Stored(c, a).priv = boot[c].device
        /\ Reads(c) => Stored(c, a).id = boot[c].mine.id

\* Until there is an envelope a client holds the key that is in use.
Holder(a) ==
    used[a] # {} /\ ~Sealed(a) =>
        \E c \in Clients : DeviceOpens(Stored(c, a)) /\ Stored(c, a).id \in rows[a]

Held(a) == Within(a) /\ Holder(a) /\ \A c \in Clients : Forgettable(c, a) /\ Written(c, a)

\* What a step of one client has to show.
LEMMA HeldKept ==
  ASSUME NEW c \in Clients, NEW a \in Accounts, Held(a), \A e \in Clients : e # c => Same(e),
         Sealed(a) => Sealed(a)', who'[c] \in {"nobody", a}, boot'[c].pc # "idle" => boot'[c].account = a,
         \A e \in Accounts : e # a => used'[e] = used[e],
         Forgettable(c, a)', Written(c, a)', Holder(a)'
  PROVE  Held(a)'
<1>1. Within(a)'
  BY DEF Held, Within, Same
<1>2. ASSUME NEW e \in Clients, e # c PROVE Forgettable(e, a)' /\ Written(e, a)'
  BY <1>2 DEF Held, Forgettable, Written, Same, Reads, Stored
<1> QED BY <1>1, <1>2 DEF Held

\* A bootstrap whose next write, if it has one, stays the same.
Resumes(c, a) ==
    \/ boot'[c].pc \notin {"decide", "reput", "writeKey", "writeSalt"}
    \/ Idler(c)
    \/ Reads(c)' /\ (boot'[c].mine = Stored(c, a) \/ (Reads(c) /\ boot'[c].mine = boot[c].mine))

\* A step that leaves the disks and the keys in use alone.
LEMMA CalmHeld ==
  ASSUME NEW c \in Clients, NEW a \in Accounts, Held(a), \A e \in Clients : e # c => Same(e),
         Sealed(a) => Sealed(a)', who'[c] \in {"nobody", a}, boot'[c].pc # "idle" => boot'[c].account = a,
         UNCHANGED <<disk, used>>, Resumes(c, a),
         leave'[c].pc = "forget" => leave'[c] = leave[c] \/ leave'[c].slots = Recoverable(c),
         ~Sealed(a) => rows[a] \subseteq rows'[a]
  PROVE  Held(a)'
<1>1. Forgettable(c, a)'
  BY DEF Held, Forgettable, Recoverable
<1>2. Written(c, a)'
  BY DEF Held, Written, Resumes, Idler, Reads, Writes, WriteSteps, Stored
<1>3. Holder(a)'
  BY DEF Held, Holder, Stored, DeviceOpens
<1> QED BY <1>1, <1>2, <1>3, HeldKept

\* A start brings in no other account.
LEMMA StartHeld ==
  ASSUME IInv, NEW c \in Clients, NEW a \in Accounts, \A e \in scenario.accounts : e = a, Held(a),
         (\E e \in Accounts : SignIn(c, e)) \/ Restart(c)
  PROVE  Held(a)'
<1>1. Typed
  BY DEF IInv
<1>2. CASE \E e \in Accounts : SignIn(c, e)
  <2>1. SignIn(c, a)
    BY <1>2 DEF SignIn
  <2>2. /\ who'[c] = a /\ boot'[c] = [pc |-> "fetch", account |-> a, stale |-> FALSE]
        /\ UNCHANGED <<envelope, rows, disk, used>>
        /\ leave'[c] = leave[c] \/ leave'[c] = Idle
    BY <1>1, <2>1 DEF SignIn, Started, Typed, TypedTasks, TypedClients
  <2>3. \A e \in Clients : e # c => Same(e)
    BY <1>1, <2>1, <2>2 DEF SignIn, Started, Same, Typed, TypedTasks, TypedClients
  <2> QED BY <2>2, <2>3, CalmHeld, Constants0 DEF Sealed, Resumes
<1>3. CASE Restart(c)
  <2>1. /\ UNCHANGED <<envelope, rows, disk, used, who>>
        /\ boot'[c] = Idle \/ (who[c] # "nobody"
                                 /\ boot'[c] = [pc |-> "fetch", account |-> who[c], stale |-> FALSE])
        /\ leave'[c] \in {Idle, [pc |-> "check", ended |-> TRUE], [pc |-> "unseen"]}
    BY <1>1, <1>3 DEF Restart, Started, Typed, TypedTasks, TypedClients, server
  <2>2. /\ boot'[c].pc \in {"idle", "fetch"} /\ leave'[c].pc # "forget" /\ who[c] \in {"nobody", a}
        /\ boot'[c].pc # "idle" => boot'[c].account = a
    BY <2>1, Constants0 DEF Held, Within
  <2>3. \A e \in Clients : e # c => boot'[e] = boot[e] /\ leave'[e] = leave[e]
    BY <1>1, <1>3 DEF Restart, Started, Typed, TypedTasks
  <2>4. \A e \in Clients : e # c => session'[e] = session[e] /\ password'[e] = password[e]
    BY <1>1, <1>3 DEF Restart, Typed, TypedClients
  <2>5. \A e \in Clients : e # c => Same(e)
    BY <2>1, <2>3, <2>4 DEF Same
  <2> QED BY <2>1, <2>2, <2>5, CalmHeld DEF Sealed, Resumes
<1> QED BY <1>2, <1>3

\* A bootstrap that ends, fetches or is about to upload its row changes nothing kept.
LEMMA BootHeld ==
  ASSUME IInv, NEW c \in Clients, NEW a \in Accounts, Held(a),
         Fails(c) \/ GiveUp(c) \/ Fetch(c) \/ Reupload(c)
  PROVE  Held(a)'
<1>1. Typed /\ who[c] \in {"nobody", a} /\ boot[c].pc # "idle" /\ boot[c].account = a
  BY DEF IInv, Held, Within, Fails, GiveUp, Fetch, Reupload
<1>2. /\ UNCHANGED <<scenario, pw, envelope, rows, live, who, password, session, disk, leave, used>>
      /\ \A e \in Clients : e # c => boot'[e] = boot[e]
  BY <1>1 DEF Fails, GiveUp, Fetch, Reupload, Done, GoTo, Typed, TypedTasks, server, memory
<1>3. \A e \in Clients : e # c => Same(e)
  BY <1>2 DEF Same
<1>4. CASE Fails(c) \/ GiveUp(c)
  <2>1. boot'[c].pc = "idle"
    BY <1>1, <1>4, Constants0 DEF Fails, GiveUp, Done, GoTo, Typed, TypedTasks
  <2> QED BY <1>1, <1>2, <1>3, <2>1, CalmHeld DEF Sealed, Resumes
<1>5. CASE Fetch(c)
  <2>1. \/ boot'[c].pc = "idle"
        \/ boot'[c].pc = "decide" /\ boot'[c].account = a /\ boot'[c].mine = Stored(c, a)
    BY <1>1, <1>5, Constants0 DEF Fetch, GoTo, Typed, TypedTasks
  <2> QED BY <1>1, <1>2, <1>3, <2>1, CalmHeld DEF Sealed, Resumes, Reads
<1>6. CASE Reupload(c)
  <2>1. boot[c] \in Deciding /\ boot'[c] = [boot[c] EXCEPT !.pc = "reput"]
    BY <1>1, <1>6, TaskShape DEF Reupload, GoTo, Typed, TypedTasks
  <2>2. /\ boot'[c].pc = "reput" /\ boot'[c].account = a /\ boot'[c].mine = boot[c].mine
        /\ boot[c].pc = "decide"
    BY <1>1, <1>6, <2>1, DecidingOn DEF Reupload
  <2> QED BY <1>1, <1>2, <1>3, <2>2, CalmHeld DEF Sealed, Resumes, Reads
<1> QED BY <1>4, <1>5, <1>6

\* A wipe that begins will forget the slots with a salt, which are an envelope's.
LEMMA LeaveHeld ==
  ASSUME IInv, NEW c \in Clients, NEW a \in Accounts, Held(a),
         SignOut(c) \/ ServerSignOut(c) \/ SessionEnded(c) \/ CheckSalt(c)
  PROVE  Held(a)'
<1>1. Typed /\ who[c] \in {"nobody", a} /\ (boot[c].pc # "idle" => boot[c].account = a)
  BY DEF IInv, Held, Within
<1>2. /\ UNCHANGED <<envelope, rows, disk, used>>
      /\ who'[c] \in {who[c], "nobody"}
      /\ \A e \in Clients : e # c => leave'[e] = leave[e] /\ who'[e] = who[e]
      /\ ClearMemory(c) \/ UNCHANGED <<session, password, boot>>
  BY <1>1 DEF SignOut, ServerSignOut, SessionEnded, CheckSalt, Leaving, Typed, TypedTasks, TypedClients,
     server,
              memory
<1>3. leave'[c].pc = "forget" => leave'[c].slots = Recoverable(c)
  BY <1>1, Constants0 DEF SignOut, ServerSignOut, SessionEnded, CheckSalt, Leaving, Typed, TypedTasks
<1>4. CASE ClearMemory(c)
  <2>1. /\ Idler(c) /\ boot'[c].pc = boot[c].pc /\ (boot[c].pc # "idle" => boot'[c].account = boot[c].account)
        /\ \A e \in Clients : e # c =>
             session'[e] = session[e] /\ password'[e] = password[e] /\ boot'[e] = boot[e]
    BY <1>1, <1>4, ClearsIdler
  <2>2. \A e \in Clients : e # c => Same(e)
    BY <1>2, <2>1 DEF Same
  <2> QED BY <1>1, <1>2, <1>3, <2>1, <2>2, CalmHeld DEF Sealed, Resumes
<1>5. CASE UNCHANGED <<session, password, boot>>
  <2>1. (\A e \in Clients : e # c => Same(e)) /\ Idler(c)
    BY <1>2, <1>5 DEF Same, Idler
  <2> QED BY <1>1, <1>2, <1>3, <1>5, <2>1, CalmHeld DEF Sealed, Resumes
<1> QED BY <1>2, <1>4, <1>5

\* A request for an envelope, and the end of other sessions, change nothing kept.
LEMMA AskHeld ==
  ASSUME IInv, NEW c \in Clients, NEW a \in Accounts, Held(a), Ask(c) \/ Revoke(c)
  PROVE  Held(a)'
<1>1. /\ Typed /\ who[c] \in {"nobody", a} /\ boot[c].pc # "idle" /\ boot[c].account = a
      /\ boot[c] \in Vouching \cup Writing
  <2>1. Typed /\ boot[c].pc \in {"seal", "reseal", "ending"}
    BY DEF IInv, Ask, Revoke
  <2> QED BY <2>1, TaskShape DEF Held, Within, Typed, TypedTasks, VouchSteps, WriteSteps
<1>2. /\ UNCHANGED <<envelope, rows, who, password, session, disk, leave, used>>
      /\ \A e \in Clients : e # c => boot'[e] = boot[e]
  BY <1>1 DEF Ask, Revoke, GoTo, Done, Typed, TypedTasks, server, memory
<1>3. \A e \in Clients : e # c => Same(e)
  BY <1>2 DEF Same
<1>4. boot'[c].pc \in {"idle", "sealing", "resealing", "resolve"} /\ (boot'[c].pc # "idle"
        => boot'[c].account = a)
  <2>1. CASE Ask(c)
    <3>1. CASE boot[c].pc = "seal"
      <4>1. PICK t : /\ t = Salt(boot[c].device.key)
                     /\ boot'[c] = [boot[c] EXCEPT !.pc = "sealing", !.salt = t]
        BY <1>1, <2>1, <3>1 DEF Ask, GoTo, Typed, TypedTasks
      <4>2. boot'[c].pc = "sealing" /\ boot'[c].account = a
        BY <1>1, <4>1 DEF Vouching, Writing
      <4> QED BY <4>2
    <3>2. CASE boot[c].pc = "reseal"
      <4>1. PICK t : /\ t = Salt(session[c])
                     /\ boot'[c] = [boot[c] EXCEPT !.pc = "resealing", !.salt = t]
        BY <1>1, <2>1, <3>2 DEF Ask, GoTo, Typed, TypedTasks
      <4>2. boot'[c].pc = "resealing" /\ boot'[c].account = a
        BY <1>1, <4>1 DEF Vouching, Writing
      <4> QED BY <4>2
    <3> QED BY <2>1, <3>1, <3>2 DEF Ask
  <2>2. CASE Revoke(c)
    <3>1. PICK p : p = "resolve"
      OBVIOUS
    <3>2. boot'[c] = Idle \/ boot'[c] = [boot[c] EXCEPT !.pc = p]
      BY <1>1, <2>2, <3>1 DEF Revoke, GoTo, Done, Typed, TypedTasks
    <3>3. boot'[c] # Idle => boot'[c].pc = p /\ boot'[c].account = a
      BY <1>1, <3>2 DEF Vouching, Writing
    <3> QED BY <3>1, <3>2, <3>3, Constants0
  <2> QED BY <2>1, <2>2
<1> QED BY <1>1, <1>2, <1>3, <1>4, CalmHeld DEF Sealed, Resumes

\* An envelope, once there, is only replaced by another.
LEMMA SealHeld ==
  ASSUME IInv, KeyInv, NEW c \in Clients, NEW a \in Accounts, Held(a),
         Seal(c) \/ Reseal(c) \/ ChangePassword(c)
  PROVE  Held(a)'
<1>1. Typed /\ Client(c) /\ Keeper(c) /\ who[c] \in {"nobody", a} /\ (boot[c].pc # "idle"
        => boot[c].account = a)
  BY DEF IInv, KeyInv, Held, Within
<1>2. UNCHANGED <<rows, disk, used, who, leave>>
  BY DEF Seal, Reseal, ChangePassword, memory
<1>4. \E p, t : envelope' = [envelope EXCEPT ![a] = [pw |-> p, salt |-> t]] /\ p # 0
  <2>1. CASE Seal(c) \/ Reseal(c)
    <3>1. boot[c].account = a /\ boot[c].secret # 0
      BY <1>1, <2>1 DEF Seal, Reseal, Keeper, Sealing
    <3> QED BY <2>1, <3>1 DEF Seal, Reseal, PutEnvelope
  <2>3. CASE ChangePassword(c)
    <3>1. who[c] = a /\ pw[a] \in Nat /\ pw'[a] = pw[a] + 1
      BY <1>1, <2>3 DEF ChangePassword, Typed, TypedServer
    <3>2. pw'[a] # 0
      BY <3>1
    <3> QED BY <2>3, <3>1, <3>2 DEF ChangePassword, PutEnvelope
  <2> QED BY <2>1, <2>3
<1>5. Sealed(a)'
  BY <1>1, <1>4 DEF Sealed, Typed, TypedServer
<1>6. /\ \A e \in Clients : e # c => boot'[e] = boot[e] /\ password'[e] = password[e]
           /\ session'[e] = session[e]
      /\ boot'[c].pc # "idle" => boot'[c].account = a
  <2>1. CASE Seal(c)
    <3>1. boot[c] \in Writing /\ boot[c].account = a
      BY <1>1, <2>1, TaskShape DEF Seal, Typed, TypedTasks, WriteSteps
    <3>2. PICK p : boot'[c] = Idle \/ boot'[c] = [boot[c] EXCEPT !.pc = p]
      BY <1>1, <2>1 DEF Seal, GoTo, Done, Typed, TypedTasks
    <3>3. boot'[c].pc # "idle" => boot'[c].account = a
      BY <3>1, <3>2, Constants0 DEF Writing
    <3> QED BY <1>1, <2>1, <3>3 DEF Seal, GoTo, Done, Typed, TypedTasks, TypedClients
  <2>2. CASE Reseal(c)
    <3>1. boot[c] \in Vouching /\ boot[c].account = a
      BY <1>1, <2>2, TaskShape DEF Reseal, Typed, TypedTasks, VouchSteps
    <3>2. boot'[c] = Idle \/ boot'[c] = [boot[c] EXCEPT !.pc = "resolve", !.secret = 0]
      BY <1>1, <2>2 DEF Reseal, GoTo, Done, Typed, TypedTasks
    <3>3. boot'[c].pc # "idle" => boot'[c].account = a
      BY <3>1, <3>2, Constants0, VouchingAgain
    <3> QED BY <1>1, <2>2, <3>3 DEF Reseal, GoTo, Done, Typed, TypedTasks, TypedClients
  <2>3. CASE ChangePassword(c)
    <3>1. who[c] = a /\ boot[c].pc = "idle"
      BY <1>1, <2>3 DEF ChangePassword
    <3>2. PICK t : t = Salt(session[c])
      OBVIOUS
    <3>3. \/ boot' = [boot EXCEPT ![c] = Idle]
          \/ \E p \in {"resolve", "ending"} :
               boot' = [boot EXCEPT ![c] = [pc |-> p, account |-> a, stale |-> FALSE, salt |-> t,
                 secret |-> 0]]
      BY <2>3, <3>1, <3>2 DEF ChangePassword, Changed, GoTo, Done
    <3> QED BY <1>1, <2>3, <3>1, <3>3, Constants0 DEF ChangePassword, memory, Typed, TypedTasks
  <2> QED BY <2>1, <2>2, <2>3
<1>7. \A e \in Clients : e # c => Same(e)
  BY <1>2, <1>6 DEF Same
<1>8. Forgettable(c, a)' /\ Written(c, a)' /\ Holder(a)'
  BY <1>5 DEF Forgettable, Written, Holder
<1> QED BY <1>1, <1>2, <1>5, <1>6, <1>7, <1>8, HeldKept

\* A row that is added takes none away.
LEMMA RowHeld ==
  ASSUME IInv, NEW c \in Clients, NEW a \in Accounts, Held(a), Reuploaded(c) \/ PutDevice(c)
  PROVE  Held(a)'
<1>1. /\ Typed /\ who[c] \in {"nobody", a} /\ boot[c].pc \in {"reput", "put"} /\ boot[c].account = a
      /\ boot[c].pc = "reput" => boot[c] \in Deciding
      /\ boot[c].pc = "put" => boot[c] \in Writing
  BY TaskShape DEF IInv, Held, Within, Reuploaded, PutDevice, Typed, TypedTasks, WriteSteps
<1>2. /\ UNCHANGED <<envelope, live, who, password, session, disk, leave, used>>
      /\ \A e \in Clients : e # c => boot'[e] = boot[e]
  BY <1>1 DEF Reuploaded, PutDevice, Done, GoTo, Typed, TypedTasks, memory
<1>3. \A e \in Clients : e # c => Same(e)
  BY <1>2 DEF Same
<1>4. rows[a] \subseteq rows'[a]
  BY <1>1 DEF Reuploaded, PutDevice, Typed, TypedServer
<1>5. CASE Reuploaded(c)
  <2>1. PICK r : r = boot[c].rows \cup {boot[c].mine.id}
    OBVIOUS
  <2>2. boot'[c] = Idle \/ boot'[c] = [boot[c] EXCEPT !.pc = "decide", !.rows = r]
    BY <1>1, <1>5, <2>1 DEF Reuploaded, GoTo, Typed, TypedTasks
  <2>3. \/ boot'[c].pc = "idle"
        \/ boot'[c].pc = "decide" /\ boot'[c].account = a /\ boot'[c].mine = boot[c].mine
    BY <1>1, <1>5, <2>2, Constants0 DEF Deciding, Reuploaded
  <2> QED BY <1>1, <1>2, <1>3, <1>4, <1>5, <2>3, CalmHeld DEF Sealed, Resumes, Reads, Reuploaded
<1>6. CASE PutDevice(c)
  <2>1. \E p \in {"clearSalt", "record"} : boot'[c] = Idle \/ boot'[c] = [boot[c] EXCEPT !.pc = p]
    BY <1>1, <1>6 DEF PutDevice, GoTo, Done, Typed, TypedTasks
  <2>2. boot'[c].pc \in {"idle", "clearSalt", "record"} /\ (boot'[c].pc # "idle" => boot'[c].account = a)
    BY <1>1, <1>6, <2>1, Constants0 DEF Writing, PutDevice
  <2> QED BY <1>1, <1>2, <1>3, <1>4, <2>2, CalmHeld DEF Sealed, Resumes
<1> QED BY <1>5, <1>6

\* The row that a phone takes back is of a device it cannot open.
LEMMA WithoutDeviceHeld ==
  ASSUME IInv, IInv', KeyInv, NEW c \in Clients, NEW a \in Accounts, Held(a), WithoutDevice(c)
  PROVE  Held(a)'
<1>1. Typed /\ Typed' /\ Client(c) /\ Keeper(c) /\ Identified /\ boot[c].pc = "decide" /\ boot[c].account = a
      /\ who[c] \in {"nobody", a}
  BY DEF IInv, KeyInv, Held, Within, WithoutDevice
<1>2. /\ UNCHANGED <<envelope, password, disk, used, session, who, live>>
      /\ \A e \in Clients : e # c => boot'[e] = boot[e] /\ leave'[e] = leave[e]
      /\ leave'[c] = leave[c] \/ leave'[c].pc = "row"
  <2>1. UNCHANGED <<envelope, password, disk, used, session, who, live>>
    BY DEF WithoutDevice, memory
  <2>2. \A e \in Clients : e # c => boot'[e] = boot[e] /\ leave'[e] = leave[e]
    BY <1>1 DEF WithoutDevice, GoTo, Done, Typed, TypedTasks
  <2>3. leave'[c] = leave[c] \/ leave'[c].pc = "row"
    BY <1>1 DEF WithoutDevice, Typed, TypedTasks
  <2> QED BY <2>1, <2>2, <2>3
<1>3. boot'[c].pc \in {"idle", "seal", "put"} /\ (boot'[c].pc # "idle" => boot'[c].account = a)
  <2>1. minted \in Nat
    BY <1>1, KeysAssumption DEF Typed, TypedServer
  <2> QED BY <1>1, <2>1, WithoutDeviceMakes
<1>4. \A e \in Clients : e # c => Same(e)
  BY <1>2 DEF Same
<1>5. \A x \in rows[a] :
        x \in rows'[a] \/ (c \in Phones /\ boot[c].mine.id = x /\ boot[c].mine.priv # x /\ x \in boot[c].rows)
  BY <1>1, WithoutDeviceTakes
<1>6. Holder(a)'
  <2> SUFFICES ASSUME used[a] # {}, ~Sealed(a) PROVE Holder(a)'
    BY <1>2 DEF Holder, Sealed
  <2>1. PICK e \in Clients : DeviceOpens(Stored(e, a)) /\ Stored(e, a).id \in rows[a]
    BY DEF Held, Holder
  <2>2. PICK x \in Devices : x = Stored(e, a).id /\ x = Stored(e, a).priv /\ x # NoDevice
    BY <1>1, <2>1 DEF DeviceOpens, Typed, TypedServer
  <2>3. By(e, x)
    BY <2>2, SlotIs DEF By, Stored
  <2>4. CASE x \in rows'[a]
    BY <1>2, <2>1, <2>2, <2>4 DEF Holder, Stored, DeviceOpens
  <2>5. CASE c \in Phones /\ boot[c].mine.id = x /\ boot[c].mine.priv # x
    <3>1. By(c, x)
      BY <1>1, <2>2, <2>5 DEF By, Reads
    <3>2. e = c
      BY <1>1, <2>3, <3>1 DEF Identified, OneClient
    <3> QED BY <1>1, <2>2, <2>5, <3>2 DEF Client, TaskSound
  <2> QED BY <1>5, <2>1, <2>2, <2>4, <2>5
<1>7. Forgettable(c, a)' /\ Written(c, a)'
  BY <1>2, <1>3 DEF Held, Forgettable, Written, Reads, Sealed, Recoverable
<1> QED BY <1>1, <1>2, <1>3, <1>4, <1>6, <1>7, HeldKept DEF Sealed

\* The device that opens the key is on the disk, and its row is there.
LEMMA UseDeviceHeld ==
  ASSUME IInv, KeyInv, NEW c \in Clients, NEW a \in Accounts, Held(a), UseDevice(c)
  PROVE  Held(a)'
<1>1. Typed /\ Client(c) /\ Keeper(c) /\ boot[c].pc = "decide" /\ boot[c].account = a
        /\ who[c] \in {"nobody", a}
  BY DEF IInv, KeyInv, Held, Within, UseDevice
<1>2. /\ UNCHANGED <<envelope, rows, live, who, disk, leave>>
      /\ boot'[c].pc = "resolve" /\ boot'[c].account = a
      /\ \A e \in Clients : e # c => Same(e)
      /\ \A e \in Accounts : e # a => used'[e] = used[e]
  BY <1>1 DEF UseDevice, Activate, GoTo, Same, Typed, TypedTasks, TypedClients, server
<1>3. Holder(a)'
  <2> SUFFICES ASSUME ~Sealed(a) PROVE Holder(a)'
    BY <1>2 DEF Holder, Sealed
  <2>1. Stored(c, a).id = boot[c].mine.id /\ DeviceOpens(boot[c].mine) /\ boot[c].mine.id \in boot[c].rows
    BY <1>1 DEF Held, Written, Reads, UseDevice
  <2>2. Stored(c, a).priv = boot[c].mine.priv
    BY <1>1, <2>1 DEF Client, TaskSound, DeviceOpens
  <2>3. boot[c].rows \subseteq rows[a]
    BY <1>1 DEF Keeper, ReadSound, Reads
  <2> QED BY <1>2, <2>1, <2>2, <2>3 DEF Holder, DeviceOpens, Stored
<1>4. Forgettable(c, a)' /\ Written(c, a)'
  BY <1>2 DEF Held, Forgettable, Written, Reads, Sealed
<1> QED BY <1>1, <1>2, <1>3, <1>4, HeldKept DEF Sealed

\* Without an envelope a sign-out has nothing to forget.
LEMMA DropRowsHeld ==
  ASSUME IInv, NEW c \in Clients, NEW a \in Accounts, Held(a), DropRows(c)
  PROVE  Held(a)'
<1>1. Typed /\ who[c] \in {"nobody", a} /\ (boot[c].pc # "idle" => boot[c].account = a)
  BY DEF IInv, Held, Within
<1>2. /\ UNCHANGED <<envelope, password, disk, boot, used, session, who, live>>
      /\ \A e \in Clients : e # c => leave'[e] = leave[e]
      /\ leave'[c].pc = "server"
  BY <1>1 DEF DropRows, Leaving, Typed, TypedTasks, memory
<1>3. ~Sealed(a) => rows'[a] = rows[a]
  <2> SUFFICES ASSUME ~Sealed(a) PROVE rows'[a] = rows[a]
    OBVIOUS
  <2>1. Recoverable(c) = {}
    BY DEF Held, Forgettable, Recoverable
  <2>2. {disk[c][s].id : s \in Recoverable(c)} = {}
    BY <2>1
  <2>3. PICK b \in Accounts : b = leave[c].account
    BY <1>1, LeaveShape DEF DropRows, Typed, TypedTasks
  <2>4. rows' = rows \/ rows' = [rows EXCEPT ![b] = rows[b] \ {}]
    BY <1>1, <2>2, <2>3 DEF DropRows, Typed, TypedServer
  <2> QED BY <1>1, <2>4 DEF Typed, TypedServer
<1>4. (\A e \in Clients : e # c => Same(e)) /\ Idler(c)
  BY <1>2 DEF Same, Idler
<1> QED BY <1>1, <1>2, <1>3, <1>4, CalmHeld DEF Sealed, Resumes

\* Without an envelope a wipe finds no slot to forget.
LEMMA ForgetHeld ==
  ASSUME IInv, NEW c \in Clients, NEW a \in Accounts, Held(a), Forget(c) \/ ForgetSalt(c)
  PROVE  Held(a)'
<1>1. Typed /\ who[c] \in {"nobody", a} /\ (boot[c].pc # "idle" => boot[c].account = a)
  BY DEF IInv, Held, Within
<1>2. /\ UNCHANGED <<envelope, rows, used, who>> /\ leave'[c].pc # "forget"
      /\ \A e \in Clients : e # c => leave'[e] = leave[e]
      /\ ClearMemory(c) \/ UNCHANGED <<session, password, boot>>
  BY <1>1, Constants0 DEF Forget, ForgetSalt, Leaving, Typed, TypedTasks, server, memory
<1>3. Thinner(c) /\ \A e \in Clients : e # c => disk'[e] = disk[e]
  BY <1>1, ForgetThins, ForgetSaltThins
<1>4. /\ (\A e \in Clients : e # c => Same(e)) /\ Idler(c)
      /\ boot'[c].pc # "idle" => boot'[c].account = a
  <2>1. CASE ClearMemory(c)
    <3>1. /\ Idler(c) /\ boot'[c].pc = boot[c].pc /\ (boot[c].pc # "idle"
               => boot'[c].account = boot[c].account)
          /\ \A e \in Clients : e # c =>
               session'[e] = session[e] /\ password'[e] = password[e] /\ boot'[e] = boot[e]
      BY <1>1, <2>1, ClearsIdler
    <3> QED BY <1>1, <1>2, <1>3, <3>1 DEF Same
  <2>2. CASE UNCHANGED <<session, password, boot>>
    BY <1>1, <1>2, <1>3, <2>2 DEF Same, Idler
  <2> QED BY <1>2, <2>1, <2>2
<1>5. ~Sealed(a) => \A s \in Slots(c) : disk'[c][s].id = disk[c][s].id /\ disk'[c][s].priv = disk[c][s].priv
  <2> SUFFICES ASSUME ~Sealed(a), NEW s \in Slots(c)
               PROVE  disk'[c][s].id = disk[c][s].id /\ disk'[c][s].priv = disk[c][s].priv
    OBVIOUS
  <2>1. CASE Forget(c)
    <3>1. s \notin leave[c].slots
      BY <2>1 DEF Held, Forgettable, Forget
    <3>2. disk'[c][s] = disk[c][s]
      BY <1>1, <2>1, <3>1 DEF Forget, Typed, TypedDisk
    <3> QED BY <3>2
  <2>2. CASE ForgetSalt(c)
    <3>1. PICK d \in Slot0 : d = disk[c][s]
      BY <1>1 DEF Typed, TypedDisk
    <3>2. disk'[c][s] \in {d, [d EXCEPT !.salt = None]}
      BY <1>1, <2>2, <3>1 DEF ForgetSalt, Typed, TypedDisk
    <3>3. PICK n \in Slot0 : n = [d EXCEPT !.salt = None] /\ n.salt = None /\ n.id = d.id /\ n.priv = d.priv
      BY SlotSalted, Constants0
    <3> QED BY <3>1, <3>2, <3>3
  <2> QED BY <2>1, <2>2
<1>6. Stored(c, a)' = disk'[c][Slot(c, a)] /\ Slot(c, a) \in Slots(c)
  BY SlotIs DEF Stored
<1>7. Forgettable(c, a)'
  BY <1>2, <1>3 DEF Held, Forgettable, Thinner, Sealed
<1>8. Written(c, a)'
  BY <1>2, <1>4, <1>5, <1>6 DEF Held, Written, Idler, Reads, Writes, WriteSteps, Sealed, Stored
<1>9. Holder(a)'
  <2> SUFFICES ASSUME used[a] # {}, ~Sealed(a) PROVE Holder(a)'
    BY <1>2 DEF Holder, Sealed
  <2>1. PICK e \in Clients : DeviceOpens(Stored(e, a)) /\ Stored(e, a).id \in rows[a]
    BY DEF Held, Holder
  <2>2. Stored(e, a).id = disk'[e][Slot(e, a)].id /\ Stored(e, a).priv = disk'[e][Slot(e, a)].priv
    BY <1>3, <1>5, <1>6 DEF Stored
  <2> QED BY <1>2, <2>1, <2>2 DEF Holder, DeviceOpens, Stored
<1> QED BY <1>1, <1>2, <1>4, <1>7, <1>8, <1>9, HeldKept DEF Sealed

\* Only a salt that the account's envelope has is put on the disk.
LEMMA ResolveHeld ==
  ASSUME IInv, KeyInv, NEW c \in Clients, NEW a \in Accounts, Held(a), Resolve(c)
  PROVE  Held(a)'
<1>1. Typed /\ Keeper(c) /\ who[c] \in {"nobody", a} /\ boot[c].pc = "resolve" /\ boot[c].account = a
      /\ boot[c] \in Vouching
  BY TaskShape DEF IInv, KeyInv, Held, Within, Resolve, Typed, TypedTasks, VouchSteps
<1>2. /\ UNCHANGED <<envelope, rows, live, who, password, session, leave, used>>
      /\ boot'[c] = IF boot[c].secret # 0 THEN [boot[c] EXCEPT !.pc = "reseal"] ELSE Idle
      /\ \A e \in Clients : e # c => boot'[e] = boot[e]
  BY <1>1 DEF Resolve, GoTo, Typed, TypedTasks, server, memory
<1>3. /\ \A e \in Clients : e # c => disk'[e] = disk[e]
      /\ \A s \in Slots(c) :
           /\ disk'[c][s].id = disk[c][s].id /\ disk'[c][s].priv = disk[c][s].priv
           /\ disk'[c][s].salt \in {disk[c][s].salt, boot[c].salt}
  BY <1>1, ResolveSlots
<1>4. boot'[c].pc \in {"idle", "reseal"} /\ (boot'[c].pc # "idle" => boot'[c].account = a)
  BY <1>1, <1>2, VouchingOn, Constants0 DEF VouchSteps
<1>5. \A e \in Clients : e # c => Same(e)
  BY <1>2, <1>3 DEF Same
<1>6. boot[c].salt # None => Sealed(a)
  BY <1>1 DEF Keeper, SaltKnown, Vouches, VouchSteps
<1>7. Forgettable(c, a)' /\ Written(c, a)'
  BY <1>2, <1>3, <1>4, <1>6 DEF Held, Forgettable, Written, Reads, Sealed
<1>8. Holder(a)'
  <2> SUFFICES ASSUME used[a] # {}, ~Sealed(a) PROVE Holder(a)'
    BY <1>2 DEF Holder, Sealed
  <2>1. PICK e \in Clients : DeviceOpens(Stored(e, a)) /\ Stored(e, a).id \in rows[a]
    BY DEF Held, Holder
  <2>2. Stored(e, a).id = disk'[e][Slot(e, a)].id /\ Stored(e, a).priv = disk'[e][Slot(e, a)].priv
    BY <1>3, SlotIs DEF Stored
  <2> QED BY <1>2, <2>1, <2>2 DEF Holder, DeviceOpens, Stored
<1> QED BY <1>1, <1>2, <1>4, <1>5, <1>7, <1>8, HeldKept DEF Sealed

\* A first key is in use when its device and row are there.
LEMMA WriteHeld ==
  ASSUME IInv, KeyInv, NEW c \in Clients, NEW a \in Accounts, Held(a),
         NEW f, NEW t, NEW n \in Slot0, Write(c, f, t, n),
         \/ f = "sealed" /\ t = "put"
         \/ /\ f \in {"clearSalt", "writeId", "writeKey", "writeSalt", "record"}
            /\ t \in {"writeId", "writeKey", "writeSalt", "active"},
         n.salt # None => Sealed(a),
         t = "writeKey" => n.id = boot[c].device,
         t \in {"writeSalt", "active"} /\ ~Sealed(a) => n.id = boot[c].device /\ n.priv = boot[c].device
  PROVE  Held(a)'
<1>1. /\ Typed /\ Keeper(c) /\ Identified /\ boot[c].pc = f /\ boot[c].account = a /\ who[c] \in {"nobody", a}
      /\ boot[c] \in Writing /\ Writes(c)
  <2>1. Typed /\ Keeper(c) /\ Identified /\ boot[c].pc = f
    BY DEF IInv, KeyInv, Write
  <2>2. boot[c].account = a /\ who[c] \in {"nobody", a}
    BY <2>1 DEF Held, Within
  <2>3. boot[c] \in Writing /\ Writes(c)
    BY <2>1, TaskShape DEF Typed, TypedTasks, Writes, WriteSteps
  <2> QED BY <2>1, <2>2, <2>3
<1>2. PICK d \in Devices : d = boot[c].device
  BY <1>1 DEF Writing
<1>3. PICK s \in Slots(c) : s = Slot(c, a)
  BY SlotIs
<1>4. /\ disk'[c][s] = n /\ \A r \in Slots(c) : r # s => disk'[c][r] = disk[c][r]
      /\ t = "active" => boot'[c].pc = "idle"
      /\ t # "active" => /\ boot'[c].pc = t /\ boot'[c].account = a /\ boot'[c].device = d
      /\ \A e \in Clients : e # c => Same(e)
      /\ UNCHANGED <<envelope, rows, who, leave>>
  BY <1>1, <1>2, <1>3, WriteFacts
<1>5. /\ \A e \in Accounts : e # a => used'[e] = used[e]
      /\ t # "active" => used' = used
  <2>1. CASE t = "active" /\ ~boot[c].stale
    BY <1>1, <2>1 DEF Write, Activate, Typed, TypedClients
  <2>2. CASE t # "active" \/ boot[c].stale
    BY <2>2 DEF Write
  <2> QED BY <2>1, <2>2
<1>6. ~Sealed(a) => used[a] = {} /\ (t # "put" => d \in rows[a])
  BY <1>1, <1>2 DEF Keeper, First, Unsent
<1>7. d # NoDevice
  <2>1. By(c, d)
    BY <1>1, <1>2 DEF By
  <2> QED BY <1>1, <2>1 DEF Identified, Numbered, NoDevice
<1>8. Forgettable(c, a)'
  BY <1>3, <1>4 DEF Held, Forgettable, Sealed
<1>9. Written(c, a)'
  BY <1>2, <1>3, <1>4 DEF Written, Reads, Sealed, Stored
<1>10. Holder(a)'
  <2> SUFFICES ASSUME used'[a] # {}, ~Sealed(a) PROVE Holder(a)'
    BY <1>4 DEF Holder, Sealed
  <2>1. t = "active"
    BY <1>5, <1>6
  <2>2. n.id = d /\ n.priv = d /\ d \in rows'[a]
    BY <1>2, <1>4, <1>6, <2>1
  <2> QED BY <1>3, <1>4, <1>7, <2>2 DEF Holder, DeviceOpens, Stored
<1> QED BY <1>1, <1>4, <1>5, <1>8, <1>9, <1>10, HeldKept DEF Sealed

\* A phone writes the device whose row is there, part by part.
LEMMA WriteDiskHeld ==
  ASSUME IInv, KeyInv, NEW c \in Clients, NEW a \in Accounts, Held(a), WriteDisk(c)
  PROVE  Held(a)'
<1>1. /\ Typed /\ Client(c) /\ Keeper(c) /\ boot[c].account = a
      /\ boot[c].pc \in {"sealed", "clearSalt", "writeId", "writeKey", "writeSalt"} /\ boot[c] \in Writing
      /\ boot[c].device \in Devices /\ boot[c].salt \in Salts
  <2>1. /\ Typed /\ Client(c) /\ Keeper(c)
        /\ boot[c].pc \in {"sealed", "clearSalt", "writeId", "writeKey", "writeSalt"}
    BY DEF IInv, KeyInv, WriteDisk
  <2>2. boot[c] \in Writing /\ boot[c].account = a
    BY <2>1, TaskShape DEF Held, Within, Typed, TypedTasks, WriteSteps
  <2> QED BY <2>1, <2>2 DEF Writing
<1>2. PICK d \in Slot0 : d = Stored(c, a)
  BY <1>1, ClientTyped
<1>3. /\ boot[c].salt # None => Sealed(a)
      /\ boot[c].pc \in {"writeId", "writeKey", "writeSalt"} => d.salt = None
      /\ boot[c].pc = "writeKey" /\ ~Sealed(a) => d.id = boot[c].device
      /\ boot[c].pc = "writeSalt" /\ ~Sealed(a) => d.id = boot[c].device /\ d.priv = boot[c].device
  <2>1. boot[c].salt # None => Sealed(a)
    BY <1>1 DEF Keeper, SaltKnown, Writes, WriteSteps
  <2>2. boot[c].pc \in {"writeId", "writeKey", "writeSalt"} => d.salt = None
    BY <1>1, <1>2 DEF Client, TaskSound
  <2> QED BY <1>2, <2>1, <2>2 DEF Held, Written
<1>8. CASE Write(c, "sealed", "put", [d EXCEPT !.salt = boot[c].salt])
  <2>1. PICK n \in Slot0 : n = [d EXCEPT !.salt = boot[c].salt] /\ n.salt = boot[c].salt
    BY <1>1, SlotSalted
  <2> QED BY <1>3, <1>8, <2>1, WriteHeld
<1>4. CASE Write(c, "clearSalt", "writeId", [d EXCEPT !.salt = None])
  <2>1. PICK n \in Slot0 : n = [d EXCEPT !.salt = None] /\ n.salt = None /\ n.id = d.id /\ n.priv = d.priv
    BY SlotSalted, Constants0
  <2> QED BY <1>4, <2>1, WriteHeld
<1>5. CASE Write(c, "writeId", "writeKey", [d EXCEPT !.id = boot[c].device])
  <2>1. PICK n \in Slot0 : /\ n = [d EXCEPT !.id = boot[c].device] /\ n.salt = d.salt /\ n.priv = d.priv
                           /\ n.id = boot[c].device
    BY <1>1, SlotKeyed
  <2>2. boot[c].pc = "writeId"
    BY <1>5 DEF Write
  <2> QED BY <1>3, <1>5, <2>1, <2>2, WriteHeld
<1>6. CASE Write(c, "writeKey", "writeSalt", [d EXCEPT !.priv = boot[c].device])
  <2>1. PICK n \in Slot0 : /\ n = [d EXCEPT !.priv = boot[c].device] /\ n.salt = d.salt /\ n.id = d.id
                           /\ n.priv = boot[c].device
    BY <1>1, SlotKeyed
  <2>2. boot[c].pc = "writeKey"
    BY <1>6 DEF Write
  <2> QED BY <1>3, <1>6, <2>1, <2>2, WriteHeld
<1>7. CASE Write(c, "writeSalt", "active",
        [d EXCEPT !.salt = IF boot[c].salt = None THEN @ ELSE boot[c].salt])
  <2>1. PICK v \in Salts : v = IF boot[c].salt = None THEN d.salt ELSE boot[c].salt
    BY <1>1, SlotFields
  <2>2. PICK n \in Slot0 : n = [d EXCEPT !.salt = v] /\ n.salt = v /\ n.id = d.id /\ n.priv = d.priv
    BY SlotSalted
  <2>3. boot[c].pc = "writeSalt"
    BY <1>7 DEF Write
  <2>4. n = [d EXCEPT !.salt = IF boot[c].salt = None THEN @ ELSE boot[c].salt]
    BY <2>1, <2>2
  <2>5. Write(c, "writeSalt", "active", n)
    BY <1>7, <2>4
  <2>6. n.salt # None => Sealed(a)
    BY <1>3, <2>1, <2>2, <2>3
  <2> QED BY <1>3, <2>2, <2>3, <2>5, <2>6, WriteHeld
<1> QED BY <1>1, <1>2, <1>4, <1>5, <1>6, <1>7, <1>8 DEF WriteDisk

\* A browser writes it all at once.
LEMMA WriteRecordHeld ==
  ASSUME IInv, KeyInv, NEW c \in Clients, NEW a \in Accounts, Held(a), WriteRecord(c)
  PROVE  Held(a)'
<1>1. /\ Keeper(c) /\ boot[c].pc = "record" /\ boot[c].account = a
      /\ boot[c].device \in Devices /\ boot[c].salt \in Salts
  BY TaskShape DEF IInv, KeyInv, Held, Within, WriteRecord, Typed, TypedTasks, Writing, WriteSteps
<1>2. boot[c].salt # None => Sealed(a)
  BY <1>1 DEF Keeper, SaltKnown, Writes, WriteSteps
<1>3. PICK n \in Slot0 : /\ n = [id |-> boot[c].device, priv |-> boot[c].device, salt |-> boot[c].salt]
                         /\ n.id = boot[c].device /\ n.priv = boot[c].device /\ n.salt = boot[c].salt
  <2>1. PICK v \in Devices, s \in Salts : v = boot[c].device /\ s = boot[c].salt
    BY <1>1
  <2>2. [id |-> v, priv |-> v, salt |-> s] \in Slot0
    BY DEF Slot0
  <2> QED BY <2>1, <2>2
<1>4. Write(c, "record", "active", n)
  BY <1>3 DEF WriteRecord
<1> QED BY <1>2, <1>3, <1>4, WriteHeld

\* At first no key is in use.
LEMMA InitHeld ==
  ASSUME Init, NEW a \in Accounts
  PROVE  Held(a)
<1>1. \A c \in Clients : /\ boot[c].pc = "idle" /\ leave[c].pc = "idle" /\ who[c] = "nobody"
                         /\ \A s \in Slots(c) : disk[c][s] = Empty
  BY Constants0 DEF Init
<1>2. Empty.salt = None /\ \A e \in Accounts : used[e] = {}
  BY Constants0 DEF Init
<1> QED BY <1>1, <1>2 DEF Held, Within, Holder, Forgettable, Written, Reads

\* Every step keeps the key held.
LEMMA NextHeld ==
  ASSUME IInv, IInv', KeyInv, Next, NEW a \in Accounts, \A e \in scenario.accounts : e = a, Held(a)
  PROVE  Held(a)'
<1>1. PICK c \in Clients :
        \/ \E e \in Accounts : SignIn(c, e)
        \/ Restart(c) \/ Fails(c) \/ Fetch(c) \/ GiveUp(c)
        \/ UseDevice(c) \/ Reupload(c) \/ Reuploaded(c) \/ Resolve(c)
        \/ Ask(c) \/ Reseal(c) \/ Seal(c)
        \/ WithoutDevice(c) \/ PutDevice(c) \/ WriteDisk(c) \/ WriteRecord(c)
        \/ ChangePassword(c) \/ Revoke(c)
        \/ SignOut(c) \/ DropRows(c) \/ ServerSignOut(c) \/ SessionEnded(c)
        \/ CheckSalt(c) \/ Forget(c) \/ ForgetSalt(c)
  BY DEF Next
<1>2. CASE (\E e \in Accounts : SignIn(c, e)) \/ Restart(c)
  BY <1>2, StartHeld
<1>3. CASE Fails(c) \/ GiveUp(c) \/ Fetch(c) \/ Reupload(c)
  BY <1>3, BootHeld
<1>4. CASE UseDevice(c) \/ Reuploaded(c) \/ PutDevice(c) \/ Resolve(c)
  BY <1>4, UseDeviceHeld, RowHeld, ResolveHeld
<1>9. CASE Ask(c) \/ Revoke(c)
  BY <1>9, AskHeld
<1>5. CASE Seal(c) \/ Reseal(c) \/ ChangePassword(c)
  BY <1>5, SealHeld
<1>6. CASE WithoutDevice(c) \/ WriteDisk(c) \/ WriteRecord(c)
  BY <1>6, WithoutDeviceHeld, WriteDiskHeld, WriteRecordHeld
<1>7. CASE SignOut(c) \/ ServerSignOut(c) \/ SessionEnded(c) \/ CheckSalt(c)
  BY <1>7, LeaveHeld
<1>8. CASE DropRows(c) \/ Forget(c) \/ ForgetSalt(c)
  BY <1>8, DropRowsHeld, ForgetHeld
<1> QED BY <1>1, <1>2, <1>3, <1>4, <1>5, <1>6, <1>7, <1>8, <1>9

\* A step that changes nothing keeps it held.
LEMMA StutterHeld ==
  ASSUME UNCHANGED vars, NEW a \in Accounts, Held(a)
  PROVE  Held(a)'
<1>1. /\ envelope' = envelope /\ rows' = rows /\ used' = used /\ who' = who /\ disk' = disk /\ boot' = boot
      /\ leave' = leave
  BY DEF vars, server
<1>2. Sealed(a)' = Sealed(a) /\ (\A c \in Clients : Reads(c)' = Reads(c) /\ Stored(c, a)' = Stored(c, a))
  BY <1>1 DEF Sealed, Reads, Stored
<1>3. Within(a)'
  BY <1>1 DEF Held, Within
<1>4. Holder(a)'
  BY <1>1 DEF Held, Holder, Sealed, Stored, DeviceOpens
<1>5. ASSUME NEW c \in Clients PROVE Forgettable(c, a)' /\ Written(c, a)'
  BY <1>1, <1>2 DEF Held, Forgettable, Written
<1> QED BY <1>3, <1>4, <1>5 DEF Held

\* The key of the only account is held, while starts do not race.
HeldIInv ==
    ~May("race") /\ ~May("over") =>
        \A a \in Accounts : (\A e \in scenario.accounts : e = a) => Held(a)

\* The key is held in every reachable state.
LEMMA HeldInvariance == Spec => []HeldIInv
<1>1. Init => HeldIInv
  BY InitHeld DEF HeldIInv
<1>2. KeyIInv /\ KeyIInv' /\ HeldIInv /\ [Next]_vars => HeldIInv'
  <2> SUFFICES ASSUME KeyIInv, KeyIInv', HeldIInv, [Next]_vars PROVE HeldIInv'
    OBVIOUS
  <2>1. scenario' = scenario
    BY StaysInScenario DEF vars
  <2> SUFFICES ASSUME ~May("race"), ~May("over"), NEW a \in Accounts, \A e \in scenario.accounts : e = a
               PROVE  Held(a)'
    BY <2>1 DEF HeldIInv, May
  <2>2. IInv /\ IInv' /\ KeyInv /\ Held(a)
    BY DEF KeyIInv, HeldIInv
  <2> QED BY <2>2, NextHeld, StutterHeld
<1> QED BY <1>1, <1>2, KeyInvariance, PTL DEF Spec

\* KeyNeverLost, for any number of phones and browsers of one account,
\* whatever fails or is killed: the envelope or some client's disk still
\* yields every key that data may be encrypted with.
THEOREM NoKeyIsLost == Spec => []KeyNeverLost
<1>1. KeyIInv /\ HeldIInv => KeyNeverLost
  <2> SUFFICES ASSUME IInv, KeyInv, HeldIInv, ~May("race"), ~May("over"), ~May("cross"), Unshared,
                      NEW b \in Accounts, NEW k \in used[b]
               PROVE  InEnvelope(b, k) \/ \E c \in Clients : Holds(c, b, k)
    BY DEF KeyIInv, KeyNeverLost
  <2>1. PICK a \in Accounts : \A e \in scenario.accounts : e = a
    <3>1. scenario.accounts \subseteq Accounts
      BY KeysAssumption DEF IInv, Typed, TypedServer
    <3> QED BY <3>1 DEF Unshared
  <2>2. Held(a)
    BY <2>1 DEF HeldIInv
  <2>3. b = a
    BY <2>2 DEF Held, Within
  <2>4. k \in Numbers /\ KeyOf(a, k) /\ SoleKey(a)
    BY <2>3 DEF IInv, Typed, TypedClients, KeyInv, KeyOf
  <2>5. CASE Sealed(a)
    <3>1. envelope[a].salt.key \in Numbers /\ KeyOf(a, envelope[a].salt.key)
      BY <2>5 DEF IInv, Typed, TypedServer, Salts, KeyOf
    <3>2. envelope[a].salt.key = k
      BY <2>4, <3>1 DEF SoleKey
    <3>3. envelope[a].pw = pw[a]
      BY <2>5 DEF IInv, PasswordOpens, Sealed
    <3> QED BY <2>3, <3>2, <3>3 DEF InEnvelope
  <2>6. CASE ~Sealed(a)
    <3>1. PICK c \in Clients : DeviceOpens(Stored(c, a)) /\ Stored(c, a).id \in rows[a]
      BY <2>2, <2>3, <2>6 DEF Held, Holder
    <3>2. PICK d \in Devices : d = Stored(c, a).id /\ d \in rows[a]
      BY <3>1 DEF IInv, Typed, TypedServer
    <3>3. d.key \in Numbers /\ KeyOf(a, d.key)
      BY <3>2 DEF Devices, KeyOf, Of
    <3>4. d.key = k
      BY <2>4, <3>3 DEF SoleKey
    <3> QED BY <2>3, <3>1, <3>2, <3>4 DEF Holds
  <2> QED BY <2>5, <2>6
<1> QED BY <1>1, KeyInvariance, HeldInvariance, PTL

=============================================================================
