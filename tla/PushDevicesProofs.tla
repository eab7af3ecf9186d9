-------------------------- MODULE PushDevicesProofs --------------------------
(***************************************************************************)
(* The safety of PushDevices for any accounts, any number of acts and any  *)
(* scenarios.                                                              *)
(***************************************************************************)
EXTENDS PushDevices, TLAPS

Person == Accounts \cup {NoOne}

\* A request the server works on, whatever its number.
IsRequest(r) ==
    r \in [id : {r.id}, kind : {"register", "unregister"}, acct : Accounts,
           pc : {"new", "found", "done"}, found : Person, ok : BOOLEAN]

Typed ==
    /\ scenario \in Scenarios
    /\ account \in Person /\ jar \in Person /\ row \in Person
    /\ live \subseteq Accounts
    /\ leave \in [pc : {"idle", "read", "asked", "clear", "server"}, acct : Person, req : {leave.req}]
    /\ leave.pc # "idle" => leave.acct \in Accounts
    /\ reg \in [pc : {"idle", "read", "ask", "asked", "persist"}, req : {reg.req}]
    /\ \A r \in reqs : IsRequest(r)
TypedFlags ==
    /\ stored \in BOOLEAN /\ inherited \in BOOLEAN /\ last \in BOOLEAN
    /\ due \in BOOLEAN /\ told \in BOOLEAN
TypedActs == acts \in 0..scenario.acts

\* No sign-out is interrupted, no request given up, no session ended by the
\* server and no row by its age.
Plain == Only({"restart", "force", "denied", "fail"})

\* A phone without an account has nothing under way.
SignedOutIsIdle ==
    account = NoOne => ~due /\ reg.pc = "idle" /\ leave.pc = "idle" /\ reqs = {}

\* The account is the one whose session the jar has, which lasts until its
\* sign-out; nothing else accompanies that.
LeavesAlone ==
    /\ account \in {jar, NoOne}
    /\ jar # NoOne => jar \in live
    /\ leave.pc # "idle" => leave.acct = account /\ ~due /\ reg.pc = "idle"
    /\ leave.pc \in {"read", "clear", "server"} => reqs = {}

\* Requests are the account's: registrations, or the one that ends them.
OwnRequests ==
    /\ \A r \in reqs : r.acct = account
    /\ leave.pc = "idle" => \A r \in reqs : r.kind = "register"
    /\ leave.pc = "asked" => \E r \in reqs : reqs = {r} /\ r.kind = "unregister" /\ r.id = leave.req

\* Whatever says that the token is registered is right, but for a stored token
\* that was there before the account was.
StoredIsRegistered ==
    /\ last => stored
    /\ account # NoOne /\ told /\ leave.pc = "idle" => stored
    /\ jar # NoOne /\ leave.pc \in {"idle", "read"} /\ stored /\ ~inherited => row = jar
    /\ account # NoOne /\ leave.pc \in {"idle", "read"} /\ reg.pc = "persist" => row = account
    /\ \A r \in reqs : r.kind = "register" /\ r.ok => row = account

PlainInv == SignedOutIsIdle /\ LeavesAlone /\ OwnRequests /\ StoredIsRegistered

\* Besides, every request reaches the server, and the phone may notify.
Sound == Only({"restart", "force"})

\* The row is the account's or nobody's, so no registration is refused.
NoOtherRow ==
    /\ row \in {account, NoOne}
    /\ \A r \in reqs : r.found \in {account, NoOne}
    /\ \A r \in reqs : r.kind = "register" /\ r.pc = "done" => r.ok

\* An account whose registration has ended has the token stored, so that its
\* sign-out deletes the row.
EndsRegistered ==
    /\ account # NoOne /\ ~due /\ reg.pc = "idle" /\ leave.pc \in {"idle", "read"} => stored
    /\ \A r \in reqs : r.kind = "unregister" /\ r.pc = "done" => row = NoOne
    /\ leave.pc \in {"clear", "server"} => row = NoOne

\* A sign-out takes the cookie and the stored token with it.
LeavesNothing ==
    /\ jar = account
    /\ ~inherited
    /\ account = NoOne \/ leave.pc = "server" => ~stored

SoundInv == NoOtherRow /\ EndsRegistered /\ LeavesNothing

IInv ==
    /\ Typed /\ TypedFlags /\ TypedActs
    /\ Plain => PlainInv
    /\ Sound => SoundInv

\* What a step of the server makes of a request.
LEMMA FoundRequest ==
  ASSUME NEW r, IsRequest(r), NEW p \in Person
  PROVE  LET s == [r EXCEPT !.pc = "found", !.found = p]
         IN  /\ IsRequest(s) /\ s.id = r.id /\ s.kind = r.kind /\ s.acct = r.acct
             /\ s.pc = "found" /\ s.found = p /\ s.ok = r.ok
  BY DEF IsRequest

LEMMA DoneRequest ==
  ASSUME NEW r, IsRequest(r), NEW ok \in BOOLEAN
  PROVE  LET s == [r EXCEPT !.pc = "done", !.ok = ok]
         IN  /\ IsRequest(s) /\ s.id = r.id /\ s.kind = r.kind /\ s.acct = r.acct
             /\ s.pc = "done" /\ s.found = r.found /\ s.ok = ok
  BY DEF IsRequest

\* A new request.
LEMMA NewRequest ==
  ASSUME NEW n, NEW kind \in {"register", "unregister"}, NEW a \in Accounts
  PROVE  IsRequest([id |-> n, kind |-> kind, acct |-> a, pc |-> "new", found |-> NoOne, ok |-> FALSE])
  BY DEF IsRequest, Person

\* A sign-in finds the phone idle.
LEMMA SignInKeepsInv ==
  ASSUME IInv, NEW a \in Accounts, SignIn(a)
  PROVE  IInv'
<1>1. Typed'
  BY DEF IInv, Typed, Person, SignIn
<1>2. TypedFlags'
  BY PushAssumption DEF IInv, Typed, IsRequest, Person, TypedFlags, TypedActs, SignIn, Act
<1>3. TypedActs'
  BY PushAssumption DEF IInv, Typed, TypedActs, SignIn, Act
<1>4. ASSUME Plain' PROVE PlainInv'
  <2>0. PlainInv /\ ~May("overlap") /\ ~May("kill")
    BY <1>4 DEF IInv, Plain, Only, May, SignIn
  <2>1. SignedOutIsIdle'
    BY PushAssumption DEF SignedOutIsIdle, SignIn
  <2>2. LeavesAlone'
    BY <2>0 DEF PlainInv, SignedOutIsIdle, LeavesAlone, SignIn
  <2>3. OwnRequests'
    BY <2>0 DEF PlainInv, SignedOutIsIdle, OwnRequests, SignIn
  <2>4. StoredIsRegistered'
    BY <2>0 DEF PlainInv, SignedOutIsIdle, StoredIsRegistered, SignIn
  <2> QED BY <2>1, <2>2, <2>3, <2>4 DEF PlainInv
<1>5. ASSUME Sound' PROVE SoundInv'
  <2>0. PlainInv /\ SoundInv /\ ~May("overlap") /\ ~May("fail") /\ ~May("kill")
    BY <1>5 DEF IInv, Plain, Sound, Only, May, SignIn
  <2>1. NoOtherRow'
    BY <2>0 DEF SoundInv, NoOtherRow, SignIn
  <2>2. EndsRegistered'
    BY <2>0 DEF SoundInv, EndsRegistered, SignIn
  <2>3. LeavesNothing'
    BY <2>0 DEF PlainInv, SoundInv, SignedOutIsIdle, LeavesAlone, LeavesNothing, SignIn
  <2> QED BY <2>1, <2>2, <2>3 DEF SoundInv
<1> QED BY <1>1, <1>2, <1>3, <1>4, <1>5 DEF IInv

\* A token that was registered is the account's.
LEMMA RegisterKeepsInv ==
  ASSUME IInv, Register
  PROVE  IInv'
<1>1. Typed'
  BY DEF IInv, Typed, Register, NoReg
<1>2. TypedFlags'
  BY PushAssumption DEF IInv, Typed, IsRequest, Person, TypedFlags, TypedActs, Register, NoReg
<1>3. TypedActs'
  BY DEF IInv, TypedActs, Register
<1>4. ASSUME Plain' PROVE PlainInv'
  <2>0. PlainInv /\ ~May("overlap") /\ ~May("kill")
    BY <1>4 DEF IInv, Plain, Only, May, Register
  <2>1. SignedOutIsIdle'
    BY DEF SignedOutIsIdle, Register
  <2>2. LeavesAlone'
    BY <2>0 DEF PlainInv, LeavesAlone, Register
  <2>3. OwnRequests'
    BY <2>0 DEF PlainInv, OwnRequests, Register
  <2>4. StoredIsRegistered'
    BY <2>0 DEF PlainInv, StoredIsRegistered, IInv, TypedFlags, Register
  <2> QED BY <2>1, <2>2, <2>3, <2>4 DEF PlainInv
<1>5. ASSUME Sound' PROVE SoundInv'
  <2>0. PlainInv /\ SoundInv /\ ~May("overlap") /\ ~May("fail") /\ ~May("kill")
    BY <1>5 DEF IInv, Plain, Sound, Only, May, Register
  <2>1. NoOtherRow'
    BY <2>0 DEF SoundInv, NoOtherRow, Register
  <2>2. EndsRegistered'
    BY <2>0 DEF PlainInv, SoundInv, StoredIsRegistered, EndsRegistered, Register
  <2>3. LeavesNothing'
    BY <2>0 DEF PlainInv, SoundInv, SignedOutIsIdle, LeavesAlone, LeavesNothing, Register
  <2> QED BY <2>1, <2>2, <2>3 DEF SoundInv
<1> QED BY <1>1, <1>2, <1>3, <1>4, <1>5 DEF IInv

\* A phone that may not notify is left as it is.
LEMMA DeniedKeepsInv ==
  ASSUME IInv, Denied
  PROVE  IInv'
<1>1. Typed'
  BY DEF IInv, Typed, Denied
<1>2. TypedFlags'
  BY DEF IInv, TypedFlags, Denied
<1>3. TypedActs'
  BY DEF IInv, TypedActs, Denied
<1>4. ASSUME Plain' PROVE PlainInv'
  <2>0. PlainInv
    BY <1>4 DEF IInv, Plain, Only, Denied
  <2>1. SignedOutIsIdle'
    BY <2>0 DEF PlainInv, SignedOutIsIdle, Denied
  <2>2. LeavesAlone'
    BY <2>0 DEF PlainInv, LeavesAlone, Denied
  <2>3. OwnRequests'
    BY <2>0 DEF PlainInv, OwnRequests, Denied
  <2>4. StoredIsRegistered'
    BY <2>0 DEF PlainInv, StoredIsRegistered, Denied
  <2> QED BY <2>1, <2>2, <2>3, <2>4 DEF PlainInv
<1>5. ~Sound'
  BY DEF Denied, Sound, Only, May
<1> QED BY <1>1, <1>2, <1>3, <1>4, <1>5 DEF IInv

\* A forced registration starts from an idle phone.
LEMMA RefreshRegistrationKeepsInv ==
  ASSUME IInv, RefreshRegistration
  PROVE  IInv'
<1>1. Typed'
  BY DEF IInv, Typed, RefreshRegistration, NoReg
<1>2. TypedFlags'
  BY PushAssumption DEF IInv, Typed, IsRequest, Person, TypedFlags, TypedActs, RefreshRegistration, Act, NoReg
<1>3. TypedActs'
  BY PushAssumption DEF IInv, Typed, TypedActs, RefreshRegistration, Act
<1>4. ASSUME Plain' PROVE PlainInv'
  <2>0. PlainInv /\ ~May("overlap") /\ ~May("kill")
    BY <1>4 DEF IInv, Plain, Only, May, RefreshRegistration
  <2>1. SignedOutIsIdle'
    BY DEF SignedOutIsIdle, RefreshRegistration
  <2>2. LeavesAlone'
    BY <2>0 DEF PlainInv, LeavesAlone, RefreshRegistration
  <2>3. OwnRequests'
    BY <2>0 DEF PlainInv, OwnRequests, RefreshRegistration
  <2>4. StoredIsRegistered'
    BY <2>0 DEF PlainInv, StoredIsRegistered, RefreshRegistration
  <2> QED BY <2>1, <2>2, <2>3, <2>4 DEF PlainInv
<1>5. ASSUME Sound' PROVE SoundInv'
  <2>0. PlainInv /\ SoundInv /\ ~May("overlap") /\ ~May("fail") /\ ~May("kill")
    BY <1>5 DEF IInv, Plain, Sound, Only, May, RefreshRegistration
  <2>1. NoOtherRow'
    BY <2>0 DEF SoundInv, NoOtherRow, RefreshRegistration
  <2>2. EndsRegistered'
    BY <2>0 DEF SoundInv, EndsRegistered, RefreshRegistration
  <2>3. LeavesNothing'
    BY <2>0 DEF PlainInv, SoundInv, SignedOutIsIdle, LeavesAlone, LeavesNothing, RefreshRegistration
  <2> QED BY <2>1, <2>2, <2>3 DEF SoundInv
<1> QED BY <1>1, <1>2, <1>3, <1>4, <1>5 DEF IInv

\* A stored token is registered.
LEMMA ReadStoredKeepsInv ==
  ASSUME IInv, ReadStored
  PROVE  IInv'
<1>1. Typed'
  BY DEF IInv, Typed, ReadStored, NoReg
<1>2. TypedFlags'
  BY PushAssumption DEF IInv, Typed, IsRequest, Person, TypedFlags, TypedActs, ReadStored, NoReg
<1>3. TypedActs'
  BY DEF IInv, TypedActs, ReadStored
<1>4. ASSUME Plain' PROVE PlainInv'
  <2>0. PlainInv /\ ~May("overlap") /\ ~May("kill")
    BY <1>4 DEF IInv, Plain, Only, May, ReadStored
  <2>1. SignedOutIsIdle'
    BY <2>0 DEF PlainInv, SignedOutIsIdle, ReadStored
  <2>2. LeavesAlone'
    BY <2>0 DEF PlainInv, LeavesAlone, ReadStored
  <2>3. OwnRequests'
    BY <2>0 DEF PlainInv, OwnRequests, ReadStored
  <2>4. StoredIsRegistered'
    BY <2>0 DEF PlainInv, StoredIsRegistered, IInv, Typed, TypedFlags, ReadStored, NoReg
  <2> QED BY <2>1, <2>2, <2>3, <2>4 DEF PlainInv
<1>5. ASSUME Sound' PROVE SoundInv'
  <2>0. PlainInv /\ SoundInv /\ ~May("overlap") /\ ~May("fail") /\ ~May("kill")
    BY <1>5 DEF IInv, Plain, Sound, Only, May, ReadStored
  <2>1. NoOtherRow'
    BY <2>0 DEF SoundInv, NoOtherRow, ReadStored
  <2>2. EndsRegistered'
    BY <2>0 DEF PlainInv, SoundInv, StoredIsRegistered, EndsRegistered, IInv, Typed, ReadStored
  <2>3. LeavesNothing'
    BY <2>0 DEF PlainInv, SoundInv, SignedOutIsIdle, LeavesAlone, LeavesNothing, ReadStored
  <2> QED BY <2>1, <2>2, <2>3 DEF SoundInv
<1> QED BY <1>1, <1>2, <1>3, <1>4, <1>5 DEF IInv

\* The request is the account's.
LEMMA AskRegisterKeepsInv ==
  ASSUME IInv, AskRegister
  PROVE  IInv'
<1>1. Typed'
  <2>1. CASE reqs' = reqs
    BY <2>1 DEF IInv, Typed, AskRegister, NoReg
  <2>2. CASE account # NoOne /\ Ask("register", account) /\ reg' = [pc |-> "asked", req |-> Fresh]
    <3>1. account \in Accounts
      BY <2>2 DEF IInv, Typed, Person
    <3>2. \A r \in reqs' : IsRequest(r)
      BY <2>2, <3>1, NewRequest DEF IInv, Typed, Ask
    <3>3. reg' \in [pc : {"idle", "read", "ask", "asked", "persist"}, req : {reg'.req}]
      BY <2>2
    <3> QED BY <3>2, <3>3 DEF IInv, Typed, AskRegister
  <2> QED BY <2>1, <2>2 DEF AskRegister
<1>2. TypedFlags'
  BY DEF IInv, TypedFlags, AskRegister
<1>3. TypedActs'
  BY DEF IInv, TypedActs, AskRegister
<1>4. ASSUME Plain' PROVE PlainInv'
  <2>0. PlainInv /\ ~May("overlap") /\ ~May("kill")
    BY <1>4 DEF IInv, Plain, Only, May, AskRegister
  <2>1. SignedOutIsIdle'
    BY <2>0 DEF PlainInv, SignedOutIsIdle, AskRegister
  <2>2. LeavesAlone'
    BY <2>0 DEF PlainInv, LeavesAlone, AskRegister
  <2>3. OwnRequests'
    BY <2>0 DEF PlainInv, LeavesAlone, OwnRequests, AskRegister, Ask
  <2>4. StoredIsRegistered'
    BY <2>0 DEF PlainInv, StoredIsRegistered, AskRegister, Ask, NoReg
  <2> QED BY <2>1, <2>2, <2>3, <2>4 DEF PlainInv
<1>5. ASSUME Sound' PROVE SoundInv'
  <2>0. PlainInv /\ SoundInv /\ ~May("overlap") /\ ~May("fail") /\ ~May("kill")
    BY <1>5 DEF IInv, Plain, Sound, Only, May, AskRegister
  <2>1. NoOtherRow'
    BY <2>0 DEF SoundInv, NoOtherRow, AskRegister, Ask
  <2>2. EndsRegistered'
    BY <2>0 DEF SoundInv, EndsRegistered, AskRegister, Ask
  <2>3. LeavesNothing'
    BY <2>0 DEF PlainInv, SoundInv, SignedOutIsIdle, LeavesAlone, LeavesNothing, AskRegister
  <2> QED BY <2>1, <2>2, <2>3 DEF SoundInv
<1> QED BY <1>1, <1>2, <1>3, <1>4, <1>5 DEF IInv

\* A registration that succeeded has left its row.
LEMMA RegisterAnsweredKeepsInv ==
  ASSUME IInv, RegisterAnswered
  PROVE  IInv'
<1>1. Typed'
  BY DEF IInv, Typed, RegisterAnswered, NoReg
<1>2. TypedFlags'
  BY DEF IInv, TypedFlags, RegisterAnswered
<1>3. TypedActs'
  BY DEF IInv, TypedActs, RegisterAnswered
<1>4. ASSUME Plain' PROVE PlainInv'
  <2>0. PlainInv /\ ~May("overlap") /\ ~May("kill")
    BY <1>4 DEF IInv, Plain, Only, May, RegisterAnswered
  <2>1. SignedOutIsIdle'
    BY <2>0 DEF PlainInv, SignedOutIsIdle, RegisterAnswered
  <2>2. LeavesAlone'
    BY <2>0 DEF PlainInv, LeavesAlone, RegisterAnswered
  <2>3. OwnRequests'
    BY <2>0 DEF PlainInv, LeavesAlone, OwnRequests, RegisterAnswered
  <2>4. StoredIsRegistered'
    BY <2>0 DEF PlainInv, LeavesAlone, OwnRequests, StoredIsRegistered, RegisterAnswered, NoReg
  <2> QED BY <2>1, <2>2, <2>3, <2>4 DEF PlainInv
<1>5. ASSUME Sound' PROVE SoundInv'
  <2>0. PlainInv /\ SoundInv /\ ~May("overlap") /\ ~May("fail") /\ ~May("kill")
    BY <1>5 DEF IInv, Plain, Sound, Only, May, RegisterAnswered
  <2>1. NoOtherRow'
    BY <2>0 DEF SoundInv, NoOtherRow, RegisterAnswered
  <2>2. EndsRegistered'
    BY <2>0 DEF PlainInv, SoundInv, LeavesAlone, OwnRequests, NoOtherRow, EndsRegistered, RegisterAnswered
  <2>3. LeavesNothing'
    BY <2>0 DEF PlainInv, SoundInv, SignedOutIsIdle, LeavesAlone, LeavesNothing, RegisterAnswered
  <2> QED BY <2>1, <2>2, <2>3 DEF SoundInv
<1> QED BY <1>1, <1>2, <1>3, <1>4, <1>5 DEF IInv

\* Giving up on a request is excluded.
LEMMA GiveUpKeepsInv ==
  ASSUME IInv, GiveUp
  PROVE  IInv'
<1>1. Typed'
  BY DEF IInv, Typed, GiveUp, NoReg
<1>2. TypedFlags'
  BY DEF IInv, TypedFlags, GiveUp
<1>3. TypedActs'
  BY PushAssumption DEF IInv, Typed, TypedActs, GiveUp, Act
<1>4. ~Plain' /\ ~Sound'
  BY DEF GiveUp, Plain, Sound, Only, May
<1> QED BY <1>1, <1>2, <1>3, <1>4 DEF IInv

\* The token is stored when its row is there.
LEMMA PersistKeepsInv ==
  ASSUME IInv, Persist
  PROVE  IInv'
<1>1. Typed'
  BY DEF IInv, Typed, Persist, NoReg
<1>2. TypedFlags'
  BY DEF IInv, TypedFlags, Persist
<1>3. TypedActs'
  BY DEF IInv, TypedActs, Persist
<1>4. ASSUME Plain' PROVE PlainInv'
  <2>0. PlainInv /\ ~May("overlap") /\ ~May("kill")
    BY <1>4 DEF IInv, Plain, Only, May, Persist
  <2>1. SignedOutIsIdle'
    BY <2>0 DEF PlainInv, SignedOutIsIdle, Persist
  <2>2. LeavesAlone'
    BY <2>0 DEF PlainInv, LeavesAlone, Persist
  <2>3. OwnRequests'
    BY <2>0 DEF PlainInv, OwnRequests, Persist
  <2>4. StoredIsRegistered'
    BY <2>0 DEF PlainInv, SignedOutIsIdle, LeavesAlone, StoredIsRegistered, Persist, NoReg
  <2> QED BY <2>1, <2>2, <2>3, <2>4 DEF PlainInv
<1>5. ASSUME Sound' PROVE SoundInv'
  <2>0. PlainInv /\ SoundInv /\ ~May("overlap") /\ ~May("fail") /\ ~May("kill")
    BY <1>5 DEF IInv, Plain, Sound, Only, May, Persist
  <2>1. NoOtherRow'
    BY <2>0 DEF SoundInv, NoOtherRow, Persist
  <2>2. EndsRegistered'
    BY <2>0 DEF SoundInv, EndsRegistered, Persist
  <2>3. LeavesNothing'
    BY <2>0 DEF PlainInv, SoundInv, SignedOutIsIdle, LeavesAlone, LeavesNothing, Persist
  <2> QED BY <2>1, <2>2, <2>3 DEF SoundInv
<1> QED BY <1>1, <1>2, <1>3, <1>4, <1>5 DEF IInv

\* A sign-out starts when nothing else is under way.
LEMMA SignOutKeepsInv ==
  ASSUME IInv, SignOut
  PROVE  IInv'
<1>1. Typed'
  BY PushAssumption DEF IInv, Typed, IsRequest, Person, TypedFlags, TypedActs, May, SignOut, NoLeave
<1>2. TypedFlags'
  BY DEF IInv, TypedFlags, SignOut
<1>3. TypedActs'
  BY DEF IInv, TypedActs, SignOut
<1>4. ASSUME Plain' PROVE PlainInv'
  <2>0. PlainInv /\ ~May("overlap") /\ ~May("kill")
    BY <1>4 DEF IInv, Plain, Only, May, SignOut
  <2>1. SignedOutIsIdle'
    BY DEF SignedOutIsIdle, SignOut
  <2>2. LeavesAlone'
    BY <2>0 DEF PlainInv, LeavesAlone, SignOut
  <2>3. OwnRequests'
    BY <2>0 DEF OwnRequests, SignOut
  <2>4. StoredIsRegistered'
    BY <2>0 DEF PlainInv, StoredIsRegistered, SignOut
  <2> QED BY <2>1, <2>2, <2>3, <2>4 DEF PlainInv
<1>5. ASSUME Sound' PROVE SoundInv'
  <2>0. PlainInv /\ SoundInv /\ ~May("overlap") /\ ~May("fail") /\ ~May("kill")
    BY <1>5 DEF IInv, Plain, Sound, Only, May, SignOut
  <2>1. NoOtherRow'
    BY <2>0 DEF SoundInv, NoOtherRow, SignOut
  <2>2. EndsRegistered'
    BY <2>0 DEF SoundInv, EndsRegistered, SignOut
  <2>3. LeavesNothing'
    BY <2>0 DEF PlainInv, SoundInv, SignedOutIsIdle, LeavesAlone, LeavesNothing, SignOut
  <2> QED BY <2>1, <2>2, <2>3 DEF SoundInv
<1> QED BY <1>1, <1>2, <1>3, <1>4, <1>5 DEF IInv

\* Its request is the only one.
LEMMA AskUnregisterKeepsInv ==
  ASSUME IInv, AskUnregister
  PROVE  IInv'
<1>0. \/ stored /\ leave.acct \in Accounts /\ Ask("unregister", leave.acct)
         /\ leave' = [leave EXCEPT !.pc = "asked", !.req = Fresh]
      \/ reqs' = reqs /\ leave' \in {[leave EXCEPT !.pc = "clear"], [leave EXCEPT !.pc = "server"]}
  BY DEF IInv, Typed, AskUnregister
<1>1. Typed'
  <2>1. leave' \in [pc : {"idle", "read", "asked", "clear", "server"}, acct : Person, req : {leave'.req}]
    BY <1>0 DEF IInv, Typed
  <2>2. leave'.acct = leave.acct /\ leave.acct \in Accounts
    BY <1>0 DEF IInv, Typed, AskUnregister
  <2>3. \A r \in reqs' : IsRequest(r)
    BY <1>0, NewRequest DEF IInv, Typed, Ask
  <2> QED BY <2>1, <2>2, <2>3 DEF IInv, Typed, AskUnregister
<1>2. TypedFlags'
  BY DEF IInv, TypedFlags, AskUnregister
<1>3. TypedActs'
  BY DEF IInv, TypedActs, AskUnregister
<1>4. ASSUME Plain' PROVE PlainInv'
  <2>0. PlainInv /\ ~May("overlap") /\ ~May("kill")
    BY <1>4 DEF IInv, Plain, Only, May, AskUnregister
  <2>1. SignedOutIsIdle'
    BY <2>0 DEF PlainInv, SignedOutIsIdle, AskUnregister
  <2>2. LeavesAlone'
    BY <2>0, PushAssumption DEF PlainInv, SignedOutIsIdle, LeavesAlone, OwnRequests, StoredIsRegistered,
       IInv, Typed, IsRequest, Person, TypedFlags, TypedActs, AskUnregister, Ask
  <2>3. OwnRequests'
    <3>1. reqs = {} /\ leave.acct = account /\ leave.pc = "read"
      BY <2>0 DEF PlainInv, LeavesAlone, AskUnregister
    <3>2. CASE Ask("unregister", leave.acct) /\ leave' = [leave EXCEPT !.pc = "asked", !.req = Fresh]
      <4>1. PICK s : s.id = Fresh /\ s.kind = "unregister" /\ s.acct = account /\ reqs' = {s}
        BY <3>1, <3>2 DEF Ask
      <4>2. leave'.pc = "asked" /\ leave'.req = Fresh /\ account' = account
        BY <3>2 DEF AskUnregister
      <4> QED BY <4>1, <4>2 DEF OwnRequests
    <3> QED BY <1>0, <3>1, <3>2 DEF OwnRequests, IInv, Typed
  <2>4. StoredIsRegistered'
    <3>1. leave'.pc \in {"asked", "clear", "server"}
      BY <1>0 DEF IInv, Typed
    <3>2. \A r \in reqs' : r \in reqs \/ ~r.ok
      BY <1>0 DEF Ask
    <3> QED BY <2>0, <3>1, <3>2 DEF PlainInv, StoredIsRegistered, AskUnregister
  <2> QED BY <2>1, <2>2, <2>3, <2>4 DEF PlainInv
<1>5. ASSUME Sound' PROVE SoundInv'
  <2>0. PlainInv /\ SoundInv /\ ~May("overlap") /\ ~May("fail") /\ ~May("kill")
    BY <1>5 DEF IInv, Plain, Sound, Only, May, AskUnregister
  <2>1. NoOtherRow'
    BY <2>0 DEF SoundInv, NoOtherRow, AskUnregister, Ask
  <2>2. EndsRegistered'
    <3>1. reqs = {} /\ stored /\ account' = account /\ stored' = stored
      <4>1. leave.pc = "read" /\ account # NoOne
        BY <2>0, PushAssumption DEF PlainInv, LeavesAlone, IInv, Typed, AskUnregister
      <4> QED BY <2>0, <4>1 DEF PlainInv, LeavesAlone, SoundInv, EndsRegistered, AskUnregister
    <3>2. Ask("unregister", leave.acct) /\ leave'.pc = "asked"
      BY <2>0, <3>1 DEF AskUnregister, IInv, Typed
    <3>3. \A r \in reqs' : r.pc = "new"
      BY <3>1, <3>2 DEF Ask
    <3> QED BY <3>2, <3>3 DEF EndsRegistered
  <2>3. LeavesNothing'
    BY <2>0 DEF PlainInv, SoundInv, SignedOutIsIdle, LeavesAlone, LeavesNothing, IInv, Typed, AskUnregister
  <2> QED BY <2>1, <2>2, <2>3 DEF SoundInv
<1> QED BY <1>1, <1>2, <1>3, <1>4, <1>5 DEF IInv

\* The answer leaves no request behind.
LEMMA UnregisterAnsweredKeepsInv ==
  ASSUME IInv, UnregisterAnswered
  PROVE  IInv'
<1>1. Typed'
  BY DEF IInv, Typed, UnregisterAnswered
<1>2. TypedFlags'
  BY DEF IInv, TypedFlags, UnregisterAnswered
<1>3. TypedActs'
  BY DEF IInv, TypedActs, UnregisterAnswered
<1>4. ASSUME Plain' PROVE PlainInv'
  <2>0. PlainInv /\ ~May("overlap") /\ ~May("kill")
    BY <1>4 DEF IInv, Plain, Only, May, UnregisterAnswered
  <2>1. SignedOutIsIdle'
    BY <2>0 DEF PlainInv, SignedOutIsIdle, UnregisterAnswered
  <2>2. LeavesAlone'
    BY <2>0 DEF PlainInv, LeavesAlone, OwnRequests, UnregisterAnswered
  <2>3. OwnRequests'
    BY <2>0 DEF PlainInv, OwnRequests, UnregisterAnswered
  <2>4. StoredIsRegistered'
    BY <2>0 DEF PlainInv, StoredIsRegistered, UnregisterAnswered
  <2> QED BY <2>1, <2>2, <2>3, <2>4 DEF PlainInv
<1>5. ASSUME Sound' PROVE SoundInv'
  <2>0. PlainInv /\ SoundInv /\ ~May("overlap") /\ ~May("fail") /\ ~May("kill")
    BY <1>5 DEF IInv, Plain, Sound, Only, May, UnregisterAnswered
  <2>1. NoOtherRow'
    BY <2>0 DEF SoundInv, NoOtherRow, UnregisterAnswered
  <2>2. EndsRegistered'
    BY <2>0 DEF PlainInv, SoundInv, OwnRequests, EndsRegistered, UnregisterAnswered
  <2>3. LeavesNothing'
    BY <2>0 DEF PlainInv, SoundInv, SignedOutIsIdle, LeavesAlone, LeavesNothing, UnregisterAnswered
  <2> QED BY <2>1, <2>2, <2>3 DEF SoundInv
<1> QED BY <1>1, <1>2, <1>3, <1>4, <1>5 DEF IInv

\* The token is forgotten.
LEMMA ClearStoredKeepsInv ==
  ASSUME IInv, ClearStored
  PROVE  IInv'
<1>1. Typed'
  BY DEF IInv, Typed, ClearStored
<1>2. TypedFlags'
  BY PushAssumption DEF IInv, Typed, IsRequest, Person, TypedFlags, TypedActs, ClearStored
<1>3. TypedActs'
  BY DEF IInv, TypedActs, ClearStored
<1>4. ASSUME Plain' PROVE PlainInv'
  <2>0. PlainInv /\ ~May("overlap") /\ ~May("kill")
    BY <1>4 DEF IInv, Plain, Only, May, ClearStored
  <2>1. SignedOutIsIdle'
    BY <2>0 DEF PlainInv, SignedOutIsIdle, ClearStored
  <2>2. LeavesAlone'
    BY <2>0 DEF PlainInv, LeavesAlone, ClearStored
  <2>3. OwnRequests'
    BY <2>0 DEF PlainInv, OwnRequests, ClearStored
  <2>4. StoredIsRegistered'
    BY <2>0 DEF PlainInv, StoredIsRegistered, ClearStored
  <2> QED BY <2>1, <2>2, <2>3, <2>4 DEF PlainInv
<1>5. ASSUME Sound' PROVE SoundInv'
  <2>0. PlainInv /\ SoundInv /\ ~May("overlap") /\ ~May("fail") /\ ~May("kill")
    BY <1>5 DEF IInv, Plain, Sound, Only, May, ClearStored
  <2>1. NoOtherRow'
    BY <2>0 DEF SoundInv, NoOtherRow, ClearStored
  <2>2. EndsRegistered'
    BY <2>0 DEF SoundInv, EndsRegistered, ClearStored
  <2>3. LeavesNothing'
    BY <2>0 DEF PlainInv, SoundInv, SignedOutIsIdle, LeavesAlone, LeavesNothing, ClearStored
  <2> QED BY <2>1, <2>2, <2>3 DEF SoundInv
<1> QED BY <1>1, <1>2, <1>3, <1>4, <1>5 DEF IInv

\* The phone is idle.
LEMMA SignedOutKeepsInv ==
  ASSUME IInv, SignedOut
  PROVE  IInv'
<1>1. Typed'
  BY DEF IInv, Typed, IsRequest, Person, SignedOut, SessionOver, NoLeave
<1>2. TypedFlags'
  BY PushAssumption DEF IInv, Typed, IsRequest, Person, TypedFlags, TypedActs, SignedOut, SessionOver, NoLeave
<1>3. TypedActs'
  BY DEF IInv, TypedActs, SignedOut
<1>4. ASSUME Plain' PROVE PlainInv'
  <2>0. PlainInv /\ ~May("overlap") /\ ~May("kill")
    BY <1>4 DEF IInv, Plain, Only, May, SignedOut
  <2>1. SignedOutIsIdle'
    BY <2>0 DEF PlainInv, SignedOutIsIdle, LeavesAlone, SignedOut, SessionOver, NoLeave
  <2>2. LeavesAlone'
    BY DEF LeavesAlone, SignedOut, NoLeave
  <2>3. OwnRequests'
    BY <2>0 DEF PlainInv, LeavesAlone, OwnRequests, SignedOut, SessionOver, NoLeave
  <2>4. StoredIsRegistered'
    BY <2>0 DEF PlainInv, LeavesAlone, StoredIsRegistered, SignedOut, SessionOver
  <2> QED BY <2>1, <2>2, <2>3, <2>4 DEF PlainInv
<1>5. ASSUME Sound' PROVE SoundInv'
  <2>0. PlainInv /\ SoundInv /\ ~May("overlap") /\ ~May("fail") /\ ~May("kill")
    BY <1>5 DEF IInv, Plain, Sound, Only, May, SignedOut
  <2>1. NoOtherRow'
    BY <2>0 DEF PlainInv, SoundInv, LeavesAlone, NoOtherRow, EndsRegistered, SignedOut, SessionOver
  <2>2. EndsRegistered'
    BY <2>0 DEF SoundInv, EndsRegistered, SignedOut
  <2>3. LeavesNothing'
    BY <2>0 DEF PlainInv, SoundInv, SignedOutIsIdle, LeavesAlone, LeavesNothing, SignedOut, SessionOver, NoLeave
  <2> QED BY <2>1, <2>2, <2>3 DEF SoundInv
<1> QED BY <1>1, <1>2, <1>3, <1>4, <1>5 DEF IInv

\* The server ends no session by itself.
LEMMA RevokeKeepsInv ==
  ASSUME IInv, Revoke
  PROVE  IInv'
<1>1. Typed'
  BY DEF IInv, Typed, IsRequest, Revoke, SessionOver
<1>2. TypedFlags'
  BY DEF IInv, TypedFlags, Revoke
<1>3. TypedActs'
  BY PushAssumption DEF IInv, Typed, TypedActs, Revoke, Act
<1>4. ~Plain' /\ ~Sound'
  BY DEF Revoke, Plain, Sound, Only, May
<1> QED BY <1>1, <1>2, <1>3, <1>4 DEF IInv

\* So the phone never finds it ended.
LEMMA EndSessionKeepsInv ==
  ASSUME IInv, EndSession
  PROVE  IInv'
<1>1. Typed'
  BY DEF IInv, Typed, Person, EndSession
<1>2. TypedFlags'
  BY PushAssumption DEF IInv, Typed, IsRequest, Person, TypedFlags, TypedActs, EndSession
<1>3. TypedActs'
  BY DEF IInv, TypedActs, EndSession
<1>4. ~Plain' /\ ~Sound'
  BY DEF EndSession, Plain, Sound, Only, IInv, PlainInv, LeavesAlone
<1> QED BY <1>1, <1>2, <1>3, <1>4 DEF IInv

\* The account is kept, and the registration tried anew.
LEMMA RestartKeepsInv ==
  ASSUME IInv, Restart
  PROVE  IInv'
<1>1. Typed'
  BY DEF IInv, Typed, Person, Restart, NoReg, NoLeave
<1>2. TypedFlags'
  BY PushAssumption DEF IInv, Typed, IsRequest, Person, TypedFlags, TypedActs, Restart, Act, NoReg, NoLeave
<1>3. TypedActs'
  BY PushAssumption DEF IInv, Typed, TypedActs, Restart, Act
<1>4. ASSUME Plain' PROVE PlainInv'
  <2>0. PlainInv /\ ~May("overlap") /\ ~May("kill")
    BY <1>4 DEF IInv, Plain, Only, May, Restart
  <2>a. account' \in {jar, NoOne} /\ (reqs # {} => account' = account /\ account # NoOne)
    BY <2>0 DEF PlainInv, SignedOutIsIdle, LeavesAlone, Restart
  <2>1. SignedOutIsIdle'
    BY <2>0, <2>a DEF PlainInv, SignedOutIsIdle, LeavesAlone, IInv, TypedFlags, Restart, NoReg, NoLeave
  <2>2. LeavesAlone'
    BY <2>0, <2>a DEF PlainInv, LeavesAlone, Restart, NoLeave
  <2>3. OwnRequests'
    BY <2>0, <2>a DEF PlainInv, LeavesAlone, OwnRequests, Restart, NoLeave
  <2>4. StoredIsRegistered'
    BY <2>0, <2>a DEF PlainInv, LeavesAlone, StoredIsRegistered, Restart, NoReg
  <2> QED BY <2>1, <2>2, <2>3, <2>4 DEF PlainInv
<1>5. ASSUME Sound' PROVE SoundInv'
  <2>0. PlainInv /\ SoundInv /\ ~May("overlap") /\ ~May("fail") /\ ~May("kill")
    BY <1>5 DEF IInv, Plain, Sound, Only, May, Restart
  <2>1. NoOtherRow'
    BY <2>0 DEF PlainInv, SoundInv, LeavesAlone, NoOtherRow, Restart
  <2>2. EndsRegistered'
    BY <2>0, PushAssumption DEF PlainInv, SoundInv, SignedOutIsIdle, LeavesAlone, OwnRequests,
       StoredIsRegistered, NoOtherRow, EndsRegistered, IInv, Typed, IsRequest, Person, TypedFlags,
         TypedActs, Restart, Act, NoReg, NoLeave
  <2>3. LeavesNothing'
    BY <2>0 DEF PlainInv, SoundInv, SignedOutIsIdle, LeavesAlone, LeavesNothing, Restart, LeavesAlone, NoLeave
  <2> QED BY <2>1, <2>2, <2>3 DEF SoundInv
<1> QED BY <1>1, <1>2, <1>3, <1>4, <1>5 DEF IInv

\* The row is looked up for the account.
LEMMA LookupKeepsInv ==
  ASSUME IInv, NEW r \in reqs, Lookup(r)
  PROVE  IInv'
<1>0. PICK s : /\ IsRequest(s) /\ s.id = r.id /\ s.kind = r.kind /\ s.acct = r.acct /\ s.ok \in {r.ok, FALSE}
               /\ s.found \in {r.found, row} /\ (s.pc = "found" \/ (s.pc = "done" /\ r.acct \notin live))
               /\ reqs' = (reqs \ {r}) \cup {s}
  <2>1. IsRequest(r) /\ row \in Person
    BY DEF IInv, Typed
  <2>2. CASE r.acct \in live
    BY <2>1, <2>2, FoundRequest DEF Lookup, Becomes
  <2>3. CASE r.acct \notin live
    BY <2>1, <2>3, DoneRequest DEF Lookup, Done, Becomes
  <2> QED BY <2>2, <2>3
<1>1. Typed'
  BY <1>0 DEF IInv, Typed, Lookup, phone
<1>2. TypedFlags'
  BY DEF IInv, TypedFlags, Lookup, phone
<1>3. TypedActs'
  BY DEF IInv, TypedActs, Lookup, phone
<1>4. ASSUME Plain' PROVE PlainInv'
  <2>0. PlainInv /\ ~May("overlap") /\ ~May("kill")
    BY <1>4 DEF IInv, Plain, Only, May, Lookup
  <2>1. SignedOutIsIdle'
    BY <2>0 DEF PlainInv, SignedOutIsIdle, Lookup, phone
  <2>2. LeavesAlone'
    BY <2>0 DEF PlainInv, LeavesAlone, Lookup, phone
  <2>3. OwnRequests'
    BY <1>0, <2>0 DEF PlainInv, OwnRequests, Lookup, phone
  <2>4. StoredIsRegistered'
    BY <1>0, <2>0, PushAssumption DEF PlainInv, SignedOutIsIdle, LeavesAlone, OwnRequests,
       StoredIsRegistered, IInv, Typed, IsRequest, Person, TypedFlags, TypedActs, Lookup, phone
  <2> QED BY <2>1, <2>2, <2>3, <2>4 DEF PlainInv
<1>5. ASSUME Sound' PROVE SoundInv'
  <2>0. PlainInv /\ SoundInv /\ ~May("overlap") /\ ~May("fail") /\ ~May("kill")
    BY <1>5 DEF IInv, Plain, Sound, Only, May, Lookup
  <2>1. NoOtherRow'
    BY <1>0, <2>0 DEF PlainInv, SoundInv, SignedOutIsIdle, LeavesAlone, OwnRequests, NoOtherRow, Lookup, phone
  <2>2. EndsRegistered'
    BY <1>0, <2>0 DEF SoundInv, EndsRegistered, Lookup, phone
  <2>3. LeavesNothing'
    BY <2>0 DEF PlainInv, SoundInv, SignedOutIsIdle, LeavesAlone, LeavesNothing, Lookup, phone
  <2> QED BY <2>1, <2>2, <2>3 DEF SoundInv
<1> QED BY <1>1, <1>2, <1>3, <1>4, <1>5 DEF IInv

\* Only a row of another account is replaced.
LEMMA ReplaceKeepsInv ==
  ASSUME IInv, NEW r \in reqs, Replace(r)
  PROVE  IInv'
<1>1. Typed'
  BY DEF IInv, Typed, IsRequest, Person, Replace, Becomes, phone
<1>2. TypedFlags'
  BY DEF IInv, TypedFlags, Replace, phone
<1>3. TypedActs'
  BY DEF IInv, TypedActs, Replace, phone
<1>4. ASSUME Plain' PROVE PlainInv'
  <2>0. PlainInv /\ ~May("overlap") /\ ~May("kill")
    BY <1>4 DEF IInv, Plain, Only, May, Replace
  <2>1. SignedOutIsIdle'
    BY <2>0 DEF PlainInv, SignedOutIsIdle, Replace, phone
  <2>2. LeavesAlone'
    BY <2>0 DEF PlainInv, LeavesAlone, Replace, phone
  <2>3. OwnRequests'
    BY <2>0 DEF PlainInv, OwnRequests, IInv, Typed, IsRequest, Replace, Becomes, phone
  <2>4. StoredIsRegistered'
    BY <2>0 DEF PlainInv, SignedOutIsIdle, LeavesAlone, OwnRequests, StoredIsRegistered, IInv, Typed,
       IsRequest, Replace, Becomes, phone
  <2> QED BY <2>1, <2>2, <2>3, <2>4 DEF PlainInv
<1>5. ASSUME Sound' PROVE SoundInv'
  <2>0. PlainInv /\ SoundInv /\ ~May("overlap") /\ ~May("fail") /\ ~May("kill")
    BY <1>5 DEF IInv, Plain, Sound, Only, May, Replace
  <2>1. NoOtherRow'
    BY <2>0 DEF PlainInv, SoundInv, OwnRequests, NoOtherRow, Replace
  <2>2. EndsRegistered'
    BY <2>0 DEF PlainInv, SoundInv, OwnRequests, NoOtherRow, Replace
  <2>3. LeavesNothing'
    BY <2>0 DEF PlainInv, SoundInv, SignedOutIsIdle, LeavesAlone, LeavesNothing, Replace, phone
  <2> QED BY <2>1, <2>2, <2>3 DEF SoundInv
<1> QED BY <1>1, <1>2, <1>3, <1>4, <1>5 DEF IInv

\* The row becomes the account's.
LEMMA UpsertKeepsInv ==
  ASSUME IInv, NEW r \in reqs, Upsert(r)
  PROVE  IInv'
<1>0. PICK s : /\ IsRequest(s) /\ s.id = r.id /\ s.kind = r.kind /\ s.acct = r.acct /\ s.found = r.found
               /\ s.pc = "done" /\ (s.ok <=> row \in {NoOne, r.acct})
               /\ reqs' = (reqs \ {r}) \cup {s}
  <2>1. IsRequest(r)
    BY DEF IInv, Typed
  <2> QED BY <2>1, DoneRequest DEF Upsert, Done, Becomes
<1>1. Typed'
  BY <1>0, PushAssumption DEF IInv, Typed, IsRequest, Person, TypedFlags, TypedActs, May, Upsert, phone
<1>2. TypedFlags'
  BY DEF IInv, TypedFlags, Upsert, phone
<1>3. TypedActs'
  BY DEF IInv, TypedActs, Upsert, phone
<1>4. ASSUME Plain' PROVE PlainInv'
  <2>0. PlainInv /\ ~May("overlap") /\ ~May("kill")
    BY <1>4 DEF IInv, Plain, Only, May, Upsert
  <2>1. SignedOutIsIdle'
    BY <2>0 DEF PlainInv, SignedOutIsIdle, Upsert, phone
  <2>2. LeavesAlone'
    BY <2>0 DEF PlainInv, LeavesAlone, Upsert, phone
  <2>3. OwnRequests'
    BY <1>0, <2>0 DEF PlainInv, OwnRequests, Upsert, phone
  <2>4. StoredIsRegistered'
    BY <1>0, <2>0, PushAssumption DEF PlainInv, SignedOutIsIdle, LeavesAlone, OwnRequests,
       StoredIsRegistered, IInv, Typed, IsRequest, Person, TypedFlags, TypedActs, Upsert, phone
  <2> QED BY <2>1, <2>2, <2>3, <2>4 DEF PlainInv
<1>5. ASSUME Sound' PROVE SoundInv'
  <2>0. PlainInv /\ SoundInv /\ ~May("overlap") /\ ~May("fail") /\ ~May("kill")
    BY <1>5 DEF IInv, Plain, Sound, Only, May, Upsert
  <2>1. NoOtherRow'
    BY <1>0, <2>0, PushAssumption DEF PlainInv, SoundInv, SignedOutIsIdle, LeavesAlone, OwnRequests,
       StoredIsRegistered, NoOtherRow, EndsRegistered, IInv, Typed, IsRequest, Person, TypedFlags,
         TypedActs, Upsert, phone
  <2>2. EndsRegistered'
    BY <1>0, <2>0 DEF PlainInv, SoundInv, LeavesAlone, OwnRequests, EndsRegistered, IInv, Typed, Upsert, phone
  <2>3. LeavesNothing'
    BY <2>0 DEF PlainInv, SoundInv, SignedOutIsIdle, LeavesAlone, LeavesNothing, Upsert, phone
  <2> QED BY <2>1, <2>2, <2>3 DEF SoundInv
<1> QED BY <1>1, <1>2, <1>3, <1>4, <1>5 DEF IInv

\* The row goes when the account leaves.
LEMMA UnregisterKeepsInv ==
  ASSUME IInv, NEW r \in reqs, Unregister(r)
  PROVE  IInv'
<1>0. PICK s : /\ IsRequest(s) /\ s.id = r.id /\ s.kind = r.kind /\ s.acct = r.acct /\ s.found = r.found
               /\ s.pc = "done" /\ reqs' = (reqs \ {r}) \cup {s}
  <2>1. IsRequest(r) /\ (r.acct \in live) \in BOOLEAN
    BY DEF IInv, Typed
  <2> QED BY <2>1, DoneRequest DEF Unregister, Done, Becomes
<1>1. Typed'
  BY <1>0 DEF IInv, Typed, Person, Unregister, phone
<1>2. TypedFlags'
  BY DEF IInv, TypedFlags, Unregister, phone
<1>3. TypedActs'
  BY DEF IInv, TypedActs, Unregister, phone
<1>4. ASSUME Plain' PROVE PlainInv'
  <2>0. PlainInv /\ ~May("overlap") /\ ~May("kill")
    BY <1>4 DEF IInv, Plain, Only, May, Unregister
  <2>1. SignedOutIsIdle'
    BY <2>0 DEF PlainInv, SignedOutIsIdle, Unregister, phone
  <2>2. LeavesAlone'
    BY <2>0 DEF PlainInv, LeavesAlone, Unregister, phone
  <2>3. OwnRequests'
    BY <1>0, <2>0 DEF PlainInv, OwnRequests, Unregister, phone
  <2>4. StoredIsRegistered'
    BY <1>0, <2>0 DEF PlainInv, LeavesAlone, OwnRequests, StoredIsRegistered, IInv, Typed, Unregister, phone
  <2> QED BY <2>1, <2>2, <2>3, <2>4 DEF PlainInv
<1>5. ASSUME Sound' PROVE SoundInv'
  <2>0. PlainInv /\ SoundInv /\ ~May("overlap") /\ ~May("fail") /\ ~May("kill")
    BY <1>5 DEF IInv, Plain, Sound, Only, May, Unregister
  <2>1. NoOtherRow'
    BY <1>0, <2>0 DEF SoundInv, NoOtherRow, Unregister, phone
  <2>2. EndsRegistered'
    BY <2>0 DEF PlainInv, SoundInv, LeavesAlone, OwnRequests, NoOtherRow, EndsRegistered, Unregister, phone
  <2>3. LeavesNothing'
    BY <2>0 DEF PlainInv, SoundInv, SignedOutIsIdle, LeavesAlone, LeavesNothing, Unregister, phone
  <2> QED BY <2>1, <2>2, <2>3 DEF SoundInv
<1> QED BY <1>1, <1>2, <1>3, <1>4, <1>5 DEF IInv

\* An answer nobody waits for changes nothing.
LEMMA ForgottenKeepsInv ==
  ASSUME IInv, NEW r \in reqs, Forgotten(r)
  PROVE  IInv'
<1>1. Typed'
  BY DEF IInv, Typed, Forgotten, phone
<1>2. TypedFlags'
  BY DEF IInv, TypedFlags, Forgotten, phone
<1>3. TypedActs'
  BY DEF IInv, TypedActs, Forgotten, phone
<1>4. ASSUME Plain' PROVE PlainInv'
  <2>0. PlainInv /\ ~May("overlap") /\ ~May("kill")
    BY <1>4 DEF IInv, Plain, Only, May, Forgotten
  <2>1. SignedOutIsIdle'
    BY <2>0 DEF PlainInv, SignedOutIsIdle, Forgotten, phone
  <2>2. LeavesAlone'
    BY <2>0 DEF PlainInv, LeavesAlone, Forgotten, phone
  <2>3. OwnRequests'
    BY <2>0 DEF PlainInv, OwnRequests, Forgotten, phone
  <2>4. StoredIsRegistered'
    BY <2>0 DEF PlainInv, StoredIsRegistered, Forgotten, phone
  <2> QED BY <2>1, <2>2, <2>3, <2>4 DEF PlainInv
<1>5. ASSUME Sound' PROVE SoundInv'
  <2>0. PlainInv /\ SoundInv /\ ~May("overlap") /\ ~May("fail") /\ ~May("kill")
    BY <1>5 DEF IInv, Plain, Sound, Only, May, Forgotten
  <2>1. NoOtherRow'
    BY <2>0 DEF SoundInv, NoOtherRow, Forgotten, phone
  <2>2. EndsRegistered'
    BY <2>0 DEF SoundInv, EndsRegistered, Forgotten, phone
  <2>3. LeavesNothing'
    BY <2>0 DEF PlainInv, SoundInv, SignedOutIsIdle, LeavesAlone, LeavesNothing, Forgotten, phone
  <2> QED BY <2>1, <2>2, <2>3 DEF SoundInv
<1> QED BY <1>1, <1>2, <1>3, <1>4, <1>5 DEF IInv

\* No row goes by its age.
LEMMA RetentionKeepsInv ==
  ASSUME IInv, Retention
  PROVE  IInv'
<1>1. Typed'
  BY DEF IInv, Typed, Person, Retention
<1>2. TypedFlags'
  BY PushAssumption DEF IInv, Typed, IsRequest, Person, TypedFlags, TypedActs, Retention, Act
<1>3. TypedActs'
  BY PushAssumption DEF IInv, Typed, TypedActs, Retention, Act
<1>4. ~Plain' /\ ~Sound'
  BY DEF Retention, Plain, Sound, Only, May
<1> QED BY <1>1, <1>2, <1>3, <1>4 DEF IInv

\* The phone is new: nobody is signed in and no row is there.
LEMMA InitInv == Init => IInv
<1> SUFFICES ASSUME Init PROVE IInv
  OBVIOUS
<1>1. Typed /\ TypedFlags
  BY DEF Init, Typed, TypedFlags, NoReg, NoLeave, Person
<1>2. TypedActs
  BY PushAssumption DEF Init, TypedActs
<1>3. PlainInv
  BY DEF Init, PlainInv, SignedOutIsIdle, LeavesAlone, OwnRequests, StoredIsRegistered, NoReg, NoLeave
<1>4. SoundInv
  BY DEF Init, SoundInv, NoOtherRow, EndsRegistered, LeavesNothing
<1> QED BY <1>1, <1>2, <1>3, <1>4 DEF IInv

\* No step, and no stuttering, breaks the invariant.
LEMMA NextInv == IInv /\ [Next]_vars => IInv'
<1> SUFFICES ASSUME IInv, [Next]_vars PROVE IInv'
  OBVIOUS
<1>1. CASE UNCHANGED vars
  BY <1>1 DEF vars, IInv, Typed, TypedFlags, TypedActs, Plain, Sound, Only, PlainInv, SoundInv,
       SignedOutIsIdle, LeavesAlone, OwnRequests, StoredIsRegistered, NoOtherRow, EndsRegistered,
       LeavesNothing
<1>2. CASE App
  BY <1>2, DeniedKeepsInv, RegisterKeepsInv, ReadStoredKeepsInv, AskRegisterKeepsInv, RegisterAnsweredKeepsInv,
     PersistKeepsInv, AskUnregisterKeepsInv, UnregisterAnsweredKeepsInv, ClearStoredKeepsInv,
     SignedOutKeepsInv, EndSessionKeepsInv DEF App, Own
<1>3. CASE Server
  BY <1>3, LookupKeepsInv, ReplaceKeepsInv, UpsertKeepsInv, UnregisterKeepsInv, ForgottenKeepsInv
  DEF Server
<1> QED
  BY <1>1, <1>2, <1>3, RefreshRegistrationKeepsInv, GiveUpKeepsInv, SignOutKeepsInv, RevokeKeepsInv,
     RestartKeepsInv, RetentionKeepsInv, SignInKeepsInv DEF Next

LEMMA Invariance == Spec => []IInv
  BY InitInv, NextInv, PTL DEF Spec

\* The state of PushDevices has its types in every scenario.
THEOREM TypeCorrect == Spec => []TypeOK
<1>1. IInv => TypeOK
  BY DEF IInv, Typed, TypedFlags, TypedActs, TypeOK, Person, IsRequest
<1> QED BY <1>1, Invariance, PTL

\* A phone whose registration has succeeded receives the notifications of the
\* account that is signed in, and of no other, for any accounts and however
\* often requests, secure storage and launches fail, the app restarts or the
\* registration is forced, unless a stored token has outlived a session
\* (push_devices.rs, push-notifications.ts).
THEOREM Delivers == Spec => []DeliversToAccount
<1>1. IInv => DeliversToAccount
  BY PushAssumption DEF IInv, Plain, PlainInv, LeavesAlone, StoredIsRegistered, Typed, Settled, DeliversToAccount
<1> QED BY <1>1, Invariance, PTL

\* Once the last account has signed out the token has no row, when requests
\* reach the server and no registration was under way.
THEOREM SilentAfterSignOut == Spec => []SignedOutIsSilent
<1>1. IInv => SignedOutIsSilent
  BY DEF IInv, Sound, SoundInv, NoOtherRow, SignedOutIsSilent
<1> QED BY <1>1, Invariance, PTL
==============================================================================
