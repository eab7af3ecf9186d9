-------------------------- MODULE EventCacheProofs --------------------------
(***************************************************************************)
(* The safety of EventCache for any ranges and places, any number of       *)
(* events and mutations and any scenarios.                                 *)
(***************************************************************************)
EXTENDS EventCache, FiniteSetTheorems, TLAPS

\* An event of a list.
Rows == [id : Int, at : Places]
\* The lists of some ranges.
Snaps == UNION {[R -> SUBSET Rows] : R \in SUBSET Ranges}
\* An event the server has given an id, or the placeholder of a create that has begun.
Known(e) == e.id \in 1 .. given \/ \E n \in Muts : e.id = Temp(n) /\ mut[n].pc # "new"
\* An event that may be in the list of a range.
Fits(e, r) == Known(e) /\ Meets(e.at, r)

\* The creates that have not got their id.
Owed == {m \in Muts : mut[m].pc = "asked" /\ mut[m].kind = "create"}

\* A mutation.
MutRec == [pc : {"new", "asked", "saved", "failed", "done"},
           kind : {"none", "create", "remove", "move", "update"},
           id : Int, at : Places \cup {{}}, snap : Snaps]

\* The types of the variables.  Ids remain for the creates under way, which the
\* guard of Create sees to; no event exists beyond the ids given.
Types ==
    /\ scenario \in Scenarios
    /\ shown \in Ranges
    /\ given \in 0 .. MaxEvents
    /\ given + Cardinality(Owed) <= MaxEvents
    /\ server \in [Ids -> Places \cup {{}}]
    /\ \A i \in Ids : i > given => server[i] = {}
    /\ data \in [Ranges -> (SUBSET Rows) \cup {Unloaded}]
    /\ stale \in [Ranges -> BOOLEAN]
    /\ fetch \in [Ranges -> [pc : {"none", "asked", "served"}, got : SUBSET Rows]]
    /\ mut \in [Muts -> MutRec]
    /\ ref \in [{"create", "remove"} -> Snaps]

\* A mutation under way is about an event the server knows; a create is about its
\* placeholder until it is answered.
MutLists ==
    \A m \in InFlight :
        /\ mut[m].kind # "none"
        /\ IF mut[m].kind = "create" /\ mut[m].pc = "asked" THEN mut[m].id = Temp(m)
           ELSE mut[m].id \in 1 .. given \cup {Temp(m)}
        /\ mut[m].pc = "saved" => mut[m].id \in 1 .. given
        /\ mut[m].kind = "create" => mut[m].at \in Places
        /\ mut[m].kind # "create" => mut[m].id \in Ids

\* Answers, lists and snapshots hold events that may be in them.
FetchLists == \A r \in Ranges : \A e \in fetch[r].got : Fits(e, r) /\ e.id \in Ids
DataLists == \A r \in Loaded : \A e \in data[r] : Fits(e, r)
SnapLists ==
    /\ \A k \in {"create", "remove"} : \A r \in DOMAIN ref[k] : \A e \in ref[k][r] : Fits(e, r)
    /\ \A m \in Muts : \A r \in DOMAIN mut[m].snap : \A e \in mut[m].snap[r] : Fits(e, r)

Lists == DataLists /\ FetchLists /\ SnapLists /\ MutLists

\* Mutations follow one another (the scenarios of NoGhost and KeptWhileSaving).
Serial == Only({"hasty", "refuse"})
\* The snapshot that a failure of m would put back.
SnapOf(m) == IF mut[m].kind \in {"create", "remove"} THEN ref[mut[m].kind] ELSE mut[m].snap

\* One mutation at a time; while it has written ahead nothing is being read;
\* placeholders are in lists the snapshot will put back, and in no snapshot.
OneMutation == \A m, n \in InFlight : m = n
NothingRead == \A m \in InFlight : mut[m].kind # "update" => Fetching = {}
Placeholders ==
    \A r \in Loaded : \A e \in data[r] :
        \/ e.id \in Ids
        \/ \E m \in InFlight : mut[m].kind = "create" /\ e.id = Temp(m) /\ r \in DOMAIN ref["create"]
CleanSnaps == \A m \in InFlight : \A r \in DOMAIN SnapOf(m) : \A e \in SnapOf(m)[r] : e.id \in Ids
\* What m has written ahead is in the lists.
Ahead(m) ==
    /\ mut[m].kind = "create" => \A r \in DOMAIN ref["create"] : Event(Temp(m), mut[m].at) \in data[r]
    /\ mut[m].kind = "remove" => \A r \in DOMAIN ref["remove"] : \A e \in data[r] : e.id # mut[m].id
    /\ mut[m].kind = "move" =>
        \A r \in DOMAIN mut[m].snap : (Event(mut[m].id, mut[m].at) \in data[r]) <=> Meets(mut[m].at, r)
Kept == \A m \in InFlight : mut[m].pc = "asked" => Ahead(m)
SerialInv == OneMutation /\ NothingRead /\ Placeholders /\ CleanSnaps /\ Kept

\* Mutations run at once, of different events (the scenarios of ShownIsTrue).
Overlapping == Only({"overlap"})
\* A mutation is under way after which r will be read again.
Owing(r) == \E m \in InFlight : mut[m].kind # "create" \/ Meets(mut[m].at, r)
\* An event that exists, or that a mutation under way is about.
Accounted(e) == e.id \in Ids => e.id \in Existing \/ \E m \in InFlight : mut[m].id = e.id

\* While mutations are under way, only the screen is read; when its list is not
\* fresh, it is.
ScreenReads == InFlight # {} => shown \in Loaded /\ Fetching \subseteq {shown}
ScreenLoads == (shown \in Loaded /\ ~stale[shown]) \/ shown \in Fetching
\* A list that is neither stale nor owed a read is what the server has, and so is an
\* answer under way.
DataTrue == \A r \in Loaded : stale[r] \/ Owing(r) \/ data[r] = Truth(r)
FetchTrue == \A r \in Ranges : fetch[r].pc = "served" => Owing(r) \/ fetch[r].got = Truth(r)
\* The user acts on events that exist, each mutation on an event of its own, and the
\* server refuses none.
ScreenAccounted ==
    /\ shown \in Loaded /\ ~stale[shown] => \A e \in data[shown] : Accounted(e)
    /\ fetch[shown].pc = "served" => \A e \in fetch[shown].got : Accounted(e)
OwnEvent == \A m, n \in InFlight : mut[m].id = mut[n].id => m = n
Accepted ==
    \A m \in InFlight :
        /\ mut[m].pc \in {"asked", "saved"}
        /\ mut[m].kind # "create" /\ mut[m].pc = "asked" => mut[m].id \in Existing
        /\ mut[m].kind = "create" /\ mut[m].pc = "saved" => server[mut[m].id] = mut[m].at
\* What is known of an event being created is where it is being created: the ranges
\* that are read again are all those it is in.
Created ==
    \A m \in InFlight : mut[m].kind = "create" =>
        /\ \A r \in Loaded : \A e \in data[r] : e.id \in {Temp(m), mut[m].id} => e.at = mut[m].at
        /\ \A r \in Ranges : fetch[r].pc = "served" =>
            \A e \in fetch[r].got : e.id = mut[m].id => e.at = mut[m].at
OverlapInv ==
    /\ ScreenReads /\ ScreenLoads /\ DataTrue /\ FetchTrue
    /\ ScreenAccounted /\ OwnEvent /\ Accepted /\ Created

\* The inductive invariant.
IInv == Types /\ Lists /\ (Serial => SerialInv) /\ (Overlapping => OverlapInv)

-----------------------------------------------------------------------------
(* Operators *)

\* What the assumptions say of the scenario.
LEMMA ScenarioType ==
  ASSUME Types
  PROVE  /\ scenario.may \subseteq Behaviours /\ scenario.muts \in Nat /\ scenario.stored \in 0 .. MaxEvents
         /\ Muts \subseteq Int
  BY SetAssumption DEF Types, Muts

\* A snapshot keeps lists of ranges.
LEMMA SnapsElim ==
  ASSUME NEW s \in Snaps
  PROVE  DOMAIN s \subseteq Ranges /\ \A r \in DOMAIN s : s[r] \in SUBSET Rows
  BY DEF Snaps

\* Lists of ranges are a snapshot.
LEMMA SnapsIntro ==
  ASSUME NEW R \in SUBSET Ranges, NEW s \in [R -> SUBSET Rows]
  PROVE  s \in Snaps
  BY DEF Snaps

\* The empty snapshot is one.
LEMMA NoSnapType ==
  NoSnap \in Snaps /\ DOMAIN NoSnap = {}
<1>1. NoSnap \in [{} -> SUBSET Rows]
  BY DEF NoSnap
<1>2. QED
  BY <1>1, SnapsIntro DEF NoSnap

\* A loaded range has a list.
LEMMA LoadedData ==
  ASSUME Types, NEW r \in Loaded
  PROVE  r \in Ranges /\ data[r] \in SUBSET Rows
  BY DEF Types, Loaded

\* A list is never taken for a range without data.
LEMMA ListLoaded ==
  ASSUME NEW S \in SUBSET Rows
  PROVE  S # Unloaded
<1>1. Event(0, {}) \notin Rows
  BY SetAssumption DEF Rows, Event
<1>2. QED
  BY <1>1 DEF Unloaded

\* A snapshot of loaded ranges keeps their lists.
LEMMA SnapshotType ==
  ASSUME Types, NEW R \in SUBSET Loaded
  PROVE  /\ Snapshot(R) \in Snaps /\ DOMAIN Snapshot(R) = R
         /\ \A r \in R : Snapshot(R)[r] = data[r]
<1>1. R \in SUBSET Ranges
  BY DEF Loaded
<1>2. Snapshot(R) \in [R -> SUBSET Rows]
  BY LoadedData DEF Snapshot
<1>3. QED
  BY <1>1, <1>2, SnapsIntro DEF Snapshot

\* An event and its fields.
LEMMA EventType ==
  ASSUME NEW i \in Int, NEW p \in Places
  PROVE  Event(i, p) \in Rows /\ Event(i, p).id = i /\ Event(i, p).at = p
  BY DEF Event, Rows

\* A placeholder's id is not one the server gives.
LEMMA TempType ==
  ASSUME Types, NEW m \in Muts
  PROVE  Temp(m) \in Int /\ Temp(m) \notin Ids /\ m \in Int /\ m > 0
  BY SetAssumption, ScenarioType DEF Temp, Ids, Muts

\* Each mutation has a placeholder of its own.
LEMMA TempInj ==
  ASSUME Types, NEW m \in Muts, NEW n \in Muts, Temp(m) = Temp(n)
  PROVE  m = n
  BY ScenarioType DEF Temp, Muts

\* What the server answers: the events that exist, where they are.
LEMMA TruthType ==
  ASSUME Types, NEW r \in Ranges
  PROVE  /\ Truth(r) \in SUBSET Rows
         /\ \A e \in Truth(r) : /\ e.id \in Existing /\ e.id \in 1 .. given /\ e.id \in Ids
                                /\ e.at = server[e.id] /\ Meets(e.at, r)
                                /\ e = Event(e.id, server[e.id])
         /\ \A i \in Existing : Meets(server[i], r) => Event(i, server[i]) \in Truth(r)
<1>1. ASSUME NEW i \in Existing PROVE i \in Ids /\ i \in Int /\ server[i] \in Places /\ i \in 1 .. given
  BY <1>1, SetAssumption DEF Types, Existing, Ids
<1>2. ASSUME NEW e \in Truth(r)
      PROVE  \E i \in Existing : e = Event(i, server[i]) /\ Meets(server[i], r)
  BY <1>2 DEF Truth
<1>3. ASSUME NEW e \in Truth(r)
      PROVE  /\ e \in Rows /\ e.id \in Existing /\ e.id \in 1 .. given /\ e.id \in Ids
             /\ e.at = server[e.id] /\ Meets(e.at, r) /\ e = Event(e.id, server[e.id])
  <2>1. PICK i \in Existing : e = Event(i, server[i]) /\ Meets(server[i], r)
    BY <1>2
  <2>2. e \in Rows /\ e.id = i /\ e.at = server[i]
    BY <1>1, <2>1, EventType
  <2>3. QED
    BY <1>1, <2>1, <2>2
<1>4. \A i \in Existing : Meets(server[i], r) => Event(i, server[i]) \in Truth(r)
  BY <1>1 DEF Truth
<1>5. QED
  BY <1>3, <1>4

\* The list of a loaded range and of the others.
LEMMA MutFields ==
  ASSUME Types, NEW m \in Muts
  PROVE  /\ mut[m].pc \in {"new", "asked", "saved", "failed", "done"}
         /\ mut[m].kind \in {"none", "create", "remove", "move", "update"}
         /\ mut[m].id \in Int /\ mut[m].at \in Places \cup {{}} /\ mut[m].snap \in Snaps
  BY DEF Types, MutRec

\* An answer changes the progress and the id of its mutation, no more.
LEMMA AnswersStep ==
  ASSUME Types, NEW m \in Muts, NEW pc \in {"saved", "failed"}, NEW id \in Int, Answers(m, pc, id),
         scenario' = scenario
  PROVE  /\ mut' \in [Muts -> MutRec]
         /\ mut'[m].pc = pc /\ mut'[m].id = id
         /\ mut'[m].kind = mut[m].kind /\ mut'[m].at = mut[m].at /\ mut'[m].snap = mut[m].snap
         /\ \A n \in Muts : n # m => mut'[n] = mut[n]
  BY DEF Types, MutRec, Answers

\* A mutation that begins was new, and is under way from then on.
LEMMA BeginStep ==
  ASSUME Types, NEW m \in Muts, NEW kind \in {"create", "remove", "move", "update"}, NEW id \in Int,
         NEW at \in Places \cup {{}}, NEW snap \in Snaps, Begin(m, kind, id, at, snap)
  PROVE  /\ mut' \in [Muts -> MutRec]
         /\ mut'[m].pc = "asked" /\ mut'[m].kind = kind /\ mut'[m].id = id /\ mut'[m].at = at
         /\ mut'[m].snap = snap
         /\ \A n \in Muts : n # m => mut'[n] = mut[n]
         /\ mut[m].pc = "new" /\ m \notin InFlight
         /\ InFlight' = InFlight \cup {m} /\ Muts' = Muts
         /\ UNCHANGED <<scenario, server, given, shown>>
<1>1. UNCHANGED <<scenario, server, given, shown>> /\ Muts' = Muts
  BY DEF Begin, Muts
<1>2. [pc |-> "asked", kind |-> kind, id |-> id, at |-> at, snap |-> snap] \in MutRec
  BY DEF MutRec
<1>3. mut' = [mut EXCEPT ![m] = [pc |-> "asked", kind |-> kind, id |-> id, at |-> at, snap |-> snap]]
  BY DEF Begin
<1>4. /\ mut' \in [Muts -> MutRec]
      /\ mut'[m] = [pc |-> "asked", kind |-> kind, id |-> id, at |-> at, snap |-> snap]
      /\ \A n \in Muts : n # m => mut'[n] = mut[n]
  BY <1>2, <1>3 DEF Types
<1>5. mut[m].pc = "new"
  <2>1. m >= m
    BY TempType
  <2>2. QED
    BY <2>1 DEF Begin
<1>6. m \notin InFlight /\ InFlight' = InFlight \cup {m}
  BY <1>1, <1>4, <1>5 DEF InFlight
<1>7. QED
  BY <1>1, <1>4, <1>5, <1>6

\* The mutations are finitely many.
LEMMA OwedFinite ==
  ASSUME Types
  PROVE  /\ IsFiniteSet(Owed) /\ IsFiniteSet(InFlight) /\ Owed \subseteq InFlight
         /\ Cardinality(Owed) \in Nat /\ Cardinality(InFlight) \in Nat
         /\ Cardinality(Owed) <= Cardinality(InFlight)
<1>1. IsFiniteSet(Muts)
  BY ScenarioType, FS_Interval DEF Muts
<1>2. Owed \subseteq InFlight /\ InFlight \subseteq Muts
  BY DEF Owed, InFlight
<1>3. QED
  BY <1>1, <1>2, FS_Subset, FS_CardinalityType

\* A step that numbers no event and asks for none keeps the bound on events.
LEMMA OwedKept ==
  ASSUME Types, Owed' \subseteq Owed, given' = given
  PROVE  given' + Cardinality(Owed') <= MaxEvents
<1>1. PICK k \in Nat : k = Cardinality(Owed)
  BY OwedFinite
<1>2. IsFiniteSet(Owed')
  BY OwedFinite, FS_Subset
<1>3. Cardinality(Owed') \in Nat /\ Cardinality(Owed') <= k
  BY <1>1, <1>2, OwedFinite, FS_Subset, FS_CardinalityType
<1>4. PICK l \in Nat : l = Cardinality(Owed') /\ l <= k
  BY <1>3
<1>5. given \in Nat /\ given + k <= MaxEvents /\ MaxEvents \in Nat
  BY <1>1, SetAssumption DEF Types
<1>6. given + l <= MaxEvents
  BY <1>4, <1>5
<1>7. QED
  BY <1>4, <1>6

\* Ids remain for the creates under way when none of them changes.
LEMMA OwedSame ==
  ASSUME Types, UNCHANGED <<scenario, mut, given>>
  PROVE  given' + Cardinality(Owed') <= MaxEvents
<1>1. Owed' = Owed
  BY DEF Owed, Muts
<1>2. QED
  BY <1>1, OwedKept

-----------------------------------------------------------------------------
(* Types *)

\* The types, when the server reads a range.
LEMMA TypesServe ==
  ASSUME Types, NEW r \in Ranges, Serve(r)
  PROVE  Types'
<1>1. Truth(r) \in SUBSET Rows
  BY TruthType
<1>2. fetch' \in [Ranges -> [pc : {"none", "asked", "served"}, got : SUBSET Rows]]
  BY <1>1 DEF Types, Serve
<1>3. QED
  BY <1>2, OwedSame DEF Types, Serve, Muts

\* The types, when a list arrives.
LEMMA TypesArrive ==
  ASSUME Types, NEW r \in Ranges, Arrive(r)
  PROVE  Types'
<1>1. fetch' \in [Ranges -> [pc : {"none", "asked", "served"}, got : SUBSET Rows]]
  BY DEF Types, Arrive, NoFetch
<1>2. data' \in [Ranges -> (SUBSET Rows) \cup {Unloaded}] /\ stale' \in [Ranges -> BOOLEAN]
  BY DEF Types, Arrive
<1>3. QED
  BY <1>1, <1>2, OwedSame DEF Types, Arrive, Muts

\* The types, when a range is prefetched.
LEMMA TypesPrefetch ==
  ASSUME Types, NEW r \in Ranges, Prefetch(r)
  PROVE  Types'
<1>1. fetch' \in [Ranges -> [pc : {"none", "asked", "served"}, got : SUBSET Rows]]
  BY DEF Types, Prefetch, Asked
<1>3. QED
  BY <1>1, OwedSame DEF Types, Prefetch, Muts

\* A seed is made of events of the lists it is taken from.
LEMMA SeedsType ==
  ASSUME Types, NEW r \in Ranges, NEW S \in Seeds(r)
  PROVE  /\ S \in SUBSET Rows
         /\ \A e \in S : Meets(e.at, r) /\ \E s \in Sources(r) : s \in Loaded /\ e \in data[s]
<1>1. \A e \in S : e \in Versions(r, Sources(r))
  BY DEF Seeds
<1>2. \A e \in S : Meets(e.at, r) /\ \E s \in Sources(r) : e \in data[s]
  BY <1>1 DEF Versions
<1>3. Sources(r) \subseteq Loaded
  BY DEF Sources
<1>4. QED
  BY <1>2, <1>3, LoadedData

\* The types, when another range is shown.
LEMMA TypesShow ==
  ASSUME Types, NEW r \in Ranges, Show(r)
  PROVE  Types'
<1>1. fetch' \in [Ranges -> [pc : {"none", "asked", "served"}, got : SUBSET Rows]]
  BY DEF Types, Show, Asked
<1>2. data' \in [Ranges -> (SUBSET Rows) \cup {Unloaded}] /\ stale' \in [Ranges -> BOOLEAN]
  <2>1. CASE r \notin Loaded /\ Covered(r)
    <3>1. PICK seed \in Seeds(r) : data' = [data EXCEPT ![r] = seed]
      BY <2>1 DEF Show
    <3>2. seed \in SUBSET Rows
      BY SeedsType
    <3>3. PICK b \in BOOLEAN : stale' = [stale EXCEPT ![r] = b]
      <4>1. (\E s \in Sources(r) : stale[s]) \in BOOLEAN
        OBVIOUS
      <4>2. QED
        BY <2>1, <4>1 DEF Show
    <3>4. QED
      BY <3>1, <3>2, <3>3 DEF Types
  <2>2. CASE ~(r \notin Loaded /\ Covered(r))
    BY <2>2 DEF Show, Types
  <2>3. QED
    BY <2>1, <2>2
<1>3. QED
  BY <1>1, <1>2, OwedSame DEF Types, Show, Muts

\* The types, when the server carries a mutation out: a create uses the id that was kept for it.
LEMMA TypesApply ==
  ASSUME Types, Lists, NEW m \in Muts, Apply(m)
  PROVE  Types'
<1>1. m \in InFlight /\ mut[m].id \in Int
  BY MutFields DEF Apply, InFlight
<1>2. UNCHANGED <<scenario, data, stale, fetch, shown, ref>> /\ Muts' = Muts
  BY DEF Apply, Muts
<1>3. PICK out \in {"saved", "failed"} :
        IF mut[m].kind = "create"
        THEN /\ given' = given + 1
             /\ server' = [server EXCEPT ![given'] = mut[m].at]
             /\ Answers(m, out, given')
        ELSE /\ mut[m].id \in Existing
             /\ server' = [server EXCEPT ![mut[m].id] = mut[m].at]
             /\ Answers(m, out, mut[m].id)
             /\ UNCHANGED given
  BY DEF Apply, Outcomes
<1>4. CASE mut[m].kind = "create"
  <2>0. given \in Nat /\ given' = given + 1 /\ MaxEvents \in Nat
    BY <1>3, <1>4, SetAssumption DEF Types
  <2>1. mut' \in [Muts -> MutRec] /\ mut'[m].pc = out /\ \A n \in Muts : n # m => mut'[n] = mut[n]
    <3>1. PICK g \in Int : g = given'
      BY <2>0
    <3>2. Answers(m, out, g)
      BY <1>3, <1>4, <3>1
    <3>3. QED
      BY <1>2, <3>2, AnswersStep
  <2>2. m \in Owed
    BY <1>4 DEF Owed, Apply
  <2>3. Owed' = Owed \ {m}
    BY <1>2, <2>1 DEF Owed
  <2>4. PICK k \in Nat : k = Cardinality(Owed)
    BY OwedFinite
  <2>5. Cardinality(Owed') = k - 1
    BY <2>2, <2>3, <2>4, OwedFinite, FS_RemoveElement
  <2>6. given + k <= MaxEvents
    BY <2>4 DEF Types
  <2>7. k > 0
    BY <2>2, <2>4, OwedFinite, FS_EmptySet
  <2>8. given' + Cardinality(Owed') <= MaxEvents /\ given' \in 0 .. MaxEvents /\ given' \in Ids
    <3>1. given + 1 + (k - 1) <= MaxEvents /\ given + 1 \in 1 .. MaxEvents
      BY <2>0, <2>6, <2>7
    <3>2. QED
      BY <2>0, <2>5, <3>1 DEF Ids
  <2>9. server' \in [Ids -> Places \cup {{}}]
    BY <1>3, <1>4, <2>8, MutFields DEF Types
  <2>10. \A i \in Ids : i > given' => server'[i] = {}
    <3>1. ASSUME NEW i \in Ids, i > given' PROVE i # given' /\ i > given
      BY <2>0, <3>1 DEF Ids
    <3>2. QED
      BY <1>3, <1>4, <3>1 DEF Types
  <2>11. QED
    BY <1>2, <2>1, <2>8, <2>9, <2>10 DEF Types
<1>5. CASE mut[m].kind # "create"
  <2>1. mut' \in [Muts -> MutRec] /\ mut'[m].pc = out /\ \A n \in Muts : n # m => mut'[n] = mut[n]
    BY <1>1, <1>2, <1>3, <1>5, AnswersStep
  <2>2. Owed' \subseteq Owed
    BY <1>2, <2>1 DEF Owed
  <2>3. mut[m].id \in Existing /\ given' = given
    BY <1>3, <1>5
  <2>4. given' + Cardinality(Owed') <= MaxEvents
    BY <2>2, <2>3, OwedKept
  <2>5. server' = [server EXCEPT ![mut[m].id] = mut[m].at]
    BY <1>3, <1>5
  <2>6. server' \in [Ids -> Places \cup {{}}]
    BY <2>5, MutFields DEF Types
  <2>7. \A i \in Ids : i > given' => server'[i] = {}
    BY <2>3, <2>5 DEF Types, Existing
  <2>8. QED
    BY <1>2, <2>1, <2>3, <2>4, <2>6, <2>7 DEF Types
<1>6. QED
  BY <1>4, <1>5

\* The types, when the server refuses a mutation.
LEMMA TypesRefuse ==
  ASSUME Types, NEW m \in Muts, Refuse(m)
  PROVE  Types'
<1>1. UNCHANGED <<scenario, server, given, data, stale, fetch, shown, ref>> /\ Muts' = Muts
  BY DEF Refuse, Muts
<1>2. mut' \in [Muts -> MutRec] /\ mut'[m].pc = "failed" /\ \A n \in Muts : n # m => mut'[n] = mut[n]
  BY <1>1, AnswersStep, MutFields DEF Refuse
<1>3. Owed' \subseteq Owed
  BY <1>1, <1>2 DEF Owed
<1>4. QED
  BY <1>1, <1>2, <1>3, OwedKept DEF Types

\* The types of the lists and of their staleness, when lists are written by hand.
LEMMA PutType ==
  ASSUME Types, NEW R \in SUBSET Ranges, NEW f, \A r \in R : f[r] \in SUBSET Rows,
         data' = [r \in Ranges |-> IF r \in R THEN f[r] ELSE data[r]],
         stale' = [r \in Ranges |-> stale[r] /\ r \notin R]
  PROVE  data' \in [Ranges -> (SUBSET Rows) \cup {Unloaded}] /\ stale' \in [Ranges -> BOOLEAN]
<1>1. \A r \in Ranges : data[r] \in (SUBSET Rows) \cup {Unloaded} /\ stale[r] \in BOOLEAN
  BY DEF Types
<1>2. QED
  BY <1>1

\* The types of the fetches, when those of loaded ranges are cancelled.
LEMMA CancelType ==
  ASSUME Types, CancelLoaded
  PROVE  fetch' \in [Ranges -> [pc : {"none", "asked", "served"}, got : SUBSET Rows]]
  BY DEF Types, CancelLoaded, NoFetch

\* The user acts on events that the server has given an id.
LEMMA OnScreenType ==
  ASSUME Types, Lists, NEW e \in OnScreen
  PROVE  /\ shown \in Loaded /\ e \in data[shown] /\ e.id \in Ids /\ e.id \in 1 .. given /\ e \in Rows
         /\ e.id \in Int
<1>1. shown \in Loaded /\ e \in data[shown] /\ e.id \in Ids
  BY DEF OnScreen
<1>2. e \in Rows /\ Known(e)
  BY <1>1, LoadedData DEF Lists, DataLists, Fits
<1>3. e.id \in Int
  BY <1>2 DEF Rows
<1>4. \A n \in Muts : e.id # Temp(n)
  BY <1>1, TempType
<1>5. QED
  BY <1>1, <1>2, <1>3, <1>4 DEF Known

\* The types, when a create begins: an id is kept for it.
LEMMA TypesCreate ==
  ASSUME Types, NEW m \in Muts, NEW p \in Places, given + Cardinality(InFlight) < MaxEvents, Create(m, p)
  PROVE  Types'
<1> DEFINE R == {r \in Loaded : Meets(p, r)}
<1>1. Begin(m, "create", Temp(m), p, NoSnap) /\ Temp(m) \in Int
  BY TempType DEF Create
<1>2. /\ mut' \in [Muts -> MutRec]
      /\ mut'[m].pc = "asked" /\ mut'[m].kind = "create"
      /\ \A n \in Muts : n # m => mut'[n] = mut[n]
      /\ mut[m].pc = "new" /\ m \notin InFlight /\ InFlight' = InFlight \cup {m} /\ Muts' = Muts
      /\ UNCHANGED <<scenario, server, given, shown>>
  BY <1>1, NoSnapType, BeginStep
<1>3. /\ ref' = [ref EXCEPT !["create"] = Snapshot(R)]
      /\ data' = [r \in Ranges |-> IF r \in R THEN data[r] \cup {Event(Temp(m), p)} ELSE data[r]]
      /\ stale' = [r \in Ranges |-> stale[r] /\ r \notin R]
      /\ CancelLoaded
  BY DEF Create, Put
<1>4. PICK snap \in Snaps : snap = Snapshot(R)
  BY SnapshotType
<1>5. ref' \in [{"create", "remove"} -> Snaps]
  BY <1>3, <1>4 DEF Types
<1>6. fetch' \in [Ranges -> [pc : {"none", "asked", "served"}, got : SUBSET Rows]]
  BY <1>3, CancelType
<1>7. data' \in [Ranges -> (SUBSET Rows) \cup {Unloaded}] /\ stale' \in [Ranges -> BOOLEAN]
  <2>1. R \subseteq Ranges /\ \A r \in R : data[r] \cup {Event(Temp(m), p)} \in SUBSET Rows
    BY <1>1, LoadedData, EventType
  <2>2. QED
    BY <1>3, <2>1 DEF Types
<1>8. given' + Cardinality(Owed') <= MaxEvents
  <2>1. Owed' = Owed \cup {m} /\ m \notin Owed
    BY <1>2 DEF Owed
  <2>2. PICK k \in Nat : k = Cardinality(Owed)
    BY OwedFinite
  <2>3. PICK l \in Nat : l = Cardinality(InFlight) /\ k <= l
    BY <2>2, OwedFinite
  <2>4. Cardinality(Owed') = k + 1
    BY <2>1, <2>2, OwedFinite, FS_AddElement
  <2>5. given + l < MaxEvents /\ given \in Nat /\ MaxEvents \in Nat
    BY <2>3, SetAssumption DEF Types
  <2>6. given + (k + 1) <= MaxEvents
    BY <2>3, <2>5
  <2>7. QED
    BY <1>2, <2>4, <2>6
<1>9. QED
  BY <1>2, <1>5, <1>6, <1>7, <1>8 DEF Types

\* The types, when a removal begins.
LEMMA TypesRemove ==
  ASSUME Types, Lists, NEW m \in Muts, NEW e \in OnScreen, Remove(m, e)
  PROVE  Types'
<1>1. Begin(m, "remove", e.id, {}, NoSnap) /\ e.id \in Int
  BY OnScreenType DEF Remove
<1>2. /\ mut' \in [Muts -> MutRec]
      /\ mut'[m].kind = "remove"
      /\ \A n \in Muts : n # m => mut'[n] = mut[n]
      /\ Muts' = Muts
      /\ UNCHANGED <<scenario, server, given, shown>>
  BY <1>1, NoSnapType, BeginStep
<1>3. /\ ref' = [ref EXCEPT !["remove"] = Snapshot(Loaded)]
      /\ data' = [r \in Ranges |-> IF r \in Loaded THEN {f \in data[r] : f.id # e.id} ELSE data[r]]
      /\ stale' = [r \in Ranges |-> stale[r] /\ r \notin Loaded]
      /\ CancelLoaded
  BY DEF Remove, Put
<1>4. PICK snap \in Snaps : snap = Snapshot(Loaded)
  BY SnapshotType
<1>5. ref' \in [{"create", "remove"} -> Snaps]
  BY <1>3, <1>4 DEF Types
<1>6. fetch' \in [Ranges -> [pc : {"none", "asked", "served"}, got : SUBSET Rows]]
  BY <1>3, CancelType
<1>7. data' \in [Ranges -> (SUBSET Rows) \cup {Unloaded}] /\ stale' \in [Ranges -> BOOLEAN]
  <2>1. \A r \in Loaded : {f \in data[r] : f.id # e.id} \in SUBSET Rows
    BY LoadedData
  <2>2. QED
    BY <1>3, <2>1 DEF Types
<1>8. given' + Cardinality(Owed') <= MaxEvents
  <2>1. Owed' \subseteq Owed
    BY <1>2 DEF Owed
  <2>2. QED
    BY <1>2, <2>1, OwedKept
<1>9. QED
  BY <1>2, <1>5, <1>6, <1>7, <1>8 DEF Types

\* The types, when a move begins.
LEMMA TypesMove ==
  ASSUME Types, Lists, NEW m \in Muts, NEW e \in OnScreen, NEW p \in Places, Move(m, e, p)
  PROVE  Types'
<1>1. PICK snap \in Snaps : snap = Snapshot(Loaded)
  BY SnapshotType
<1>2. Begin(m, "move", e.id, p, snap) /\ e.id \in Int
  BY <1>1, OnScreenType DEF Move
<1>3. /\ mut' \in [Muts -> MutRec]
      /\ mut'[m].kind = "move"
      /\ \A n \in Muts : n # m => mut'[n] = mut[n]
      /\ Muts' = Muts
      /\ UNCHANGED <<scenario, server, given, shown>>
  BY <1>2, BeginStep
<1>4. /\ data' = [r \in Ranges |-> IF r \in Loaded
                    THEN {f \in data[r] : f.id # e.id} \cup (IF Meets(p, r) THEN {Event(e.id, p)} ELSE {})
                    ELSE data[r]]
      /\ stale' = [r \in Ranges |-> stale[r] /\ r \notin Loaded]
      /\ CancelLoaded /\ ref' = ref
  BY DEF Move, Put
<1>6. fetch' \in [Ranges -> [pc : {"none", "asked", "served"}, got : SUBSET Rows]]
  BY <1>4, CancelType
<1>7. data' \in [Ranges -> (SUBSET Rows) \cup {Unloaded}] /\ stale' \in [Ranges -> BOOLEAN]
  <2>1. ASSUME NEW r \in Loaded
        PROVE  {f \in data[r] : f.id # e.id} \cup (IF Meets(p, r) THEN {Event(e.id, p)} ELSE {})
                \in SUBSET Rows
    <3>1. Event(e.id, p) \in Rows
      BY <1>2, EventType
    <3>2. QED
      BY <3>1, LoadedData
  <2>2. QED
    BY <1>4, <2>1 DEF Types
<1>8. given' + Cardinality(Owed') <= MaxEvents
  <2>1. Owed' \subseteq Owed
    BY <1>3 DEF Owed
  <2>2. QED
    BY <1>3, <2>1, OwedKept
<1>9. QED
  BY <1>3, <1>4, <1>6, <1>7, <1>8 DEF Types

\* The types, when an edit begins.
LEMMA TypesUpdate ==
  ASSUME Types, Lists, NEW m \in Muts, NEW e \in OnScreen, NEW p \in Places \cup {{}}, Update(m, e, p)
  PROVE  Types'
<1>1. Begin(m, "update", e.id, p, NoSnap) /\ e.id \in Int
  BY OnScreenType DEF Update
<1>2. /\ mut' \in [Muts -> MutRec]
      /\ mut'[m].kind = "update"
      /\ \A n \in Muts : n # m => mut'[n] = mut[n]
      /\ Muts' = Muts
      /\ UNCHANGED <<scenario, server, given, shown>>
  BY <1>1, NoSnapType, BeginStep
<1>3. UNCHANGED <<data, stale, fetch, ref>>
  BY DEF Update
<1>4. given' + Cardinality(Owed') <= MaxEvents
  <2>1. Owed' \subseteq Owed
    BY <1>2 DEF Owed
  <2>2. QED
    BY <1>2, <2>1, OwedKept
<1>5. QED
  BY <1>2, <1>3, <1>4 DEF Types

\* The types of the fetches, when ranges are read again.
LEMMA RefetchType ==
  ASSUME Types, NEW R, Refetch(R)
  PROVE  fetch' \in [Ranges -> [pc : {"none", "asked", "served"}, got : SUBSET Rows]]
  BY DEF Types, Refetch, Asked

\* A mutation whose success is known is over, and keeps its kind, id and place.
LEMMA SavedStep ==
  ASSUME Types, NEW m \in Muts, Saved(m)
  PROVE  /\ mut[m].pc = "saved" /\ mut' \in [Muts -> MutRec]
         /\ mut'[m].pc = "done" /\ mut'[m].snap = NoSnap
         /\ mut'[m].kind = mut[m].kind /\ mut'[m].at = mut[m].at /\ mut'[m].id = mut[m].id
         /\ \A n \in Muts : n # m => mut'[n] = mut[n]
         /\ UNCHANGED <<scenario, server, given, shown, ref>> /\ Muts' = Muts
         /\ InFlight' = InFlight \ {m} /\ m \in InFlight
<1>1. UNCHANGED <<scenario, server, given, shown, ref>> /\ Muts' = Muts /\ mut[m].pc = "saved"
  BY DEF Saved, Muts
<1>2. mut' = [mut EXCEPT ![m].pc = "done", ![m].snap = NoSnap]
  BY DEF Saved
<1>3. /\ mut' \in [Muts -> MutRec]
      /\ mut'[m].pc = "done" /\ mut'[m].snap = NoSnap
      /\ mut'[m].kind = mut[m].kind /\ mut'[m].at = mut[m].at /\ mut'[m].id = mut[m].id
      /\ \A n \in Muts : n # m => mut'[n] = mut[n]
  BY <1>2, NoSnapType DEF Types, MutRec
<1>4. InFlight' = InFlight \ {m} /\ m \in InFlight
  BY <1>1, <1>3 DEF InFlight
<1>5. QED
  BY <1>1, <1>3, <1>4

\* The types, when a success is known.
LEMMA TypesSaved ==
  ASSUME Types, Lists, NEW m \in Muts, Saved(m)
  PROVE  Types'
<1>1. /\ mut[m].pc = "saved" /\ mut' \in [Muts -> MutRec]
      /\ mut'[m].pc = "done" /\ \A n \in Muts : n # m => mut'[n] = mut[n]
      /\ UNCHANGED <<scenario, server, given, shown, ref>> /\ Muts' = Muts /\ m \in InFlight
  BY SavedStep
<1>2. /\ fetch' \in [Ranges -> [pc : {"none", "asked", "served"}, got : SUBSET Rows]]
      /\ data' \in [Ranges -> (SUBSET Rows) \cup {Unloaded}] /\ stale' \in [Ranges -> BOOLEAN]
  <2>1. CASE mut[m].kind = "create"
    <3> DEFINE saved == Event(mut[m].id, mut[m].at)
               Others(r) == {e \in data[r] : e.id \notin {Temp(m), saved.id}}
               R == {r \in Loaded : Meets(saved.at, r) \/ Others(r) # data[r]}
               S == {r \in Ranges : Meets(saved.at, r)}
    <3>1. /\ data' = [r \in Ranges |->
              IF r \in R THEN Others(r) \cup (IF r \in S THEN {saved} ELSE {}) ELSE data[r]]
          /\ stale' = [r \in Ranges |-> (stale[r] /\ r \notin R) \/ r \in S]
          /\ Refetch(S)
      BY <2>1 DEF Saved, Commit
    <3>2. saved \in Rows
      BY <1>1, <2>1, MutFields, EventType DEF Lists, MutLists
    <3>3. ASSUME NEW r \in Ranges
          PROVE  (IF r \in R THEN Others(r) \cup (IF r \in S THEN {saved} ELSE {}) ELSE data[r])
                    \in (SUBSET Rows) \cup {Unloaded}
      <4>1. CASE r \in R
        BY <3>2, <4>1, LoadedData
      <4>2. CASE r \notin R
        BY <4>2 DEF Types
      <4>3. QED
        BY <4>1, <4>2
    <3> HIDE DEF saved, Others, R, S
    <3>4. data' \in [Ranges -> (SUBSET Rows) \cup {Unloaded}]
      BY <3>1, <3>3
    <3>5. stale' \in [Ranges -> BOOLEAN]
      BY <3>1 DEF Types
    <3>6. QED
      BY <3>1, <3>4, <3>5, RefetchType
  <2>2. CASE mut[m].kind # "create"
    BY <2>2, RefetchType DEF Saved, InvalidateAll, Types
  <2>3. QED
    BY <2>1, <2>2
<1>3. Owed' \subseteq Owed
  BY <1>1 DEF Owed
<1>4. given' + Cardinality(Owed') <= MaxEvents
  BY <1>1, <1>3, OwedKept
<1>5. QED
  BY <1>1, <1>2, <1>4 DEF Types

\* A mutation whose failure is known is over, and the lists of its snapshot are back.
LEMMA FailedStep ==
  ASSUME Types, NEW m \in Muts, Failed(m)
  PROVE  /\ mut[m].pc = "failed" /\ mut' \in [Muts -> MutRec]
         /\ mut'[m].pc = "done" /\ DOMAIN mut'[m].snap = {}
         /\ \A n \in Muts : n # m => mut'[n] = mut[n]
         /\ UNCHANGED <<scenario, server, given, shown, ref, fetch>> /\ Muts' = Muts
         /\ InFlight' = InFlight \ {m} /\ m \in InFlight
         /\ SnapOf(m) \in Snaps /\ DOMAIN SnapOf(m) \subseteq Ranges
         /\ \A r \in DOMAIN SnapOf(m) : SnapOf(m)[r] \in SUBSET Rows
         /\ data' = [r \in Ranges |-> IF r \in DOMAIN SnapOf(m) THEN SnapOf(m)[r] ELSE data[r]]
         /\ stale' = [r \in Ranges |-> stale[r] /\ r \notin DOMAIN SnapOf(m)]
<1>1. UNCHANGED <<scenario, server, given, shown, ref, fetch>> /\ Muts' = Muts /\ mut[m].pc = "failed"
  BY DEF Failed, Muts
<1>2. mut' = [mut EXCEPT ![m] = [pc |-> "done", kind |-> "none", id |-> 0, at |-> {}, snap |-> NoSnap]]
  <2>1. [NewMut EXCEPT !.pc = "done"] = [pc |-> "done", kind |-> "none", id |-> 0, at |-> {}, snap |-> NoSnap]
    BY DEF NewMut
  <2>2. QED
    BY <2>1 DEF Failed
<1>3. [pc |-> "done", kind |-> "none", id |-> 0, at |-> {}, snap |-> NoSnap] \in MutRec
  BY NoSnapType DEF MutRec
<1>4. /\ mut' \in [Muts -> MutRec]
      /\ mut'[m].pc = "done" /\ DOMAIN mut'[m].snap = {}
      /\ \A n \in Muts : n # m => mut'[n] = mut[n]
  BY <1>2, <1>3, NoSnapType DEF Types
<1>5. InFlight' = InFlight \ {m} /\ m \in InFlight
  BY <1>1, <1>4 DEF InFlight
<1>6. SnapOf(m) \in Snaps
  BY MutFields DEF SnapOf, Types
<1>7. DOMAIN SnapOf(m) \subseteq Ranges /\ \A r \in DOMAIN SnapOf(m) : SnapOf(m)[r] \in SUBSET Rows
  BY <1>6, SnapsElim
<1>8. /\ data' = [r \in Ranges |-> IF r \in DOMAIN SnapOf(m) THEN SnapOf(m)[r] ELSE data[r]]
      /\ stale' = [r \in Ranges |-> stale[r] /\ r \notin DOMAIN SnapOf(m)]
  BY DEF Failed, Rollback, Put, SnapOf
<1>9. QED
  BY <1>1, <1>4, <1>5, <1>6, <1>7, <1>8

\* The types, when a failure is known.
LEMMA TypesFailed ==
  ASSUME Types, NEW m \in Muts, Failed(m)
  PROVE  Types'
<1>1. /\ mut' \in [Muts -> MutRec]
      /\ mut'[m].pc = "done" /\ \A n \in Muts : n # m => mut'[n] = mut[n]
      /\ UNCHANGED <<scenario, server, given, shown, ref, fetch>> /\ Muts' = Muts
      /\ DOMAIN SnapOf(m) \subseteq Ranges
      /\ \A r \in DOMAIN SnapOf(m) : SnapOf(m)[r] \in SUBSET Rows
      /\ data' = [r \in Ranges |-> IF r \in DOMAIN SnapOf(m) THEN SnapOf(m)[r] ELSE data[r]]
      /\ stale' = [r \in Ranges |-> stale[r] /\ r \notin DOMAIN SnapOf(m)]
  BY FailedStep
<1>2. data' \in [Ranges -> (SUBSET Rows) \cup {Unloaded}] /\ stale' \in [Ranges -> BOOLEAN]
  BY <1>1, PutType
<1>3. Owed' \subseteq Owed
  BY <1>1 DEF Owed
<1>4. given' + Cardinality(Owed') <= MaxEvents
  BY <1>1, <1>3, OwedKept
<1>5. QED
  BY <1>1, <1>2, <1>4 DEF Types

-----------------------------------------------------------------------------
(* Lists *)

\* An event once known stays known.
LEMMA FitsStays ==
  ASSUME Types, Types', scenario' = scenario, given <= given',
         \A n \in Muts : mut[n].pc # "new" => mut'[n].pc # "new",
         NEW e, NEW r, Fits(e, r)
  PROVE  Fits(e, r)'
<1>1. Muts' = Muts
  BY DEF Muts
<1>2. given \in Nat /\ given' \in Nat
  BY SetAssumption DEF Types
<1>3. \A i \in 1 .. given : i \in 1 .. given'
  BY <1>2
<1>4. QED
  BY <1>1, <1>3 DEF Fits, Known

\* Ids and begun mutations are never taken back.
Growing ==
    /\ scenario' = scenario /\ Muts' = Muts /\ given <= given'
    /\ \A n \in Muts : mut[n].pc # "new" => mut'[n].pc # "new"

\* The lists stay right while none changes.
LEMMA DataListsKept ==
  ASSUME Types, Types', Growing, DataLists,
         \A r \in Ranges : data'[r] = data[r]
  PROVE  DataLists'
<1>1. ASSUME NEW r \in Loaded' PROVE r \in Loaded /\ data'[r] = data[r]
  BY <1>1 DEF Loaded
<1>2. QED
  BY <1>1, FitsStays DEF DataLists, Growing

\* The answers under way stay right while none is added.
LEMMA FetchListsKept ==
  ASSUME Types, Types', Growing, FetchLists,
         \A r \in Ranges : fetch'[r].got = fetch[r].got \/ fetch'[r].got = {}
  PROVE  FetchLists'
  BY FitsStays DEF FetchLists, Growing

\* The snapshots stay right while none is taken.
LEMMA SnapListsKept ==
  ASSUME Types, Types', Growing, SnapLists, ref' = ref,
         \A n \in Muts : mut'[n].snap = mut[n].snap \/ DOMAIN mut'[n].snap = {}
  PROVE  SnapLists'
  BY FitsStays DEF SnapLists, Growing

\* The mutations stay right while those under way do not change.
LEMMA MutListsKept ==
  ASSUME Types, Types', Growing, MutLists,
         \A n \in Muts : mut'[n] = mut[n] \/ n \notin InFlight'
  PROVE  MutLists'
<1>1. given \in Nat /\ given' \in Nat /\ given <= given'
  BY SetAssumption DEF Types, Growing
<1>2. \A i \in 1 .. given : i \in 1 .. given'
  BY <1>1
<1>3. ASSUME NEW n \in InFlight' PROVE n \in InFlight /\ mut'[n] = mut[n]
  BY <1>3 DEF InFlight, Growing
<1>4. QED
  BY <1>2, <1>3 DEF MutLists, Ids

\* Steps that only read.
LEMMA ListsReading ==
  ASSUME Types, Types', Lists, NEW r \in Ranges, Prefetch(r) \/ Serve(r) \/ Arrive(r) \/ Show(r)
  PROVE  Lists'
<1>1. UNCHANGED <<scenario, given, mut, ref>>
  BY DEF Prefetch, Serve, Arrive, Show
<1>2. Growing
  <2>1. given <= given'
    BY <1>1, SetAssumption DEF Types
  <2>2. QED
    BY <1>1, <2>1 DEF Growing, Muts
<1>3. SnapLists' /\ MutLists'
  BY <1>1, <1>2, SnapListsKept, MutListsKept DEF Lists
<1>4. CASE Prefetch(r)
  <2>1. \A s \in Ranges : data'[s] = data[s] /\ (fetch'[s].got = fetch[s].got \/ fetch'[s].got = {})
    BY <1>4 DEF Prefetch, Types, Asked
  <2>2. QED
    BY <1>2, <1>3, <2>1, DataListsKept, FetchListsKept DEF Lists
<1>5. CASE Serve(r)
  <2>1. \A s \in Ranges : data'[s] = data[s]
    BY <1>5 DEF Serve
  <2>2. \A s \in Ranges : fetch'[s].got = IF s = r THEN Truth(r) ELSE fetch[s].got
    BY <1>5 DEF Serve, Types
  <2>3. \A e \in Truth(r) : Fits(e, r) /\ e.id \in Ids
    BY TruthType DEF Fits, Known
  <2>4. FetchLists'
    BY <1>2, <2>2, <2>3, FitsStays DEF FetchLists, Lists, Growing
  <2>5. QED
    BY <1>2, <1>3, <2>1, <2>4, DataListsKept DEF Lists
<1>6. CASE Arrive(r)
  <2>1. \A s \in Ranges : fetch'[s].got = fetch[s].got \/ fetch'[s].got = {}
    BY <1>6 DEF Arrive, Types, NoFetch
  <2>2. ASSUME NEW s \in Loaded' PROVE \A e \in data'[s] : Fits(e, s)
    <3>1. CASE s = r
      <4>1. data'[s] = fetch[r].got
        BY <1>6, <3>1 DEF Arrive, Types
      <4>2. QED
        BY <3>1, <4>1 DEF Lists, FetchLists
    <3>2. CASE s # r
      <4>1. data'[s] = data[s] /\ s \in Loaded
        BY <1>6, <2>2, <3>2 DEF Arrive, Types, Loaded
      <4>2. QED
        BY <4>1 DEF Lists, DataLists
    <3>3. QED
      BY <3>1, <3>2
  <2>3. DataLists'
    BY <1>2, <2>2, FitsStays DEF DataLists, Growing
  <2>4. QED
    BY <1>2, <1>3, <2>1, <2>3, FetchListsKept DEF Lists
<1>7. CASE Show(r)
  <2>1. \A s \in Ranges : fetch'[s].got = fetch[s].got \/ fetch'[s].got = {}
    BY <1>7 DEF Show, Types, Asked
  <2>2. CASE r \notin Loaded /\ Covered(r)
    <3>1. PICK seed \in Seeds(r) : data' = [data EXCEPT ![r] = seed]
      BY <1>7, <2>2 DEF Show
    <3>2. ASSUME NEW s \in Loaded' PROVE \A e \in data'[s] : Fits(e, s)
      <4>1. CASE s = r
        <5>1. data'[s] = seed
          BY <3>1, <4>1 DEF Types
        <5>2. QED
          BY <4>1, <5>1, SeedsType DEF Lists, DataLists, Fits
      <4>2. CASE s # r
        <5>1. data'[s] = data[s] /\ s \in Loaded
          BY <3>1, <3>2, <4>2 DEF Types, Loaded
        <5>2. QED
          BY <5>1 DEF Lists, DataLists
      <4>3. QED
        BY <4>1, <4>2
    <3>3. DataLists'
      BY <1>2, <3>2, FitsStays DEF DataLists, Growing
    <3>4. QED
      BY <1>2, <1>3, <2>1, <3>3, FetchListsKept DEF Lists
  <2>3. CASE ~(r \notin Loaded /\ Covered(r))
    BY <1>2, <1>3, <1>7, <2>1, <2>3, DataListsKept, FetchListsKept DEF Lists, Show
  <2>4. QED
    BY <2>2, <2>3
<1>8. QED
  BY <1>4, <1>5, <1>6, <1>7

\* A mutation that begins joins those under way.
LEMMA ListsBegin ==
  ASSUME Types, Types', Lists, NEW m \in Muts,
         NEW kind \in {"create", "remove", "move", "update"}, NEW id \in Int,
         NEW at \in Places \cup {{}}, NEW snap \in Snaps, Begin(m, kind, id, at, snap),
         IF kind = "create" THEN id = Temp(m) /\ at \in Places ELSE id \in 1 .. given
  PROVE  /\ Growing /\ MutLists'
         /\ \A e, r : Fits(e, r) => Fits(e, r)'
<1>1. /\ mut'[m].pc = "asked" /\ mut'[m].kind = kind /\ mut'[m].id = id /\ mut'[m].at = at
      /\ \A n \in Muts : n # m => mut'[n] = mut[n]
      /\ InFlight' = InFlight \cup {m} /\ Muts' = Muts
      /\ UNCHANGED <<scenario, server, given, shown>>
  BY ONLY Types, m \in Muts, kind \in {"create", "remove", "move", "update"}, id \in Int,
          at \in Places \cup {{}}, snap \in Snaps, Begin(m, kind, id, at, snap), BeginStep
<1>2. given \in Nat /\ given <= given' /\ given <= MaxEvents /\ MaxEvents \in Nat
  BY <1>1, SetAssumption DEF Types
<1>3. Growing
  BY <1>1, <1>2 DEF Growing
<1>4. \A n \in InFlight : n # m => mut'[n] = mut[n]
  BY <1>1 DEF InFlight
<1>5. kind # "create" => id \in Ids
  BY <1>2 DEF Ids
<1>6. MutLists'
  BY <1>1, <1>4, <1>5 DEF MutLists, Lists
<1>7. QED
  BY <1>3, <1>6, FitsStays DEF Growing

\* Cancelling adds no answer.
LEMMA CancelLists ==
  ASSUME Types, Types', Growing, FetchLists, CancelLoaded
  PROVE  FetchLists'
<1>1. \A r \in Ranges : fetch'[r].got = fetch[r].got \/ fetch'[r].got = {}
  BY DEF CancelLoaded, NoFetch
<1>2. QED
  BY <1>1, FetchListsKept

\* A snapshot of right lists is right.
LEMMA SnapshotLists ==
  ASSUME Types, DataLists, NEW R \in SUBSET Loaded
  PROVE  \A r \in DOMAIN Snapshot(R) : \A e \in Snapshot(R)[r] : Fits(e, r)
  BY SnapshotType DEF DataLists

\* The lists, when a create begins: its placeholder is known.
LEMMA ListsCreate ==
  ASSUME Types, Types', Lists, NEW m \in Muts, NEW p \in Places, Create(m, p)
  PROVE  Lists'
<1> DEFINE R == {r \in Loaded : Meets(p, r)}
<1>1. Begin(m, "create", Temp(m), p, NoSnap) /\ Temp(m) \in Int
  BY TempType DEF Create
<1>2. Growing /\ MutLists' /\ \A e, r : Fits(e, r) => Fits(e, r)'
  BY <1>1, NoSnapType, ListsBegin
<1>3. /\ mut'[m].pc = "asked" /\ DOMAIN mut'[m].snap = {}
      /\ \A n \in Muts : n # m => mut'[n] = mut[n]
      /\ Muts' = Muts
  BY <1>1, NoSnapType, BeginStep
<1>4. /\ ref' = [ref EXCEPT !["create"] = Snapshot(R)]
      /\ data' = [r \in Ranges |-> IF r \in R THEN data[r] \cup {Event(Temp(m), p)} ELSE data[r]]
      /\ CancelLoaded
  BY DEF Create, Put
<1>5. FetchLists'
  BY <1>2, <1>4, CancelLists DEF Lists
<1>6. SnapLists'
  <2>1. PICK snap \in Snaps : snap = Snapshot(R)
    BY SnapshotType
  <2>2. \A r \in DOMAIN snap : \A e \in snap[r] : Fits(e, r)
    BY <2>1, SnapshotLists DEF Lists
  <2>3. ref'["create"] = snap /\ ref'["remove"] = ref["remove"]
    BY <1>4, <2>1 DEF Types
  <2>4. \A k \in {"create", "remove"} : \A r \in DOMAIN ref'[k] : \A e \in ref'[k][r] : Fits(e, r)'
    BY <1>2, <2>2, <2>3 DEF Lists, SnapLists
  <2>5. \A n \in Muts : \A r \in DOMAIN mut'[n].snap : \A e \in mut'[n].snap[r] : Fits(e, r)'
    BY <1>2, <1>3 DEF Lists, SnapLists
  <2>6. QED
    BY <1>3, <2>4, <2>5 DEF SnapLists
<1>7. ASSUME NEW r \in Loaded', NEW e \in data'[r] PROVE Fits(e, r)'
  <2>1. r \in Ranges
    BY <1>7 DEF Loaded
  <2>2. CASE r \in R /\ e = Event(Temp(m), p)
    BY <1>1, <1>3, <2>2, EventType DEF Fits, Known
  <2>3. CASE r \in Loaded /\ e \in data[r]
    BY <1>2, <2>3 DEF Lists, DataLists
  <2>4. QED
    BY <1>4, <1>7, <2>1, <2>2, <2>3 DEF Loaded
<1>8. QED
  BY <1>2, <1>5, <1>6, <1>7 DEF Lists, DataLists

\* The lists, when a removal begins.
LEMMA ListsRemove ==
  ASSUME Types, Types', Lists, NEW m \in Muts, NEW e \in OnScreen, Remove(m, e)
  PROVE  Lists'
<1>1. Begin(m, "remove", e.id, {}, NoSnap) /\ e.id \in Int /\ e.id \in 1 .. given
  BY OnScreenType DEF Remove
<1>2. Growing /\ MutLists' /\ \A f, r : Fits(f, r) => Fits(f, r)'
  BY <1>1, NoSnapType, ListsBegin
<1>3. /\ DOMAIN mut'[m].snap = {}
      /\ \A n \in Muts : n # m => mut'[n] = mut[n]
      /\ Muts' = Muts
  BY <1>1, NoSnapType, BeginStep
<1>4. /\ ref' = [ref EXCEPT !["remove"] = Snapshot(Loaded)]
      /\ data' = [r \in Ranges |-> IF r \in Loaded THEN {f \in data[r] : f.id # e.id} ELSE data[r]]
      /\ CancelLoaded
  BY DEF Remove, Put
<1>5. FetchLists'
  BY <1>2, <1>4, CancelLists DEF Lists
<1>6. SnapLists'
  <2>1. PICK snap \in Snaps : snap = Snapshot(Loaded)
    BY SnapshotType
  <2>2. \A r \in DOMAIN snap : \A f \in snap[r] : Fits(f, r)
    BY <2>1, SnapshotLists DEF Lists
  <2>3. ref'["remove"] = snap /\ ref'["create"] = ref["create"]
    BY <1>4, <2>1 DEF Types
  <2>4. \A k \in {"create", "remove"} : \A r \in DOMAIN ref'[k] : \A f \in ref'[k][r] : Fits(f, r)'
    BY <1>2, <2>2, <2>3 DEF Lists, SnapLists
  <2>5. \A n \in Muts : \A r \in DOMAIN mut'[n].snap : \A f \in mut'[n].snap[r] : Fits(f, r)'
    BY <1>2, <1>3 DEF Lists, SnapLists
  <2>6. QED
    BY <1>3, <2>4, <2>5 DEF SnapLists
<1>7. ASSUME NEW r \in Loaded', NEW f \in data'[r] PROVE Fits(f, r)'
  <2>1. r \in Loaded /\ f \in data[r]
    BY <1>4, <1>7 DEF Loaded
  <2>2. QED
    BY <1>2, <2>1 DEF Lists, DataLists
<1>8. QED
  BY <1>2, <1>5, <1>6, <1>7 DEF Lists, DataLists

\* The lists, when a move begins: the event stays only where its new place is.
LEMMA ListsMove ==
  ASSUME Types, Types', Lists, NEW m \in Muts, NEW e \in OnScreen, NEW p \in Places, Move(m, e, p)
  PROVE  Lists'
<1>1. PICK snap \in Snaps : snap = Snapshot(Loaded)
  BY SnapshotType
<1>2. Begin(m, "move", e.id, p, snap) /\ e.id \in Int /\ e.id \in 1 .. given
  BY <1>1, OnScreenType DEF Move
<1>3. Growing /\ MutLists' /\ \A f, r : Fits(f, r) => Fits(f, r)'
  BY <1>2, ListsBegin
<1>4. /\ mut'[m].snap = snap
      /\ \A n \in Muts : n # m => mut'[n] = mut[n]
      /\ Muts' = Muts /\ given' = given
  BY <1>2, BeginStep
<1>5. /\ data' = [r \in Ranges |-> IF r \in Loaded
                    THEN {f \in data[r] : f.id # e.id} \cup (IF Meets(p, r) THEN {Event(e.id, p)} ELSE {})
                    ELSE data[r]]
      /\ CancelLoaded /\ ref' = ref
  BY DEF Move, Put
<1>6. FetchLists'
  BY <1>3, <1>5, CancelLists DEF Lists
<1>7. SnapLists'
  <2>1. \A r \in DOMAIN snap : \A f \in snap[r] : Fits(f, r)
    BY <1>1, SnapshotLists DEF Lists
  <2>2. \A n \in Muts : \A r \in DOMAIN mut'[n].snap : \A f \in mut'[n].snap[r] : Fits(f, r)'
    BY <1>3, <1>4, <2>1 DEF Lists, SnapLists
  <2>3. QED
    BY <1>3, <1>4, <1>5, <2>2 DEF Lists, SnapLists
<1>8. ASSUME NEW r \in Loaded', NEW f \in data'[r] PROVE Fits(f, r)'
  <2>1. r \in Ranges
    BY <1>8 DEF Loaded
  <2>2. CASE Meets(p, r) /\ f = Event(e.id, p)
    BY <1>2, <1>4, <2>2, EventType DEF Fits, Known
  <2>3. CASE r \in Loaded /\ f \in data[r]
    BY <1>3, <2>3 DEF Lists, DataLists
  <2>4. QED
    BY <1>5, <1>8, <2>1, <2>2, <2>3 DEF Loaded
<1>9. QED
  BY <1>3, <1>6, <1>7, <1>8 DEF Lists, DataLists

\* The lists, when an edit begins.
LEMMA ListsUpdate ==
  ASSUME Types, Types', Lists, NEW m \in Muts, NEW e \in OnScreen, NEW p \in Places \cup {{}}, Update(m, e, p)
  PROVE  Lists'
<1>1. Begin(m, "update", e.id, p, NoSnap) /\ e.id \in Int /\ e.id \in 1 .. given
  BY OnScreenType DEF Update
<1>2. Growing /\ MutLists'
  BY <1>1, NoSnapType, ListsBegin
<1>3. /\ mut'[m].snap = NoSnap
      /\ \A n \in Muts : n # m => mut'[n] = mut[n]
  BY <1>1, NoSnapType, BeginStep
<1>4. UNCHANGED <<data, stale, fetch, ref>>
  BY DEF Update
<1>5. SnapLists'
  BY <1>2, <1>3, <1>4, NoSnapType, SnapListsKept DEF Lists
<1>6. QED
  BY <1>2, <1>4, <1>5, DataListsKept, FetchListsKept DEF Lists

\* The server carries a mutation out: a create gets the next id, the others keep theirs.
LEMMA ApplyStep ==
  ASSUME Types, Lists, NEW m \in Muts, Apply(m)
  PROVE  /\ mut[m].pc = "asked" /\ m \in InFlight /\ InFlight' = InFlight /\ Growing
         /\ UNCHANGED <<scenario, data, stale, fetch, shown, ref>>
         /\ mut'[m].pc \in Outcomes /\ mut'[m].kind = mut[m].kind /\ mut'[m].at = mut[m].at
         /\ mut'[m].snap = mut[m].snap
         /\ \A n \in Muts : n # m => mut'[n] = mut[n]
         /\ mut'[m].id \in 1 .. given' /\ mut'[m].id \in Ids
         /\ server' = [server EXCEPT ![mut'[m].id] = mut[m].at]
         /\ IF mut[m].kind = "create"
            THEN given' = given + 1 /\ mut'[m].id = given + 1
            ELSE given' = given /\ mut'[m].id = mut[m].id /\ mut[m].id \in Existing
<1>1. m \in InFlight /\ mut[m].id \in Int /\ mut[m].pc = "asked"
  BY MutFields DEF Apply, InFlight
<1>2. UNCHANGED <<scenario, data, stale, fetch, shown, ref>> /\ Muts' = Muts
  BY DEF Apply, Muts
<1>3. Outcomes \subseteq {"saved", "failed"}
  BY DEF Outcomes
<1>4. PICK out \in Outcomes :
        IF mut[m].kind = "create"
        THEN /\ given' = given + 1
             /\ server' = [server EXCEPT ![given'] = mut[m].at]
             /\ Answers(m, out, given')
        ELSE /\ mut[m].id \in Existing
             /\ server' = [server EXCEPT ![mut[m].id] = mut[m].at]
             /\ Answers(m, out, mut[m].id)
             /\ UNCHANGED given
  BY DEF Apply
<1>5. given \in Nat /\ MaxEvents \in Nat /\ given' \in 0 .. MaxEvents
  BY SetAssumption, TypesApply DEF Types
<1>6. PICK i \in Int : /\ Answers(m, out, i) /\ server' = [server EXCEPT ![i] = mut[m].at]
                       /\ IF mut[m].kind = "create" THEN given' = given + 1 /\ i = given + 1
                          ELSE given' = given /\ i = mut[m].id /\ mut[m].id \in Existing
  BY <1>1, <1>4, <1>5
<1>7. i \in 1 .. given' /\ i \in Ids
  <2>1. CASE mut[m].kind = "create"
    BY <1>5, <1>6, <2>1 DEF Ids
  <2>2. CASE mut[m].kind # "create"
    <3>1. i \in Ids /\ ~(i > given)
      BY <1>6, <2>2 DEF Existing, Types
    <3>2. QED
      BY <1>5, <1>6, <2>2, <3>1 DEF Ids
  <2>3. QED
    BY <2>1, <2>2
<1>8. /\ mut'[m].pc = out /\ mut'[m].id = i /\ mut'[m].kind = mut[m].kind /\ mut'[m].at = mut[m].at
      /\ mut'[m].snap = mut[m].snap /\ \A n \in Muts : n # m => mut'[n] = mut[n]
  BY <1>2, <1>3, <1>6, AnswersStep
<1>9. InFlight' = InFlight
  BY <1>1, <1>2, <1>3, <1>8 DEF InFlight
<1>10. Growing
  <2>1. given <= given'
    BY <1>5, <1>6
  <2>2. QED
    BY <1>2, <1>3, <1>8, <2>1 DEF Growing
<1>11. QED
  BY <1>1, <1>2, <1>6, <1>7, <1>8, <1>9, <1>10

\* The lists, when the server carries a mutation out.
LEMMA ListsApply ==
  ASSUME Types, Types', Lists, NEW m \in Muts, Apply(m)
  PROVE  Lists'
<1>1. /\ InFlight' = InFlight /\ Growing /\ m \in InFlight /\ UNCHANGED <<data, fetch, ref>>
      /\ mut'[m].kind = mut[m].kind /\ mut'[m].at = mut[m].at /\ mut'[m].pc # "asked"
      /\ \A n \in Muts : mut'[n].snap = mut[n].snap
      /\ \A n \in Muts : n # m => mut'[n] = mut[n]
      /\ mut'[m].id \in 1 .. given' /\ mut'[m].id \in Ids
  BY ApplyStep DEF Outcomes
<1>2. given \in Nat /\ given' \in Nat /\ given <= given'
  BY <1>1, SetAssumption DEF Types, Growing
<1>3. \A i \in 1 .. given : i \in 1 .. given'
  BY <1>2
<1>4. MutLists'
  BY <1>1, <1>3 DEF MutLists, Lists, InFlight
<1>5. SnapLists'
  BY <1>1, SnapListsKept DEF Lists
<1>6. DataLists' /\ FetchLists'
  BY <1>1, DataListsKept, FetchListsKept DEF Lists
<1>7. QED
  BY <1>4, <1>5, <1>6 DEF Lists

\* A refusal changes the mutation's progress, no more.
LEMMA RefuseStep ==
  ASSUME Types, NEW m \in Muts, Refuse(m)
  PROVE  /\ mut[m].pc = "asked" /\ m \in InFlight /\ InFlight' = InFlight /\ Growing
         /\ UNCHANGED <<scenario, server, given, data, stale, fetch, shown, ref>>
         /\ mut'[m].pc = "failed" /\ mut'[m].id = mut[m].id
         /\ mut'[m].kind = mut[m].kind /\ mut'[m].at = mut[m].at /\ mut'[m].snap = mut[m].snap
         /\ \A n \in Muts : n # m => mut'[n] = mut[n]
<1>1. UNCHANGED <<scenario, server, given, data, stale, fetch, shown, ref>> /\ Muts' = Muts
  BY DEF Refuse, Muts
<1>2. /\ mut'[m].pc = "failed" /\ mut'[m].id = mut[m].id
      /\ mut'[m].kind = mut[m].kind /\ mut'[m].at = mut[m].at /\ mut'[m].snap = mut[m].snap
      /\ \A n \in Muts : n # m => mut'[n] = mut[n]
  BY <1>1, AnswersStep, MutFields DEF Refuse
<1>3. mut[m].pc = "asked" /\ m \in InFlight /\ InFlight' = InFlight
  BY <1>1, <1>2 DEF Refuse, InFlight
<1>4. given <= given'
  BY <1>1, SetAssumption DEF Types
<1>5. QED
  BY <1>1, <1>2, <1>3, <1>4 DEF Growing

\* The lists, when the server refuses a mutation.
LEMMA ListsRefuse ==
  ASSUME Types, Types', Lists, NEW m \in Muts, Refuse(m)
  PROVE  Lists'
<1>1. /\ InFlight' = InFlight /\ Growing /\ m \in InFlight /\ UNCHANGED <<data, fetch, ref, given>>
      /\ mut'[m].kind = mut[m].kind /\ mut'[m].at = mut[m].at /\ mut'[m].pc = "failed"
      /\ mut'[m].id = mut[m].id
      /\ \A n \in Muts : mut'[n].snap = mut[n].snap
      /\ \A n \in Muts : n # m => mut'[n] = mut[n]
  BY RefuseStep
<1>2. MutLists'
  BY <1>1 DEF MutLists, Lists, InFlight
<1>3. SnapLists'
  BY <1>1, SnapListsKept DEF Lists
<1>4. DataLists' /\ FetchLists'
  BY <1>1, DataListsKept, FetchListsKept DEF Lists
<1>5. QED
  BY <1>2, <1>3, <1>4 DEF Lists

\* The lists, when a success is known: the saved event is where it belongs.
LEMMA ListsSaved ==
  ASSUME Types, Types', Lists, NEW m \in Muts, Saved(m)
  PROVE  Lists'
<1>1. /\ mut[m].pc = "saved" /\ mut'[m].pc = "done" /\ mut'[m].snap = NoSnap
      /\ \A n \in Muts : n # m => mut'[n] = mut[n]
      /\ UNCHANGED <<scenario, given, ref>> /\ Muts' = Muts
      /\ InFlight' = InFlight \ {m} /\ m \in InFlight
  BY SavedStep
<1>2. Growing
  <2>1. given <= given'
    BY <1>1, SetAssumption DEF Types
  <2>2. QED
    BY <1>1, <2>1 DEF Growing
<1>3. MutLists' /\ SnapLists'
  BY <1>1, <1>2, NoSnapType, MutListsKept, SnapListsKept DEF Lists
<1>4. CASE mut[m].kind # "create"
  <2>1. /\ \A r \in Ranges : data'[r] = data[r]
        /\ \A r \in Ranges : fetch'[r].got = fetch[r].got \/ fetch'[r].got = {}
    BY <1>4 DEF Saved, InvalidateAll, Refetch, Asked
  <2>2. QED
    BY <1>2, <1>3, <2>1, DataListsKept, FetchListsKept DEF Lists
<1>5. CASE mut[m].kind = "create"
  <2> DEFINE saved == Event(mut[m].id, mut[m].at)
             Others(r) == {e \in data[r] : e.id \notin {Temp(m), saved.id}}
             R == {r \in Loaded : Meets(saved.at, r) \/ Others(r) # data[r]}
             S == {r \in Ranges : Meets(saved.at, r)}
  <2>1. /\ data' = [r \in Ranges |->
            IF r \in R THEN Others(r) \cup (IF r \in S THEN {saved} ELSE {}) ELSE data[r]]
        /\ Refetch(S)
    BY <1>5 DEF Saved, Commit
  <2>2. saved.id \in 1 .. given
    BY <1>1, <1>5, MutFields, EventType DEF Lists, MutLists
  <2>3. \A r \in Ranges : fetch'[r].got = fetch[r].got \/ fetch'[r].got = {}
    BY <2>1 DEF Refetch, Asked
  <2>4. ASSUME NEW r \in Loaded', NEW e \in data'[r] PROVE Fits(e, r)
    <3>1. r \in Ranges
      BY <2>4 DEF Loaded
    <3>2. CASE r \in S /\ e = saved
      BY <2>2, <3>2 DEF Fits, Known
    <3>3. CASE r \in Loaded /\ e \in data[r]
      BY <3>3 DEF Lists, DataLists
    <3>4. QED
      BY <2>1, <2>4, <3>1, <3>2, <3>3 DEF Loaded
  <2>5. DataLists'
    BY <1>2, <2>4, FitsStays DEF DataLists, Growing
  <2>6. QED
    BY <1>2, <1>3, <2>3, <2>5, FetchListsKept DEF Lists
<1>6. QED
  BY <1>4, <1>5

\* The lists, when a failure is known: those of the snapshot were right.
LEMMA ListsFailed ==
  ASSUME Types, Types', Lists, NEW m \in Muts, Failed(m)
  PROVE  Lists'
<1>1. /\ mut'[m].pc = "done" /\ DOMAIN mut'[m].snap = {}
      /\ \A n \in Muts : n # m => mut'[n] = mut[n]
      /\ UNCHANGED <<scenario, given, ref, fetch>> /\ Muts' = Muts
      /\ InFlight' = InFlight \ {m} /\ m \in InFlight
      /\ data' = [r \in Ranges |-> IF r \in DOMAIN SnapOf(m) THEN SnapOf(m)[r] ELSE data[r]]
  BY FailedStep
<1>2. Growing
  <2>1. given <= given'
    BY <1>1, SetAssumption DEF Types
  <2>2. QED
    BY <1>1, <2>1 DEF Growing
<1>3. MutLists' /\ SnapLists' /\ FetchLists'
  BY <1>1, <1>2, MutListsKept, SnapListsKept, FetchListsKept DEF Lists
<1>4. \A r \in DOMAIN SnapOf(m) : \A e \in SnapOf(m)[r] : Fits(e, r)
  BY DEF SnapOf, Lists, SnapLists
<1>5. ASSUME NEW r \in Loaded', NEW e \in data'[r] PROVE Fits(e, r)
  BY <1>1, <1>4, <1>5 DEF Lists, DataLists, Loaded
<1>6. DataLists'
  BY <1>2, <1>5, FitsStays DEF DataLists, Growing
<1>7. QED
  BY <1>3, <1>6 DEF Lists

-----------------------------------------------------------------------------
(* Mutations that follow one another *)

\* One mutation at a time: with nothing under way, only the placeholders matter.
LEMMA SerialIdle ==
  ASSUME InFlight' = {}, \A r \in Loaded' : \A e \in data'[r] : e.id \in Ids
  PROVE  SerialInv'
  BY DEF SerialInv, OneMutation, NothingRead, Placeholders, CleanSnaps, Kept

\* Without a create under way no list has a placeholder.
LEMMA IdleLists ==
  ASSUME SerialInv, \A m \in InFlight : mut[m].kind # "create"
  PROVE  \A r \in Loaded : \A e \in data[r] : e.id \in Ids
  BY DEF SerialInv, Placeholders

\* The mutations under way stay while none changes.
LEMMA InFlightSame ==
  ASSUME UNCHANGED <<scenario, mut>>
  PROVE  InFlight' = InFlight
  BY DEF InFlight, Muts

\* Pages are turned only between mutations.
LEMMA SerialPaging ==
  ASSUME Types, Lists, Serial, SerialInv, NEW r \in Ranges, Prefetch(r) \/ Show(r)
  PROVE  SerialInv'
<1>1. InFlight = {}
  BY DEF Prefetch, Show, Quiet, May, Serial, Only
<1>2. InFlight' = {}
  BY <1>1, InFlightSame DEF Prefetch, Show
<1>3. \A s \in Loaded : \A e \in data[s] : e.id \in Ids
  BY <1>1, IdleLists
<1>4. \A s \in Loaded' : \A e \in data'[s] : e.id \in Ids
  <2>1. CASE data' = data
    BY <1>3, <2>1 DEF Loaded
  <2>2. ASSUME NEW seed \in Seeds(r), data' = [data EXCEPT ![r] = seed]
        PROVE  \A s \in Loaded' : \A e \in data'[s] : e.id \in Ids
    <3>1. \A e \in seed : e.id \in Ids
      BY <1>3, SeedsType
    <3>2. QED
      BY <1>3, <2>2, <3>1 DEF Loaded, Types
  <2>3. data' = data \/ \E seed \in Seeds(r) : data' = [data EXCEPT ![r] = seed]
    BY DEF Prefetch, Show
  <2>4. QED
    BY <2>1, <2>2, <2>3
<1>5. QED
  BY <1>2, <1>4, SerialIdle

\* An answer arrives only between mutations or during an edit, which writes nothing ahead.
LEMMA SerialReading ==
  ASSUME Types, Lists, SerialInv, NEW r \in Ranges, Serve(r) \/ Arrive(r)
  PROVE  SerialInv'
<1>1. InFlight' = InFlight /\ UNCHANGED <<mut, ref>>
  BY InFlightSame DEF Serve, Arrive
<1>2. \A m \in InFlight : mut[m].kind = "update"
  BY DEF SerialInv, NothingRead, Fetching, Serve, Arrive
<1>3. \A s \in Loaded : \A e \in data[s] : e.id \in Ids
  BY <1>2, IdleLists
<1>4. \A s \in Loaded' : \A e \in data'[s] : e.id \in Ids
  <2>1. CASE Serve(r)
    BY <1>3, <2>1 DEF Serve, Loaded
  <2>2. CASE Arrive(r)
    BY <1>3, <2>2 DEF Arrive, Loaded, Types, Lists, FetchLists
  <2>3. QED
    BY <2>1, <2>2
<1>5. OneMutation' /\ NothingRead' /\ Placeholders'
  BY <1>1, <1>2, <1>4 DEF SerialInv, OneMutation, NothingRead, Placeholders
<1>6. CleanSnaps'
  BY <1>1 DEF SerialInv, CleanSnaps, SnapOf
<1>7. Kept'
  BY <1>1, <1>2 DEF Kept, Ahead
<1>8. QED
  BY <1>5, <1>6, <1>7 DEF SerialInv

\* A mutation begins alone, and nothing it has written to is being read.
LEMMA SerialBegin ==
  ASSUME Types, Serial, NEW m \in Muts, NEW kind, NEW id, NEW at, NEW snap, Begin(m, kind, id, at, snap)
  PROVE  InFlight = {} /\ (CancelLoaded => Fetching' = {})
<1>1. InFlight = {} /\ Fetching \subseteq Loaded
  BY DEF Begin, May, Serial, Only
<1>2. ASSUME CancelLoaded PROVE Fetching' = {}
  BY <1>1, <1>2 DEF CancelLoaded, NoFetch, Fetching
<1>3. QED
  BY <1>1, <1>2

\* A create begins: its snapshot has no placeholder, and nothing is being read.
LEMMA SerialCreate ==
  ASSUME Types, Lists, Serial, SerialInv, NEW m \in Muts, NEW p \in Places, Create(m, p)
  PROVE  SerialInv'
<1> DEFINE R == {r \in Loaded : Meets(p, r)}
<1>1. Begin(m, "create", Temp(m), p, NoSnap) /\ Temp(m) \in Int
  BY TempType DEF Create
<1>2. /\ mut'[m].pc = "asked" /\ mut'[m].kind = "create" /\ mut'[m].id = Temp(m) /\ mut'[m].at = p
      /\ InFlight' = InFlight \cup {m}
  BY <1>1, NoSnapType, BeginStep
<1>3. /\ ref' = [ref EXCEPT !["create"] = Snapshot(R)]
      /\ data' = [r \in Ranges |-> IF r \in R THEN data[r] \cup {Event(Temp(m), p)} ELSE data[r]]
      /\ CancelLoaded
  BY DEF Create, Put
<1>4. InFlight = {} /\ Fetching' = {}
  BY <1>1, <1>3, SerialBegin
<1>5. \A s \in Loaded : \A e \in data[s] : e.id \in Ids
  BY <1>4, IdleLists
<1>6. PICK snap \in Snaps : snap = Snapshot(R) /\ DOMAIN snap = R /\ \A r \in R : snap[r] = data[r]
  BY SnapshotType
<1>7. ref'["create"] = snap
  BY <1>3, <1>6 DEF Types
<1>8. R \subseteq Loaded /\ R \subseteq Ranges
  BY DEF Loaded
<1> HIDE DEF R
<1>9. Placeholders'
  <2>1. ASSUME NEW r \in Loaded', NEW e \in data'[r] PROVE e.id \in Ids \/ (e.id = Temp(m) /\ r \in R)
    <3>1. r \in Ranges
      BY <2>1 DEF Loaded
    <3>2. CASE r \in R /\ e = Event(Temp(m), p)
      BY <1>1, <3>2, EventType
    <3>3. CASE r \in Loaded /\ e \in data[r]
      BY <1>5, <3>3
    <3>4. QED
      BY <1>3, <1>8, <2>1, <3>1, <3>2, <3>3 DEF Loaded
  <2>2. QED
    BY <1>2, <1>6, <1>7, <2>1 DEF Placeholders
<1>10. CleanSnaps'
  BY <1>2, <1>4, <1>5, <1>6, <1>7, <1>8 DEF CleanSnaps, SnapOf
<1>11. Kept'
  BY <1>2, <1>3, <1>4, <1>6, <1>7, <1>8 DEF Kept, Ahead
<1>12. QED
  BY <1>2, <1>4, <1>9, <1>10, <1>11 DEF SerialInv, OneMutation, NothingRead

\* A removal begins: the event leaves every list.
LEMMA SerialRemove ==
  ASSUME Types, Lists, Serial, SerialInv, NEW m \in Muts, NEW e \in OnScreen, Remove(m, e)
  PROVE  SerialInv'
<1>1. Begin(m, "remove", e.id, {}, NoSnap) /\ e.id \in Int
  BY OnScreenType DEF Remove
<1>2. /\ mut'[m].pc = "asked" /\ mut'[m].kind = "remove" /\ mut'[m].id = e.id
      /\ InFlight' = InFlight \cup {m}
  BY <1>1, NoSnapType, BeginStep
<1>3. /\ ref' = [ref EXCEPT !["remove"] = Snapshot(Loaded)]
      /\ data' = [r \in Ranges |-> IF r \in Loaded THEN {f \in data[r] : f.id # e.id} ELSE data[r]]
      /\ CancelLoaded
  BY DEF Remove, Put
<1>4. InFlight = {} /\ Fetching' = {}
  BY <1>1, <1>3, SerialBegin
<1>5. \A s \in Loaded : \A f \in data[s] : f.id \in Ids
  BY <1>4, IdleLists
<1>6. PICK snap \in Snaps : snap = Snapshot(Loaded) /\ DOMAIN snap = Loaded
        /\ \A r \in Loaded : snap[r] = data[r]
  BY SnapshotType
<1>7. ref'["remove"] = snap
  BY <1>3, <1>6 DEF Types
<1>8. \A r \in Loaded' : \A f \in data'[r] : f.id \in Ids
  BY <1>3, <1>5 DEF Loaded
<1>9. CleanSnaps'
  BY <1>2, <1>4, <1>5, <1>6, <1>7 DEF CleanSnaps, SnapOf
<1>10. Kept'
  <2>1. \A r \in Loaded : \A f \in data'[r] : f.id # e.id
    BY <1>3 DEF Loaded
  <2>2. QED
    BY <1>2, <1>4, <1>6, <1>7, <2>1 DEF Kept, Ahead
<1>11. QED
  BY <1>2, <1>4, <1>8, <1>9, <1>10 DEF SerialInv, OneMutation, NothingRead, Placeholders

\* A move begins: the event is in the lists of its new place.
LEMMA SerialMove ==
  ASSUME Types, Lists, Serial, SerialInv, NEW m \in Muts, NEW e \in OnScreen, NEW p \in Places, Move(m, e, p)
  PROVE  SerialInv'
<1>1. PICK snap \in Snaps : snap = Snapshot(Loaded) /\ DOMAIN snap = Loaded
        /\ \A r \in Loaded : snap[r] = data[r]
  BY SnapshotType
<1>2. Begin(m, "move", e.id, p, snap) /\ e.id \in Int /\ e.id \in Ids
  BY <1>1, OnScreenType DEF Move
<1>3. /\ mut'[m].pc = "asked" /\ mut'[m].kind = "move" /\ mut'[m].id = e.id /\ mut'[m].at = p
      /\ mut'[m].snap = snap /\ InFlight' = InFlight \cup {m}
  BY <1>2, BeginStep
<1>4. /\ data' = [r \in Ranges |-> IF r \in Loaded
                    THEN {f \in data[r] : f.id # e.id} \cup (IF Meets(p, r) THEN {Event(e.id, p)} ELSE {})
                    ELSE data[r]]
      /\ CancelLoaded /\ ref' = ref
  BY DEF Move, Put
<1>5. InFlight = {} /\ Fetching' = {}
  BY <1>2, <1>4, SerialBegin
<1>6. \A s \in Loaded : \A f \in data[s] : f.id \in Ids
  BY <1>5, IdleLists
<1>7. Event(e.id, p).id = e.id
  BY <1>2, EventType
<1>8. \A r \in Loaded' : \A f \in data'[r] : f.id \in Ids
  BY <1>2, <1>4, <1>6, <1>7 DEF Loaded
<1>9. CleanSnaps'
  BY <1>1, <1>3, <1>5, <1>6 DEF CleanSnaps, SnapOf
<1>10. Kept'
  <2>1. \A r \in Loaded : (Event(e.id, p) \in data'[r]) <=> Meets(p, r)
    BY <1>4, <1>7 DEF Loaded
  <2>2. QED
    BY <1>1, <1>3, <1>5, <2>1 DEF Kept, Ahead
<1>11. QED
  BY <1>3, <1>5, <1>8, <1>9, <1>10 DEF SerialInv, OneMutation, NothingRead, Placeholders

\* An edit begins: nothing is written ahead.
LEMMA SerialUpdate ==
  ASSUME Types, Lists, Serial, SerialInv, NEW m \in Muts, NEW e \in OnScreen, NEW p \in Places \cup {{}},
         Update(m, e, p)
  PROVE  SerialInv'
<1>1. Begin(m, "update", e.id, p, NoSnap) /\ e.id \in Int
  BY OnScreenType DEF Update
<1>2. /\ mut'[m].kind = "update" /\ mut'[m].snap = NoSnap
      /\ InFlight' = InFlight \cup {m}
  BY <1>1, NoSnapType, BeginStep
<1>3. data' = data
  BY DEF Update
<1>4. InFlight = {}
  BY <1>1, SerialBegin
<1>5. \A r \in Loaded' : \A f \in data'[r] : f.id \in Ids
  BY <1>3, <1>4, IdleLists DEF Loaded
<1>6. CleanSnaps'
  BY <1>2, <1>4, NoSnapType DEF CleanSnaps, SnapOf
<1>7. Kept'
  BY <1>2, <1>4 DEF Kept, Ahead
<1>8. QED
  BY <1>2, <1>4, <1>5, <1>6, <1>7 DEF SerialInv, OneMutation, NothingRead, Placeholders

\* The server decides: nothing changes on the phone.
LEMMA SerialServer ==
  ASSUME Types, Lists, SerialInv, NEW m \in Muts, Apply(m) \/ Refuse(m)
  PROVE  SerialInv'
<1>1. /\ m \in InFlight /\ InFlight' = InFlight /\ mut'[m].pc # "asked" /\ mut'[m].kind = mut[m].kind
      /\ mut'[m].snap = mut[m].snap /\ UNCHANGED <<data, fetch, ref>>
  BY ApplyStep, RefuseStep DEF Outcomes
<1>2. \A n \in InFlight : n = m
  BY <1>1 DEF SerialInv, OneMutation
<1>3. OneMutation' /\ NothingRead'
  BY <1>1, <1>2 DEF SerialInv, OneMutation, NothingRead, Fetching
<1>4. Placeholders'
  BY <1>1, <1>2 DEF SerialInv, Placeholders, Loaded
<1>5. CleanSnaps'
  BY <1>1, <1>2 DEF SerialInv, CleanSnaps, SnapOf
<1>6. Kept'
  BY <1>1, <1>2 DEF Kept
<1>7. QED
  BY <1>3, <1>4, <1>5, <1>6 DEF SerialInv

\* A success is known: the placeholder is replaced.
LEMMA SerialSaved ==
  ASSUME Types, Lists, SerialInv, NEW m \in Muts, Saved(m)
  PROVE  SerialInv'
<1>1. /\ mut[m].pc = "saved" /\ m \in InFlight /\ InFlight' = InFlight \ {m}
  BY SavedStep
<1>2. InFlight' = {} /\ \A n \in InFlight : n = m
  BY <1>1 DEF SerialInv, OneMutation
<1>3. CASE mut[m].kind # "create"
  <2>1. data' = data
    BY <1>3 DEF Saved, InvalidateAll
  <2>2. \A r \in Loaded' : \A e \in data'[r] : e.id \in Ids
    BY <1>2, <1>3, <2>1, IdleLists DEF Loaded
  <2>3. QED
    BY <1>2, <2>2, SerialIdle
<1>4. CASE mut[m].kind = "create"
  <2> DEFINE saved == Event(mut[m].id, mut[m].at)
             Others(r) == {e \in data[r] : e.id \notin {Temp(m), saved.id}}
             R == {r \in Loaded : Meets(saved.at, r) \/ Others(r) # data[r]}
             S == {r \in Ranges : Meets(saved.at, r)}
  <2>1. data' = [r \in Ranges |->
            IF r \in R THEN Others(r) \cup (IF r \in S THEN {saved} ELSE {}) ELSE data[r]]
    BY <1>4 DEF Saved, Commit
  <2>2. saved.id \in Ids
    <3>1. mut[m].id \in 1 .. given
      BY <1>1 DEF Lists, MutLists
    <3>2. given \in Nat /\ given <= MaxEvents /\ MaxEvents \in Nat
      BY SetAssumption DEF Types
    <3>3. mut[m].id \in Ids
      BY <3>1, <3>2 DEF Ids
    <3>4. saved.id = mut[m].id
      BY <1>1, <1>4, MutFields, EventType DEF Lists, MutLists
    <3>5. QED
      BY <3>3, <3>4
  <2>3. ASSUME NEW r \in Loaded', NEW e \in data'[r] PROVE e.id \in Ids
    <3>1. r \in Ranges
      BY <2>3 DEF Loaded
    <3>2. CASE e = saved
      BY <2>2, <3>2
    <3>3. CASE r \in Loaded /\ e \in data[r] /\ e.id # Temp(m)
      BY <1>2, <3>3 DEF SerialInv, Placeholders
    <3>4. r \in Loaded /\ r \notin R => \A f \in data[r] : f.id # Temp(m)
      OBVIOUS
    <3>5. QED
      BY <2>1, <2>3, <3>1, <3>2, <3>3, <3>4 DEF Loaded
  <2>4. QED
    BY <1>2, <2>3, SerialIdle
<1>5. QED
  BY <1>3, <1>4

\* A failure is known: the lists of the snapshot have no placeholder.
LEMMA SerialFailed ==
  ASSUME Types, Lists, SerialInv, NEW m \in Muts, Failed(m)
  PROVE  SerialInv'
<1>1. /\ m \in InFlight /\ InFlight' = InFlight \ {m}
      /\ data' = [r \in Ranges |-> IF r \in DOMAIN SnapOf(m) THEN SnapOf(m)[r] ELSE data[r]]
  BY FailedStep
<1>2. InFlight' = {} /\ \A n \in InFlight : n = m
  BY <1>1 DEF SerialInv, OneMutation
<1>3. ASSUME NEW r \in Loaded', NEW e \in data'[r] PROVE e.id \in Ids
  <2>1. CASE r \in DOMAIN SnapOf(m)
    BY <1>1, <1>3, <2>1 DEF SerialInv, CleanSnaps, Loaded
  <2>2. CASE r \notin DOMAIN SnapOf(m)
    <3>1. r \in Loaded /\ e \in data[r]
      BY <1>1, <1>3, <2>2 DEF Loaded
    <3>2. mut[m].kind = "create" => SnapOf(m) = ref["create"]
      BY DEF SnapOf
    <3>3. QED
      BY <1>2, <2>2, <3>1, <3>2 DEF SerialInv, Placeholders
  <2>3. QED
    BY <2>1, <2>2
<1>4. QED
  BY <1>2, <1>3, SerialIdle

-----------------------------------------------------------------------------
(* Mutations that run at once *)

\* What a read would answer stays while the server does.
LEMMA TruthSame ==
  ASSUME server' = server
  PROVE  Existing' = Existing /\ \A r : Truth(r)' = Truth(r)
  BY DEF Existing, Truth

\* With nothing under way, three facts are the whole invariant.
LEMMA OverlapIdle ==
  ASSUME Types, Types', server' = server, InFlight' = {}, ScreenLoads', DataTrue', FetchTrue'
  PROVE  OverlapInv'
<1>1. Existing' = Existing /\ \A r : Truth(r)' = Truth(r)
  BY TruthSame
<1>2. \A r : ~Owing(r)'
  BY DEF Owing
<1>3. shown' \in Ranges /\ \A e \in Truth(shown') : e.id \in Existing
  BY TruthType DEF Types
<1>4. ScreenAccounted'
  <2>1. shown' \in Loaded' /\ ~stale'[shown'] => data'[shown'] = Truth(shown')
    BY <1>1, <1>2, <1>3 DEF DataTrue
  <2>2. fetch'[shown'].pc = "served" => fetch'[shown'].got = Truth(shown')
    BY <1>1, <1>2, <1>3 DEF FetchTrue
  <2>3. QED
    BY <1>1, <1>3, <2>1, <2>2 DEF ScreenAccounted, Accounted
<1>5. QED
  BY <1>4 DEF OverlapInv, ScreenReads, OwnEvent, Accepted, Created

\* A seed taken from true lists that cover the range is true.
LEMMA SeedsTrue ==
  ASSUME Types, NEW r \in Ranges, Covered(r), \A s \in Sources(r) : data[s] = Truth(s) /\ ~stale[s],
         NEW S \in Seeds(r)
  PROVE  S = Truth(r)
<1> DEFINE all == Versions(r, Sources(r))
           fresh == Versions(r, {s \in Sources(r) : ~stale[s]})
           newest == {e \in all : e \in fresh \/ \A f \in fresh : f.id # e.id}
<1>1. Sources(r) \subseteq Ranges
  BY DEF Sources, Loaded
<1>2. fresh = all
  BY DEF Versions
<1>3. newest = all
  BY <1>2
<1>4. S \subseteq all /\ \A e \in all : \E f \in S : f.id = e.id
  <2>1. S \in {T \in SUBSET newest : /\ \A e \in newest : \E f \in T : f.id = e.id
                                     /\ \A e, f \in T : e.id = f.id => e = f}
    BY DEF Seeds
  <2>2. QED
    BY <1>3, <2>1
<1>5. ASSUME NEW e \in all PROVE e \in Truth(r)
  <2>1. PICK s \in Sources(r) : e \in Truth(s) /\ Meets(e.at, r)
    BY <1>5 DEF Versions
  <2>2. s \in Ranges
    BY <1>1
  <2>3. e.id \in Existing /\ e = Event(e.id, server[e.id]) /\ e.at = server[e.id]
    BY <2>1, <2>2, TruthType
  <2>4. Event(e.id, server[e.id]) \in Truth(r)
    BY <2>1, <2>3, TruthType
  <2>5. QED
    BY <2>3, <2>4
<1>6. ASSUME NEW e \in Truth(r) PROVE e \in all
  <2>1. e.id \in Existing /\ e = Event(e.id, server[e.id]) /\ e.at = server[e.id] /\ Meets(e.at, r)
    BY TruthType
  <2>2. PICK d : d \in e.at /\ d \in r
    BY <2>1 DEF Meets
  <2>3. PICK s \in Sources(r) : d \in s
    BY <2>2 DEF Covered
  <2>4. Meets(server[e.id], s) /\ s \in Ranges
    BY <1>1, <2>1, <2>2, <2>3 DEF Meets
  <2>5. e \in Truth(s)
    BY <2>1, <2>4, TruthType
  <2>6. e \in data[s]
    BY <2>5
  <2>7. QED
    BY <2>1, <2>6 DEF Versions
<1>7. ASSUME NEW e \in all PROVE e \in S
  <2>1. PICK f \in S : f.id = e.id
    BY <1>4
  <2>2. f \in Truth(r) /\ e \in Truth(r)
    BY <1>4, <1>5
  <2>3. f = Event(f.id, server[f.id]) /\ e = Event(e.id, server[e.id])
    BY <2>2, TruthType
  <2>4. QED
    BY <2>1, <2>3
<1>8. QED
  BY <1>4, <1>5, <1>6, <1>7

\* Pages are turned only between mutations, and seeds are true or stale.
LEMMA OverlapPaging ==
  ASSUME Types, Types', Lists, Overlapping, OverlapInv, NEW r \in Ranges, Prefetch(r) \/ Show(r)
  PROVE  OverlapInv'
<1>1. InFlight = {}
  BY DEF Prefetch, Show, Quiet, May, Overlapping, Only
<1>2. InFlight' = {} /\ server' = server
  BY <1>1, InFlightSame DEF Prefetch, Show
<1>3. Existing' = Existing /\ \A s : Truth(s)' = Truth(s)
  BY <1>2, TruthSame
<1>4. \A s \in Loaded : stale[s] \/ data[s] = Truth(s)
  BY <1>1 DEF OverlapInv, DataTrue, Owing
<1>5. \A s \in Ranges : fetch[s].pc = "served" => fetch[s].got = Truth(s)
  BY <1>1 DEF OverlapInv, FetchTrue, Owing
<1>6. CASE Prefetch(r)
  <2>1. /\ UNCHANGED <<data, stale, shown>>
        /\ \A s \in Ranges : fetch'[s] = IF s = r THEN Asked ELSE fetch[s]
    BY <1>6 DEF Prefetch, Types
  <2>2. DataTrue'
    BY <1>3, <1>4, <2>1 DEF DataTrue, Loaded
  <2>3. FetchTrue'
    BY <1>3, <1>5, <2>1 DEF FetchTrue, Asked
  <2>4. ScreenLoads'
    BY <2>1 DEF OverlapInv, ScreenLoads, Loaded, Fetching, Asked
  <2>5. QED
    BY <1>2, <2>2, <2>3, <2>4, OverlapIdle
<1>7. CASE Show(r)
  <2>1. shown' = r
    BY <1>7 DEF Show
  <2>2. \A s \in Ranges : fetch'[s] = fetch[s] \/ fetch'[s] = Asked
    BY <1>7 DEF Show, Types
  <2>3. FetchTrue'
    BY <1>3, <1>5, <2>2 DEF FetchTrue, Asked
  <2>4. ScreenLoads'
    <3>1. CASE r \notin Fetching /\ (data'[r] = Unloaded \/ stale'[r])
      <4>1. fetch'[r] = Asked
        BY <1>7, <3>1 DEF Show, Types
      <4>2. QED
        BY <2>1, <4>1 DEF ScreenLoads, Fetching, Asked
    <3>2. CASE r \in Fetching
      <4>1. fetch'[r] = fetch[r]
        BY <1>7, <3>2 DEF Show, Types
      <4>2. QED
        BY <2>1, <3>2, <4>1 DEF ScreenLoads, Fetching
    <3>3. CASE data'[r] # Unloaded /\ ~stale'[r]
      BY <2>1, <3>3 DEF ScreenLoads, Loaded
    <3>4. QED
      BY <3>1, <3>2, <3>3
  <2>5. DataTrue'
    <3>1. CASE r \notin Loaded /\ Covered(r)
      <4>1. PICK seed \in Seeds(r) : data' = [data EXCEPT ![r] = seed]
        BY <1>7, <3>1 DEF Show
      <4>2. stale' = [stale EXCEPT ![r] = \E s \in Sources(r) : stale[s]]
        BY <1>7, <3>1 DEF Show
      <4>3. ASSUME ~stale'[r] PROVE seed = Truth(r)
        <5>1. \A s \in Sources(r) : ~stale[s]
          BY <4>2, <4>3 DEF Types
        <5>2. \A s \in Sources(r) : data[s] = Truth(s) /\ ~stale[s]
          BY <1>4, <5>1 DEF Sources
        <5>3. QED
          BY <3>1, <5>2, SeedsTrue
      <4>4. ASSUME NEW s \in Loaded' PROVE stale'[s] \/ data'[s] = Truth(s)
        <5>1. CASE s = r
          BY <4>1, <4>3, <5>1 DEF Types
        <5>2. CASE s # r
          <6>1. s \in Loaded /\ data'[s] = data[s] /\ stale'[s] = stale[s]
            BY <4>1, <4>2, <4>4, <5>2 DEF Types, Loaded
          <6>2. QED
            BY <1>4, <6>1
        <5>3. QED
          BY <5>1, <5>2
      <4>5. QED
        BY <1>3, <4>4 DEF DataTrue
    <3>2. CASE ~(r \notin Loaded /\ Covered(r))
      BY <1>3, <1>4, <1>7, <3>2 DEF Show, DataTrue, Loaded
    <3>3. QED
      BY <3>1, <3>2
  <2>6. QED
    BY <1>2, <2>3, <2>4, <2>5, OverlapIdle
<1>8. QED
  BY <1>6, <1>7

\* An answer read after the last change is true; one read before it is owed another read.
LEMMA OverlapReading ==
  ASSUME Types, Types', Lists, OverlapInv, NEW r \in Ranges, Serve(r) \/ Arrive(r)
  PROVE  OverlapInv'
<1>1. InFlight' = InFlight /\ UNCHANGED <<mut, server, shown>>
  BY InFlightSame DEF Serve, Arrive
<1>2. Existing' = Existing /\ \A s : Truth(s)' = Truth(s)
  BY <1>1, TruthSame
<1>3. /\ \A s : Owing(s)' = Owing(s)
      /\ \A e : Accounted(e)' = Accounted(e)
  BY <1>1, <1>2 DEF Owing, Accounted
<1>4. OwnEvent' /\ Accepted'
  BY <1>1, <1>2 DEF OverlapInv, OwnEvent, Accepted
<1>5. r \in Fetching /\ shown \in Ranges
  BY DEF Serve, Arrive, Fetching, Types
<1>6. CASE Serve(r)
  <2>1. /\ UNCHANGED <<data, stale>> /\ Loaded' = Loaded
        /\ \A s \in Ranges : s # r => fetch'[s] = fetch[s]
        /\ fetch'[r].pc = "served" /\ fetch'[r].got = Truth(r)
    BY <1>6 DEF Serve, Types, Loaded
  <2>2. Fetching' = Fetching
    BY <1>5, <2>1 DEF Fetching
  <2>3. ScreenReads' /\ ScreenLoads' /\ DataTrue'
    BY <1>1, <1>2, <1>3, <2>1, <2>2 DEF OverlapInv, ScreenReads, ScreenLoads, DataTrue
  <2>4. FetchTrue'
    BY <1>2, <1>3, <2>1 DEF OverlapInv, FetchTrue
  <2>5. \A e \in Truth(r) : Accounted(e)
    BY TruthType DEF Accounted
  <2>6. ScreenAccounted'
    BY <1>1, <1>3, <1>5, <2>1, <2>5 DEF OverlapInv, ScreenAccounted
  <2>7. ASSUME NEW m \in InFlight, mut[m].kind = "create", NEW e \in Truth(r), e.id = mut[m].id
        PROVE  e.at = mut[m].at
    <3>1. m \in Muts
      BY DEF InFlight
    <3>2. e.id \in Ids /\ e.at = server[e.id]
      BY TruthType
    <3>3. mut[m].pc \in {"asked", "saved"}
      BY DEF OverlapInv, Accepted
    <3>4. mut[m].pc # "asked"
      BY <2>7, <3>1, <3>2, TempType DEF Lists, MutLists
    <3>5. QED
      BY <2>7, <3>2, <3>3, <3>4 DEF OverlapInv, Accepted
  <2>8. Created'
    BY <1>1, <2>1, <2>7 DEF OverlapInv, Created
  <2>9. QED
    BY <1>4, <2>3, <2>4, <2>6, <2>8 DEF OverlapInv
<1>7. CASE Arrive(r)
  <2>0. fetch[r].pc = "served" /\ fetch[r].got \in SUBSET Rows
    BY <1>7 DEF Arrive, Types
  <2>1. /\ data'[r] = fetch[r].got /\ ~stale'[r] /\ fetch'[r] = NoFetch
        /\ \A s \in Ranges : s # r => data'[s] = data[s] /\ stale'[s] = stale[s] /\ fetch'[s] = fetch[s]
    BY <1>7 DEF Arrive, Types
  <2>2. Loaded' = Loaded \cup {r}
    BY <2>0, <2>1, ListLoaded DEF Loaded
  <2>3. Fetching' = Fetching \ {r}
    BY <2>1 DEF Fetching, NoFetch
  <2>4. ScreenReads' /\ ScreenLoads'
    <3>1. ScreenReads'
      BY <1>1, <2>2, <2>3 DEF OverlapInv, ScreenReads
    <3>2. ScreenLoads'
      BY <1>1, <1>5, <2>1, <2>2, <2>3 DEF OverlapInv, ScreenLoads
    <3>3. QED
      BY <3>1, <3>2
  <2>5. DataTrue'
    <3>1. ASSUME NEW s \in Loaded' PROVE stale'[s] \/ Owing(s) \/ data'[s] = Truth(s)
      <4>1. CASE s = r
        BY <2>0, <2>1, <4>1 DEF OverlapInv, FetchTrue
      <4>2. CASE s # r
        <5>1. s \in Loaded /\ s \in Ranges
          BY <2>2, <4>2 DEF Loaded
        <5>2. QED
          BY <2>1, <4>2, <5>1 DEF OverlapInv, DataTrue
      <4>3. QED
        BY <4>1, <4>2
    <3>2. QED
      BY <1>2, <1>3, <3>1 DEF DataTrue
  <2>6. FetchTrue'
    BY <1>2, <1>3, <2>1 DEF OverlapInv, FetchTrue, NoFetch
  <2>7. ScreenAccounted'
    <3>1. CASE shown = r
      BY <1>1, <1>3, <2>0, <2>1, <3>1 DEF OverlapInv, ScreenAccounted, NoFetch
    <3>2. CASE shown # r
      BY <1>1, <1>3, <1>5, <2>1, <2>2, <3>2 DEF OverlapInv, ScreenAccounted
    <3>3. QED
      BY <3>1, <3>2
  <2>8. Created'
    <3>1. ASSUME NEW m \in InFlight, mut[m].kind = "create", NEW s \in Loaded', NEW e \in data'[s],
                 e.id \in {Temp(m), mut[m].id}
          PROVE  e.at = mut[m].at
      <4>1. CASE s = r
        <5>1. e \in fetch[r].got /\ e.id \in Ids
          BY <2>1, <3>1, <4>1 DEF Lists, FetchLists
        <5>2. m \in Muts
          BY DEF InFlight
        <5>3. e.id = mut[m].id
          BY <3>1, <5>1, <5>2, TempType
        <5>4. QED
          BY <2>0, <3>1, <5>1, <5>3 DEF OverlapInv, Created
      <4>2. CASE s # r
        <5>1. s \in Loaded /\ s \in Ranges
          BY <2>2, <4>2 DEF Loaded
        <5>2. QED
          BY <2>1, <3>1, <4>2, <5>1 DEF OverlapInv, Created
      <4>3. QED
        BY <4>1, <4>2
    <3>2. \A s \in Ranges : fetch'[s].pc = "served" => fetch'[s] = fetch[s]
      BY <2>1 DEF NoFetch
    <3>3. QED
      BY <1>1, <3>1, <3>2 DEF OverlapInv, Created
  <2>9. QED
    BY <1>4, <2>4, <2>5, <2>6, <2>7, <2>8 DEF OverlapInv
<1>8. QED
  BY <1>6, <1>7

\* The id of a mutation under way is not the placeholder of another.
LEMMA NotTemp ==
  ASSUME Types, Lists, NEW m \in Muts, NEW n \in InFlight, n # m
  PROVE  mut[n].id # Temp(m) /\ Temp(n) # Temp(m)
<1>1. n \in Muts
  BY DEF InFlight
<1>2. Temp(n) # Temp(m)
  BY <1>1, TempInj
<1>3. given \in Nat /\ given <= MaxEvents /\ MaxEvents \in Nat
  BY SetAssumption DEF Types
<1>4. \A i \in 1 .. given : i \in Ids
  BY <1>3 DEF Ids
<1>5. mut[n].id = Temp(n) \/ mut[n].id \in 1 .. given
  BY DEF Lists, MutLists
<1>6. QED
  BY <1>2, <1>4, <1>5, TempType

\* A mutation begins while the screen is settled, on an event no other is about.
LEMMA OverlapBegin ==
  ASSUME Types, Types', Lists, Overlapping, OverlapInv, NEW m \in Muts,
         NEW kind \in {"create", "remove", "move", "update"}, NEW id \in Int,
         NEW at \in Places \cup {{}}, NEW snap \in Snaps, Begin(m, kind, id, at, snap),
         CancelLoaded \/ fetch' = fetch
  PROVE  /\ Fetching = {} /\ Fetching' = {} /\ shown \in Loaded /\ ~stale[shown] /\ shown' = shown
         /\ \A n \in InFlight : mut[n].id # id /\ n # m /\ mut'[n] = mut[n] /\ n \in Muts
         /\ mut'[m].pc = "asked" /\ mut'[m].kind = kind /\ mut'[m].id = id /\ mut'[m].at = at
         /\ InFlight' = InFlight \cup {m} /\ server' = server /\ mut[m].pc = "new"
         /\ \A r : Truth(r)' = Truth(r) /\ (Owing(r) => Owing(r)')
         /\ \A r : kind # "create" \/ Meets(at, r) => Owing(r)'
         /\ \A e : Accounted(e) => Accounted(e)'
         /\ \A e : e.id = id => Accounted(e)'
         /\ FetchTrue' /\ OwnEvent'
         /\ \A r \in Ranges : fetch'[r].pc # "served"
<1>0. /\ mut' \in [Muts -> MutRec]
      /\ mut'[m].pc = "asked" /\ mut'[m].kind = kind /\ mut'[m].id = id /\ mut'[m].at = at
      /\ mut'[m].snap = snap
      /\ \A n \in Muts : n # m => mut'[n] = mut[n]
      /\ mut[m].pc = "new" /\ m \notin InFlight
      /\ InFlight' = InFlight \cup {m} /\ Muts' = Muts
      /\ UNCHANGED <<scenario, server, given, shown>>
  BY ONLY Types, m \in Muts, kind \in {"create", "remove", "move", "update"}, id \in Int,
          at \in Places \cup {{}}, snap \in Snaps, Begin(m, kind, id, at, snap), BeginStep, Zenon
<1>1. /\ mut'[m].pc = "asked" /\ mut'[m].kind = kind /\ mut'[m].id = id /\ mut'[m].at = at
      /\ \A n \in Muts : n # m => mut'[n] = mut[n]
      /\ mut[m].pc = "new" /\ m \notin InFlight /\ InFlight' = InFlight \cup {m}
      /\ UNCHANGED <<scenario, server, given, shown>>
  BY ONLY <1>0
<1>2. ~May("same") /\ ~May("paging") /\ ~May("hasty")
  BY DEF May, Overlapping, Only
<1>3. Fetching = {} /\ \A n \in InFlight : mut[n].id # id
  BY ONLY <1>2, Begin(m, kind, id, at, snap) DEF Begin
<1>4. \A r \in Ranges : fetch'[r].pc = "none"
  BY <1>3 DEF CancelLoaded, Fetching, NoFetch
<1>5. Fetching' = {}
  BY <1>4 DEF Fetching
<1>6. shown \in Loaded /\ ~stale[shown]
  BY <1>3 DEF OverlapInv, ScreenLoads
<1>7. \A n \in InFlight : mut[n].id # id /\ n # m /\ mut'[n] = mut[n] /\ n \in Muts
  BY <1>1, <1>3 DEF InFlight
<1>8. Existing' = Existing /\ \A r : Truth(r)' = Truth(r)
  BY <1>1, TruthSame
<1>9. ASSUME NEW r PROVE (Owing(r) => Owing(r)') /\ (kind # "create" \/ Meets(at, r) => Owing(r)')
  BY <1>1, <1>7 DEF Owing
<1>10. ASSUME NEW e PROVE (Accounted(e) => Accounted(e)') /\ (e.id = id => Accounted(e)')
  BY <1>1, <1>7, <1>8 DEF Accounted
<1>11. FetchTrue'
  BY <1>4 DEF FetchTrue
<1>12. OwnEvent'
  BY <1>1, <1>7 DEF OverlapInv, OwnEvent
<1>13. QED
  BY <1>1, <1>3, <1>4, <1>5, <1>6, <1>7, <1>8, <1>9, <1>10, <1>11, <1>12

\* A create begins: the lists it is written into are owed a read.
LEMMA OverlapCreate ==
  ASSUME Types, Types', Lists, Overlapping, OverlapInv, NEW m \in Muts, NEW p \in Places, Create(m, p)
  PROVE  OverlapInv'
<1> DEFINE R == {r \in Loaded : Meets(p, r)}
<1>1. Begin(m, "create", Temp(m), p, NoSnap) /\ Temp(m) \in Int /\ Temp(m) \notin Ids
  BY TempType DEF Create
<1>2. /\ data' = [r \in Ranges |-> IF r \in R THEN data[r] \cup {Event(Temp(m), p)} ELSE data[r]]
      /\ stale' = [r \in Ranges |-> stale[r] /\ r \notin R]
      /\ CancelLoaded
  BY DEF Create, Put
<1>3. /\ Fetching' = {} /\ shown \in Loaded /\ ~stale[shown] /\ shown' = shown
      /\ \A n \in InFlight : n # m /\ mut'[n] = mut[n] /\ n \in Muts
      /\ mut'[m].pc = "asked" /\ mut'[m].kind = "create" /\ mut'[m].id = Temp(m) /\ mut'[m].at = p
      /\ InFlight' = InFlight \cup {m} /\ server' = server /\ mut[m].pc = "new"
      /\ \A r : Truth(r)' = Truth(r) /\ (Owing(r) => Owing(r)')
      /\ \A r : Meets(p, r) => Owing(r)'
      /\ \A e : Accounted(e) => Accounted(e)'
      /\ FetchTrue' /\ OwnEvent'
      /\ \A r \in Ranges : fetch'[r].pc # "served"
  BY <1>1, <1>2, NoSnapType, OverlapBegin
<1>4. R \subseteq Loaded /\ Loaded \subseteq Ranges
  BY DEF Loaded
<1>5. Event(Temp(m), p).id = Temp(m) /\ Event(Temp(m), p).at = p
  BY <1>1, EventType
<1>6. Loaded' = Loaded
  <2>1. \A r \in Loaded : data[r] \cup {Event(Temp(m), p)} \in SUBSET Rows
    BY <1>1, LoadedData, EventType
  <2>2. QED
    BY <1>2, <1>4, <2>1, ListLoaded DEF Loaded
<1>7. ASSUME NEW r \in Loaded, NEW e \in data'[r]
      PROVE  e \in data[r] \/ (e = Event(Temp(m), p) /\ Meets(p, r))
  BY <1>2, <1>4, <1>7
<1>8. ScreenReads' /\ ScreenLoads'
  <2>1. ~stale'[shown]
    BY <1>2, <1>3, <1>4
  <2>2. QED
    BY <1>3, <1>6, <2>1 DEF ScreenReads, ScreenLoads
<1>9. DataTrue'
  <2>1. ASSUME NEW r \in Loaded PROVE stale'[r] \/ Owing(r)' \/ data'[r] = Truth(r)
    <3>1. CASE Meets(p, r)
      BY <1>3, <3>1
    <3>2. CASE ~Meets(p, r)
      <4>1. data'[r] = data[r] /\ stale'[r] = stale[r]
        BY <1>2, <1>4, <3>2 DEF Types
      <4>2. QED
        BY <1>3, <4>1 DEF OverlapInv, DataTrue
    <3>3. QED
      BY <3>1, <3>2
  <2>2. QED
    BY <1>3, <1>6, <2>1 DEF DataTrue
<1>10. ScreenAccounted'
  <2>1. ASSUME NEW e \in data'[shown] PROVE Accounted(e)'
    <3>1. CASE e \in data[shown]
      BY <1>3, <3>1 DEF OverlapInv, ScreenAccounted
    <3>2. CASE e = Event(Temp(m), p)
      BY <1>1, <1>5, <3>2 DEF Accounted
    <3>3. QED
      BY <1>3, <1>7, <2>1, <3>1, <3>2
  <2>2. fetch'[shown].pc # "served"
    BY <1>3, <1>4
  <2>3. QED
    BY <1>3, <2>1, <2>2 DEF ScreenAccounted
<1>11. Accepted'
  BY <1>3 DEF OverlapInv, Accepted, Existing
<1>12. Created'
  <2>1. ASSUME NEW n \in InFlight', mut'[n].kind = "create", NEW r \in Loaded, NEW e \in data'[r],
               e.id \in {Temp(n), mut'[n].id}
        PROVE  e.at = mut'[n].at
    <3>1. CASE n = m
      <4>1. e.id = Temp(m)
        BY <1>3, <2>1, <3>1
      <4>2. e \notin data[r]
        <5>1. ASSUME e \in data[r] PROVE FALSE
          <6>1. Known(e)
            BY <5>1 DEF Lists, DataLists, Fits
          <6>2. given \in Nat /\ given <= MaxEvents /\ MaxEvents \in Nat
            BY SetAssumption DEF Types
          <6>3. \A i \in 1 .. given : i \in Ids
            BY <6>2 DEF Ids
          <6>4. PICK k \in Muts : Temp(k) = Temp(m) /\ mut[k].pc # "new"
            BY <1>1, <4>1, <6>1, <6>3 DEF Known
          <6>5. k = m
            BY <6>4, TempInj
          <6>6. QED
            BY <1>3, <6>4, <6>5
        <5>2. QED
          BY <5>1
      <4>3. QED
        BY <1>3, <1>5, <1>7, <2>1, <3>1, <4>2
    <3>2. CASE n # m
      <4>1. n \in InFlight /\ mut'[n] = mut[n]
        BY <1>3, <3>2
      <4>2. e.id # Temp(m)
        BY <2>1, <3>2, <4>1, NotTemp
      <4>3. e \in data[r]
        BY <1>5, <1>7, <2>1, <4>2
      <4>4. QED
        BY <2>1, <4>1, <4>3 DEF OverlapInv, Created
    <3>3. QED
      BY <3>1, <3>2
  <2>2. QED
    BY <1>3, <1>6, <2>1 DEF Created
<1>13. QED
  BY <1>3, <1>8, <1>9, <1>10, <1>11, <1>12 DEF OverlapInv

\* A removal, a move or an edit: every list will be read again when it is saved.
LEMMA OverlapEdit ==
  ASSUME Types, Types', Lists, Overlapping, OverlapInv, NEW m \in Muts, NEW e \in OnScreen,
         NEW kind \in {"remove", "move", "update"}, NEW p \in Places \cup {{}}, NEW snap \in Snaps,
         Begin(m, kind, e.id, p, snap), CancelLoaded \/ fetch' = fetch,
         \A r \in Loaded : data'[r] \in SUBSET Rows /\ (stale'[r] => stale[r]),
         \A r \in Ranges \ Loaded : data'[r] = data[r],
         \A r \in Loaded : \A f \in data'[r] : f \in data[r] \/ f.id = e.id
  PROVE  OverlapInv'
<1>1. e.id \in Int /\ e.id \in Ids /\ e \in data[shown]
  BY OnScreenType
<1>2. /\ Fetching' = {} /\ shown \in Loaded /\ ~stale[shown] /\ shown' = shown
      /\ \A n \in InFlight : mut[n].id # e.id /\ n # m /\ mut'[n] = mut[n] /\ n \in Muts
      /\ mut'[m].pc = "asked" /\ mut'[m].kind = kind /\ mut'[m].id = e.id
      /\ InFlight' = InFlight \cup {m} /\ server' = server
      /\ \A r : Owing(r)'
      /\ \A f : Accounted(f) => Accounted(f)'
      /\ \A f : f.id = e.id => Accounted(f)'
      /\ FetchTrue' /\ OwnEvent'
      /\ \A r \in Ranges : fetch'[r].pc # "served"
  <2>1. kind \in {"create", "remove", "move", "update"} /\ kind # "create"
    OBVIOUS
  <2>2. PICK i \in Int : i = e.id
    BY <1>1
  <2>3. Begin(m, kind, i, p, snap)
    BY <2>2
  <2>4. QED
    BY <2>1, <2>2, <2>3, OverlapBegin
<1>3. Loaded' = Loaded
  BY ListLoaded DEF Loaded
<1>4. ScreenReads' /\ ScreenLoads' /\ DataTrue'
  BY <1>2, <1>3 DEF ScreenReads, ScreenLoads, DataTrue
<1>5. ScreenAccounted'
  <2>1. \A f \in data'[shown] : Accounted(f)'
    BY <1>2 DEF OverlapInv, ScreenAccounted
  <2>2. fetch'[shown].pc # "served"
    BY <1>2 DEF Loaded
  <2>3. QED
    BY <1>2, <2>1, <2>2 DEF ScreenAccounted
<1>6. Accepted'
  <2>1. e.id \in Existing
    BY <1>1, <1>2 DEF OverlapInv, ScreenAccounted, Accounted
  <2>2. Existing' = Existing
    BY <1>2, TruthSame
  <2>3. QED
    BY <1>2, <2>1, <2>2 DEF OverlapInv, Accepted
<1>7. Created'
  <2>1. ASSUME NEW n \in InFlight', mut'[n].kind = "create", NEW r \in Loaded, NEW f \in data'[r],
               f.id \in {Temp(n), mut'[n].id}
        PROVE  f.at = mut'[n].at
    <3>1. n \in InFlight /\ mut'[n] = mut[n] /\ mut[n].id # e.id /\ n \in Muts
      BY <1>2, <2>1
    <3>2. f.id # e.id
      BY <1>1, <2>1, <3>1, TempType
    <3>3. f \in data[r]
      BY <2>1, <3>2
    <3>4. QED
      BY <2>1, <3>1, <3>3 DEF OverlapInv, Created
  <2>2. QED
    BY <1>2, <1>3, <2>1 DEF Created
<1>8. QED
  BY <1>2, <1>4, <1>5, <1>6, <1>7 DEF OverlapInv

\* A removal, a move or an edit begins.
LEMMA OverlapEdits ==
  ASSUME Types, Types', Lists, Overlapping, OverlapInv, NEW m \in Muts, NEW e \in OnScreen,
         NEW p \in Places \cup {{}}, Remove(m, e) \/ (p \in Places /\ Move(m, e, p)) \/ Update(m, e, p)
  PROVE  OverlapInv'
<1>1. Loaded \subseteq Ranges /\ \A r \in Loaded : data[r] \in SUBSET Rows
  BY LoadedData DEF Loaded
<1>2. CASE Remove(m, e)
  <2>1. Begin(m, "remove", e.id, {}, NoSnap)
    BY <1>2 DEF Remove
  <2>2. /\ data' = [r \in Ranges |-> IF r \in Loaded THEN {f \in data[r] : f.id # e.id} ELSE data[r]]
        /\ stale' = [r \in Ranges |-> stale[r] /\ r \notin Loaded]
        /\ CancelLoaded
    BY <1>2 DEF Remove, Put
  <2>3. /\ \A r \in Loaded : data'[r] \in SUBSET Rows /\ (stale'[r] => stale[r])
        /\ \A r \in Ranges \ Loaded : data'[r] = data[r]
        /\ \A r \in Loaded : \A f \in data'[r] : f \in data[r] \/ f.id = e.id
    BY <1>1, <2>2
  <2>4. QED
    BY <2>1, <2>2, <2>3, NoSnapType, OverlapEdit
<1>3. CASE p \in Places /\ Move(m, e, p)
  <2>0. e.id \in Int
    BY OnScreenType
  <2>1. PICK snap \in Snaps : snap = Snapshot(Loaded)
    BY SnapshotType
  <2>2. Begin(m, "move", e.id, p, snap)
    BY <1>3, <2>1 DEF Move
  <2>3. /\ data' = [r \in Ranges |-> IF r \in Loaded
                      THEN {f \in data[r] : f.id # e.id} \cup (IF Meets(p, r) THEN {Event(e.id, p)} ELSE {})
                      ELSE data[r]]
        /\ stale' = [r \in Ranges |-> stale[r] /\ r \notin Loaded]
        /\ CancelLoaded
    BY <1>3 DEF Move, Put
  <2>4. Event(e.id, p) \in Rows /\ Event(e.id, p).id = e.id
    BY <1>3, <2>0, EventType
  <2>5. /\ \A r \in Loaded : data'[r] \in SUBSET Rows /\ (stale'[r] => stale[r])
        /\ \A r \in Ranges \ Loaded : data'[r] = data[r]
        /\ \A r \in Loaded : \A f \in data'[r] : f \in data[r] \/ f.id = e.id
    BY <1>1, <2>3, <2>4
  <2>6. QED
    BY <2>2, <2>3, <2>5, OverlapEdit
<1>4. CASE Update(m, e, p)
  <2>1. Begin(m, "update", e.id, p, NoSnap) /\ UNCHANGED <<data, stale, fetch>>
    BY <1>4 DEF Update
  <2>2. QED
    BY <1>1, <2>1, NoSnapType, OverlapEdit
<1>5. QED
  BY <1>2, <1>3, <1>4

\* The server carries a mutation out: only lists that are owed a read are no longer true.
LEMMA OverlapApply ==
  ASSUME Types, Types', Lists, Overlapping, OverlapInv, NEW m \in Muts, Apply(m)
  PROVE  OverlapInv'
<1>1. /\ mut[m].pc = "asked" /\ m \in InFlight /\ InFlight' = InFlight
      /\ UNCHANGED <<scenario, data, stale, fetch, shown, ref>>
      /\ mut'[m].pc \in Outcomes /\ mut'[m].kind = mut[m].kind /\ mut'[m].at = mut[m].at
      /\ \A n \in Muts : n # m => mut'[n] = mut[n]
      /\ mut'[m].id \in Ids /\ server' = [server EXCEPT ![mut'[m].id] = mut[m].at]
      /\ IF mut[m].kind = "create"
         THEN given' = given + 1 /\ mut'[m].id = given + 1
         ELSE given' = given /\ mut'[m].id = mut[m].id /\ mut[m].id \in Existing
  BY ApplyStep
<1>2. mut'[m].pc = "saved"
  BY <1>1 DEF Outcomes, May, Overlapping, Only
<1>3. PICK i \in Ids : i = mut'[m].id
  BY <1>1
<1>4. server' = [server EXCEPT ![i] = mut[m].at] /\ server'[i] = mut[m].at
      /\ \A j \in Ids : j # i => server'[j] = server[j]
  BY <1>1, <1>3 DEF Types
<1>5. given \in Nat /\ given <= MaxEvents /\ MaxEvents \in Nat /\ i \in Int
  BY <1>3, SetAssumption DEF Types, Ids
<1>6. \A n \in InFlight : n \in Muts /\ (n # m => mut'[n] = mut[n])
  BY <1>1 DEF InFlight
<1>7. mut[m].kind = "create" => mut[m].id = Temp(m) /\ mut[m].id \notin Ids /\ i = given + 1 /\ server[i] = {}
  <2>1. ASSUME mut[m].kind = "create" PROVE i = given + 1 /\ i > given
    BY <1>1, <1>3, <1>5, <2>1
  <2>2. mut[m].kind = "create" => mut[m].id = Temp(m)
    BY <1>1 DEF Lists, MutLists
  <2>3. QED
    BY <2>1, <2>2, TempType DEF Types
<1>8. ASSUME NEW n \in InFlight, n # m PROVE mut[n].id # i
  <2>1. CASE mut[m].kind = "create"
    <3>1. mut[n].id \in 1 .. given \/ mut[n].id = Temp(n)
      BY DEF Lists, MutLists
    <3>2. QED
      BY <1>5, <1>6, <1>7, <2>1, <3>1, TempType
  <2>2. CASE mut[m].kind # "create"
    BY <1>1, <1>3, <1>8, <2>2 DEF OverlapInv, OwnEvent
  <2>3. QED
    BY <2>1, <2>2
<1>9. OwnEvent'
  BY <1>1, <1>3, <1>6, <1>8 DEF OverlapInv, OwnEvent
<1>10. \A r : Owing(r)' = Owing(r)
  BY <1>1, <1>6 DEF Owing
<1>11. ASSUME NEW r \in Ranges, ~Owing(r) PROVE Truth(r)' = Truth(r)
  <2>1. mut[m].kind = "create" /\ ~Meets(mut[m].at, r)
    BY <1>1, <1>11 DEF Owing
  <2>2. ~Meets(server[i], r) /\ ~Meets(server'[i], r)
    BY <1>4, <1>7, <2>1 DEF Meets
  <2>3. \A j \in Ids : (server'[j] # {} /\ Meets(server'[j], r)) <=> (server[j] # {} /\ Meets(server[j], r))
    BY <1>4, <2>2
  <2>4. \A j \in Ids : Meets(server[j], r) => server'[j] = server[j]
    BY <1>4, <2>2
  <2>5. {j \in Existing' : Meets(server'[j], r)} = {j \in Existing : Meets(server[j], r)}
    BY <2>3 DEF Existing
  <2>6. \A j \in {k \in Existing : Meets(server[k], r)} : Event(j, server'[j]) = Event(j, server[j])
    BY <2>4 DEF Existing
  <2>7. Truth(r)' = {Event(j, server'[j]) : j \in {k \in Existing' : Meets(server'[k], r)}}
    BY DEF Truth
  <2>8. Truth(r) = {Event(j, server[j]) : j \in {k \in Existing : Meets(server[k], r)}}
    BY DEF Truth
  <2>9. QED
    BY <2>5, <2>6, <2>7, <2>8
<1>12. \A j \in Existing : j = i \/ j \in Existing'
  BY <1>4 DEF Existing
<1>13. ASSUME NEW e, Accounted(e) PROVE Accounted(e)'
  <2>1. CASE e.id = i
    BY <1>1, <1>3, <2>1 DEF Accounted
  <2>2. CASE e.id # i /\ e.id \in Ids
    <3>1. ASSUME NEW n \in InFlight, mut[n].id = e.id PROVE mut'[n].id = e.id
      <4>1. CASE n = m
        BY <1>1, <1>7, <2>2, <3>1, <4>1
      <4>2. CASE n # m
        BY <1>6, <3>1, <4>2
      <4>3. QED
        BY <4>1, <4>2
    <3>2. QED
      BY <1>1, <1>12, <1>13, <2>2, <3>1 DEF Accounted
  <2>3. CASE e.id \notin Ids
    BY <2>3 DEF Accounted
  <2>4. QED
    BY <2>1, <2>2, <2>3
<1>14. ScreenReads' /\ ScreenLoads'
  BY <1>1 DEF OverlapInv, ScreenReads, ScreenLoads, Loaded, Fetching
<1>15. DataTrue' /\ FetchTrue'
  BY <1>1, <1>10, <1>11 DEF OverlapInv, DataTrue, FetchTrue, Loaded
<1>16. ScreenAccounted'
  BY <1>1, <1>13 DEF OverlapInv, ScreenAccounted, Loaded
<1>17. Accepted'
  <2>1. ASSUME NEW n \in InFlight, n # m
        PROVE  /\ mut'[n].pc \in {"asked", "saved"}
               /\ mut'[n].kind # "create" /\ mut'[n].pc = "asked" => mut'[n].id \in Existing'
               /\ mut'[n].kind = "create" /\ mut'[n].pc = "saved" => server'[mut'[n].id] = mut'[n].at
    <3>1. mut'[n] = mut[n] /\ mut[n].id # i
      BY <1>6, <1>8, <2>1
    <3>2. mut[n].pc = "saved" => mut[n].id \in Ids
      <4>1. mut[n].pc = "saved" => mut[n].id \in 1 .. given
        BY DEF Lists, MutLists
      <4>2. QED
        BY <1>5, <4>1 DEF Ids
    <3>3. QED
      BY <1>4, <1>12, <3>1, <3>2 DEF OverlapInv, Accepted
  <2>2. QED
    BY <1>1, <1>2, <1>3, <1>4, <2>1 DEF Accepted
<1>18. Created'
  <2>1. ASSUME NEW e, Known(e), mut[m].kind = "create" PROVE e.id # i
    <3>1. e.id \in 1 .. given \/ \E k \in Muts : e.id = Temp(k)
      BY <2>1 DEF Known
    <3>2. QED
      BY <1>5, <1>7, <2>1, <3>1, TempType
  <2>2. ASSUME mut[m].kind = "create", NEW r \in Loaded, NEW e \in data[r], e.id \in {Temp(m), i}
        PROVE  e.at = mut[m].at
    <3>1. Known(e)
      BY DEF Lists, DataLists, Fits
    <3>2. e.id = Temp(m)
      BY <2>1, <2>2, <3>1
    <3>3. QED
      BY <1>1, <2>2, <3>2 DEF OverlapInv, Created
  <2>3. ASSUME mut[m].kind = "create", NEW r \in Ranges, NEW e \in fetch[r].got PROVE e.id # i
    <3>1. Known(e)
      BY DEF Lists, FetchLists, Fits
    <3>2. QED
      BY <2>1, <2>3, <3>1
  <2>4. Loaded' = Loaded
    BY <1>1 DEF Loaded
  <2>5. ASSUME NEW n \in InFlight, mut'[n].kind = "create"
        PROVE  /\ \A r \in Loaded : \A e \in data[r] : e.id \in {Temp(n), mut'[n].id} => e.at = mut'[n].at
               /\ \A r \in Ranges : fetch[r].pc = "served" =>
                    \A e \in fetch[r].got : e.id = mut'[n].id => e.at = mut'[n].at
    <3>1. CASE n = m
      BY <1>1, <1>3, <2>2, <2>3, <2>5, <3>1
    <3>2. CASE n # m
      <4>1. mut'[n] = mut[n]
        BY <1>6, <3>2
      <4>2. QED
        BY <2>5, <4>1 DEF OverlapInv, Created
    <3>3. QED
      BY <3>1, <3>2
  <2>6. QED
    BY <1>1, <2>4, <2>5 DEF Created
<1>19. QED
  BY <1>9, <1>14, <1>15, <1>16, <1>17, <1>18 DEF OverlapInv

\* Nobody is refused, and so nothing fails.
LEMMA OverlapFails ==
  ASSUME Types, Lists, Overlapping, OverlapInv, NEW m \in Muts, Refuse(m) \/ Failed(m)
  PROVE  FALSE
<1>1. m \in InFlight
  BY DEF Refuse, Failed, InFlight
<1>2. ~May("refuse")
  BY DEF May, Overlapping, Only
<1>3. QED
  BY <1>1, <1>2 DEF Refuse, Failed, OverlapInv, Accepted

\* An answer arrives: what it may have changed is stale, and the screen is read again.
LEMMA OverlapSaved ==
  ASSUME Types, Types', Lists, Overlapping, OverlapInv, NEW m \in Muts, Saved(m)
  PROVE  OverlapInv'
<1>1. /\ mut[m].pc = "saved" /\ UNCHANGED <<server, shown>>
      /\ \A n \in Muts : n # m => mut'[n] = mut[n]
      /\ InFlight' = InFlight \ {m} /\ m \in InFlight
  BY SavedStep
<1>2. \A n \in InFlight' : n \in InFlight /\ n # m /\ n \in Muts /\ mut'[n] = mut[n]
  BY <1>1 DEF InFlight
<1>3. Existing' = Existing /\ \A r : Truth(r)' = Truth(r)
  BY <1>1, TruthSame
<1>4. shown \in Loaded /\ shown \in Ranges /\ \A r \in Ranges : r # shown => fetch[r].pc = "none"
  BY <1>1 DEF OverlapInv, ScreenReads, Loaded, Fetching
<1>5. OwnEvent' /\ Accepted'
  BY <1>1, <1>2, <1>3 DEF OverlapInv, OwnEvent, Accepted
<1>6. CASE mut[m].kind # "create"
  <2>1. data' = data /\ stale' = [r \in Ranges |-> TRUE] /\ Refetch(Ranges)
    BY <1>6 DEF Saved, InvalidateAll
  <2>2. fetch'[shown] = Asked /\ \A r \in Ranges : r # shown => fetch'[r] = fetch[r]
    BY <1>4, <2>1 DEF Refetch
  <2>3. Loaded' = Loaded
    BY <2>1 DEF Loaded
  <2>4. fetch'[shown].pc = "asked" /\ \A r \in Ranges : fetch'[r].pc # "served"
    BY <1>4, <2>2 DEF Asked
  <2>5. ScreenReads' /\ ScreenLoads'
    BY <1>1, <1>4, <2>2, <2>3, <2>4 DEF ScreenReads, ScreenLoads, Fetching
  <2>6. DataTrue' /\ FetchTrue' /\ ScreenAccounted'
    BY <1>1, <1>4, <2>1, <2>3, <2>4 DEF DataTrue, FetchTrue, ScreenAccounted, Loaded
  <2>7. Created'
    BY <1>2, <2>1, <2>3, <2>4 DEF OverlapInv, Created
  <2>8. QED
    BY <1>5, <2>5, <2>6, <2>7 DEF OverlapInv
<1>7. CASE mut[m].kind = "create"
  <2> DEFINE saved == Event(mut[m].id, mut[m].at)
             Others(r) == {e \in data[r] : e.id \notin {Temp(m), saved.id}}
             R == {r \in Loaded : Meets(saved.at, r) \/ Others(r) # data[r]}
             S == {r \in Ranges : Meets(saved.at, r)}
  <2>1. /\ data' = [r \in Ranges |->
            IF r \in R THEN Others(r) \cup (IF r \in S THEN {saved} ELSE {}) ELSE data[r]]
        /\ stale' = [r \in Ranges |-> (stale[r] /\ r \notin R) \/ r \in S]
        /\ Refetch(S)
    BY <1>7 DEF Saved, Commit
  <2>2. /\ saved \in Rows /\ saved.id = mut[m].id /\ saved.at = mut[m].at /\ mut[m].at \in Places
        /\ mut[m].id \in 1 .. given
    BY <1>1, <1>7, MutFields, EventType DEF Lists, MutLists
  <2>3. mut[m].id \in Ids /\ mut[m].id \in Existing
    <3>1. given \in Nat /\ given <= MaxEvents /\ MaxEvents \in Nat
      BY SetAssumption DEF Types
    <3>2. mut[m].id \in Ids
      BY <2>2, <3>1 DEF Ids
    <3>3. server[mut[m].id] # {}
      BY <1>1, <1>7, <2>2, SetAssumption DEF OverlapInv, Accepted
    <3>4. QED
      BY <3>2, <3>3 DEF Existing
  <2>4. ASSUME NEW r \in Loaded, ~Meets(mut[m].at, r) PROVE Others(r) = data[r]
    <3>1. ASSUME NEW e \in data[r] PROVE e.id \notin {Temp(m), mut[m].id}
      <4>1. Meets(e.at, r)
        BY DEF Lists, DataLists, Fits
      <4>2. QED
        BY <1>1, <1>7, <2>4, <4>1 DEF OverlapInv, Created
    <3>2. QED
      BY <2>2, <3>1
  <2>5. ASSUME NEW r \in Ranges, ~Meets(mut[m].at, r)
        PROVE  data'[r] = data[r] /\ stale'[r] = stale[r] /\ r \notin S
    <3>1. r \notin R /\ r \notin S
      BY <2>2, <2>4, <2>5
    <3>2. stale[r] \in BOOLEAN
      BY DEF Types
    <3>3. QED
      BY <2>1, <3>1, <3>2
  <2>6. ASSUME NEW r \in Ranges, Meets(mut[m].at, r) PROVE stale'[r] /\ r \in S
    BY <2>1, <2>2, <2>6
  <2>7. Loaded' = Loaded
    <3>1. ASSUME NEW r \in Loaded PROVE data'[r] \in SUBSET Rows
      <4>1. r \in Ranges /\ data[r] \in SUBSET Rows
        BY LoadedData
      <4>2. QED
        BY <2>1, <2>2, <4>1
    <3>2. ASSUME NEW r \in Ranges, r \notin Loaded PROVE data'[r] = data[r]
      BY <2>1, <3>2
    <3>3. QED
      BY <3>1, <3>2, ListLoaded DEF Loaded
  <2>8. ASSUME NEW r \in Ranges
        PROVE  \/ fetch'[r] = fetch[r] /\ (r # shown \/ ~Meets(mut[m].at, r))
               \/ r = shown /\ fetch'[r] = Asked
    <3>1. CASE r = shown /\ Meets(mut[m].at, r)
      BY <1>4, <2>1, <2>6, <3>1 DEF Refetch
    <3>2. CASE r # shown \/ ~Meets(mut[m].at, r)
      BY <2>1, <2>5, <3>2 DEF Refetch
    <3>3. QED
      BY <3>1, <3>2
  <2>9. ASSUME NEW r \in Ranges, fetch'[r].pc = "served"
        PROVE  r = shown /\ fetch'[r] = fetch[r] /\ ~Meets(mut[m].at, r)
    BY <1>4, <2>8, <2>9 DEF Asked
  <2>10. ASSUME NEW r, Owing(r), ~Meets(mut[m].at, r) PROVE Owing(r)'
    BY <1>1, <1>2, <1>7, <2>10 DEF Owing, InFlight
  <2>11. ASSUME NEW e, Accounted(e) PROVE Accounted(e)'
    BY <1>1, <1>2, <1>3, <2>3, <2>11 DEF Accounted, InFlight
  <2>12. ScreenReads' /\ ScreenLoads'
    <3>1. \A r \in Ranges : r # shown => fetch'[r].pc = "none"
      BY <1>4, <2>8
    <3>2. fetch'[shown].pc = "asked" \/ (fetch'[shown] = fetch[shown] /\ stale'[shown] = stale[shown])
      BY <1>4, <2>5, <2>8 DEF Asked
    <3>3. QED
      BY <1>1, <1>4, <2>7, <3>1, <3>2 DEF OverlapInv, ScreenReads, ScreenLoads, Fetching
  <2>13. DataTrue'
    <3>1. ASSUME NEW r \in Loaded PROVE stale'[r] \/ Owing(r)' \/ data'[r] = Truth(r)
      <4>1. r \in Ranges
        BY DEF Loaded
      <4>2. CASE Meets(mut[m].at, r)
        BY <2>6, <4>1, <4>2
      <4>3. CASE ~Meets(mut[m].at, r)
        BY <2>5, <2>10, <4>1, <4>3 DEF OverlapInv, DataTrue
      <4>4. QED
        BY <4>2, <4>3
    <3>2. QED
      BY <1>3, <2>7, <3>1 DEF DataTrue
  <2>14. FetchTrue'
    BY <1>3, <2>9, <2>10 DEF OverlapInv, FetchTrue
  <2>15. ScreenAccounted'
    <3>1. ASSUME ~stale'[shown], NEW e \in data'[shown] PROVE Accounted(e)'
      <4>1. ~Meets(mut[m].at, shown)
        BY <1>4, <2>6, <3>1
      <4>2. data'[shown] = data[shown] /\ ~stale[shown]
        BY <1>4, <2>5, <3>1, <4>1
      <4>3. QED
        BY <1>4, <2>11, <3>1, <4>2 DEF OverlapInv, ScreenAccounted
    <3>2. ASSUME fetch'[shown].pc = "served", NEW e \in fetch'[shown].got PROVE Accounted(e)'
      <4>1. fetch'[shown] = fetch[shown]
        BY <1>4, <2>9, <3>2
      <4>2. QED
        BY <2>11, <3>2, <4>1 DEF OverlapInv, ScreenAccounted
    <3>3. QED
      BY <1>1, <3>1, <3>2 DEF ScreenAccounted
  <2>16. Created'
    <3>1. ASSUME NEW n \in InFlight', mut'[n].kind = "create", NEW r \in Loaded, NEW e \in data'[r],
                 e.id \in {Temp(n), mut'[n].id}
          PROVE  e.at = mut'[n].at
      <4>1. n \in InFlight /\ n # m /\ n \in Muts /\ mut'[n] = mut[n]
        BY <1>2
      <4>2. saved.id # mut[n].id /\ saved.id # Temp(n)
        BY <1>1, <2>2, <2>3, <4>1, TempType DEF OverlapInv, OwnEvent
      <4>3. e \in data[r] \/ e = saved
        BY <2>1, LoadedData
      <4>4. QED
        BY <3>1, <4>1, <4>2, <4>3 DEF OverlapInv, Created
    <3>2. ASSUME NEW n \in InFlight', mut'[n].kind = "create", NEW r \in Ranges, fetch'[r].pc = "served",
                 NEW e \in fetch'[r].got, e.id = mut'[n].id
          PROVE  e.at = mut'[n].at
      <4>1. n \in InFlight /\ mut'[n] = mut[n]
        BY <1>2
      <4>2. fetch'[r] = fetch[r]
        BY <2>9, <3>2
      <4>3. QED
        BY <3>2, <4>1, <4>2 DEF OverlapInv, Created
    <3>3. QED
      BY <2>7, <3>1, <3>2 DEF Created
  <2>17. QED
    BY <1>5, <2>12, <2>13, <2>14, <2>15, <2>16 DEF OverlapInv
<1>8. QED
  BY <1>6, <1>7

-----------------------------------------------------------------------------
(* The invariant *)

\* At the start nothing is loaded and the screen is being read.
LEMMA IInvInit ==
  ASSUME Init
  PROVE  IInv
<1>1. /\ scenario \in Scenarios /\ scenario.stored \in 0 .. MaxEvents /\ given \in 0 .. scenario.stored
      /\ MaxEvents \in Nat
  BY SetAssumption DEF Init
<1>2. given \in 0 .. MaxEvents /\ given \in Nat
  BY <1>1
<1>3. mut = [m \in Muts |-> NewMut] /\ NewMut.pc = "new" /\ NewMut.snap = NoSnap
  BY DEF Init, NewMut
<1>4. InFlight = {} /\ Owed = {}
  BY <1>3 DEF InFlight, Owed
<1>5. given + Cardinality(Owed) <= MaxEvents
  BY <1>1, <1>2, <1>4, FS_EmptySet
<1>6. PICK at \in [1 .. given -> Places] : server = [i \in Ids |-> IF i <= given THEN at[i] ELSE {}]
  BY DEF Init
<1>7. server \in [Ids -> Places \cup {{}}] /\ \A i \in Ids : i > given => server[i] = {}
  <2>1. ASSUME NEW i \in Ids PROVE /\ server[i] \in Places \cup {{}}
                                   /\ i > given => server[i] = {}
    <3>1. i \in Int /\ i >= 1
      BY <1>1 DEF Ids
    <3>2. CASE i <= given
      BY <1>2, <1>6, <3>1, <3>2
    <3>3. CASE ~(i <= given)
      BY <1>2, <1>6, <3>1, <3>3
    <3>4. QED
      BY <3>2, <3>3
  <2>2. QED
    BY <1>6, <2>1
<1>8. /\ data = [r \in Ranges |-> Unloaded] /\ stale = [r \in Ranges |-> FALSE] /\ shown \in Ranges
      /\ fetch = [r \in Ranges |-> IF r = shown THEN Asked ELSE NoFetch]
      /\ ref = [k \in {"create", "remove"} |-> NoSnap]
  BY DEF Init
<1>9. NewMut \in MutRec
  BY NoSnapType DEF NewMut, MutRec
<1>10. fetch \in [Ranges -> [pc : {"none", "asked", "served"}, got : SUBSET Rows]]
  BY <1>8 DEF Asked, NoFetch
<1>11. Types
  BY <1>1, <1>2, <1>3, <1>5, <1>7, <1>8, <1>9, <1>10, NoSnapType DEF Types
<1>12. Loaded = {} /\ \A r \in Ranges : fetch[r].got = {} /\ fetch[r].pc # "served"
  BY <1>8 DEF Loaded, Asked, NoFetch
<1>13. fetch[shown].pc = "asked"
  BY <1>8 DEF Asked
<1>14. Lists
  <2>1. SnapLists
    BY <1>3, <1>8, NoSnapType DEF SnapLists
  <2>2. QED
    BY <1>4, <1>12, <2>1 DEF Lists, DataLists, FetchLists, MutLists
<1>15. SerialInv
  BY <1>4, <1>12 DEF SerialInv, OneMutation, NothingRead, Placeholders, CleanSnaps, Kept
<1>16. OverlapInv
  <2>1. ScreenReads /\ DataTrue /\ FetchTrue /\ OwnEvent /\ Accepted /\ Created
    BY <1>4, <1>12 DEF ScreenReads, DataTrue, FetchTrue, OwnEvent, Accepted, Created
  <2>2. ScreenLoads /\ ScreenAccounted
    BY <1>8, <1>12, <1>13 DEF ScreenLoads, ScreenAccounted, Fetching
  <2>3. QED
    BY <2>1, <2>2 DEF OverlapInv
<1>17. QED
  BY <1>11, <1>14, <1>15, <1>16 DEF IInv

\* The types and the lists, under every step.
LEMMA TypesStep ==
  ASSUME Types, Lists, Next
  PROVE  Types' /\ Lists'
<1>1. CASE User
  <2>1. ASSUME NEW r \in Ranges, Prefetch(r) \/ Show(r) PROVE Types' /\ Lists'
    <3>1. Types'
      BY <2>1, TypesPrefetch, TypesShow
    <3>2. QED
      BY <2>1, <3>1, ListsReading
  <2>2. ASSUME NEW m \in Muts, NEW p \in Places, given + Cardinality(InFlight) < MaxEvents, Create(m, p)
        PROVE  Types' /\ Lists'
    BY <2>2, TypesCreate, ListsCreate
  <2>3. ASSUME NEW m \in Muts, NEW e \in OnScreen, Remove(m, e) PROVE Types' /\ Lists'
    BY <2>3, TypesRemove, ListsRemove
  <2>4. ASSUME NEW m \in Muts, NEW e \in OnScreen, NEW p \in Places, Move(m, e, p) PROVE Types' /\ Lists'
    BY <2>4, TypesMove, ListsMove
  <2>5. ASSUME NEW m \in Muts, NEW e \in OnScreen, NEW p \in Places \cup {{}}, Update(m, e, p)
        PROVE  Types' /\ Lists'
    BY <2>5, TypesUpdate, ListsUpdate
  <2>6. QED
    BY <1>1, <2>1, <2>2, <2>3, <2>4, <2>5 DEF User
<1>2. CASE Network
  <2>1. ASSUME NEW r \in Ranges, Serve(r) \/ Arrive(r) PROVE Types' /\ Lists'
    <3>1. Types'
      BY <2>1, TypesServe, TypesArrive
    <3>2. QED
      BY <2>1, <3>1, ListsReading
  <2>2. ASSUME NEW m \in Muts, Apply(m) PROVE Types' /\ Lists'
    BY <2>2, TypesApply, ListsApply
  <2>3. ASSUME NEW m \in Muts, Refuse(m) PROVE Types' /\ Lists'
    BY <2>3, TypesRefuse, ListsRefuse
  <2>4. ASSUME NEW m \in Muts, Saved(m) PROVE Types' /\ Lists'
    BY <2>4, TypesSaved, ListsSaved
  <2>5. ASSUME NEW m \in Muts, Failed(m) PROVE Types' /\ Lists'
    BY <2>5, TypesFailed, ListsFailed
  <2>6. QED
    BY <1>2, <2>1, <2>2, <2>3, <2>4, <2>5 DEF Network
<1>3. QED
  BY <1>1, <1>2 DEF Next

\* Mutations that follow one another, under every step.
LEMMA SerialStep ==
  ASSUME Types, Lists, Serial, SerialInv, Next
  PROVE  SerialInv'
<1>1. CASE User
  <2>1. ASSUME NEW r \in Ranges, Prefetch(r) \/ Show(r) PROVE SerialInv'
    BY <2>1, SerialPaging
  <2>2. ASSUME NEW m \in Muts, NEW p \in Places, Create(m, p) PROVE SerialInv'
    BY <2>2, SerialCreate
  <2>3. ASSUME NEW m \in Muts, NEW e \in OnScreen, Remove(m, e) PROVE SerialInv'
    BY <2>3, SerialRemove
  <2>4. ASSUME NEW m \in Muts, NEW e \in OnScreen, NEW p \in Places, Move(m, e, p) PROVE SerialInv'
    BY <2>4, SerialMove
  <2>5. ASSUME NEW m \in Muts, NEW e \in OnScreen, NEW p \in Places \cup {{}}, Update(m, e, p)
        PROVE  SerialInv'
    BY <2>5, SerialUpdate
  <2>6. QED
    BY <1>1, <2>1, <2>2, <2>3, <2>4, <2>5 DEF User
<1>2. CASE Network
  <2>1. ASSUME NEW r \in Ranges, Serve(r) \/ Arrive(r) PROVE SerialInv'
    BY <2>1, SerialReading
  <2>2. ASSUME NEW m \in Muts, Apply(m) \/ Refuse(m) \/ Saved(m) \/ Failed(m) PROVE SerialInv'
    BY <2>2, SerialServer, SerialSaved, SerialFailed
  <2>3. QED
    BY <1>2, <2>1, <2>2 DEF Network
<1>3. QED
  BY <1>1, <1>2 DEF Next

\* Mutations that run at once, under every step.
LEMMA OverlapStep ==
  ASSUME Types, Types', Lists, Overlapping, OverlapInv, Next
  PROVE  OverlapInv'
<1>1. CASE User
  <2>1. ASSUME NEW r \in Ranges, Prefetch(r) \/ Show(r) PROVE OverlapInv'
    BY <2>1, OverlapPaging
  <2>2. ASSUME NEW m \in Muts, NEW p \in Places, Create(m, p) PROVE OverlapInv'
    BY <2>2, OverlapCreate
  <2>3. ASSUME NEW m \in Muts, NEW e \in OnScreen, NEW p \in Places \cup {{}},
               Remove(m, e) \/ (p \in Places /\ Move(m, e, p)) \/ Update(m, e, p)
        PROVE  OverlapInv'
    BY <2>3, OverlapEdits
  <2>4. {} \in Places \cup {{}}
    OBVIOUS
  <2>5. QED
    BY <1>1, <2>1, <2>2, <2>3, <2>4 DEF User
<1>2. CASE Network
  <2>1. ASSUME NEW r \in Ranges, Serve(r) \/ Arrive(r) PROVE OverlapInv'
    BY <2>1, OverlapReading
  <2>2. ASSUME NEW m \in Muts, Apply(m) PROVE OverlapInv'
    BY <2>2, OverlapApply
  <2>3. ASSUME NEW m \in Muts, Saved(m) PROVE OverlapInv'
    BY <2>3, OverlapSaved
  <2>4. ASSUME NEW m \in Muts, Refuse(m) \/ Failed(m) PROVE OverlapInv'
    BY <2>4, OverlapFails
  <2>5. QED
    BY <1>2, <2>1, <2>2, <2>3, <2>4 DEF Network
<1>3. QED
  BY <1>1, <1>2 DEF Next

\* The scenario is chosen once.
LEMMA ScenarioStays ==
  ASSUME Next
  PROVE  scenario' = scenario
<1>1. User => scenario' = scenario
  BY DEF User, Prefetch, Show, Create, Remove, Move, Update, Begin
<1>2. Network => scenario' = scenario
  BY DEF Network, Serve, Arrive, Apply, Refuse, Saved, Failed
<1>3. QED
  BY <1>1, <1>2 DEF Next

\* The invariant is inductive.
LEMMA IInvStep ==
  ASSUME IInv, [Next]_vars
  PROVE  IInv'
<1>1. CASE Next
  <2>1. Types' /\ Lists'
    BY <1>1, TypesStep DEF IInv
  <2>2. Serial' = Serial /\ Overlapping' = Overlapping
    BY <1>1, ScenarioStays DEF Serial, Overlapping, Only
  <2>3. Serial => SerialInv'
    BY <1>1, SerialStep DEF IInv
  <2>4. Overlapping => OverlapInv'
    BY <1>1, <2>1, OverlapStep DEF IInv
  <2>5. QED
    BY <2>1, <2>2, <2>3, <2>4 DEF IInv
<1>2. CASE UNCHANGED vars
  <2>1. UNCHANGED <<scenario, server, given, data, stale, fetch, shown, mut, ref>>
    BY <1>2 DEF vars
  <2>2. Muts' = Muts /\ InFlight' = InFlight /\ Fetching' = Fetching /\ Loaded' = Loaded
          /\ Existing' = Existing
    BY <2>1 DEF Muts, InFlight, Fetching, Loaded, Existing
  <2>3. /\ \A r : Truth(r)' = Truth(r) /\ Owing(r)' = Owing(r)
        /\ \A e : Known(e)' = Known(e) /\ Accounted(e)' = Accounted(e)
        /\ \A e, r : Fits(e, r)' = Fits(e, r)
    BY <2>1, <2>2 DEF Truth, Owing, Known, Accounted, Fits
  <2>4. Types' = Types
    BY <2>1, <2>2 DEF Types, Owed
  <2>5. Lists' = Lists
    BY <2>1, <2>2, <2>3 DEF Lists, DataLists, FetchLists, SnapLists, MutLists
  <2>6. (Serial => SerialInv)' = (Serial => SerialInv)
    BY <2>1, <2>2 DEF Serial, Only, SerialInv, OneMutation, NothingRead, Placeholders, CleanSnaps, Kept,
       Ahead, SnapOf
  <2>7. (Overlapping => OverlapInv)' = (Overlapping => OverlapInv)
    BY <2>1, <2>2, <2>3 DEF Overlapping, Only, OverlapInv, ScreenReads, ScreenLoads, DataTrue, FetchTrue,
       ScreenAccounted, OwnEvent, Accepted, Created
  <2>8. QED
    BY <2>4, <2>5, <2>6, <2>7 DEF IInv
<1>3. QED
  BY <1>1, <1>2

\* The invariant holds throughout.
LEMMA IInvAlways == Spec => []IInv
<1>1. Init => IInv
  BY IInvInit
<1>2. IInv /\ [Next]_vars => IInv'
  BY IInvStep
<1>3. QED
  BY <1>1, <1>2, PTL DEF Spec

-----------------------------------------------------------------------------
(* The theorems *)

\* Every list holds events in their places that meet its range, each known to
\* the server or the placeholder of a create that has begun (TypeOK).
THEOREM TypeCorrect == Spec => []TypeOK
<1>1. IInv => TypeOK
  <2> SUFFICES ASSUME IInv PROVE TypeOK
    OBVIOUS
  <2>1. Types /\ Lists
    BY DEF IInv
  <2>2. given \in Nat /\ given <= MaxEvents /\ MaxEvents \in Nat
    BY <2>1, SetAssumption DEF Types
  <2>3. Existing \subseteq 1 .. given
    <3>1. ASSUME NEW i \in Existing PROVE i \in 1 .. given
      <4>1. i \in Ids /\ ~(i > given)
        BY <2>1 DEF Existing, Types
      <4>2. QED
        BY <2>2, <4>1 DEF Ids
    <3>2. QED
      BY <3>1
  <2>4. ASSUME NEW r \in Ranges, data[r] # Unloaded, NEW e \in data[r]
        PROVE  (e.id \in Ids \/ 0 - e.id \in Muts) /\ e.at \in Places /\ Meets(e.at, r)
    <3>1. r \in Loaded /\ e \in Rows
      BY <2>1, <2>4, LoadedData DEF Loaded
    <3>2. Known(e) /\ Meets(e.at, r)
      BY <2>1, <3>1 DEF Lists, DataLists, Fits
    <3>3. e.id \in 1 .. given => e.id \in Ids
      BY <2>2 DEF Ids
    <3>4. ASSUME NEW n \in Muts, e.id = Temp(n) PROVE 0 - e.id \in Muts
      <4>1. 0 - e.id = n
        BY <2>1, <3>4, TempType DEF Temp
      <4>2. QED
        BY <4>1
    <3>5. e.at \in Places
      BY <3>1 DEF Rows
    <3>6. QED
      BY <3>2, <3>3, <3>4, <3>5 DEF Known
  <2>5. \A r \in Ranges : stale[r] \in BOOLEAN /\ fetch[r].pc \in {"none", "asked", "served"}
    BY <2>1 DEF Types
  <2>6. \A m \in Muts : mut[m].pc \in {"new", "asked", "saved", "failed", "done"}
    BY <2>1, MutFields
  <2>7. scenario \in Scenarios /\ shown \in Ranges /\ given \in 0 .. MaxEvents
    BY <2>1 DEF Types
  <2>8. QED
    BY <2>3, <2>4, <2>5, <2>6, <2>7 DEF TypeOK
<1>2. QED
  BY <1>1, IInvAlways, PTL

\* However often the server refuses, once nothing is under way no list keeps
\* the placeholder of an event that was never created: rollbackFromSnapshot
\* puts back lists that had none (NoGhost).
THEOREM NoGhostAlways == Spec => []NoGhost
<1>1. IInv => NoGhost
  BY DEF IInv, NoGhost, Serial, Settled, SerialInv, Placeholders
<1>2. QED
  BY <1>1, IInvAlways, PTL

\* An answer that was under way when a change was written ahead does not
\* overwrite it: cancelLoadedEventQueries has cancelled it (KeptWhileSaving).
THEOREM KeptWhileSavingAlways == Spec => []KeptWhileSaving
<1>1. IInv => KeptWhileSaving
  BY DEF IInv, KeptWhileSaving, Serial, SerialInv, Kept, Ahead
<1>2. QED
  BY <1>1, IInvAlways, PTL

\* Once nothing is under way the screen shows what the server has, although
\* mutations ran at once and ranges were seeded from each other (ShownIsTrue).
THEOREM ShownIsTrueAlways == Spec => []ShownIsTrue
<1>1. IInv => ShownIsTrue
  <2> SUFFICES ASSUME IInv, Overlapping, Settled, shown \in Loaded PROVE data[shown] = Truth(shown)
    BY DEF ShownIsTrue, Overlapping
  <2>1. ~stale[shown] /\ ~Owing(shown)
    BY DEF IInv, OverlapInv, ScreenLoads, Settled, Owing
  <2>2. QED
    BY <2>1 DEF IInv, OverlapInv, DataTrue
<1>2. QED
  BY <1>1, IInvAlways, PTL
=============================================================================
