----------------------------- MODULE EventCache -----------------------------
(***************************************************************************)
(* The calendar's event lists on the phone (native-calendar): one cached   *)
(* query per range of days, written ahead of the server by creates, moves  *)
(* and deletes (optimistic-events.ts), rolled back when the server refuses *)
(* and read again when it agrees.                                          *)
(*                                                                         *)
(* A range and the place of an event are sets of days; an event is in a    *)
(* range when they meet.  What the query library does is modelled from its *)
(* use: a cancelled fetch is as if it had not been started, data written   *)
(* by hand or by an answer counts as fresh, an invalidated range is read   *)
(* again at once if it is on the screen and when it is next shown if not,  *)
(* and a range without data joins the fetch that is under way.  Everything *)
(* happens within the 60 s for which fresh data is not read again.         *)
(***************************************************************************)
EXTENDS Integers, FiniteSets

CONSTANTS
    Days,
    Ranges,    \* the ranges that are shown or prefetched: sets of days
    Places,    \* where an event can be: sets of days
    MaxEvents, \* bound: events that ever exist
    Scenarios  \* what may happen besides, how many mutations are made and how many
               \* events there may be before

Behaviours == {"overlap",  \* a mutation begins while another is under way
               "same",     \* also one of the same event
               "hasty",    \* a mutation begins while the screen reads its range again
               "paging",   \* ranges are loaded while a mutation is under way
               "refuse",   \* the server refuses a mutation
               "lost"}     \* a mutation is carried out and its answer lost

ASSUME SetAssumption ==
    /\ Ranges \subseteq SUBSET Days /\ Places \subseteq (SUBSET Days) \ {{}}
    /\ MaxEvents \in Nat
    /\ Scenarios \subseteq [may : SUBSET Behaviours, muts : Nat, stored : 0 .. MaxEvents]

\* Events are numbered as they are made, mutations as they are begun.
Ids == 1 .. MaxEvents
\* The id a create gives to its placeholder: createTempEventId.
Temp(m) == 0 - m

VARIABLES
    scenario,  \* the one that holds, for good
    server,  \* where each event is; nowhere if it does not exist
    given,   \* how many ids have been given
    data,    \* per range: Unloaded, or a set of events
    stale,   \* per range: invalidated
    fetch,   \* per range: the fetch under way
    shown,   \* the range on the screen
    mut,     \* per mutation: its progress
    ref      \* snapshotRef of the create and of the delete hook

vars == <<scenario, server, given, data, stale, fetch, shown, mut, ref>>

May(b) == b \in scenario.may
Muts == 1 .. scenario.muts

Event(i, p) == [id |-> i, at |-> p]
\* A range without data; not a list, for an event is never nowhere.
Unloaded == {Event(0, {})}
Meets(p, r) == p \cap r # {}
Loaded == {r \in Ranges : data[r] # Unloaded}
Existing == {i \in Ids : server[i] # {}}
Truth(r) == {Event(i, server[i]) : i \in {j \in Existing : Meets(server[j], r)}}

NoFetch == [pc |-> "none", got |-> {}]
Asked == [pc |-> "asked", got |-> {}]
NoSnap == [r \in {} |-> {}]
NewMut == [pc |-> "new", kind |-> "none", id |-> 0, at |-> {}, snap |-> NoSnap]

InFlight == {m \in Muts : mut[m].pc \notin {"new", "done"}}
Fetching == {r \in Ranges : fetch[r].pc # "none"}

Init ==
    /\ scenario \in Scenarios
    /\ given \in 0 .. scenario.stored
    /\ \E at \in [1 .. given -> Places] : server = [i \in Ids |-> IF i <= given THEN at[i] ELSE {}]
    /\ data = [r \in Ranges |-> Unloaded]
    /\ stale = [r \in Ranges |-> FALSE]
    /\ shown \in Ranges
    /\ fetch = [r \in Ranges |-> IF r = shown THEN Asked ELSE NoFetch]
    /\ mut = [m \in Muts |-> NewMut]
    /\ ref = [k \in {"create", "remove"} |-> NoSnap]

----------------------------------------------------------------------------
(* Reading *)

Quiet == InFlight # {} => May("paging")

\* prefetchQuery of a month nearby.
Prefetch(r) ==
    /\ Quiet
    /\ r \notin Fetching /\ (r \notin Loaded \/ stale[r])
    /\ fetch' = [fetch EXCEPT ![r] = Asked]
    /\ UNCHANGED <<scenario, server, given, data, stale, shown, mut, ref>>

\* readCachedEventsForRange: loaded ranges that cover r, and for each event the
\* version of one of them, of an invalidated one only for want of another.
Sources(r) == {s \in Loaded : Meets(s, r)}
Covered(r) == Sources(r) # {} /\ r \subseteq UNION Sources(r)
Versions(r, S) == {e \in UNION {data[s] : s \in S} : Meets(e.at, r)}
Seeds(r) ==
    LET all == Versions(r, Sources(r))
        fresh == Versions(r, {s \in Sources(r) : ~stale[s]})
        newest == {e \in all : e \in fresh \/ \A f \in fresh : f.id # e.id}
    IN  {S \in SUBSET newest : /\ \A e \in newest : \E f \in S : f.id = e.id
                               /\ \A e, f \in S : e.id = f.id => e = f}

\* The user turns to another range: it is seeded if it has no data, and read if
\* it has none or it is not fresh.
Show(r) ==
    /\ Quiet
    /\ r # shown /\ shown' = r
    /\ IF r \notin Loaded /\ Covered(r)
       THEN /\ \E seed \in Seeds(r) : data' = [data EXCEPT ![r] = seed]
            /\ stale' = [stale EXCEPT ![r] = \E s \in Sources(r) : stale[s]]
       ELSE UNCHANGED <<data, stale>>
    /\ fetch' = IF r \notin Fetching /\ (data'[r] = Unloaded \/ stale'[r])
                THEN [fetch EXCEPT ![r] = Asked] ELSE fetch
    /\ UNCHANGED <<scenario, server, given, mut, ref>>

Serve(r) ==
    /\ fetch[r].pc = "asked"
    /\ fetch' = [fetch EXCEPT ![r] = [pc |-> "served", got |-> Truth(r)]]
    /\ UNCHANGED <<scenario, server, given, data, stale, shown, mut, ref>>

Arrive(r) ==
    /\ fetch[r].pc = "served"
    /\ data' = [data EXCEPT ![r] = fetch[r].got]
    /\ stale' = [stale EXCEPT ![r] = FALSE]
    /\ fetch' = [fetch EXCEPT ![r] = NoFetch]
    /\ UNCHANGED <<scenario, server, given, shown, mut, ref>>

----------------------------------------------------------------------------
(* Writing ahead *)

\* Mutant: fetches under way go on.
CancelNothing == UNCHANGED fetch

\* Mutant: first loads are cancelled too.
CancelAll == fetch' = [r \in Ranges |-> NoFetch]

\* cancelLoadedEventQueries: a first load is left alone, nothing would restart it.
CancelLoaded == fetch' = [r \in Ranges |-> IF r \in Loaded THEN NoFetch ELSE fetch[r]]

\* Data set by hand is fresh.
Put(R, new(_)) ==
    /\ data' = [r \in Ranges |-> IF r \in R THEN new(r) ELSE data[r]]
    /\ stale' = [r \in Ranges |-> stale[r] /\ r \notin R]

Snapshot(R) == [r \in R |-> data[r]]

Begin(m, kind, id, at, snap) ==
    /\ \A n \in Muts : mut[n].pc = "new" <=> n >= m
    /\ InFlight # {} => May("overlap")
    /\ (\E n \in InFlight : mut[n].id = id) => May("same")
    /\ Fetching \ (Loaded \cap {shown}) # {} => May("paging")
    /\ Fetching \cap Loaded \cap {shown} # {} => May("hasty") \/ May("paging")
    /\ mut' = [mut EXCEPT ![m] = [pc |-> "asked", kind |-> kind, id |-> id, at |-> at, snap |-> snap]]
    /\ UNCHANGED <<scenario, server, given, shown>>

\* The user acts on an event of the screen that is not a placeholder.
OnScreen == IF shown \in Loaded THEN {e \in data[shown] : e.id \in Ids} ELSE {}

Create(m, p) ==
    LET R == {r \in Loaded : Meets(p, r)}
    IN  /\ Begin(m, "create", Temp(m), p, NoSnap)
        /\ ref' = [ref EXCEPT !["create"] = Snapshot(R)]
        /\ Put(R, LAMBDA r : data[r] \cup {Event(Temp(m), p)})
        /\ CancelLoaded

Remove(m, e) ==
    /\ Begin(m, "remove", e.id, {}, NoSnap)
    /\ ref' = [ref EXCEPT !["remove"] = Snapshot(Loaded)]
    /\ Put(Loaded, LAMBDA r : {f \in data[r] : f.id # e.id})
    /\ CancelLoaded

\* optimisticallyPatchEvent: the event leaves the ranges its new place is not in.
Move(m, e, p) ==
    /\ Begin(m, "move", e.id, p, Snapshot(Loaded))
    /\ Put(Loaded, LAMBDA r : {f \in data[r] : f.id # e.id} \cup
                              (IF Meets(p, r) THEN {Event(e.id, p)} ELSE {}))
    /\ CancelLoaded
    /\ UNCHANGED ref

\* An edit in the sheet, or an answer to an invitation: the list waits for the server.
Update(m, e, p) ==
    /\ Begin(m, "update", e.id, p, NoSnap)
    /\ UNCHANGED <<data, stale, fetch, ref>>

----------------------------------------------------------------------------
(* The server *)

Answers(m, pc, id) == mut' = [mut EXCEPT ![m].pc = pc, ![m].id = id]

Outcomes == {"saved"} \cup (IF May("lost") THEN {"failed"} ELSE {})

Apply(m) ==
    /\ mut[m].pc = "asked"
    /\ \E out \in Outcomes :
        IF mut[m].kind = "create"
        THEN /\ given' = given + 1
             /\ server' = [server EXCEPT ![given'] = mut[m].at]
             /\ Answers(m, out, given')
        ELSE /\ mut[m].id \in Existing
             /\ server' = [server EXCEPT ![mut[m].id] = mut[m].at]
             /\ Answers(m, out, mut[m].id)
             /\ UNCHANGED given
    /\ UNCHANGED <<scenario, data, stale, fetch, shown, ref>>

\* Refused: not valid, or the event is gone.
Refuse(m) ==
    /\ mut[m].pc = "asked"
    /\ May("refuse") \/ (mut[m].kind # "create" /\ mut[m].id \notin Existing)
    /\ Answers(m, "failed", mut[m].id)
    /\ UNCHANGED <<scenario, server, given, data, stale, fetch, shown, ref>>

----------------------------------------------------------------------------
(* The answer *)

\* Ranges of R are stale; the one on the screen is read again, and a fetch of
\* data it already has is given up for the new one.
Refetch(R) ==
    fetch' = [r \in Ranges |->
        IF r \in R \cap {shown} /\ (r \notin Fetching \/ r \in Loaded)
        THEN Asked ELSE fetch[r]]

\* Mutant: only the range on the screen is invalidated.
InvalidateShown ==
    /\ stale' = [stale EXCEPT ![shown] = TRUE]
    /\ Refetch(Ranges)
    /\ UNCHANGED data

InvalidateAll ==
    /\ stale' = [r \in Ranges |-> TRUE]
    /\ Refetch(Ranges)
    /\ UNCHANGED data

\* Mutant: only placeholders are replaced.
CommitReplaces(m) ==
    LET saved == Event(mut[m].id, mut[m].at)
        Has(r) == \E e \in data[r] : e.id = Temp(m)
        R == {r \in Loaded : Has(r)}
    IN  /\ data' = [r \in Ranges |-> IF r \in R THEN {e \in data[r] : e.id # Temp(m)} \cup {saved} ELSE data[r]]
        /\ UNCHANGED <<stale, fetch>>

\* commitOptimisticEvent, then invalidateEventRanges: the saved event takes the
\* placeholder's place, also in ranges that have been read without it.
Commit(m) ==
    LET saved == Event(mut[m].id, mut[m].at)
        Others(r) == {e \in data[r] : e.id \notin {Temp(m), saved.id}}
        R == {r \in Loaded : Meets(saved.at, r) \/ Others(r) # data[r]}
        S == {r \in Ranges : Meets(saved.at, r)}
    IN  /\ data' = [r \in Ranges |->
            IF r \in R THEN Others(r) \cup (IF r \in S THEN {saved} ELSE {}) ELSE data[r]]
        /\ stale' = [r \in Ranges |-> (stale[r] /\ r \notin R) \/ r \in S]
        /\ Refetch(S)

Saved(m) ==
    /\ mut[m].pc = "saved"
    /\ IF mut[m].kind = "create" THEN Commit(m) ELSE InvalidateAll
    /\ mut' = [mut EXCEPT ![m].pc = "done", ![m].snap = NoSnap]
    /\ UNCHANGED <<scenario, server, given, shown, ref>>

\* Mutant: a refused change stays.
RollbackNothing(m) == UNCHANGED <<data, stale>>

\* rollbackFromSnapshot: the create and the delete hook have one snapshot each,
\* of the last mutation that took one; a move has its own.
Rollback(m) ==
    LET snap == IF mut[m].kind \in {"create", "remove"} THEN ref[mut[m].kind] ELSE mut[m].snap
    IN  Put(DOMAIN snap, LAMBDA r : snap[r])

Failed(m) ==
    /\ mut[m].pc = "failed"
    /\ Rollback(m)
    /\ mut' = [mut EXCEPT ![m] = [NewMut EXCEPT !.pc = "done"]]
    /\ UNCHANGED <<scenario, server, given, fetch, shown, ref>>

Network ==
    \/ \E r \in Ranges : Serve(r) \/ Arrive(r)
    \/ \E m \in Muts : Apply(m) \/ Refuse(m) \/ Saved(m) \/ Failed(m)

User ==
    \/ \E r \in Ranges : Prefetch(r) \/ Show(r)
    \/ \E m \in Muts :
        \/ \E p \in Places : given + Cardinality(InFlight) < MaxEvents /\ Create(m, p)
        \/ \E e \in OnScreen :
            \/ Remove(m, e)
            \/ \E p \in Places : Move(m, e, p) \/ Update(m, e, p)
            \/ Update(m, e, {})

Next == User \/ Network

Spec == Init /\ [][Next]_vars

\* Requests are assumed to be answered, which no timeout of the app sees to.
FairSpec == Spec /\ WF_vars(Network)

----------------------------------------------------------------------------
(* Properties *)

\* The types of the caches, the fetches and the mutations.
TypeOK ==
    /\ scenario \in Scenarios
    /\ shown \in Ranges /\ given \in 0 .. MaxEvents /\ Existing \subseteq 1 .. given
    /\ \A r \in Ranges : data[r] # Unloaded =>
        \A e \in data[r] : (e.id \in Ids \/ 0 - e.id \in Muts) /\ e.at \in Places /\ Meets(e.at, r)
    /\ \A r \in Ranges : stale[r] \in BOOLEAN /\ fetch[r].pc \in {"none", "asked", "served"}
    /\ \A m \in Muts : mut[m].pc \in {"new", "asked", "saved", "failed", "done"}

Settled == InFlight = {} /\ Fetching = {}

Only(behaviours) == scenario.may \subseteq behaviours

\* Once nothing is under way, the screen shows what the server has, although
\* two mutations ran at once and ranges were seeded from each other.
ShownIsTrue ==
    Only({"overlap"}) /\ Settled /\ shown \in Loaded => data[shown] = Truth(shown)

\* Once nothing is under way, no list holds the placeholder of an event that was
\* never created, when mutations follow one another and no range is first
\* shown while one is under way.
NoGhost ==
    Only({"hasty", "refuse"}) /\ Settled => \A r \in Loaded : \A e \in data[r] : e.id \in Ids

\* Until the server has answered, a list that had the change written ahead keeps
\* it: an older answer that was under way does not overwrite it.
KeptWhileSaving ==
    Only({"hasty", "refuse"}) => \A m \in InFlight : mut[m].pc = "asked" =>
        /\ mut[m].kind = "create" =>
            \A r \in DOMAIN ref["create"] : Event(Temp(m), mut[m].at) \in data[r]
        /\ mut[m].kind = "remove" =>
            \A r \in DOMAIN ref["remove"] : \A e \in data[r] : e.id # mut[m].id
        /\ mut[m].kind = "move" =>
            \A r \in DOMAIN mut[m].snap :
                (Event(mut[m].id, mut[m].at) \in data[r]) <=> Meets(mut[m].at, r)

\* The screen gets its data at last, whatever is written, refused or lost
\* meanwhile and however the user turns the pages.
ShownLoads == shown \notin Loaded ~> shown \in Loaded
=============================================================================
