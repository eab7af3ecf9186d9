----------------------------- MODULE ChunkedStore -----------------------------
(***************************************************************************)
(* One value in the device's secure storage, which limits the length of an *)
(* item: packages/native-core/src/lib/secure-store-chunked.ts.  A value    *)
(* that fits is stored as it is.  A longer one is cut into chunks, each an *)
(* item of its own, and the base item holds a marker that says where they  *)
(* are.  Four layouts of chunks have been in use; all are read, one is     *)
(* written here, and two (the slots) by the Better Auth client.            *)
(*                                                                         *)
(* Every access to secure storage is a step.  An asynchronous call lets    *)
(* others run between its steps; a synchronous one holds the JavaScript    *)
(* thread, but not the deletions already handed to the system.             *)
(***************************************************************************)
EXTENDS Integers, FiniteSets

CONSTANTS
    MaxChunks,  \* bound: chunks of the longest value
    Variants,   \* values of each length
    Callers,    \* asynchronous calls that may be under way at once
    MaxCalls,   \* bound: calls made
    Scenarios,  \* sets of Behaviour: what else may happen
    None

Behaviour == {
    "overlap",  \* a call starts while another is under way
    "late",     \* a call starts before the deletions of the last one are done
    "lateAdapter",  \* so does a write of the Better Auth client
    "readDuringWrite"}  \* an asynchronous read is under way while a call changes the value

ASSUME ChunkedAssumption ==
    /\ MaxChunks \in Nat \ {0}
    /\ Variants \in Nat \ {0}
    /\ MaxCalls \in Nat
    /\ Scenarios \subseteq SUBSET Behaviour

\* A value is known by its length in chunks and a number.
Value == (1 .. MaxChunks) \X (1 .. Variants)
Size(v) == v[1]
Nothing == <<0, 0>>
Torn == <<0, 1>>
NoWrite == <<0, 2>>
Answer == Value \cup {Nothing, Torn}

\* baseKey.i, baseKey.0.i, baseKey.1.i and baseKey_i.
Layout == {"dot", "slot0", "slot1", "legacy"}
Index == 0 .. MaxChunks - 1
Place == Layout \X Index

ASSUME NoneAssumption == None \notin Value \X Index

VARIABLES
    scenario,    \* the one that holds, for good
    base,        \* the base item
    chunks,      \* the chunk items
    call,        \* the calls under way
    background,  \* chunks whose deletion nobody awaits
    reader,      \* the asynchronous read under way
    calls        \* calls made

vars == <<scenario, base, chunks, call, background, reader, calls>>

May(b) == b \in scenario

Raw(form, v, count, layout, fallback) ==
    [form |-> form, value |-> v, count |-> count, layout |-> layout, fallback |-> fallback]
Absent == Raw("absent", Nothing, 0, "dot", 0)
Empty == Raw("plain", Nothing, 0, "dot", 0)
Plain(v) == Raw("plain", v, 0, "dot", 0)
Marker(count, layout, fallback) == Raw("marker", Nothing, count, layout, fallback)
Legacy(count) == Raw("legacy", Nothing, count, "legacy", 0)

NoCall == [op |-> "none", pc |-> "idle", value |-> Nothing, next |-> 0,
           previous |-> Absent, doomed |-> {}]
NoRead == [pc |-> "idle", group |-> 0, raw |-> Absent, got |-> [i \in Index |-> None],
           left |-> {}, answer |-> None]

Items(count, layout) == {layout} \X (0 .. count - 1)
OtherSlot(layout) == IF layout = "slot0" THEN "slot1" ELSE "slot0"

\* The groups of chunks a marker names, the active one first.
BaChunkGroups(raw) ==
    IF raw.layout = "dot" \/ raw.fallback = 0
    THEN <<[count |-> raw.count, layout |-> raw.layout]>>
    ELSE <<[count |-> raw.count, layout |-> raw.layout],
           [count |-> raw.fallback, layout |-> OtherSlot(raw.layout)]>>

Groups(raw) ==
    CASE raw.form = "marker" -> BaChunkGroups(raw)
      [] raw.form = "legacy" -> <<[count |-> raw.count, layout |-> "legacy"]>>
      [] OTHER -> <<>>

\* The chunks an item of the base key accounts for.
Named(raw) == UNION {Items(Groups(raw)[g].count, Groups(raw)[g].layout) : g \in DOMAIN Groups(raw)}

\* Chunks joined: a value when they are all of one value and all of it.
Join(count, got) ==
    LET whole == {v \in Value : Size(v) = count /\ \A i \in 0 .. count - 1 : got[i] = <<v, i>>}
    IN IF whole = {} THEN Torn ELSE CHOOSE v \in whole : TRUE

Complete(group) == \A p \in Items(group.count, group.layout) : chunks[p] # None

\* getChunkedSecureValueSync.  Its callers take null and "" alike.
Read ==
    LET groups == Groups(base)
        full == {g \in DOMAIN groups : Complete(groups[g])}
        first == CHOOSE g \in full : \A h \in full : g <= h
    IN IF base.form \in {"absent", "plain"} THEN base.value
       ELSE IF full = {} THEN Nothing
       ELSE Join(groups[first].count, [i \in Index |-> chunks[<<groups[first].layout, i>>]])

-----------------------------------------------------------------------------
(* What the device may hold when the app starts *)

Chunked(v, layout) == [p \in Place |->
    IF p \in Items(Size(v), layout) THEN <<v, p[2]>> ELSE None]

NoChunks == [p \in Place |-> None]

Init ==
    /\ scenario \in Scenarios
    /\ \/ \E v \in Value :
            \/ Size(v) = 1 /\ base = Plain(v) /\ chunks = NoChunks
            \/ Size(v) > 1 /\ base = Marker(Size(v), "dot", 0) /\ chunks = Chunked(v, "dot")
            \/ base = Legacy(Size(v)) /\ chunks = Chunked(v, "legacy")
            \/ Size(v) > 1 /\ base = Marker(Size(v), "slot0", 0) /\ chunks = Chunked(v, "slot0")
       \* The slot written last, and the one before it as its fallback.
       \/ \E v, w \in Value :
            /\ Size(v) > 1
            /\ Size(w) > 1
            /\ base = Marker(Size(v), "slot1", Size(w))
            /\ chunks = [p \in Place |->
                 IF p[1] = "slot1" THEN Chunked(v, "slot1")[p] ELSE Chunked(w, "slot0")[p]]
    /\ call = [c \in Callers |-> NoCall]
    /\ background = {}
    /\ reader = NoRead
    /\ calls = 0

-----------------------------------------------------------------------------
(* Calls *)

Running == {c \in Callers : call[c].pc # "idle"}
Blocking == {c \in Running : call[c].op = "set" /\ call[c].pc # "cleanup"}
Quiet == Running = {} /\ background = {} /\ reader.pc = "idle"

\* A synchronous call runs to its end; an awaited one is resumed.
Resumed(c) == c \in Running /\ (Blocking = {} \/ c \in Blocking)

MayStart(op) ==
    /\ calls < MaxCalls
    /\ Blocking = {}
    /\ Running = {} \/ May("overlap")
    /\ background = {} \/ May(IF op = "adapter" THEN "lateAdapter" ELSE "late")
    /\ reader.pc = "idle" \/ May("readDuringWrite")

\* Mutant: the first chunk is written under the old marker.
FirstPcKeepsMarker(op, v) ==
    CASE op = "delete" -> "remove"
      [] OTHER -> IF Size(v) = 1 THEN "put" ELSE "chunk"

FirstPc(op, v) ==
    CASE op = "delete" -> "remove"
      [] op = "adapter" -> IF Size(v) = 1 THEN "put" ELSE "chunk"
      [] OTHER -> IF Size(v) = 1 THEN "put" ELSE "clear"

\* Mutant: every layout found is deleted, the one just written too.
DoomsWritten(op, v, previous) ==
    IF op = "adapter" THEN {} ELSE Named(previous)

\* The chunks a call deletes when its value is in place.  A long value over
\* one in the layout written here reuses its keys.
Doomed(op, v, previous) ==
    IF /\ op # "adapter"
       /\ \/ op = "delete"
          \/ previous.form = "legacy"
          \/ previous.form = "marker" /\ (previous.layout # "dot" \/ Size(v) = 1)
    THEN Named(previous) ELSE {}

\* setChunkedSecureValueSync, writeChunkedSecureValue, deleteChunkedSecureValue
\* and the Better Auth adapter start by reading the base item.
Start(c, op, v) ==
    /\ MayStart(op)
    /\ c \notin Running
    /\ call' = [call EXCEPT ![c] =
         [op |-> op, pc |-> FirstPc(op, v), value |-> v, next |-> 0,
          previous |-> base, doomed |-> Doomed(op, v, base)]]
    /\ calls' = calls + 1
    /\ UNCHANGED <<scenario, base, chunks, background, reader>>

\* The base item goes blank before the first chunk is written.
Clear(c) ==
    /\ Resumed(c)
    /\ call[c].pc = "clear"
    /\ base' = Empty
    /\ call' = [call EXCEPT ![c].pc = "chunk"]
    /\ UNCHANGED <<scenario, chunks, background, reader, calls>>

\* The adapter writes the slot the base item does not name.
Target(c) ==
    IF call[c].op # "adapter" THEN "dot"
    ELSE IF call[c].previous.layout \in {"slot0", "slot1"}
         THEN OtherSlot(call[c].previous.layout)
         ELSE "slot0"

WriteChunk(c) ==
    /\ Resumed(c)
    /\ call[c].pc = "chunk"
    /\ chunks' = [chunks EXCEPT ![<<Target(c), call[c].next>>] = <<call[c].value, call[c].next>>]
    /\ call' = [call EXCEPT ![c].next = @ + 1,
                            ![c].pc = IF call[c].next + 1 = Size(call[c].value) THEN "mark" ELSE "chunk"]
    /\ UNCHANGED <<scenario, base, background, reader, calls>>

Fallback(c) ==
    IF call[c].op = "adapter" /\ call[c].previous.layout \in {"slot0", "slot1"}
    THEN call[c].previous.count ELSE 0

\* Deletions are awaited, or left to the system by the synchronous call.
Cleanup(c) ==
    IF call[c].op = "set" \/ call[c].doomed = {}
    THEN /\ call' = [call EXCEPT ![c] = NoCall]
         /\ background' = background \cup call[c].doomed
    ELSE /\ call' = [call EXCEPT ![c].pc = "cleanup"]
         /\ UNCHANGED background

WriteMarker(c) ==
    /\ Resumed(c)
    /\ call[c].pc = "mark"
    /\ base' = Marker(Size(call[c].value), Target(c), Fallback(c))
    /\ Cleanup(c)
    /\ UNCHANGED <<scenario, chunks, reader, calls>>

WritePlain(c) ==
    /\ Resumed(c)
    /\ call[c].pc = "put"
    /\ base' = Plain(call[c].value)
    /\ Cleanup(c)
    /\ UNCHANGED <<scenario, chunks, reader, calls>>

RemoveBase(c) ==
    /\ Resumed(c)
    /\ call[c].pc = "remove"
    /\ base' = Absent
    /\ Cleanup(c)
    /\ UNCHANGED <<scenario, chunks, reader, calls>>

\* Promise.all: in any order.
DeleteChunk(c, p) ==
    /\ Resumed(c)
    /\ call[c].pc = "cleanup"
    /\ p \in call[c].doomed
    /\ chunks' = [chunks EXCEPT ![p] = None]
    /\ call' = [call EXCEPT ![c] = IF call[c].doomed = {p} THEN NoCall
                                    ELSE [call[c] EXCEPT !.doomed = call[c].doomed \ {p}]]
    /\ UNCHANGED <<scenario, base, background, reader, calls>>

\* The system deletes a chunk nobody awaits, or fails to, at any time.
DeleteInBackground(p) ==
    /\ p \in background
    /\ background' = background \ {p}
    /\ chunks' \in {chunks, [chunks EXCEPT ![p] = None]}
    /\ UNCHANGED <<scenario, base, call, reader, calls>>

\* An access to secure storage throws, and the call is over.
Fail(c) ==
    /\ Resumed(c)
    /\ call' = [call EXCEPT ![c] = NoCall]
    /\ UNCHANGED <<scenario, base, chunks, background, reader, calls>>

\* The app dies: the items stay, all else is gone.
Crash ==
    /\ ~Quiet
    /\ call' = [c \in Callers |-> NoCall]
    /\ background' = {}
    /\ reader' = NoRead
    /\ UNCHANGED <<scenario, base, chunks, calls>>

-----------------------------------------------------------------------------
(* readChunkedSecureValue *)

\* The base item answers, or names the chunks to read.
StartRead ==
    /\ reader.pc = "idle"
    /\ Blocking = {}
    /\ Running = {} \/ May("readDuringWrite")
    /\ reader' = IF Groups(base) = <<>>
                 THEN [NoRead EXCEPT !.pc = "done", !.answer = base.value]
                 ELSE [NoRead EXCEPT !.pc = "read", !.raw = base, !.group = 1,
                                     !.left = 0 .. Groups(base)[1].count - 1]
    /\ UNCHANGED <<scenario, base, chunks, call, background, calls>>

\* Promise.all: the chunks of a group arrive in any order.
ReadChunk(i) ==
    /\ reader.pc = "read"
    /\ Blocking = {}
    /\ i \in reader.left
    /\ reader' = [reader EXCEPT !.got[i] = chunks[<<Groups(reader.raw)[reader.group].layout, i>>],
                                !.left = @ \ {i}]
    /\ UNCHANGED <<scenario, base, chunks, call, background, calls>>

\* A group with a chunk missing gives way to its fallback.
EndGroup ==
    /\ reader.pc = "read"
    /\ Blocking = {}
    /\ reader.left = {}
    /\ LET groups == Groups(reader.raw)
           count == groups[reader.group].count
       IN reader' =
            IF \A i \in 0 .. count - 1 : reader.got[i] # None
            THEN [NoRead EXCEPT !.pc = "done", !.answer = Join(count, reader.got)]
            ELSE IF reader.group + 1 \in DOMAIN groups
            THEN [reader EXCEPT !.group = @ + 1, !.got = NoRead.got,
                                !.left = 0 .. groups[reader.group + 1].count - 1]
            ELSE [NoRead EXCEPT !.pc = "done", !.answer = Nothing]
    /\ UNCHANGED <<scenario, base, chunks, call, background, calls>>

EndRead ==
    /\ reader.pc = "done"
    /\ reader' = NoRead
    /\ UNCHANGED <<scenario, base, chunks, call, background, calls>>

-----------------------------------------------------------------------------
Step(c) ==
    \/ Clear(c) \/ WriteChunk(c) \/ WriteMarker(c) \/ WritePlain(c) \/ RemoveBase(c)
    \/ \E p \in Place : DeleteChunk(c, p)

Next ==
    \/ \E c \in Callers :
         \/ \E v \in Value, op \in {"set", "write", "adapter"} : Start(c, op, v)
         \/ Start(c, "delete", Nothing)
         \/ Step(c)
         \/ Fail(c)
    \/ \E p \in Place : DeleteInBackground(p)
    \/ Crash
    \/ StartRead
    \/ \E i \in Index : ReadChunk(i)
    \/ EndGroup
    \/ EndRead

Spec == Init /\ [][Next]_vars

-----------------------------------------------------------------------------
(* Properties *)

TypeOK ==
    /\ scenario \in Scenarios
    /\ base \in [form : {"absent", "plain", "marker", "legacy"}, value : Value \cup {Nothing},
                 count : 0 .. MaxChunks, layout : Layout, fallback : 0 .. MaxChunks]
    /\ chunks \in [Place -> (Value \X Index) \cup {None}]
    /\ DOMAIN call = Callers
    /\ \A c \in Callers :
         /\ call[c].pc \in {"idle", "clear", "chunk", "mark", "put", "remove", "cleanup"}
         /\ call[c].value \in Value \cup {Nothing}
         /\ call[c].doomed \subseteq Place
    /\ background \subseteq Place
    /\ reader.answer \in Answer \cup {None}
    /\ calls \in 0 .. MaxCalls

\* An asynchronous read, which takes its chunks one by one, answers with
\* what is stored when it ends: the chunks still being deleted in the
\* background are none of those it waits for.
AsyncReadAgrees == reader.pc = "done" /\ scenario = {} => reader.answer = Read

\* The value the calls under way are putting in place.
Writing ==
    LET pending == {c \in Running : call[c].pc # "cleanup"}
    IN IF pending = {} THEN NoWrite ELSE call[CHOOSE c \in pending : TRUE].value

\* What a read would return now, and the write under way, as the register.
Register == INSTANCE CrashSafeRegister
                WITH value <- Read, writing <- Writing, Idle <- NoWrite, lossy <- May("late")

\* To its callers, who wait for one call before the next, the store is a
\* register that loses a value only to a write that was cut short: the
\* deletions after a write never touch the value just written.  A call of
\* this file that does not wait for the last one's deletions may lose its
\* value to them, but whatever step the app dies in, chunks of two values are
\* never joined.  Where the Better Auth client does not wait either, nothing
\* is promised: it writes over the older slot while those deletions may still
\* take chunks of the newer.
IsRegister == Register!Spec
=============================================================================
