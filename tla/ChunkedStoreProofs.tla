-------------------------- MODULE ChunkedStoreProofs --------------------------
(***************************************************************************)
(* Proofs about ChunkedStore for values of any length, any number of calls *)
(* and any mix of layouts.  To callers who wait for one call before the    *)
(* next, the chunked store is a register: every step of it is a step of    *)
(* CrashSafeRegister, or none.                                             *)
(*                                                                         *)
(* The argument is that the chunks the base item names first are all of    *)
(* one value (ActiveWhole): a call that reuses their keys has blanked the  *)
(* base item before (Writes), one that does not writes another layout      *)
(* (Writes), and what is still to be deleted is in a layout the base item  *)
(* does not name (DoomedElsewhere).  Where calls may start before the      *)
(* deletions of the last one are done, a chunk of the layout all calls     *)
(* share may be missing, and still none is of another value.               *)
(***************************************************************************)
EXTENDS ChunkedStore, TLAPS

-----------------------------------------------------------------------------
(* The invariant *)

Raws == [form : {"absent", "plain", "marker", "legacy"}, value : Value \cup {Nothing},
         count : 0 .. MaxChunks, layout : Layout, fallback : 0 .. MaxChunks]

Chunky(raw) == raw.form \in {"marker", "legacy"}

\* What a base item may say.
WellFormed(raw) ==
    /\ raw \in Raws
    /\ Chunky(raw) => raw.count >= 1
    /\ raw.form = "marker" => raw.layout \in {"dot", "slot0", "slot1"}
    /\ raw.form = "legacy" => raw.layout = "legacy"
    /\ ~Chunky(raw) => raw.layout = "dot"

Calls == [op : {"none", "set", "write", "adapter", "delete"},
          pc : {"idle", "clear", "chunk", "mark", "put", "remove", "cleanup"},
          value : Value \cup {Nothing}, next : 0 .. MaxChunks,
          previous : Raws, doomed : SUBSET Place]

Readers == [pc : {"idle", "read", "done"}, group : {0, 1, 2}, raw : Raws,
            got : [Index -> (Value \X Index) \cup {None}], left : SUBSET Index,
            answer : Answer \cup {None}]

CallOK(c) ==
    /\ WellFormed(call[c].previous)
    /\ call[c].pc \in {"clear", "chunk", "mark", "put"} => call[c].value \in Value
    /\ call[c].pc \in {"clear", "chunk"} => call[c].next < Size(call[c].value)

TypedStore ==
    /\ scenario \in Scenarios
    /\ WellFormed(base)
    /\ chunks \in [Place -> (Value \X Index) \cup {None}]
    /\ background \in SUBSET Place
    /\ calls \in 0 .. MaxCalls

TypedCalls ==
    /\ call \in [Callers -> Calls]
    /\ \A c \in Callers : CallOK(c)

TypedReader ==
    /\ reader \in Readers
    /\ WellFormed(reader.raw)
    /\ reader.pc = "read" => reader.group \in DOMAIN Groups(reader.raw)

Typed == TypedStore /\ TypedCalls /\ TypedReader

\* Callers wait for one call before the next, and the Better Auth client for
\* the deletions of the last one too.
Alone == ~May("overlap") /\ ~May("lateAdapter")

\* The chunk of value v at an index, or, where deletions may be late, none.
Holds(layout, i, v) ==
    \/ chunks[<<layout, i>>] = <<v, i>>
    \/ layout = "dot" /\ May("late") /\ chunks[<<layout, i>>] = None

\* One value's chunks are where the base item says.
ActiveWhole ==
    Chunky(base) =>
        \E v \in Value : Size(v) = base.count
                         /\ \A i \in 0 .. base.count - 1 : Holds(base.layout, i, v)

OneCall == \A c, d \in Running : c = d

\* What is still to be deleted is in layouts the base item does not name.
DoomedElsewhere ==
    Chunky(base) =>
        /\ \A p \in background : p[1] = base.layout => base.layout = "dot" /\ May("late")
        /\ \A c \in Running : call[c].pc = "cleanup" =>
             \A p \in call[c].doomed : p[1] # base.layout

\* The deletions of the last call are done when the next one starts.
Waited ==
    \A c \in Running : call[c].op = "adapter" \/ ~May("late") => background = {}

Adapts(c) ==
    call[c].op = "adapter" =>
        /\ call[c].doomed = {}
        /\ call[c].pc \in {"chunk", "mark", "put"}
        /\ call[c].previous = base

Keeps(c) ==
    call[c].op # "adapter" =>
        /\ call[c].pc \in {"chunk", "mark"} => base = Empty
        /\ call[c].pc \in {"clear", "chunk", "mark"} => \A p \in call[c].doomed : p[1] # "dot"

\* The chunks a call has written so far are there.
Wrote(c) ==
    /\ call[c].pc \in {"chunk", "mark"} =>
        \A i \in 0 .. call[c].next - 1 : Holds(Target(c), i, call[c].value)
    /\ call[c].pc = "clear" => call[c].next = 0
    /\ call[c].pc = "mark" => call[c].next = Size(call[c].value)

Deletes(c) == call[c].pc = "remove" => call[c].value = Nothing

Writes == \A c \in Running : Adapts(c) /\ Keeps(c) /\ Wrote(c) /\ Deletes(c)

\* An asynchronous read has found what is still there.
ReadsBase ==
    scenario = {} /\ reader.pc = "read" =>
        /\ Running = {}
        /\ Chunky(base)
        /\ reader.raw = base
        /\ reader.group = 1
        /\ reader.left \subseteq 0 .. base.count - 1
        /\ \A i \in (0 .. base.count - 1) \ reader.left :
             reader.got[i] = chunks[<<base.layout, i>>]

Answered ==
    scenario = {} /\ reader.pc = "done" => Running = {} /\ reader.answer = Read

Sound ==
    /\ ActiveWhole
    /\ OneCall
    /\ DoomedElsewhere
    /\ Waited
    /\ Writes
    /\ ReadsBase
    /\ Answered

IInv == Typed /\ (Alone => Sound)
-----------------------------------------------------------------------------
(* What the operators return *)

LEMMA ValueSize ==
  ASSUME NEW v \in Value
  PROVE  Size(v) \in 1 .. MaxChunks
  BY DEF Value, Size

LEMMA NotAValue == Nothing \notin Value /\ Torn \notin Value /\ NoWrite \notin Value
                   /\ Nothing # NoWrite
  BY DEF Nothing, Torn, NoWrite, Value

\* The group a base item names first.
LEMMA FirstGroup ==
  ASSUME NEW raw, WellFormed(raw), Chunky(raw)
  PROVE  /\ Groups(raw) # <<>>
         /\ 1 \in DOMAIN Groups(raw)
         /\ DOMAIN Groups(raw) \subseteq {1, 2}
         /\ Groups(raw)[1].count = raw.count
         /\ Groups(raw)[1].layout = raw.layout
         /\ raw.layout \in {"dot", "legacy"} => DOMAIN Groups(raw) = {1}
  BY DEF WellFormed, Chunky, Groups, BaChunkGroups

LEMMA NoGroup ==
  ASSUME NEW raw, WellFormed(raw), ~Chunky(raw)
  PROVE  Groups(raw) = <<>> /\ DOMAIN Groups(raw) = {} /\ raw.form \in {"absent", "plain"}
  BY DEF WellFormed, Chunky, Groups, Raws

LEMMA GroupsTyped ==
  ASSUME NEW raw, WellFormed(raw), NEW g \in DOMAIN Groups(raw)
  PROVE  /\ g \in {1, 2}
         /\ Groups(raw)[g].count \in 0 .. MaxChunks
         /\ Groups(raw)[g].layout \in Layout
  BY DEF WellFormed, Chunky, Raws, Layout, Groups, BaChunkGroups, OtherSlot

\* The chunks a base item accounts for, by layout.
LEMMA NamedPlaces ==
  ASSUME NEW raw, WellFormed(raw), NEW p \in Named(raw)
  PROVE  /\ p \in Place
         /\ raw.form = "legacy" => p[1] = "legacy"
         /\ raw.form = "marker" /\ raw.layout # "dot" => p[1] \in {"slot0", "slot1"}
  <1>1. PICK g \in DOMAIN Groups(raw) : p \in Items(Groups(raw)[g].count, Groups(raw)[g].layout)
    BY DEF Named
  <1>2. Groups(raw)[g].count \in 0 .. MaxChunks /\ Groups(raw)[g].layout \in Layout
    BY GroupsTyped
  <1>3. p[1] = Groups(raw)[g].layout /\ p \in Place
    BY <1>1, <1>2, ChunkedAssumption DEF Items, Place, Index
  <1>4. raw.form = "legacy" => Groups(raw)[g].layout = "legacy"
    BY DEF Groups
  <1>5. raw.form = "marker" /\ raw.layout # "dot" => Groups(raw)[g].layout \in {"slot0", "slot1"}
    BY DEF WellFormed, Groups, BaChunkGroups, OtherSlot
  <1> QED BY <1>3, <1>4, <1>5

\* Chunks that are all of one value are joined to it, whatever comes after.
LEMMA JoinWhole ==
  ASSUME NEW v \in Value, NEW got, \A i \in 0 .. Size(v) - 1 : got[i] = <<v, i>>
  PROVE  Join(Size(v), got) = v
  <1> DEFINE whole == {w \in Value : Size(w) = Size(v) /\ \A i \in 0 .. Size(v) - 1 : got[i] = <<w, i>>}
  <1>1. v \in whole
    OBVIOUS
  <1>2. ASSUME NEW w \in whole PROVE w = v
    <2>1. 0 \in 0 .. Size(v) - 1
      BY ValueSize, ChunkedAssumption
    <2>2. got[0] = <<w, 0>> /\ got[0] = <<v, 0>>
      BY <2>1
    <2> QED BY <2>2
  <1>3. (CHOOSE w \in whole : TRUE) = v
    BY <1>1, <1>2
  <1> QED BY <1>1, <1>3 DEF Join

\* What is read from a base item and chunks.
ReadOf(b, k) ==
    LET groups == Groups(b)
        full == {g \in DOMAIN groups :
                   \A p \in Items(groups[g].count, groups[g].layout) : k[p] # None}
        first == CHOOSE g \in full : \A h \in full : g <= h
    IN IF b.form \in {"absent", "plain"} THEN b.value
       ELSE IF full = {} THEN Nothing
       ELSE Join(groups[first].count, [i \in Index |-> k[<<groups[first].layout, i>>]])

LEMMA ReadIs == Read = ReadOf(base, chunks) /\ Read' = ReadOf(base', chunks')
  BY DEF Read, ReadOf, Complete

LEMMA ReadPlain ==
  ASSUME NEW b, NEW k, WellFormed(b), ~Chunky(b)
  PROVE  ReadOf(b, k) = b.value
  <1>1. b.form \in {"absent", "plain"}
    BY NoGroup
  <1> QED BY <1>1 DEF ReadOf

\* The value whose chunks the base item names is read, unless one is missing
\* from a layout that has no fallback.
LEMMA ReadWhole ==
  ASSUME NEW b, NEW k, WellFormed(b), Chunky(b), NEW v \in Value, Size(v) = b.count,
         \A i \in 0 .. b.count - 1 :
             k[<<b.layout, i>>] = <<v, i>> \/ (b.layout = "dot" /\ k[<<b.layout, i>>] = None)
  PROVE  ReadOf(b, k) = IF \E i \in 0 .. b.count - 1 : k[<<b.layout, i>>] = None THEN Nothing ELSE v
  <1> DEFINE groups == Groups(b)
             full == {g \in DOMAIN groups :
                        \A p \in Items(groups[g].count, groups[g].layout) : k[p] # None}
             first == CHOOSE g \in full : \A h \in full : g <= h
  <1>0. b.count \in 1 .. MaxChunks /\ b.form \notin {"absent", "plain"}
    BY ValueSize DEF Chunky
  <1>1. /\ 1 \in DOMAIN groups /\ DOMAIN groups \subseteq {1, 2}
        /\ groups[1].count = b.count /\ groups[1].layout = b.layout
        /\ b.layout = "dot" => DOMAIN groups = {1}
    BY FirstGroup
  <1>2. 1 \in full <=> \A i \in 0 .. b.count - 1 : k[<<b.layout, i>>] # None
    <2>1. 1 \in full <=> \A p \in Items(b.count, b.layout) : k[p] # None
      BY <1>1
    <2> QED BY <2>1 DEF Items
  <1>3. CASE \E i \in 0 .. b.count - 1 : k[<<b.layout, i>>] = None
    <2>1. PICK i \in 0 .. b.count - 1 : k[<<b.layout, i>>] = None
      BY <1>3
    <2>2. <<v, i>> \in Value \X Index
      BY <1>0, ChunkedAssumption DEF Index
    <2>3. b.layout = "dot"
      BY <2>1, <2>2, NoneAssumption
    <2>4. full = {}
      BY <1>1, <1>2, <1>3, <2>3
    <2> QED BY <1>0, <1>3, <2>4 DEF ReadOf
  <1>4. CASE \A i \in 0 .. b.count - 1 : k[<<b.layout, i>>] # None
    <2>1. 1 \in full /\ full \subseteq {1, 2}
      BY <1>1, <1>2, <1>4
    <2>2. first = 1
      <3>1. \A h \in full : 1 <= h
        BY <2>1
      <3>2. ASSUME NEW g \in full, \A h \in full : g <= h PROVE g = 1
        BY <2>1, <3>2
      <3> HIDE DEF full
      <3> QED BY <2>1, <3>1, <3>2
    <2>3. \A i \in 0 .. Size(v) - 1 : [j \in Index |-> k[<<b.layout, j>>]][i] = <<v, i>>
      BY <1>0, <1>4, ChunkedAssumption DEF Index
    <2>4. Join(Size(v), [j \in Index |-> k[<<b.layout, j>>]]) = v
      BY <2>3, JoinWhole
    <2>5. ReadOf(b, k) = Join(groups[first].count, [i \in Index |-> k[<<groups[first].layout, i>>]])
      BY <1>0, <2>1 DEF ReadOf
    <2> HIDE DEF groups, first
    <2> QED BY <1>1, <1>4, <2>2, <2>4, <2>5
  <1> QED BY <1>3, <1>4

\* The base items that calls write, and the records they start from.
LEMMA RawsWritten ==
  /\ WellFormed(Absent) /\ ~Chunky(Absent) /\ Absent.value = Nothing
  /\ WellFormed(Empty) /\ ~Chunky(Empty) /\ Empty.value = Nothing
  /\ \A v \in Value : WellFormed(Plain(v)) /\ ~Chunky(Plain(v)) /\ Plain(v).value = v
  /\ \A v \in Value : \A l \in {"dot", "slot0", "slot1"} : \A f \in 0 .. MaxChunks :
       /\ WellFormed(Marker(Size(v), l, f)) /\ Chunky(Marker(Size(v), l, f))
       /\ Marker(Size(v), l, f).count = Size(v) /\ Marker(Size(v), l, f).layout = l
  /\ \A v \in Value :
       /\ WellFormed(Legacy(Size(v))) /\ Chunky(Legacy(Size(v)))
       /\ Legacy(Size(v)).count = Size(v) /\ Legacy(Size(v)).layout = "legacy"
  BY ValueSize, ChunkedAssumption
  DEF WellFormed, Chunky, Raws, Absent, Empty, Plain, Marker, Legacy, Raw, Layout

LEMMA NoCallTyped == NoCall \in Calls /\ NoCall.pc = "idle" /\ NoCall.previous = Absent
  BY RawsWritten, ChunkedAssumption DEF NoCall, Calls, WellFormed

LEMMA NoReadTyped ==
  /\ NoRead \in Readers
  /\ NoRead.pc = "idle" /\ NoRead.raw = Absent
  BY RawsWritten, ChunkedAssumption DEF NoRead, Readers, WellFormed, Index

\* The chunks a call is to delete are of layouts its own value is not in.
LEMMA DoomedPlaces ==
  ASSUME NEW op, NEW v, NEW raw, WellFormed(raw), NEW p \in Doomed(op, v, raw)
  PROVE  /\ p \in Place
         /\ op # "delete" /\ Size(v) # 1 => p[1] # "dot"
  <1>1. p \in Named(raw)
    BY DEF Doomed
  <1>2. op # "delete" /\ Size(v) # 1 =>
          raw.form = "legacy" \/ (raw.form = "marker" /\ raw.layout # "dot")
    BY DEF Doomed
  <1> QED BY <1>1, <1>2, NamedPlaces

\* The slot a call writes.
LEMMA TargetIs ==
  ASSUME NEW c
  PROVE  /\ Target(c) \in {"dot", "slot0", "slot1"}
         /\ call[c].op # "adapter" => Target(c) = "dot"
         /\ call[c].op = "adapter" => Target(c) \in {"slot0", "slot1"} /\ Target(c) # call[c].previous.layout
  BY DEF Target, OtherSlot

LEMMA FallbackIs ==
  ASSUME NEW c, WellFormed(call[c].previous)
  PROVE  Fallback(c) \in 0 .. MaxChunks
  BY ChunkedAssumption DEF Fallback, WellFormed, Raws

\* A call that is over, or goes on to its deletions.
LEMMA CleanupTyped ==
  ASSUME TypedCalls, background \in SUBSET Place, NEW c \in Callers, Cleanup(c)
  PROVE  TypedCalls' /\ background' \in SUBSET Place
  <1>1. call[c] \in Calls
    BY DEF TypedCalls
  <1>2. CASE call' = [call EXCEPT ![c] = NoCall] /\ background' = background \cup call[c].doomed
    BY <1>1, <1>2, NoCallTyped, RawsWritten DEF TypedCalls, CallOK, Calls
  <1>3. CASE call' = [call EXCEPT ![c].pc = "cleanup"] /\ background' = background
    BY <1>1, <1>3 DEF TypedCalls, CallOK, Calls
  <1> QED BY <1>2, <1>3 DEF Cleanup

-----------------------------------------------------------------------------
(* Every step keeps the types *)

LEMMA InitTyped == Init => Typed
<1> SUFFICES ASSUME Init PROVE Typed
  OBVIOUS
<1>1. WellFormed(base)
  BY RawsWritten, ValueSize, ChunkedAssumption DEF Init
<1>2. \A v \in Value, l \in Layout : Chunked(v, l) \in [Place -> (Value \X Index) \cup {None}]
  BY DEF Chunked, Place
<1>3. chunks \in [Place -> (Value \X Index) \cup {None}]
  BY <1>2 DEF Init, NoChunks, Layout
<1> QED BY <1>1, <1>3, NoCallTyped, NoReadTyped, RawsWritten, ChunkedAssumption
        DEF Init, Typed, TypedStore, TypedCalls, CallOK, TypedReader

LEMMA StartTyped ==
  ASSUME Typed, NEW c \in Callers, NEW op, NEW v, Start(c, op, v),
         \/ op \in {"set", "write", "adapter"} /\ v \in Value
         \/ op = "delete" /\ v = Nothing
  PROVE  Typed'
<1> DEFINE new == [op |-> op, pc |-> FirstPc(op, v), value |-> v, next |-> 0,
                   previous |-> base, doomed |-> Doomed(op, v, base)]
<1>1. /\ FirstPc(op, v) \in {"clear", "chunk", "put", "remove"}
      /\ FirstPc(op, v) # "remove" => v \in Value /\ 0 < Size(v)
  BY ValueSize, ChunkedAssumption DEF FirstPc
<1>2. Doomed(op, v, base) \subseteq Place
  BY DoomedPlaces DEF Typed, TypedStore
<1>3. new \in Calls
  BY <1>1, <1>2, ChunkedAssumption DEF Typed, TypedStore, WellFormed, Calls
<1>4. call' = [call EXCEPT ![c] = new]
  BY DEF Start
<1>5. TypedCalls'
  BY <1>1, <1>3, <1>4 DEF Typed, TypedCalls, CallOK, TypedStore
<1>6. TypedStore' /\ TypedReader'
  BY ChunkedAssumption DEF Typed, TypedStore, TypedReader, Start, MayStart
<1> QED BY <1>5, <1>6 DEF Typed

LEMMA ClearTyped ==
  ASSUME Typed, NEW c \in Callers, Clear(c)
  PROVE  Typed'
<1>1. TypedCalls'
  BY DEF Typed, TypedCalls, CallOK, Calls, Clear
<1>2. TypedStore' /\ TypedReader'
  BY RawsWritten DEF Typed, TypedStore, TypedReader, Clear
<1> QED BY <1>1, <1>2 DEF Typed

LEMMA WriteChunkTyped ==
  ASSUME Typed, NEW c \in Callers, WriteChunk(c)
  PROVE  Typed'
<1>1. /\ call[c].value \in Value /\ call[c].next \in 0 .. MaxChunks
      /\ call[c].next < Size(call[c].value) /\ Size(call[c].value) \in 1 .. MaxChunks
  BY ValueSize DEF Typed, TypedCalls, CallOK, Calls, WriteChunk
<1>2. call[c].next \in Index /\ call[c].next + 1 \in 0 .. MaxChunks
  BY <1>1, ChunkedAssumption DEF Index
<1>3. TypedCalls'
  <2>1. PICK n \in Calls : /\ n.value = call[c].value /\ n.previous = call[c].previous
                           /\ n.pc \in {"mark", "chunk"} /\ n.next = call[c].next + 1
                           /\ n.pc = "chunk" => call[c].next + 1 # Size(call[c].value)
                           /\ call' = [call EXCEPT ![c] = n]
    <3> DEFINE n == [call[c] EXCEPT !.next = call[c].next + 1,
                       !.pc = IF call[c].next + 1 = Size(call[c].value) THEN "mark" ELSE "chunk"]
    <3>1. n \in Calls
      BY <1>2 DEF Typed, TypedCalls, Calls
    <3>2. call' = [call EXCEPT ![c] = n]
      BY DEF Typed, TypedCalls, Calls, WriteChunk
    <3>3. /\ n.value = call[c].value /\ n.previous = call[c].previous
          /\ n.pc \in {"mark", "chunk"} /\ n.next = call[c].next + 1
          /\ n.pc = "chunk" => call[c].next + 1 # Size(call[c].value)
      BY DEF Typed, TypedCalls, Calls
    <3> QED BY <3>1, <3>2, <3>3
  <2> QED BY <1>1, <2>1 DEF Typed, TypedCalls, CallOK
<1>4. chunks' \in [Place -> (Value \X Index) \cup {None}]
  BY <1>1, <1>2 DEF Typed, TypedStore, WriteChunk
<1>5. TypedStore' /\ TypedReader'
  BY <1>4 DEF Typed, TypedStore, TypedReader, WriteChunk
<1> QED BY <1>3, <1>5 DEF Typed

LEMMA WriteMarkerTyped ==
  ASSUME Typed, NEW c \in Callers, WriteMarker(c)
  PROVE  Typed'
<1>1. call[c].value \in Value /\ WellFormed(call[c].previous)
  BY DEF Typed, TypedCalls, CallOK, WriteMarker
<1>2. WellFormed(base')
  BY <1>1, TargetIs, FallbackIs, RawsWritten DEF WriteMarker
<1>3. TypedCalls' /\ background' \in SUBSET Place
  BY CleanupTyped DEF Typed, TypedStore, WriteMarker
<1> QED BY <1>2, <1>3 DEF Typed, TypedStore, TypedReader, WriteMarker

LEMMA WritePlainTyped ==
  ASSUME Typed, NEW c \in Callers, WritePlain(c)
  PROVE  Typed'
<1>1. call[c].value \in Value
  BY DEF Typed, TypedCalls, CallOK, WritePlain
<1>2. TypedCalls' /\ background' \in SUBSET Place
  BY CleanupTyped DEF Typed, TypedStore, WritePlain
<1> QED BY <1>1, <1>2, RawsWritten DEF Typed, TypedStore, TypedReader, WritePlain

LEMMA RemoveBaseTyped ==
  ASSUME Typed, NEW c \in Callers, RemoveBase(c)
  PROVE  Typed'
<1>1. TypedCalls' /\ background' \in SUBSET Place
  BY CleanupTyped DEF Typed, TypedStore, RemoveBase
<1> QED BY <1>1, RawsWritten DEF Typed, TypedStore, TypedReader, RemoveBase

LEMMA DeleteChunkTyped ==
  ASSUME Typed, NEW c \in Callers, NEW p \in Place, DeleteChunk(c, p)
  PROVE  Typed'
<1>1. TypedCalls'
  <2>1. call[c] \in Calls
    BY DEF Typed, TypedCalls
  <2>2. CASE call' = [call EXCEPT ![c] = NoCall]
    BY <2>1, <2>2, NoCallTyped, RawsWritten DEF Typed, TypedCalls, CallOK
  <2>3. CASE call' = [call EXCEPT ![c] = [call[c] EXCEPT !.doomed = call[c].doomed \ {p}]]
    <3>1. [call[c] EXCEPT !.doomed = call[c].doomed \ {p}] \in Calls
      BY <2>1 DEF Calls
    <3> QED BY <2>1, <2>3, <3>1 DEF Typed, TypedCalls, CallOK, Calls
  <2>4. call' = [call EXCEPT ![c] = IF call[c].doomed = {p} THEN NoCall
                                   ELSE [call[c] EXCEPT !.doomed = call[c].doomed \ {p}]]
    BY DEF DeleteChunk, Typed, TypedCalls
  <2> QED BY <2>2, <2>3, <2>4
<1>2. TypedStore' /\ TypedReader'
  BY DEF Typed, TypedStore, TypedReader, DeleteChunk
<1> QED BY <1>1, <1>2 DEF Typed

LEMMA FailTyped ==
  ASSUME Typed, NEW c \in Callers, Fail(c)
  PROVE  Typed'
<1>1. TypedCalls'
  BY NoCallTyped, RawsWritten DEF Typed, TypedCalls, CallOK, Fail
<1> QED BY <1>1 DEF Typed, TypedStore, TypedReader, Fail

LEMMA DeleteInBackgroundTyped ==
  ASSUME Typed, NEW p \in Place, DeleteInBackground(p)
  PROVE  Typed'
<1>1. TypedStore'
  BY DEF Typed, TypedStore, DeleteInBackground
<1> QED BY <1>1 DEF Typed, TypedCalls, CallOK, TypedReader, DeleteInBackground

LEMMA CrashTyped ==
  ASSUME Typed, Crash
  PROVE  Typed'
BY NoCallTyped, NoReadTyped, RawsWritten
DEF Typed, TypedStore, TypedCalls, CallOK, TypedReader, Crash

LEMMA StartReadTyped ==
  ASSUME Typed, StartRead
  PROVE  Typed'
<1>1. TypedReader'
  <2>1. CASE ~Chunky(base)
    <3>1. reader' = [NoRead EXCEPT !.pc = "done", !.answer = base.value]
      BY <2>1, NoGroup DEF Typed, TypedStore, StartRead
    <3>2. base.value \in Answer
      BY DEF Typed, TypedStore, WellFormed, Raws, Answer
    <3> QED BY <3>1, <3>2, NoReadTyped, RawsWritten DEF TypedReader, Readers
  <2>2. CASE Chunky(base)
    <3>1. reader' = [NoRead EXCEPT !.pc = "read", !.raw = base, !.group = 1,
                                   !.left = 0 .. base.count - 1]
      BY <2>2, FirstGroup DEF Typed, TypedStore, StartRead
    <3>2. 0 .. base.count - 1 \subseteq Index /\ base \in Raws
      BY ChunkedAssumption DEF Typed, TypedStore, WellFormed, Raws, Index
    <3>3. reader' \in Readers /\ reader'.raw = base /\ reader'.group = 1
      BY <3>1, <3>2, NoReadTyped DEF Readers
    <3> QED BY <2>2, <3>3, FirstGroup DEF Typed, TypedStore, TypedReader
  <2> QED BY <2>1, <2>2
<1> QED BY <1>1 DEF Typed, TypedStore, TypedCalls, CallOK, StartRead

LEMMA ReadChunkTyped ==
  ASSUME Typed, NEW i \in Index, ReadChunk(i)
  PROVE  Typed'
<1>1. <<Groups(reader.raw)[reader.group].layout, i>> \in Place
  BY GroupsTyped DEF Typed, TypedReader, ReadChunk, Place
<1>2. reader' \in Readers /\ reader'.raw = reader.raw /\ reader'.group = reader.group
  BY <1>1 DEF Typed, TypedReader, TypedStore, ReadChunk, Readers
<1>3. TypedReader'
  BY <1>2 DEF Typed, TypedReader, ReadChunk
<1> QED BY <1>3 DEF Typed, TypedStore, TypedCalls, CallOK, ReadChunk

\* What is joined is a value, or torn.
LEMMA JoinTyped ==
  ASSUME NEW n, NEW got
  PROVE  Join(n, got) \in Answer
<1> DEFINE whole == {v \in Value : Size(v) = n /\ \A i \in 0 .. n - 1 : got[i] = <<v, i>>}
<1>1. CASE whole = {}
  BY <1>1 DEF Join, Answer
<1>2. CASE whole # {}
  <2>1. (CHOOSE v \in whole : TRUE) \in whole
    BY <1>2
  <2>2. Join(n, got) = CHOOSE v \in whole : TRUE
    BY <1>2 DEF Join
  <2> QED BY <2>1, <2>2 DEF Answer
<1> QED BY <1>1, <1>2

LEMMA EndGroupTyped ==
  ASSUME Typed, EndGroup
  PROVE  Typed'
<1> DEFINE groups == Groups(reader.raw)
           count == groups[reader.group].count
<1>1. CASE reader' = [NoRead EXCEPT !.pc = "done", !.answer = Join(count, reader.got)]
  <2>1. Join(count, reader.got) \in Answer
    BY JoinTyped
  <2> QED BY <1>1, <2>1, NoReadTyped, RawsWritten
          DEF TypedReader, Readers, Typed, TypedStore, TypedCalls, CallOK, EndGroup
<1>2. CASE reader' = [NoRead EXCEPT !.pc = "done", !.answer = Nothing]
  BY <1>2, NoReadTyped, RawsWritten
  DEF TypedReader, Readers, Answer, Typed, TypedStore, TypedCalls, CallOK, EndGroup
<1>3. CASE /\ reader.group + 1 \in DOMAIN groups
           /\ reader' = [reader EXCEPT !.group = @ + 1, !.got = NoRead.got,
                                       !.left = 0 .. groups[reader.group + 1].count - 1]
  <2>1. reader.group + 1 \in {1, 2} /\ groups[reader.group + 1].count \in 0 .. MaxChunks
    BY <1>3, GroupsTyped DEF Typed, TypedReader
  <2>2. 0 .. groups[reader.group + 1].count - 1 \subseteq Index
    BY <2>1, ChunkedAssumption DEF Index
  <2>3. NoRead.got \in [Index -> (Value \X Index) \cup {None}]
    BY NoReadTyped DEF Readers
  <2>4. reader' \in Readers /\ reader'.raw = reader.raw /\ reader'.group = reader.group + 1
    BY <1>3, <2>1, <2>2, <2>3 DEF Typed, TypedReader, Readers
  <2>5. TypedReader'
    BY <1>3, <2>4 DEF Typed, TypedReader
  <2> QED BY <2>5 DEF Typed, TypedStore, TypedCalls, CallOK, EndGroup
<1> QED BY <1>1, <1>2, <1>3 DEF EndGroup

LEMMA EndReadTyped ==
  ASSUME Typed, EndRead
  PROVE  Typed'
BY NoReadTyped, RawsWritten DEF Typed, TypedStore, TypedCalls, CallOK, TypedReader, EndRead

-----------------------------------------------------------------------------
(* Every step keeps the rest *)

LEMMA OthersIdle ==
  ASSUME OneCall, NEW c \in Running
  PROVE  \A d \in Callers : d # c => call[d].pc = "idle"
  BY DEF OneCall, Running

\* No asynchronous read that is to agree runs beside a call.
LEMMA NotReading ==
  ASSUME Sound, NEW c \in Running, scenario' = scenario, reader' = reader
  PROVE  ReadsBase' /\ Answered'
  BY DEF Sound, ReadsBase, Answered

\* Chunks that are not of the layout the base item names change nothing.
LEMMA ReadSame ==
  ASSUME NEW b, WellFormed(b), NEW k, NEW m,
         Chunky(b) => \E v \in Value :
             /\ Size(v) = b.count
             /\ \A i \in 0 .. b.count - 1 :
                  k[<<b.layout, i>>] = <<v, i>> \/ (b.layout = "dot" /\ k[<<b.layout, i>>] = None),
         Chunky(b) => \A i \in 0 .. b.count - 1 : m[<<b.layout, i>>] = k[<<b.layout, i>>]
  PROVE  ReadOf(b, m) = ReadOf(b, k)
<1>1. CASE ~Chunky(b)
  BY <1>1, ReadPlain
<1>2. CASE Chunky(b)
  <2>1. PICK v \in Value :
             /\ Size(v) = b.count
             /\ \A i \in 0 .. b.count - 1 :
                  k[<<b.layout, i>>] = <<v, i>> \/ (b.layout = "dot" /\ k[<<b.layout, i>>] = None)
    BY <1>2
  <2>2. ReadOf(b, k) = IF \E i \in 0 .. b.count - 1 : k[<<b.layout, i>>] = None THEN Nothing ELSE v
    BY <1>2, <2>1, ReadWhole
  <2>3. ReadOf(b, m) = IF \E i \in 0 .. b.count - 1 : m[<<b.layout, i>>] = None THEN Nothing ELSE v
    <3>1. \A i \in 0 .. b.count - 1 :
            m[<<b.layout, i>>] = <<v, i>> \/ (b.layout = "dot" /\ m[<<b.layout, i>>] = None)
      BY <1>2, <2>1
    <3> QED BY <1>2, <2>1, <3>1, ReadWhole
  <2> QED BY <1>2, <2>2, <2>3
<1> QED BY <1>1, <1>2

LEMMA ActiveKept ==
  ASSUME WellFormed(base), ActiveWhole, scenario' = scenario, base' = base,
         Chunky(base) => \A i \in 0 .. base.count - 1 :
             chunks'[<<base.layout, i>>] = chunks[<<base.layout, i>>]
  PROVE  ActiveWhole' /\ Read' = Read
<1>1. ActiveWhole'
  BY DEF ActiveWhole, Holds, May
<1>2. Chunky(base) => \E v \in Value :
             /\ Size(v) = base.count
             /\ \A i \in 0 .. base.count - 1 :
                  \/ chunks[<<base.layout, i>>] = <<v, i>>
                  \/ base.layout = "dot" /\ chunks[<<base.layout, i>>] = None
  BY DEF ActiveWhole, Holds
<1>3. ReadOf(base, chunks') = ReadOf(base, chunks)
  BY <1>2, ReadSame
<1> QED BY <1>1, <1>3, ReadIs

LEMMA StartSound ==
  ASSUME Typed, Sound, Alone, NEW c \in Callers, NEW op, NEW v, Start(c, op, v),
         \/ op \in {"set", "write", "adapter"} /\ v \in Value
         \/ op = "delete" /\ v = Nothing
  PROVE  Sound'
<1>0. /\ call' = [call EXCEPT ![c] = [op |-> op, pc |-> FirstPc(op, v), value |-> v, next |-> 0,
                                      previous |-> base, doomed |-> Doomed(op, v, base)]]
      /\ call \in [Callers -> Calls] /\ Running = {}
  BY DEF Start, MayStart, Alone, May, Typed, TypedCalls
<1>1. /\ Running' = {c}
      /\ call'[c].op = op /\ call'[c].pc = FirstPc(op, v) /\ call'[c].value = v /\ call'[c].next = 0
      /\ call'[c].previous = base /\ call'[c].doomed = Doomed(op, v, base)
      /\ FirstPc(op, v) \in {"clear", "chunk", "put", "remove"}
      /\ op = "adapter" => FirstPc(op, v) \in {"chunk", "put"}
      /\ op # "adapter" => FirstPc(op, v) # "chunk"
      /\ FirstPc(op, v) = "clear" => Size(v) # 1 /\ op # "delete"
      /\ FirstPc(op, v) = "remove" => v = Nothing
  BY <1>0 DEF Running, FirstPc
<1>2. OneCall' /\ ActiveWhole'
  BY <1>1 DEF OneCall, Sound, ActiveWhole, Holds, May, Start
<1>3. DoomedElsewhere'
  BY <1>1 DEF Sound, DoomedElsewhere, May, Start
<1>4. Waited'
  BY <1>1 DEF Sound, Waited, May, Start, MayStart, Alone
<1>5. Adapts(c)' /\ Deletes(c)'
  BY <1>1 DEF Adapts, Deletes, Doomed, Start
<1>6. Keeps(c)'
  BY <1>1, DoomedPlaces DEF Keeps, Start, Typed, TypedStore
<1>7. Wrote(c)'
  BY <1>1 DEF Wrote
<1>8. ReadsBase' /\ Answered'
  BY DEF ReadsBase, Answered, Start, MayStart, May
<1> QED BY <1>1, <1>2, <1>3, <1>4, <1>5, <1>6, <1>7, <1>8 DEF Sound, Writes

LEMMA ClearSound ==
  ASSUME Typed, Sound, NEW c \in Callers, Clear(c)
  PROVE  Sound'
<1>0. /\ c \in Running /\ Running' = Running
      /\ call[c].pc = "clear" /\ call'[c].pc = "chunk"
      /\ call'[c].op = call[c].op /\ call'[c].value = call[c].value /\ call'[c].next = call[c].next
      /\ call'[c].previous = call[c].previous /\ call'[c].doomed = call[c].doomed
      /\ \A d \in Running' : d = c
  BY OthersIdle DEF Clear, Resumed, Running, Typed, TypedCalls, Calls, Sound, OneCall
<1>1. Adapts(c) /\ Keeps(c) /\ Wrote(c)
  BY <1>0 DEF Sound, Writes
<1>2. base' = Empty /\ ~Chunky(base') /\ background' = background /\ scenario' = scenario
  BY RawsWritten DEF Clear
<1>3. OneCall' /\ ActiveWhole' /\ DoomedElsewhere'
  BY <1>0, <1>2 DEF OneCall, ActiveWhole, DoomedElsewhere
<1>4. Waited'
  BY <1>0, <1>2 DEF Sound, Waited, May
<1>5. Adapts(c)' /\ Deletes(c)' /\ Keeps(c)' /\ Wrote(c)'
  BY <1>0, <1>1, <1>2, ValueSize DEF Adapts, Deletes, Keeps, Wrote, Typed, TypedCalls, CallOK
<1>6. ReadsBase' /\ Answered'
  BY <1>0, NotReading DEF Clear
<1> QED BY <1>0, <1>3, <1>4, <1>5, <1>6 DEF Sound, Writes

\* A chunk is written where the base item does not look.
LEMMA WriteChunkApart ==
  ASSUME Typed, Sound, NEW c \in Callers, WriteChunk(c), Chunky(base)
  PROVE  Target(c) # base.layout
<1>1. c \in Running /\ call[c].pc = "chunk"
  BY DEF WriteChunk, Resumed
<1>2. Adapts(c) /\ Keeps(c)
  BY <1>1 DEF Sound, Writes
<1> QED BY <1>1, <1>2, TargetIs, RawsWritten DEF Adapts, Keeps

LEMMA WriteChunkSound ==
  ASSUME Typed, Sound, NEW c \in Callers, WriteChunk(c)
  PROVE  Sound' /\ Read' = Read
<1>0. /\ c \in Running /\ Running' = Running
      /\ call[c].pc = "chunk" /\ call'[c].pc \in {"mark", "chunk"}
      /\ call'[c].pc = "mark" => call[c].next + 1 = Size(call[c].value)
      /\ call'[c].op = call[c].op /\ call'[c].value = call[c].value /\ call'[c].next = call[c].next + 1
      /\ call'[c].previous = call[c].previous /\ call'[c].doomed = call[c].doomed
      /\ \A d \in Running' : d = c
  BY OthersIdle DEF WriteChunk, Resumed, Running, Typed, TypedCalls, Calls, Sound, OneCall
<1>1. Adapts(c) /\ Keeps(c) /\ Wrote(c)
  BY <1>0 DEF Sound, Writes
<1>2. /\ call[c].next \in Index /\ call[c].value \in Value
      /\ <<Target(c), call[c].next>> \in Place /\ chunks \in [Place -> (Value \X Index) \cup {None}]
  <2>1. /\ call[c].value \in Value /\ call[c].next \in 0 .. MaxChunks
        /\ call[c].next < Size(call[c].value) /\ Size(call[c].value) \in 1 .. MaxChunks
    BY <1>0, ValueSize DEF Typed, TypedCalls, CallOK, Calls
  <2>2. call[c].next \in Index
    BY <2>1, ChunkedAssumption DEF Index
  <2> QED BY <2>1, <2>2, TargetIs DEF Typed, TypedStore, Place, Layout
<1>3. \A p \in Place : chunks'[p] = IF p = <<Target(c), call[c].next>> THEN <<call[c].value, call[c].next>>
                                    ELSE chunks[p]
  BY <1>2 DEF WriteChunk
<1>4. ActiveWhole' /\ Read' = Read
  <2>1. Chunky(base) => \A i \in 0 .. base.count - 1 : <<base.layout, i>> \in Place
    BY ChunkedAssumption DEF Typed, TypedStore, WellFormed, Raws, Place, Index
  <2>2. Chunky(base) => \A i \in 0 .. base.count - 1 :
             chunks'[<<base.layout, i>>] = chunks[<<base.layout, i>>]
    BY <1>3, <2>1, WriteChunkApart
  <2> QED BY <2>2, ActiveKept DEF WriteChunk, Sound, Typed, TypedStore
<1>5. OneCall' /\ DoomedElsewhere' /\ Waited'
  BY <1>0 DEF Sound, OneCall, DoomedElsewhere, Waited, May, WriteChunk
<1>6. Adapts(c)' /\ Deletes(c)' /\ Keeps(c)'
  BY <1>0, <1>1 DEF Adapts, Deletes, Keeps, WriteChunk
<1>7. Wrote(c)'
  <2>1. Target(c)' = Target(c)
    BY <1>0 DEF Target
  <2>2. ASSUME NEW i \in 0 .. call[c].next PROVE Holds(Target(c), i, call[c].value)'
    <3>1. <<Target(c), i>> \in Place
      BY <1>2, TargetIs, ChunkedAssumption DEF Place, Layout, Index
    <3>2. CASE i = call[c].next
      BY <1>3, <2>1, <3>1, <3>2, <1>0 DEF Holds
    <3>3. CASE i # call[c].next
      <4>1. Holds(Target(c), i, call[c].value)
        BY <1>0, <1>1, <1>2, <3>3, ChunkedAssumption DEF Wrote, Index
      <4>2. chunks'[<<Target(c), i>>] = chunks[<<Target(c), i>>]
        BY <1>3, <3>1, <3>3
      <4> QED BY <4>1, <4>2, <2>1, <1>0 DEF Holds, May, WriteChunk
    <3> QED BY <3>2, <3>3
  <2>3. 0 .. call'[c].next - 1 = 0 .. call[c].next
    BY <1>0, <1>2, ChunkedAssumption DEF Index
  <2>4. \A i \in 0 .. call'[c].next - 1 : Holds(Target(c), i, call[c].value)'
    BY <2>2, <2>3
  <2> QED BY <1>0, <2>4 DEF Wrote, Holds
<1>8. ReadsBase' /\ Answered'
  BY <1>0, NotReading DEF WriteChunk
<1> QED BY <1>0, <1>4, <1>5, <1>6, <1>7, <1>8 DEF Sound, Writes

\* A call whose value is in place is over or only deletes.
LEMMA CleanupSound ==
  ASSUME Typed, Sound, NEW c \in Running, Cleanup(c), scenario' = scenario
  PROVE  /\ OneCall' /\ Waited' /\ Writes'
         /\ background' \subseteq background \cup call[c].doomed
         /\ \A d \in Running' : d = c /\ call'[c].pc = "cleanup" /\ call'[c].doomed = call[c].doomed
         /\ \A d \in Callers : call'[d].pc \in {"idle", "cleanup"}
<1>0. /\ c \in Callers /\ call \in [Callers -> Calls] /\ Adapts(c)
      /\ \A d \in Callers : d # c => call[d].pc = "idle"
  BY OthersIdle DEF Running, Typed, TypedCalls, Sound, Writes
<1>1. CASE call' = [call EXCEPT ![c] = NoCall] /\ background' = background \cup call[c].doomed
  <2>1. Running' = {} /\ \A d \in Callers : call'[d].pc = "idle"
    BY <1>0, <1>1, NoCallTyped DEF Running
  <2> QED BY <1>1, <2>1 DEF OneCall, Waited, Writes
<1>2. CASE call[c].doomed # {} /\ call' = [call EXCEPT ![c].pc = "cleanup"] /\ background' = background
  <2>1. /\ Running' = {c} /\ call'[c].pc = "cleanup" /\ call'[c].op = call[c].op
        /\ call'[c].doomed = call[c].doomed /\ call[c].op # "adapter"
        /\ \A d \in Callers : call'[d].pc \in {"idle", "cleanup"}
    BY <1>0, <1>2 DEF Running, Calls, Adapts
  <2>2. Waited'
    BY <1>2, <2>1 DEF Sound, Waited, May
  <2>3. Adapts(c)' /\ Keeps(c)' /\ Wrote(c)' /\ Deletes(c)'
    BY <2>1 DEF Adapts, Keeps, Wrote, Deletes
  <2> QED BY <1>2, <2>1, <2>2, <2>3 DEF OneCall, Writes
<1> QED BY <1>1, <1>2 DEF Cleanup

LEMMA WriteMarkerSound ==
  ASSUME Typed, Sound, NEW c \in Callers, WriteMarker(c)
  PROVE  Sound'
<1>0. /\ c \in Running /\ call[c].pc = "mark" /\ Cleanup(c) /\ scenario' = scenario
      /\ chunks' = chunks /\ reader' = reader
      /\ call[c].value \in Value /\ WellFormed(call[c].previous)
      /\ Adapts(c) /\ Keeps(c) /\ Wrote(c)
  BY DEF WriteMarker, Resumed, Running, Typed, TypedCalls, CallOK, Sound, Writes
<1>1. base'.count = Size(call[c].value) /\ base'.layout = Target(c)
  BY <1>0, TargetIs, FallbackIs, RawsWritten DEF WriteMarker
<1>2. ActiveWhole'
  <2>1. \A i \in 0 .. base'.count - 1 : Holds(Target(c), i, call[c].value)
    BY <1>0, <1>1 DEF Wrote
  <2>2. \A i \in 0 .. base'.count - 1 :
          \/ chunks'[<<base'.layout, i>>] = <<call[c].value, i>>
          \/ base'.layout = "dot" /\ May("late")' /\ chunks'[<<base'.layout, i>>] = None
    BY <1>0, <1>1, <2>1 DEF Holds, May
  <2> QED BY <1>0, <1>1, <2>2 DEF ActiveWhole, Holds
<1>3. OneCall' /\ Waited' /\ Writes'
  BY <1>0, CleanupSound
<1>4. \A p \in call[c].doomed : p[1] # Target(c)
  BY <1>0, TargetIs DEF Adapts, Keeps
<1>5. \A p \in background : p[1] = Target(c) => Target(c) = "dot" /\ May("late")
  BY <1>0, TargetIs DEF Sound, Waited
<1>6. DoomedElsewhere'
  BY <1>0, <1>1, <1>4, <1>5, CleanupSound DEF DoomedElsewhere, May
<1>7. ReadsBase' /\ Answered'
  BY <1>0, NotReading
<1> QED BY <1>2, <1>3, <1>6, <1>7 DEF Sound

LEMMA WritePlainSound ==
  ASSUME Typed, Sound, NEW c \in Callers, WritePlain(c)
  PROVE  Sound'
<1>0. /\ c \in Running /\ Cleanup(c) /\ scenario' = scenario /\ reader' = reader
      /\ call[c].value \in Value /\ base' = Plain(call[c].value)
  BY DEF WritePlain, Resumed, Running, Typed, TypedCalls, CallOK
<1>1. ~Chunky(base')
  BY <1>0, RawsWritten
<1> QED BY <1>0, <1>1, CleanupSound, NotReading DEF Sound, ActiveWhole, DoomedElsewhere

LEMMA RemoveBaseSound ==
  ASSUME Typed, Sound, NEW c \in Callers, RemoveBase(c)
  PROVE  Sound'
<1>0. c \in Running /\ Cleanup(c) /\ scenario' = scenario /\ reader' = reader /\ base' = Absent
  BY DEF RemoveBase, Resumed, Running
<1>1. ~Chunky(base')
  BY <1>0, RawsWritten
<1> QED BY <1>0, <1>1, CleanupSound, NotReading DEF Sound, ActiveWhole, DoomedElsewhere

LEMMA DeleteChunkSound ==
  ASSUME Typed, Sound, NEW c \in Callers, NEW p \in Place, DeleteChunk(c, p)
  PROVE  /\ Sound' /\ Read' = Read
         /\ \A d \in Callers : call[d].pc \in {"idle", "cleanup"} /\ call'[d].pc \in {"idle", "cleanup"}
<1>0. /\ c \in Running /\ call[c].pc = "cleanup" /\ p \in call[c].doomed
      /\ chunks' = [chunks EXCEPT ![p] = None]
      /\ scenario' = scenario /\ base' = base /\ background' = background /\ reader' = reader
      /\ \A d \in Callers : d # c => call[d].pc = "idle"
  BY OthersIdle DEF DeleteChunk, Resumed, Sound
<1>1. /\ call[c].op # "adapter"
      /\ \A d \in Callers : d # c => call'[d] = call[d]
      /\ \/ call'[c].pc = "idle"
         \/ /\ call'[c].pc = "cleanup" /\ call'[c].op = call[c].op
            /\ call'[c].doomed \subseteq call[c].doomed
  <2>1. call \in [Callers -> Calls] /\ Adapts(c)
    BY <1>0 DEF Typed, TypedCalls, Sound, Writes
  <2> QED BY <1>0, <2>1, NoCallTyped DEF DeleteChunk, Calls, Adapts
<1>2. \A d \in Running' : d = c /\ call'[c].pc = "cleanup"
  BY <1>0, <1>1 DEF Running
<1>3. Chunky(base) => p[1] # base.layout
  BY <1>0 DEF Sound, DoomedElsewhere
<1>4. ActiveWhole' /\ Read' = Read
  <2>1. Chunky(base) => \A i \in 0 .. base.count - 1 :
             chunks'[<<base.layout, i>>] = chunks[<<base.layout, i>>]
    BY <1>0, <1>3, ChunkedAssumption DEF Typed, TypedStore, WellFormed, Raws, Place, Index
  <2> QED BY <1>0, <2>1, ActiveKept DEF Sound, Typed, TypedStore
<1>5. OneCall' /\ DoomedElsewhere' /\ Waited'
  BY <1>0, <1>1, <1>2 DEF Sound, OneCall, DoomedElsewhere, Waited, May
<1>6. Writes'
  BY <1>1, <1>2 DEF Writes, Adapts, Keeps, Wrote, Deletes
<1> QED BY <1>0, <1>1, <1>4, <1>5, <1>6, NotReading DEF Sound

LEMMA FailSound ==
  ASSUME Typed, Sound, NEW c \in Callers, Fail(c)
  PROVE  Sound' /\ Running' = {}
<1>0. c \in Running /\ reader' = reader /\ scenario' = scenario
  BY DEF Fail, Resumed
<1>1. Running' = {}
  BY <1>0, OthersIdle, NoCallTyped DEF Fail, Running, Sound, Typed, TypedCalls
<1>2. ActiveWhole'
  BY DEF Fail, Sound, ActiveWhole, Holds, May
<1>3. DoomedElsewhere'
  BY <1>1 DEF Fail, Sound, DoomedElsewhere, May
<1> QED BY <1>0, <1>1, <1>2, <1>3, NotReading DEF Sound, OneCall, Waited, Writes

LEMMA CrashSound ==
  ASSUME Typed, Sound, Crash
  PROVE  Sound' /\ Running' = {}
<1>1. Running' = {} /\ background' = {} /\ reader'.pc = "idle"
  BY NoCallTyped, NoReadTyped DEF Crash, Running
<1>2. ActiveWhole'
  BY DEF Crash, Sound, ActiveWhole, Holds, May
<1> QED BY <1>1, <1>2 DEF Sound, OneCall, DoomedElsewhere, Waited, Writes, ReadsBase, Answered

LEMMA DeleteInBackgroundSound ==
  ASSUME Typed, Sound, NEW p \in Place, DeleteInBackground(p)
  PROVE  Sound' /\ (May("late") \/ Read' = Read)
<1>0. /\ scenario' = scenario /\ base' = base /\ call' = call /\ reader' = reader
      /\ p \in background /\ background' \subseteq background /\ Running' = Running
      /\ chunks' \in {chunks, [chunks EXCEPT ![p] = None]}
  BY DEF DeleteInBackground, Running
<1>1. /\ \A q \in Place : chunks'[q] \in {chunks[q], None}
      /\ \A q \in Place : q # p => chunks'[q] = chunks[q]
  BY <1>0 DEF Typed, TypedStore
<1>2. Chunky(base) => \A i \in 0 .. base.count - 1 : <<base.layout, i>> \in Place
  BY ChunkedAssumption DEF Typed, TypedStore, WellFormed, Raws, Place, Index
<1>3. ActiveWhole' /\ (May("late") \/ Read' = Read)
  <2>1. CASE Chunky(base) => p[1] # base.layout
    <3>1. Chunky(base) => \A i \in 0 .. base.count - 1 :
             chunks'[<<base.layout, i>>] = chunks[<<base.layout, i>>]
      BY <1>1, <1>2, <2>1
    <3> QED BY <1>0, <3>1, ActiveKept DEF Sound, Typed, TypedStore
  <2>2. CASE Chunky(base) /\ p[1] = base.layout
    <3>1. base.layout = "dot" /\ May("late")
      BY <1>0, <2>2 DEF Sound, DoomedElsewhere
    <3>2. PICK v \in Value : /\ Size(v) = base.count
                            /\ \A i \in 0 .. base.count - 1 : Holds(base.layout, i, v)
      BY <2>2 DEF Sound, ActiveWhole
    <3>3. \A i \in 0 .. base.count - 1 : Holds(base.layout, i, v)'
      BY <1>0, <1>1, <1>2, <2>2, <3>1, <3>2 DEF Holds, May
    <3> QED BY <1>0, <3>1, <3>2, <3>3 DEF ActiveWhole
  <2> QED BY <2>1, <2>2
<1>4. OneCall' /\ DoomedElsewhere' /\ Waited'
  BY <1>0 DEF Sound, OneCall, DoomedElsewhere, Waited, May
<1>5. ASSUME NEW c \in Running PROVE Adapts(c)' /\ Keeps(c)' /\ Wrote(c)' /\ Deletes(c)'
  <2>1. c \in Callers /\ Adapts(c) /\ Keeps(c) /\ Wrote(c) /\ Deletes(c)
    BY DEF Sound, Writes, Running
  <2>2. May("late") /\ call[c].op # "adapter"
    BY <1>0 DEF Sound, Waited
  <2>3. Target(c) = "dot" /\ Target(c)' = "dot"
    BY <1>0, <2>2 DEF Target
  <2>4. ASSUME call[c].pc \in {"chunk", "mark"}, NEW i \in 0 .. call[c].next - 1
        PROVE  Holds(Target(c), i, call[c].value)'
    <3>1. Holds("dot", i, call[c].value)
      BY <2>1, <2>3, <2>4 DEF Wrote
    <3>2. <<"dot", i>> \in Place
      BY <2>1, ChunkedAssumption DEF Typed, TypedCalls, Calls, Place, Layout, Index
    <3>3. chunks'[<<"dot", i>>] \in {chunks[<<"dot", i>>], None} /\ call' = call
      BY <1>0, <1>1, <3>2
    <3> QED BY <1>0, <2>2, <2>3, <3>1, <3>3 DEF Holds, May
  <2>5. Wrote(c)'
    BY <1>0, <2>1, <2>4 DEF Wrote
  <2> QED BY <1>0, <2>1, <2>5 DEF Adapts, Keeps, Deletes
<1>6. Writes'
  BY <1>0, <1>5 DEF Writes
<1>7. ReadsBase'
  <2> SUFFICES ASSUME scenario = {}, reader.pc = "read"
               PROVE  ReadsBase'
    BY <1>0 DEF ReadsBase
  <2>1. Chunky(base) /\ p[1] # base.layout
    BY <1>0 DEF Sound, ReadsBase, DoomedElsewhere, May
  <2>2. \A i \in 0 .. base.count - 1 : chunks'[<<base.layout, i>>] = chunks[<<base.layout, i>>]
    BY <1>1, <1>2, <2>1
  <2> QED BY <1>0, <2>2 DEF Sound, ReadsBase
<1>8. Answered'
  BY <1>0, <1>3 DEF Sound, Answered, May
<1> QED BY <1>3, <1>4, <1>6, <1>7, <1>8 DEF Sound

\* What a read does is no concern of the calls.
LEMMA ReadingSound ==
  ASSUME Sound, UNCHANGED <<scenario, base, chunks, call, background, calls>>
  PROVE  /\ ActiveWhole' /\ OneCall' /\ DoomedElsewhere' /\ Waited' /\ Writes'
         /\ Running' = Running /\ Read' = Read
<1>1. Running' = Running /\ Read' = Read
  BY ReadIs DEF Running
<1>2. \A c \in Running : Target(c)' = Target(c)
  BY DEF Target
<1>3. Writes'
  BY <1>1, <1>2 DEF Sound, Writes, Adapts, Keeps, Wrote, Deletes, Holds, May
<1> QED BY <1>1, <1>3 DEF Sound, ActiveWhole, Holds, OneCall, DoomedElsewhere, Waited, May

LEMMA StartReadSound ==
  ASSUME Typed, Sound, StartRead
  PROVE  Sound'
<1>1. CASE ~Chunky(base)
  <2>1. reader' = [NoRead EXCEPT !.pc = "done", !.answer = base.value]
    BY <1>1, NoGroup DEF Typed, TypedStore, StartRead
  <2>2. reader'.pc = "done" /\ reader'.answer = base.value
    BY <2>1, NoReadTyped DEF Readers
  <2>3. Read = base.value
    BY <1>1, ReadIs, ReadPlain DEF Typed, TypedStore
  <2> QED BY <2>2, <2>3, ReadingSound DEF StartRead, May, Sound, ReadsBase, Answered
<1>2. CASE Chunky(base)
  <2>1. reader' = [NoRead EXCEPT !.pc = "read", !.raw = base, !.group = 1, !.left = 0 .. base.count - 1]
    BY <1>2, FirstGroup DEF Typed, TypedStore, StartRead
  <2>2. reader'.pc = "read" /\ reader'.raw = base /\ reader'.group = 1 /\ reader'.left = 0 .. base.count - 1
    BY <2>1, NoReadTyped DEF Readers
  <2> QED BY <1>2, <2>2, ReadingSound DEF StartRead, May, Sound, ReadsBase, Answered
<1> QED BY <1>1, <1>2

LEMMA ReadChunkSound ==
  ASSUME Typed, Sound, NEW i \in Index, ReadChunk(i)
  PROVE  Sound'
<1>0. /\ reader.pc = "read" /\ reader'.pc = "read" /\ i \in reader.left
      /\ reader'.raw = reader.raw /\ reader'.group = reader.group /\ reader'.left = reader.left \ {i}
      /\ reader'.got = [reader.got EXCEPT ![i] = chunks[<<Groups(reader.raw)[reader.group].layout, i>>]]
      /\ reader.got \in [Index -> (Value \X Index) \cup {None}]
      /\ UNCHANGED <<scenario, base, chunks, call, background, calls>>
  BY DEF ReadChunk, Typed, TypedReader, Readers
<1>1. ReadsBase'
  <2> SUFFICES ASSUME scenario = {} PROVE ReadsBase'
    BY <1>0 DEF ReadsBase
  <2>1. /\ Chunky(base) /\ reader.raw = base /\ reader.group = 1
        /\ \A j \in (0 .. base.count - 1) \ reader.left : reader.got[j] = chunks[<<base.layout, j>>]
    BY <1>0 DEF Sound, ReadsBase
  <2>2. Groups(reader.raw)[reader.group].layout = base.layout
    BY <2>1, FirstGroup DEF Typed, TypedStore
  <2>3. 0 .. base.count - 1 \subseteq Index
    BY ChunkedAssumption DEF Typed, TypedStore, WellFormed, Raws, Index
  <2>4. \A j \in (0 .. base.count - 1) \ reader'.left : reader'.got[j] = chunks[<<base.layout, j>>]
    BY <1>0, <2>1, <2>2, <2>3
  <2> QED BY <1>0, <2>4, ReadingSound DEF Sound, ReadsBase
<1> QED BY <1>0, <1>1, ReadingSound DEF Sound, Answered

LEMMA EndGroupSound ==
  ASSUME Typed, Sound, EndGroup
  PROVE  Sound'
<1>0. reader.pc = "read" /\ reader.left = {} /\ UNCHANGED <<scenario, base, chunks, call, background, calls>>
  BY DEF EndGroup
<1>1. ASSUME scenario = {}
      PROVE  Running = {} /\ reader'.pc = "done" /\ reader'.answer = Read
  <2>1. /\ Running = {} /\ Chunky(base) /\ reader.raw = base /\ reader.group = 1
        /\ \A i \in 0 .. base.count - 1 : reader.got[i] = chunks[<<base.layout, i>>]
    BY <1>0, <1>1 DEF Sound, ReadsBase
  <2>2. PICK v \in Value : /\ Size(v) = base.count
                          /\ \A i \in 0 .. base.count - 1 : chunks[<<base.layout, i>>] = <<v, i>>
    BY <1>1, <2>1 DEF Sound, ActiveWhole, Holds, May
  <2>3. \A i \in 0 .. base.count - 1 : <<v, i>> # None
    BY <2>2, ValueSize, ChunkedAssumption, NoneAssumption DEF Index
  <2>4. Groups(reader.raw)[reader.group].count = base.count
    BY <2>1, FirstGroup DEF Typed, TypedStore
  <2>5. /\ \A i \in 0 .. base.count - 1 : reader.got[i] # None
        /\ \A i \in 0 .. Size(v) - 1 : reader.got[i] = <<v, i>>
    BY <2>1, <2>2, <2>3
  <2>6. reader' = [NoRead EXCEPT !.pc = "done", !.answer = Join(Size(v), reader.got)]
    BY <2>2, <2>4, <2>5 DEF EndGroup
  <2>7. Join(Size(v), reader.got) = v
    BY <2>5, JoinWhole
  <2>8. Read = v
    <3>1. WellFormed(base)
      BY DEF Typed, TypedStore
    <3>2. ~\E i \in 0 .. base.count - 1 : chunks[<<base.layout, i>>] = None
      BY <2>2, <2>3
    <3>3. ReadOf(base, chunks) = v
      BY <2>1, <2>2, <3>1, <3>2, ReadWhole
    <3> QED BY <3>3, ReadIs
  <2>9. reader'.pc = "done" /\ reader'.answer = v
    BY <2>6, <2>7, NoReadTyped DEF Readers
  <2> QED BY <2>1, <2>8, <2>9
<1> QED BY <1>0, <1>1, ReadingSound DEF Sound, ReadsBase, Answered

LEMMA EndReadSound ==
  ASSUME Typed, Sound, EndRead
  PROVE  Sound'
BY NoReadTyped, ReadingSound DEF EndRead, Sound, ReadsBase, Answered

\* One value is stored at the start.
LEMMA InitWhole ==
  ASSUME Init
  PROVE  \/ ~Chunky(base) /\ base.value \in Value
         \/ /\ Chunky(base)
            /\ \E v \in Value : /\ Size(v) = base.count
                                /\ \A i \in 0 .. base.count - 1 : chunks[<<base.layout, i>>] = <<v, i>>
<1> DEFINE Stored(v) == /\ Chunky(base) /\ Size(v) = base.count
                       /\ \A i \in 0 .. base.count - 1 : chunks[<<base.layout, i>>] = <<v, i>>
<1>1. ASSUME NEW v \in Value, NEW l \in Layout, NEW i \in 0 .. Size(v) - 1
      PROVE  <<l, i>> \in Place /\ Chunked(v, l)[<<l, i>>] = <<v, i>>
  <2>1. <<l, i>> \in Place /\ <<l, i>> \in Items(Size(v), l)
    BY ValueSize, ChunkedAssumption DEF Place, Index, Items
  <2> QED BY <2>1 DEF Chunked
<1>2. ASSUME NEW v \in Value, Size(v) = 1 /\ base = Plain(v) PROVE ~Chunky(base) /\ base.value \in Value
  BY <1>2, RawsWritten
<1>3. ASSUME NEW v \in Value, base = Marker(Size(v), "dot", 0), chunks = Chunked(v, "dot") PROVE Stored(v)
  BY <1>3, <1>1, RawsWritten, ChunkedAssumption DEF Layout
<1>4. ASSUME NEW v \in Value, base = Legacy(Size(v)), chunks = Chunked(v, "legacy") PROVE Stored(v)
  BY <1>4, <1>1, RawsWritten, ChunkedAssumption DEF Layout
<1>5. ASSUME NEW v \in Value, base = Marker(Size(v), "slot0", 0), chunks = Chunked(v, "slot0") PROVE Stored(v)
  BY <1>5, <1>1, RawsWritten, ChunkedAssumption DEF Layout
<1>6. ASSUME NEW v \in Value, NEW w \in Value, base = Marker(Size(v), "slot1", Size(w)),
             chunks = [p \in Place |->
               IF p[1] = "slot1" THEN Chunked(v, "slot1")[p] ELSE Chunked(w, "slot0")[p]]
      PROVE  Stored(v)
  <2>1. Size(w) \in 0 .. MaxChunks /\ "slot1" \in Layout
    BY ValueSize, ChunkedAssumption DEF Layout
  <2>2. \A i \in 0 .. Size(v) - 1 : chunks[<<"slot1", i>>] = <<v, i>>
    BY <1>1, <1>6, <2>1
  <2> QED BY <1>6, <2>1, <2>2, RawsWritten
<1> QED BY <1>2, <1>3, <1>4, <1>5, <1>6 DEF Init

LEMMA InitSound ==
  ASSUME Init
  PROVE  Sound
<1>1. Running = {} /\ reader.pc = "idle" /\ background = {}
  BY NoCallTyped, NoReadTyped DEF Init, Running
<1>2. ActiveWhole
  BY InitWhole DEF ActiveWhole, Holds
<1> QED BY <1>1, <1>2 DEF Sound, OneCall, DoomedElsewhere, Waited, Writes, ReadsBase, Answered

-----------------------------------------------------------------------------
(* Every step is one of the register, or none *)

WritingOf(k) ==
    LET pending == {c \in {d \in Callers : k[d].pc # "idle"} : k[c].pc # "cleanup"}
    IN IF pending = {} THEN NoWrite ELSE k[CHOOSE c \in pending : TRUE].value

LEMMA WritingIs == Writing = WritingOf(call) /\ Writing' = WritingOf(call')
  BY DEF Writing, WritingOf, Running

LEMMA NoneWrites ==
  ASSUME NEW k, \A c \in Callers : k[c].pc \in {"idle", "cleanup"}
  PROVE  WritingOf(k) = NoWrite
  BY DEF WritingOf

LEMMA OneWrites ==
  ASSUME NEW k, NEW c \in Callers, k[c].pc \notin {"idle", "cleanup"},
         \A d \in Callers : d # c => k[d].pc = "idle"
  PROVE  WritingOf(k) = k[c].value
<1> DEFINE pending == {e \in {d \in Callers : k[d].pc # "idle"} : k[e].pc # "cleanup"}
<1>1. pending = {c}
  OBVIOUS
<1>2. (CHOOSE e \in pending : TRUE) = c
  BY <1>1
<1> QED BY <1>1, <1>2 DEF WritingOf

\* What is read is a value, or nothing.
LEMMA ReadIsWhole ==
  ASSUME NEW b, WellFormed(b), NEW k,
         Chunky(b) => \E v \in Value :
             /\ Size(v) = b.count
             /\ \A i \in 0 .. b.count - 1 :
                  k[<<b.layout, i>>] = <<v, i>> \/ (b.layout = "dot" /\ k[<<b.layout, i>>] = None)
  PROVE  ReadOf(b, k) \in Value \cup {Nothing}
<1>1. CASE ~Chunky(b)
  BY <1>1, ReadPlain DEF WellFormed, Raws
<1>2. CASE Chunky(b)
  BY <1>2, ReadWhole
<1> QED BY <1>1, <1>2

\* The register's steps, as this module's reads and writes.
LEMMA RegisterNext ==
  ASSUME May("late")' = May("late"),
         \/ Writing = NoWrite /\ Writing' \in Value \cup {Nothing} /\ Read' = Read
         \/ Writing # NoWrite /\ Read' = Nothing /\ Writing' = Writing
         \/ Writing # NoWrite /\ Read' = Writing /\ Writing' = NoWrite
         \/ Writing # NoWrite /\ Writing' = NoWrite /\ Read' = Read
         \/ May("late") /\ Read' \in Value \cup {Nothing} /\ Writing' \in {Writing, NoWrite}
         \/ Read' = Read /\ Writing' = Writing
  PROVE  [Register!Next]_(Register!vars)
  BY DEF Register!Next, Register!Begin, Register!Blank, Register!Commit, Register!Abandon,
         Register!Lose, Register!vars

LEMMA InitRefines == Init => Register!Init
<1> SUFFICES ASSUME Init PROVE Register!Init
  OBVIOUS
<1>1. Writing = NoWrite
  BY WritingIs, NoneWrites, NoCallTyped DEF Init
<1>2. WellFormed(base)
  BY InitTyped DEF Typed, TypedStore
<1>3. CASE ~Chunky(base) /\ base.value \in Value
  BY <1>1, <1>2, <1>3, ReadIs, ReadPlain DEF Register!Init, May
<1>4. ASSUME Chunky(base), NEW v \in Value, Size(v) = base.count,
             \A i \in 0 .. base.count - 1 : chunks[<<base.layout, i>>] = <<v, i>>
      PROVE  Register!Init
  <2>1. \A i \in 0 .. base.count - 1 : chunks[<<base.layout, i>>] # None
    BY <1>4, ValueSize, ChunkedAssumption, NoneAssumption DEF Index
  <2>2. Read = v
    BY <1>2, <1>4, <2>1, ReadIs, ReadWhole
  <2> QED BY <1>1, <2>2 DEF Register!Init, May
<1> QED BY <1>3, <1>4, InitWhole

LEMMA StartRefines ==
  ASSUME Typed, Sound, Alone, NEW c \in Callers, NEW op, NEW v \in Value \cup {Nothing}, Start(c, op, v)
  PROVE  [Register!Next]_(Register!vars)
<1>0. /\ \A d \in Callers : call[d].pc = "idle"
      /\ call \in [Callers -> Calls]
  BY DEF Start, MayStart, Alone, Running, Typed, TypedCalls
<1>1. /\ call'[c].pc \notin {"idle", "cleanup"} /\ call'[c].value = v
      /\ \A d \in Callers : d # c => call'[d].pc = "idle"
  BY <1>0 DEF Start, FirstPc
<1>2. Writing = NoWrite /\ Writing' = v
  BY <1>0, <1>1, WritingIs, NoneWrites, OneWrites
<1>3. Read' = Read /\ May("late")' = May("late")
  BY ReadIs DEF Start, May
<1> QED BY <1>2, <1>3, RegisterNext

LEMMA ClearRefines ==
  ASSUME Typed, Sound, NEW c \in Callers, Clear(c)
  PROVE  [Register!Next]_(Register!vars)
<1>0. /\ call[c].pc = "clear" /\ call'[c].pc = "chunk" /\ call'[c].value = call[c].value
      /\ \A d \in Callers : d # c => call[d].pc = "idle" /\ call'[d].pc = "idle"
      /\ call[c].value \in Value
  BY OthersIdle DEF Clear, Resumed, Sound, Typed, TypedCalls, CallOK, Calls
<1>1. Writing = call[c].value /\ Writing' = call[c].value
  BY <1>0, WritingIs, OneWrites
<1>2. Read' = Nothing /\ May("late")' = May("late")
  BY ReadIs, ReadPlain, RawsWritten DEF Clear, May
<1> QED BY <1>0, <1>1, <1>2, NotAValue, RegisterNext

LEMMA WriteChunkRefines ==
  ASSUME Typed, Sound, NEW c \in Callers, WriteChunk(c)
  PROVE  [Register!Next]_(Register!vars)
<1>0. /\ call[c].pc = "chunk" /\ call'[c].pc \in {"mark", "chunk"} /\ call'[c].value = call[c].value
      /\ \A d \in Callers : d # c => call[d].pc = "idle" /\ call'[d].pc = "idle"
  BY OthersIdle DEF WriteChunk, Resumed, Sound, Typed, TypedCalls, Calls
<1>1. Writing' = Writing
  BY <1>0, WritingIs, OneWrites
<1>2. Read' = Read /\ May("late")' = May("late")
  BY WriteChunkSound DEF WriteChunk, May
<1> QED BY <1>1, <1>2, RegisterNext

LEMMA WriteMarkerRefines ==
  ASSUME Typed, Typed', Sound, Sound', NEW c \in Callers, WriteMarker(c)
  PROVE  [Register!Next]_(Register!vars)
<1>0. /\ c \in Running /\ call[c].pc = "mark" /\ Cleanup(c) /\ scenario' = scenario
      /\ chunks' = chunks /\ Wrote(c)
      /\ call[c].value \in Value /\ WellFormed(call[c].previous)
      /\ \A d \in Callers : d # c => call[d].pc = "idle"
  BY OthersIdle DEF WriteMarker, Resumed, Running, Typed, TypedCalls, CallOK, Sound, Writes
<1>1. Writing = call[c].value /\ Writing' = NoWrite
  BY <1>0, WritingIs, OneWrites, NoneWrites, CleanupSound
<1>2. WellFormed(base') /\ Chunky(base') /\ base'.count = Size(call[c].value) /\ base'.layout = Target(c)
  BY <1>0, TargetIs, FallbackIs, RawsWritten DEF WriteMarker
<1>3. /\ \A i \in 0 .. base'.count - 1 : Holds(base'.layout, i, call[c].value)
      /\ \A i \in 0 .. base'.count - 1 :
           \/ chunks[<<base'.layout, i>>] = <<call[c].value, i>>
           \/ base'.layout = "dot" /\ chunks[<<base'.layout, i>>] = None
  BY <1>0, <1>2 DEF Wrote, Holds
<1>4. Read' = IF \E i \in 0 .. base'.count - 1 : chunks[<<base'.layout, i>>] = None
              THEN Nothing ELSE call[c].value
  BY <1>0, <1>2, <1>3, ReadIs, ReadWhole
<1>5. CASE May("late")
  BY <1>0, <1>1, <1>4, <1>5, RegisterNext DEF May
<1>6. CASE ~May("late")
  <2>1. \A i \in 0 .. base'.count - 1 : chunks[<<base'.layout, i>>] # None
    BY <1>0, <1>2, <1>3, <1>6, ValueSize, ChunkedAssumption, NoneAssumption DEF Holds, Index
  <2>2. Read' = Writing /\ Writing # NoWrite
    BY <1>0, <1>1, <1>4, <2>1, NotAValue
  <2> QED BY <1>0, <1>1, <2>2, RegisterNext DEF May
<1> QED BY <1>5, <1>6

LEMMA WritePlainRefines ==
  ASSUME Typed, Sound, NEW c \in Callers, WritePlain(c)
  PROVE  [Register!Next]_(Register!vars)
<1>0. /\ c \in Running /\ call[c].pc = "put" /\ Cleanup(c) /\ scenario' = scenario
      /\ call[c].value \in Value /\ base' = Plain(call[c].value)
      /\ \A d \in Callers : d # c => call[d].pc = "idle"
  BY OthersIdle DEF WritePlain, Resumed, Running, Typed, TypedCalls, CallOK, Sound
<1>1. Writing = call[c].value /\ Writing' = NoWrite
  BY <1>0, WritingIs, OneWrites, NoneWrites, CleanupSound
<1>2. Read' = call[c].value
  BY <1>0, ReadIs, ReadPlain, RawsWritten
<1> QED BY <1>0, <1>1, <1>2, NotAValue, RegisterNext DEF May

LEMMA RemoveBaseRefines ==
  ASSUME Typed, Sound, NEW c \in Callers, RemoveBase(c)
  PROVE  [Register!Next]_(Register!vars)
<1>0. /\ c \in Running /\ call[c].pc = "remove" /\ Cleanup(c) /\ scenario' = scenario
      /\ call[c].value = Nothing /\ base' = Absent
      /\ \A d \in Callers : d # c => call[d].pc = "idle"
  BY OthersIdle DEF RemoveBase, Resumed, Running, Sound, Writes, Deletes
<1>1. Writing = Nothing /\ Writing' = NoWrite
  BY <1>0, WritingIs, OneWrites, NoneWrites, CleanupSound
<1>2. Read' = Nothing
  BY <1>0, ReadIs, ReadPlain, RawsWritten
<1> QED BY <1>0, <1>1, <1>2, NotAValue, RegisterNext DEF May

LEMMA DeleteChunkRefines ==
  ASSUME Typed, Sound, NEW c \in Callers, NEW p \in Place, DeleteChunk(c, p)
  PROVE  [Register!Next]_(Register!vars)
<1>1. Writing = NoWrite /\ Writing' = NoWrite
  BY DeleteChunkSound, WritingIs, NoneWrites
<1>2. Read' = Read /\ May("late")' = May("late")
  BY DeleteChunkSound DEF DeleteChunk, May
<1> QED BY <1>1, <1>2, RegisterNext

\* A call cut short leaves what is read as it is.
LEMMA CutShortRefines ==
  ASSUME Running' = {}, scenario' = scenario, base' = base, chunks' = chunks
  PROVE  [Register!Next]_(Register!vars)
<1>1. Writing' = NoWrite
  BY WritingIs, NoneWrites DEF Running
<1>2. Read' = Read /\ May("late")' = May("late")
  BY ReadIs DEF May
<1> QED BY <1>1, <1>2, RegisterNext

LEMMA DeleteInBackgroundRefines ==
  ASSUME Typed, Typed', Sound, Sound', NEW p \in Place, DeleteInBackground(p)
  PROVE  [Register!Next]_(Register!vars)
<1>1. Writing' = Writing /\ May("late")' = May("late")
  BY WritingIs DEF DeleteInBackground, May
<1>2. Read' \in Value \cup {Nothing}
  <2>1. WellFormed(base') /\ ActiveWhole'
    BY DEF Typed, TypedStore, Sound
  <2>2. Chunky(base') => \E v \in Value :
             /\ Size(v) = base'.count
             /\ \A i \in 0 .. base'.count - 1 :
                  \/ chunks'[<<base'.layout, i>>] = <<v, i>>
                  \/ base'.layout = "dot" /\ chunks'[<<base'.layout, i>>] = None
    BY <2>1 DEF ActiveWhole, Holds
  <2> QED BY <2>1, <2>2, ReadIs, ReadIsWhole
<1> QED BY <1>1, <1>2, DeleteInBackgroundSound, RegisterNext

LEMMA ReadingRefines ==
  ASSUME UNCHANGED <<scenario, base, chunks, call>>
  PROVE  [Register!Next]_(Register!vars)
  BY WritingIs, ReadIs, RegisterNext DEF May

-----------------------------------------------------------------------------
(* The theorems *)

\* By case of the step: a call's, a deletion's, the app's death or a read's.
LEMMA NextTyped ==
  ASSUME Typed, [Next]_vars
  PROVE  Typed'
<1>1. ASSUME NEW c \in Callers, NEW v \in Value, NEW op \in {"set", "write", "adapter"}, Start(c, op, v)
      PROVE  Typed'
  BY <1>1, StartTyped
<1>2. ASSUME NEW c \in Callers, Start(c, "delete", Nothing) PROVE Typed'
  BY <1>2, StartTyped
<1>3. ASSUME NEW c \in Callers, Step(c) PROVE Typed'
  BY <1>3, ClearTyped, WriteChunkTyped, WriteMarkerTyped, WritePlainTyped, RemoveBaseTyped, DeleteChunkTyped
  DEF Step
<1>4. CASE UNCHANGED vars
  BY <1>4 DEF vars, Typed, TypedStore, TypedCalls, CallOK, TypedReader
<1> QED BY <1>1, <1>2, <1>3, <1>4, FailTyped, DeleteInBackgroundTyped, CrashTyped, StartReadTyped,
           ReadChunkTyped, EndGroupTyped, EndReadTyped
        DEF Next

LEMMA NextSound ==
  ASSUME Typed, Sound, Alone, [Next]_vars
  PROVE  Sound'
<1>1. ASSUME NEW c \in Callers, NEW v \in Value, NEW op \in {"set", "write", "adapter"}, Start(c, op, v)
      PROVE  Sound'
  BY <1>1, StartSound
<1>2. ASSUME NEW c \in Callers, Start(c, "delete", Nothing) PROVE Sound'
  BY <1>2, StartSound
<1>3. ASSUME NEW c \in Callers, Step(c) PROVE Sound'
  BY <1>3, ClearSound, WriteChunkSound, WriteMarkerSound, WritePlainSound, RemoveBaseSound, DeleteChunkSound
  DEF Step
<1>4. CASE UNCHANGED vars
  BY <1>4, ReadingSound DEF vars, Sound, ReadsBase, Answered
<1> QED BY <1>1, <1>2, <1>3, <1>4, FailSound, DeleteInBackgroundSound, CrashSound, StartReadSound,
           ReadChunkSound, EndGroupSound, EndReadSound
        DEF Next

LEMMA NextRefines ==
  ASSUME Typed, Typed', Sound, Sound', Alone, [Next]_vars
  PROVE  [Register!Next]_(Register!vars)
<1>1. ASSUME NEW c \in Callers, NEW v \in Value, NEW op \in {"set", "write", "adapter"}, Start(c, op, v)
      PROVE  [Register!Next]_(Register!vars)
  BY <1>1, StartRefines
<1>2. ASSUME NEW c \in Callers, Start(c, "delete", Nothing) PROVE [Register!Next]_(Register!vars)
  BY <1>2, StartRefines
<1>3. ASSUME NEW c \in Callers, Step(c) PROVE [Register!Next]_(Register!vars)
  BY <1>3, ClearRefines, WriteChunkRefines, WriteMarkerRefines, WritePlainRefines, RemoveBaseRefines,
     DeleteChunkRefines
  DEF Step
<1>4. ASSUME NEW c \in Callers, Fail(c) PROVE [Register!Next]_(Register!vars)
  BY <1>4, FailSound, CutShortRefines DEF Fail
<1>5. CASE Crash
  BY <1>5, CrashSound, CutShortRefines DEF Crash
<1>6. CASE StartRead \/ (\E i \in Index : ReadChunk(i)) \/ EndGroup \/ EndRead \/ UNCHANGED vars
  BY <1>6, ReadingRefines DEF StartRead, ReadChunk, EndGroup, EndRead, vars
<1> QED BY <1>1, <1>2, <1>3, <1>4, <1>5, <1>6, DeleteInBackgroundRefines DEF Next

LEMMA ScenarioStays ==
  ASSUME [Next]_vars
  PROVE  scenario' = scenario
  BY DEF Next, vars, Step, Start, Clear, WriteChunk, WriteMarker, WritePlain, RemoveBase, DeleteChunk,
         Fail, DeleteInBackground, Crash, StartRead, ReadChunk, EndGroup, EndRead

LEMMA Invariance == Spec => []IInv
<1>1. Init => IInv
  BY InitTyped, InitSound DEF IInv
<1>2. IInv /\ [Next]_vars => IInv'
  BY NextTyped, NextSound, ScenarioStays DEF IInv, Alone, May
<1> QED BY <1>1, <1>2, PTL DEF Spec

\* Every item in secure storage, every call and every read is well formed, in
\* all scenarios.
THEOREM TypeCorrect == Spec => []TypeOK
<1>1. IInv => TypeOK
  BY DEF IInv, Typed, TypedStore, TypedCalls, TypedReader, TypeOK, WellFormed, Raws, Calls, Readers
<1> QED BY <1>1, Invariance, PTL

\* An asynchronous read beside which nothing else runs answers with what is
\* stored, whatever the layout and whatever is still being deleted.
THEOREM ReadsAgree == Spec => []AsyncReadAgrees
<1>1. IInv => AsyncReadAgrees
  BY DEF IInv, Alone, May, Sound, Answered, AsyncReadAgrees
<1> QED BY <1>1, Invariance, PTL

\* The chunked store is a register that loses a value only to a write that
\* was cut short, and never joins chunks of two values, when callers wait
\* for one call before the next (and the Better Auth client for its
\* deletions): for values of any length, from any layout, through any number
\* of calls, failures and deaths of the app.
THEOREM StoreIsRegister == Spec /\ Alone => IsRegister
<1>1. Init => Register!Init
  BY InitRefines
<1>2. IInv /\ IInv' /\ Alone /\ [Next]_vars => [Register!Next]_(Register!vars)
  BY NextRefines, ScenarioStays DEF IInv, Alone, May
<1>3. Alone /\ [Next]_vars => Alone'
  BY ScenarioStays DEF Alone, May
<1> QED BY <1>1, <1>2, <1>3, Invariance, PTL DEF Spec, IsRegister, Register!Spec
=============================================================================
