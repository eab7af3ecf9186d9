-------------------------- MODULE CrashSafeRegister --------------------------
(***************************************************************************)
(* What callers of packages/native-core/src/lib/secure-store-chunked.ts    *)
(* rely on: a register holding one value.  A write that completes is what  *)
(* is read until the next one starts.  A write under way, or one that was  *)
(* cut short, leaves the old value or nothing, never an older value and    *)
(* never a mixture.  A lossy register may also fall back at any time to an *)
(* earlier value or to nothing.                                            *)
(***************************************************************************)
CONSTANTS
    Value,    \* what may be stored
    Nothing,  \* what a read returns when nothing is stored
    Idle      \* no write is under way

VARIABLES
    value,    \* what a read returns
    writing,  \* what the write under way stores
    lossy     \* values may be lost without a write

vars == <<value, writing, lossy>>

Init ==
    /\ value \in Value
    /\ writing = Idle
    /\ lossy \in BOOLEAN

Begin ==
    /\ writing = Idle
    /\ writing' \in Value \cup {Nothing}
    /\ value' = value

Blank ==
    /\ writing # Idle
    /\ value' = Nothing
    /\ writing' = writing

Commit ==
    /\ writing # Idle
    /\ value' = writing
    /\ writing' = Idle

Abandon ==
    /\ writing # Idle
    /\ writing' = Idle
    /\ value' = value

Lose ==
    /\ lossy
    /\ value' \in Value \cup {Nothing}
    /\ writing' \in {writing, Idle}

Next == (Begin \/ Blank \/ Commit \/ Abandon \/ Lose) /\ lossy' = lossy

Spec == Init /\ [][Next]_vars
=============================================================================
