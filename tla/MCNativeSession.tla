--------------------------- MODULE MCNativeSession ---------------------------
(* The native session on small instances. *)
EXTENDS NativeSession

TwoScenarios ==
    { [may |-> {"restart", "fail", "revoke"}, acts |-> 6],
      [may |-> Behaviours, acts |-> 3] }
=============================================================================
