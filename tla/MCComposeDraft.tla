--------------------------- MODULE MCComposeDraft ---------------------------
(* ComposeDraft on small instances.                                        *)
EXTENDS ComposeDraft

SixScenarios ==
    { {"typeDuringSave"},
      {"attach", "replace", "refuseSave", "refuseDiscard"},
      Typing,
      {"typeDuringSave", "typeDuringClose", "repeat", "refuseSend"},
      {"attach", "staleToast", "repeat"},
      {"lose"} }
=============================================================================
