---------------------------- MODULE MCPushDevices ----------------------------
(* One phone and two accounts. *)
EXTENDS PushDevices

CONSTANTS anna, bert

BothAccounts == {anna, bert}

ThreeScenarios ==
    { [may |-> {"restart", "force"}, acts |-> 5],
      [may |-> {"restart", "force", "denied", "fail"}, acts |-> 5],
      [may |-> Behaviours, acts |-> 3] }
=============================================================================
