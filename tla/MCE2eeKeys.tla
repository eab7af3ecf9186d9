----------------------------- MODULE MCE2eeKeys -----------------------------
(* The account keys on small instances. *)
EXTENDS E2eeKeys

CONSTANTS a1, a2, p1, b1

SixScenarios ==
    { [may |-> {"restart", "fail", "lose", "passkey", "leave"},
       accounts |-> {a1}, clients |-> {p1, b1}, acts |-> 4],
      [may |-> {"restart", "race"}, accounts |-> {a1}, clients |-> {p1, b1}, acts |-> 5],
      [may |-> {"restart", "leave", "passkey"}, accounts |-> {a1, a2}, clients |-> {p1}, acts |-> 4],
      [may |-> {"restart", "fail", "lose", "passkey"}, accounts |-> {a1}, clients |-> {p1}, acts |-> 5],
      [may |-> {"race", "lose", "cross"}, accounts |-> {a1}, clients |-> {p1, b1}, acts |-> 4],
      [may |-> {"restart", "over", "passkey"}, accounts |-> {a1, a2}, clients |-> {p1}, acts |-> 4] }
=============================================================================
