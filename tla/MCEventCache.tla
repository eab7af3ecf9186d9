---------------------------- MODULE MCEventCache ----------------------------
(* Two days: a month for each, and a view that shows both. *)
EXTENDS EventCache

TwoDays == {1, 2}
MonthsAndView == {{1}, {2}, {1, 2}}
OneDayEach == {{1}, {2}}

ThreeScenarios ==
    { [may |-> {"overlap"}, muts |-> 2, stored |-> 2],
      [may |-> {"hasty", "refuse"}, muts |-> 2, stored |-> 1],
      [may |-> {"hasty", "paging", "refuse", "lost"}, muts |-> 1, stored |-> 1] }
=============================================================================
