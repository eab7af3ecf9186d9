------------------------ MODULE MCReminderSchedule ------------------------
(* ReminderSchedule on small instances; instants are half minutes.          *)
EXTENDS ReminderSchedule, TLC

\* An event of one's own with one request at a time, a series with requests
\* that overlap, and an invitation with requests that overlap.
ThreeScenarios ==
    {[event |-> "own", alone |-> TRUE, requests |-> 3],
     [event |-> "series", alone |-> FALSE, requests |-> 3],
     [event |-> "invitation", alone |-> FALSE, requests |-> 4]}

Symmetry == Permutations(Request)
=============================================================================
