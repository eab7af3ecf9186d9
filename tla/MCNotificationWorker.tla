------------------------ MODULE MCNotificationWorker ------------------------
(* NotificationWorker on small instances: which settings the account has.   *)
EXTENDS NotificationWorker, TLC

\* Reminder mail would land in the mailbox the push announces: it is deferred.
DeferredPrefs == {[email |-> TRUE, push |-> TRUE, own |-> TRUE]}
\* With the two channels side by side too.
BothChannels == {p \in Settings : p.email /\ p.push}

Symmetry == Permutations(Worker)
=============================================================================
