---------------------------- MODULE MCMailboxList ----------------------------
(* MailboxList on small instances.                                         *)
EXTENDS MailboxList

TwoScenarios == {{"remote", "refuseMove", "refuseRead"}, {"remote", "remoteInto", "refuseMove"}}
=============================================================================
