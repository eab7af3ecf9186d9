---------------------------- MODULE MCChunkedStore ----------------------------
(* ChunkedStore on small instances.                                        *)
EXTENDS ChunkedStore

TwoScenarios == {{}, {"late"}}
=============================================================================
