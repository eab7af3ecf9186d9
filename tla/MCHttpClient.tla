----------------------------- MODULE MCHttpClient -----------------------------
(* A few calls of each kind on small instances. *)
EXTENDS HttpClient

CONSTANTS post1, put1, anna, bert

TwoCalls == {post1, put1}
OnePut == {put1}
BothAccounts == {anna, bert}
=============================================================================
