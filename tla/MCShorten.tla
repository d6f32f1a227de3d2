------------------------------ MODULE MCShorten ------------------------------
(* Instances of Shorten for TLC.  Accounts, URLs and goroutines are model  *)
(* values; links and instants are numbers.                                 *)
EXTENDS Shorten, TLC

CONSTANTS u1, u2, adm, url1, url2, p1, p2, p3, w1, w2, c1, c2

OneUser == {u1}
TwoUsers == {u1, u2}
NoAccount == {}
OneLink == {1}
TwoLinks == {1, 2}
OneCode == {c1}
TwoCodes == {c1, c2}
OwnCode == (1 :> c1) @@ (2 :> c2)
OnlyCode == (1 :> c1)
Changes == Ops \ {"redirect"}
ChangerAlone == (p1 :> Changes)
ChangerAndReader == (p1 :> Changes) @@ (p2 :> {"redirect"})
TwoChangers == (p1 :> {"create", "delete"}) @@ (p2 :> {"update", "status"})
=============================================================================
