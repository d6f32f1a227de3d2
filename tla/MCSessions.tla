----------------------------- MODULE MCSessions -----------------------------
(***************************************************************************)
(* Instances of Sessions for TLC.                                          *)
(***************************************************************************)
EXTENDS Sessions, TLC

CONSTANTS u1, u2, s1, s2, t1, t2, t3, p1, p2

(* Session ids and tokens are random, so any two of a kind are alike.      *)
Draws == Permutations(Sessions) \cup Permutations(Tokens)

(* One goroutine serves those who use sessions, the other one those who    *)
(* end them and whoever presents a refresh token a second time.            *)
UsersAndEnders ==
  (p1 :> {"login", "refresh", "heartbeat"}) @@
  (p2 :> {"refresh", "logout", "revoke", "all"})

(* A single goroutine serves everything.                                   *)
Everything == p1 :> Ops

(* ... or only logins and the revocation of all sessions.                  *)
LoginAndAll == p1 :> {"login", "all"}
=============================================================================
