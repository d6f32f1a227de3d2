---------------------------- MODULE MCRateLimit -----------------------------
(***************************************************************************)
(* An instance of RateLimit for TLC: the policies of the router, scaled    *)
(* down.  The public route has its two windows (an address may do more     *)
(* than a client at it), one route a bucket for users that fails closed,   *)
(* one a bucket for addresses that fails open.                             *)
(***************************************************************************)
EXTENDS RateLimit, TLC

CONSTANTS AbuseLimit, CreateLimit, WindowSpan, WindowTime, MaxRequests

Sliding(limit, identity) ==
  [algorithm |-> "sliding-window", identity |-> identity, limit |-> limit,
   span |-> WindowSpan, open |-> FALSE]
Tokens(limit, span, identity, open) ==
  [algorithm |-> "token-bucket", identity |-> identity, limit |-> limit,
   span |-> span, open |-> open]

RouterPolicies ==
  ("create-ip-abuse" :> Sliding(AbuseLimit, "ip")) @@
  ("create"          :> Sliding(CreateLimit, "ip-user-agent")) @@
  ("mine.create"     :> Tokens(1, 2, "user", FALSE)) @@
  ("redirect"        :> Tokens(2, 1, "ip", TRUE))
PolicyNames == DOMAIN RouterPolicies

PublicCreate == <<"create-ip-abuse", "create">>
RouterChains == {PublicCreate, <<"mine.create">>, <<"redirect">>}

(* One user with two user agents at one address.                           *)
RouterClients ==
  {[address |-> "a", agent |-> "Example  Agent", user |-> "u"],
   [address |-> "a", agent |-> "Other",          user |-> "u"]}
Joined(agent) == IF agent = "Example  Agent" THEN "Example Agent" ELSE agent

(* Goroutines are alike.                                                   *)
Goroutines == Permutations(Procs)

(* Bounds: requests of different routes share no key, so it is enough to   *)
(* look at those of one route at a time, and for twice a window.           *)
Touched ==
  {k.policy : k \in {k \in WindowKeys : windows[k].until > 0}
                 \cup {k \in BucketKeys : buckets[k].until > 0}}
OneRoute ==
  \E chain \in Chains :
    /\ Touched \subseteq {chain[i] : i \in DOMAIN chain}
    /\ \A p \in Procs : At(p, "idle") \/ proc[p].chain = chain
    /\ calls <= MaxRequests * Len(chain)
    /\ chain = PublicCreate => now <= WindowTime
=============================================================================
