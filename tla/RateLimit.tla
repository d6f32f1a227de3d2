----------------------------- MODULE RateLimit ------------------------------
(***************************************************************************)
(* The rate limiter: internal/middleware/rate_limit.go and the chains of   *)
(* policies that internal/router/router.go puts before a handler.          *)
(*                                                                         *)
(* A policy is a Lua script that Redis runs atomically on one key, which   *)
(* tells the policy and the identity of the client.  Requests run on       *)
(* goroutines and meet the policies of their route one after the other.    *)
(* A call may fail, and its answer may be lost after it took effect;       *)
(* go-redis then makes the same call again.                                *)
(***************************************************************************)
EXTENDS Integers, Sequences, FiniteSets

CONSTANTS
  Names,      \* names of policies
  Policy,     \* Policy[n]: algorithm, identity, limit, span, open (FailOpen)
  Chains,     \* the sequences of policies before the handlers
  Clients,    \* address, user agent and user, as the request shows them
  Anonymous,  \* the user of a request without an access token
  Fields(_),  \* strings.Fields of a User-Agent header, joined
  Minute,     \* the least life of a bucket
  Retries,    \* how often go-redis makes a call again
  Procs,      \* goroutines that serve requests
  MaxTime,    \* bound: no tick after this time
  MaxCalls,   \* bound: calls of scripts that are not retries
  MaxFaults   \* bound: calls that fail or lose their answer

ValidPolicy(policy) ==
  /\ policy.limit > 0
  /\ policy.identity \in {"ip", "ip-user-agent", "user"}
  /\ policy.algorithm \in {"sliding-window", "token-bucket"}
  /\ policy.span > 0

(* A server with another policy does not start (Limit panics).             *)
ASSUME PolicyAssumption ==
  /\ Policy \in [Names -> [algorithm : STRING, identity : STRING, limit : Nat,
                           span : Nat, open : BOOLEAN]]
  /\ \A n \in Names : ValidPolicy(Policy[n])
ASSUME DomainAssumption ==
  /\ Chains \subseteq Seq(Names)
  /\ \A chain \in Chains : chain # <<>>
  /\ Clients \subseteq [address : STRING, agent : STRING, user : STRING]
  /\ Minute \in Nat /\ Retries \in Nat
  /\ {MaxTime, MaxCalls, MaxFaults} \subseteq Nat

VARIABLES
  now,        \* the clock of Redis
  windows,    \* windows[k]: a sorted set and the last instant of its life
  buckets,    \* buckets[k]: units at an instant, and the last of its life
  proc,       \* proc[p]: the request goroutine p serves
  calls,      \* calls made so far, which number them as their uuids do
  passed,     \* history: passed[k], the decisions that let a request pass
  taken,      \* history: units that have been taken out of bucket k
  promise,    \* history: when the last one refused may come back
  lost,       \* history: calls with an answer that was lost
  faults      \* failures so far

keyVars == <<windows, buckets, taken>>
vars == <<now, keyVars, proc, calls, passed, promise, lost, faults>>

-----------------------------------------------------------------------------
(* Keys.  A user is told by id wherever the client is, and by address when *)
(* there is none.                                                          *)
Identity(client, mode) ==
  CASE mode = "user" /\ client.user # Anonymous -> <<"user", client.user>>
    [] mode = "ip-user-agent" -> <<"client", client.address, Fields(client.agent)>>
    [] OTHER                  -> <<"ip", client.address>>

Key(n, client) == [policy |-> n, who |-> Identity(client, Policy[n].identity)]
Keys == {Key(n, client) : n \in Names, client \in Clients}

Algorithm(k) == Policy[k.policy].algorithm
Limit(k) == Policy[k.policy].limit
Span(k) == Policy[k.policy].span
WindowKeys == {k \in Keys : Algorithm(k) = "sliding-window"}
BucketKeys == Keys \ WindowKeys

(* A token is as many units as the ticks that refill it.                   *)
Full(k) == Limit(k) * Span(k)
Recovery(k) == IF 2 * Full(k) < Minute THEN Minute ELSE 2 * Full(k)

Larger(a, b) == IF a > b THEN a ELSE b
Smaller(a, b) == IF a < b THEN a ELSE b

-----------------------------------------------------------------------------
(* The sliding window script *)

(* Mutant: what is one tick short of a window old goes, too.               *)
RecentHasty(k) ==
  {e \in IF now <= windows[k].until THEN windows[k].entries ELSE {} :
     e.at > now + 1 - Span(k)}

Recent(k) ==
  {e \in IF now <= windows[k].until THEN windows[k].entries ELSE {} :
     e.at > now - Span(k)}

WindowRoom(k) == Cardinality(Recent(k)) < Limit(k)

(* ZADD moves a member that is there.                                      *)
Stamped(k, id) == {e \in Recent(k) : e.id # id} \cup {[at |-> now, id |-> id]}

(* Mutants: the life of the set counts from its first member; those who    *)
(* are refused are remembered as well.                                     *)
SlideFirst(k, id) ==
  /\ windows' = [windows EXCEPT ![k] =
       [entries |-> IF WindowRoom(k) THEN Stamped(k, id) ELSE Recent(k),
        until |-> IF Recent(k) = {} THEN now + Span(k) ELSE @.until]]
  /\ UNCHANGED <<buckets, taken>>

SlideAll(k, id) ==
  /\ windows' = [windows EXCEPT ![k] =
                   [entries |-> Stamped(k, id), until |-> now + Span(k)]]
  /\ UNCHANGED <<buckets, taken>>

Slide(k, id) ==
  /\ windows' = [windows EXCEPT ![k] =
       [entries |-> IF WindowRoom(k) THEN Stamped(k, id) ELSE Recent(k),
        until |-> now + Span(k)]]
  /\ UNCHANGED <<buckets, taken>>

Oldest(k) == CHOOSE t \in {e.at : e \in Recent(k)} : \A e \in Recent(k) : t <= e.at
WindowRetry(k) == Larger(Oldest(k) + Span(k) - now, 1)

-----------------------------------------------------------------------------
(* The token bucket script *)

(* Mutant: the refill does not stop at the capacity.                       *)
LevelUncapped(k) ==
  LET b == buckets[k]
  IN IF now <= b.until THEN b.units + Larger(now - b.at, 0) ELSE Full(k)

Level(k) ==
  LET b == buckets[k]
  IN IF now <= b.until THEN Smaller(Full(k), b.units + Larger(now - b.at, 0)) ELSE Full(k)

BucketRoom(k) == Level(k) >= Span(k)
Cost(k) == IF BucketRoom(k) THEN Span(k) ELSE 0

(* Mutants: a bucket's life counts from its first use; a refusal does not  *)
(* move the instant of the last refill.                                    *)
PourOnce(k) ==
  /\ buckets' = [buckets EXCEPT ![k] =
       [units |-> Level(k) - Cost(k), at |-> now,
        until |-> IF now <= @.until THEN @.until ELSE now + Recovery(k)]]
  /\ taken' = [taken EXCEPT ![k] = @ + Cost(k)]
  /\ UNCHANGED windows

PourStale(k) ==
  /\ buckets' = [buckets EXCEPT ![k] =
       [units |-> Level(k) - Cost(k), at |-> IF BucketRoom(k) THEN now ELSE @.at,
        until |-> now + Recovery(k)]]
  /\ taken' = [taken EXCEPT ![k] = @ + Cost(k)]
  /\ UNCHANGED windows

Pour(k) ==
  /\ buckets' = [buckets EXCEPT ![k] =
       [units |-> Level(k) - Cost(k), at |-> now, until |-> now + Recovery(k)]]
  /\ taken' = [taken EXCEPT ![k] = @ + Cost(k)]
  /\ UNCHANGED windows

(* Mutant: the wait is rounded down.                                       *)
BucketRetryShort(k) == Larger(Span(k) - Level(k) - 1, 1)

BucketRetry(k) == Span(k) - Level(k)

-----------------------------------------------------------------------------
(* evaluate *)

Room(k) == IF k \in WindowKeys THEN WindowRoom(k) ELSE BucketRoom(k)
RetryAfter(k) == IF k \in WindowKeys THEN WindowRetry(k) ELSE BucketRetry(k)
Run(k, id) == IF k \in WindowKeys THEN Slide(k, id) ELSE Pour(k)

-----------------------------------------------------------------------------
(* Requests *)

Idle == [stage |-> "idle"]

At(p, stage) == proc[p].stage = stage
Goes(p, r) == proc' = [proc EXCEPT ![p] = r]

(* A request has passed pos - 1 policies of its chain, by the calls in     *)
(* "by"; the calls that ask them are numbered from base + 1.               *)
Request(stage, client, chain, pos, base, by) ==
  [stage |-> stage, client |-> client, chain |-> chain, pos |-> pos,
   base |-> base, tries |-> 0, by |-> by]
Asking(client, chain) == Request("ask", client, chain, 1, calls, {})

First(p) == proc[p].chain[proc[p].pos]
Call(p) == proc[p].base + proc[p].pos
KeyOf(p) == Key(First(p), proc[p].client)

Arrive(p) ==
  /\ At(p, "idle")
  /\ \E client \in Clients, chain \in Chains :
       /\ calls + Len(chain) <= MaxCalls
       /\ Goes(p, Asking(client, chain))
       /\ calls' = calls + Len(chain)
  /\ UNCHANGED <<now, keyVars, passed, promise, lost, faults>>

(* c.Next(): on to the next policy or to the handler.                      *)
Proceed(p, by) ==
  LET r == proc[p]
  IN IF r.pos < Len(r.chain)
       THEN Goes(p, Request("ask", r.client, r.chain, r.pos + 1, r.base, by))
       ELSE Goes(p, Request("serve", r.client, r.chain, r.pos, r.base, by))

(* The script is run and its answer comes back.                            *)
Decide(p) ==
  /\ At(p, "ask") /\ proc[p].tries <= Retries
  /\ LET k == KeyOf(p)
     IN /\ Run(k, Call(p))
        /\ IF Room(k)
             THEN /\ passed' = [passed EXCEPT ![k] = @ \cup {[at |-> now, id |-> Call(p)]}]
                  /\ promise' = [promise EXCEPT ![k] = 0]
                  /\ Proceed(p, proc[p].by \cup {[policy |-> First(p), id |-> Call(p)]})
             ELSE /\ promise' = [promise EXCEPT ![k] = now + RetryAfter(k)]
                  /\ Goes(p, Idle)                                \* 429
                  /\ UNCHANGED passed
  /\ UNCHANGED <<now, calls, lost, faults>>

(* The script is run, but its answer is lost; or the call fails before it  *)
(* is run.  Either way the call is made again, with the same number.       *)
Lose(p) ==
  /\ faults < MaxFaults /\ faults' = faults + 1
  /\ At(p, "ask") /\ proc[p].tries <= Retries
  /\ LET k == KeyOf(p)
     IN /\ Run(k, Call(p))
        /\ promise' = IF Room(k) THEN [promise EXCEPT ![k] = 0] ELSE promise
  /\ lost' = lost \cup {Call(p)}
  /\ Goes(p, [proc[p] EXCEPT !.tries = @ + 1])
  /\ UNCHANGED <<now, calls, passed>>

Miss(p) ==
  /\ faults < MaxFaults /\ faults' = faults + 1
  /\ At(p, "ask") /\ proc[p].tries <= Retries
  /\ Goes(p, [proc[p] EXCEPT !.tries = @ + 1])
  /\ UNCHANGED <<now, keyVars, calls, passed, promise, lost>>

(* Mutant: every policy fails open.                                        *)
DegradeOpen(p) ==
  /\ At(p, "ask") /\ proc[p].tries > 0
  /\ Proceed(p, proc[p].by)
  /\ UNCHANGED <<now, keyVars, calls, passed, promise, lost, faults>>

(* The retries are used up, or the error is of another kind: the policy    *)
(* decides without Redis.                                                  *)
Degrade(p) ==
  /\ At(p, "ask") /\ proc[p].tries > 0
  /\ IF Policy[First(p)].open THEN Proceed(p, proc[p].by)
     ELSE Goes(p, Idle)                                           \* 503
  /\ UNCHANGED <<now, keyVars, calls, passed, promise, lost, faults>>

(* The handler and its answer.                                             *)
Serve(p) ==
  /\ At(p, "serve")
  /\ Goes(p, Idle)
  /\ UNCHANGED <<now, keyVars, calls, passed, promise, lost, faults>>

Tick ==
  /\ now < MaxTime
  /\ now' = now + 1
  /\ UNCHANGED <<keyVars, proc, calls, passed, promise, lost, faults>>

-----------------------------------------------------------------------------
Init ==
  /\ now = 1
  /\ windows = [k \in WindowKeys |-> [entries |-> {}, until |-> 0]]
  /\ buckets = [k \in BucketKeys |-> [units |-> 0, at |-> 0, until |-> 0]]
  /\ proc = [p \in Procs |-> Idle]
  /\ calls = 0
  /\ passed = [k \in Keys |-> {}]
  /\ taken = [k \in BucketKeys |-> 0]
  /\ promise = [k \in Keys |-> 0]
  /\ lost = {}
  /\ faults = 0

Handle(p) ==
  Arrive(p) \/ Decide(p) \/ Lose(p) \/ Miss(p) \/ Degrade(p) \/ Serve(p)

Next == Tick \/ \E p \in Procs : Handle(p)

Spec == Init /\ [][Next]_vars

-----------------------------------------------------------------------------
(* Properties *)

Stamps == [at : Nat, id : Nat]
Grants == [policy : Names, id : Nat]
Requests ==
  [stage : {"ask", "serve"}, client : Clients, chain : Chains, pos : Nat \ {0},
   base : Nat, tries : Nat, by : SUBSET Grants]

(* Types; a bucket never holds more than it can.                           *)
TypeOK ==
  /\ now \in Nat
  /\ windows \in [WindowKeys -> [entries : SUBSET Stamps, until : Nat]]
  /\ buckets \in [BucketKeys -> [units : Nat, at : Nat, until : Nat]]
  /\ \A k \in BucketKeys : buckets[k].units <= Full(k)
  /\ proc \in [Procs -> Requests \cup {Idle}]
  /\ \A p \in Procs : proc[p] # Idle => proc[p].pos <= Len(proc[p].chain)
  /\ calls \in Nat
  /\ passed \in [Keys -> SUBSET Stamps]
  /\ taken \in [BucketKeys -> Nat]
  /\ promise \in [Keys -> Nat]
  /\ lost \subseteq Nat
  /\ faults \in Nat

(* In no window of time, whenever it ends, are more requests let through   *)
(* than the limit of a sliding policy, whatever is retried.                *)
WindowBound ==
  \A k \in WindowKeys : \A last \in passed[k] :
    Cardinality({e \in passed[k] : last.at - Span(k) < e.at /\ e.at <= last.at})
      <= Limit(k)

(* What has been taken out of a bucket is covered by its capacity and by   *)
(* the time that has passed, though Redis forgets it now and then.         *)
BucketBound == \A k \in BucketKeys : taken[k] + Level(k) <= Full(k) + now - 1

(* Who was refused, waits as Retry-After says and is overtaken by nobody   *)
(* is let through by that policy.                                          *)
HonestRetryAfter == \A k \in Keys : promise[k] # 0 /\ now >= promise[k] => Room(k)

(* A slot is held by a request that was let through, or by one whose       *)
(* answer was lost: being refused costs nothing, however often one asks.   *)
NoPhantomSlots ==
  \A k \in WindowKeys : \A e \in windows[k].entries : e \in passed[k] \/ e.id \in lost

(* A handler behind policies that fail closed runs only for requests that  *)
(* each of them has let through, whether Redis answers or not.             *)
ClosedIsMetered ==
  \A p \in Procs : At(p, "serve") =>
    \A i \in DOMAIN proc[p].chain :
      LET n == proc[p].chain[i]
      IN \/ Policy[n].open
         \/ \E g \in proc[p].by, e \in passed[Key(n, proc[p].client)] :
              g.policy = n /\ g.id = e.id

(* What Redis is asked and forgets in between does not show: each key      *)
(* behaves as if a clock that never sleeps kept it.                        *)
Window(k) == INSTANCE WindowContract WITH
  Most <- Limit(k), Age <- Span(k), Calls <- 1 .. MaxCalls, recent <- Recent(k)
Bucket(k) == INSTANCE BucketContract WITH
  Capacity <- Full(k), Price <- Span(k), level <- Level(k)

KeepsWindowContract ==
  /\ \A k \in WindowKeys : Window(k)!Init
  /\ [][\A k \in WindowKeys : [Window(k)!Next]_<<now, Recent(k)>>]_vars
KeepsBucketContract ==
  /\ \A k \in BucketKeys : Bucket(k)!Init
  /\ [][\A k \in BucketKeys : [Bucket(k)!Next]_<<now, Level(k)>>]_vars
=============================================================================
