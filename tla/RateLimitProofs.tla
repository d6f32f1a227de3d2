--------------------------- MODULE RateLimitProofs --------------------------
EXTENDS RateLimit, FiniteSetTheorems, WellFoundedInduction, TLAPS

LEMMA KeyFacts ==
  ASSUME NEW k \in Keys
  PROVE  /\ k.policy \in Names
         /\ Limit(k) \in Nat \ {0}
         /\ Span(k) \in Nat \ {0}
         /\ Full(k) \in Nat
         /\ Span(k) <= Full(k)
         /\ Recovery(k) \in Nat
         /\ Full(k) <= Recovery(k)
<1>1. k.policy \in Names
  BY DEF Keys, Key
<1>2. Limit(k) \in Nat \ {0} /\ Span(k) \in Nat \ {0}
  BY <1>1, PolicyAssumption DEF Limit, Span, ValidPolicy
<1>3. \A a, b \in Nat \ {0} : a * b \in Nat /\ b <= a * b
  OBVIOUS
<1>4. Full(k) \in Nat /\ Span(k) <= Full(k)
  BY <1>2, <1>3 DEF Full
<1>5. Recovery(k) \in Nat /\ Full(k) <= Recovery(k)
  <2>. HIDE DEF Full
  <2>. QED  BY <1>4, DomainAssumption DEF Recovery
<1>. QED  BY <1>1, <1>2, <1>4, <1>5

LEMMA SplitKeys ==
  /\ WindowKeys \subseteq Keys /\ BucketKeys \subseteq Keys
  /\ Keys = WindowKeys \cup BucketKeys /\ WindowKeys \cap BucketKeys = {}
BY DEF WindowKeys, BucketKeys

LEMMA LeastExists ==
  ASSUME NEW T, T \subseteq Nat, T # {}
  PROVE  \E t \in T : \A u \in T : t <= u
<1>. DEFINE R == OpToRel(<, Nat)
<1>1. PICK t \in T : \A u \in T : ~(<<u, t>> \in R)
  <2>. HIDE DEF R
  <2>1. IsWellFoundedOn(R, Nat)
    BY NatLessThanWellFounded DEF R
  <2>. QED  BY <2>1, WFMin
<1>2. \A u \in T : ~(u < t)
  BY <1>1, Zenon DEF OpToRel
<1>. QED  BY <1>2

-----------------------------------------------------------------------------
(* What the two scripts compute *)

LEMMA RecentFacts ==
  ASSUME TypeOK, NEW k \in WindowKeys
  PROVE  /\ Recent(k) \subseteq windows[k].entries
         /\ windows[k].entries \subseteq Stamps
         /\ windows[k].until \in Nat
BY DEF TypeOK, Recent

LEMMA OldestFacts ==
  ASSUME TypeOK, NEW k \in WindowKeys, Recent(k) # {}
  PROVE  \E e \in Recent(k) : Oldest(k) = e.at /\ Oldest(k) \in Nat
<1>. DEFINE T == {e.at : e \in Recent(k)}
<1>1. T \subseteq Nat /\ T # {}
  BY RecentFacts DEF Stamps
<1>2. \E t \in T : \A u \in T : t <= u
  BY <1>1, LeastExists
<1>3. \E t \in T : \A e \in Recent(k) : t <= e.at
  BY <1>2
<1>4. Oldest(k) \in T
  BY <1>3 DEF Oldest
<1>. QED  BY <1>1, <1>4

LEMMA LevelFacts ==
  ASSUME TypeOK, NEW k \in BucketKeys
  PROVE  /\ Level(k) \in Nat
         /\ Level(k) <= Full(k)
         /\ Cost(k) \in Nat
         /\ Cost(k) <= Level(k)
<1>1. /\ buckets[k] \in [units : Nat, at : Nat, until : Nat]
      /\ now \in Nat
  BY DEF TypeOK
<1>2. Full(k) \in Nat /\ Span(k) \in Nat
  BY KeyFacts, SplitKeys
<1>3. Level(k) \in Nat /\ Level(k) <= Full(k)
  BY <1>1, <1>2 DEF Level, Smaller, Larger
<1>. QED  BY <1>2, <1>3 DEF Cost, BucketRoom

LEMMA RetryFacts ==
  ASSUME TypeOK, NEW k \in Keys, ~Room(k)
  PROVE  RetryAfter(k) \in Nat
<1>1. CASE k \in WindowKeys
  <2>1. Recent(k) # {}
    <3>1. SUFFICES ASSUME Recent(k) = {} PROVE FALSE
      OBVIOUS
    <3>2. Cardinality(Recent(k)) = 0
      BY <3>1, FS_EmptySet
    <3>. QED  BY <1>1, <3>2, KeyFacts DEF Room, WindowRoom
  <2>2. Oldest(k) \in Nat /\ Span(k) \in Nat /\ now \in Nat
    BY <1>1, <2>1, OldestFacts, KeyFacts DEF TypeOK
  <2>. QED  BY <1>1, <2>2 DEF RetryAfter, WindowRetry, Larger
<1>2. CASE k \notin WindowKeys
  <2>1. k \in BucketKeys
    BY <1>2, SplitKeys
  <2>2. Level(k) \in Nat /\ Span(k) \in Nat
    BY <2>1, LevelFacts, KeyFacts
  <2>. QED  BY <1>2, <2>2 DEF Room, RetryAfter, BucketRoom, BucketRetry
<1>. QED  BY <1>1, <1>2

-----------------------------------------------------------------------------
(* Type correctness *)

LEMMA AskFacts ==
  ASSUME TypeOK, NEW p \in Procs, At(p, "ask")
  PROVE  /\ proc[p] \in Requests
         /\ First(p) \in Names
         /\ KeyOf(p) \in Keys
         /\ Call(p) \in Nat \ {0}
         /\ proc[p].pos <= Len(proc[p].chain)
         /\ proc[p].chain \in Chains /\ proc[p].chain \in Seq(Names)
<1>1. proc[p] \in Requests \cup {Idle} /\ proc[p] # Idle
  BY DEF TypeOK, At, Idle
<1>2. proc[p].pos <= Len(proc[p].chain)
  BY <1>1 DEF TypeOK
<1>3. proc[p].chain \in Chains /\ proc[p].pos \in Nat \ {0} /\ proc[p].base \in Nat
      /\ proc[p].client \in Clients
  BY <1>1 DEF Requests
<1>4. proc[p].chain \in Seq(Names)
  BY <1>3, DomainAssumption
<1>5. First(p) \in Names
  BY <1>2, <1>3, <1>4 DEF First
<1>6. KeyOf(p) \in Keys
  BY <1>3, <1>5 DEF KeyOf, Keys
<1>. QED  BY <1>1, <1>2, <1>3, <1>4, <1>5, <1>6 DEF Call

(* What an evaluation does to the keys keeps their types.                  *)
LEMMA RunTyped ==
  ASSUME TypeOK, NEW k \in Keys, NEW id \in Nat, Run(k, id)
  PROVE  /\ windows' \in [WindowKeys -> [entries : SUBSET Stamps, until : Nat]]
         /\ buckets' \in [BucketKeys -> [units : Nat, at : Nat, until : Nat]]
         /\ \A b \in BucketKeys : buckets'[b].units <= Full(b)
         /\ taken' \in [BucketKeys -> Nat]
<1>1. CASE k \in WindowKeys
  <2>1. Recent(k) \subseteq Stamps /\ Stamped(k, id) \subseteq Stamps
    BY <1>1, RecentFacts DEF Stamped, Stamps, TypeOK
  <2>2. now + Span(k) \in Nat
    BY KeyFacts DEF TypeOK
  <2>. QED  BY <1>1, <2>1, <2>2 DEF Run, Slide, TypeOK
<1>2. CASE k \notin WindowKeys
  <2>1. k \in BucketKeys /\ Pour(k)
    BY <1>2, SplitKeys DEF Run
  <2>. DEFINE b == [units |-> Level(k) - Cost(k), at |-> now, until |-> now + Recovery(k)]
  <2>2. b \in [units : Nat, at : Nat, until : Nat] /\ b.units <= Full(k)
    <3>1. Level(k) \in Nat /\ Level(k) <= Full(k) /\ Cost(k) \in Nat /\ Cost(k) <= Level(k)
      BY <2>1, LevelFacts
    <3>2. Full(k) \in Nat /\ Recovery(k) \in Nat /\ now \in Nat
      BY KeyFacts DEF TypeOK
    <3>. QED  BY <3>1, <3>2
  <2>3. buckets' = [buckets EXCEPT ![k] = b]
    BY <2>1 DEF Pour
  <2>4. taken' \in [BucketKeys -> Nat] /\ windows' = windows
    <3>1. Cost(k) \in Nat
      BY <2>1, LevelFacts
    <3>. QED  BY <2>1, <3>1 DEF Pour, TypeOK
  <2>. HIDE DEF b
  <2>5. /\ buckets' \in [BucketKeys -> [units : Nat, at : Nat, until : Nat]]
        /\ \A c \in BucketKeys : buckets'[c].units <= Full(c)
    BY <2>1, <2>2, <2>3 DEF TypeOK
  <2>. QED  BY <2>4, <2>5 DEF TypeOK
<1>. QED  BY <1>1, <1>2

(* A request after one more failure, and after it was let through.         *)
Again(r) == [r EXCEPT !.tries = @ + 1]
Onward(r, by) == Request("ask", r.client, r.chain, r.pos + 1, r.base, by)
Through(r, by) == Request("serve", r.client, r.chain, r.pos, r.base, by)

LEMMA RequestFields ==
  ASSUME NEW r \in Requests, NEW by \in SUBSET Grants
  PROVE  /\ Again(r) \in Requests /\ Again(r).pos = r.pos /\ Again(r).chain = r.chain
         /\ Again(r).base = r.base /\ Again(r).stage = r.stage
         /\ Onward(r, by) \in Requests /\ Onward(r, by).pos = r.pos + 1
         /\ Onward(r, by).chain = r.chain /\ Onward(r, by).base = r.base
         /\ Onward(r, by).stage = "ask"
         /\ Through(r, by) \in Requests /\ Through(r, by).pos = r.pos
         /\ Through(r, by).chain = r.chain /\ Through(r, by).stage = "serve"
<1>1. Again(r) = [stage |-> r.stage, client |-> r.client, chain |-> r.chain, pos |-> r.pos,
                  base |-> r.base, tries |-> r.tries + 1, by |-> r.by]
  BY DEF Again, Requests
<1>2. r.stage \in {"ask", "serve"} /\ r.client \in Clients /\ r.chain \in Chains
      /\ r.pos \in Nat \ {0} /\ r.base \in Nat /\ r.tries \in Nat /\ r.by \in SUBSET Grants
  BY DEF Requests
<1>3. Again(r) \in Requests
  BY <1>1, <1>2 DEF Requests
<1>4. Onward(r, by) \in Requests
  BY <1>2 DEF Onward, Request, Requests
<1>5. Through(r, by) \in Requests
  BY <1>2 DEF Through, Request, Requests
<1>. QED  BY <1>1, <1>3, <1>4, <1>5 DEF Onward, Through, Request

ProcTyped ==
  /\ proc \in [Procs -> Requests \cup {Idle}]
  /\ \A p \in Procs : proc[p] # Idle => proc[p].pos <= Len(proc[p].chain)

LEMMA GoesTyped ==
  ASSUME TypeOK, NEW p \in Procs, NEW r, Goes(p, r),
         r = Idle \/ (r \in Requests /\ r.pos <= Len(r.chain))
  PROVE  ProcTyped'
BY DEF TypeOK, Goes, ProcTyped

LEMMA ProceedTyped ==
  ASSUME TypeOK, NEW p \in Procs, At(p, "ask"), NEW by \in SUBSET Grants, Proceed(p, by)
  PROVE  ProcTyped'
<1>. DEFINE r == proc[p]
<1>1. r \in Requests /\ r.pos <= Len(r.chain) /\ r.chain \in Seq(Names) /\ r.pos \in Nat
  BY AskFacts DEF Requests
<1>2. CASE r.pos < Len(r.chain)
  <2>1. Goes(p, Onward(r, by))
    BY <1>2 DEF Proceed, Onward
  <2>. QED  BY <1>1, <1>2, <2>1, RequestFields, GoesTyped
<1>3. CASE ~(r.pos < Len(r.chain))
  <2>1. Goes(p, Through(r, by))
    BY <1>3 DEF Proceed, Through
  <2>. QED  BY <1>1, <2>1, RequestFields, GoesTyped
<1>. QED  BY <1>2, <1>3

(* TypeOK.                                                                 *)
THEOREM TypeCorrect == Spec => []TypeOK
<1>1. Init => TypeOK
  BY KeyFacts, SplitKeys DEF Init, TypeOK, Idle
<1>2. TypeOK /\ [Next]_vars => TypeOK'
  <2>. SUFFICES ASSUME TypeOK, [Next]_vars PROVE TypeOK'
    OBVIOUS
  <2>. USE DEF keyVars
  <2>1. ASSUME NEW p \in Procs, Arrive(p) PROVE TypeOK'
    <3>1. PICK client \in Clients, chain \in Chains :
            Goes(p, Asking(client, chain)) /\ calls' = calls + Len(chain)
      BY <2>1 DEF Arrive
    <3>2. chain \in Seq(Names) /\ chain # <<>>
      BY DomainAssumption
    <3>3. Len(chain) \in Nat /\ 1 <= Len(chain)
      BY <3>2
    <3>4. Asking(client, chain) \in Requests /\ Asking(client, chain).pos <= Len(Asking(client, chain).chain)
      BY <3>3 DEF Asking, Request, Requests, TypeOK
    <3>5. ProcTyped'
      BY <3>1, <3>4, GoesTyped
    <3>6. calls' \in Nat
      BY <3>1, <3>3 DEF TypeOK
    <3>. QED  BY <2>1, <3>5, <3>6 DEF TypeOK, ProcTyped, Arrive
  <2>2. ASSUME NEW p \in Procs, Decide(p) PROVE TypeOK'
    <3>. DEFINE k == KeyOf(p)
    <3>1. At(p, "ask") /\ Run(k, Call(p)) /\ UNCHANGED <<now, calls, lost, faults>>
      BY <2>2 DEF Decide
    <3>2. k \in Keys /\ Call(p) \in Nat /\ First(p) \in Names /\ proc[p] \in Requests
      BY <3>1, AskFacts
    <3>3. CASE Room(k)
      <4>1. /\ passed' = [passed EXCEPT ![k] = @ \cup {[at |-> now, id |-> Call(p)]}]
            /\ promise' = [promise EXCEPT ![k] = 0]
            /\ Proceed(p, proc[p].by \cup {[policy |-> First(p), id |-> Call(p)]})
        BY <2>2, <3>3 DEF Decide
      <4>2. proc[p].by \cup {[policy |-> First(p), id |-> Call(p)]} \in SUBSET Grants
        BY <3>2 DEF Requests, Grants
      <4>3. ProcTyped'
        BY <3>1, <4>1, <4>2, ProceedTyped
      <4>4. passed' \in [Keys -> SUBSET Stamps] /\ promise' \in [Keys -> Nat]
        BY <3>2, <4>1 DEF TypeOK, Stamps
      <4>. QED  BY <3>1, <3>2, <4>3, <4>4, RunTyped DEF TypeOK, ProcTyped
    <3>4. CASE ~Room(k)
      <4>1. /\ promise' = [promise EXCEPT ![k] = now + RetryAfter(k)]
            /\ Goes(p, Idle) /\ UNCHANGED passed
        BY <2>2, <3>4 DEF Decide
      <4>2. ProcTyped'
        BY <4>1, GoesTyped
      <4>3. promise' \in [Keys -> Nat]
        BY <3>2, <3>4, <4>1, RetryFacts DEF TypeOK
      <4>. QED  BY <3>1, <3>2, <4>1, <4>2, <4>3, RunTyped DEF TypeOK, ProcTyped
    <3>. QED  BY <3>3, <3>4
  <2>3. ASSUME NEW p \in Procs, Lose(p) \/ Miss(p) PROVE TypeOK'
    <3>1. At(p, "ask") /\ Goes(p, Again(proc[p])) /\ faults' = faults + 1 /\ UNCHANGED <<now, calls, passed>>
      BY <2>3 DEF Lose, Miss, Again
    <3>2. KeyOf(p) \in Keys /\ Call(p) \in Nat /\ proc[p] \in Requests
          /\ proc[p].pos <= Len(proc[p].chain)
      BY <3>1, AskFacts
    <3>3. Again(proc[p]) \in Requests /\ Again(proc[p]).pos <= Len(Again(proc[p]).chain)
      BY <3>2, RequestFields DEF Requests
    <3>4. ProcTyped'
      BY <3>1, <3>3, GoesTyped
    <3>5. CASE Lose(p)
      <4>1. /\ Run(KeyOf(p), Call(p))
            /\ lost' = lost \cup {Call(p)}
            /\ promise' \in [Keys -> Nat]
        BY <3>5 DEF Lose, TypeOK
      <4>2. lost' \subseteq Nat /\ faults' \in Nat
        <5>1. lost \subseteq Nat /\ faults \in Nat
          BY DEF TypeOK
        <5>2. Call(p) \in Nat
          BY <3>2
        <5>3. lost' = lost \cup {Call(p)} /\ faults' = faults + 1
          BY <3>1, <4>1
        <5>4. faults' \in Nat
          BY <5>1, <5>3
        <5>5. lost' \subseteq Nat
          BY <5>1, <5>2, <5>3, Zenon
        <5>. QED  BY <5>4, <5>5
      <4>. QED  BY <3>1, <3>2, <3>4, <4>1, <4>2, RunTyped DEF TypeOK, ProcTyped
    <3>6. CASE Miss(p)
      BY <3>1, <3>4, <3>6 DEF Miss, TypeOK, ProcTyped
    <3>. QED  BY <2>3, <3>5, <3>6
  <2>4. ASSUME NEW p \in Procs, Degrade(p) PROVE TypeOK'
    <3>1. At(p, "ask") /\ UNCHANGED <<now, keyVars, calls, passed, promise, lost, faults>>
      BY <2>4 DEF Degrade
    <3>2. proc[p].by \in SUBSET Grants
      BY <3>1, AskFacts DEF Requests
    <3>3. Proceed(p, proc[p].by) \/ Goes(p, Idle)
      BY <2>4 DEF Degrade
    <3>4. ProcTyped'
      BY <3>1, <3>2, <3>3, ProceedTyped, GoesTyped
    <3>. QED  BY <3>1, <3>4 DEF TypeOK, ProcTyped
  <2>5. ASSUME NEW p \in Procs, Serve(p) PROVE TypeOK'
    <3>1. ProcTyped'
      BY <2>5, GoesTyped DEF Serve
    <3>. QED  BY <2>5, <3>1 DEF Serve, TypeOK, ProcTyped
  <2>6. CASE Tick
    BY <2>6 DEF Tick, TypeOK
  <2>7. CASE UNCHANGED vars
    BY <2>7 DEF vars, TypeOK
  <2>. QED  BY <2>1, <2>2, <2>3, <2>4, <2>5, <2>6, <2>7 DEF Next, Handle
<1>. QED  BY <1>1, <1>2, PTL DEF Spec

-----------------------------------------------------------------------------
(* The kinds of steps: the clock, a script that is run, and the rest.      *)

Ran(p, k) ==
  /\ At(p, "ask") /\ k = KeyOf(p)
  /\ Run(k, Call(p))
  /\ now' = now

Calm == UNCHANGED <<now, keyVars>>

LEMMA StepKinds ==
  ASSUME [Next]_vars
  PROVE  Tick \/ Calm \/ \E p \in Procs : Ran(p, KeyOf(p))
<1>1. ASSUME NEW p \in Procs, Handle(p) PROVE Calm \/ Ran(p, KeyOf(p))
  BY <1>1 DEF Handle, Calm, Ran, Arrive, Decide, Lose, Miss, Degrade, Serve, keyVars
<1>. QED  BY <1>1 DEF Next, vars, Calm, keyVars

-----------------------------------------------------------------------------
(* Buckets.  A bucket is forgotten only after it would have been full.     *)

BucketKept(k) ==
  /\ buckets[k].at <= now
  /\ buckets[k].until = 0 \/ buckets[k].at + Full(k) <= buckets[k].until
BucketInv == 1 <= now /\ \A k \in BucketKeys : BucketKept(k)

LEMMA LevelAfterTick ==
  ASSUME TypeOK, BucketInv, NEW k \in BucketKeys, Tick
  PROVE  Level(k)' = IF Level(k) < Full(k) THEN Level(k) + 1 ELSE Level(k)
<1>. DEFINE b == buckets[k]
<1>1. b \in [units : Nat, at : Nat, until : Nat] /\ b.units <= Full(k) /\ now \in Nat
  BY DEF TypeOK
<1>2. Full(k) \in Nat
  BY KeyFacts, SplitKeys
<1>3. 1 <= now /\ b.at <= now /\ (b.until = 0 \/ b.at + Full(k) <= b.until)
  BY DEF BucketInv, BucketKept
<1>4. now' = now + 1 /\ buckets' = buckets
  BY DEF Tick, keyVars
<1>5. Level(k) = IF now <= b.until
                   THEN IF Full(k) < b.units + (now - b.at) THEN Full(k) ELSE b.units + (now - b.at)
                   ELSE Full(k)
  BY <1>1, <1>2, <1>3 DEF Level, Smaller, Larger
<1>6. Level(k)' = IF now + 1 <= b.until
                    THEN IF Full(k) < b.units + (now + 1 - b.at) THEN Full(k)
                         ELSE b.units + (now + 1 - b.at)
                    ELSE Full(k)
  BY <1>1, <1>2, <1>3, <1>4 DEF Level, Smaller, Larger
<1>. HIDE DEF b
<1>. QED  BY <1>1, <1>2, <1>3, <1>5, <1>6

LEMMA LevelAfterPour ==
  ASSUME TypeOK, NEW k \in BucketKeys, Pour(k), now' = now
  PROVE  Level(k)' = Level(k) - Cost(k)
<1>1. buckets'[k] = [units |-> Level(k) - Cost(k), at |-> now, until |-> now + Recovery(k)]
  BY DEF Pour, TypeOK
<1>2. Level(k) \in Nat /\ Cost(k) \in Nat /\ Cost(k) <= Level(k) /\ Level(k) <= Full(k)
  BY LevelFacts
<1>3. Full(k) \in Nat /\ Recovery(k) \in Nat /\ now \in Nat
  BY KeyFacts, SplitKeys DEF TypeOK
<1>4. Level(k)' = Smaller(Full(k), (Level(k) - Cost(k)) + Larger(now - now, 0))
  BY <1>1, <1>3 DEF Level
<1>. QED  BY <1>2, <1>3, <1>4 DEF Smaller, Larger

LEMMA LevelElsewhere ==
  ASSUME NEW k \in BucketKeys, now' = now, buckets'[k] = buckets[k]
  PROVE  Level(k)' = Level(k)
BY DEF Level

(* A script that is run leaves the other buckets alone.                    *)
LEMMA RunBuckets ==
  ASSUME TypeOK, NEW p \in Procs, Ran(p, KeyOf(p)), NEW k \in BucketKeys
  PROVE  \/ k = KeyOf(p) /\ Pour(k)
         \/ buckets'[k] = buckets[k] /\ taken'[k] = taken[k]
<1>1. KeyOf(p) \in Keys /\ Run(KeyOf(p), Call(p))
  BY AskFacts DEF Ran
<1>2. CASE KeyOf(p) \in WindowKeys
  BY <1>1, <1>2 DEF Run, Slide
<1>3. CASE KeyOf(p) \notin WindowKeys
  <2>1. Pour(KeyOf(p))
    BY <1>1, <1>3 DEF Run
  <2>. QED  BY <2>1 DEF Pour, TypeOK
<1>. QED  BY <1>2, <1>3

LEMMA BucketInvStep ==
  ASSUME TypeOK, BucketInv, [Next]_vars
  PROVE  BucketInv'
<1>0. now \in Nat
  BY DEF TypeOK
<1>1. CASE Tick
  <2>1. \A k \in BucketKeys : buckets[k].at \in Nat
    BY DEF TypeOK
  <2>2. now' = now + 1 /\ buckets' = buckets
    BY <1>1 DEF Tick, keyVars
  <2>3. ASSUME NEW k \in BucketKeys PROVE BucketKept(k)'
    BY <1>0, <2>1, <2>2 DEF BucketInv, BucketKept
  <2>. QED  BY <1>0, <2>2, <2>3 DEF BucketInv
<1>2. CASE Calm
  BY <1>2 DEF Calm, keyVars, BucketInv, BucketKept
<1>3. ASSUME NEW p \in Procs, Ran(p, KeyOf(p)) PROVE BucketInv'
  <2>1. now' = now
    BY <1>3 DEF Ran
  <2>2. ASSUME NEW k \in BucketKeys PROVE BucketKept(k)'
    <3>1. CASE Pour(k)
      <4>1. buckets'[k].at = now /\ buckets'[k].until = now + Recovery(k)
        BY <3>1 DEF Pour, TypeOK
      <4>2. Full(k) \in Nat /\ Recovery(k) \in Nat /\ Full(k) <= Recovery(k)
        BY KeyFacts, SplitKeys
      <4>. QED  BY <1>0, <2>1, <4>1, <4>2 DEF BucketKept
    <3>2. CASE buckets'[k] = buckets[k]
      BY <2>1, <3>2 DEF BucketInv, BucketKept
    <3>. QED  BY <1>3, <3>1, <3>2, RunBuckets
  <2>. QED  BY <2>1, <2>2 DEF BucketInv
<1>. QED  BY <1>1, <1>2, <1>3, StepKinds

LEMMA BucketInvHolds == Spec => []BucketInv
<1>1. Init => BucketInv
  BY DEF Init, BucketInv, BucketKept
<1>. QED  BY <1>1, TypeCorrect, BucketInvStep, PTL DEF Spec

(* BucketBound: capacity and time cover what was taken.                    *)
THEOREM BucketBounded == Spec => []BucketBound
<1>1. Init => BucketBound
  <2>. SUFFICES ASSUME Init, NEW k \in BucketKeys
                PROVE  taken[k] + Level(k) <= Full(k) + now - 1
    BY DEF BucketBound
  <2>1. Level(k) = Full(k) /\ taken[k] = 0 /\ now = 1
    BY DEF Init, Level
  <2>2. Full(k) \in Nat
    BY KeyFacts, SplitKeys
  <2>. QED  BY <2>1, <2>2
<1>2. TypeOK /\ BucketInv /\ BucketBound /\ [Next]_vars => BucketBound'
  <2>. SUFFICES ASSUME TypeOK, BucketInv, BucketBound, [Next]_vars, NEW k \in BucketKeys
                PROVE  taken'[k] + Level(k)' <= Full(k) + now' - 1
    BY DEF BucketBound
  <2>0. /\ taken[k] \in Nat /\ now \in Nat /\ Full(k) \in Nat
        /\ Level(k) \in Nat /\ Cost(k) \in Nat
        /\ taken[k] + Level(k) <= Full(k) + now - 1
    BY LevelFacts, KeyFacts, SplitKeys DEF BucketBound, TypeOK
  <2>1. CASE Tick
    <3>1. now' = now + 1 /\ taken' = taken
      BY <2>1 DEF Tick, keyVars
    <3>2. Level(k)' <= Level(k) + 1 /\ Level(k)' \in Nat
      BY <2>0, <2>1, LevelAfterTick
    <3>. QED  BY <2>0, <3>1, <3>2
  <2>2. CASE Calm
    BY <2>0, <2>2, LevelElsewhere DEF Calm, keyVars
  <2>3. ASSUME NEW p \in Procs, Ran(p, KeyOf(p)) PROVE taken'[k] + Level(k)' <= Full(k) + now' - 1
    <3>1. now' = now
      BY <2>3 DEF Ran
    <3>2. CASE Pour(k)
      <4>1. Level(k)' = Level(k) - Cost(k)
        BY <3>1, <3>2, LevelAfterPour
      <4>2. taken'[k] = taken[k] + Cost(k)
        BY <3>2 DEF Pour, TypeOK
      <4>. QED  BY <2>0, <3>1, <4>1, <4>2
    <3>3. CASE buckets'[k] = buckets[k] /\ taken'[k] = taken[k]
      BY <2>0, <3>1, <3>3, LevelElsewhere
    <3>. QED  BY <2>3, <3>2, <3>3, RunBuckets
  <2>. QED  BY <2>1, <2>2, <2>3, StepKinds
<1>. QED  BY <1>1, <1>2, TypeCorrect, BucketInvHolds, PTL DEF Spec

(* KeepsBucketContract: a bucket that is looked at now and then, and       *)
(* forgotten in between, behaves as the one that is filled tick by tick.   *)
THEOREM BucketsKeepContract == Spec => KeepsBucketContract
<1>1. Init => \A k \in BucketKeys : Bucket(k)!Init
  BY DEF Init, Bucket!Init, Level
<1>2. ASSUME TypeOK, BucketInv, [Next]_vars, NEW k \in BucketKeys
      PROVE  [Bucket(k)!Next]_<<now, Level(k)>>
  <2>1. CASE Tick
    <3>1. now' = now + 1
      BY <2>1 DEF Tick
    <3>. QED  BY <1>2, <2>1, <3>1, LevelAfterTick DEF Bucket!Next, Bucket!Tick
  <2>2. CASE Calm
    BY <2>2, LevelElsewhere DEF Calm, keyVars
  <2>3. ASSUME NEW p \in Procs, Ran(p, KeyOf(p)) PROVE [Bucket(k)!Next]_<<now, Level(k)>>
    <3>1. now' = now
      BY <2>3 DEF Ran
    <3>2. CASE Pour(k) /\ BucketRoom(k)
      <4>1. Level(k)' = Level(k) - Span(k)
        BY <1>2, <3>1, <3>2, LevelAfterPour DEF Cost
      <4>. QED  BY <3>1, <3>2, <4>1 DEF Bucket!Next, Bucket!Take, BucketRoom
    <3>3. CASE Pour(k) /\ ~BucketRoom(k)
      <4>1. Level(k)' = Level(k) - 0
        BY <1>2, <3>1, <3>3, LevelAfterPour DEF Cost
      <4>2. Level(k) \in Nat
        BY <1>2, LevelFacts
      <4>. QED  BY <3>1, <4>1, <4>2
    <3>4. CASE buckets'[k] = buckets[k]
      BY <3>1, <3>4, LevelElsewhere
    <3>. QED  BY <1>2, <2>3, <3>2, <3>3, <3>4, RunBuckets
  <2>. QED  BY <1>2, <2>1, <2>2, <2>3, StepKinds
<1>3. TypeOK /\ BucketInv /\ [Next]_vars
        => [\A k \in BucketKeys : [Bucket(k)!Next]_<<now, Level(k)>>]_vars
  BY <1>2
<1>. QED  BY <1>1, <1>3, TypeCorrect, BucketInvHolds, PTL DEF Spec, KeepsBucketContract

-----------------------------------------------------------------------------
(* What a step adds to the histories                                       *)

Stamp(p) == [at |-> now, id |-> Call(p)]

LetThrough(p) ==
  /\ Room(KeyOf(p))
  /\ promise' = [promise EXCEPT ![KeyOf(p)] = 0]
  /\ \/ passed' = passed
     \/ passed' = [passed EXCEPT ![KeyOf(p)] = @ \cup {Stamp(p)}]
Refused(p) ==
  /\ ~Room(KeyOf(p))
  /\ passed' = passed
  /\ \/ promise' = promise
     \/ promise' = [promise EXCEPT ![KeyOf(p)] = now + RetryAfter(KeyOf(p))]

LEMMA StepHistory ==
  ASSUME [Next]_vars
  PROVE  \/ (Tick \/ Calm) /\ UNCHANGED <<passed, promise>>
         \/ \E p \in Procs : Ran(p, KeyOf(p)) /\ (LetThrough(p) \/ Refused(p))
<1>1. ASSUME NEW p \in Procs, Decide(p)
      PROVE  Ran(p, KeyOf(p)) /\ (LetThrough(p) \/ Refused(p))
  BY <1>1 DEF Decide, Ran, LetThrough, Refused, Stamp
<1>2. ASSUME NEW p \in Procs, Lose(p)
      PROVE  Ran(p, KeyOf(p)) /\ (LetThrough(p) \/ Refused(p))
  BY <1>2 DEF Lose, Ran, LetThrough, Refused
<1>3. ASSUME NEW p \in Procs, Arrive(p) \/ Miss(p) \/ Degrade(p) \/ Serve(p)
      PROVE  Calm /\ UNCHANGED <<passed, promise>>
  BY <1>3 DEF Arrive, Miss, Degrade, Serve, Calm, keyVars
<1>. QED  BY <1>1, <1>2, <1>3 DEF Next, Handle, vars, Tick, Calm, keyVars

-----------------------------------------------------------------------------
(* Calls are numbered apart: no number that is still to be used has been   *)
(* let through.                                                            *)

Pending(r) == IF r.stage = "ask"
              THEN {i \in Nat : r.base + r.pos <= i /\ i <= r.base + Len(r.chain)}
              ELSE {}
NumberInv ==
  /\ calls <= MaxCalls
  /\ \A p \in Procs : \A i \in Pending(proc[p]) : 1 <= i /\ i <= calls
  /\ \A p, q \in Procs : p # q => Pending(proc[p]) \cap Pending(proc[q]) = {}
  /\ \A k \in Keys : \A e \in passed[k] :
       e.id <= calls /\ \A p \in Procs : e.id \notin Pending(proc[p])

(* A step of one request that uses or gives up numbers.                    *)
LEMMA NumbersUsed ==
  ASSUME TypeOK, NumberInv, NEW p \in Procs, NEW r, Goes(p, r), calls' = calls,
         Pending(r) \subseteq Pending(proc[p]),
         \A k \in Keys : \A e \in passed'[k] :
           e \in passed[k] \/ (e.id \in Pending(proc[p]) \ Pending(r))
  PROVE  NumberInv'
<1>1. proc'[p] = r /\ \A q \in Procs : q # p => proc'[q] = proc[q]
  BY DEF Goes, TypeOK
<1>2. \A q \in Procs : Pending(proc'[q]) \subseteq Pending(proc[q])
  BY <1>1
<1>3. ASSUME NEW k \in Keys, NEW e \in passed'[k]
      PROVE  e.id <= calls /\ \A q \in Procs : e.id \notin Pending(proc'[q])
  <2>1. CASE e \in passed[k]
    BY <1>2, <2>1 DEF NumberInv
  <2>2. CASE e.id \in Pending(proc[p]) \ Pending(r)
    BY <1>1, <2>2 DEF NumberInv
  <2>. QED  BY <1>3, <2>1, <2>2
<1>. QED  BY <1>2, <1>3 DEF NumberInv

LEMMA ProceedNumbers ==
  ASSUME TypeOK, NEW p \in Procs, At(p, "ask"), NEW by \in SUBSET Grants, Proceed(p, by)
  PROVE  \E r : /\ Goes(p, r)
                /\ Pending(r) \subseteq Pending(proc[p])
                /\ Call(p) \in Pending(proc[p]) \ Pending(r)
<1>. DEFINE r == proc[p]
<1>1. /\ r \in Requests /\ r.pos \in Nat \ {0} /\ r.base \in Nat /\ r.pos <= Len(r.chain)
      /\ Len(r.chain) \in Nat
  BY AskFacts DEF Requests
<1>2. Pending(r) = {i \in Nat : r.base + r.pos <= i /\ i <= r.base + Len(r.chain)}
  BY DEF Pending, At
<1>3. Call(p) \in Pending(r) /\ Call(p) = r.base + r.pos
  BY <1>1, <1>2 DEF Call
<1>4. CASE r.pos < Len(r.chain)
  <2>1. Goes(p, Onward(r, by))
    BY <1>4 DEF Proceed, Onward
  <2>2. Pending(Onward(r, by)) = {i \in Nat : r.base + (r.pos + 1) <= i /\ i <= r.base + Len(r.chain)}
    BY DEF Pending, Onward, Request
  <2>. HIDE DEF r
  <2>3. Pending(Onward(r, by)) \subseteq Pending(r) /\ Call(p) \notin Pending(Onward(r, by))
    BY <1>1, <1>2, <1>3, <2>2
  <2>. QED  BY <1>3, <2>1, <2>3 DEF r
<1>5. CASE ~(r.pos < Len(r.chain))
  <2>1. Goes(p, Through(r, by))
    BY <1>5 DEF Proceed, Through
  <2>2. Pending(Through(r, by)) = {}
    BY DEF Pending, Through, Request
  <2>. QED  BY <1>3, <2>1, <2>2
<1>. QED  BY <1>4, <1>5

LEMMA NumberInvStep ==
  ASSUME TypeOK, NumberInv, [Next]_vars
  PROVE  NumberInv'
<1>0. Pending(Idle) = {}
  BY DEF Pending, Idle
<1>1. ASSUME NEW p \in Procs, Arrive(p) PROVE NumberInv'
  <2>1. PICK client \in Clients, chain \in Chains :
          /\ Goes(p, Asking(client, chain)) /\ calls' = calls + Len(chain)
          /\ calls + Len(chain) <= MaxCalls
    BY <1>1 DEF Arrive
  <2>2. Len(chain) \in Nat /\ calls \in Nat /\ MaxCalls \in Nat
    BY DomainAssumption DEF TypeOK
  <2>. DEFINE new == {i \in Nat : calls + 1 <= i /\ i <= calls + Len(chain)}
  <2>3. Pending(Asking(client, chain)) = new
    BY DEF Pending, Asking, Request
  <2>4. Pending(proc'[p]) = new /\ \A q \in Procs : q # p => proc'[q] = proc[q]
    BY <2>1, <2>3 DEF Goes, TypeOK
  <2>5. passed' = passed
    BY <1>1 DEF Arrive
  <2>6. \A k \in Keys : \A e \in passed[k] : e.id \in Nat
    BY DEF TypeOK, Stamps
  <2>7. \A q \in Procs : \A i \in Pending(proc[q]) : i \in Nat
    BY DEF Pending
  <2>. HIDE DEF new
  <2>8. \A i \in new : i \in Nat /\ calls < i /\ 1 <= i /\ i <= calls'
    BY <2>1, <2>2 DEF new
  <2>9. \A q \in Procs : \A i \in Pending(proc'[q]) : 1 <= i /\ i <= calls'
    BY <2>1, <2>2, <2>4, <2>7, <2>8 DEF NumberInv
  <2>10. \A q, s \in Procs : q # s => Pending(proc'[q]) \cap Pending(proc'[s]) = {}
    BY <2>2, <2>4, <2>7, <2>8 DEF NumberInv
  <2>11. \A k \in Keys : \A e \in passed'[k] :
           e.id <= calls' /\ \A q \in Procs : e.id \notin Pending(proc'[q])
    BY <2>1, <2>2, <2>4, <2>5, <2>6, <2>8 DEF NumberInv
  <2>. QED  BY <2>1, <2>9, <2>10, <2>11 DEF NumberInv
<1>2. ASSUME NEW p \in Procs, Decide(p) PROVE NumberInv'
  <2>1. At(p, "ask") /\ calls' = calls /\ KeyOf(p) \in Keys
    BY <1>2, AskFacts DEF Decide
  <2>2. CASE Room(KeyOf(p))
    <3>. DEFINE by == proc[p].by \cup {[policy |-> First(p), id |-> Call(p)]}
    <3>1. Proceed(p, by) /\ passed' = [passed EXCEPT ![KeyOf(p)] = @ \cup {Stamp(p)}]
      BY <1>2, <2>2 DEF Decide, Stamp
    <3>2. by \in SUBSET Grants
      BY <2>1, AskFacts DEF Requests, Grants
    <3>. HIDE DEF by
    <3>3. PICK r : /\ Goes(p, r)
                   /\ Pending(r) \subseteq Pending(proc[p])
                   /\ Call(p) \in Pending(proc[p]) \ Pending(r)
      BY <2>1, <3>1, <3>2, ProceedNumbers
    <3>4. \A k \in Keys : \A e \in passed'[k] : e \in passed[k] \/ e.id = Call(p)
      BY <2>1, <3>1 DEF TypeOK, Stamp
    <3>. QED  BY <2>1, <3>3, <3>4, NumbersUsed
  <2>3. CASE ~Room(KeyOf(p))
    <3>1. Goes(p, Idle) /\ passed' = passed
      BY <1>2, <2>3 DEF Decide
    <3>. QED  BY <1>0, <2>1, <3>1, NumbersUsed
  <2>. QED  BY <2>2, <2>3
<1>3. ASSUME NEW p \in Procs, Lose(p) \/ Miss(p) PROVE NumberInv'
  <2>1. At(p, "ask") /\ Goes(p, Again(proc[p])) /\ calls' = calls /\ passed' = passed
    BY <1>3 DEF Lose, Miss, Again
  <2>2. proc[p] \in Requests
    BY <2>1, AskFacts
  <2>3. Pending(Again(proc[p])) = Pending(proc[p])
    <3>1. {} \in SUBSET Grants
      OBVIOUS
    <3>. QED  BY <2>2, <3>1, RequestFields DEF Pending
  <2>. QED  BY <2>1, <2>3, NumbersUsed
<1>4. ASSUME NEW p \in Procs, Degrade(p) PROVE NumberInv'
  <2>1. At(p, "ask") /\ calls' = calls /\ passed' = passed
        /\ (Proceed(p, proc[p].by) \/ Goes(p, Idle))
    BY <1>4 DEF Degrade
  <2>2. CASE Goes(p, Idle)
    BY <1>0, <2>1, <2>2, NumbersUsed
  <2>3. CASE Proceed(p, proc[p].by)
    <3>1. proc[p].by \in SUBSET Grants
      BY <2>1, AskFacts DEF Requests
    <3>2. PICK r : Goes(p, r) /\ Pending(r) \subseteq Pending(proc[p])
      BY <2>1, <2>3, <3>1, ProceedNumbers
    <3>. QED  BY <2>1, <3>2, NumbersUsed
  <2>. QED  BY <2>1, <2>2, <2>3
<1>5. ASSUME NEW p \in Procs, Serve(p) PROVE NumberInv'
  BY <1>0, <1>5, NumbersUsed DEF Serve
<1>6. CASE Tick
  BY <1>6 DEF Tick, NumberInv
<1>7. CASE UNCHANGED vars
  BY <1>7 DEF vars, NumberInv
<1>. QED  BY <1>1, <1>2, <1>3, <1>4, <1>5, <1>6, <1>7 DEF Next, Handle

LEMMA NumberInvHolds == Spec => []NumberInv
<1>1. Init => NumberInv
  BY DomainAssumption DEF Init, NumberInv, Pending, Idle
<1>. QED  BY <1>1, TypeCorrect, NumberInvStep, PTL DEF Spec

-----------------------------------------------------------------------------
(* Windows.  What was let through within the span is in the set, which     *)
(* never has more members than the limit.                                  *)

WindowKept(k) ==
  /\ IsFiniteSet(windows[k].entries)
  /\ Cardinality(windows[k].entries) <= Limit(k)
  /\ \A e \in windows[k].entries : e.at <= now /\ e.at + Span(k) <= windows[k].until
PassedKept(k) ==
  \A e \in passed[k] :
    e.at <= now /\ (e.at > now - Span(k) => e \in windows[k].entries)
WindowInv == \A k \in WindowKeys : WindowKept(k) /\ PassedKept(k)

(* What is forgotten by Redis was too old anyway.                          *)
LEMMA RecentIs ==
  ASSUME TypeOK, NEW k \in WindowKeys, WindowKept(k)
  PROVE  Recent(k) = {e \in windows[k].entries : e.at > now - Span(k)}
<1>1. \A e \in windows[k].entries : e.at \in Nat
  BY RecentFacts DEF Stamps
<1>2. now \in Nat /\ Span(k) \in Nat /\ windows[k].until \in Nat
  BY RecentFacts, KeyFacts, SplitKeys DEF TypeOK
<1>3. ~(now <= windows[k].until) => \A e \in windows[k].entries : ~(e.at > now - Span(k))
  BY <1>1, <1>2 DEF WindowKept
<1>. QED  BY <1>3 DEF Recent

LEMMA StampedFacts ==
  ASSUME TypeOK, NEW k \in WindowKeys, WindowKept(k), NEW id \in Nat
  PROVE  /\ IsFiniteSet(Recent(k)) /\ IsFiniteSet(Stamped(k, id))
         /\ Cardinality(Recent(k)) \in Nat /\ Cardinality(Recent(k)) <= Limit(k)
         /\ Cardinality(Recent(k)) = Limit(k) => Recent(k) = windows[k].entries
         /\ WindowRoom(k) => Cardinality(Stamped(k, id)) <= Limit(k)
<1>. DEFINE E == windows[k].entries
            rest == {e \in Recent(k) : e.id # id}
            new == [at |-> now, id |-> id]
<1>1. IsFiniteSet(E) /\ Cardinality(E) <= Limit(k) /\ Limit(k) \in Nat
  BY KeyFacts, SplitKeys DEF WindowKept
<1>2. Recent(k) \subseteq E /\ rest \subseteq Recent(k)
  BY RecentFacts
<1>3. /\ IsFiniteSet(Recent(k)) /\ Cardinality(Recent(k)) <= Cardinality(E)
      /\ Cardinality(E) = Cardinality(Recent(k)) => E = Recent(k)
      /\ Cardinality(E) \in Nat /\ Cardinality(Recent(k)) \in Nat
  BY <1>1, <1>2, FS_Subset, FS_CardinalityType
<1>4. /\ IsFiniteSet(rest) /\ Cardinality(rest) <= Cardinality(Recent(k))
      /\ Cardinality(rest) \in Nat
  BY <1>2, <1>3, FS_Subset, FS_CardinalityType
<1>5. /\ IsFiniteSet(rest \cup {new})
      /\ Cardinality(rest \cup {new}) <= Cardinality(rest) + 1
  <2>. HIDE DEF rest, new
  <2>1. Cardinality(rest \cup {new}) \in {Cardinality(rest), Cardinality(rest) + 1}
    BY <1>4, FS_AddElement
  <2>2. IsFiniteSet(rest \cup {new})
    BY <1>4, FS_AddElement
  <2>. QED  BY <1>4, <2>1, <2>2
<1>6. Stamped(k, id) = rest \cup {new}
  BY DEF Stamped
<1>7. Cardinality(rest \cup {new}) \in Nat
  BY <1>5, FS_CardinalityType
<1>. HIDE DEF E, rest, new
<1>8. Cardinality(Recent(k)) = Limit(k) => Recent(k) = E
  BY <1>1, <1>3
<1>9. WindowRoom(k) => Cardinality(Stamped(k, id)) <= Limit(k)
  BY <1>1, <1>3, <1>4, <1>5, <1>6, <1>7 DEF WindowRoom
<1>. QED  BY <1>1, <1>3, <1>5, <1>6, <1>8, <1>9 DEF E

(* A script that is run on a window, and one that is run elsewhere.        *)
LEMMA RunWindows ==
  ASSUME TypeOK, NEW p \in Procs, Ran(p, KeyOf(p)), NEW k \in WindowKeys
  PROVE  \/ /\ k = KeyOf(p)
            /\ windows'[k].until = now + Span(k)
            /\ windows'[k].entries = IF WindowRoom(k) THEN Stamped(k, Call(p)) ELSE Recent(k)
            /\ Room(KeyOf(p)) <=> WindowRoom(k)
         \/ k # KeyOf(p) /\ windows'[k] = windows[k]
<1>1. KeyOf(p) \in Keys /\ Run(KeyOf(p), Call(p))
  BY AskFacts DEF Ran
<1>2. CASE k = KeyOf(p)
  <2>1. Slide(k, Call(p))
    BY <1>1, <1>2 DEF Run
  <2>. QED  BY <1>2, <2>1 DEF Slide, TypeOK, Room
<1>3. CASE k # KeyOf(p) /\ KeyOf(p) \in WindowKeys
  BY <1>1, <1>3 DEF Run, Slide, TypeOK
<1>4. CASE k # KeyOf(p) /\ KeyOf(p) \notin WindowKeys
  BY <1>1, <1>4 DEF Run, Pour
<1>. QED  BY <1>2, <1>3, <1>4

LEMMA StampedKept ==
  ASSUME TypeOK, NEW k \in WindowKeys, WindowKept(k), NEW id \in Nat,
         NEW e \in Stamped(k, id) \cup Recent(k)
  PROVE  e.at \in Nat /\ e.at <= now
<1>1. CASE e \in Recent(k)
  BY <1>1, RecentFacts DEF WindowKept, Stamps
<1>2. CASE e = [at |-> now, id |-> id]
  BY <1>2 DEF TypeOK
<1>. QED  BY <1>1, <1>2 DEF Stamped

LEMMA WindowKeptStep ==
  ASSUME TypeOK, WindowInv, [Next]_vars, NEW k \in WindowKeys
  PROVE  WindowKept(k)'
<1>0. now \in Nat /\ Span(k) \in Nat \ {0} /\ \A e \in windows[k].entries : e.at \in Nat
  BY KeyFacts, SplitKeys, RecentFacts DEF TypeOK, Stamps
<1>1. CASE Tick
  <2>1. now' = now + 1 /\ windows' = windows
    BY <1>1 DEF Tick, keyVars
  <2>. QED  BY <1>0, <2>1 DEF WindowInv, WindowKept
<1>2. CASE Calm
  BY <1>2 DEF Calm, keyVars, WindowInv, WindowKept
<1>3. ASSUME NEW p \in Procs, Ran(p, KeyOf(p)) PROVE WindowKept(k)'
  <2>1. now' = now /\ Call(p) \in Nat /\ WindowKept(k)
    BY <1>3, AskFacts DEF Ran, WindowInv
  <2>2. CASE windows'[k] = windows[k]
    BY <2>1, <2>2 DEF WindowKept
  <2>3. CASE /\ windows'[k].until = now + Span(k)
             /\ windows'[k].entries = IF WindowRoom(k) THEN Stamped(k, Call(p)) ELSE Recent(k)
    <3>1. \A e \in windows'[k].entries : e.at \in Nat /\ e.at <= now
      BY <2>1, <2>3, StampedKept
    <3>2. IsFiniteSet(windows'[k].entries) /\ Cardinality(windows'[k].entries) <= Limit(k)
      BY <2>1, <2>3, StampedFacts
    <3>3. \A e \in windows'[k].entries : e.at <= now' /\ e.at + Span(k) <= windows'[k].until
      BY <1>0, <2>1, <2>3, <3>1
    <3>. QED  BY <3>2, <3>3 DEF WindowKept
  <2>. QED  BY <1>3, <2>2, <2>3, RunWindows
<1>. QED  BY <1>1, <1>2, <1>3, StepKinds

LEMMA PassedKeptStep ==
  ASSUME TypeOK, WindowInv, NumberInv, [Next]_vars, NEW k \in WindowKeys
  PROVE  PassedKept(k)'
<1>0. /\ now \in Nat /\ Span(k) \in Nat \ {0} /\ k \in Keys
      /\ \A e \in passed[k] : e.at \in Nat
  BY KeyFacts, SplitKeys DEF TypeOK, Stamps
<1>1. CASE (Tick \/ Calm) /\ passed' = passed
  <2>1. now' \in {now, now + 1} /\ windows' = windows
    BY <1>1 DEF Tick, Calm, keyVars
  <2>. QED  BY <1>0, <1>1, <2>1 DEF WindowInv, PassedKept
<1>2. ASSUME NEW p \in Procs, Ran(p, KeyOf(p)), LetThrough(p) \/ Refused(p)
      PROVE  PassedKept(k)'
  <2>1. now' = now /\ At(p, "ask") /\ KeyOf(p) \in Keys /\ Call(p) \in Nat
    BY <1>2, AskFacts DEF Ran
  <2>2. CASE k # KeyOf(p)
    <3>0. windows'[k] = windows[k]
      BY <1>2, <2>2, RunWindows
    <3>1. windows'[k] = windows[k] /\ passed'[k] = passed[k]
      BY <1>0, <1>2, <2>2, <3>0 DEF LetThrough, Refused, TypeOK
    <3>. QED  BY <2>1, <3>1 DEF WindowInv, PassedKept
  <2>3. CASE k = KeyOf(p)
    <3>1. /\ windows'[k].entries = IF WindowRoom(k) THEN Stamped(k, Call(p)) ELSE Recent(k)
          /\ Room(KeyOf(p)) <=> WindowRoom(k)
      BY <1>2, <2>3, RunWindows
    <3>2. Call(p) \in Pending(proc[p])
      <4>1. /\ proc[p] \in Requests /\ proc[p].pos <= Len(proc[p].chain)
            /\ Len(proc[p].chain) \in Nat /\ proc[p].chain \in Seq(Names)
        BY <2>1, AskFacts
      <4>. QED  BY <2>1, <4>1 DEF Pending, At, Call, Requests
    <3>3. \A e \in passed[k] : e.id # Call(p)
      BY <1>0, <3>2 DEF NumberInv
    <3>4. \A e \in passed[k] : e.at > now - Span(k) => e \in Recent(k)
      BY <1>0, RecentIs DEF WindowInv, PassedKept
    <3>5. \A e \in passed[k] : e.at > now - Span(k) => e \in windows'[k].entries
      BY <3>1, <3>3, <3>4 DEF Stamped
    <3>6. \A e \in passed'[k] : e \in passed[k] \/ (Room(KeyOf(p)) /\ e = Stamp(p))
      BY <1>2, <2>1, <2>3 DEF LetThrough, Refused, TypeOK
    <3>7. Room(KeyOf(p)) => Stamp(p) \in windows'[k].entries
      BY <3>1 DEF Stamped, Stamp
    <3>8. \A e \in passed'[k] : e.at <= now /\ (e.at > now - Span(k) => e \in windows'[k].entries)
      <4>. SUFFICES ASSUME NEW e \in passed'[k]
                    PROVE  e.at <= now /\ (e.at > now - Span(k) => e \in windows'[k].entries)
        OBVIOUS
      <4>1. CASE e \in passed[k]
        BY <3>5, <4>1 DEF WindowInv, PassedKept
      <4>2. CASE Room(KeyOf(p)) /\ e = Stamp(p)
        BY <1>0, <3>7, <4>2 DEF Stamp
      <4>. QED  BY <3>6, <4>1, <4>2
    <3>. QED  BY <2>1, <3>8 DEF PassedKept
  <2>. QED  BY <2>2, <2>3
<1>. QED  BY <1>1, <1>2, StepHistory

LEMMA WindowInvHolds == Spec => []WindowInv
<1>1. Init => WindowInv
  <2>. SUFFICES ASSUME Init, NEW k \in WindowKeys PROVE WindowKept(k) /\ PassedKept(k)
    BY DEF WindowInv
  <2>1. windows[k].entries = {} /\ passed[k] = {}
    BY SplitKeys DEF Init
  <2>2. IsFiniteSet({}) /\ Cardinality({}) = 0
    BY FS_EmptySet
  <2>3. Limit(k) \in Nat
    BY KeyFacts, SplitKeys
  <2>. QED  BY <2>1, <2>2, <2>3 DEF WindowKept, PassedKept
<1>2. TypeOK /\ NumberInv /\ WindowInv /\ [Next]_vars => WindowInv'
  BY WindowKeptStep, PassedKeptStep DEF WindowInv
<1>. QED  BY <1>1, <1>2, TypeCorrect, NumberInvHolds, PTL DEF Spec

(* WindowBound: no window of time, whenever it ends, sees more requests    *)
(* let through than the limit.                                             *)
THEOREM WindowBounded == Spec => []WindowBound
<1>1. Init => WindowBound
  BY SplitKeys DEF Init, WindowBound
<1>2. TypeOK /\ WindowInv /\ NumberInv /\ WindowBound /\ [Next]_vars => WindowBound'
  <2>. SUFFICES ASSUME TypeOK, WindowInv, NumberInv, WindowBound, [Next]_vars,
                       NEW k \in WindowKeys, NEW last \in passed'[k]
                PROVE  Cardinality({e \in passed'[k] : last.at - Span(k) < e.at /\ e.at <= last.at})
                         <= Limit(k)
    BY DEF WindowBound
  <2>. DEFINE old == {e \in passed[k] : last.at - Span(k) < e.at /\ e.at <= last.at}
              new == {e \in passed'[k] : last.at - Span(k) < e.at /\ e.at <= last.at}
  <2>0. /\ now \in Nat /\ Span(k) \in Nat \ {0} /\ Limit(k) \in Nat /\ k \in Keys
        /\ \A e \in passed[k] : e.at \in Nat /\ e.at <= now
    BY KeyFacts, SplitKeys DEF TypeOK, Stamps, WindowInv, PassedKept
  <2>1. CASE passed'[k] = passed[k]
    BY <2>1 DEF WindowBound
  <2>2. CASE passed'[k] # passed[k]
    <3>1. PICK p \in Procs : Ran(p, KeyOf(p)) /\ LetThrough(p)
      BY <2>2, StepHistory DEF Refused
    <3>2. now' = now /\ passed'[k] = passed[k] \cup {Stamp(p)}
      BY <2>0, <2>2, <3>1 DEF LetThrough, TypeOK, Ran
    <3>3. CASE last.at < now
      <4>1. last \in passed[k]
        BY <2>0, <3>2, <3>3 DEF Stamp
      <4>2. new = old
        BY <2>0, <3>2, <3>3, <4>1 DEF Stamp
      <4>. QED  BY <4>1, <4>2 DEF WindowBound
    <3>4. CASE ~(last.at < now)
      <4>1. last.at = now
        BY <2>0, <3>2, <3>4 DEF Stamp
      <4>2. new \subseteq windows'[k].entries
        BY <3>2, <4>1, PassedKeptStep DEF PassedKept
      <4>3. IsFiniteSet(windows'[k].entries) /\ Cardinality(windows'[k].entries) <= Limit(k)
        BY WindowKeptStep DEF WindowKept
      <4>4. /\ Cardinality(new) <= Cardinality(windows'[k].entries)
            /\ Cardinality(new) \in Nat /\ Cardinality(windows'[k].entries) \in Nat
        BY <4>2, <4>3, FS_Subset, FS_CardinalityType
      <4>. HIDE DEF new
      <4>5. Cardinality(new) <= Limit(k)
        BY <2>0, <4>3, <4>4
      <4>. QED  BY <4>5 DEF new
    <3>. QED  BY <3>3, <3>4
  <2>. QED  BY <2>1, <2>2
<1>. QED  BY <1>1, <1>2, TypeCorrect, NumberInvHolds, WindowInvHolds, PTL DEF Spec

(* What is recent in a set at a time.                                      *)
RecentAt(w, t, span) ==
  {e \in IF t <= w.until THEN w.entries ELSE {} : e.at > t - span}

LEMMA RecentAlive ==
  ASSUME NEW w, NEW t, NEW span, t <= w.until
  PROVE  RecentAt(w, t, span) = {e \in w.entries : e.at > t - span}
BY Zenon DEF RecentAt

(* KeepsWindowContract: a window that is looked at when somebody asks, and *)
(* forgotten in between, behaves as the one that forgets tick by tick.     *)
THEOREM WindowsKeepContract == Spec => KeepsWindowContract
<1>1. Init => \A k \in WindowKeys : Window(k)!Init
  BY DEF Init, Window!Init, Recent
<1>2. ASSUME TypeOK, NumberInv, WindowInv, [Next]_vars, NEW k \in WindowKeys
      PROVE  [Window(k)!Next]_<<now, Recent(k)>>
  <2>0. /\ now \in Nat /\ Span(k) \in Nat \ {0} /\ WindowKept(k)
        /\ \A e \in windows[k].entries : e.at \in Nat /\ e.at <= now
    BY <1>2, KeyFacts, SplitKeys, RecentFacts DEF TypeOK, Stamps, WindowInv, WindowKept
  <2>1. Recent(k) = {e \in windows[k].entries : e.at > now - Span(k)}
    BY <1>2, <2>0, RecentIs
  <2>2. CASE Tick
    <3>1. now' = now + 1 /\ windows' = windows
      BY <2>2 DEF Tick, keyVars
    <3>2. Recent(k)' = {e \in windows[k].entries : e.at > (now + 1) - Span(k)}
      <4>1. Recent(k)' = RecentAt(windows[k], now + 1, Span(k))
        BY <3>1 DEF Recent, RecentAt
      <4>2. CASE now + 1 <= windows[k].until
        BY <4>1, <4>2, RecentAlive, Zenon
      <4>3. CASE ~(now + 1 <= windows[k].until)
        <5>1. windows[k].until \in Nat
          BY <1>2, RecentFacts
        <5>2. \A e \in windows[k].entries : ~(e.at > (now + 1) - Span(k))
          BY <2>0, <4>3, <5>1 DEF WindowKept
        <5>3. Recent(k)' = {}
          BY <4>1, <4>3 DEF RecentAt
        <5>. QED  BY <5>2, <5>3
      <4>. QED  BY <4>2, <4>3
    <3>3. Recent(k)' = {e \in Recent(k) : e.at > now' - Span(k)}
      BY <2>0, <2>1, <3>1, <3>2
    <3>. QED  BY <3>1, <3>3 DEF Window!Next, Window!Tick
  <2>3. CASE Calm
    BY <2>3 DEF Calm, keyVars, Recent
  <2>4. ASSUME NEW p \in Procs, Ran(p, KeyOf(p)) PROVE [Window(k)!Next]_<<now, Recent(k)>>
    <3>1. now' = now /\ At(p, "ask") /\ Call(p) \in Nat \ {0}
      BY <1>2, <2>4, AskFacts DEF Ran
    <3>2. CASE windows'[k] = windows[k]
      BY <3>1, <3>2 DEF Recent
    <3>. DEFINE kept == IF WindowRoom(k) THEN Stamped(k, Call(p)) ELSE Recent(k)
    <3>3. CASE windows'[k].until = now + Span(k) /\ windows'[k].entries = kept
      <4>1. \A e \in kept : e.at > now - Span(k)
        BY <2>0, <2>1 DEF Stamped
      <4>2. now <= now + Span(k)
        BY <2>0
      <4>. HIDE DEF kept
      <4>3. Recent(k)' = kept
        BY <3>1, <3>3, <4>1, <4>2 DEF Recent
      <4>4. Call(p) \in 1 .. MaxCalls
        <5>1. /\ proc[p].pos <= Len(proc[p].chain) /\ Len(proc[p].chain) \in Nat
              /\ proc[p].pos \in Nat /\ proc[p].base \in Nat
          BY <1>2, <3>1, AskFacts DEF Requests
        <5>2. Call(p) \in Pending(proc[p])
          BY <3>1, <5>1 DEF Pending, At, Call
        <5>3. Call(p) <= calls /\ calls <= MaxCalls /\ calls \in Nat /\ MaxCalls \in Nat
          BY <1>2, <5>2, DomainAssumption DEF NumberInv, TypeOK
        <5>. QED  BY <3>1, <5>3
      <4>5. CASE WindowRoom(k)
        <5>1. /\ Cardinality(Recent(k)) < Limit(k)
              /\ Recent(k)' = {e \in Recent(k) : e.id # Call(p)}
                                \cup {[at |-> now, id |-> Call(p)]}
          BY <4>3, <4>5 DEF WindowRoom, Stamped, kept
        <5>2. Window(k)!Admit(Call(p))
          BY <3>1, <5>1, Zenon DEF Window!Admit, Window!Cardinality, Cardinality
        <5>3. Window(k)!Next
          BY <4>4, <5>2 DEF Window!Next
        <5>. QED  BY <5>3
      <4>6. CASE ~WindowRoom(k)
        BY <3>1, <4>3, <4>6 DEF kept
      <4>. QED  BY <4>5, <4>6
    <3>. QED  BY <1>2, <2>4, <3>2, <3>3, RunWindows
  <2>. QED  BY <1>2, <2>2, <2>3, <2>4, StepKinds
<1>3. TypeOK /\ NumberInv /\ WindowInv /\ [Next]_vars
        => [\A k \in WindowKeys : [Window(k)!Next]_<<now, Recent(k)>>]_vars
  BY <1>2
<1>. QED  BY <1>1, <1>3, TypeCorrect, NumberInvHolds, WindowInvHolds, PTL
          DEF Spec, KeepsWindowContract

-----------------------------------------------------------------------------
(* Retry-After.  As long as nobody is let through after a refusal, what    *)
(* stood in the way is gone when the time named has come.                  *)

WindowPromise(k) ==
  promise[k] # 0 => \E e \in windows[k].entries : e.at + Span(k) <= promise[k]
BucketPromise(k) ==
  promise[k] # 0 => \/ Level(k) >= Span(k)
                    \/ promise[k] >= now + (Span(k) - Level(k))
PromiseInv ==
  /\ \A k \in WindowKeys : WindowPromise(k)
  /\ \A k \in BucketKeys : BucketPromise(k)

LEMMA WindowPromiseStep ==
  ASSUME TypeOK, WindowInv, PromiseInv, [Next]_vars, NEW k \in WindowKeys
  PROVE  WindowPromise(k)'
<1>0. k \in Keys /\ WindowKept(k) /\ Span(k) \in Nat /\ now \in Nat
      /\ Limit(k) \in Nat \ {0} /\ promise[k] \in Nat
  BY KeyFacts, SplitKeys DEF WindowInv, TypeOK
<1>1. CASE (Tick \/ Calm) /\ promise' = promise
  BY <1>1 DEF Tick, Calm, keyVars, PromiseInv, WindowPromise
<1>2. ASSUME NEW p \in Procs, Ran(p, KeyOf(p)), LetThrough(p) \/ Refused(p)
      PROVE  WindowPromise(k)'
  <2>1. CASE k # KeyOf(p)
    <3>1. windows'[k] = windows[k]
      BY <1>2, <2>1, RunWindows
    <3>2. promise'[k] = promise[k]
      BY <1>0, <1>2, <2>1 DEF LetThrough, Refused, TypeOK
    <3>. QED  BY <3>1, <3>2 DEF PromiseInv, WindowPromise
  <2>2. CASE k = KeyOf(p) /\ LetThrough(p)
    <3>1. promise'[k] = 0
      BY <1>0, <2>2 DEF LetThrough, TypeOK
    <3>. QED  BY <3>1 DEF WindowPromise
  <2>3. CASE k = KeyOf(p) /\ Refused(p)
    <3>1. ~WindowRoom(k) /\ windows'[k].entries = Recent(k)
      BY <1>2, <2>3, RunWindows DEF Refused
    <3>2. Recent(k) = windows[k].entries /\ Recent(k) # {}
      <4>1. /\ Cardinality(Recent(k)) \in Nat /\ Cardinality(Recent(k)) <= Limit(k)
            /\ Cardinality(Recent(k)) = Limit(k) => Recent(k) = windows[k].entries
        BY <1>0, StampedFacts
      <4>2. Cardinality(Recent(k)) = Limit(k)
        BY <1>0, <3>1, <4>1 DEF WindowRoom
      <4>3. Recent(k) # {}
        BY <1>0, <4>2, FS_EmptySet
      <4>. QED  BY <4>1, <4>2, <4>3
    <3>3. CASE promise' = promise
      BY <3>1, <3>2, <3>3 DEF PromiseInv, WindowPromise
    <3>4. CASE promise' = [promise EXCEPT ![KeyOf(p)] = now + RetryAfter(KeyOf(p))]
      <4>1. PICK e \in Recent(k) : Oldest(k) = e.at /\ Oldest(k) \in Nat
        BY <3>2, OldestFacts
      <4>2. promise'[k] = now + WindowRetry(k)
        BY <1>0, <2>3, <3>4 DEF RetryAfter, TypeOK
      <4>3. e.at + Span(k) <= now + WindowRetry(k)
        BY <1>0, <4>1 DEF WindowRetry, Larger
      <4>. QED  BY <3>1, <4>1, <4>2, <4>3 DEF WindowPromise
    <3>. QED  BY <2>3, <3>3, <3>4 DEF Refused
  <2>. QED  BY <1>2, <2>1, <2>2, <2>3
<1>. QED  BY <1>1, <1>2, StepHistory

LEMMA BucketPromiseStep ==
  ASSUME TypeOK, BucketInv, PromiseInv, [Next]_vars, NEW k \in BucketKeys
  PROVE  BucketPromise(k)'
<1>0. /\ k \in Keys /\ Span(k) \in Nat /\ now \in Nat /\ promise[k] \in Nat
      /\ Level(k) \in Nat /\ Full(k) \in Nat /\ Span(k) <= Full(k) /\ Level(k) <= Full(k)
      /\ BucketPromise(k)
  BY KeyFacts, SplitKeys, LevelFacts DEF TypeOK, PromiseInv
<1>1. CASE Tick /\ promise' = promise
  <2>1. now' = now + 1
    BY <1>1 DEF Tick
  <2>2. Level(k)' = IF Level(k) < Full(k) THEN Level(k) + 1 ELSE Level(k)
    BY <1>1, LevelAfterTick
  <2>. QED  BY <1>0, <1>1, <2>1, <2>2 DEF BucketPromise
<1>2. CASE Calm /\ promise' = promise
  <2>1. now' = now /\ Level(k)' = Level(k)
    BY <1>2, LevelElsewhere DEF Calm, keyVars
  <2>. QED  BY <1>0, <1>2, <2>1 DEF BucketPromise
<1>3. ASSUME NEW p \in Procs, Ran(p, KeyOf(p)), LetThrough(p) \/ Refused(p)
      PROVE  BucketPromise(k)'
  <2>0. now' = now
    BY <1>3 DEF Ran
  <2>1. CASE k # KeyOf(p)
    <3>1. Level(k)' = Level(k)
      BY <1>3, <2>0, <2>1, RunBuckets, LevelElsewhere
    <3>2. promise'[k] = promise[k]
      BY <1>0, <1>3, <2>1 DEF LetThrough, Refused, TypeOK
    <3>. QED  BY <1>0, <2>0, <3>1, <3>2 DEF BucketPromise
  <2>2. CASE k = KeyOf(p) /\ LetThrough(p)
    <3>1. promise'[k] = 0
      BY <1>0, <2>2 DEF LetThrough, TypeOK
    <3>. QED  BY <3>1 DEF BucketPromise
  <2>3. CASE k = KeyOf(p) /\ Refused(p)
    <3>0. k \notin WindowKeys
      BY SplitKeys
    <3>1. ~BucketRoom(k) /\ Cost(k) = 0
      BY <2>3, <3>0 DEF Refused, Room, Cost
    <3>2. Pour(k)
      BY <1>3, <2>3, <3>0 DEF Ran, Run
    <3>3. Level(k)' = Level(k)
      BY <1>0, <2>0, <3>1, <3>2, LevelAfterPour
    <3>4. CASE promise' = promise
      BY <1>0, <2>0, <3>3, <3>4 DEF BucketPromise
    <3>5. CASE promise' = [promise EXCEPT ![KeyOf(p)] = now + RetryAfter(KeyOf(p))]
      <4>1. promise'[k] = now + (Span(k) - Level(k))
        BY <1>0, <2>3, <3>0, <3>5 DEF RetryAfter, BucketRetry, TypeOK
      <4>. QED  BY <1>0, <2>0, <3>3, <4>1 DEF BucketPromise
    <3>. QED  BY <2>3, <3>4, <3>5 DEF Refused
  <2>. QED  BY <1>3, <2>1, <2>2, <2>3
<1>. QED  BY <1>1, <1>2, <1>3, StepHistory

LEMMA PromiseInvHolds == Spec => []PromiseInv
<1>1. Init => PromiseInv
  BY SplitKeys DEF Init, PromiseInv, WindowPromise, BucketPromise
<1>2. TypeOK /\ WindowInv /\ BucketInv /\ PromiseInv /\ [Next]_vars => PromiseInv'
  BY WindowPromiseStep, BucketPromiseStep DEF PromiseInv
<1>. QED  BY <1>1, <1>2, TypeCorrect, WindowInvHolds, BucketInvHolds, PTL DEF Spec

(* HonestRetryAfter: who waits as told and is not overtaken gets through.  *)
THEOREM RetryAfterHonest == Spec => []HonestRetryAfter
<1>1. TypeOK /\ WindowInv /\ PromiseInv => HonestRetryAfter
  <2>. SUFFICES ASSUME TypeOK, WindowInv, PromiseInv, NEW k \in Keys,
                       promise[k] # 0, now >= promise[k]
                PROVE  Room(k)
    BY DEF HonestRetryAfter
  <2>0. now \in Nat /\ promise[k] \in Nat /\ Span(k) \in Nat /\ Limit(k) \in Nat
    BY KeyFacts DEF TypeOK
  <2>1. CASE k \in WindowKeys
    <3>1. PICK e \in windows[k].entries : e.at + Span(k) <= promise[k]
      BY <2>1 DEF PromiseInv, WindowPromise
    <3>2. e.at \in Nat
      BY <2>1, RecentFacts DEF Stamps
    <3>3. e \notin Recent(k)
      BY <2>0, <3>1, <3>2 DEF Recent
    <3>4. /\ Cardinality(Recent(k)) \in Nat /\ Cardinality(Recent(k)) <= Limit(k)
          /\ Cardinality(Recent(k)) = Limit(k) => Recent(k) = windows[k].entries
      <4>1. 0 \in Nat
        OBVIOUS
      <4>. QED  BY <2>1, <4>1, StampedFacts DEF WindowInv
    <3>5. Cardinality(Recent(k)) < Limit(k)
      BY <2>0, <3>1, <3>3, <3>4
    <3>. QED  BY <2>1, <3>5 DEF Room, WindowRoom
  <2>2. CASE k \notin WindowKeys
    <3>1. k \in BucketKeys
      BY <2>2, SplitKeys
    <3>2. Level(k) \in Nat
      BY <3>1, LevelFacts
    <3>3. Level(k) >= Span(k)
      BY <2>0, <3>1, <3>2 DEF PromiseInv, BucketPromise
    <3>. QED  BY <2>2, <3>3 DEF Room, BucketRoom
  <2>. QED  BY <2>1, <2>2
<1>. QED  BY <1>1, TypeCorrect, WindowInvHolds, PromiseInvHolds, PTL

-----------------------------------------------------------------------------
(* Slots: what a script writes is known to the histories.                  *)

LEMMA PhantomStep ==
  ASSUME TypeOK, NoPhantomSlots, [Next]_vars
  PROVE  NoPhantomSlots'
<1>0. /\ UNCHANGED windows /\ UNCHANGED <<passed, lost>>
      => NoPhantomSlots'
  BY DEF NoPhantomSlots
<1>1. ASSUME NEW p \in Procs, Decide(p) \/ Lose(p) PROVE NoPhantomSlots'
  <2>1. At(p, "ask") /\ Ran(p, KeyOf(p))
    BY <1>1 DEF Decide, Lose, Ran
  <2>2. KeyOf(p) \in Keys /\ Call(p) \in Nat
    BY <2>1, AskFacts
  <2>3. /\ \A k \in Keys : passed[k] \subseteq passed'[k]
        /\ lost \subseteq lost'
        /\ ~Room(KeyOf(p)) \/ Stamp(p) \in passed'[KeyOf(p)] \/ Call(p) \in lost'
    <3>1. CASE Decide(p)
      <4>1. CASE Room(KeyOf(p))
        BY <2>2, <3>1, <4>1 DEF Decide, Stamp, TypeOK
      <4>2. CASE ~Room(KeyOf(p))
        BY <3>1, <4>2 DEF Decide
      <4>. QED  BY <4>1, <4>2
    <3>2. CASE Lose(p)
      BY <3>2 DEF Lose
    <3>. QED  BY <1>1, <3>1, <3>2
  <2>4. ASSUME NEW k \in WindowKeys, NEW e \in windows'[k].entries
        PROVE  e \in passed'[k] \/ e.id \in lost'
    <3>1. k \in Keys
      BY SplitKeys
    <3>2. CASE e \in windows[k].entries
      BY <2>3, <3>1, <3>2 DEF NoPhantomSlots
    <3>3. CASE e \notin windows[k].entries
      <4>1. /\ k = KeyOf(p)
            /\ windows'[k].entries = IF WindowRoom(k) THEN Stamped(k, Call(p)) ELSE Recent(k)
            /\ Room(KeyOf(p)) <=> WindowRoom(k)
        BY <2>1, <2>4, <3>3, RunWindows
      <4>2. Recent(k) \subseteq windows[k].entries
        BY RecentFacts
      <4>3. WindowRoom(k) /\ e = [at |-> now, id |-> Call(p)]
        BY <2>4, <3>3, <4>1, <4>2 DEF Stamped
      <4>. QED  BY <2>3, <4>1, <4>3 DEF Stamp
    <3>. QED  BY <3>2, <3>3
  <2>. QED  BY <2>4 DEF NoPhantomSlots
<1>2. ASSUME NEW p \in Procs, Arrive(p) \/ Miss(p) \/ Degrade(p) \/ Serve(p)
      PROVE  NoPhantomSlots'
  BY <1>0, <1>2 DEF Arrive, Miss, Degrade, Serve, keyVars
<1>3. CASE Tick
  BY <1>0, <1>3 DEF Tick, keyVars
<1>4. CASE UNCHANGED vars
  BY <1>0, <1>4 DEF vars, keyVars
<1>. QED  BY <1>1, <1>2, <1>3, <1>4 DEF Next, Handle

(* NoPhantomSlots: a slot that is held was given to somebody, though the   *)
(* answer may have been lost on its way.                                   *)
THEOREM SlotsAreHeld == Spec => []NoPhantomSlots
<1>1. Init => NoPhantomSlots
  BY DEF Init, NoPhantomSlots
<1>. QED  BY <1>1, PhantomStep, TypeCorrect, PTL DEF Spec

-----------------------------------------------------------------------------
(* Closed policies: a request carries the decisions that let it through.   *)

Admitted(r, i, decisions) ==
  \/ Policy[r.chain[i]].open
  \/ \E g \in r.by, e \in decisions[Key(r.chain[i], r.client)] :
       g.policy = r.chain[i] /\ g.id = e.id

Behind(r) == IF r.stage = "serve" THEN r.pos ELSE r.pos - 1

Metered(r, decisions) ==
  r # Idle =>
    /\ r.stage = "serve" => r.pos = Len(r.chain)
    /\ \A i \in 1 .. Behind(r) : Admitted(r, i, decisions)

MeteredInv == \A p \in Procs : Metered(proc[p], passed)

(* Decisions are not forgotten.                                            *)
LEMMA PassedGrows ==
  ASSUME TypeOK, [Next]_vars
  PROVE  \A k \in Keys : passed[k] \subseteq passed'[k]
<1>1. ASSUME NEW p \in Procs, Ran(p, KeyOf(p)), LetThrough(p)
      PROVE  \A k \in Keys : passed[k] \subseteq passed'[k]
  BY <1>1, AskFacts DEF Ran, LetThrough, TypeOK
<1>. QED  BY <1>1, StepHistory DEF Refused

LEMMA AdmittedKept ==
  ASSUME TypeOK, [Next]_vars, NEW r \in Requests, NEW s \in Requests,
         s.chain = r.chain, s.client = r.client, r.by \subseteq s.by,
         NEW i \in 1 .. Len(r.chain), Admitted(r, i, passed)
  PROVE  Admitted(s, i, passed')
<1>1. r.chain \in Seq(Names) /\ r.client \in Clients
  BY DomainAssumption DEF Requests
<1>2. Key(r.chain[i], r.client) \in Keys
  BY <1>1 DEF Keys
<1>. QED  BY <1>2, PassedGrows DEF Admitted

(* A step of one request.                                                  *)
LEMMA MeteredGoes ==
  ASSUME TypeOK, MeteredInv, [Next]_vars, NEW p \in Procs, NEW r, Goes(p, r),
         Metered(r, passed')
  PROVE  MeteredInv'
<1>1. ASSUME NEW q \in Procs PROVE Metered(proc'[q], passed')
  <2>1. CASE q = p
    <3>1. proc'[q] = r
      BY <2>1 DEF Goes, TypeOK
    <3>. QED  BY <3>1
  <2>2. CASE q # p
    <3>1. proc'[q] = proc[q]
      BY <2>2 DEF Goes, TypeOK
    <3>2. CASE proc[q] # Idle
      <4>1. proc[q] \in Requests /\ proc[q].pos \in Nat /\ proc[q].pos <= Len(proc[q].chain)
            /\ Len(proc[q].chain) \in Nat
        BY <3>2, DomainAssumption DEF TypeOK, Requests
      <4>2. \A i \in 1 .. Behind(proc[q]) : i \in 1 .. Len(proc[q].chain)
        BY <4>1 DEF Behind
      <4>3. Metered(proc[q], passed)
        BY DEF MeteredInv
      <4>4. \A i \in 1 .. Behind(proc[q]) : Admitted(proc[q], i, passed')
        BY <3>2, <4>1, <4>2, <4>3, AdmittedKept DEF Metered
      <4>. QED  BY <3>1, <4>3, <4>4 DEF Metered
    <3>. QED  BY <3>1, <3>2 DEF Metered
  <2>. QED  BY <2>1, <2>2
<1>. QED  BY <1>1 DEF MeteredInv

(* On to the next policy or to the handler, by this one.                   *)
LEMMA MeteredProceed ==
  ASSUME TypeOK, MeteredInv, [Next]_vars, NEW p \in Procs, At(p, "ask"),
         NEW by \in SUBSET Grants, proc[p].by \subseteq by, Proceed(p, by),
         \/ Policy[First(p)].open
         \/ \E g \in by, e \in passed'[KeyOf(p)] : g.policy = First(p) /\ g.id = e.id
  PROVE  MeteredInv'
<1>. DEFINE r == proc[p]
<1>1. /\ r \in Requests /\ r.pos \in Nat \ {0} /\ r.pos <= Len(r.chain)
      /\ Len(r.chain) \in Nat /\ r.stage = "ask" /\ r # Idle
  BY AskFacts DEF Requests, At, Idle
<1>2. ASSUME NEW s \in Requests, s.chain = r.chain, s.client = r.client, s.by = by
      PROVE  \A i \in 1 .. r.pos : Admitted(s, i, passed')
  <2>1. SUFFICES ASSUME NEW i \in 1 .. r.pos PROVE Admitted(s, i, passed')
    OBVIOUS
  <2>2. CASE i = r.pos
    BY <1>2, <2>2 DEF Admitted, First, KeyOf
  <2>3. CASE i # r.pos
    <3>1. i \in 1 .. Behind(r) /\ i \in 1 .. Len(r.chain)
      BY <1>1, <2>3 DEF Behind
    <3>2. Admitted(r, i, passed)
      BY <1>1, <3>1 DEF MeteredInv, Metered
    <3>. QED  BY <1>1, <1>2, <3>1, <3>2, AdmittedKept
  <2>. QED  BY <2>2, <2>3
<1>3. CASE r.pos < Len(r.chain)
  <2>1. Goes(p, Onward(r, by))
    BY <1>3 DEF Proceed, Onward
  <2>2. Onward(r, by).client = r.client /\ Onward(r, by).by = by
    BY DEF Onward, Request
  <2>3. Onward(r, by) \in Requests /\ Onward(r, by).pos = r.pos + 1
        /\ Onward(r, by).stage = "ask" /\ Onward(r, by).chain = r.chain
    BY <1>1, RequestFields
  <2>4. Behind(Onward(r, by)) = r.pos
    BY <1>1, <2>3 DEF Behind
  <2>. HIDE DEF r
  <2>. QED  BY <1>2, <2>1, <2>2, <2>3, <2>4, MeteredGoes DEF Metered
<1>4. CASE ~(r.pos < Len(r.chain))
  <2>1. Goes(p, Through(r, by))
    BY <1>4 DEF Proceed, Through
  <2>2. Through(r, by).client = r.client /\ Through(r, by).by = by
    BY DEF Through, Request
  <2>3. Through(r, by) \in Requests /\ Through(r, by).pos = r.pos
        /\ Through(r, by).stage = "serve" /\ Through(r, by).chain = r.chain
    BY <1>1, RequestFields
  <2>4. Behind(Through(r, by)) = r.pos /\ r.pos = Len(r.chain)
    BY <1>1, <1>4, <2>3 DEF Behind
  <2>. HIDE DEF r
  <2>. QED  BY <1>2, <2>1, <2>2, <2>3, <2>4, MeteredGoes DEF Metered
<1>. QED  BY <1>3, <1>4

LEMMA MeteredInvStep ==
  ASSUME TypeOK, MeteredInv, [Next]_vars
  PROVE  MeteredInv'
<1>1. ASSUME NEW p \in Procs, Arrive(p) PROVE MeteredInv'
  <2>1. PICK client \in Clients, chain \in Chains : Goes(p, Asking(client, chain))
    BY <1>1 DEF Arrive
  <2>2. Asking(client, chain).stage = "ask" /\ Behind(Asking(client, chain)) = 0
    BY DEF Asking, Request, Behind
  <2>. QED  BY <2>1, <2>2, MeteredGoes DEF Metered
<1>2. ASSUME NEW p \in Procs, Decide(p) PROVE MeteredInv'
  <2>1. At(p, "ask") /\ KeyOf(p) \in Keys /\ First(p) \in Names /\ Call(p) \in Nat
        /\ proc[p] \in Requests
    BY <1>2, AskFacts DEF Decide
  <2>2. CASE Room(KeyOf(p))
    <3>. DEFINE g == [policy |-> First(p), id |-> Call(p)]
                by == proc[p].by \cup {g}
    <3>1. Proceed(p, by) /\ passed' = [passed EXCEPT ![KeyOf(p)] = @ \cup {Stamp(p)}]
      BY <1>2, <2>2 DEF Decide, Stamp
    <3>2. by \in SUBSET Grants
      BY <2>1 DEF Requests, Grants
    <3>3. Stamp(p) \in passed'[KeyOf(p)] /\ Stamp(p).id = Call(p)
      BY <2>1, <3>1 DEF TypeOK, Stamp
    <3>4. g \in by /\ g.policy = First(p) /\ g.id = Call(p) /\ proc[p].by \subseteq by
      OBVIOUS
    <3>. HIDE DEF by, g
    <3>. QED  BY <2>1, <3>1, <3>2, <3>3, <3>4, MeteredProceed
  <2>3. CASE ~Room(KeyOf(p))
    BY <1>2, <2>3, MeteredGoes DEF Decide, Metered
  <2>. QED  BY <2>2, <2>3
<1>3. ASSUME NEW p \in Procs, Lose(p) \/ Miss(p) PROVE MeteredInv'
  <2>1. At(p, "ask") /\ Goes(p, Again(proc[p]))
    BY <1>3 DEF Lose, Miss, Again
  <2>. DEFINE r == proc[p]
  <2>2. /\ r \in Requests /\ r.pos \in Nat \ {0} /\ r.pos <= Len(r.chain)
        /\ Len(r.chain) \in Nat /\ r.stage = "ask" /\ r # Idle
    BY <2>1, AskFacts DEF Requests, At, Idle
  <2>3. {} \in SUBSET Grants
    OBVIOUS
  <2>4. Again(r) \in Requests /\ Again(r).pos = r.pos /\ Again(r).chain = r.chain
        /\ Again(r).stage = "ask"
    BY <2>2, <2>3, RequestFields
  <2>5. Again(r).client = r.client /\ Again(r).by = r.by
    BY <2>2 DEF Again, Requests
  <2>6. \A i \in 1 .. Behind(Again(r)) : i \in 1 .. Len(r.chain) /\ i \in 1 .. Behind(r)
    BY <2>2, <2>4 DEF Behind
  <2>7. \A i \in 1 .. Behind(Again(r)) : Admitted(r, i, passed)
    BY <2>2, <2>6 DEF MeteredInv, Metered
  <2>. HIDE DEF r
  <2>8. \A i \in 1 .. Behind(Again(r)) : Admitted(Again(r), i, passed')
    BY <2>2, <2>4, <2>5, <2>6, <2>7, AdmittedKept
  <2>. QED  BY <2>1, <2>4, <2>8, MeteredGoes DEF Metered, r
<1>4. ASSUME NEW p \in Procs, Degrade(p) PROVE MeteredInv'
  <2>1. At(p, "ask") /\ First(p) \in Names /\ proc[p] \in Requests
    BY <1>4, AskFacts DEF Degrade
  <2>2. CASE Policy[First(p)].open
    <3>1. Proceed(p, proc[p].by) /\ proc[p].by \in SUBSET Grants
      BY <1>4, <2>1, <2>2 DEF Degrade, Requests
    <3>. QED  BY <2>1, <2>2, <3>1, MeteredProceed
  <2>3. CASE ~Policy[First(p)].open
    BY <1>4, <2>3, MeteredGoes DEF Degrade, Metered
  <2>. QED  BY <2>2, <2>3
<1>5. ASSUME NEW p \in Procs, Serve(p) PROVE MeteredInv'
  BY <1>5, MeteredGoes DEF Serve, Metered
<1>6. CASE (Tick \/ UNCHANGED vars)
  <2>1. proc' = proc /\ passed' = passed
    BY <1>6 DEF Tick, vars
  <2>. QED  BY <2>1 DEF MeteredInv
<1>. QED  BY <1>1, <1>2, <1>3, <1>4, <1>5, <1>6 DEF Next, Handle

(* ClosedIsMetered: nobody reaches the handler behind a closed policy that *)
(* has not let him through.                                                *)
THEOREM ClosedHolds == Spec => []ClosedIsMetered
<1>1. Init => MeteredInv
  BY DEF Init, MeteredInv, Metered
<1>2. TypeOK /\ MeteredInv => ClosedIsMetered
  <2>. SUFFICES ASSUME TypeOK, MeteredInv, NEW p \in Procs, At(p, "serve"),
                       NEW i \in DOMAIN proc[p].chain
                PROVE  Admitted(proc[p], i, passed)
    BY DEF ClosedIsMetered, Admitted
  <2>1. proc[p] # Idle /\ proc[p] \in Requests
    BY DEF At, Idle, TypeOK
  <2>2. proc[p].chain \in Seq(Names)
    BY <2>1, DomainAssumption DEF Requests
  <2>3. i \in 1 .. Behind(proc[p])
    BY <2>1, <2>2 DEF MeteredInv, Metered, Behind, At
  <2>. QED  BY <2>1, <2>3 DEF MeteredInv, Metered
<1>. QED  BY <1>1, <1>2, MeteredInvStep, TypeCorrect, PTL DEF Spec
=============================================================================
