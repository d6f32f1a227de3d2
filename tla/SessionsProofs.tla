--------------------------- MODULE SessionsProofs ---------------------------
(***************************************************************************)
(* What holds of Sessions for every value of its constants: any number of  *)
(* users, sessions, tokens and goroutines, any lives of the keys, with     *)
(* every failure the module allows.                                        *)
(***************************************************************************)
EXTENDS Sessions, FiniteSetTheorems, TLAPS

(* Sessions and tokens that were drawn, and keys of the kinds that Redis   *)
(* keeps.                                                                  *)
Drawn == {s \in Sessions : logins[s] # None}
Named == {t \in Tokens : source[t] # None}
SetKeys == {k \in [members : SUBSET Sessions, left : Nat] :
              k.members = {} <=> k.left = 0}
Locks == [by : Procs, left : Nat]
Logins == [user : Users, life : Lives]

StoreType ==
  /\ accounts \subseteq Users
  /\ sessions \in [Sessions -> Keys \cup {None}]
  /\ sets \in [Users -> SetKeys]
  /\ tokens \in [Tokens -> Nat]
  /\ locks \in [Tokens -> Locks \cup {None}]
  /\ logins \in [Sessions -> Logins \cup {None}]
  /\ source \in [Tokens -> Sessions \cup {None}]
  /\ given \subseteq Tokens
  /\ heirs \in [Tokens -> SUBSET Tokens]
  /\ revoked \subseteq Sessions
  /\ stale \subseteq Sessions
  /\ late \subseteq Tokens

(* What a request has in hand at each stage; D and N are the sessions and   *)
(* the tokens drawn.                                                       *)
Hand(r, D, N) ==
  /\ r \in Requests
  /\ r.token \in N \cup {None} /\ r.fresh \in N \cup {None}
  /\ r.sess \in D \cup {None} /\ r.list \subseteq D /\ r.todo \subseteq D
  /\ r.stage \in {"account", "create", "enlist", "undo", "grant"} =>
       r.user \in Users /\ r.life \in Lives
  /\ r.stage \in {"enlist", "undo", "grant", "alive", "spend", "issue", "extend",
                  "store", "retract", "beat", "keep", "find", "drop"} => r.sess \in D
  /\ r.stage \in {"enlist", "undo", "grant", "extend", "store", "retract"} => r.fresh \in Tokens
  /\ r.stage \in {"lock", "load", "alive", "spend", "issue", "extend", "store",
                  "retract", "release"} => r.token \in Tokens
  /\ r.stage \in {"lock", "load", "alive", "spend", "issue"} => r.fresh = None
  /\ r.stage = "release" /\ r.fresh # None => r.sess \in D
  /\ r.stage \in {"keep", "drop"} => r.seen \in Tokens
  /\ r.stage \in {"find", "drop", "erase", "members", "each", "discard", "wipe", "prune",
                  "sweep", "unsweep"} => r.user \in Users
  /\ r.stage = "forget" => r.op = "logout"
  /\ r.op = "logout" => r.token \in Tokens /\ r.sess \in D /\ r.user \in Users

ProcType == /\ proc \in [Procs -> Requests]
            /\ \A p \in Procs : Hand(proc[p], Drawn, Named)

(* Tokens and sets speak of sessions that were drawn.                      *)
DrawInv ==
  /\ \A t \in Tokens : source[t] \in Drawn \cup {None}
  /\ \A t \in Tokens : tokens[t] > 0 => source[t] # None
  /\ \A t \in given \cup late : source[t] # None
  /\ \A u \in Users : sets[u].members \subseteq Drawn
  /\ revoked \subseteq Drawn

TypeInv == StoreType /\ ProcType /\ DrawInv

-----------------------------------------------------------------------------
(* Operators *)

(* The set of a user stays of its kind under SREM and EXPIRE.              *)
LEMMA SRemType ==
  ASSUME NEW k \in SetKeys, NEW S
  PROVE SRem(k, S) \in SetKeys /\ SRem(k, S).members \subseteq k.members
  BY DEF SRem, SetKeys, EmptySet

LEMMA ExpireType ==
  ASSUME NEW k \in SetKeys, NEW life \in Lives
  PROVE Expire(k, life) \in SetKeys /\ Expire(k, life).members = k.members
  BY DomainAssumption DEF Expire, SetKeys, EmptySet

LEMMA EmptySetType == EmptySet \in SetKeys /\ EmptySet.members = {}
  BY DEF EmptySet, SetKeys

(* A session that was drawn has a user and a life.                         *)
LEMMA DrawnType ==
  ASSUME StoreType, NEW s \in Drawn
  PROVE s \in Sessions /\ User(s) \in Users /\ Life(s) \in Lives
  BY DEF StoreType, Drawn, User, Life, Logins

(* An idle request has nothing in hand.                                    *)
LEMMA IdleHand == ASSUME NEW D, NEW N PROVE Hand(Idle, D, N)
  BY NullAssumption DEF Hand, Idle, Requests, Stages, Ops

(* What the EXCEPTs of the module make of a request.                       *)
SawToken(r, st, t) == [r EXCEPT !.stage = st, !.seen = t]
Dooms(r, st, doom) == [r EXCEPT !.stage = st, !.doom = doom]
WentOn(r, st, doom, list, todo) ==
  [r EXCEPT !.todo = todo, !.list = list, !.stage = st, !.doom = doom]
Listed(r, st, list, todo) == [r EXCEPT !.stage = st, !.todo = todo, !.list = list]
Turned(r, st, op, fresh) == [r EXCEPT !.stage = st, !.op = op, !.fresh = fresh]
Loaded(r, st, s) == [r EXCEPT !.stage = st, !.sess = s]

LEMMA SeenMove ==
  ASSUME NEW r \in Requests, NEW st \in Stages, NEW t \in Tokens,
         NEW x, x = SawToken(r, st, t)
  PROVE /\ x \in Requests /\ x.stage = st /\ x.seen = t
        /\ x.op = r.op /\ x.user = r.user /\ x.sess = r.sess /\ x.token = r.token
        /\ x.life = r.life /\ x.fresh = r.fresh /\ x.list = r.list /\ x.todo = r.todo
  BY DEF Requests, SawToken

LEMMA DoomMove ==
  ASSUME NEW r \in Requests, NEW st \in Stages, NEW doom \in SUBSET Tokens,
         NEW x, x = Dooms(r, st, doom)
  PROVE /\ x \in Requests /\ x.stage = st
        /\ x.op = r.op /\ x.user = r.user /\ x.sess = r.sess /\ x.token = r.token
        /\ x.life = r.life /\ x.fresh = r.fresh /\ x.list = r.list /\ x.todo = r.todo
        /\ x.seen = r.seen
  BY DEF Requests, Dooms

LEMMA EachMove ==
  ASSUME NEW r \in Requests, NEW st \in Stages, NEW doom \in SUBSET Tokens,
         NEW list \in SUBSET Sessions, NEW todo \in SUBSET Sessions,
         NEW x, x = WentOn(r, st, doom, list, todo)
  PROVE /\ x \in Requests /\ x.stage = st /\ x.list = list /\ x.todo = todo
        /\ x.op = r.op /\ x.user = r.user /\ x.sess = r.sess /\ x.token = r.token
        /\ x.life = r.life /\ x.fresh = r.fresh /\ x.seen = r.seen
  BY DEF Requests, WentOn

LEMMA ListMove ==
  ASSUME NEW r \in Requests, NEW st \in Stages,
         NEW list \in SUBSET Sessions, NEW todo \in SUBSET Sessions,
         NEW x, x = Listed(r, st, list, todo)
  PROVE /\ x \in Requests /\ x.stage = st /\ x.list = list /\ x.todo = todo
        /\ x.op = r.op /\ x.user = r.user /\ x.sess = r.sess /\ x.token = r.token
        /\ x.life = r.life /\ x.fresh = r.fresh /\ x.seen = r.seen
  BY DEF Requests, Listed

LEMMA LoadMove ==
  ASSUME NEW r \in Requests, NEW st \in Stages, NEW s \in Sessions,
         NEW x, x = Loaded(r, st, s)
  PROVE /\ x \in Requests /\ x.stage = st /\ x.sess = s
        /\ x.op = r.op /\ x.user = r.user /\ x.token = r.token
        /\ x.life = r.life /\ x.fresh = r.fresh /\ x.list = r.list /\ x.todo = r.todo
        /\ x.seen = r.seen
  BY DEF Requests, Loaded

LEMMA TurnMove ==
  ASSUME NEW r \in Requests, NEW st \in Stages, NEW op \in Ops \cup {None},
         NEW fresh \in Tokens \cup {None}, NEW x, x = Turned(r, st, op, fresh)
  PROVE /\ x \in Requests /\ x.stage = st /\ x.op = op /\ x.fresh = fresh
        /\ x.user = r.user /\ x.sess = r.sess /\ x.token = r.token
        /\ x.life = r.life /\ x.list = r.list /\ x.todo = r.todo /\ x.seen = r.seen
  BY DEF Requests, Turned

LEMMA SameOp ==
  ASSUME NEW r \in Requests, NEW st, NEW fresh
  PROVE [r EXCEPT !.stage = st, !.fresh = fresh]
          = [r EXCEPT !.stage = st, !.op = r.op, !.fresh = fresh]
  BY DEF Requests

(* A request that moves on keeps the types of the requests if it has in    *)
(* hand what its next stage needs; sessions are only ever added.           *)
LEMMA GoesType ==
  ASSUME ProcType, NEW p \in Procs, NEW r, Goes(p, r),
         Hand(r, Drawn', Named'), Drawn \subseteq Drawn', Named \subseteq Named'
  PROVE ProcType'
<1>1. \A q \in Procs : Hand(proc'[q], Drawn', Named')
  <2>. TAKE q \in Procs
  <2>1. CASE q = p
    BY <2>1 DEF ProcType, Goes
  <2>2. CASE q # p
    <3>1. proc'[q] = proc[q] /\ Hand(proc[q], Drawn, Named)
      BY <2>2 DEF ProcType, Goes
    <3>. QED BY <3>1 DEF Hand
  <2>. QED BY <2>1, <2>2
<1>2. proc' \in [Procs -> Requests]
  BY DEF ProcType, Goes, Hand
<1>. QED BY <1>1, <1>2 DEF ProcType

LEMMA FinishType ==
  ASSUME ProcType, NEW p \in Procs, Finish(p), Drawn \subseteq Drawn', Named \subseteq Named'
  PROVE ProcType'
  BY GoesType, IdleHand DEF Finish

LEMMA HandOf ==
  ASSUME ProcType, NEW p \in Procs
  PROVE Hand(proc[p], Drawn, Named)
  BY DEF ProcType

-----------------------------------------------------------------------------
(* Types: one lemma per action *)

(* A step that only moves a request on.                                    *)
LEMMA SilentType ==
  ASSUME TypeInv, ProcType', UNCHANGED <<accounts, redisVars, drawnVars, historyVars>>
  PROVE TypeInv'
  BY DEF TypeInv, StoreType, DrawInv, Drawn, Named, redisVars, drawnVars, historyVars

LEMMA TypeInit == Init => TypeInv
<1>. SUFFICES ASSUME Init PROVE TypeInv
  OBVIOUS
<1>1. ProcType
  BY IdleHand DEF Init, ProcType, Hand
<1>2. StoreType /\ DrawInv
  BY EmptySetType DEF Init, StoreType, DrawInv, Drawn
<1>. QED BY <1>1, <1>2 DEF TypeInv

LEMMA FirstStageType ==
  ASSUME NEW op \in Ops
  PROVE /\ FirstStage(op) \in {"account", "lock", "beat", "find", "erase", "members"}
        /\ FirstStage(op) = "account" => op = "login"
        /\ FirstStage(op) = "lock" => op = "refresh"
        /\ FirstStage(op) = "beat" => op = "heartbeat"
        /\ FirstStage(op) = "find" => op \in {"revoke", "logout"}
        /\ op \in {"refresh", "heartbeat"} => FirstStage(op) \in {"lock", "beat"}
  BY DEF FirstStage, Ops

LEMMA TypeReceive ==
  ASSUME TypeInv, NEW p \in Procs, NEW op \in Ops, Receive(p, op)
  PROVE TypeInv'
<1>1. PICK user \in Users \cup {None}, sess \in Sessions \cup {None},
           token \in Tokens \cup {None}, life \in Lives \cup {None} :
        WellFormed(op, user, sess, token, life) /\ Goes(p, Request(op, user, sess, token, life))
  BY DEF Receive
<1>. DEFINE r == Request(op, user, sess, token, life)
<1>2. Known \subseteq Drawn \cup {None} /\ given \subseteq Named
  BY DEF TypeInv, DrawInv, StoreType, Known, Named
<1>3. /\ r \in Requests
      /\ r.stage = FirstStage(op) /\ r.op = op /\ r.user = user /\ r.sess = sess
      /\ r.token = token /\ r.life = life /\ r.fresh = None /\ r.list = {} /\ r.todo = {}
  BY FirstStageType DEF Request, Requests, Stages
<1>4. sess \in Drawn \cup {None} /\ token \in Named \cup {None}
  BY <1>1, <1>2 DEF WellFormed
<1>. HIDE DEF r
<1>5. Hand(r, Drawn, Named)
  BY <1>1, <1>3, <1>4, FirstStageType DEF Hand, WellFormed
<1>6. Drawn' = Drawn /\ Named' = Named
  BY DEF Receive, Drawn, Named, drawnVars
<1>7. ProcType'
  BY <1>1, <1>5, <1>6, GoesType DEF r, TypeInv
<1>. QED BY <1>7, SilentType DEF Receive

(* A silent step that moves a request on to a record it may have.          *)
LEMMA SilentMove ==
  ASSUME TypeInv, NEW p \in Procs, NEW r, Goes(p, r), Hand(r, Drawn, Named),
         UNCHANGED <<accounts, redisVars, drawnVars, historyVars>>
  PROVE TypeInv'
<1>1. Drawn' = Drawn /\ Named' = Named
  BY DEF Drawn, Named, drawnVars
<1>2. ProcType'
  BY <1>1, GoesType DEF TypeInv
<1>. QED BY <1>2, SilentType

LEMMA TypeAccount ==
  ASSUME TypeInv, NEW p \in Procs, Account(p) PROVE TypeInv'
<1>1. Hand([proc[p] EXCEPT !.stage = "create"], Drawn, Named)
  BY HandOf DEF Account, At, TypeInv, Hand, Requests, Stages
<1>. QED BY <1>1, IdleHand, SilentMove DEF Account, To, Finish

LEMMA TypeLoad ==
  ASSUME TypeInv, NEW p \in Procs, Load(p) PROVE TypeInv'
<1>1. Hand(proc[p], Drawn, Named) /\ proc[p].stage = "load" /\ proc[p].token \in Tokens
  BY HandOf DEF Load, At, TypeInv, Hand
<1>2. CASE tokens[proc[p].token] > 0
  <2>1. source[proc[p].token] \in Drawn
    BY <1>1, <1>2 DEF TypeInv, DrawInv
  <2>. DEFINE x == Loaded(proc[p], "alive", source[proc[p].token])
  <2>2. proc[p] \in Requests /\ "alive" \in Stages /\ source[proc[p].token] \in Sessions
    BY <1>1, <2>1 DEF Hand, Stages, Drawn
  <2>3. /\ x \in Requests /\ x.stage = "alive" /\ x.sess = source[proc[p].token]
        /\ x.op = proc[p].op /\ x.user = proc[p].user /\ x.token = proc[p].token
        /\ x.life = proc[p].life /\ x.fresh = proc[p].fresh
        /\ x.list = proc[p].list /\ x.todo = proc[p].todo /\ x.seen = proc[p].seen
    BY <2>2, LoadMove
  <2>4. Goes(p, x)
    BY <1>2 DEF Load, Loaded
  <2>. HIDE DEF x
  <2>5. Hand(x, Drawn, Named)
    BY <1>1, <2>1, <2>3 DEF Hand
  <2>. QED BY <2>4, <2>5, SilentMove DEF Load
<1>3. CASE ~(tokens[proc[p].token] > 0)
  <2>1. Hand([proc[p] EXCEPT !.stage = "release"], Drawn, Named)
    BY <1>1 DEF Hand, Requests, Stages
  <2>. QED BY <1>3, <2>1, SilentMove DEF Load, To
<1>. QED BY <1>2, <1>3

LEMMA TypeAlive ==
  ASSUME TypeInv, NEW p \in Procs, Alive(p) PROVE TypeInv'
<1>1. \A st \in {"spend", "release"} : Hand([proc[p] EXCEPT !.stage = st], Drawn, Named)
  BY HandOf DEF Alive, At, TypeInv, Hand, Requests, Stages
<1>. QED BY <1>1, SilentMove DEF Alive, To

LEMMA TypeExtend ==
  ASSUME TypeInv, NEW p \in Procs, Extend(p) PROVE TypeInv'
<1>1. \A st \in {"store", "retract"} : Hand([proc[p] EXCEPT !.stage = st], Drawn, Named)
  BY HandOf DEF Extend, At, TypeInv, Hand, Requests, Stages
<1>. QED BY <1>1, SilentMove DEF Extend, To

LEMMA TypeBeat ==
  ASSUME TypeInv, NEW p \in Procs, Beat(p) PROVE TypeInv'
<1>1. Hand(proc[p], Drawn, Named) /\ proc[p].stage = "beat" /\ proc[p].sess \in Sessions
  BY HandOf DEF Beat, At, TypeInv, Hand, Drawn
<1>2. CASE sessions[proc[p].sess] # None
  <2>1. sessions[proc[p].sess].token \in Tokens
    BY <1>1, <1>2 DEF TypeInv, StoreType, Keys
  <2>. DEFINE x == SawToken(proc[p], "keep", sessions[proc[p].sess].token)
  <2>2. proc[p] \in Requests /\ "keep" \in Stages
    BY <1>1 DEF Hand, Stages
  <2>3. /\ x \in Requests /\ x.stage = "keep" /\ x.seen \in Tokens
        /\ x.op = proc[p].op /\ x.user = proc[p].user /\ x.sess = proc[p].sess
        /\ x.token = proc[p].token /\ x.life = proc[p].life /\ x.fresh = proc[p].fresh
        /\ x.list = proc[p].list /\ x.todo = proc[p].todo
    BY <2>1, <2>2, SeenMove
  <2>4. Goes(p, x)
    BY <1>2 DEF Beat, SawToken
  <2>. HIDE DEF x
  <2>5. Hand(x, Drawn, Named)
    BY <1>1, <2>3 DEF Hand
  <2>. QED BY <2>4, <2>5, SilentMove DEF Beat
<1>3. CASE sessions[proc[p].sess] = None
  BY <1>3, IdleHand, SilentMove DEF Beat, Finish
<1>. QED BY <1>2, <1>3

LEMMA TypeFind ==
  ASSUME TypeInv, NEW p \in Procs, Find(p) PROVE TypeInv'
<1>1. Hand(proc[p], Drawn, Named) /\ proc[p].stage = "find" /\ proc[p].sess \in Sessions
  BY HandOf DEF Find, At, TypeInv, Hand, Drawn
<1>2. CASE sessions[proc[p].sess] # None
  <2>1. sessions[proc[p].sess].token \in Tokens
    BY <1>1, <1>2 DEF TypeInv, StoreType, Keys
  <2>. DEFINE x == SawToken(proc[p], "drop", sessions[proc[p].sess].token)
  <2>2. proc[p] \in Requests /\ "drop" \in Stages
    BY <1>1 DEF Hand, Stages
  <2>3. /\ x \in Requests /\ x.stage = "drop" /\ x.seen \in Tokens
        /\ x.op = proc[p].op /\ x.user = proc[p].user /\ x.sess = proc[p].sess
        /\ x.token = proc[p].token /\ x.life = proc[p].life /\ x.fresh = proc[p].fresh
        /\ x.list = proc[p].list /\ x.todo = proc[p].todo
    BY <2>1, <2>2, SeenMove
  <2>4. Goes(p, x)
    BY <1>2 DEF Find, SawToken
  <2>. HIDE DEF x
  <2>5. Hand(x, Drawn, Named)
    BY <1>1, <2>3 DEF Hand
  <2>. QED BY <2>4, <2>5, SilentMove DEF Find
<1>3. CASE sessions[proc[p].sess] = None
  <2>1. proc[p].op = "logout" => Hand([proc[p] EXCEPT !.stage = "forget"], Drawn, Named)
    BY <1>1 DEF Hand, Requests, Stages
  <2>. QED BY <1>3, <2>1, IdleHand, SilentMove DEF Find, Finish, To
<1>. QED BY <1>2, <1>3

LEMMA TypeMembers ==
  ASSUME TypeInv, NEW p \in Procs, Members(p) PROVE TypeInv'
<1>. DEFINE r == proc[p]
            todo == sets[r.user].members \ (IF r.op = "others" THEN {r.sess} ELSE {})
            list == IF r.op = "list" THEN {} ELSE todo
            x == Listed(r, "each", list, todo)
<1>1. Hand(r, Drawn, Named) /\ r.stage = "members" /\ r.user \in Users
  BY HandOf DEF Members, At, TypeInv, Hand
<1>2. todo \subseteq Drawn
  BY <1>1 DEF TypeInv, DrawInv
<1>3. list \subseteq Drawn
  BY <1>2
<1>4. /\ \/ Goes(p, x)
         \/ To(p, "discard") \/ Finish(p)
      /\ UNCHANGED <<accounts, redisVars, drawnVars, historyVars>>
  BY DEF Members, Listed
<1>. HIDE DEF todo, list
<1>5. /\ r \in Requests /\ "each" \in Stages
      /\ list \in SUBSET Sessions /\ todo \in SUBSET Sessions
  BY <1>1, <1>2, <1>3 DEF Hand, Stages, Drawn
<1>6. /\ x \in Requests /\ x.stage = "each" /\ x.list = list /\ x.todo = todo
      /\ x.op = r.op /\ x.user = r.user /\ x.sess = r.sess /\ x.token = r.token
      /\ x.life = r.life /\ x.fresh = r.fresh /\ x.seen = r.seen
  BY <1>5, ListMove
<1>. HIDE DEF x
<1>7. Hand(x, Drawn, Named)
  BY <1>1, <1>2, <1>3, <1>6 DEF Hand
<1>8. Hand([r EXCEPT !.stage = "discard"], Drawn, Named)
  BY <1>1 DEF Hand, Requests, Stages
<1>. QED BY <1>4, <1>7, <1>8, IdleHand, SilentMove DEF Finish, To

LEMMA TypeEach ==
  ASSUME TypeInv, NEW p \in Procs, Each(p) PROVE TypeInv'
<1>. DEFINE r == proc[p]
            Present(s) == sessions[s] # None
            List(s, read) == IF r.op = "list" /\ read /\ ~Present(s) THEN r.list \cup {s} ELSE r.list
            After(s) == IF r.todo # {s} THEN "each"
                        ELSE IF r.op # "list" THEN "wipe" ELSE "prune"
            Doom(s, read) == IF read /\ Present(s) /\ r.op # "list"
                             THEN r.doom \cup {sessions[s].token} ELSE r.doom
<1>1. Hand(r, Drawn, Named) /\ r.stage = "each" /\ r.todo \subseteq Drawn /\ r.list \subseteq Drawn
  BY HandOf DEF Each, At, TypeInv, Hand
<1>2. PICK s \in r.todo, read \in {TRUE, ~Faults} :
        Goes(p, [r EXCEPT !.todo = r.todo \ {s}, !.list = List(s, read),
                          !.stage = After(s), !.doom = Doom(s, read)])
  BY DEF Each
<1>. DEFINE list == List(s, read)
            doom == Doom(s, read)
            after == After(s)
            todo == r.todo \ {s}
            x == WentOn(r, after, doom, list, todo)
<1>3. s \in Sessions /\ r.doom \subseteq Tokens
  BY <1>1 DEF Hand, Requests, Drawn
<1>4. sessions[s] # None => sessions[s].token \in Tokens
  BY <1>3 DEF TypeInv, StoreType, Keys
<1>5. doom \in SUBSET Tokens
  BY <1>3, <1>4
<1>6. list \subseteq Drawn /\ todo \subseteq Drawn
  BY <1>1
<1>7. after \in {"each", "wipe", "prune"}
  OBVIOUS
<1>8. Goes(p, x)
  BY <1>2 DEF WentOn
<1>. HIDE DEF list, doom, after, todo
<1>9. r \in Requests /\ after \in Stages /\ list \in SUBSET Sessions /\ todo \in SUBSET Sessions
  BY <1>1, <1>6, <1>7 DEF Hand, Stages, Drawn
<1>10. /\ x \in Requests /\ x.stage = after /\ x.list = list /\ x.todo = todo
       /\ x.op = r.op /\ x.user = r.user /\ x.sess = r.sess /\ x.token = r.token
       /\ x.life = r.life /\ x.fresh = r.fresh /\ x.seen = r.seen
  BY <1>5, <1>9, EachMove
<1>. HIDE DEF x
<1>11. Hand(x, Drawn, Named)
  BY <1>1, <1>6, <1>7, <1>10 DEF Hand
<1>. QED BY <1>8, <1>11, SilentMove DEF Each

LEMMA TypeSweep ==
  ASSUME TypeInv, NEW p \in Procs, Sweep(p) PROVE TypeInv'
<1>1. PICK found \in Scanned(proc[p].user) :
        \/ Goes(p, [proc[p] EXCEPT !.stage = "unsweep", !.doom = found])
        \/ Finish(p)
  BY DEF Sweep
<1>2. found \subseteq Tokens
  BY <1>1 DEF Scanned, LiveTokens
<1>3. Hand(proc[p], Drawn, Named) /\ proc[p].stage = "sweep"
  BY HandOf DEF Sweep, At, TypeInv
<1>. DEFINE x == Dooms(proc[p], "unsweep", found)
<1>4. proc[p] \in Requests /\ "unsweep" \in Stages
  BY <1>3 DEF Hand, Stages
<1>5. /\ x \in Requests /\ x.stage = "unsweep"
      /\ x.op = proc[p].op /\ x.user = proc[p].user /\ x.sess = proc[p].sess
      /\ x.token = proc[p].token /\ x.life = proc[p].life /\ x.fresh = proc[p].fresh
      /\ x.list = proc[p].list /\ x.todo = proc[p].todo /\ x.seen = proc[p].seen
  BY <1>2, <1>4, DoomMove
<1>6. Goes(p, x) \/ Finish(p)
  BY <1>1 DEF Dooms
<1>. HIDE DEF x
<1>7. Hand(x, Drawn, Named)
  BY <1>3, <1>5 DEF Hand
<1>. QED BY <1>6, <1>7, IdleHand, SilentMove DEF Sweep, Finish

(* A step that changes keys, and moves a request on to a record it may     *)
(* have.                                                                   *)
LEMMA KeyMove ==
  ASSUME TypeInv, StoreType', DrawInv', UNCHANGED drawnVars,
         NEW p \in Procs, NEW r, Goes(p, r), Hand(r, Drawn, Named)
  PROVE TypeInv'
<1>1. Drawn' = Drawn /\ Named' = Named
  BY DEF Drawn, Named, drawnVars
<1>2. ProcType'
  BY <1>1, GoesType DEF TypeInv
<1>. QED BY <1>2 DEF TypeInv

LEMMA TypeCreate ==
  ASSUME TypeInv, NEW p \in Procs, Create(p) PROVE TypeInv'
<1>1. PICK s \in SpareSessions, t \in SpareTokens :
        /\ sessions' = [sessions EXCEPT ![s] = [token |-> t, left |-> proc[p].life]]
        /\ logins' = [logins EXCEPT ![s] = [user |-> proc[p].user, life |-> proc[p].life]]
        /\ source' = [source EXCEPT ![t] = s]
        /\ Goes(p, [proc[p] EXCEPT !.stage = "enlist", !.sess = s, !.fresh = t])
  BY DEF Create
<1>2. /\ Hand(proc[p], Drawn, Named) /\ proc[p].stage = "create"
      /\ proc[p].user \in Users /\ proc[p].life \in Lives /\ proc[p].life \in Nat
  BY HandOf, DomainAssumption DEF Create, At, TypeInv, Hand
<1>3. s \in Sessions /\ t \in Tokens
  BY DEF SpareSessions, SpareTokens
<1>4. Drawn' = Drawn \cup {s} /\ Named' = Named \cup {t}
  BY <1>1, <1>2, <1>3, NullAssumption DEF TypeInv, StoreType, Drawn, Named
<1>5. StoreType'
  BY <1>1, <1>2, <1>3 DEF Create, TypeInv, StoreType, Keys, Logins, historyVars
<1>6. DrawInv'
  BY <1>1, <1>3, <1>4, NullAssumption DEF Create, TypeInv, StoreType, DrawInv, historyVars
<1>7. Hand([proc[p] EXCEPT !.stage = "enlist", !.sess = s, !.fresh = t], Drawn', Named')
  BY <1>2, <1>3, <1>4 DEF Hand, Requests, Stages
<1>8. ProcType'
  BY <1>1, <1>4, <1>7, GoesType DEF TypeInv
<1>. QED BY <1>5, <1>6, <1>8 DEF TypeInv

LEMMA TypeEnlist ==
  ASSUME TypeInv, NEW p \in Procs, Enlist(p) PROVE TypeInv'
<1>. DEFINE u == proc[p].user
            set == [members |-> sets[u].members \cup {proc[p].sess}, left |-> proc[p].life]
<1>1. /\ Hand(proc[p], Drawn, Named) /\ proc[p].stage = "enlist" /\ proc[p].sess \in Drawn
      /\ u \in Users /\ proc[p].life \in Lives
  BY HandOf DEF Enlist, At, TypeInv, Hand
<1>2. set \in SetKeys /\ set.members \subseteq Drawn
  BY <1>1, DomainAssumption DEF TypeInv, StoreType, DrawInv, SetKeys, Drawn
<1>3. sets' = [sets EXCEPT ![u] = set]
  BY DEF Enlist
<1>. HIDE DEF set
<1>4. StoreType'
  BY <1>1, <1>2, <1>3 DEF Enlist, TypeInv, StoreType, drawnVars, historyVars
<1>5. DrawInv'
  BY <1>1, <1>2, <1>3 DEF Enlist, TypeInv, StoreType, DrawInv, Drawn, drawnVars, historyVars
<1>6. Hand([proc[p] EXCEPT !.stage = "grant"], Drawn, Named)
  BY <1>1 DEF Hand, Requests, Stages
<1>. QED BY <1>4, <1>5, <1>6, KeyMove DEF Enlist, To, drawnVars

LEMMA TypeUndo ==
  ASSUME TypeInv, NEW p \in Procs, Undo(p) PROVE TypeInv'
<1>1. StoreType'
  BY DEF Undo, Unchecked, Missed, TypeInv, StoreType, drawnVars
<1>2. DrawInv'
  BY DEF Undo, TypeInv, DrawInv, Drawn, drawnVars
<1>. QED BY <1>1, <1>2, IdleHand, KeyMove DEF Undo, Finish, drawnVars

LEMMA TypeGrant ==
  ASSUME TypeInv, NEW p \in Procs, Grant(p) PROVE TypeInv'
<1>1. /\ Hand(proc[p], Drawn, Named) /\ proc[p].stage = "grant" /\ proc[p].sess \in Drawn
      /\ proc[p].fresh \in Tokens /\ source[proc[p].fresh] # None /\ proc[p].user \in Users /\ proc[p].life \in Nat
  BY HandOf, DomainAssumption, NullAssumption DEF Grant, At, TypeInv, Hand, Named
<1>2. StoreType'
  BY <1>1 DEF Grant, TypeInv, StoreType, drawnVars
<1>3. DrawInv'
  BY <1>1 DEF Grant, TypeInv, DrawInv, Drawn, drawnVars
<1>4. Hand([proc[p] EXCEPT !.stage = "find", !.op = "revoke"], Drawn, Named)
  BY <1>1 DEF Hand, Requests, Stages, Ops
<1>. QED BY <1>2, <1>3, <1>4, IdleHand, KeyMove DEF Grant, Finish, drawnVars

LEMMA TypeAcquire ==
  ASSUME TypeInv, NEW p \in Procs, Acquire(p) PROVE TypeInv'
<1>1. Hand(proc[p], Drawn, Named) /\ proc[p].stage = "lock" /\ proc[p].token \in Tokens
  BY HandOf DEF Acquire, At, TypeInv, Hand
<1>2. StoreType'
  BY <1>1, DomainAssumption DEF Acquire, TypeInv, StoreType, Locks, drawnVars, historyVars
<1>3. DrawInv'
  BY DEF Acquire, TypeInv, DrawInv, Drawn, drawnVars, historyVars
<1>4. Hand([proc[p] EXCEPT !.stage = "load"], Drawn, Named)
  BY <1>1 DEF Hand, Requests, Stages
<1>. QED BY <1>2, <1>3, <1>4, IdleHand, KeyMove DEF Acquire, Finish, To

LEMMA TypeSpend ==
  ASSUME TypeInv, NEW p \in Procs, Spend(p) PROVE TypeInv'
<1>1. Hand(proc[p], Drawn, Named) /\ proc[p].stage = "spend"
  BY HandOf DEF Spend, At, TypeInv
<1>2. StoreType'
  BY DEF Spend, TypeInv, StoreType, drawnVars, historyVars
<1>3. DrawInv'
  BY DEF Spend, TypeInv, StoreType, DrawInv, Drawn, drawnVars, historyVars
<1>4. Hand([proc[p] EXCEPT !.stage = "issue"], Drawn, Named)
  BY <1>1 DEF Hand, Requests, Stages
<1>. QED BY <1>2, <1>3, <1>4, KeyMove DEF Spend, To

LEMMA TypeIssue ==
  ASSUME TypeInv, NEW p \in Procs, Issue(p) PROVE TypeInv'
<1>. DEFINE s == proc[p].sess
<1>1. PICK t \in SpareTokens :
        /\ tokens' = [tokens EXCEPT ![t] = Life(s)]
        /\ source' = [source EXCEPT ![t] = s]
        /\ heirs' = [heirs EXCEPT ![proc[p].token] = @ \cup {t}]
        /\ Goes(p, [proc[p] EXCEPT !.stage = "extend", !.fresh = t])
  BY DEF Issue
<1>2. /\ Hand(proc[p], Drawn, Named) /\ proc[p].stage = "issue"
      /\ s \in Drawn /\ proc[p].token \in Tokens
  BY HandOf DEF Issue, At, TypeInv, Hand
<1>3. s \in Sessions /\ t \in Tokens /\ Life(s) \in Nat
  BY <1>2, DrawnType, DomainAssumption DEF SpareTokens, TypeInv
<1>4. Drawn' = Drawn /\ Named' = Named \cup {t}
  BY <1>1, <1>3, NullAssumption DEF Issue, TypeInv, StoreType, Drawn, Named
<1>5. StoreType'
  BY <1>1, <1>2, <1>3 DEF Issue, TypeInv, StoreType
<1>6. DrawInv'
  BY <1>1, <1>2, <1>3, <1>4, NullAssumption DEF Issue, TypeInv, StoreType, DrawInv
<1>. DEFINE x == Turned(proc[p], "extend", proc[p].op, t)
<1>7. /\ proc[p] \in Requests /\ "extend" \in Stages
      /\ proc[p].op \in Ops \cup {None} /\ t \in Tokens \cup {None}
  BY <1>2, <1>3 DEF Hand, Stages, Requests
<1>8. /\ x \in Requests /\ x.stage = "extend" /\ x.op = proc[p].op /\ x.fresh = t
      /\ x.user = proc[p].user /\ x.sess = s /\ x.token = proc[p].token
      /\ x.list = proc[p].list /\ x.todo = proc[p].todo
  BY <1>7 DEF Turned, Requests
<1>9. Goes(p, x)
  BY <1>1, <1>7, SameOp DEF Turned
<1>. HIDE DEF x
<1>10. Hand(x, Drawn', Named')
  BY <1>2, <1>3, <1>4, <1>8 DEF Hand
<1>11. ProcType'
  BY <1>4, <1>9, <1>10, GoesType DEF TypeInv
<1>. QED BY <1>5, <1>6, <1>11 DEF TypeInv

LEMMA TypeStore ==
  ASSUME TypeInv, NEW p \in Procs, Store(p) PROVE TypeInv'
<1>. DEFINE s == proc[p].sess
            set == Expire(sets[User(s)], Life(s))
<1>1. /\ Hand(proc[p], Drawn, Named) /\ proc[p].stage = "store"
      /\ s \in Drawn /\ proc[p].fresh \in Tokens
  BY HandOf DEF Store, At, TypeInv, Hand
<1>2. s \in Sessions /\ User(s) \in Users /\ Life(s) \in Lives /\ Life(s) \in Nat
  BY <1>1, DrawnType, DomainAssumption DEF TypeInv
<1>3. set \in SetKeys /\ set.members = sets[User(s)].members
  BY <1>2, ExpireType DEF TypeInv, StoreType
<1>4. sets' = [sets EXCEPT ![User(s)] = set]
  BY DEF Store
<1>. HIDE DEF set
<1>5. StoreType'
  BY <1>1, <1>2, <1>3, <1>4 DEF Store, TypeInv, StoreType, Keys, drawnVars, historyVars
<1>6. DrawInv'
  BY <1>3, <1>4, <1>2 DEF Store, TypeInv, StoreType, DrawInv, Drawn, drawnVars, historyVars
<1>7. Hand([proc[p] EXCEPT !.stage = "release"], Drawn, Named)
  BY <1>1 DEF Hand, Requests, Stages
<1>. QED BY <1>5, <1>6, <1>7, KeyMove DEF Store, To

LEMMA TypeRetract ==
  ASSUME TypeInv, NEW p \in Procs, Retract(p) PROVE TypeInv'
<1>1. Hand(proc[p], Drawn, Named) /\ proc[p].stage = "retract"
  BY HandOf DEF Retract, At, TypeInv
<1>2. StoreType'
  BY DEF Retract, Unchecked, TypeInv, StoreType, drawnVars, historyVars
<1>3. DrawInv'
  BY DEF Retract, Unchecked, TypeInv, StoreType, DrawInv, Drawn, drawnVars, historyVars
<1>. DEFINE x == Turned(proc[p], "release", proc[p].op, None)
<1>4. proc[p] \in Requests /\ "release" \in Stages /\ proc[p].op \in Ops \cup {None}
  BY <1>1 DEF Hand, Stages, Requests
<1>5. /\ x \in Requests /\ x.stage = "release" /\ x.op = proc[p].op /\ x.fresh = None
      /\ x.user = proc[p].user /\ x.sess = proc[p].sess /\ x.token = proc[p].token
      /\ x.list = proc[p].list /\ x.todo = proc[p].todo
  BY <1>4, TurnMove
<1>6. Goes(p, x)
  BY <1>1, SameOp DEF Retract, Turned, Hand
<1>. HIDE DEF x
<1>7. Hand(x, Drawn, Named)
  BY <1>1, <1>5 DEF Hand
<1>. QED BY <1>2, <1>3, <1>6, <1>7, KeyMove DEF Retract

LEMMA TypeRelease ==
  ASSUME TypeInv, NEW p \in Procs, Release(p) PROVE TypeInv'
<1>1. /\ Hand(proc[p], Drawn, Named) /\ proc[p].stage = "release"
      /\ proc[p].fresh \in Named \cup {None}
  BY HandOf DEF Release, At, TypeInv, Hand
<1>2. StoreType'
  BY <1>1 DEF Release, Unchecked, TypeInv, StoreType, Named, drawnVars
<1>3. DrawInv'
  BY <1>1 DEF Release, TypeInv, StoreType, DrawInv, Drawn, Named, drawnVars
<1>. QED BY <1>2, <1>3, IdleHand, KeyMove DEF Release, Finish

LEMMA TypeKeep ==
  ASSUME TypeInv, NEW p \in Procs, Keep(p) PROVE TypeInv'
<1>1. proc[p].sess \in Sessions /\ proc[p].seen \in Tokens
  BY HandOf DEF Keep, At, TypeInv, Hand, Drawn
<1>2. (IF sessions[proc[p].sess] = None THEN Never ELSE sessions[proc[p].sess].left)
         \in Nat \cup {Never}
  BY <1>1 DEF TypeInv, StoreType, Keys
<1>3. StoreType'
  BY <1>1, <1>2 DEF Keep, TypeInv, StoreType, Keys, drawnVars, historyVars
<1>4. DrawInv'
  BY DEF Keep, TypeInv, DrawInv, Drawn, drawnVars, historyVars
<1>. QED BY <1>3, <1>4, IdleHand, KeyMove DEF Keep, Finish

LEMMA TypeDrop ==
  ASSUME TypeInv, NEW p \in Procs, Drop(p) PROVE TypeInv'
<1>. DEFINE s == proc[p].sess
            u == proc[p].user
            set == SRem(sets[u], {s})
<1>1. Hand(proc[p], Drawn, Named) /\ proc[p].stage = "drop" /\ s \in Drawn /\ u \in Users
  BY HandOf DEF Drop, At, TypeInv, Hand
<1>2. set \in SetKeys /\ set.members \subseteq sets[u].members
  BY <1>1, SRemType DEF TypeInv, StoreType
<1>3. sets' = [sets EXCEPT ![u] = set] /\ revoked' = revoked \cup {s}
  BY DEF Drop
<1>. HIDE DEF set
<1>4. StoreType'
  BY <1>1, <1>2, <1>3 DEF Drop, Missed, TypeInv, StoreType, Drawn, drawnVars
<1>5. DrawInv'
  BY <1>1, <1>2, <1>3 DEF Drop, TypeInv, StoreType, DrawInv, Drawn, drawnVars
<1>6. proc[p].op = "logout" => Hand([proc[p] EXCEPT !.stage = "forget"], Drawn, Named)
  BY <1>1 DEF Hand, Requests, Stages
<1>. QED BY <1>4, <1>5, <1>6, IdleHand, KeyMove DEF Drop, To, Finish

LEMMA TypeForget ==
  ASSUME TypeInv, NEW p \in Procs, Forget(p) PROVE TypeInv'
<1>1. Hand(proc[p], Drawn, Named) /\ proc[p].stage = "forget"
  BY HandOf DEF Forget, At, TypeInv
<1>2. StoreType'
  BY DEF Forget, TypeInv, StoreType, drawnVars, historyVars
<1>3. DrawInv'
  BY DEF Forget, TypeInv, StoreType, DrawInv, Drawn, drawnVars, historyVars
<1>4. Hand([proc[p] EXCEPT !.stage = "find", !.op = "revoke"], Drawn, Named)
  BY <1>1 DEF Hand, Requests, Stages, Ops
<1>. QED BY <1>2, <1>3, <1>4, KeyMove DEF Forget

LEMMA TypeErase ==
  ASSUME TypeInv, NEW p \in Procs, Erase(p) PROVE TypeInv'
<1>1. Hand(proc[p], Drawn, Named) /\ proc[p].stage = "erase"
  BY HandOf DEF Erase, At, TypeInv
<1>2. StoreType'
  BY DEF Erase, TypeInv, StoreType, redisVars, drawnVars, historyVars
<1>3. DrawInv'
  BY DEF Erase, TypeInv, DrawInv, Drawn, redisVars, drawnVars, historyVars
<1>4. Hand([proc[p] EXCEPT !.stage = "members"], Drawn, Named)
  BY <1>1 DEF Hand, Requests, Stages
<1>. QED BY <1>2, <1>3, <1>4, IdleHand, KeyMove DEF Erase, To, Finish

LEMMA TypeDiscard ==
  ASSUME TypeInv, NEW p \in Procs, Discard(p) PROVE TypeInv'
<1>1. Hand(proc[p], Drawn, Named) /\ proc[p].stage = "discard"
  BY HandOf DEF Discard, At, TypeInv
<1>2. StoreType'
  BY EmptySetType DEF Discard, Unchecked, TypeInv, StoreType, drawnVars, historyVars
<1>3. DrawInv'
  BY EmptySetType DEF Discard, Unchecked, TypeInv, StoreType, DrawInv, Drawn,
     drawnVars, historyVars
<1>4. Hand([proc[p] EXCEPT !.stage = "sweep"], Drawn, Named)
  BY <1>1 DEF Hand, Requests, Stages
<1>. QED BY <1>2, <1>3, <1>4, KeyMove DEF Discard, To

LEMMA WithoutType ==
  ASSUME NEW D, NEW V, NEW keys \in [D -> V], NEW S, NEW absent \in V
  PROVE /\ Without(keys, S, absent) \in [D -> V]
        /\ \A k \in D : Without(keys, S, absent)[k] \in {keys[k], absent}
  BY DEF Without

LEMMA TokensGone ==
  ASSUME StoreType, NEW S, tokens' = Without(tokens, S, 0)
  PROVE tokens' \in [Tokens -> Nat] /\ \A t \in Tokens : tokens'[t] \in {tokens[t], 0}
<1>1. tokens \in [Tokens -> Nat] /\ 0 \in Nat
  BY DEF StoreType
<1>. QED BY <1>1, WithoutType

LEMMA TypeWipe ==
  ASSUME TypeInv, NEW p \in Procs, Wipe(p) PROVE TypeInv'
<1>. DEFINE r == proc[p]
            set == IF Sweeps(r.op) THEN EmptySet ELSE SRem(sets[r.user], r.list)
<1>1. Hand(r, Drawn, Named) /\ r.stage = "wipe" /\ r.list \subseteq Drawn /\ r.user \in Users
  BY HandOf DEF Wipe, At, TypeInv, Hand
<1>2. set \in SetKeys /\ set.members \subseteq sets[r.user].members
  BY <1>1, SRemType, EmptySetType DEF TypeInv, StoreType
<1>3. /\ sets' = [sets EXCEPT ![r.user] = set] /\ revoked' = revoked \cup r.list
      /\ sessions' = Without(sessions, r.list, None)
      /\ tokens' = Without(tokens, r.doom, 0)
  BY DEF Wipe
<1>. HIDE DEF set
<1>4. sessions' \in [Sessions -> Keys \cup {None}]
  BY <1>3, WithoutType DEF TypeInv, StoreType
<1>5. tokens' \in [Tokens -> Nat] /\ \A t \in Tokens : tokens'[t] \in {tokens[t], 0}
  BY <1>3, TokensGone DEF TypeInv
<1>6. StoreType'
  BY <1>1, <1>2, <1>3, <1>4, <1>5 DEF Wipe, Missed, TypeInv, StoreType, Drawn, drawnVars
<1>7. DrawInv'
  BY <1>1, <1>2, <1>3, <1>5 DEF Wipe, TypeInv, StoreType, DrawInv, Drawn, drawnVars
<1>8. Hand([r EXCEPT !.stage = "sweep"], Drawn, Named)
  BY <1>1 DEF Hand, Requests, Stages
<1>. QED BY <1>6, <1>7, <1>8, IdleHand, KeyMove DEF Wipe, To, Finish

LEMMA TypePrune ==
  ASSUME TypeInv, NEW p \in Procs, Prune(p) PROVE TypeInv'
<1>. DEFINE u == proc[p].user
            set == SRem(sets[u], proc[p].list)
<1>1. u \in Users
  BY HandOf DEF Prune, At, TypeInv, Hand
<1>2. set \in SetKeys /\ set.members \subseteq sets[u].members
  BY <1>1, SRemType DEF TypeInv, StoreType
<1>3. sets' = [sets EXCEPT ![u] = set] \/ UNCHANGED sets
  BY DEF Prune, Unchecked
<1>. HIDE DEF set
<1>4. StoreType'
  BY <1>1, <1>2, <1>3 DEF Prune, TypeInv, StoreType, drawnVars, historyVars
<1>5. DrawInv'
  BY <1>1, <1>2, <1>3 DEF Prune, TypeInv, StoreType, DrawInv, Drawn, drawnVars, historyVars
<1>. QED BY <1>4, <1>5, IdleHand, KeyMove DEF Prune, Finish

LEMMA TypeUnsweep ==
  ASSUME TypeInv, NEW p \in Procs, Unsweep(p) PROVE TypeInv'
<1>1. tokens' \in [Tokens -> Nat] /\ \A t \in Tokens : tokens'[t] \in {tokens[t], 0}
  BY TokensGone DEF Unsweep, TypeInv
<1>2. StoreType'
  BY <1>1 DEF Unsweep, TypeInv, StoreType, drawnVars, historyVars
<1>3. DrawInv'
  BY <1>1 DEF Unsweep, TypeInv, StoreType, DrawInv, Drawn, drawnVars, historyVars
<1>. QED BY <1>2, <1>3, IdleHand, KeyMove DEF Unsweep, Finish

LEMMA TypeFail ==
  ASSUME TypeInv, NEW p \in Procs, Fail(p) PROVE TypeInv'
<1>. DEFINE r == proc[p]
<1>1. Hand(r, Drawn, Named)
  BY HandOf DEF TypeInv
<1>2. ASSUME NEW f \in Failures, r.stage = f[1], f[2] = "retract" => r.fresh # None,
             Goes(p, [r EXCEPT !.stage = f[2], !.op = IF @ = "login" THEN "revoke" ELSE @,
                               !.fresh = IF f[2] = "release" THEN None ELSE @])
      PROVE TypeInv'
  <2>. DEFINE op == IF r.op = "login" THEN "revoke" ELSE r.op
              fresh == IF f[2] = "release" THEN None ELSE r.fresh
              x == Turned(r, f[2], op, fresh)
  <2>1. Goes(p, x)
    BY <1>2 DEF Turned
  <2>2. r \in Requests /\ f[2] \in Stages /\ op \in Ops \cup {None} /\ fresh \in Tokens \cup {None}
    BY <1>1 DEF Hand, Requests, Stages, Ops, Failures
  <2>3. op = "logout" => r.op = "logout"
    OBVIOUS
  <2>4. fresh \in {r.fresh, None} /\ (f[2] # "release" => fresh = r.fresh)
    OBVIOUS
  <2>. HIDE DEF op, fresh
  <2>5. /\ x \in Requests /\ x.stage = f[2] /\ x.op = op /\ x.fresh = fresh
        /\ x.user = r.user /\ x.sess = r.sess /\ x.token = r.token
        /\ x.life = r.life /\ x.list = r.list /\ x.todo = r.todo
    BY <2>2, TurnMove
  <2>. HIDE DEF x
  <2>6. Hand(x, Drawn, Named)
    BY <1>1, <1>2, <2>3, <2>4, <2>5 DEF Hand, Failures, Requests
  <2>. QED BY <2>1, <2>6, SilentMove DEF Fail
<1>3. ASSUME r.op = "logout", r.stage \in {"find", "drop"}, To(p, "forget")
      PROVE TypeInv'
  <2>1. Hand([r EXCEPT !.stage = "forget"], Drawn, Named)
    BY <1>1, <1>3 DEF Hand, Requests, Stages
  <2>. QED BY <1>3, <2>1, SilentMove DEF Fail, To
<1>4. ASSUME Finish(p) PROVE TypeInv'
  BY <1>4, IdleHand, SilentMove DEF Fail, Finish
<1>. QED BY <1>2, <1>3, <1>4 DEF Fail, At

(* A key that ages stays of its kind, and a set that runs out is empty.    *)
LEMMA AgedType ==
  ASSUME NEW K, NEW key \in [by : K, left : Nat] \cup {None}
  PROVE Aged(key) \in [by : K, left : Nat] \cup {None}
  BY DEF Aged

LEMMA AgedKey ==
  ASSUME NEW key \in Keys \cup {None}
  PROVE /\ Aged(key) \in Keys \cup {None}
        /\ Aged(key) # None => key # None /\ Aged(key).token = key.token
        /\ Aged(key) # None /\ Aged(key).left = Never => key.left = Never
  BY NullAssumption DEF Aged, Keys

LEMMA AgedSet ==
  ASSUME NEW k \in SetKeys
  PROVE LET aged == IF k.left <= 1 THEN EmptySet ELSE [k EXCEPT !.left = @ - 1]
        IN aged \in SetKeys /\ aged.members \subseteq k.members
  BY DEF SetKeys, EmptySet

LEMMA TypeTick == ASSUME TypeInv, Tick PROVE TypeInv'
<1>1. sessions' \in [Sessions -> Keys \cup {None}]
  BY AgedKey DEF Tick, TypeInv, StoreType
<1>2. sets' \in [Users -> SetKeys] /\ \A u \in Users : sets'[u].members \subseteq sets[u].members
  BY AgedSet DEF Tick, TypeInv, StoreType
<1>3. tokens' \in [Tokens -> Nat] /\ \A t \in Tokens : tokens'[t] > 0 => tokens[t] > 0
  <2>1. tokens' = [t \in Tokens |-> IF tokens[t] = 0 THEN 0 ELSE tokens[t] - 1]
    BY DEF Tick
  <2>2. \A t \in Tokens : tokens[t] \in Nat
    BY DEF TypeInv, StoreType
  <2>. QED BY <2>1, <2>2
<1>4. locks' \in [Tokens -> Locks \cup {None}]
  BY AgedType DEF Tick, TypeInv, StoreType, Locks
<1>5. late' \subseteq Named
  <2>1. \A t \in Tokens : Rotated(t) => t \in Named
    BY NullAssumption DEF Rotated, Rotating, TypeInv, ProcType, Hand, Named
  <2>2. late \subseteq Named
    BY DEF TypeInv, DrawInv, StoreType, Named
  <2>. QED BY <2>1, <2>2 DEF Tick
<1>6. StoreType'
  BY <1>1, <1>2, <1>3, <1>4, <1>5 DEF Tick, Missed, TypeInv, StoreType, Named, drawnVars
<1>7. DrawInv'
  <2>1. UNCHANGED <<drawnVars, given, revoked>>
    BY DEF Tick
  <2>2. \A t \in Tokens : tokens'[t] > 0 => source'[t] # None
    BY <1>3, <2>1 DEF TypeInv, DrawInv, drawnVars
  <2>3. \A t \in given' \cup late' : source'[t] # None
    BY <1>5, <2>1 DEF TypeInv, DrawInv, Named, drawnVars
  <2>. QED BY <1>2, <2>1, <2>2, <2>3 DEF TypeInv, DrawInv, Drawn, drawnVars
<1>8. ProcType'
  BY DEF Tick, TypeInv, ProcType, Drawn, Named, drawnVars
<1>. QED BY <1>6, <1>7, <1>8 DEF TypeInv

LEMMA TypeNext == ASSUME TypeInv, [Next]_vars PROVE TypeInv'
<1>1. CASE UNCHANGED vars
  BY <1>1 DEF TypeInv, StoreType, ProcType, DrawInv, Drawn, Named, vars,
              redisVars, drawnVars, historyVars
<1>2. ASSUME NEW p \in Procs, Handle(p) PROVE TypeInv'
  BY <1>2, TypeAccount, TypeCreate, TypeEnlist, TypeUndo, TypeGrant, TypeAcquire,
     TypeLoad, TypeAlive, TypeSpend, TypeIssue, TypeExtend, TypeStore, TypeRetract,
     TypeRelease, TypeBeat, TypeKeep, TypeFind, TypeDrop, TypeForget, TypeErase,
     TypeMembers, TypeEach, TypeDiscard, TypeWipe, TypePrune, TypeSweep, TypeUnsweep DEF Handle
<1>. QED BY <1>1, <1>2, TypeReceive, TypeFail, TypeTick DEF Next

(* The fields of every key and of every request have their types at all    *)
(* times, whatever fails.                                                  *)
THEOREM TypeCorrect == Spec => []TypeOK
<1>1. Init => TypeInv
  BY TypeInit
<1>2. TypeInv /\ [Next]_vars => TypeInv'
  BY TypeNext
<1>3. TypeInv => TypeOK
  BY DEF TypeInv, StoreType, ProcType, TypeOK, SetKeys, Locks, Logins
<1>. QED BY <1>1, <1>2, <1>3, PTL DEF Spec

-----------------------------------------------------------------------------
(* Overwriting *)

(* Until a session is missed, who is about to overwrite it overwrites a    *)
(* session that is there; what is revoked is gone, and what is there has a *)
(* TTL.                                                                    *)
OverwriteInv ==
  /\ \A p \in Procs : proc[p].stage \in {"keep", "store"} =>
       proc[p].sess \in stale \/ sessions[proc[p].sess] # None
  /\ \A s \in revoked \ stale : sessions[s] = None
  /\ \A s \in Sessions \ stale : sessions[s] # None => sessions[s].left # Never

(* A step after which a session is there only if it was before, and which  *)
(* takes nobody to an overwriting, keeps the invariant if it notes what is *)
(* missed.                                                                 *)
LEMMA OverwriteKept ==
  ASSUME TypeInv, OverwriteInv, stale \subseteq stale',
         \A s \in Sessions : sessions'[s] # None =>
            sessions[s] # None /\ (sessions'[s].left = Never => sessions[s].left = Never),
         \A s \in Sessions : sessions[s] # None /\ sessions'[s] = None /\ Overwriting(s)
            => s \in stale',
         \A s \in revoked' : s \in revoked \/ sessions'[s] = None,
         \A q \in Procs : proc'[q].stage \in {"keep", "store"} => proc'[q] = proc[q]
  PROVE OverwriteInv'
<1>1. ASSUME NEW q \in Procs, proc'[q].stage \in {"keep", "store"}
      PROVE proc'[q].sess \in stale' \/ sessions'[proc'[q].sess] # None
  <2>1. proc'[q] = proc[q] /\ proc[q].sess \in Sessions
    BY <1>1, HandOf DEF TypeInv, Hand, Drawn
  <2>2. proc[q].sess \in stale \/ sessions[proc[q].sess] # None
    BY <1>1, <2>1 DEF OverwriteInv
  <2>. QED BY <1>1, <2>1, <2>2 DEF Overwriting
<1>2. \A s \in revoked' \ stale' : sessions'[s] = None
  BY DEF OverwriteInv, TypeInv, StoreType
<1>3. \A s \in Sessions \ stale' : sessions'[s] # None => sessions'[s].left # Never
  BY DEF OverwriteInv
<1>. QED BY <1>1, <1>2, <1>3 DEF OverwriteInv

LEMMA OverwriteQuiet ==
  ASSUME TypeInv, OverwriteInv, UNCHANGED <<sessions, revoked, stale>>,
         NEW p \in Procs, NEW r, Goes(p, r), r.stage \notin {"keep", "store"}
  PROVE OverwriteInv'
<1>1. \A q \in Procs : proc'[q].stage \in {"keep", "store"} => proc'[q] = proc[q]
  BY DEF Goes, TypeInv, ProcType
<1>. QED BY <1>1, OverwriteKept

LEMMA OverwriteFinish ==
  ASSUME TypeInv, OverwriteInv, UNCHANGED <<sessions, revoked, stale>>,
         NEW p \in Procs, Finish(p)
  PROVE OverwriteInv'
  BY OverwriteQuiet DEF Finish, Idle

LEMMA OverwriteTo ==
  ASSUME TypeInv, OverwriteInv, UNCHANGED <<sessions, revoked, stale>>,
         NEW p \in Procs, NEW st \in Stages \ {"keep", "store"}, To(p, st)
  PROVE OverwriteInv'
<1>1. [proc[p] EXCEPT !.stage = st].stage = st
  BY DEF TypeInv, ProcType, Requests
<1>. QED BY <1>1, OverwriteQuiet DEF To

(* Steps that leave the sessions alone.                                    *)
LEMMA OverwriteCalm ==
  ASSUME TypeInv, OverwriteInv, NEW p \in Procs,
         Account(p) \/ Enlist(p) \/ Acquire(p) \/ Alive(p) \/ Spend(p) \/ Release(p)
           \/ Erase(p) \/ Discard(p) \/ Prune(p) \/ Unsweep(p)
  PROVE OverwriteInv'
<1>1. UNCHANGED <<sessions, revoked, stale>>
  BY DEF Account, Enlist, Acquire, Alive, Spend, Release, Erase, Discard, Prune, Unsweep,
         redisVars, historyVars
<1>2. Finish(p) \/ \E st \in Stages \ {"keep", "store"} : To(p, st)
  BY DEF Account, Enlist, Acquire, Alive, Spend, Release, Erase, Discard, Prune, Unsweep, Stages
<1>. QED BY <1>1, <1>2, OverwriteFinish, OverwriteTo

LEMMA OverwriteReceive ==
  ASSUME TypeInv, OverwriteInv, NEW p \in Procs, NEW op \in Ops, Receive(p, op)
  PROVE OverwriteInv'
<1>1. PICK user, sess, token, life : Goes(p, Request(op, user, sess, token, life))
  BY DEF Receive
<1>2. Request(op, user, sess, token, life).stage = FirstStage(op)
  BY DEF Request
<1>3. UNCHANGED <<sessions, revoked, stale>>
  BY DEF Receive, redisVars, historyVars
<1>. QED BY <1>1, <1>2, <1>3, OverwriteQuiet, FirstStageType

(* Steps that move a request on with more than its stage changed.          *)
LEMMA OverwriteMoves ==
  ASSUME TypeInv, OverwriteInv, NEW p \in Procs,
         Grant(p) \/ Load(p) \/ Issue(p) \/ Retract(p) \/ Find(p) \/ Forget(p)
           \/ Members(p) \/ Each(p) \/ Sweep(p) \/ Fail(p)
  PROVE OverwriteInv'
<1>. DEFINE r == proc[p]
<1>1. r \in Requests
  BY DEF TypeInv, ProcType
<1>2. UNCHANGED <<sessions, revoked, stale>>
  BY DEF Grant, Load, Issue, Retract, Find, Forget, Members, Each, Sweep, Fail,
         redisVars, historyVars
<1>3. CASE Grant(p) \/ Forget(p)
  <2>1. [r EXCEPT !.stage = "find", !.op = "revoke"].stage = "find"
    BY <1>1 DEF Requests
  <2>. QED BY <1>2, <1>3, <2>1, OverwriteFinish, OverwriteQuiet DEF Grant, Forget
<1>4. CASE Load(p)
  <2>. DEFINE x == [r EXCEPT !.stage = "alive", !.sess = source[r.token]]
  <2>1. x.stage = "alive"
    BY <1>1 DEF Requests
  <2>2. Goes(p, x) \/ To(p, "release")
    BY <1>4 DEF Load
  <2>. QED BY <1>2, <2>1, <2>2, OverwriteTo, OverwriteQuiet DEF Stages
<1>5. CASE Issue(p)
  <2>1. PICK t : Goes(p, [r EXCEPT !.stage = "extend", !.fresh = t])
    BY <1>5 DEF Issue
  <2>2. [r EXCEPT !.stage = "extend", !.fresh = t].stage = "extend"
    BY <1>1 DEF Requests
  <2>. QED BY <1>2, <2>1, <2>2, OverwriteQuiet
<1>6. CASE Retract(p)
  <2>1. [r EXCEPT !.stage = "release", !.fresh = None].stage = "release"
    BY <1>1 DEF Requests
  <2>. QED BY <1>2, <1>6, <2>1, OverwriteQuiet DEF Retract
<1>7. CASE Find(p)
  <2>. DEFINE x == [r EXCEPT !.stage = "drop", !.seen = sessions[r.sess].token]
  <2>1. x.stage = "drop"
    BY <1>1 DEF Requests
  <2>2. Goes(p, x) \/ To(p, "forget") \/ Finish(p)
    BY <1>7 DEF Find
  <2>. QED BY <1>2, <2>1, <2>2, OverwriteFinish, OverwriteTo, OverwriteQuiet DEF Stages
<1>8. CASE Members(p)
  <2>1. \/ \E todo, list : Goes(p, [r EXCEPT !.stage = "each", !.todo = todo, !.list = list])
        \/ To(p, "discard") \/ Finish(p)
    BY <1>8 DEF Members
  <2>2. \A todo, list : [r EXCEPT !.stage = "each", !.todo = todo, !.list = list].stage = "each"
    BY <1>1 DEF Requests
  <2>. QED BY <1>2, <2>1, <2>2, OverwriteFinish, OverwriteTo, OverwriteQuiet DEF Stages
<1>9. CASE Each(p)
  <2>1. PICK todo, list, st, doom :
          /\ Goes(p, [r EXCEPT !.todo = todo, !.list = list, !.stage = st, !.doom = doom])
          /\ st \in {"each", "wipe", "prune"}
    BY <1>9 DEF Each
  <2>2. [r EXCEPT !.todo = todo, !.list = list, !.stage = st, !.doom = doom].stage = st
    BY <1>1 DEF Requests
  <2>. QED BY <1>2, <2>1, <2>2, OverwriteQuiet
<1>10. CASE Sweep(p)
  <2>1. PICK doom : Goes(p, [r EXCEPT !.stage = "unsweep", !.doom = doom]) \/ Finish(p)
    BY <1>10 DEF Sweep
  <2>2. [r EXCEPT !.stage = "unsweep", !.doom = doom].stage = "unsweep"
    BY <1>1 DEF Requests
  <2>. QED BY <1>2, <2>1, <2>2, OverwriteFinish, OverwriteQuiet
<1>11. CASE Fail(p)
  <2>1. ASSUME NEW f \in Failures,
               Goes(p, [r EXCEPT !.stage = f[2], !.op = IF @ = "login" THEN "revoke" ELSE @,
                                 !.fresh = IF f[2] = "release" THEN None ELSE @])
        PROVE OverwriteInv'
    <3>. DEFINE op == IF r.op = "login" THEN "revoke" ELSE r.op
                fresh == IF f[2] = "release" THEN None ELSE r.fresh
                x == [r EXCEPT !.stage = f[2], !.op = op, !.fresh = fresh]
    <3>1. Goes(p, x)
      BY <2>1
    <3>. HIDE DEF op, fresh
    <3>2. x.stage = f[2] /\ f[2] \notin {"keep", "store"}
      BY <1>1 DEF Requests, Failures
    <3>. QED BY <1>2, <3>1, <3>2, OverwriteQuiet
  <2>2. (\E f \in Failures : Goes(p, [r EXCEPT !.stage = f[2],
                               !.op = IF @ = "login" THEN "revoke" ELSE @,
                               !.fresh = IF f[2] = "release" THEN None ELSE @]))
        \/ To(p, "forget") \/ Finish(p)
    BY <1>11 DEF Fail
  <2>. QED BY <1>2, <2>1, <2>2, OverwriteFinish, OverwriteTo DEF Stages
<1>. QED BY <1>3, <1>4, <1>5, <1>6, <1>7, <1>8, <1>9, <1>10, <1>11

(* Steps that end sessions note what they miss.                            *)
LEMMA OverwriteEnds ==
  ASSUME TypeInv, OverwriteInv, NEW p \in Procs, Undo(p) \/ Drop(p) \/ Wipe(p)
  PROVE OverwriteInv'
<1>1. /\ stale \subseteq stale'
      /\ \A s \in Sessions : sessions[s] # None /\ sessions'[s] = None /\ Overwriting(s)
            => s \in stale'
  BY DEF Undo, Drop, Wipe, Missed
<1>2. \A s \in Sessions : sessions'[s] \in {sessions[s], None}
  BY DEF Undo, Unchecked, Drop, Wipe, Without, TypeInv, StoreType
<1>3. \A s \in revoked' : s \in revoked \/ sessions'[s] = None
  <2>1. CASE Undo(p)
    BY <2>1 DEF Undo
  <2>2. CASE Drop(p)
    <3>1. proc[p].sess \in Sessions
      BY <2>2, HandOf DEF Drop, At, TypeInv, Hand, Drawn
    <3>. QED BY <2>2, <3>1 DEF Drop, TypeInv, StoreType
  <2>3. CASE Wipe(p)
    <3>1. proc[p].list \subseteq Sessions
      BY HandOf DEF TypeInv, Hand, Drawn
    <3>. QED BY <2>3, <3>1 DEF Wipe, Without, TypeInv, StoreType
  <2>. QED BY <2>1, <2>2, <2>3
<1>4. \A q \in Procs : proc'[q].stage \in {"keep", "store"} => proc'[q] = proc[q]
  <2>1. Finish(p) \/ To(p, "forget") \/ To(p, "sweep")
    BY DEF Undo, Drop, Wipe
  <2>. QED BY <2>1 DEF Finish, To, Goes, Idle, TypeInv, ProcType, Requests
<1>. QED BY <1>1, <1>2, <1>3, <1>4, OverwriteKept

LEMMA OverwriteTick == ASSUME TypeInv, OverwriteInv, Tick PROVE OverwriteInv'
<1>1. /\ stale \subseteq stale'
      /\ \A s \in Sessions : sessions[s] # None /\ sessions'[s] = None /\ Overwriting(s)
            => s \in stale'
  BY DEF Tick, Missed
<1>2. \A s \in Sessions : sessions'[s] # None =>
         sessions[s] # None /\ (sessions'[s].left = Never => sessions[s].left = Never)
  BY AgedKey DEF Tick, TypeInv, StoreType
<1>. QED BY <1>1, <1>2, OverwriteKept DEF Tick

(* Who reads a session that is there may go on to overwrite it.            *)
LEMMA OverwriteReads ==
  ASSUME TypeInv, OverwriteInv, NEW p \in Procs, Beat(p) \/ Extend(p)
  PROVE OverwriteInv'
<1>. DEFINE r == proc[p]
<1>1. UNCHANGED <<sessions, revoked, stale>> /\ r \in Requests
  BY DEF Beat, Extend, redisVars, historyVars, TypeInv, ProcType
<1>2. proc'[p].stage \in {"keep", "store"} =>
         proc'[p].sess = r.sess /\ sessions[r.sess] # None
  <2>1. CASE Beat(p)
    <3>. DEFINE x == [r EXCEPT !.stage = "keep", !.seen = sessions[r.sess].token]
    <3>1. x.sess = r.sess
      BY <1>1 DEF Requests
    <3>2. (sessions[r.sess] # None /\ Goes(p, x)) \/ Finish(p)
      BY <2>1 DEF Beat
    <3>. HIDE DEF x
    <3>. QED BY <3>1, <3>2 DEF Finish, Goes, Idle, TypeInv, ProcType
  <2>2. CASE Extend(p)
    <3>1. (sessions[r.sess] # None /\ To(p, "store")) \/ To(p, "retract")
      BY <2>2 DEF Extend
    <3>. QED BY <1>1, <3>1 DEF To, Goes, TypeInv, ProcType, Requests
  <2>. QED BY <2>1, <2>2
<1>3. \A q \in Procs \ {p} : proc'[q] = proc[q]
  BY DEF Beat, Extend, To, Finish, Goes, TypeInv, ProcType
<1>. QED BY <1>1, <1>2, <1>3 DEF OverwriteInv

(* Who overwrites a session overwrites one that is there, or was missed.   *)
LEMMA OverwriteWrites ==
  ASSUME TypeInv, OverwriteInv, NEW p \in Procs, Keep(p) \/ Store(p)
  PROVE OverwriteInv'
<1>. DEFINE s == proc[p].sess
<1>1. /\ s \in Drawn /\ s \in Sessions
      /\ proc[p].stage \in {"keep", "store"} /\ (Store(p) => proc[p].stage = "store")
  BY HandOf DEF Keep, Store, At, TypeInv, Hand, Drawn
<1>2. /\ UNCHANGED <<revoked, stale>> /\ sessions'[s] # None
      /\ \A x \in Sessions \ {s} : sessions'[x] = sessions[x]
  <2>1. UNCHANGED <<revoked, stale>>
    BY DEF Keep, Store, historyVars
  <2>2. PICK token \in Tokens, left \in Nat \cup {Never} :
          sessions' = [sessions EXCEPT ![s] = [token |-> token, left |-> left]]
    <3>1. CASE Keep(p)
      <4>1. proc[p].seen \in Tokens
        BY <3>1, HandOf DEF Keep, At, TypeInv, Hand
      <4>2. (IF sessions[s] = None THEN Never ELSE sessions[s].left) \in Nat \cup {Never}
        BY <1>1 DEF TypeInv, StoreType, Keys
      <4>. QED BY <3>1, <4>1, <4>2 DEF Keep
    <3>2. CASE Store(p)
      <4>1. proc[p].fresh \in Tokens /\ Life(s) \in Nat
        BY <1>1, <3>2, HandOf, DrawnType, DomainAssumption DEF Store, At, TypeInv, Hand
      <4>. QED BY <3>2, <4>1 DEF Store
    <3>. QED BY <3>1, <3>2
  <2>3. [token |-> token, left |-> left] # None
    BY NullAssumption
  <2>. QED BY <1>1, <2>1, <2>2, <2>3 DEF TypeInv, StoreType
<1>3. \A q \in Procs : proc'[q].stage \in {"keep", "store"} => proc'[q] = proc[q]
  BY DEF Keep, Store, To, Finish, Goes, Idle, TypeInv, ProcType, Requests
<1>4. s \in stale \/ sessions[s] # None
  BY <1>1 DEF OverwriteInv
<1>5. sessions[s] # None /\ s \notin stale => sessions'[s].left # Never
  <2>1. CASE Keep(p)
    BY <1>1, <2>1 DEF Keep, OverwriteInv, TypeInv, StoreType
  <2>2. CASE Store(p)
    <3>1. Life(s) \in Nat
      BY <1>1, DrawnType, DomainAssumption DEF TypeInv
    <3>. QED BY <1>1, <2>2, <3>1, NullAssumption DEF Store, TypeInv, StoreType
  <2>. QED BY <2>1, <2>2
<1>6. ASSUME NEW q \in Procs, proc'[q].stage \in {"keep", "store"}
      PROVE proc'[q].sess \in stale' \/ sessions'[proc'[q].sess] # None
  <2>1. proc'[q] = proc[q] /\ proc[q].sess \in Sessions
    BY <1>3, <1>6, HandOf DEF TypeInv, Hand, Drawn
  <2>. QED BY <1>2, <1>6, <2>1 DEF OverwriteInv
<1>7. \A x \in revoked' \ stale' : sessions'[x] = None
  BY <1>2, <1>4 DEF OverwriteInv, TypeInv, StoreType
<1>8. \A x \in Sessions \ stale' : sessions'[x] # None => sessions'[x].left # Never
  BY <1>2, <1>4, <1>5 DEF OverwriteInv
<1>. QED BY <1>6, <1>7, <1>8 DEF OverwriteInv

(* A login draws a session that nobody could have revoked.                 *)
LEMMA OverwriteCreate ==
  ASSUME TypeInv, OverwriteInv, NEW p \in Procs, Create(p) PROVE OverwriteInv'
<1>1. PICK s \in SpareSessions, t \in SpareTokens :
        /\ sessions' = [sessions EXCEPT ![s] = [token |-> t, left |-> proc[p].life]]
        /\ Goes(p, [proc[p] EXCEPT !.stage = "enlist", !.sess = s, !.fresh = t])
  BY DEF Create
<1>2. s \in Sessions /\ s \notin revoked /\ proc[p].life \in Nat
  BY HandOf, DomainAssumption DEF Create, At, SpareSessions, TypeInv, DrawInv, Drawn, Hand
<1>3. /\ UNCHANGED <<revoked, stale>> /\ sessions'[s] # None /\ sessions'[s].left # Never
      /\ \A x \in Sessions \ {s} : sessions'[x] = sessions[x]
  BY <1>1, <1>2, NullAssumption DEF Create, historyVars, TypeInv, StoreType, SpareTokens
<1>4. \A q \in Procs : proc'[q].stage \in {"keep", "store"} =>
         proc'[q] = proc[q] /\ proc[q].sess \in Sessions
  <2>1. proc'[p].stage = "enlist" /\ \A q \in Procs \ {p} : proc'[q] = proc[q]
    BY <1>1 DEF Goes, TypeInv, ProcType, Requests
  <2>. QED BY <2>1, HandOf DEF TypeInv, Hand, Drawn
<1>5. \A q \in Procs : proc'[q].stage \in {"keep", "store"} =>
         proc'[q].sess \in stale' \/ sessions'[proc'[q].sess] # None
  BY <1>3, <1>4 DEF OverwriteInv
<1>6. \A x \in revoked' \ stale' : sessions'[x] = None
  BY <1>2, <1>3 DEF OverwriteInv, TypeInv, StoreType
<1>7. \A x \in Sessions \ stale' : sessions'[x] # None => sessions'[x].left # Never
  BY <1>3 DEF OverwriteInv
<1>. QED BY <1>5, <1>6, <1>7 DEF OverwriteInv

LEMMA OverwriteNext ==
  ASSUME TypeInv, OverwriteInv, [Next]_vars PROVE OverwriteInv'
<1>1. CASE UNCHANGED vars
  BY <1>1 DEF vars, redisVars, historyVars, OverwriteInv
<1>2. ASSUME NEW p \in Procs, Handle(p) PROVE OverwriteInv'
  BY <1>2, OverwriteCalm, OverwriteMoves, OverwriteEnds, OverwriteReads, OverwriteWrites,
     OverwriteCreate DEF Handle
<1>3. ASSUME NEW p \in Procs, Fail(p) PROVE OverwriteInv'
  BY <1>3, OverwriteMoves
<1>. QED BY <1>1, <1>2, <1>3, OverwriteReceive, OverwriteTick DEF Next

LEMMA OverwriteAlways == Spec => []OverwriteInv
<1>1. Init => TypeInv /\ OverwriteInv
  <2>1. Init => OverwriteInv
    BY DEF Init, Idle, OverwriteInv
  <2>. QED BY <2>1, TypeInit
<1>2. TypeInv /\ OverwriteInv /\ [Next]_vars => (TypeInv /\ OverwriteInv)'
  BY TypeNext, OverwriteNext
<1>. QED BY <1>1, <1>2, PTL DEF Spec

(* A session that was revoked comes back only if it went away between the  *)
(* GET and the SET of a heartbeat or an extension.                         *)
THEOREM RevivedOnlyThere == Spec => []RevivedOnlyByStale
<1>1. OverwriteInv => RevivedOnlyByStale
  BY DEF OverwriteInv, RevivedOnlyByStale
<1>. QED BY <1>1, OverwriteAlways, PTL

(* Nothing else makes a session that lives for ever: KEEPTTL on a key that *)
(* has gone is the only way to a key without TTL.                          *)
THEOREM ImmortalOnlyThere == Spec => []ImmortalOnlyByStale
<1>1. OverwriteInv => ImmortalOnlyByStale
  BY DEF OverwriteInv, ImmortalOnlyByStale
<1>. QED BY <1>1, OverwriteAlways, PTL
=============================================================================
