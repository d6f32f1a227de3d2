----------------------------- MODULE AloneProofs -----------------------------
(***************************************************************************)
(* Requests that do not overlap, without failures: the revocation of       *)
(* everything a user has leaves no refresh token, a session names the      *)
(* token that lives for it, and a user's set covers the sessions.  Time    *)
(* passes between any two calls, so that keys expire under a request.      *)
(***************************************************************************)
EXTENDS SessionsProofs

OneAtATime == \A p, q \in Procs : p = q

-----------------------------------------------------------------------------
(* The sweep *)

(* The calls of a request that ends everything of a user; the one that     *)
(* deletes tokens knows all there are.                                     *)
Purging == {"erase", "members", "each", "discard", "wipe", "sweep", "unsweep"}
PurgeInv ==
  \A p \in Procs :
    /\ Sweeps(proc[p].op) => proc[p].stage \in Purging
    /\ proc[p].stage = "unsweep" => LiveTokens(proc[p].user) \subseteq proc[p].doom

(* What a record a request moves on to must be for that, unless it is      *)
(* about to delete the tokens of a sweep.                                  *)
Orderly(r) == /\ Sweeps(r.op) => r.stage \in Purging
              /\ r.stage # "unsweep"

LEMMA PurgeMove ==
  ASSUME OneAtATime, TypeInv, NEW p \in Procs, NEW r, Goes(p, r), Orderly(r)
  PROVE  PurgeInv'
<1>1. proc'[p] = r /\ \A q \in Procs : q = p
  BY DEF Goes, TypeInv, ProcType, OneAtATime
<1>. QED  BY <1>1 DEF PurgeInv, Orderly

LEMMA PurgeFinish ==
  ASSUME OneAtATime, TypeInv, NEW p \in Procs, Finish(p)
  PROVE  PurgeInv'
<1>1. Orderly(Idle)
  BY NullAssumption DEF Orderly, Idle, Sweeps, Ops
<1>. QED  BY <1>1, PurgeMove DEF Finish

LEMMA PurgeTo ==
  ASSUME OneAtATime, TypeInv, PurgeInv, NEW p \in Procs, NEW st \in Stages, To(p, st),
         st # "unsweep", proc[p].stage \in Purging => st \in Purging
  PROVE  PurgeInv'
<1>. DEFINE r == [proc[p] EXCEPT !.stage = st]
<1>1. r.stage = st /\ r.op = proc[p].op
  BY HandOf DEF TypeInv, Hand, Requests
<1>2. Goes(p, r)
  BY DEF To
<1>. HIDE DEF r
<1>3. Orderly(r)
  BY <1>1 DEF Orderly, PurgeInv
<1>. QED  BY <1>2, <1>3, PurgeMove

LEMMA PurgeReceive ==
  ASSUME OneAtATime, TypeInv, NEW p \in Procs, NEW op \in Ops, Receive(p, op)
  PROVE  PurgeInv'
<1>1. PICK user \in Users \cup {None}, sess \in Sessions \cup {None},
           token \in Tokens \cup {None}, life \in Lives \cup {None} :
        Goes(p, Request(op, user, sess, token, life))
  BY DEF Receive
<1>. DEFINE r == Request(op, user, sess, token, life)
<1>2. r.stage = FirstStage(op) /\ r.op = op
  BY DEF Request
<1>3. Sweeps(op) => FirstStage(op) \in Purging
  BY DEF Sweeps, FirstStage, Purging
<1>4. FirstStage(op) # "unsweep"
  BY FirstStageType
<1>. HIDE DEF r
<1>5. Orderly(r)
  BY <1>2, <1>3, <1>4 DEF Orderly
<1>. QED  BY <1>1, <1>5, PurgeMove DEF r

(* The calls of a login, of a rotation and of a heartbeat.                 *)
LEMMA PurgeOthers ==
  ASSUME OneAtATime, Faults = FALSE, TypeInv, PurgeInv, NEW p \in Procs,
         \/ Account(p) \/ Create(p) \/ Enlist(p) \/ Undo(p) \/ Grant(p)
         \/ Acquire(p) \/ Load(p) \/ Alive(p) \/ Spend(p) \/ Issue(p)
         \/ Extend(p) \/ Store(p) \/ Retract(p) \/ Release(p)
         \/ Beat(p) \/ Keep(p) \/ Find(p) \/ Drop(p) \/ Forget(p) \/ Prune(p)
  PROVE  PurgeInv'
<1>1. proc[p].stage \notin Purging /\ ~Sweeps(proc[p].op)
  BY DEF At, Account, Create, Enlist, Undo, Grant, Acquire, Load, Alive, Spend, Issue,
         Extend, Store, Retract, Release, Beat, Keep, Find, Drop, Forget, Prune,
         Purging, PurgeInv
<1>2. proc[p] \in Requests
  BY DEF TypeInv, ProcType
<1>3. CASE Create(p)
  <2>1. PICK s \in SpareSessions, t \in SpareTokens :
          Goes(p, [proc[p] EXCEPT !.stage = "enlist", !.sess = s, !.fresh = t])
    BY <1>3 DEF Create
  <2>2. Orderly([proc[p] EXCEPT !.stage = "enlist", !.sess = s, !.fresh = t])
    BY <1>1, <1>2 DEF Orderly, Requests
  <2>. QED  BY <2>1, <2>2, PurgeMove
<1>4. CASE Load(p) \/ Issue(p) \/ Retract(p) \/ Beat(p) \/ Find(p) \/ Forget(p)
  <2>1. CASE Load(p)
    <3>1. Orderly([proc[p] EXCEPT !.stage = "alive", !.sess = source[proc[p].token]])
      BY <1>1, <1>2 DEF Orderly, Requests
    <3>. QED  BY <1>1, <2>1, <3>1, PurgeMove, PurgeTo DEF Load, Stages
  <2>2. CASE Issue(p)
    <3>1. PICK t \in SpareTokens : Goes(p, [proc[p] EXCEPT !.stage = "extend", !.fresh = t])
      BY <2>2 DEF Issue
    <3>2. Orderly([proc[p] EXCEPT !.stage = "extend", !.fresh = t])
      BY <1>1, <1>2 DEF Orderly, Requests
    <3>. QED  BY <3>1, <3>2, PurgeMove
  <2>3. CASE Retract(p)
    <3>1. Orderly([proc[p] EXCEPT !.stage = "release", !.fresh = None])
      BY <1>1, <1>2 DEF Orderly, Requests
    <3>. QED  BY <2>3, <3>1, PurgeMove DEF Retract
  <2>4. CASE Beat(p)
    <3>1. Orderly([proc[p] EXCEPT !.stage = "keep", !.seen = sessions[proc[p].sess].token])
      BY <1>1, <1>2 DEF Orderly, Requests
    <3>. QED  BY <2>4, <3>1, PurgeMove, PurgeFinish DEF Beat
  <2>5. CASE Find(p)
    <3>1. Orderly([proc[p] EXCEPT !.stage = "drop", !.seen = sessions[proc[p].sess].token])
      BY <1>1, <1>2 DEF Orderly, Requests
    <3>. QED  BY <1>1, <2>5, <3>1, PurgeMove, PurgeFinish, PurgeTo DEF Find, Stages
  <2>6. CASE Forget(p)
    <3>1. Orderly([proc[p] EXCEPT !.stage = "find", !.op = "revoke"])
      BY <1>1, <1>2 DEF Orderly, Requests, Sweeps
    <3>. QED  BY <2>6, <3>1, PurgeMove DEF Forget
  <2>. QED  BY <1>4, <2>1, <2>2, <2>3, <2>4, <2>5, <2>6
<1>5. CASE Undo(p) \/ Grant(p) \/ Release(p) \/ Keep(p) \/ Prune(p)
  BY <1>5, PurgeFinish DEF Undo, Grant, Release, Keep, Prune
<1>6. CASE Account(p) \/ Enlist(p) \/ Acquire(p) \/ Alive(p) \/ Spend(p) \/ Extend(p)
             \/ Store(p) \/ Drop(p)
  <2>1. Finish(p) \/ \E st \in {"create", "grant", "load", "spend", "release", "issue",
                               "store", "retract", "forget"} : To(p, st)
    BY <1>6 DEF Account, Enlist, Acquire, Alive, Spend, Extend, Store, Drop
  <2>. QED  BY <1>1, <2>1, PurgeFinish, PurgeTo DEF Stages
<1>. QED  BY <1>3, <1>4, <1>5, <1>6

(* The next call of a request that reads the sessions of a user.           *)
LEMMA EachGoes ==
  ASSUME TypeInv, NEW p \in Procs, Each(p)
  PROVE  \E x :
           /\ Goes(p, x) /\ x.stage \in {"each", "wipe", "prune"} /\ x.op = proc[p].op
           /\ x.stage = "prune" => x.op = "list"
<1>. DEFINE r == proc[p]
<1>0. r \in Requests
  BY DEF TypeInv, ProcType
<1>1. PICK s \in r.todo, read \in {TRUE, ~Faults} :
        LET alive == sessions[s] # None
        IN Goes(p, [r EXCEPT !.todo = @ \ {s},
                      !.list = IF r.op = "list" /\ read /\ ~alive THEN r.list \cup {s} ELSE r.list,
                      !.stage = IF r.todo # {s} THEN "each"
                                ELSE IF r.op # "list" THEN "wipe" ELSE "prune",
                      !.doom = IF read /\ alive /\ r.op # "list"
                                 THEN @ \cup {sessions[s].token} ELSE @])
  BY DEF Each
<1>. DEFINE alive == sessions[s] # None
            list == IF r.op = "list" /\ read /\ ~alive THEN r.list \cup {s} ELSE r.list
            after == IF r.todo # {s} THEN "each" ELSE IF r.op # "list" THEN "wipe" ELSE "prune"
            doom == IF read /\ alive /\ r.op # "list"
                      THEN r.doom \cup {sessions[s].token} ELSE r.doom
            x == [r EXCEPT !.todo = @ \ {s}, !.list = list, !.stage = after, !.doom = doom]
<1>2. after \in {"each", "wipe", "prune"} /\ (after = "prune" => r.op = "list")
  OBVIOUS
<1>3. Goes(p, x)
  BY <1>1
<1>. HIDE DEF list, after, doom
<1>4. x.stage = after /\ x.op = r.op
  BY <1>0 DEF Requests
<1>. QED  BY <1>2, <1>3, <1>4

(* The calls on the way to the sweep.                                      *)
LEMMA PurgeCalls ==
  ASSUME OneAtATime, Faults = FALSE, TypeInv, PurgeInv, NEW p \in Procs,
         Erase(p) \/ Members(p) \/ Each(p) \/ Discard(p) \/ Wipe(p) \/ Unsweep(p)
  PROVE  PurgeInv' /\ (Unsweep(p) \/ (Sweeps(proc[p].op) /\ ~At(p, "erase")
                                        => proc'[p].stage # "idle"))
<1>1. proc[p] \in Requests
  BY DEF TypeInv, ProcType
<1>2. \A st : To(p, st) => proc'[p].stage = st
  BY <1>1 DEF To, Goes, TypeInv, ProcType, Requests
<1>3. CASE Erase(p)
  BY <1>3, PurgeFinish, PurgeTo DEF Erase, Stages, Purging
<1>4. CASE Members(p)
  <2>. DEFINE r == proc[p]
              todo == sets[r.user].members \ (IF r.op = "others" THEN {r.sess} ELSE {})
              list == IF r.op = "list" THEN {} ELSE todo
              x == [r EXCEPT !.stage = "each", !.todo = todo, !.list = list]
  <2>1. x.stage = "each" /\ x.op = r.op
    BY <1>1 DEF Requests
  <2>2. Goes(p, x) \/ (Sweeps(r.op) /\ To(p, "discard")) \/ (~Sweeps(r.op) /\ Finish(p))
    BY <1>4 DEF Members
  <2>. HIDE DEF x
  <2>3. Orderly(x)
    BY <2>1 DEF Orderly, Purging
  <2>4. Goes(p, x) => proc'[p].stage = "each"
    BY <2>1 DEF Goes, TypeInv, ProcType
  <2>. QED
    BY <1>2, <2>2, <2>3, <2>4, PurgeMove, PurgeFinish, PurgeTo DEF Stages, Purging
<1>5. CASE Each(p)
  <2>1. PICK x :
          /\ Goes(p, x) /\ x.stage \in {"each", "wipe", "prune"} /\ x.op = proc[p].op
          /\ x.stage = "prune" => x.op = "list"
    BY <1>5, EachGoes
  <2>2. Orderly(x)
    BY <2>1 DEF Orderly, Purging, Sweeps
  <2>3. proc'[p].stage = x.stage
    BY <2>1 DEF Goes, TypeInv, ProcType
  <2>. QED  BY <2>1, <2>2, <2>3, PurgeMove
<1>6. CASE Discard(p)
  BY <1>2, <1>6, PurgeTo DEF Discard, Stages, Purging
<1>7. CASE Wipe(p)
  <2>1. (Sweeps(proc[p].op) /\ To(p, "sweep")) \/ (~Sweeps(proc[p].op) /\ Finish(p))
    BY <1>7 DEF Wipe
  <2>. QED  BY <1>2, <2>1, PurgeTo, PurgeFinish DEF Stages, Purging
<1>8. CASE Unsweep(p)
  BY <1>8, PurgeFinish DEF Unsweep
<1>. QED  BY <1>3, <1>4, <1>5, <1>6, <1>7, <1>8

(* The scan finds every token that lives.                                  *)
LEMMA PurgeSweep ==
  ASSUME OneAtATime, Faults = FALSE, TypeInv, NEW p \in Procs, Sweep(p)
  PROVE  /\ PurgeInv'
         /\ proc'[p] = Idle => LiveTokens(proc[p].user) = {}
<1>. DEFINE found == LiveTokens(proc[p].user)
            x == [proc[p] EXCEPT !.stage = "unsweep", !.doom = found]
<1>1. \/ found # {} /\ Goes(p, x)
      \/ found = {} /\ Finish(p)
  BY DEF Sweep, Scanned
<1>2. CASE found = {} /\ Finish(p)
  BY <1>2, PurgeFinish
<1>3. CASE Goes(p, x)
  <2>1. x.stage = "unsweep" /\ x.doom = found /\ x.user = proc[p].user
    BY DEF TypeInv, ProcType, Requests
  <2>. HIDE DEF x
  <2>2. proc'[p] = x
    BY <1>3 DEF Goes, TypeInv, ProcType
  <2>3. x # Idle
    BY <2>1 DEF Idle
  <2>4. \A q \in Procs : q = p
    BY DEF OneAtATime
  <2>5. UNCHANGED <<tokens, source, logins>>
    BY DEF Sweep, redisVars, drawnVars
  <2>6. \A t \in Tokens : tokens'[t] > 0 /\ logins'[source'[t]].user = x.user => t \in x.doom
    BY <2>1, <2>5 DEF LiveTokens, User
  <2>. QED
    BY <2>1, <2>2, <2>3, <2>4, <2>6 DEF PurgeInv, LiveTokens, User, Purging
<1>. QED  BY <1>1, <1>2, <1>3

LEMMA PurgeTick == ASSUME TypeInv, PurgeInv, Tick PROVE PurgeInv'
<1>1. UNCHANGED <<proc, source, logins>> /\ \A t \in Tokens : tokens'[t] > 0 => tokens[t] > 0
  BY DEF Tick, drawnVars, TypeInv, StoreType
<1>2. \A u : LiveTokens(u)' \subseteq LiveTokens(u)
  BY <1>1 DEF LiveTokens, User
<1>. QED  BY <1>1, <1>2 DEF PurgeInv, LiveTokens, User

LEMMA PurgeNext ==
  ASSUME OneAtATime, Faults = FALSE, TypeInv, PurgeInv, [Next]_vars
  PROVE  PurgeInv'
<1>1. CASE UNCHANGED vars
  BY <1>1 DEF vars, PurgeInv, LiveTokens, User, redisVars, drawnVars
<1>2. ASSUME NEW p \in Procs, Handle(p) PROVE PurgeInv'
  BY <1>2, PurgeOthers, PurgeCalls, PurgeSweep DEF Handle
<1>. QED  BY <1>1, <1>2, PurgeReceive, PurgeTick DEF Next, Fail

(* Requests that do not overlap and do not fail: when everything of a user *)
(* has been revoked, or the account deleted, no refresh token of the user  *)
(* lives, not even one whose session the set had lost.                     *)
THEOREM NothingOutlivesTheSweep ==
  ASSUME OneAtATime, Faults = FALSE
  PROVE  Spec => SweptClean
<1>1. Init => TypeInv /\ PurgeInv
  <2>1. Init => PurgeInv
    BY NullAssumption DEF Init, PurgeInv, Idle, Sweeps, Ops
  <2>. QED  BY <2>1, TypeInit
<1>2. TypeInv /\ PurgeInv /\ [Next]_vars => (TypeInv /\ PurgeInv)'
  BY TypeNext, PurgeNext
<1>3. TypeInv /\ PurgeInv /\ [Next]_vars =>
        [\A p \in Procs : Ends(p) =>
           \A t \in Tokens : source[t] # None /\ User(source[t]) = proc[p].user
                             => tokens'[t] = 0]_vars
  <2>. SUFFICES ASSUME TypeInv, PurgeInv, Next, NEW p \in Procs, Ends(p),
                       NEW t \in Tokens, source[t] # None, User(source[t]) = proc[p].user
                PROVE  tokens'[t] = 0
    OBVIOUS
  <2>1. /\ Sweeps(proc[p].op) /\ proc[p].stage \in Purging \ {"erase"}
        /\ proc'[p] = Idle /\ proc'[p].stage = "idle"
    BY DEF Ends, PurgeInv, Idle
  <2>2. tokens[t] > 0 => t \in LiveTokens(proc[p].user)
    BY DEF LiveTokens
  <2>3. tokens[t] \in Nat
    BY DEF TypeInv, StoreType
  <2>4. CASE Sweep(p)
    <3>1. LiveTokens(proc[p].user) = {} /\ tokens' = tokens
      BY <2>1, <2>4, PurgeSweep DEF Sweep, redisVars
    <3>. QED  BY <2>2, <2>3, <3>1
  <2>5. CASE Unsweep(p)
    <3>1. LiveTokens(proc[p].user) \subseteq proc[p].doom
      BY <2>5 DEF Unsweep, At, PurgeInv
    <3>2. tokens'[t] = IF t \in proc[p].doom THEN 0 ELSE tokens[t]
      BY <2>5 DEF Unsweep, Without, TypeInv, StoreType
    <3>. QED  BY <2>2, <2>3, <3>1, <3>2
  <2>6. ~(Erase(p) \/ Members(p) \/ Each(p) \/ Discard(p) \/ Wipe(p))
    <3>. SUFFICES ASSUME Erase(p) \/ Members(p) \/ Each(p) \/ Discard(p) \/ Wipe(p)
                  PROVE  FALSE
      OBVIOUS
    <3>1. ~At(p, "unsweep")
      BY DEF At, Erase, Members, Each, Discard, Wipe
    <3>2. ~At(p, "erase")
      BY <2>1 DEF At
    <3>3. ~Unsweep(p)
      BY <3>1 DEF Unsweep
    <3>. QED  BY <2>1, <3>2, <3>3, PurgeCalls
  <2>7. Sweep(p) \/ Unsweep(p)
    <3>1. proc'[p] # proc[p]
      BY <2>1 DEF Purging
    <3>2. \A q \in Procs : q = p
      BY DEF OneAtATime
    <3>3. ~Tick /\ ~\E op \in Ops : Receive(p, op)
      BY <2>1, <3>1 DEF Tick, Receive, At, Purging
    <3>4. Handle(p)
      BY <3>2, <3>3 DEF Next, Fail
    <3>. QED
      BY <2>1, <2>6, <3>4 DEF Handle, At, Account, Create, Enlist, Undo, Grant, Acquire, Load,
         Alive, Spend, Issue, Extend, Store, Retract, Release, Beat, Keep, Find, Drop, Forget,
         Prune, Purging
  <2>. QED  BY <2>4, <2>5, <2>7
<1>. QED  BY <1>1, <1>2, <1>3, PTL DEF Spec, SweptClean

-----------------------------------------------------------------------------
(* The token a session names *)

Live(t, s) == source[t] = s /\ tokens[t] > 0

(* What a login, a rotation and a heartbeat know of the tokens of their    *)
(* session.                                                                *)
Renewing == {"extend", "store", "retract"}
Knows(p) ==
  LET r == proc[p]
  IN /\ r.stage \in {"enlist", "grant"} =>
          /\ source[r.fresh] = r.sess
          /\ \A t \in Tokens : source[t] = r.sess => t = r.fresh
          /\ sessions[r.sess] # None => sessions[r.sess].token = r.fresh
     /\ r.stage \in {"alive", "spend"} =>
          source[r.token] = r.sess /\ \A t \in Tokens : Live(t, r.sess) => t = r.token
     /\ r.stage = "issue" => \A t \in Tokens : ~Live(t, r.sess)
     /\ r.stage \in Renewing => \A t \in Tokens : Live(t, r.sess) => t = r.fresh
     /\ r.stage = "keep" => \A t \in Tokens : Live(t, r.sess) => t = r.seen

OneToken == \A t1, t2 \in Tokens, s \in Sessions : Live(t1, s) /\ Live(t2, s) => t1 = t2
Names(t) ==
  \A s \in Sessions : Live(t, s) /\ sessions[s] # None =>
    \/ sessions[s].token = t
    \/ \E p \in Procs : proc[p].stage \in Renewing /\ proc[p].sess = s

NameInv == OneToken /\ (\A t \in Tokens : Names(t)) /\ (\A p \in Procs : Knows(p))

(* Tokens only go, and so do sessions.                                     *)
Fewer ==
  /\ source' = source
  /\ \A t \in Tokens : tokens'[t] > 0 => tokens[t] > 0
  /\ \A s \in Sessions : sessions'[s] # None =>
       sessions[s] # None /\ sessions'[s].token = sessions[s].token

(* A step by which tokens and sessions only go, and the request does not   *)
(* come to a stage at which it has to know something.                      *)
LEMMA NameFewer ==
  ASSUME OneAtATime, TypeInv, NameInv, NEW p \in Procs, Fewer,
         proc[p].stage \notin Renewing,
         proc'[p].stage \notin {"enlist", "grant", "alive", "spend", "issue", "keep"} \cup Renewing
  PROVE  NameInv'
<1>1. \A q \in Procs : q = p
  BY DEF OneAtATime
<1>2. OneToken'
  BY DEF Fewer, NameInv, OneToken, Live
<1>3. \A t \in Tokens : Names(t)'
  BY <1>1 DEF Fewer, NameInv, Names, Live
<1>4. \A q \in Procs : Knows(q)'
  BY <1>1 DEF Knows
<1>. QED  BY <1>2, <1>3, <1>4 DEF NameInv

(* A step of time, which leaves the requests where they are.               *)
LEMMA NameTick == ASSUME TypeInv, NameInv, Tick PROVE NameInv'
<1>1. source' = source /\ proc' = proc
  BY DEF Tick, drawnVars
<1>2. \A t \in Tokens : tokens'[t] > 0 => tokens[t] > 0
  BY DEF Tick, TypeInv, StoreType
<1>3. ASSUME NEW s \in Sessions, sessions'[s] # None
      PROVE  sessions[s] # None /\ sessions'[s].token = sessions[s].token
  <2>1. sessions'[s] = Aged(sessions[s])
    BY DEF Tick
  <2>2. sessions[s] # None => sessions[s] \in Keys
    BY DEF TypeInv, StoreType
  <2>. QED  BY <1>3, <2>1, <2>2 DEF Aged, Keys
<1>4. ASSUME NEW t \in Tokens, NEW s, Live(t, s)' PROVE Live(t, s)
  BY <1>1, <1>2, <1>4 DEF Live
<1>5. OneToken'
  BY <1>4 DEF NameInv, OneToken
<1>6. \A t \in Tokens : Names(t)'
  BY <1>1, <1>3, <1>4 DEF NameInv, Names
<1>7. ASSUME NEW p \in Procs PROVE Knows(p)'
  <2>1. Knows(p) /\ proc[p] \in Requests /\ Hand(proc[p], Drawn, Named)
    BY HandOf DEF NameInv, TypeInv, ProcType
  <2>2. proc[p].stage \in {"enlist", "grant"} => proc[p].sess \in Sessions
    BY <2>1 DEF Hand, Drawn
  <2>. QED  BY <1>1, <1>3, <1>4, <2>1, <2>2 DEF Knows
<1>. QED  BY <1>5, <1>6, <1>7 DEF NameInv

(* The calls that do not concern the tokens of a session, or only remove.  *)
LEMMA NameOthers ==
  ASSUME OneAtATime, TypeInv, NameInv, NEW p \in Procs,
         \/ Account(p) \/ Undo(p) \/ Acquire(p) \/ Release(p) \/ Find(p) \/ Drop(p)
         \/ Forget(p) \/ Erase(p) \/ Members(p) \/ Each(p) \/ Discard(p) \/ Wipe(p)
         \/ Prune(p) \/ Sweep(p) \/ Unsweep(p)
  PROVE  NameInv'
<1>0. proc[p] \in Requests /\ proc[p].stage \notin Renewing
  BY DEF TypeInv, ProcType, Renewing, At, Account, Undo, Acquire, Release, Find, Drop,
         Forget, Erase, Members, Each, Discard, Wipe, Prune, Sweep, Unsweep
<1>1. \A r : Goes(p, r) => proc'[p] = r
  BY DEF Goes, TypeInv, ProcType
<1>2. Finish(p) => proc'[p].stage = "idle"
  BY <1>1 DEF Finish, Idle
<1>3. \A st : To(p, st) => proc'[p].stage = st
  BY <1>0 DEF To, Goes, TypeInv, ProcType, Requests
<1>4. proc'[p].stage \in {"idle", "create", "load", "find", "drop", "forget", "members",
                          "each", "discard", "wipe", "prune", "sweep", "unsweep"}
  <2>1. CASE Account(p) \/ Acquire(p) \/ Drop(p) \/ Erase(p) \/ Discard(p) \/ Wipe(p)
    <3>1. Finish(p) \/ \E st \in {"create", "load", "forget", "members", "sweep"} : To(p, st)
      BY <2>1 DEF Account, Acquire, Drop, Erase, Discard, Wipe
    <3>. QED  BY <1>2, <1>3, <3>1
  <2>2. CASE Undo(p) \/ Release(p) \/ Prune(p) \/ Unsweep(p)
    BY <1>2, <2>2 DEF Undo, Release, Prune, Unsweep
  <2>3. CASE Find(p)
    <3>. DEFINE x == [proc[p] EXCEPT !.stage = "drop", !.seen = sessions[proc[p].sess].token]
    <3>1. x.stage = "drop"
      BY <1>0 DEF Requests
    <3>2. Goes(p, x) \/ To(p, "forget") \/ Finish(p)
      BY <2>3 DEF Find
    <3>. HIDE DEF x
    <3>. QED  BY <1>1, <1>2, <1>3, <3>1, <3>2
  <2>4. CASE Forget(p)
    <3>. DEFINE x == [proc[p] EXCEPT !.stage = "find", !.op = "revoke"]
    <3>1. x.stage = "find" /\ Goes(p, x)
      BY <1>0, <2>4 DEF Requests, Forget
    <3>. HIDE DEF x
    <3>. QED  BY <1>1, <3>1
  <2>5. CASE Members(p)
    <3>. DEFINE todo == sets[proc[p].user].members
                          \ (IF proc[p].op = "others" THEN {proc[p].sess} ELSE {})
                list == IF proc[p].op = "list" THEN {} ELSE todo
                x == [proc[p] EXCEPT !.stage = "each", !.todo = todo, !.list = list]
    <3>1. x.stage = "each"
      BY <1>0 DEF Requests
    <3>2. Goes(p, x) \/ To(p, "discard") \/ Finish(p)
      BY <2>5 DEF Members
    <3>. HIDE DEF x
    <3>. QED  BY <1>1, <1>2, <1>3, <3>1, <3>2
  <2>6. CASE Each(p)
    <3>1. PICK x : Goes(p, x) /\ x.stage \in {"each", "wipe", "prune"}
      BY <2>6, EachGoes
    <3>. QED  BY <1>1, <3>1
  <2>7. CASE Sweep(p)
    <3>1. PICK found :
            Goes(p, [proc[p] EXCEPT !.stage = "unsweep", !.doom = found]) \/ Finish(p)
      BY <2>7 DEF Sweep
    <3>. DEFINE x == [proc[p] EXCEPT !.stage = "unsweep", !.doom = found]
    <3>2. x.stage = "unsweep" /\ (Goes(p, x) \/ Finish(p))
      BY <1>0, <3>1 DEF Requests
    <3>. HIDE DEF x
    <3>. QED  BY <1>1, <1>2, <3>2
  <2>. QED  BY <2>1, <2>2, <2>3, <2>4, <2>5, <2>6, <2>7
<1>5. Fewer
  <2>1. source' = source
    BY DEF Account, Undo, Acquire, Release, Find, Drop, Forget, Erase, Members, Each, Discard,
           Wipe, Prune, Sweep, Unsweep, drawnVars
  <2>2. ASSUME NEW t \in Tokens PROVE tokens'[t] > 0 => tokens[t] > 0
    <3>1. CASE Wipe(p) \/ Unsweep(p)
      BY <3>1, TokensGone DEF Wipe, Unsweep, TypeInv
    <3>2. CASE Drop(p) \/ Forget(p)
      BY <3>2 DEF Drop, Forget, TypeInv, StoreType
    <3>3. CASE tokens' = tokens
      BY <3>3
    <3>. QED
      BY <3>1, <3>2, <3>3 DEF Account, Undo, Acquire, Release, Find, Erase, Members, Each,
         Discard, Prune, Sweep, redisVars
  <2>3. ASSUME NEW s \in Sessions PROVE sessions'[s] \in {sessions[s], None}
    <3>1. CASE Wipe(p)
      BY <3>1 DEF Wipe, Without, TypeInv, StoreType
    <3>2. CASE ~Wipe(p)
      BY <3>2 DEF Account, Undo, Acquire, Release, Find, Drop, Forget, Erase, Members, Each,
                  Discard, Prune, Sweep, Unsweep, Unchecked, redisVars, TypeInv, StoreType
    <3>. QED  BY <3>1, <3>2
  <2>. QED  BY <2>1, <2>2, <2>3 DEF Fewer
<1>. QED  BY <1>0, <1>4, <1>5, NameFewer DEF Renewing

LEMMA NameReceive ==
  ASSUME OneAtATime, TypeInv, NameInv, NEW p \in Procs, NEW op \in Ops, Receive(p, op)
  PROVE  NameInv'
<1>1. PICK user \in Users \cup {None}, sess \in Sessions \cup {None},
           token \in Tokens \cup {None}, life \in Lives \cup {None} :
        Goes(p, Request(op, user, sess, token, life))
  BY DEF Receive
<1>2. proc'[p].stage = FirstStage(op) /\ proc[p].stage = "idle"
  BY <1>1 DEF Receive, At, Goes, Request, TypeInv, ProcType
<1>3. Fewer
  BY DEF Receive, Fewer, redisVars, drawnVars
<1>. QED  BY <1>2, <1>3, FirstStageType, NameFewer DEF Renewing

(* A login: the session names the token that is granted last.              *)
LEMMA NameLogin ==
  ASSUME OneAtATime, Faults = FALSE, TypeInv, NameInv, NEW p \in Procs,
         Create(p) \/ Enlist(p) \/ Grant(p)
  PROVE  NameInv'
<1>0. proc[p] \in Requests /\ Knows(p) /\ proc[p].stage \notin Renewing
      /\ Hand(proc[p], Drawn, Named)
  BY HandOf DEF TypeInv, ProcType, NameInv, Create, Enlist, Grant, At, Renewing
<1>1. \A q \in Procs : q = p
  BY DEF OneAtATime
<1>2. CASE Create(p)
  <2>1. PICK s \in SpareSessions, t \in SpareTokens :
          /\ sessions' = [sessions EXCEPT ![s] = [token |-> t, left |-> proc[p].life]]
          /\ source' = [source EXCEPT ![t] = s]
          /\ Goes(p, [proc[p] EXCEPT !.stage = "enlist", !.sess = s, !.fresh = t])
    BY <1>2 DEF Create
  <2>2. /\ s \in Sessions /\ t \in Tokens /\ tokens' = tokens /\ tokens[t] = 0
        /\ \A k \in Tokens : source[k] # s
    <3>1. s \in Sessions /\ logins[s] = None /\ s # None
      BY <2>1, NullAssumption DEF SpareSessions
    <3>2. t \in Tokens /\ source[t] = None
      BY <2>1 DEF SpareTokens
    <3>3. tokens[t] \in Nat /\ ~(tokens[t] > 0)
      BY <3>2 DEF TypeInv, StoreType, DrawInv
    <3>4. \A k \in Tokens : source[k] \in Drawn \cup {None}
      BY DEF TypeInv, DrawInv
    <3>5. s \notin Drawn
      BY <3>1 DEF Drawn
    <3>6. tokens' = tokens
      BY <1>2 DEF Create
    <3>. QED  BY <3>1, <3>2, <3>3, <3>4, <3>5, <3>6
  <2>3. proc'[p].stage = "enlist" /\ proc'[p].sess = s /\ proc'[p].fresh = t
    BY <1>0, <2>1 DEF Goes, TypeInv, ProcType, Requests
  <2>4. /\ sessions'[s].token = t /\ \A k \in Sessions \ {s} : sessions'[k] = sessions[k]
        /\ source'[t] = s /\ \A k \in Tokens \ {t} : source'[k] = source[k]
    BY <2>1, <2>2 DEF TypeInv, StoreType
  <2>5. \A k \in Tokens, z \in Sessions : Live(k, z)' => Live(k, z) /\ z # s
    BY <2>2, <2>4 DEF Live
  <2>6. OneToken'
    BY <2>5 DEF NameInv, OneToken
  <2>7. \A k \in Tokens : Names(k)'
    BY <1>0, <1>1, <2>4, <2>5 DEF NameInv, Names
  <2>8. Knows(p)'
    BY <2>2, <2>3, <2>4 DEF Knows, Renewing
  <2>. QED  BY <1>1, <2>6, <2>7, <2>8 DEF NameInv
<1>3. CASE Enlist(p)
  <2>1. /\ UNCHANGED <<sessions, tokens, source>>
        /\ proc'[p].stage = "grant" /\ proc'[p].sess = proc[p].sess
        /\ proc'[p].fresh = proc[p].fresh /\ proc[p].stage = "enlist"
    BY <1>0, <1>3 DEF Enlist, At, To, Goes, drawnVars, TypeInv, ProcType, Requests
  <2>2. OneToken' /\ \A k \in Tokens : Names(k)'
    BY <1>0, <1>1, <2>1 DEF NameInv, OneToken, Names, Live
  <2>3. Knows(p)'
    BY <1>0, <2>1 DEF Knows, Renewing
  <2>. QED  BY <1>1, <2>2, <2>3 DEF NameInv
<1>4. CASE Grant(p)
  <2>1. /\ UNCHANGED <<sessions, source>> /\ proc[p].stage = "grant"
        /\ tokens' = [tokens EXCEPT ![proc[p].fresh] = proc[p].life]
        /\ Finish(p)
    BY <1>4 DEF Grant, At, drawnVars
  <2>2. proc'[p].stage = "idle"
    BY <2>1 DEF Finish, Goes, Idle, TypeInv, ProcType
  <2>3. \A k \in Tokens : k # proc[p].fresh => tokens'[k] = tokens[k]
    BY <2>1 DEF TypeInv, StoreType
  <2>4. /\ source[proc[p].fresh] = proc[p].sess
        /\ \A t \in Tokens : source[t] = proc[p].sess => t = proc[p].fresh
        /\ sessions[proc[p].sess] # None => sessions[proc[p].sess].token = proc[p].fresh
    BY <1>0, <2>1 DEF Knows
  <2>5. OneToken'
    BY <2>1, <2>3, <2>4 DEF NameInv, OneToken, Live
  <2>6. \A k \in Tokens : Names(k)'
    BY <1>0, <1>1, <2>1, <2>3, <2>4 DEF NameInv, Names, Live
  <2>7. Knows(p)'
    BY <2>2 DEF Knows, Renewing
  <2>. QED  BY <1>1, <2>5, <2>6, <2>7 DEF NameInv
<1>. QED  BY <1>2, <1>3, <1>4

(* A step that only moves the request on.                                  *)
LEMMA NameSilent ==
  ASSUME OneAtATime, NameInv, NEW p \in Procs, UNCHANGED <<sessions, tokens, source>>,
         proc[p].stage \in Renewing =>
           proc'[p].stage \in Renewing /\ proc'[p].sess = proc[p].sess,
         Knows(p)'
  PROVE  NameInv'
<1>1. \A q \in Procs : q = p
  BY DEF OneAtATime
<1>2. OneToken' /\ \A t \in Tokens : Names(t)'
  BY <1>1 DEF NameInv, OneToken, Names, Live
<1>. QED  BY <1>1, <1>2 DEF NameInv

(* A rotation up to the moment at which the old token goes: it is the only *)
(* one of its session that can live.                                       *)
LEMMA NameLoad ==
  ASSUME OneAtATime, TypeInv, NameInv, NEW p \in Procs,
         Load(p) \/ Alive(p) \/ Extend(p) \/ Beat(p)
  PROVE  NameInv'
<1>0. /\ proc[p] \in Requests /\ Knows(p) /\ UNCHANGED <<sessions, tokens, source>>
      /\ Hand(proc[p], Drawn, Named)
  BY HandOf DEF TypeInv, ProcType, NameInv, Load, Alive, Extend, Beat, redisVars, drawnVars
<1>1. \A st : To(p, st) => proc'[p].stage = st /\ proc'[p].sess = proc[p].sess
                           /\ proc'[p].token = proc[p].token /\ proc'[p].fresh = proc[p].fresh
  BY <1>0 DEF To, Goes, TypeInv, ProcType, Requests
<1>2. CASE To(p, "release") /\ proc[p].stage \in {"load", "alive"}
  <2>1. Knows(p)'
    BY <1>1, <1>2 DEF Knows, Renewing
  <2>. QED  BY <1>0, <1>2, <2>1, NameSilent DEF Renewing
<1>3. CASE Load(p)
  <2>. DEFINE x == [proc[p] EXCEPT !.stage = "alive", !.sess = source[proc[p].token]]
  <2>1. CASE tokens[proc[p].token] > 0 /\ Goes(p, x)
    <3>1. x.stage = "alive" /\ x.sess = source[proc[p].token] /\ x.token = proc[p].token
      BY <1>0 DEF Requests
    <3>. HIDE DEF x
    <3>2. proc'[p] = x
      BY <2>1 DEF Goes, TypeInv, ProcType
    <3>3. proc[p].token \in Tokens /\ proc[p].stage = "load"
      BY <1>0, <1>3 DEF Load, At, Hand
    <3>4. source[proc[p].token] \in Sessions
      BY <2>1, <3>3 DEF TypeInv, StoreType, DrawInv
    <3>5. \A t \in Tokens : Live(t, source[proc[p].token]) => t = proc[p].token
      BY <2>1, <3>3, <3>4 DEF NameInv, OneToken, Live
    <3>6. Knows(p)'
      BY <1>0, <3>1, <3>2, <3>5 DEF Knows, Renewing, Live
    <3>. QED  BY <1>0, <3>3, <3>6, NameSilent DEF Renewing
  <2>2. CASE To(p, "release")
    BY <1>2, <1>3, <2>2 DEF Load, At
  <2>. QED  BY <1>3, <2>1, <2>2 DEF Load
<1>4. CASE Alive(p)
  <2>1. CASE To(p, "spend")
    <3>1. proc[p].stage = "alive"
      BY <1>4 DEF Alive, At
    <3>2. Knows(p)'
      BY <1>0, <1>1, <2>1, <3>1 DEF Knows, Renewing, Live
    <3>. QED  BY <1>0, <3>1, <3>2, NameSilent DEF Renewing
  <2>2. CASE To(p, "release")
    BY <1>2, <1>4, <2>2 DEF Alive, At
  <2>. QED  BY <1>4, <2>1, <2>2 DEF Alive
<1>5. CASE Extend(p)
  <2>1. proc[p].stage = "extend" /\ (To(p, "store") \/ To(p, "retract"))
    BY <1>5 DEF Extend, At
  <2>2. Knows(p)'
    BY <1>0, <1>1, <2>1 DEF Knows, Renewing, Live
  <2>. QED  BY <1>0, <1>1, <2>1, <2>2, NameSilent DEF Renewing
<1>6. CASE Beat(p)
  <2>. DEFINE s == proc[p].sess
              x == [proc[p] EXCEPT !.stage = "keep", !.seen = sessions[s].token]
  <2>0. proc[p].stage = "beat" /\ s \in Sessions
    BY <1>0, <1>6 DEF Beat, At, Hand, Drawn
  <2>1. CASE sessions[s] # None /\ Goes(p, x)
    <3>1. x.stage = "keep" /\ x.sess = s /\ x.seen = sessions[s].token
      BY <1>0 DEF Requests
    <3>. HIDE DEF x
    <3>2. proc'[p] = x
      BY <2>1 DEF Goes, TypeInv, ProcType
    <3>3. \A q \in Procs : q = p
      BY DEF OneAtATime
    <3>4. \A t \in Tokens : Live(t, s) => t = sessions[s].token
      BY <2>0, <2>1, <3>3 DEF NameInv, Names, Renewing
    <3>5. Knows(p)'
      BY <1>0, <3>1, <3>2, <3>4 DEF Knows, Renewing, Live
    <3>. QED  BY <1>0, <2>0, <3>5, NameSilent DEF Renewing
  <2>2. CASE Finish(p)
    <3>1. proc'[p].stage = "idle"
      BY <2>2 DEF Finish, Goes, Idle, TypeInv, ProcType
    <3>2. Knows(p)'
      BY <3>1 DEF Knows, Renewing
    <3>. QED  BY <1>0, <2>0, <3>2, NameSilent DEF Renewing
  <2>. QED  BY <1>6, <2>1, <2>2 DEF Beat
<1>. QED  BY <1>3, <1>4, <1>5, <1>6

(* The old token goes, the new one comes.                                  *)
LEMMA NameExchange ==
  ASSUME OneAtATime, TypeInv, NameInv, NEW p \in Procs, Spend(p) \/ Issue(p)
  PROVE  NameInv'
<1>0. /\ proc[p] \in Requests /\ Knows(p) /\ sessions' = sessions
      /\ Hand(proc[p], Drawn, Named) /\ proc[p].stage \notin Renewing
  BY HandOf DEF TypeInv, ProcType, NameInv, Spend, Issue, At, Renewing
<1>1. \A q \in Procs : q = p
  BY DEF OneAtATime
<1>2. CASE Spend(p)
  <2>1. /\ proc[p].stage = "spend" /\ source' = source
        /\ tokens' = [tokens EXCEPT ![proc[p].token] = 0]
        /\ proc'[p].stage = "issue" /\ proc'[p].sess = proc[p].sess
    BY <1>0, <1>2 DEF Spend, At, To, Goes, drawnVars, TypeInv, ProcType, Requests
  <2>2. \A t \in Tokens : \A s : Live(t, s)' => Live(t, s) /\ t # proc[p].token
    BY <2>1 DEF Live, TypeInv, StoreType
  <2>3. OneToken'
    BY <2>2 DEF NameInv, OneToken
  <2>4. \A t \in Tokens : Names(t)'
    BY <1>0, <1>1, <2>2 DEF NameInv, Names
  <2>5. Knows(p)'
    BY <1>0, <2>1, <2>2 DEF Knows, Renewing
  <2>. QED  BY <1>1, <2>3, <2>4, <2>5 DEF NameInv
<1>3. CASE Issue(p)
  <2>. DEFINE s == proc[p].sess
  <2>1. PICK t \in SpareTokens :
          /\ tokens' = [tokens EXCEPT ![t] = Life(s)]
          /\ source' = [source EXCEPT ![t] = s]
          /\ Goes(p, [proc[p] EXCEPT !.stage = "extend", !.fresh = t])
    BY <1>3 DEF Issue
  <2>2. proc[p].stage = "issue" /\ t \in Tokens
    BY <1>3, <2>1 DEF Issue, At, SpareTokens
  <2>3. proc'[p].stage = "extend" /\ proc'[p].sess = s /\ proc'[p].fresh = t
    BY <1>0, <2>1 DEF Goes, TypeInv, ProcType, Requests
  <2>4. /\ source'[t] = s /\ \A k \in Tokens \ {t} : source'[k] = source[k]
        /\ \A k \in Tokens \ {t} : tokens'[k] = tokens[k]
    BY <2>1, <2>2 DEF TypeInv, StoreType
  <2>5. \A k \in Tokens : \A z : Live(k, z)' => (k = t /\ z = s) \/ Live(k, z)
    BY <2>4 DEF Live
  <2>6. \A k \in Tokens : ~Live(k, s)
    BY <1>0, <2>2 DEF Knows
  <2>7. OneToken'
    BY <2>5, <2>6 DEF NameInv, OneToken
  <2>8. \A k \in Tokens : Names(k)'
    BY <1>0, <1>1, <2>3, <2>5 DEF NameInv, Names, Renewing
  <2>9. Knows(p)'
    BY <2>3, <2>5, <2>6 DEF Knows, Renewing
  <2>. QED  BY <1>1, <2>7, <2>8, <2>9 DEF NameInv
<1>. QED  BY <1>2, <1>3

(* The session is written with the only token it can have, or the new      *)
(* token is taken back.                                                    *)
LEMMA NameWrites ==
  ASSUME OneAtATime, Faults = FALSE, TypeInv, NameInv, NEW p \in Procs,
         Store(p) \/ Retract(p) \/ Keep(p)
  PROVE  NameInv'
<1>. DEFINE s == proc[p].sess
<1>0. /\ proc[p] \in Requests /\ Knows(p) /\ source' = source
      /\ Hand(proc[p], Drawn, Named)
  BY HandOf DEF TypeInv, ProcType, NameInv, Store, Retract, Keep, drawnVars
<1>1. \A q \in Procs : q = p
  BY DEF OneAtATime
<1>2. s \in Sessions
  BY <1>0 DEF Store, Retract, Keep, At, Hand, Drawn
<1>3. proc'[p].stage \in {"idle", "release"}
  <2>1. CASE Store(p)
    BY <1>0, <2>1 DEF Store, To, Goes, TypeInv, ProcType, Requests
  <2>2. CASE Retract(p)
    BY <1>0, <2>2 DEF Retract, Goes, TypeInv, ProcType, Requests
  <2>3. CASE Keep(p)
    BY <2>3 DEF Keep, Finish, Goes, Idle, TypeInv, ProcType
  <2>. QED  BY <2>1, <2>2, <2>3
<1>4. Knows(p)'
  BY <1>3 DEF Knows, Renewing
<1>5. \A k \in Sessions \ {s} : sessions'[k] = sessions[k]
  BY DEF Store, Retract, Keep, TypeInv, StoreType
<1>6. \A t \in Tokens : \A z : Live(t, z)' => Live(t, z)
  BY <1>0 DEF Store, Retract, Keep, Unchecked, Live, TypeInv, StoreType
<1>7. OneToken'
  BY <1>6 DEF NameInv, OneToken
<1>8. ASSUME NEW t \in Tokens, source'[t] = s, tokens'[t] > 0
      PROVE  sessions'[s] # None => sessions'[s].token = t
  <2>0. Live(t, s)
    BY <1>0, <1>8 DEF Store, Retract, Keep, Unchecked, Live, TypeInv, StoreType
  <2>1. CASE Store(p)
    <3>1. t = proc[p].fresh
      BY <1>0, <2>0, <2>1 DEF Store, At, Knows, Renewing
    <3>. QED  BY <1>2, <2>1, <3>1 DEF Store, TypeInv, StoreType
  <2>2. CASE Keep(p)
    <3>1. t = proc[p].seen
      BY <1>0, <2>0, <2>2 DEF Keep, At, Knows
    <3>. QED  BY <1>2, <2>2, <3>1 DEF Keep, TypeInv, StoreType
  <2>3. CASE Retract(p)
    <3>1. t = proc[p].fresh
      BY <1>0, <2>0, <2>3 DEF Retract, At, Knows, Renewing
    <3>2. tokens'[t] = 0
      BY <2>3, <3>1 DEF Retract, Unchecked, TypeInv, StoreType
    <3>. QED  BY <1>8, <3>2
  <2>. QED  BY <2>1, <2>2, <2>3
<1>9. \A t \in Tokens : Names(t)'
  <2>. SUFFICES ASSUME NEW t \in Tokens, NEW z \in Sessions, Live(t, z)', sessions'[z] # None
                PROVE  sessions'[z].token = t
    BY DEF Names
  <2>1. CASE z = s
    BY <1>8, <2>1 DEF Live
  <2>2. CASE z # s
    <3>1. Live(t, z) /\ sessions[z] # None /\ sessions'[z] = sessions[z]
      BY <1>5, <1>6, <2>2
    <3>2. \A q \in Procs : proc[q].sess # z
      BY <1>1, <2>2
    <3>. QED  BY <3>1, <3>2 DEF NameInv, Names
  <2>. QED  BY <2>1, <2>2
<1>. QED  BY <1>1, <1>4, <1>7, <1>9 DEF NameInv

LEMMA NameInit == Init => NameInv
  BY DEF Init, NameInv, OneToken, Names, Live, Knows, Idle, Renewing

LEMMA NameNext ==
  ASSUME OneAtATime, Faults = FALSE, TypeInv, NameInv, [Next]_vars
  PROVE  NameInv'
<1>1. CASE UNCHANGED vars
  BY <1>1 DEF vars, NameInv, OneToken, Names, Live, Knows, redisVars, drawnVars
<1>2. ASSUME NEW p \in Procs, Handle(p) PROVE NameInv'
  BY <1>2, NameOthers, NameLogin, NameLoad, NameExchange, NameWrites DEF Handle
<1>. QED  BY <1>1, <1>2, NameReceive, NameTick DEF Next, Fail

(* Requests that do not overlap and do not fail leave a session that names *)
(* the refresh token that lives for it, so that the revocation of the      *)
(* session, which deletes the token it names, leaves no other behind.      *)
THEOREM SessionsNameTheirToken ==
  ASSUME OneAtATime, Faults = FALSE
  PROVE  Spec => []RevocableToken
<1>1. TypeInv /\ NameInv => RevocableToken
  <2>. SUFFICES ASSUME TypeInv, NameInv, Quiet, NEW t \in Tokens, tokens[t] > 0,
                       sessions[source[t]] # None
                PROVE  sessions[source[t]].token = t
    BY DEF RevocableToken
  <2>1. source[t] \in Sessions /\ Live(t, source[t])
    BY DEF TypeInv, DrawInv, StoreType, Live
  <2>2. \A p \in Procs : proc[p].stage \notin Renewing
    BY DEF Quiet, At, Renewing
  <2>. QED  BY <2>1, <2>2 DEF NameInv, Names
<1>. QED  BY <1>1, TypeInit, TypeNext, NameInit, NameNext, PTL DEF Spec

-----------------------------------------------------------------------------
(* The set of a user's sessions.  The keys expire on their own: the set    *)
(* covers the sessions of a user because it is always made to live as long *)
(* as the newest of them, and that is long enough only if all logins want  *)
(* the same life.                                                          *)

(* Sessions that are there and were not overwritten after their end.       *)
Present(s) == s \in Drawn \ stale /\ sessions[s] # None
Of(u) == {s \in Drawn : User(s) = u}
Uniform(u) == \A s, z \in Of(u) : Life(s) = Life(z)

Covered(s) == /\ s \in sets[User(s)].members
              /\ sessions[s].left <= sets[User(s)].left
Enlisting(s) == \E p \in Procs : proc[p].stage = "enlist" /\ proc[p].sess = s

Bounded == \A s \in Sessions : Present(s) => sessions[s].left <= Life(s)
Cover == \A u \in Users : Uniform(u) =>
           \A s \in Of(u) : Present(s) => Enlisting(s) \/ Covered(s)

(* What a login knows of its session, a revocation of everything of the    *)
(* sessions there are, and a listing of those it found gone.               *)
Setting == {"enlist", "each", "wipe", "discard", "prune"}
Recalls(p) ==
  LET r == proc[p]
  IN /\ r.stage = "enlist" => User(r.sess) = r.user /\ Life(r.sess) = r.life
     /\ r.stage \in {"each", "wipe"} /\ Sweeps(r.op) /\ Uniform(r.user) =>
          \A s \in Of(r.user) : Present(s) => s \in r.list
     /\ r.stage = "discard" /\ Uniform(r.user) => \A s \in Of(r.user) : ~Present(s)
     /\ r.stage \in {"each", "prune"} /\ r.op = "list" => \A s \in r.list : sessions[s] = None
     /\ r.stage = "prune" => r.op = "list"

SetInv == Bounded /\ Cover /\ \A p \in Procs : Recalls(p)

-----------------------------------------------------------------------------
(* Nothing is drawn, sessions only go, and the sets go on to cover those   *)
(* that are left.                                                          *)
LEMMA CoverKept ==
  ASSUME OneAtATime, TypeInv, SetInv, NEW p \in Procs, proc[p].stage # "enlist",
         logins' = logins, stale \subseteq stale',
         \A s \in Sessions : Present(s)' => Present(s) /\ sessions'[s].left <= Life(s),
         \A s \in Sessions : Present(s)' /\ Covered(s) /\ Uniform(User(s)) => Covered(s)',
         Recalls(p)'
  PROVE  SetInv'
<1>1. \A q \in Procs : q = p
  BY DEF OneAtATime
<1>2. Drawn' = Drawn
  BY DEF Drawn
<1>3. \A s : User(s)' = User(s) /\ Life(s)' = Life(s)
  BY DEF User, Life
<1>4. \A u : Of(u)' = Of(u) /\ (Uniform(u)' <=> Uniform(u))
  BY <1>2, <1>3 DEF Of, Uniform
<1>5. Bounded'
  BY <1>3 DEF Bounded
<1>6. Cover'
  <2>. SUFFICES ASSUME NEW u \in Users, Uniform(u), NEW s \in Of(u), Present(s)'
                PROVE  Covered(s)'
    BY <1>4 DEF Cover
  <2>1. s \in Sessions /\ User(s) = u /\ ~Enlisting(s)
    BY <1>1 DEF Of, Drawn, Enlisting
  <2>2. Covered(s)
    BY <2>1 DEF SetInv, Cover
  <2>. QED  BY <2>1, <2>2
<1>. QED  BY <1>1, <1>5, <1>6 DEF SetInv

(* In particular when the sets are left alone.                             *)
LEMMA CoverSame ==
  ASSUME OneAtATime, TypeInv, SetInv, NEW p \in Procs, proc[p].stage # "enlist",
         logins' = logins, stale \subseteq stale', sets' = sets,
         \A s \in Sessions : Present(s)' => Present(s) /\ sessions'[s].left = sessions[s].left,
         Recalls(p)'
  PROVE  SetInv'
<1>1. \A s \in Sessions : Present(s)' => Present(s) /\ sessions'[s].left <= Life(s)
  BY DEF SetInv, Bounded
<1>2. \A s \in Sessions : Present(s)' /\ Covered(s) => Covered(s)'
  BY DEF Covered, User
<1>. QED  BY <1>1, <1>2, CoverKept

(* A request that does not come to a stage at which it has to know         *)
(* something.                                                              *)
LEMMA RecallsNothing ==
  ASSUME NEW p \in Procs, proc'[p].stage \notin Setting
  PROVE  Recalls(p)'
  BY DEF Recalls, Setting

LEMMA ToStage ==
  ASSUME TypeInv, NEW p \in Procs
  PROVE  /\ \A st : To(p, st) => proc'[p].stage = st
         /\ Finish(p) => proc'[p].stage = "idle"
         /\ \A r : Goes(p, r) => proc'[p] = r
  BY DEF To, Finish, Idle, Goes, TypeInv, ProcType, Requests

LEMMA NotSetting ==
  ASSUME Faults = FALSE, TypeInv, NEW p \in Procs, Handle(p),
         ~Create(p), ~Members(p), ~Each(p)
  PROVE  proc'[p].stage \notin Setting
<1>0. proc[p] \in Requests
  BY DEF TypeInv, ProcType
<1>1. CASE Load(p)
  <2>. DEFINE x == [proc[p] EXCEPT !.stage = "alive", !.sess = source[proc[p].token]]
  <2>1. x.stage = "alive" /\ (Goes(p, x) \/ To(p, "release"))
    BY <1>0, <1>1 DEF Load, Requests
  <2>. HIDE DEF x
  <2>. QED  BY <2>1, ToStage DEF Setting
<1>2. CASE Issue(p)
  <2>1. PICK t : Goes(p, [proc[p] EXCEPT !.stage = "extend", !.fresh = t])
    BY <1>2 DEF Issue
  <2>. DEFINE x == [proc[p] EXCEPT !.stage = "extend", !.fresh = t]
  <2>2. x.stage = "extend" /\ Goes(p, x)
    BY <1>0, <2>1 DEF Requests
  <2>. HIDE DEF x
  <2>. QED  BY <2>2, ToStage DEF Setting
<1>3. CASE Retract(p)
  <2>. DEFINE x == [proc[p] EXCEPT !.stage = "release", !.fresh = None]
  <2>1. x.stage = "release" /\ Goes(p, x)
    BY <1>0, <1>3 DEF Retract, Requests
  <2>. HIDE DEF x
  <2>. QED  BY <2>1, ToStage DEF Setting
<1>4. CASE Beat(p)
  <2>. DEFINE x == [proc[p] EXCEPT !.stage = "keep", !.seen = sessions[proc[p].sess].token]
  <2>1. x.stage = "keep" /\ (Goes(p, x) \/ Finish(p))
    BY <1>0, <1>4 DEF Beat, Requests
  <2>. HIDE DEF x
  <2>. QED  BY <2>1, ToStage DEF Setting
<1>5. CASE Find(p)
  <2>. DEFINE x == [proc[p] EXCEPT !.stage = "drop", !.seen = sessions[proc[p].sess].token]
  <2>1. x.stage = "drop" /\ (Goes(p, x) \/ To(p, "forget") \/ Finish(p))
    BY <1>0, <1>5 DEF Find, Requests
  <2>. HIDE DEF x
  <2>. QED  BY <2>1, ToStage DEF Setting
<1>6. CASE Forget(p)
  <2>. DEFINE x == [proc[p] EXCEPT !.stage = "find", !.op = "revoke"]
  <2>1. x.stage = "find" /\ Goes(p, x)
    BY <1>0, <1>6 DEF Forget, Requests
  <2>. HIDE DEF x
  <2>. QED  BY <2>1, ToStage DEF Setting
<1>7. CASE Sweep(p)
  <2>1. PICK found : Goes(p, [proc[p] EXCEPT !.stage = "unsweep", !.doom = found]) \/ Finish(p)
    BY <1>7 DEF Sweep
  <2>. DEFINE x == [proc[p] EXCEPT !.stage = "unsweep", !.doom = found]
  <2>2. x.stage = "unsweep" /\ (Goes(p, x) \/ Finish(p))
    BY <1>0, <2>1 DEF Requests
  <2>. HIDE DEF x
  <2>. QED  BY <2>2, ToStage DEF Setting
<1>8. CASE Account(p) \/ Enlist(p) \/ Undo(p) \/ Grant(p) \/ Acquire(p) \/ Alive(p)
             \/ Spend(p) \/ Extend(p) \/ Store(p) \/ Release(p) \/ Keep(p) \/ Drop(p)
             \/ Erase(p) \/ Discard(p) \/ Wipe(p) \/ Prune(p) \/ Unsweep(p)
  <2>1. Finish(p) \/ \E st \in Stages \ Setting : To(p, st)
    BY <1>8 DEF Account, Enlist, Undo, Grant, Acquire, Alive, Spend, Extend, Store, Release,
       Keep, Drop, Erase, Discard, Wipe, Prune, Unsweep, Stages, Setting
  <2>. QED  BY <2>1, ToStage DEF Setting
<1>. QED
  BY <1>1, <1>2, <1>3, <1>4, <1>5, <1>6, <1>7, <1>8 DEF Handle

-----------------------------------------------------------------------------
(* Steps *)

LEMMA SetReceive ==
  ASSUME OneAtATime, TypeInv, SetInv, NEW p \in Procs, NEW op \in Ops, Receive(p, op)
  PROVE  SetInv'
<1>1. PICK user \in Users \cup {None}, sess \in Sessions \cup {None},
           token \in Tokens \cup {None}, life \in Lives \cup {None} :
        Goes(p, Request(op, user, sess, token, life))
  BY DEF Receive
<1>2. proc'[p].stage = FirstStage(op) /\ proc[p].stage = "idle"
  BY <1>1 DEF Receive, At, Goes, Request, TypeInv, ProcType
<1>3. UNCHANGED <<sessions, sets, logins, stale>>
  BY DEF Receive, redisVars, drawnVars, historyVars
<1>4. Recalls(p)'
  BY <1>2, FirstStageType, RecallsNothing DEF Setting
<1>. QED  BY <1>2, <1>3, <1>4, CoverSame DEF Present, Drawn

(* The calls that touch neither a session nor a set.                       *)
LEMMA SetOthers ==
  ASSUME OneAtATime, Faults = FALSE, TypeInv, SetInv, NEW p \in Procs,
         \/ Account(p) \/ Grant(p) \/ Acquire(p) \/ Load(p) \/ Alive(p) \/ Spend(p)
         \/ Issue(p) \/ Extend(p) \/ Retract(p) \/ Release(p) \/ Beat(p) \/ Find(p)
         \/ Forget(p) \/ Erase(p) \/ Sweep(p) \/ Unsweep(p)
  PROVE  SetInv'
<1>1. UNCHANGED <<sessions, sets, logins, stale>>
  BY DEF Account, Grant, Acquire, Load, Alive, Spend, Issue, Extend, Retract, Release, Beat,
         Find, Forget, Erase, Sweep, Unsweep, redisVars, drawnVars, historyVars
<1>2. proc[p].stage \notin {"enlist", "create", "members", "each"}
  BY DEF At, Account, Grant, Acquire, Load, Alive, Spend, Issue, Extend, Retract, Release,
         Beat, Find, Forget, Erase, Sweep, Unsweep
<1>3. Handle(p) /\ ~Create(p) /\ ~Members(p) /\ ~Each(p)
  BY <1>2 DEF Handle, Create, Members, Each, At
<1>4. Recalls(p)'
  BY <1>3, NotSetting, RecallsNothing
<1>. QED  BY <1>1, <1>2, <1>4, CoverSame DEF Present, Drawn

(* A new session is on its way into the set ...                            *)
LEMMA SetCreate ==
  ASSUME OneAtATime, TypeInv, SetInv, NEW p \in Procs, Create(p)
  PROVE  SetInv'
<1>0. /\ proc[p] \in Requests /\ proc[p].stage = "create" /\ UNCHANGED <<sets, stale>>
      /\ proc[p].user \in Users /\ proc[p].life \in Lives
  BY HandOf DEF Create, At, TypeInv, ProcType, Hand, historyVars
<1>1. PICK s \in SpareSessions, t \in SpareTokens :
        /\ sessions' = [sessions EXCEPT ![s] = [token |-> t, left |-> proc[p].life]]
        /\ logins' = [logins EXCEPT ![s] = [user |-> proc[p].user, life |-> proc[p].life]]
        /\ Goes(p, [proc[p] EXCEPT !.stage = "enlist", !.sess = s, !.fresh = t])
  BY DEF Create
<1>2. s \in Sessions /\ logins[s] = None /\ s \notin Drawn
  BY <1>1 DEF SpareSessions, Drawn
<1>3. /\ proc'[p].stage = "enlist" /\ proc'[p].sess = s
      /\ proc'[p].user = proc[p].user /\ proc'[p].life = proc[p].life
  BY <1>0, <1>1 DEF Goes, TypeInv, ProcType, Requests
<1>4. /\ logins'[s].user = proc[p].user /\ logins'[s].life = proc[p].life
      /\ sessions'[s].left = proc[p].life
      /\ \A z \in Sessions \ {s} : logins'[z] = logins[z] /\ sessions'[z] = sessions[z]
  BY <1>1, <1>2 DEF TypeInv, StoreType
<1>5. proc[p].life \in Nat /\ proc[p].life <= proc[p].life
  <2>1. proc[p].life \in Nat
    BY <1>0, DomainAssumption
  <2>2. \A n \in Nat : n <= n
    OBVIOUS
  <2>. QED  BY <2>1, <2>2
<1>6. Drawn \subseteq Drawn' /\ Drawn' \subseteq Drawn \cup {s}
  BY <1>2, <1>4 DEF Drawn
<1>7. \A z \in Drawn : User(z)' = User(z) /\ Life(z)' = Life(z) /\ z \in Sessions \ {s}
  BY <1>2, <1>4 DEF Drawn, User, Life
<1>8. \A q \in Procs : q = p
  BY DEF OneAtATime
<1>9. Bounded'
  <2>. SUFFICES ASSUME NEW z \in Sessions, Present(z)' PROVE sessions'[z].left <= Life(z)'
    BY DEF Bounded
  <2>1. CASE z = s
    BY <1>4, <1>5, <2>1 DEF Life
  <2>2. CASE z # s
    BY <1>0, <1>4, <1>6, <1>7, <2>2 DEF SetInv, Bounded, Present
  <2>. QED  BY <2>1, <2>2
<1>10. Cover'
  <2>. SUFFICES ASSUME NEW u \in Users, Uniform(u)', NEW z \in Drawn', User(z)' = u,
                       Present(z)', z # s
                PROVE  Covered(z)'
    BY <1>3 DEF Cover, Of, Enlisting
  <2>1. z \in Drawn /\ User(z) = u /\ z \in Sessions \ {s}
    BY <1>6, <1>7
  <2>2. Uniform(u)
    BY <1>6, <1>7 DEF Uniform, Of
  <2>3. Present(z) /\ ~Enlisting(z)
    BY <1>0, <1>4, <1>8, <2>1 DEF Present, Enlisting
  <2>4. Covered(z)
    BY <2>1, <2>2, <2>3 DEF SetInv, Cover, Of
  <2>. QED  BY <1>0, <1>4, <1>7, <2>1, <2>4 DEF Covered
<1>11. Recalls(p)'
  BY <1>3, <1>4 DEF Recalls, User, Life
<1>. QED  BY <1>8, <1>9, <1>10, <1>11 DEF SetInv

(* ... and gets there, with a life that does for all the others.           *)
LEMMA SetEnlist ==
  ASSUME OneAtATime, Faults = FALSE, TypeInv, OverwriteInv, SetInv, NEW p \in Procs, Enlist(p)
  PROVE  SetInv'
<1>. DEFINE e == proc[p].sess
            u == proc[p].user
<1>0. /\ proc[p] \in Requests /\ proc[p].stage = "enlist"
      /\ UNCHANGED <<sessions, logins, stale>> /\ To(p, "grant")
      /\ u \in Users /\ e \in Drawn
  BY HandOf DEF Enlist, At, TypeInv, ProcType, Hand, drawnVars, historyVars
<1>1. User(e) = u /\ Life(e) = proc[p].life
  BY <1>0 DEF SetInv, Recalls
<1>2. /\ sets'[u].members = sets[u].members \cup {e} /\ sets'[u].left = Life(e)
      /\ \A v \in Users \ {u} : sets'[v] = sets[v]
  BY <1>0, <1>1 DEF Enlist, TypeInv, StoreType
<1>3. Drawn' = Drawn /\ \A s : User(s)' = User(s) /\ Life(s)' = Life(s)
  BY <1>0 DEF Drawn, User, Life
<1>4. \A s : Present(s)' <=> Present(s)
  BY <1>0, <1>3 DEF Present
<1>5. \A v : Of(v)' = Of(v) /\ (Uniform(v)' <=> Uniform(v))
  BY <1>3 DEF Of, Uniform
<1>6. Bounded'
  BY <1>0, <1>3, <1>4 DEF SetInv, Bounded
<1>7. Cover'
  <2>. SUFFICES ASSUME NEW v \in Users, Uniform(v), NEW s \in Of(v), Present(s)
                PROVE  Covered(s)'
    BY <1>4, <1>5 DEF Cover
  <2>0. s \in Sessions /\ User(s) = v /\ s \in Drawn
    BY DEF Of, Drawn
  <2>1. CASE v = u
    <3>1. Life(s) = Life(e)
      BY <1>0, <1>1, <2>1 DEF Uniform, Of
    <3>2. sessions[s].left <= Life(s)
      BY <2>0 DEF SetInv, Bounded
    <3>3. s = e \/ s \in sets[u].members
      <4>1. \A q \in Procs : q = p
        BY DEF OneAtATime
      <4>2. s # e => Covered(s)
        BY <2>1, <4>1 DEF SetInv, Cover, Enlisting
      <4>. QED  BY <2>0, <2>1, <4>2 DEF Covered
    <3>. QED  BY <1>0, <1>2, <1>3, <2>0, <2>1, <3>1, <3>2, <3>3 DEF Covered
  <2>2. CASE v # u
    <3>1. s # e
      BY <1>1, <2>0, <2>2
    <3>2. Covered(s)
      BY <3>1 DEF SetInv, Cover, Enlisting, OneAtATime
    <3>. QED  BY <1>0, <1>2, <1>3, <2>0, <2>2, <3>2 DEF Covered
  <2>. QED  BY <2>1, <2>2
<1>8. Recalls(p)'
  BY <1>0, ToStage, RecallsNothing DEF Setting
<1>. QED  BY <1>6, <1>7, <1>8 DEF SetInv, OneAtATime

(* A revocation of everything learns of all sessions there are, if the set *)
(* covers them.                                                            *)
LEMMA SetMembers ==
  ASSUME OneAtATime, TypeInv, SetInv, NEW p \in Procs, Members(p)
  PROVE  SetInv'
<1>. DEFINE r == proc[p]
            todo == sets[r.user].members \ (IF r.op = "others" THEN {r.sess} ELSE {})
            list == IF r.op = "list" THEN {} ELSE todo
            x == [r EXCEPT !.stage = "each", !.todo = todo, !.list = list]
<1>0. /\ r \in Requests /\ r.stage = "members" /\ r.user \in Users
      /\ UNCHANGED <<sessions, sets, logins, stale>>
  BY HandOf DEF Members, At, TypeInv, ProcType, Hand, redisVars, drawnVars, historyVars
<1>1. /\ x.stage = "each" /\ x.op = r.op /\ x.user = r.user /\ x.list = list
  BY <1>0 DEF Requests
<1>2. \/ Goes(p, x)
      \/ todo = {} /\ Sweeps(r.op) /\ To(p, "discard")
      \/ Finish(p)
  BY DEF Members
<1>3. Sweeps(r.op) => todo = sets[r.user].members /\ list = todo
  BY DEF Sweeps
<1>4. r.op = "list" => list = {}
  OBVIOUS
<1>5. ASSUME Uniform(r.user), NEW s \in Of(r.user), Present(s)
      PROVE  s \in sets[r.user].members
  <2>1. ~Enlisting(s)
    BY <1>0 DEF Enlisting, OneAtATime
  <2>. QED  BY <1>0, <1>5, <2>1 DEF SetInv, Cover, Covered, Of
<1>. HIDE DEF x, list, todo
<1>6. \A s : (Present(s)' <=> Present(s)) /\ User(s)' = User(s) /\ Life(s)' = Life(s)
  BY <1>0 DEF Present, Drawn, User, Life
<1>7. \A u : Of(u)' = Of(u) /\ (Uniform(u)' <=> Uniform(u))
  BY <1>0 DEF Of, Uniform, Drawn, User, Life
<1>8. Recalls(p)'
  <2>1. CASE Goes(p, x)
    <3>1. proc'[p] = x
      BY <2>1, ToStage
    <3>2. \A s \in list : r.op # "list"
      BY <1>4
    <3>. QED  BY <1>0, <1>1, <1>3, <1>5, <1>6, <1>7, <3>1, <3>2 DEF Recalls
  <2>2. CASE todo = {} /\ Sweeps(r.op) /\ To(p, "discard")
    <3>1. proc'[p].stage = "discard" /\ proc'[p].user = r.user
      BY <1>0, <2>2 DEF To, Goes, TypeInv, ProcType, Requests
    <3>. QED  BY <1>3, <1>5, <1>6, <1>7, <2>2, <3>1 DEF Recalls
  <2>3. CASE Finish(p)
    BY <2>3, ToStage, RecallsNothing DEF Setting
  <2>. QED  BY <1>2, <2>1, <2>2, <2>3
<1>. QED  BY <1>0, <1>6, <1>8, CoverSame

(* What it goes to delete stays what it has learned; a listing takes what  *)
(* it finds gone.                                                          *)
LEMMA SetEach ==
  ASSUME OneAtATime, Faults = FALSE, TypeInv, SetInv, NEW p \in Procs, Each(p)
  PROVE  SetInv'
<1>. DEFINE r == proc[p]
<1>0. /\ r \in Requests /\ r.stage = "each" /\ Recalls(p)
      /\ UNCHANGED <<sessions, sets, logins, stale>>
  BY DEF Each, At, TypeInv, ProcType, SetInv, redisVars, drawnVars, historyVars
<1>1. PICK s \in r.todo, read \in {TRUE, ~Faults} :
        LET alive == sessions[s] # None
        IN Goes(p, [r EXCEPT !.todo = @ \ {s},
                      !.list = IF r.op = "list" /\ read /\ ~alive THEN r.list \cup {s} ELSE r.list,
                      !.stage = IF r.todo # {s} THEN "each"
                                ELSE IF r.op # "list" THEN "wipe" ELSE "prune",
                      !.doom = IF read /\ alive /\ r.op # "list"
                                 THEN @ \cup {sessions[s].token} ELSE @])
  BY DEF Each
<1>. DEFINE list == IF r.op = "list" /\ read /\ ~(sessions[s] # None) THEN r.list \cup {s} ELSE r.list
            after == IF r.todo # {s} THEN "each" ELSE IF r.op # "list" THEN "wipe" ELSE "prune"
            x == [r EXCEPT !.todo = @ \ {s}, !.list = list, !.stage = after,
                    !.doom = IF read /\ sessions[s] # None /\ r.op # "list"
                               THEN @ \cup {sessions[s].token} ELSE @]
<1>2. x.stage = after /\ x.op = r.op /\ x.user = r.user /\ x.list = list
  BY <1>0 DEF Requests
<1>3. proc'[p] = x
  BY <1>1, ToStage
<1>4. after \in {"each", "wipe", "prune"} /\ (after = "prune" => r.op = "list")
  OBVIOUS
<1>5. list = r.list \/ (r.op = "list" /\ sessions[s] = None /\ list = r.list \cup {s})
  OBVIOUS
<1>. HIDE DEF x, list, after
<1>6. \A z : (Present(z)' <=> Present(z)) /\ User(z)' = User(z) /\ Life(z)' = Life(z)
  BY <1>0 DEF Present, Drawn, User, Life
<1>7. \A u : Of(u)' = Of(u) /\ (Uniform(u)' <=> Uniform(u))
  BY <1>0 DEF Of, Uniform, Drawn, User, Life
<1>8. Sweeps(r.op) => list = r.list
  BY <1>5 DEF Sweeps
<1>9. r.op = "list" => \A z \in list : sessions[z] = None
  BY <1>0, <1>5 DEF Recalls
<1>10. Recalls(p)'
  BY <1>0, <1>4, <1>2, <1>3, <1>6, <1>7, <1>8, <1>9 DEF Recalls
<1>. QED  BY <1>0, <1>6, <1>10, CoverSame

(* An extension sets the life of the session and of the set alike.         *)
LEMMA SetStore ==
  ASSUME OneAtATime, Faults = FALSE, TypeInv, OverwriteInv, SetInv, NEW p \in Procs, Store(p)
  PROVE  SetInv'
<1>. DEFINE e == proc[p].sess
            u == User(e)
            new == Expire(sets[u], Life(e))
<1>0. /\ proc[p].stage = "store" /\ e \in Drawn /\ e \in Sessions
      /\ UNCHANGED <<logins, stale>> /\ To(p, "release")
      /\ sessions' = [sessions EXCEPT ![e] = [token |-> proc[p].fresh, left |-> Life(e)]]
      /\ sets' = [sets EXCEPT ![u] = new]
  BY HandOf DEF Store, At, TypeInv, Hand, drawnVars, historyVars, Drawn
<1>1. u \in Users /\ Life(e) \in Lives /\ Life(e) \in Nat
  BY <1>0, DrawnType, DomainAssumption DEF TypeInv
<1>2. \A n \in Nat : n <= n
  OBVIOUS
<1>3. /\ sessions'[e].left = Life(e) /\ sets'[u] = new
      /\ \A s \in Sessions \ {e} : sessions'[s] = sessions[s]
      /\ \A v \in Users \ {u} : sets'[v] = sets[v]
  BY <1>0, <1>1 DEF TypeInv, StoreType
<1>4. e \in stale \/ sessions[e] # None
  BY <1>0 DEF OverwriteInv
<1>5. ASSUME NEW s \in Sessions, Present(s)'
      PROVE  Present(s) /\ sessions'[s].left <= Life(s)
  <2>1. CASE s = e
    BY <1>0, <1>1, <1>2, <1>3, <1>4, <1>5, <2>1 DEF Present, Drawn
  <2>2. CASE s # e
    <3>1. Present(s) /\ sessions'[s] = sessions[s]
      BY <1>0, <1>3, <1>5, <2>2 DEF Present, Drawn
    <3>. QED  BY <3>1 DEF SetInv, Bounded
  <2>. QED  BY <2>1, <2>2
<1>6. sets[u].members # {} => new.members = sets[u].members /\ new.left = Life(e)
  BY <1>1, ExpireType DEF Expire, EmptySet, TypeInv, StoreType, SetKeys
<1>. HIDE DEF new
<1>7. ASSUME NEW s \in Sessions, Present(s)', Covered(s), Uniform(User(s))
      PROVE  Covered(s)'
  <2>1. s \in Drawn /\ User(s)' = User(s) /\ User(s) \in Users
    BY <1>0, <1>5, <1>7, DrawnType DEF Present, User, TypeInv
  <2>2. CASE User(s) = u
    <3>1. Life(s) = Life(e)
      BY <1>0, <1>7, <2>1, <2>2 DEF Uniform, Of
    <3>2. sets'[u].members = sets[u].members /\ sets'[u].left = Life(e)
      BY <1>3, <1>6, <1>7, <2>2 DEF Covered
    <3>3. sessions'[s].left <= Life(s)
      BY <1>5, <1>7
    <3>. QED  BY <1>7, <2>1, <2>2, <3>1, <3>2, <3>3 DEF Covered
  <2>3. CASE User(s) # u
    <3>1. s # e
      BY <2>3
    <3>. QED  BY <1>3, <1>7, <2>1, <2>3, <3>1 DEF Covered
  <2>. QED  BY <2>2, <2>3
<1>8. Recalls(p)'
  BY <1>0, ToStage, RecallsNothing DEF Setting
<1>. QED  BY <1>0, <1>5, <1>7, <1>8, CoverKept

(* A heartbeat keeps what is left.                                         *)
LEMMA SetKeep ==
  ASSUME OneAtATime, TypeInv, OverwriteInv, SetInv, NEW p \in Procs, Keep(p)
  PROVE  SetInv'
<1>. DEFINE e == proc[p].sess
<1>0. /\ proc[p].stage = "keep" /\ e \in Sessions
      /\ UNCHANGED <<logins, stale, sets>> /\ Finish(p)
      /\ sessions' = [sessions EXCEPT ![e] =
           [token |-> proc[p].seen, left |-> IF @ = None THEN Never ELSE @.left]]
  BY HandOf DEF Keep, At, TypeInv, Hand, drawnVars, historyVars, Drawn
<1>1. e \in stale \/ sessions[e] # None
  BY <1>0 DEF OverwriteInv
<1>2. /\ sessions[e] # None => sessions'[e].left = sessions[e].left
      /\ \A s \in Sessions \ {e} : sessions'[s] = sessions[s]
  BY <1>0 DEF TypeInv, StoreType
<1>3. \A s \in Sessions : Present(s)' => Present(s) /\ sessions'[s].left = sessions[s].left
  BY <1>0, <1>1, <1>2 DEF Present, Drawn
<1>4. Recalls(p)'
  BY <1>0, ToStage, RecallsNothing DEF Setting
<1>. QED  BY <1>0, <1>3, <1>4, CoverSame

-----------------------------------------------------------------------------
(* Deletions take out of the sets what is gone, or goes with them.         *)

LEMMA SRemCovers ==
  ASSUME NEW k \in SetKeys, NEW S, NEW s \in k.members \ S
  PROVE  s \in SRem(k, S).members /\ SRem(k, S).left = k.left
  BY DEF SRem, SetKeys

(* A deletion that leaves the set of a user with all that is there still.  *)
LEMMA CoverCut ==
  ASSUME OneAtATime, TypeInv, SetInv, NEW p \in Procs, proc[p].stage # "enlist",
         logins' = logins, stale \subseteq stale', NEW u \in Users, NEW new, NEW gone,
         sets' = [sets EXCEPT ![u] = new],
         \/ new = SRem(sets[u], gone) /\ \A s \in Sessions : Present(s)' => s \notin gone
         \/ new = EmptySet /\ (Uniform(u) => \A s \in Of(u) : ~Present(s)'),
         \A s \in Sessions : Present(s)' => sessions[s] # None /\ sessions'[s] = sessions[s],
         Recalls(p)'
  PROVE  SetInv'
<1>1. ASSUME NEW s \in Sessions, Present(s)'
      PROVE  Present(s) /\ sessions'[s].left <= Life(s)
  <2>1. Present(s)
    BY <1>1 DEF Present, Drawn
  <2>. QED  BY <1>1, <2>1 DEF SetInv, Bounded
<1>2. ASSUME NEW s \in Sessions, Present(s)', Covered(s), Uniform(User(s))
      PROVE  Covered(s)'
  <2>1. s \in Drawn /\ User(s)' = User(s) /\ User(s) \in Users /\ sessions'[s] = sessions[s]
    BY <1>1, <1>2, DrawnType DEF Present, User, TypeInv
  <2>2. CASE User(s) # u
    BY <1>2, <2>1, <2>2 DEF Covered, TypeInv, StoreType
  <2>3. CASE User(s) = u
    <3>1. new = SRem(sets[u], gone) /\ s \notin gone
      BY <1>2, <2>1, <2>3 DEF Of
    <3>2. s \in sets[u].members /\ sets[u] \in SetKeys /\ sets'[u] = new
      BY <1>2, <2>3 DEF Covered, TypeInv, StoreType
    <3>3. s \in new.members /\ new.left = sets[u].left
      BY <3>1, <3>2, SRemCovers
    <3>. QED  BY <1>2, <2>1, <2>3, <3>2, <3>3 DEF Covered
  <2>. QED  BY <2>2, <2>3
<1>. QED  BY <1>1, <1>2, CoverKept

LEMMA SetUndo ==
  ASSUME OneAtATime, Faults = FALSE, TypeInv, SetInv, NEW p \in Procs, Undo(p)
  PROVE  SetInv'
<1>1. /\ proc[p].stage = "undo" /\ UNCHANGED <<sets, logins>> /\ Finish(p)
      /\ sessions' = [sessions EXCEPT ![proc[p].sess] = None] /\ stale \subseteq stale'
  BY DEF Undo, Unchecked, Missed, At, drawnVars
<1>2. \A s \in Sessions : Present(s)' => Present(s) /\ sessions'[s].left = sessions[s].left
  BY <1>1 DEF Present, Drawn, TypeInv, StoreType
<1>3. Recalls(p)'
  BY <1>1, ToStage, RecallsNothing DEF Setting
<1>. QED  BY <1>1, <1>2, <1>3, CoverSame

LEMMA SetDrop ==
  ASSUME OneAtATime, TypeInv, SetInv, NEW p \in Procs, Drop(p)
  PROVE  SetInv'
<1>. DEFINE e == proc[p].sess
            u == proc[p].user
<1>1. /\ proc[p].stage = "drop" /\ logins' = logins /\ stale \subseteq stale'
      /\ sessions' = [sessions EXCEPT ![e] = None]
      /\ sets' = [sets EXCEPT ![u] = SRem(sets[u], {e})]
      /\ Finish(p) \/ To(p, "forget")
      /\ u \in Users
  BY HandOf DEF Drop, Missed, At, TypeInv, Hand, drawnVars
<1>2. \A s \in Sessions : Present(s)' =>
         sessions[s] # None /\ sessions'[s] = sessions[s] /\ s \notin {e}
  BY <1>1 DEF Present, TypeInv, StoreType
<1>3. Recalls(p)'
  BY <1>1, ToStage, RecallsNothing DEF Setting
<1>. QED  BY <1>1, <1>2, <1>3, CoverCut

LEMMA SetPrune ==
  ASSUME OneAtATime, Faults = FALSE, TypeInv, SetInv, NEW p \in Procs, Prune(p)
  PROVE  SetInv'
<1>. DEFINE gone == proc[p].list
            u == proc[p].user
<1>1. /\ proc[p].stage = "prune" /\ UNCHANGED <<logins, stale, sessions>>
      /\ sets' = [sets EXCEPT ![u] = SRem(sets[u], gone)]
      /\ Finish(p) /\ u \in Users
  BY HandOf DEF Prune, Unchecked, At, TypeInv, Hand, drawnVars, historyVars
<1>2. \A s \in gone : sessions[s] = None
  BY <1>1 DEF SetInv, Recalls
<1>3. \A s \in Sessions : Present(s)' =>
         sessions[s] # None /\ sessions'[s] = sessions[s] /\ s \notin gone
  BY <1>1, <1>2 DEF Present
<1>4. Recalls(p)'
  BY <1>1, ToStage, RecallsNothing DEF Setting
<1>. QED  BY <1>1, <1>3, <1>4, CoverCut

LEMMA SetDiscard ==
  ASSUME OneAtATime, Faults = FALSE, TypeInv, SetInv, NEW p \in Procs, Discard(p)
  PROVE  SetInv'
<1>. DEFINE u == proc[p].user
<1>1. /\ proc[p].stage = "discard" /\ UNCHANGED <<logins, stale, sessions>>
      /\ sets' = [sets EXCEPT ![u] = EmptySet]
      /\ To(p, "sweep") /\ u \in Users
  BY HandOf DEF Discard, Unchecked, At, TypeInv, Hand, drawnVars, historyVars
<1>2. Uniform(u) => \A s \in Of(u) : ~Present(s)'
  BY <1>1 DEF SetInv, Recalls, Present, Drawn
<1>3. \A s \in Sessions : Present(s)' => sessions[s] # None /\ sessions'[s] = sessions[s]
  BY <1>1 DEF Present
<1>4. Recalls(p)'
  BY <1>1, ToStage, RecallsNothing DEF Setting
<1>. QED  BY <1>1, <1>2, <1>3, <1>4, CoverCut

LEMMA SetWipe ==
  ASSUME OneAtATime, TypeInv, SetInv, NEW p \in Procs, Wipe(p)
  PROVE  SetInv'
<1>. DEFINE gone == proc[p].list
            u == proc[p].user
            new == IF Sweeps(proc[p].op) THEN EmptySet ELSE SRem(sets[u], gone)
<1>1. /\ proc[p].stage = "wipe" /\ logins' = logins /\ stale \subseteq stale'
      /\ sessions' = Without(sessions, gone, None)
      /\ sets' = [sets EXCEPT ![u] = new]
      /\ Finish(p) \/ To(p, "sweep")
      /\ u \in Users
  BY HandOf DEF Wipe, Missed, At, TypeInv, Hand, drawnVars
<1>2. \A s \in Sessions : Present(s)' =>
         sessions[s] # None /\ sessions'[s] = sessions[s] /\ s \notin gone
  BY <1>1 DEF Present, Without, TypeInv, StoreType
<1>3. Sweeps(proc[p].op) /\ Uniform(u) => \A s \in Of(u) : ~Present(s)'
  <2>1. \A s \in Of(u) : s \in Sessions /\ (Present(s)' => Present(s))
    BY <1>1, <1>2 DEF Of, Present, Drawn
  <2>2. Sweeps(proc[p].op) /\ Uniform(u) => \A s \in Of(u) : Present(s) => s \in gone
    BY <1>1 DEF SetInv, Recalls
  <2>. QED  BY <1>2, <2>1, <2>2
<1>4. Recalls(p)'
  BY <1>1, ToStage, RecallsNothing DEF Setting
<1>5. \/ new = SRem(sets[u], gone)
      \/ new = EmptySet /\ Sweeps(proc[p].op)
  OBVIOUS
<1>. HIDE DEF new
<1>. QED  BY <1>1, <1>2, <1>3, <1>4, <1>5, CoverCut

-----------------------------------------------------------------------------
(* Time: a session that is there has no more left than its set, and both   *)
(* lose a tick.                                                            *)
LEMMA SetTick ==
  ASSUME OneAtATime, TypeInv, OverwriteInv, SetInv, Tick
  PROVE  SetInv'
<1>1. /\ UNCHANGED <<logins, proc>> /\ stale \subseteq stale'
      /\ \A s \in Sessions : sessions'[s] = Aged(sessions[s])
      /\ \A u \in Users : sets'[u] = IF sets[u].left <= 1 THEN EmptySet
                                     ELSE [sets[u] EXCEPT !.left = @ - 1]
  BY DEF Tick, Missed, drawnVars
<1>2. \A s : User(s)' = User(s) /\ Life(s)' = Life(s)
  BY <1>1 DEF User, Life
<1>3. \A u : Of(u)' = Of(u) /\ (Uniform(u)' <=> Uniform(u))
  BY <1>1, <1>2 DEF Of, Uniform, Drawn
<1>4. ASSUME NEW s \in Sessions, Present(s)'
      PROVE  /\ Present(s) /\ s \in Drawn
             /\ sessions[s].left \in Nat /\ sessions[s].left > 1
             /\ sessions'[s].left = sessions[s].left - 1
  <2>1. sessions[s] # None
    BY <1>1, <1>4 DEF Present, Aged
  <2>2. Present(s) /\ s \in Drawn
    BY <1>1, <1>4, <2>1 DEF Present, Drawn
  <2>3. sessions[s].left # Never /\ sessions[s] \in Keys
    BY <2>1, <2>2 DEF OverwriteInv, Present, TypeInv, StoreType
  <2>4. sessions[s].left \in Nat
    BY <2>3 DEF Keys
  <2>5. ~(sessions[s].left <= 1)
    BY <1>1, <1>4, <2>1, <2>3 DEF Present, Aged
  <2>6. sessions'[s] = [sessions[s] EXCEPT !.left = @ - 1]
    BY <1>1, <2>1, <2>3, <2>5 DEF Aged
  <2>7. sessions'[s].left = sessions[s].left - 1
    BY <2>3, <2>6 DEF Keys
  <2>. QED  BY <2>2, <2>4, <2>5, <2>7
<1>5. Bounded'
  <2>. SUFFICES ASSUME NEW s \in Sessions, Present(s)' PROVE sessions'[s].left <= Life(s)
    BY <1>2 DEF Bounded
  <2>1. sessions[s].left <= Life(s)
    BY <1>4 DEF SetInv, Bounded
  <2>2. Life(s) \in Nat
    BY <1>4, DrawnType, DomainAssumption DEF TypeInv
  <2>. QED  BY <1>4, <2>1, <2>2
<1>6. Cover'
  <2>. SUFFICES ASSUME NEW u \in Users, Uniform(u), NEW s \in Of(u), Present(s)', ~Enlisting(s)
                PROVE  Covered(s)'
    BY <1>1, <1>3 DEF Cover, Enlisting
  <2>1. s \in Sessions /\ User(s) = u
    BY DEF Of, Drawn
  <2>2. Covered(s)
    BY <1>4, <2>1 DEF SetInv, Cover
  <2>3. /\ s \in sets[u].members /\ sessions[s].left <= sets[u].left
        /\ sets[u].left \in Nat /\ sets[u] \in SetKeys
    BY <2>1, <2>2 DEF Covered, TypeInv, StoreType, SetKeys
  <2>4. sets[u].left > 1
    BY <1>4, <2>1, <2>3
  <2>5. sets'[u].members = sets[u].members /\ sets'[u].left = sets[u].left - 1
    <3>1. ~(sets[u].left <= 1)
      BY <2>3, <2>4
    <3>2. sets'[u] = [sets[u] EXCEPT !.left = @ - 1]
      BY <1>1, <3>1
    <3>. QED  BY <2>3, <3>2 DEF SetKeys
  <2>. QED  BY <1>2, <1>4, <2>1, <2>3, <2>5 DEF Covered
<1>7. \A s \in Sessions : sessions[s] = None => sessions'[s] = None
  BY <1>1 DEF Aged
<1>8. ASSUME NEW p \in Procs PROVE Recalls(p)'
  <2>1. Recalls(p) /\ proc'[p] = proc[p]
    BY <1>1 DEF SetInv
  <2>2. \A s \in proc[p].list : s \in Sessions
    BY DEF TypeInv, ProcType, Requests
  <2>3. \A u : \A s \in Of(u) : Present(s)' => Present(s)
    BY <1>4 DEF Of, Drawn
  <2>. QED  BY <1>2, <1>3, <1>7, <2>1, <2>2, <2>3 DEF Recalls
<1>. QED  BY <1>5, <1>6, <1>8 DEF SetInv

-----------------------------------------------------------------------------
LEMMA SetInit == ASSUME Init PROVE SetInv
<1>1. \A s \in Sessions : sessions[s] = None
  BY DEF Init
<1>2. \A p \in Procs : proc[p].stage = "idle"
  BY DEF Init, Idle
<1>3. \A s \in Sessions : ~Present(s)
  BY <1>1 DEF Present
<1>4. Bounded /\ Cover
  BY <1>3 DEF Bounded, Cover, Of, Drawn
<1>. QED  BY <1>2, <1>4 DEF SetInv, Recalls

LEMMA SetNext ==
  ASSUME OneAtATime, Faults = FALSE, TypeInv, OverwriteInv, SetInv, [Next]_vars
  PROVE  SetInv'
<1>1. CASE UNCHANGED vars
  BY <1>1 DEF vars, SetInv, Bounded, Cover, Covered, Recalls, Uniform, Of, Present, Enlisting,
     Drawn, User, Life, redisVars, drawnVars, historyVars
<1>2. ASSUME NEW p \in Procs, Handle(p) PROVE SetInv'
  BY <1>2, SetOthers, SetCreate, SetEnlist, SetUndo, SetStore, SetKeep, SetDrop, SetMembers,
     SetEach, SetDiscard, SetWipe, SetPrune DEF Handle
<1>. QED  BY <1>1, <1>2, SetReceive, SetTick DEF Next, Fail

(* Requests that do not overlap and do not fail leave a set that knows     *)
(* each session of its user, if all logins of the user want the same life  *)
(* and no session was written back after its end: a revocation of          *)
(* everything, which goes by the set, then finds them all.                 *)
THEOREM SetsCoverSessions ==
  ASSUME OneAtATime, Faults = FALSE, IsFiniteSet(Lives)
  PROVE  Spec => []SetCovers
<1>1. TypeInv /\ SetInv => SetCovers
  <2>. SUFFICES ASSUME TypeInv, SetInv, Quiet, NEW u \in Users,
                       Cardinality({Life(z) : z \in Of(u)}) = 1,
                       NEW s \in Of(u) \ stale, sessions[s] # None
                PROVE  s \in sets[u].members
    BY DEF SetCovers, Of, Drawn
  <2>1. {Life(z) : z \in Of(u)} \subseteq Lives
    BY DrawnType DEF Of, TypeInv
  <2>2. IsFiniteSet({Life(z) : z \in Of(u)})
    BY <2>1, FS_Subset
  <2>3. PICK life : {Life(z) : z \in Of(u)} = {life}
    BY <2>2, FS_Singleton
  <2>4. \A z \in Of(u) : Life(z) = life
    BY <2>3
  <2>5. Uniform(u)
    BY <2>4 DEF Uniform
  <2>6. Present(s) /\ ~Enlisting(s) /\ User(s) = u
    BY DEF Present, Of, Enlisting, Quiet, At
  <2>. QED  BY <2>5, <2>6 DEF SetInv, Cover, Covered
<1>2. Init => TypeInv /\ OverwriteInv /\ SetInv
  <2>1. Init => OverwriteInv
    BY DEF Init, Idle, OverwriteInv
  <2>. QED  BY <2>1, TypeInit, SetInit
<1>3. TypeInv /\ OverwriteInv /\ SetInv /\ [Next]_vars => (TypeInv /\ OverwriteInv /\ SetInv)'
  BY TypeNext, OverwriteNext, SetNext
<1>. QED  BY <1>1, <1>2, <1>3, PTL DEF Spec
=============================================================================
