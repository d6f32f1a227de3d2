--------------------------- MODULE RotationProofs ---------------------------
(***************************************************************************)
(* The rotation of refresh tokens, for every value of the constants: what  *)
(* the lock of RefreshTokens is good for as long as it lasts, whatever     *)
(* fails and in whatever order the requests' calls arrive.                 *)
(***************************************************************************)
EXTENDS SessionsProofs

(* The invariant *)

Serving == {"alive", "spend", "issue"}
Presenting == {"lock", "load", "extend", "store", "retract", "release"} \cup Serving

(* What a request of RefreshTokens knows of the token it presents, and a   *)
(* login of the one it has drawn and nobody has seen.                      *)
HandInv ==
  /\ \A p \in Procs : proc[p].stage \in Presenting => proc[p].token \in given
  /\ \A p \in Procs : proc[p].stage \in Serving => proc[p].sess = source[proc[p].token]
  /\ \A p \in Procs : proc[p].stage \in {"enlist", "grant"} =>
       /\ proc[p].fresh \notin given /\ source[proc[p].fresh] = proc[p].sess
       /\ \A t \in Tokens : source[t] = proc[p].sess => t = proc[p].fresh
  /\ \A p, q \in Procs : p # q /\ proc[p].fresh # None => proc[p].fresh # proc[q].fresh

(* The lock keeps requests that present one token apart until it is spent, *)
(* and nothing brings a spent token back.                                  *)
LockInv ==
  /\ \A p \in Procs : Rotating(p) => proc[p].token \in late \/ Holds(p)
  /\ \A p \in Procs : proc[p].stage = "issue" => tokens[proc[p].token] = 0
  /\ \A t \in Tokens : heirs[t] # {} => tokens[t] = 0 /\ t \in given
  /\ \A p \in Procs : proc[p].stage \in Serving =>
       proc[p].token \in late \/ heirs[proc[p].token] = {}
  /\ \A p, q \in Procs :
       /\ p # q /\ proc[p].stage = "issue" /\ proc[q].stage \in Serving
       /\ proc[p].token = proc[q].token
       => proc[p].token \in late
  /\ \A t \in Tokens \ late : heirs[t] = {} \/ \E h \in Tokens : heirs[t] = {h}

(* Of a session whose rotations were all in time, at most one token lives, *)
(* and it is the one that a rotation at work presents.                     *)
InTime(s) == \A t \in late : source[t] # s
LiveInv ==
  /\ \A t1, t2 \in Tokens :
       /\ tokens[t1] > 0 /\ tokens[t2] > 0 /\ source[t1] = source[t2]
       /\ InTime(source[t1])
       => t1 = t2
  /\ \A p \in Procs, t \in Tokens :
       /\ proc[p].stage \in Serving /\ InTime(proc[p].sess)
       /\ tokens[t] > 0 /\ source[t] = proc[p].sess
       => t = proc[p].token
  /\ \A p, q \in Procs :
       /\ proc[p].stage \in Serving /\ proc[q].stage \in Serving
       /\ proc[p].sess = proc[q].sess /\ InTime(proc[p].sess)
       => proc[p].token = proc[q].token

RotationInv == HandInv /\ LockInv /\ LiveInv

-----------------------------------------------------------------------------
(* Steps that do not matter to a rotation *)

(* Nothing is drawn, given or exchanged, tokens are only deleted, and the  *)
(* request does not take a token up, unless it goes on with the one it has.*)
Calm(p) ==
  /\ UNCHANGED <<source, locks, given, heirs, late>>
  /\ \A t \in Tokens : tokens'[t] > 0 => tokens[t] > 0
  /\ \A q \in Procs \ {p} : proc'[q] = proc[q]
  /\ proc'[p].fresh \in {proc[p].fresh, None}
  /\ proc'[p].stage \notin {"enlist", "load", "alive", "issue"}
  /\ proc'[p].stage = "grant" =>
       proc[p].stage = "enlist" /\ proc'[p].sess = proc[p].sess /\ proc'[p].fresh = proc[p].fresh
  /\ proc'[p].stage = "spend" =>
       proc[p].stage = "alive" /\ proc'[p].sess = proc[p].sess /\ proc'[p].token = proc[p].token
  /\ proc'[p].stage \in Presenting => proc'[p].token \in given

(* What Calm asks of the record a request moves on to.                     *)
Harmless(r, q) ==
  /\ r.fresh \in {q.fresh, None}
  /\ r.stage \notin {"enlist", "load", "alive", "issue"}
  /\ r.stage = "grant" => q.stage = "enlist" /\ r.sess = q.sess /\ r.fresh = q.fresh
  /\ r.stage = "spend" => q.stage = "alive" /\ r.sess = q.sess /\ r.token = q.token
  /\ r.stage \in Presenting => r.token \in given

LEMMA CalmMove ==
  ASSUME TypeInv, NEW p \in Procs, NEW r, Goes(p, r), Harmless(r, proc[p]),
         UNCHANGED <<source, locks, given, heirs, late>>,
         \A t \in Tokens : tokens'[t] > 0 => tokens[t] > 0
  PROVE Calm(p)
  BY DEF Goes, TypeInv, ProcType, Calm, Harmless

LEMMA CalmFinish ==
  ASSUME TypeInv, NEW p \in Procs, Finish(p),
         UNCHANGED <<source, locks, given, heirs, late>>,
         \A t \in Tokens : tokens'[t] > 0 => tokens[t] > 0
  PROVE Calm(p)
<1>1. Harmless(Idle, proc[p])
  BY DEF Harmless, Idle, Presenting, Serving
<1>. QED BY <1>1, CalmMove DEF Finish

(* A request leaves a stage for one that presents no token.                *)
LEMMA CalmTo ==
  ASSUME TypeInv, NEW p \in Procs, NEW st \in Stages, To(p, st),
         st \notin Presenting \cup {"enlist", "grant"},
         UNCHANGED <<source, locks, given, heirs, late>>,
         \A t \in Tokens : tokens'[t] > 0 => tokens[t] > 0
  PROVE Calm(p)
<1>1. Harmless([proc[p] EXCEPT !.stage = st], proc[p])
  BY HandOf DEF Harmless, TypeInv, Hand, Requests, Presenting, Serving
<1>. QED BY <1>1, CalmMove DEF To

LEMMA CalmReceive ==
  ASSUME TypeInv, NEW p \in Procs, NEW op \in Ops, Receive(p, op)
  PROVE Calm(p)
<1>1. PICK user \in Users \cup {None}, sess \in Sessions \cup {None},
           token \in Tokens \cup {None}, life \in Lives \cup {None} :
        WellFormed(op, user, sess, token, life) /\ Goes(p, Request(op, user, sess, token, life))
  BY DEF Receive
<1>. DEFINE r == Request(op, user, sess, token, life)
<1>2. r.stage = FirstStage(op) /\ r.token = token /\ r.fresh = None
  BY DEF Request
<1>3. r.stage \in Presenting => token \in given
  BY <1>1, <1>2, FirstStageType, NullAssumption DEF WellFormed, Presenting, Serving
<1>4. Harmless(r, proc[p])
  BY <1>2, <1>3, FirstStageType DEF Harmless, Presenting, Serving
<1>. QED BY <1>1, <1>4, CalmMove DEF Receive, redisVars, drawnVars, historyVars

(* Steps of other operations than the exchange of tokens.                  *)
LEMMA CalmOthers ==
  ASSUME TypeInv, NEW p \in Procs,
         Account(p) \/ Undo(p) \/ Forget(p) \/ Erase(p) \/ Keep(p) \/ Prune(p)
           \/ Drop(p) \/ Discard(p) \/ Wipe(p) \/ Unsweep(p)
  PROVE Calm(p)
<1>1. ASSUME Account(p) PROVE Calm(p)
  BY <1>1, CalmFinish, CalmTo DEF Account, Stages, Presenting, Serving, redisVars,
     drawnVars, historyVars
<1>2. ASSUME Undo(p) PROVE Calm(p)
  BY <1>2, CalmFinish DEF Undo, drawnVars
<1>3. ASSUME Forget(p) PROVE Calm(p)
  <2>1. Harmless([proc[p] EXCEPT !.stage = "find", !.op = "revoke"], proc[p])
    BY HandOf DEF Harmless, TypeInv, Hand, Requests, Presenting, Serving
  <2>2. \A t \in Tokens : tokens'[t] > 0 => tokens[t] > 0
    BY <1>3 DEF Forget, TypeInv, StoreType
  <2>. QED BY <1>3, <2>1, <2>2, CalmMove DEF Forget, drawnVars, historyVars
<1>4. ASSUME Erase(p) PROVE Calm(p)
  BY <1>4, CalmFinish, CalmTo DEF Erase, Stages, Presenting, Serving, redisVars,
     drawnVars, historyVars
<1>5. ASSUME Keep(p) PROVE Calm(p)
  BY <1>5, CalmFinish DEF Keep, drawnVars, historyVars
<1>6. ASSUME Prune(p) PROVE Calm(p)
  BY <1>6, CalmFinish DEF Prune, drawnVars, historyVars
<1>7. ASSUME Drop(p) PROVE Calm(p)
  <2>1. \A t \in Tokens : tokens'[t] > 0 => tokens[t] > 0
    BY <1>7 DEF Drop, TypeInv, StoreType
  <2>. QED BY <1>7, <2>1, CalmFinish, CalmTo DEF Drop, Stages, Presenting, Serving, drawnVars
<1>8. ASSUME Wipe(p) PROVE Calm(p)
  <2>1. \A t \in Tokens : tokens'[t] > 0 => tokens[t] > 0
    BY <1>8, TokensGone DEF Wipe, TypeInv
  <2>. QED BY <1>8, <2>1, CalmFinish, CalmTo DEF Wipe, Stages, Presenting, Serving, drawnVars
<1>9. ASSUME Unsweep(p) PROVE Calm(p)
  <2>1. \A t \in Tokens : tokens'[t] > 0 => tokens[t] > 0
    BY <1>9, TokensGone DEF Unsweep, TypeInv
  <2>. QED BY <1>9, <2>1, CalmFinish DEF Unsweep, drawnVars, historyVars
<1>10. ASSUME Discard(p) PROVE Calm(p)
  BY <1>10, CalmTo DEF Discard, Stages, Presenting, Serving, drawnVars, historyVars
<1>. QED BY <1>1, <1>2, <1>3, <1>4, <1>5, <1>6, <1>7, <1>8, <1>9, <1>10

LEMMA CalmReads ==
  ASSUME TypeInv, NEW p \in Procs,
         Beat(p) \/ Find(p) \/ Members(p) \/ Each(p) \/ Sweep(p)
  PROVE Calm(p)
<1>. DEFINE r == proc[p]
<1>1. r \in Requests
  BY DEF TypeInv, ProcType
<1>2. UNCHANGED <<source, locks, given, heirs, late, tokens>>
  BY DEF Beat, Find, Members, Each, Sweep, redisVars, drawnVars, historyVars
<1>3. ASSUME Beat(p) PROVE Calm(p)
  <2>. DEFINE t == sessions[r.sess].token
              x == [r EXCEPT !.stage = "keep", !.seen = t]
  <2>1. x.stage = "keep" /\ x.fresh = r.fresh
    BY <1>1 DEF Requests
  <2>2. Harmless(x, r)
    BY <2>1 DEF Harmless, Presenting, Serving
  <2>. QED BY <1>2, <1>3, <2>2, CalmMove, CalmFinish DEF Beat
<1>4. ASSUME Find(p) PROVE Calm(p)
  <2>. DEFINE t == sessions[r.sess].token
              x == [r EXCEPT !.stage = "drop", !.seen = t]
  <2>1. x.stage = "drop" /\ x.fresh = r.fresh
    BY <1>1 DEF Requests
  <2>2. Harmless(x, r)
    BY <2>1 DEF Harmless, Presenting, Serving
  <2>. QED BY <1>2, <1>4, <2>2, CalmMove, CalmFinish, CalmTo
           DEF Find, Stages, Presenting, Serving
<1>5. ASSUME Members(p) PROVE Calm(p)
  <2>. DEFINE todo == sets[r.user].members \ (IF r.op = "others" THEN {r.sess} ELSE {})
              list == IF r.op = "list" THEN {} ELSE todo
              x == [r EXCEPT !.stage = "each", !.todo = todo, !.list = list]
  <2>1. Goes(p, x) \/ To(p, "discard") \/ Finish(p)
    BY <1>5 DEF Members
  <2>. HIDE DEF todo, list
  <2>2. x.stage = "each" /\ x.fresh = r.fresh
    BY <1>1 DEF Requests
  <2>3. Harmless(x, r)
    BY <2>2 DEF Harmless, Presenting, Serving
  <2>. HIDE DEF x
  <2>. QED BY <1>2, <2>1, <2>3, CalmMove, CalmFinish, CalmTo DEF Stages, Presenting, Serving
<1>6. ASSUME Each(p) PROVE Calm(p)
  <2>1. PICK todo, list, doom, after :
          /\ Goes(p, [r EXCEPT !.todo = todo, !.list = list, !.stage = after, !.doom = doom])
          /\ after \in {"each", "wipe", "prune"}
    BY <1>6 DEF Each
  <2>. DEFINE x == [r EXCEPT !.todo = todo, !.list = list, !.stage = after, !.doom = doom]
  <2>2. x.stage = after /\ x.fresh = r.fresh
    BY <1>1 DEF Requests
  <2>3. Harmless(x, r)
    BY <2>1, <2>2 DEF Harmless, Presenting, Serving
  <2>. QED BY <1>2, <2>1, <2>3, CalmMove
<1>7. ASSUME Sweep(p) PROVE Calm(p)
  <2>1. PICK found :
          Goes(p, [r EXCEPT !.stage = "unsweep", !.doom = found]) \/ Finish(p)
    BY <1>7 DEF Sweep
  <2>. DEFINE x == [r EXCEPT !.stage = "unsweep", !.doom = found]
  <2>2. x.stage = "unsweep" /\ x.fresh = r.fresh
    BY <1>1 DEF Requests
  <2>3. Harmless(x, r)
    BY <2>2 DEF Harmless, Presenting, Serving
  <2>. QED BY <1>2, <2>1, <2>3, CalmMove, CalmFinish
<1>. QED BY <1>3, <1>4, <1>5, <1>6, <1>7

(* Steps of a login or a rotation that take no token up.                   *)
LEMMA CalmExchange ==
  ASSUME TypeInv, HandInv, NEW p \in Procs,
         Enlist(p) \/ Alive(p) \/ Extend(p) \/ Store(p) \/ Retract(p)
  PROVE Calm(p)
<1>. DEFINE r == proc[p]
<1>1. r \in Requests
  BY DEF TypeInv, ProcType
<1>2. r.stage \in Presenting => r.token \in given
  BY DEF HandInv
<1>3. \A st \in Stages : LET x == [r EXCEPT !.stage = st]
                         IN /\ x.stage = st /\ x.fresh = r.fresh
                            /\ x.sess = r.sess /\ x.token = r.token
  BY <1>1 DEF Requests
<1>4. UNCHANGED <<source, locks, given, heirs, late>>
  BY DEF Enlist, Alive, Extend, Store, Retract, redisVars, drawnVars, historyVars
<1>5. ASSUME Enlist(p) PROVE Calm(p)
  <2>1. Harmless([r EXCEPT !.stage = "grant"], r)
    BY <1>3, <1>5 DEF Harmless, Presenting, Serving, Stages, Enlist, At
  <2>. QED BY <1>4, <1>5, <2>1, CalmMove DEF Enlist, To
<1>6. ASSUME Alive(p) PROVE Calm(p)
  <2>1. \A st \in {"spend", "release"} : Harmless([r EXCEPT !.stage = st], r)
    BY <1>2, <1>3, <1>6 DEF Harmless, Presenting, Serving, Stages, Alive, At
  <2>. QED BY <1>4, <1>6, <2>1, CalmMove DEF Alive, To, redisVars
<1>7. ASSUME Extend(p) PROVE Calm(p)
  <2>1. \A st \in {"store", "retract"} : Harmless([r EXCEPT !.stage = st], r)
    BY <1>2, <1>3, <1>7 DEF Harmless, Presenting, Serving, Stages, Extend, At
  <2>. QED BY <1>4, <1>7, <2>1, CalmMove DEF Extend, To, redisVars
<1>8. ASSUME Store(p) PROVE Calm(p)
  <2>1. Harmless([r EXCEPT !.stage = "release"], r)
    BY <1>2, <1>3, <1>8 DEF Harmless, Presenting, Serving, Stages, Store, At
  <2>. QED BY <1>4, <1>8, <2>1, CalmMove DEF Store, To
<1>9. ASSUME Retract(p) PROVE Calm(p)
  <2>. DEFINE x == [r EXCEPT !.stage = "release", !.fresh = None]
  <2>1. x.stage = "release" /\ x.fresh = None /\ x.token = r.token
    BY <1>1 DEF Requests
  <2>2. Harmless(x, r)
    BY <1>2, <1>9, <2>1 DEF Harmless, Presenting, Serving, Retract, At
  <2>3. \A t \in Tokens : tokens'[t] > 0 => tokens[t] > 0
    BY <1>9 DEF Retract, Unchecked, TypeInv, StoreType
  <2>. QED BY <1>4, <1>9, <2>2, <2>3, CalmMove DEF Retract
<1>. QED BY <1>5, <1>6, <1>7, <1>8, <1>9

LEMMA CalmFail ==
  ASSUME TypeInv, HandInv, NEW p \in Procs, Fail(p)
  PROVE Calm(p)
<1>. DEFINE r == proc[p]
<1>1. r \in Requests
  BY DEF TypeInv, ProcType
<1>2. r.stage \in Presenting => r.token \in given
  BY DEF HandInv
<1>3. UNCHANGED <<source, locks, given, heirs, late, tokens>>
  BY DEF Fail, redisVars, drawnVars, historyVars
<1>4. ASSUME NEW f \in Failures, r.stage = f[1],
             Goes(p, [r EXCEPT !.stage = f[2], !.op = IF @ = "login" THEN "revoke" ELSE @,
                               !.fresh = IF f[2] = "release" THEN None ELSE @])
      PROVE Calm(p)
  <2>. DEFINE op == IF r.op = "login" THEN "revoke" ELSE r.op
              fresh == IF f[2] = "release" THEN None ELSE r.fresh
              x == [r EXCEPT !.stage = f[2], !.op = op, !.fresh = fresh]
  <2>1. fresh \in {r.fresh, None}
    OBVIOUS
  <2>2. Goes(p, x)
    BY <1>4
  <2>. HIDE DEF op, fresh
  <2>3. x.stage = f[2] /\ x.fresh = fresh /\ x.token = r.token
    BY <1>1 DEF Requests
  <2>. HIDE DEF x
  <2>4. Harmless(x, r)
    BY <1>2, <1>4, <2>1, <2>3 DEF Harmless, Failures, Presenting, Serving
  <2>. QED BY <1>3, <2>2, <2>4, CalmMove
<1>5. ASSUME To(p, "forget") PROVE Calm(p)
  BY <1>3, <1>5, CalmTo DEF Stages, Presenting, Serving
<1>6. ASSUME Finish(p) PROVE Calm(p)
  BY <1>3, <1>6, CalmFinish
<1>. QED BY <1>4, <1>5, <1>6 DEF Fail, At

-----------------------------------------------------------------------------
(* The invariant is kept                                                   *)

(* Tokens that requests present have been given, so they were drawn.       *)
LEMMA GivenType ==
  ASSUME TypeInv
  PROVE given \subseteq Named /\ late \subseteq Named /\ Named \subseteq Tokens
  BY DEF TypeInv, StoreType, DrawInv, Named

(* Who is late stays late, and what was drawn stays drawn, so a session in *)
(* time after a step was in time before it.                                *)
LEMMA InTimeBefore ==
  ASSUME TypeInv, late \subseteq late', \A t \in Named : source'[t] = source[t],
         NEW s, InTime(s)'
  PROVE InTime(s)
  BY GivenType DEF InTime

LEMMA HandCalm ==
  ASSUME TypeInv, HandInv, NEW p \in Procs, Calm(p) PROVE HandInv'
<1>1. \A q \in Procs : proc'[q].stage \in Presenting => proc'[q].token \in given'
  BY DEF HandInv, Calm
<1>2. \A q \in Procs : proc'[q].stage \in Serving => proc'[q].sess = source'[proc'[q].token]
  BY DEF HandInv, Calm, Serving
<1>3. \A q \in Procs : proc'[q].stage \in {"enlist", "grant"} =>
         /\ proc'[q].fresh \notin given' /\ source'[proc'[q].fresh] = proc'[q].sess
         /\ \A t \in Tokens : source'[t] = proc'[q].sess => t = proc'[q].fresh
  BY DEF HandInv, Calm
<1>4. \A q1, q2 \in Procs :
         q1 # q2 /\ proc'[q1].fresh # None => proc'[q1].fresh # proc'[q2].fresh
  BY DEF HandInv, Calm
<1>. QED BY <1>1, <1>2, <1>3, <1>4 DEF HandInv

LEMMA LockCalm ==
  ASSUME TypeInv, TypeInv', HandInv, LockInv, NEW p \in Procs, Calm(p) PROVE LockInv'
<1>1. \A t \in Tokens : tokens[t] = 0 => tokens'[t] = 0
  BY DEF Calm, TypeInv, StoreType
<1>2. \A q \in Procs : proc'[q].stage \in Serving =>
         /\ proc[q].stage \in Serving /\ proc'[q].token = proc[q].token
         /\ proc[q].token \in Tokens
         /\ proc'[q].stage = "issue" => proc[q].stage = "issue"
  BY GivenType DEF Calm, Serving, HandInv, Presenting
<1>3. \A q \in Procs : Rotating(q)' =>
         proc'[q].token = proc[q].token /\ Rotating(q)
  BY DEF Calm, Rotating
<1>4. \A q \in Procs : Rotating(q)' => proc'[q].token \in late' \/ Holds(q)'
  BY <1>3 DEF LockInv, Calm, Holds
<1>5. \A q \in Procs : proc'[q].stage = "issue" => tokens'[proc'[q].token] = 0
  BY <1>1, <1>2 DEF LockInv, Serving
<1>6. \A t \in Tokens : heirs'[t] # {} => tokens'[t] = 0 /\ t \in given'
  BY <1>1 DEF LockInv, Calm
<1>7. \A q \in Procs : proc'[q].stage \in Serving =>
         proc'[q].token \in late' \/ heirs'[proc'[q].token] = {}
  BY <1>2 DEF LockInv, Calm
<1>8. \A q1, q2 \in Procs :
         /\ q1 # q2 /\ proc'[q1].stage = "issue" /\ proc'[q2].stage \in Serving
         /\ proc'[q1].token = proc'[q2].token
         => proc'[q1].token \in late'
  BY <1>2 DEF LockInv, Calm, Serving
<1>9. \A t \in Tokens \ late' : heirs'[t] = {} \/ \E h \in Tokens : heirs'[t] = {h}
  BY DEF LockInv, Calm
<1>. QED BY <1>4, <1>5, <1>6, <1>7, <1>8, <1>9 DEF LockInv

(* A step that brings no token to life and takes none up.                  *)
LEMMA LiveKept ==
  ASSUME TypeInv, LiveInv, late \subseteq late', UNCHANGED source,
         \A t \in Tokens : tokens'[t] > 0 => tokens[t] > 0,
         \A q \in Procs : proc'[q].stage \in Serving =>
            /\ proc[q].stage \in Serving
            /\ proc'[q].sess = proc[q].sess /\ proc'[q].token = proc[q].token
  PROVE LiveInv'
<1>1. \A s : InTime(s)' => InTime(s)
  BY DEF InTime
<1>2. ASSUME NEW t1 \in Tokens, NEW t2 \in Tokens, tokens'[t1] > 0, tokens'[t2] > 0,
             source'[t1] = source'[t2], InTime(source[t1])'
      PROVE t1 = t2
  BY <1>1, <1>2 DEF LiveInv
<1>3. ASSUME NEW q \in Procs, NEW t \in Tokens, proc'[q].stage \in Serving,
             InTime(proc[q].sess)', tokens'[t] > 0, source'[t] = proc'[q].sess
      PROVE t = proc'[q].token
  <2>1. InTime(proc[q].sess)
    BY <1>1, <1>3 DEF InTime
  <2>. QED BY <1>3, <2>1 DEF LiveInv
<1>4. ASSUME NEW q1 \in Procs, NEW q2 \in Procs, proc'[q1].stage \in Serving,
             proc'[q2].stage \in Serving, proc'[q1].sess = proc'[q2].sess,
             InTime(proc[q1].sess)'
      PROVE proc'[q1].token = proc'[q2].token
  <2>1. InTime(proc[q1].sess)
    BY <1>1, <1>4 DEF InTime
  <2>. QED BY <1>4, <2>1 DEF LiveInv
<1>. QED BY <1>2, <1>3, <1>4 DEF LiveInv

LEMMA LiveCalm ==
  ASSUME TypeInv, LiveInv, NEW p \in Procs, Calm(p) PROVE LiveInv'
<1>1. \A q \in Procs : proc'[q].stage \in Serving =>
         /\ proc[q].stage \in Serving
         /\ proc'[q].sess = proc[q].sess /\ proc'[q].token = proc[q].token
  BY DEF Calm, Serving
<1>. QED BY <1>1, LiveKept DEF Calm

(* Steps that touch only requests that present no token they could spend.  *)
LEMMA RotationCalm ==
  ASSUME TypeInv, TypeInv', RotationInv, NEW p \in Procs, Calm(p)
  PROVE RotationInv'
  BY HandCalm, LockCalm, LiveCalm DEF RotationInv

(* A login draws a session and a token that nobody knows.                  *)
LEMMA RotationCreate ==
  ASSUME TypeInv, TypeInv', RotationInv, NEW p \in Procs, Create(p)
  PROVE RotationInv'
<1>1. PICK s \in SpareSessions, t \in SpareTokens :
        /\ source' = [source EXCEPT ![t] = s]
        /\ Goes(p, [proc[p] EXCEPT !.stage = "enlist", !.sess = s, !.fresh = t])
  BY DEF Create
<1>2. /\ s \in Sessions /\ s \notin Drawn /\ s # None
      /\ t \in Tokens /\ t \notin Named /\ t # None
  BY NullAssumption DEF SpareSessions, SpareTokens, Drawn, Named
<1>3. /\ proc'[p].stage = "enlist" /\ proc'[p].sess = s /\ proc'[p].fresh = t
      /\ \A q \in Procs \ {p} : proc'[q] = proc[q]
  BY <1>1, <1>2 DEF Goes, TypeInv, ProcType, Requests
<1>4. /\ UNCHANGED <<tokens, locks, given, heirs, late>>
      /\ source'[t] = s /\ \A x \in Tokens \ {t} : source'[x] = source[x]
  BY <1>1, <1>2 DEF Create, TypeInv, StoreType, historyVars
<1>5. /\ t \notin given \cup late /\ tokens[t] = 0
      /\ \A x \in Tokens : source[x] # s
      /\ \A q \in Procs : proc[q].fresh # t /\ proc[q].sess # s /\ proc[q].token # t
  BY <1>2 DEF TypeInv, StoreType, ProcType, DrawInv, Hand, Named
<1>6. \A q \in Procs : proc'[q].stage \in Presenting \cup {"issue"} => q # p
  BY <1>3 DEF Presenting, Serving
<1>7. HandInv'
  <2>1. \A q \in Procs : proc'[q].stage \in Presenting => proc'[q].token \in given'
    BY <1>3, <1>4, <1>6 DEF RotationInv, HandInv
  <2>2. \A q \in Procs : proc'[q].stage \in Serving => proc'[q].sess = source'[proc'[q].token]
    BY <1>3, <1>4, <1>5, <1>6, GivenType DEF RotationInv, HandInv, Presenting
  <2>3. ASSUME NEW q \in Procs, proc'[q].stage \in {"enlist", "grant"}
        PROVE /\ proc'[q].fresh \notin given' /\ source'[proc'[q].fresh] = proc'[q].sess
              /\ \A x \in Tokens : source'[x] = proc'[q].sess => x = proc'[q].fresh
    <3>1. CASE q = p
      BY <1>3, <1>4, <1>5, <3>1
    <3>2. CASE q # p
      <4>1. proc[q].fresh \in Tokens
        BY <1>3, <2>3, <3>2, HandOf DEF TypeInv, Hand
      <4>. QED BY <1>3, <1>4, <1>5, <2>3, <3>2, <4>1 DEF RotationInv, HandInv
    <3>. QED BY <3>1, <3>2
  <2>4. \A q1, q2 \in Procs :
           q1 # q2 /\ proc'[q1].fresh # None => proc'[q1].fresh # proc'[q2].fresh
    BY <1>3, <1>5 DEF RotationInv, HandInv
  <2>. QED BY <2>1, <2>2, <2>3, <2>4 DEF HandInv
<1>8. LockInv'
  BY <1>3, <1>4, <1>6 DEF RotationInv, LockInv, Rotating, Holds, Presenting, Serving
<1>9. LiveInv'
  <2>1. \A x : InTime(x)' => InTime(x)
    BY <1>2, <1>4, GivenType DEF InTime
  <2>2. \A x \in Tokens : tokens'[x] > 0 => x # t /\ tokens[x] > 0 /\ source'[x] = source[x]
    BY <1>4, <1>5
  <2>3. \A q \in Procs : proc'[q].stage \in Serving => q # p /\ proc'[q] = proc[q]
    BY <1>3, <1>6 DEF Presenting
  <2>4. ASSUME NEW t1 \in Tokens, NEW t2 \in Tokens, tokens'[t1] > 0, tokens'[t2] > 0,
               source'[t1] = source'[t2], InTime(source[t1])'
        PROVE t1 = t2
    BY <2>1, <2>2, <2>4 DEF RotationInv, LiveInv
  <2>5. ASSUME NEW q \in Procs, NEW x \in Tokens, proc'[q].stage \in Serving,
               InTime(proc[q].sess)', tokens'[x] > 0, source'[x] = proc'[q].sess
        PROVE x = proc'[q].token
    BY <2>1, <2>2, <2>3, <2>5 DEF RotationInv, LiveInv
  <2>6. ASSUME NEW q1 \in Procs, NEW q2 \in Procs, proc'[q1].stage \in Serving,
               proc'[q2].stage \in Serving, proc'[q1].sess = proc'[q2].sess,
               InTime(proc[q1].sess)'
        PROVE proc'[q1].token = proc'[q2].token
    BY <2>1, <2>3, <2>6 DEF RotationInv, LiveInv
  <2>. QED BY <2>4, <2>5, <2>6 DEF LiveInv
<1>. QED BY <1>7, <1>8, <1>9 DEF RotationInv

(* Its token comes to life as the first one of its session.                *)
LEMMA RotationGrant ==
  ASSUME TypeInv, TypeInv', RotationInv, NEW p \in Procs, Grant(p)
  PROVE RotationInv'
<1>. DEFINE t == proc[p].fresh
<1>1. /\ proc[p].stage = "grant" /\ t \in Tokens /\ t \notin given /\ t # None
      /\ source[t] = proc[p].sess
      /\ \A x \in Tokens : source[x] = source[t] => x = t
  BY HandOf, NullAssumption DEF Grant, At, RotationInv, HandInv, TypeInv, Hand
<1>2. /\ proc'[p].stage \in {"idle", "find"} /\ proc'[p].fresh \in {t, None}
      /\ \A q \in Procs \ {p} : proc'[q] = proc[q]
      /\ proc'[p].stage = "find" => given' = given
  <2>1. CASE Finish(p)
    BY <2>1 DEF Finish, Goes, Idle, TypeInv, ProcType
  <2>2. CASE Goes(p, [proc[p] EXCEPT !.stage = "find", !.op = "revoke"]) /\ UNCHANGED given
    BY <2>2 DEF Goes, TypeInv, ProcType, Requests
  <2>. QED BY <2>1, <2>2 DEF Grant
<1>3. /\ UNCHANGED <<source, locks, heirs, late>>
      /\ \A x \in Tokens \ {t} : tokens'[x] = tokens[x]
      /\ given' \in {given, given \cup {t}}
  BY <1>1 DEF Grant, TypeInv, StoreType, drawnVars
<1>4. \A q \in Procs : proc'[q].stage \in Presenting \cup {"enlist", "grant"}
         => q # p /\ proc'[q] = proc[q]
  BY <1>2 DEF Presenting, Serving
<1>5. HandInv'
  <2>1. \A q \in Procs : proc'[q].stage \in Presenting => proc'[q].token \in given'
    BY <1>3, <1>4 DEF RotationInv, HandInv
  <2>2. \A q \in Procs : proc'[q].stage \in Serving => proc'[q].sess = source'[proc'[q].token]
    BY <1>3, <1>4 DEF RotationInv, HandInv, Presenting
  <2>3. \A q \in Procs : proc'[q].stage \in {"enlist", "grant"} =>
           /\ proc'[q].fresh \notin given' /\ source'[proc'[q].fresh] = proc'[q].sess
           /\ \A x \in Tokens : source'[x] = proc'[q].sess => x = proc'[q].fresh
    BY <1>1, <1>3, <1>4 DEF RotationInv, HandInv
  <2>4. \A q1, q2 \in Procs :
           q1 # q2 /\ proc'[q1].fresh # None => proc'[q1].fresh # proc'[q2].fresh
    BY <1>2 DEF RotationInv, HandInv
  <2>. QED BY <2>1, <2>2, <2>3, <2>4 DEF HandInv
<1>6. \A q \in Procs : proc'[q].stage \in Presenting => proc[q].token \in given /\ proc[q].token # t
  BY <1>1, <1>4 DEF RotationInv, HandInv
<1>7. LockInv'
  <2>1. \A q \in Procs : Rotating(q)' => proc'[q].token \in late' \/ Holds(q)'
    BY <1>3, <1>4 DEF RotationInv, LockInv, Rotating, Holds, Presenting, Serving
  <2>2. \A q \in Procs : proc'[q].stage = "issue" => tokens'[proc'[q].token] = 0
    BY <1>3, <1>4, <1>6, GivenType DEF RotationInv, LockInv, Presenting, Serving
  <2>3. \A x \in Tokens : heirs'[x] # {} => tokens'[x] = 0 /\ x \in given'
    BY <1>1, <1>3 DEF RotationInv, LockInv
  <2>4. \A q \in Procs : proc'[q].stage \in Serving =>
           proc'[q].token \in late' \/ heirs'[proc'[q].token] = {}
    BY <1>3, <1>4 DEF RotationInv, LockInv, Presenting
  <2>5. \A q1, q2 \in Procs :
           /\ q1 # q2 /\ proc'[q1].stage = "issue" /\ proc'[q2].stage \in Serving
           /\ proc'[q1].token = proc'[q2].token
           => proc'[q1].token \in late'
    BY <1>3, <1>4 DEF RotationInv, LockInv, Presenting, Serving
  <2>6. \A x \in Tokens \ late' : heirs'[x] = {} \/ \E h \in Tokens : heirs'[x] = {h}
    BY <1>3 DEF RotationInv, LockInv
  <2>. QED BY <2>1, <2>2, <2>3, <2>4, <2>5, <2>6 DEF LockInv
<1>8. LiveInv'
  <2>1. \A x : InTime(x)' => InTime(x)
    BY <1>3 DEF InTime
  <2>2. ASSUME NEW t1 \in Tokens, NEW t2 \in Tokens, tokens'[t1] > 0, tokens'[t2] > 0,
               source'[t1] = source'[t2], InTime(source[t1])'
        PROVE t1 = t2
    <3>1. CASE t1 = t \/ t2 = t
      BY <1>1, <1>3, <2>2, <3>1
    <3>2. CASE t1 # t /\ t2 # t
      BY <1>3, <2>1, <2>2, <3>2 DEF RotationInv, LiveInv
    <3>. QED BY <3>1, <3>2
  <2>3. ASSUME NEW q \in Procs, NEW x \in Tokens, proc'[q].stage \in Serving,
               InTime(proc[q].sess)', tokens'[x] > 0, source'[x] = proc'[q].sess
        PROVE x = proc'[q].token
    <3>1. proc'[q] = proc[q] /\ proc[q].token \in Tokens /\ proc[q].token # t
      BY <1>4, <1>6, <2>3, GivenType DEF Presenting
    <3>2. source[proc[q].token] = proc[q].sess
      BY <2>3, <3>1 DEF RotationInv, HandInv
    <3>3. x # t
      BY <1>1, <1>3, <2>3, <3>1, <3>2
    <3>. QED BY <1>3, <2>1, <2>3, <3>1, <3>3 DEF RotationInv, LiveInv
  <2>4. ASSUME NEW q1 \in Procs, NEW q2 \in Procs, proc'[q1].stage \in Serving,
               proc'[q2].stage \in Serving, proc'[q1].sess = proc'[q2].sess,
               InTime(proc[q1].sess)'
        PROVE proc'[q1].token = proc'[q2].token
    BY <1>4, <2>1, <2>4 DEF RotationInv, LiveInv, Presenting
  <2>. QED BY <2>2, <2>3, <2>4 DEF LiveInv
<1>. QED BY <1>5, <1>7, <1>8 DEF RotationInv

(* The lock goes to one request, and a request without it goes away.       *)
LEMMA RotationAcquire ==
  ASSUME TypeInv, TypeInv', RotationInv, NEW p \in Procs, Acquire(p)
  PROVE RotationInv'
<1>. DEFINE t == proc[p].token
<1>1. /\ UNCHANGED <<source, given, heirs, late, tokens>>
      /\ proc[p].stage = "lock" /\ t \in Tokens /\ t \in given
  BY HandOf DEF Acquire, At, RotationInv, HandInv, Presenting, TypeInv, Hand,
     drawnVars, historyVars
<1>2. CASE locks[t] # None
  <2>1. Calm(p)
    BY <1>1, <1>2, CalmFinish DEF Acquire
  <2>. QED BY <2>1, RotationCalm
<1>3. CASE locks[t] = None
  <2>1. /\ locks' = [locks EXCEPT ![t] = [by |-> p, left |-> LockLife]]
        /\ Goes(p, [proc[p] EXCEPT !.stage = "load"])
    BY <1>3 DEF Acquire, To
  <2>2. /\ proc'[p].stage = "load" /\ proc'[p].token = t /\ proc'[p].fresh = proc[p].fresh
        /\ \A q \in Procs \ {p} : proc'[q] = proc[q]
    BY <2>1 DEF Goes, TypeInv, ProcType, Requests
  <2>3. /\ locks'[t].by = p /\ locks'[t] # None
        /\ \A x \in Tokens \ {t} : locks'[x] = locks[x]
    BY <1>1, <2>1, NullAssumption, DomainAssumption DEF TypeInv, StoreType
  <2>4. HandInv'
    <3>1. \A q \in Procs : proc'[q].stage \in Presenting => proc'[q].token \in given'
      BY <1>1, <2>2 DEF RotationInv, HandInv
    <3>2. \A q \in Procs : proc'[q].stage \in Serving => proc'[q].sess = source'[proc'[q].token]
      BY <1>1, <2>2 DEF RotationInv, HandInv, Serving
    <3>3. \A q \in Procs : proc'[q].stage \in {"enlist", "grant"} =>
             /\ proc'[q].fresh \notin given' /\ source'[proc'[q].fresh] = proc'[q].sess
             /\ \A x \in Tokens : source'[x] = proc'[q].sess => x = proc'[q].fresh
      BY <1>1, <2>2 DEF RotationInv, HandInv
    <3>4. \A q1, q2 \in Procs :
             q1 # q2 /\ proc'[q1].fresh # None => proc'[q1].fresh # proc'[q2].fresh
      BY <2>2 DEF RotationInv, HandInv
    <3>. QED BY <3>1, <3>2, <3>3, <3>4 DEF HandInv
  <2>5. \A q \in Procs : proc'[q].stage \in Serving => q # p /\ proc'[q] = proc[q]
    BY <2>2 DEF Serving
  <2>6. LockInv'
    <3>1. ASSUME NEW q \in Procs, Rotating(q)'
          PROVE proc'[q].token \in late' \/ Holds(q)'
      <4>1. CASE q = p
        BY <2>2, <2>3, <4>1 DEF Holds
      <4>2. CASE q # p
        <5>1. proc'[q] = proc[q] /\ Rotating(q) /\ proc[q].token \in Tokens
          BY <2>2, <3>1, <4>2, HandOf DEF Rotating, TypeInv, Hand
        <5>2. CASE proc[q].token = t
          BY <1>1, <1>3, <5>1, <5>2 DEF RotationInv, LockInv, Holds
        <5>3. CASE proc[q].token # t
          BY <1>1, <2>3, <5>1, <5>3 DEF RotationInv, LockInv, Holds
        <5>. QED BY <5>2, <5>3
      <4>. QED BY <4>1, <4>2
    <3>. QED BY <1>1, <2>5, <3>1 DEF RotationInv, LockInv, Serving
  <2>7. LiveInv'
    BY <1>1, <2>5, LiveKept DEF RotationInv
  <2>. QED BY <2>4, <2>6, <2>7 DEF RotationInv
<1>. QED BY <1>2, <1>3

(* Who reads a token that lives is the first one to present it in time.    *)
LEMMA RotationLoad ==
  ASSUME TypeInv, TypeInv', RotationInv, NEW p \in Procs, Load(p)
  PROVE RotationInv'
<1>. DEFINE t == proc[p].token
<1>1. /\ UNCHANGED <<source, locks, given, heirs, late, tokens>>
      /\ proc[p].stage = "load" /\ t \in Tokens /\ t \in given
  BY HandOf DEF Load, At, RotationInv, HandInv, Presenting, TypeInv, Hand,
     redisVars, drawnVars, historyVars
<1>2. CASE ~(tokens[t] > 0)
  <2>1. Goes(p, [proc[p] EXCEPT !.stage = "release"])
    BY <1>2 DEF Load, To
  <2>2. Harmless([proc[p] EXCEPT !.stage = "release"], proc[p])
    BY <1>1 DEF Harmless, TypeInv, ProcType, Requests, Serving
  <2>3. Calm(p)
    BY <1>1, <2>1, <2>2, CalmMove
  <2>. QED BY <2>3, RotationCalm
<1>3. CASE tokens[t] > 0
  <2>1. Goes(p, [proc[p] EXCEPT !.stage = "alive", !.sess = source[t]])
    BY <1>3 DEF Load
  <2>2. /\ proc'[p].stage = "alive" /\ proc'[p].token = t /\ proc'[p].sess = source[t]
        /\ proc'[p].fresh = proc[p].fresh
        /\ \A q \in Procs \ {p} : proc'[q] = proc[q]
    BY <2>1 DEF Goes, TypeInv, ProcType, Requests
  <2>3. HandInv'
    <3>1. \A q \in Procs : proc'[q].stage \in Presenting => proc'[q].token \in given'
      BY <1>1, <2>2 DEF RotationInv, HandInv
    <3>2. \A q \in Procs : proc'[q].stage \in Serving => proc'[q].sess = source'[proc'[q].token]
      BY <1>1, <2>2 DEF RotationInv, HandInv
    <3>3. \A q \in Procs : proc'[q].stage \in {"enlist", "grant"} =>
             /\ proc'[q].fresh \notin given' /\ source'[proc'[q].fresh] = proc'[q].sess
             /\ \A x \in Tokens : source'[x] = proc'[q].sess => x = proc'[q].fresh
      BY <1>1, <2>2 DEF RotationInv, HandInv
    <3>4. \A q1, q2 \in Procs :
             q1 # q2 /\ proc'[q1].fresh # None => proc'[q1].fresh # proc'[q2].fresh
      BY <2>2 DEF RotationInv, HandInv
    <3>. QED BY <3>1, <3>2, <3>3, <3>4 DEF HandInv
  <2>4. LockInv'
    <3>1. \A q \in Procs : Rotating(q)' => Rotating(q) /\ proc'[q].token = proc[q].token
      BY <1>1, <2>2 DEF Rotating
    <3>2. \A q \in Procs : Rotating(q)' => proc'[q].token \in late' \/ Holds(q)'
      BY <1>1, <3>1 DEF RotationInv, LockInv, Holds
    <3>3. \A q \in Procs : proc'[q].stage = "issue" => q # p /\ tokens'[proc'[q].token] = 0
      BY <1>1, <2>2 DEF RotationInv, LockInv
    <3>4. \A q \in Procs : proc'[q].stage \in Serving =>
             proc'[q].token \in late' \/ heirs'[proc'[q].token] = {}
      BY <1>1, <1>3, <2>2 DEF RotationInv, LockInv
    <3>5. \A q1, q2 \in Procs :
             /\ q1 # q2 /\ proc'[q1].stage = "issue" /\ proc'[q2].stage \in Serving
             /\ proc'[q1].token = proc'[q2].token
             => proc'[q1].token \in late'
      <4>. SUFFICES ASSUME NEW q1 \in Procs, NEW q2 \in Procs, q1 # q2,
                           proc'[q1].stage = "issue", proc'[q2].stage \in Serving,
                           proc'[q1].token = proc'[q2].token
                    PROVE proc'[q1].token \in late'
        OBVIOUS
      <4>1. q1 # p /\ tokens[proc'[q1].token] = 0
        BY <1>1, <3>3
      <4>2. q2 # p
        BY <1>3, <2>2, <4>1
      <4>. QED BY <1>1, <2>2, <4>1, <4>2 DEF RotationInv, LockInv
    <3>. QED BY <1>1, <3>2, <3>3, <3>4, <3>5 DEF RotationInv, LockInv
  <2>5. LiveInv'
    <3>1. \A x : InTime(x)' => InTime(x)
      BY <1>1 DEF InTime
    <3>2. ASSUME NEW t1 \in Tokens, NEW t2 \in Tokens, tokens'[t1] > 0, tokens'[t2] > 0,
                 source'[t1] = source'[t2], InTime(source[t1])'
          PROVE t1 = t2
      BY <1>1, <3>1, <3>2 DEF RotationInv, LiveInv
    <3>3. ASSUME NEW q \in Procs, NEW x \in Tokens, proc'[q].stage \in Serving,
                 InTime(proc[q].sess)', tokens'[x] > 0, source'[x] = proc'[q].sess
          PROVE x = proc'[q].token
      <4>1. CASE q = p
        <5>1. source[x] = source[t] /\ InTime(source[x]) /\ tokens[x] > 0
          BY <1>1, <2>2, <3>1, <3>3, <4>1
        <5>. QED BY <1>1, <1>3, <2>2, <4>1, <5>1 DEF RotationInv, LiveInv
      <4>2. CASE q # p
        BY <1>1, <2>2, <3>1, <3>3, <4>2 DEF RotationInv, LiveInv
      <4>. QED BY <4>1, <4>2
    <3>4. ASSUME NEW q1 \in Procs, NEW q2 \in Procs, proc'[q1].stage \in Serving,
                 proc'[q2].stage \in Serving, proc'[q1].sess = proc'[q2].sess,
                 InTime(proc[q1].sess)'
          PROVE proc'[q1].token = proc'[q2].token
      <4>1. \A q \in Procs \ {p} :
               /\ proc'[q].stage \in Serving /\ InTime(proc'[q].sess)
               /\ proc'[q].sess = source[t]
               => proc'[q].token = t
        BY <1>1, <1>3, <2>2 DEF RotationInv, LiveInv
      <4>2. InTime(proc'[q1].sess)
        BY <3>1, <3>4
      <4>. QED BY <2>2, <3>4, <4>1, <4>2 DEF RotationInv, LiveInv
    <3>. QED BY <3>2, <3>3, <3>4 DEF LiveInv
  <2>. QED BY <2>3, <2>4, <2>5 DEF RotationInv
<1>. QED BY <1>2, <1>3

(* The token is spent while nobody else is about to exchange it.           *)
LEMMA RotationSpend ==
  ASSUME TypeInv, TypeInv', RotationInv, NEW p \in Procs, Spend(p)
  PROVE RotationInv'
<1>. DEFINE t == proc[p].token
<1>1. /\ UNCHANGED <<source, locks, given, heirs, late>>
      /\ proc[p].stage = "spend" /\ t \in Tokens /\ t \in given
      /\ tokens'[t] = 0 /\ \A x \in Tokens \ {t} : tokens'[x] = tokens[x]
  BY HandOf DEF Spend, At, RotationInv, HandInv, Presenting, Serving, TypeInv, Hand,
     StoreType, drawnVars, historyVars
<1>2. /\ proc'[p].stage = "issue" /\ proc'[p].token = t /\ proc'[p].sess = proc[p].sess
      /\ proc'[p].fresh = proc[p].fresh
      /\ \A q \in Procs \ {p} : proc'[q] = proc[q]
  BY DEF Spend, To, Goes, TypeInv, ProcType, Requests
<1>3. \A q \in Procs : proc'[q].stage \in Serving =>
         proc[q].stage \in Serving /\ proc'[q].sess = proc[q].sess /\ proc'[q].token = proc[q].token
  BY <1>1, <1>2 DEF Serving
<1>4. HandInv'
  <2>1. \A q \in Procs : proc'[q].stage \in Presenting => proc'[q].token \in given'
    BY <1>1, <1>2 DEF RotationInv, HandInv
  <2>2. \A q \in Procs : proc'[q].stage \in Serving => proc'[q].sess = source'[proc'[q].token]
    BY <1>1, <1>3 DEF RotationInv, HandInv
  <2>3. \A q \in Procs : proc'[q].stage \in {"enlist", "grant"} =>
           /\ proc'[q].fresh \notin given' /\ source'[proc'[q].fresh] = proc'[q].sess
           /\ \A x \in Tokens : source'[x] = proc'[q].sess => x = proc'[q].fresh
    BY <1>1, <1>2 DEF RotationInv, HandInv
  <2>4. \A q1, q2 \in Procs :
           q1 # q2 /\ proc'[q1].fresh # None => proc'[q1].fresh # proc'[q2].fresh
    BY <1>2 DEF RotationInv, HandInv
  <2>. QED BY <2>1, <2>2, <2>3, <2>4 DEF HandInv
<1>5. LockInv'
  <2>1. \A q \in Procs : Rotating(q)' => Rotating(q) /\ proc'[q].token = proc[q].token
    BY <1>2 DEF Rotating
  <2>2. \A q \in Procs : Rotating(q)' => proc'[q].token \in late' \/ Holds(q)'
    BY <1>1, <2>1 DEF RotationInv, LockInv, Holds
  <2>3. \A x \in Tokens : tokens[x] = 0 => tokens'[x] = 0
    BY <1>1
  <2>4. \A q \in Procs : proc'[q].stage = "issue" => tokens'[proc'[q].token] = 0
    BY <1>1, <1>2, <2>3, HandOf DEF RotationInv, LockInv, TypeInv, Hand
  <2>5. \A q \in Procs \ {p} : proc'[q].stage \in Serving /\ proc'[q].token = t => t \in late
    <3>. SUFFICES ASSUME NEW q \in Procs, q # p, proc[q].stage \in Serving,
                         proc[q].token = t, t \notin late
                  PROVE FALSE
      BY <1>2
    <3>1. Holds(p) /\ Rotating(p)
      BY <1>1 DEF RotationInv, LockInv, Rotating
    <3>2. CASE proc[q].stage = "issue"
      BY <1>1, <3>2 DEF RotationInv, LockInv, Serving
    <3>3. CASE proc[q].stage # "issue"
      <4>1. Holds(q)
        BY <3>3 DEF RotationInv, LockInv, Rotating, Serving
      <4>. QED BY <3>1, <4>1 DEF Holds
    <3>. QED BY <3>2, <3>3
  <2>6. \A q1, q2 \in Procs :
           /\ q1 # q2 /\ proc'[q1].stage = "issue" /\ proc'[q2].stage \in Serving
           /\ proc'[q1].token = proc'[q2].token
           => proc'[q1].token \in late'
    BY <1>1, <1>2, <2>5 DEF RotationInv, LockInv, Serving
  <2>7. \A q \in Procs : proc'[q].stage \in Serving =>
           proc'[q].token \in late' \/ heirs'[proc'[q].token] = {}
    BY <1>1, <1>3 DEF RotationInv, LockInv
  <2>8. /\ \A x \in Tokens : heirs'[x] # {} => tokens'[x] = 0 /\ x \in given'
        /\ \A x \in Tokens \ late' : heirs'[x] = {} \/ \E h \in Tokens : heirs'[x] = {h}
    BY <1>1, <2>3 DEF RotationInv, LockInv
  <2>. QED BY <2>2, <2>4, <2>6, <2>7, <2>8 DEF LockInv
<1>6. LiveInv'
  <2>1. \A x \in Tokens : tokens'[x] > 0 => tokens[x] > 0
    BY <1>1
  <2>. QED BY <1>1, <1>3, <2>1, LiveKept DEF RotationInv
<1>. QED BY <1>4, <1>5, <1>6 DEF RotationInv

(* The heir is the only token of its session that lives.                   *)
LEMMA RotationIssue ==
  ASSUME TypeInv, TypeInv', RotationInv, NEW p \in Procs, Issue(p)
  PROVE RotationInv'
<1>. DEFINE old == proc[p].token
            s == proc[p].sess
<1>1. PICK t \in SpareTokens :
        /\ tokens' = [tokens EXCEPT ![t] = Life(s)]
        /\ source' = [source EXCEPT ![t] = s]
        /\ heirs' = [heirs EXCEPT ![old] = @ \cup {t}]
        /\ Goes(p, [proc[p] EXCEPT !.stage = "extend", !.fresh = t])
  BY DEF Issue
<1>2. /\ proc[p].stage = "issue" /\ old \in Tokens /\ old \in given
      /\ s = source[old] /\ s \in Sessions /\ tokens[old] = 0
  BY HandOf DEF Issue, At, RotationInv, HandInv, LockInv, Presenting, Serving, TypeInv,
     Hand, Drawn
<1>3. t \in Tokens /\ t \notin Named /\ t # None
  BY NullAssumption DEF SpareTokens, Named
<1>4. /\ proc'[p].stage = "extend" /\ proc'[p].token = old /\ proc'[p].fresh = t
      /\ \A q \in Procs \ {p} : proc'[q] = proc[q]
  BY <1>1, <1>3 DEF Goes, TypeInv, ProcType, Requests
<1>5. /\ UNCHANGED <<locks, given, late>>
      /\ source'[t] = s /\ \A x \in Tokens \ {t} : source'[x] = source[x]
      /\ \A x \in Tokens \ {t} : tokens'[x] = tokens[x]
      /\ heirs'[old] = heirs[old] \cup {t} /\ \A x \in Tokens \ {old} : heirs'[x] = heirs[x]
  BY <1>1, <1>2, <1>3 DEF Issue, TypeInv, StoreType
<1>6. /\ t \notin given \cup late /\ t # old
      /\ \A q \in Procs : proc[q].fresh # t /\ proc[q].token # t
  BY <1>2, <1>3, GivenType DEF TypeInv, ProcType, Hand
<1>7. \A q \in Procs : proc'[q].stage \in Serving \cup {"enlist", "grant"}
         => q # p /\ proc'[q] = proc[q]
  BY <1>4 DEF Serving
<1>8. \A q \in Procs : proc[q].stage \in Presenting => proc[q].token \in Tokens \ {t}
  BY <1>6, GivenType DEF RotationInv, HandInv
<1>9. HandInv'
  <2>1. \A q \in Procs : proc'[q].stage \in Presenting => proc'[q].token \in given'
    BY <1>2, <1>4, <1>5 DEF RotationInv, HandInv
  <2>2. \A q \in Procs : proc'[q].stage \in Serving => proc'[q].sess = source'[proc'[q].token]
    BY <1>5, <1>7, <1>8 DEF RotationInv, HandInv, Presenting
  <2>3. ASSUME NEW q \in Procs, proc'[q].stage \in {"enlist", "grant"}
        PROVE /\ proc'[q].fresh \notin given' /\ source'[proc'[q].fresh] = proc'[q].sess
              /\ \A x \in Tokens : source'[x] = proc'[q].sess => x = proc'[q].fresh
    <3>1. proc'[q] = proc[q] /\ proc[q].fresh \in Tokens \ {t}
      BY <1>6, <1>7, <2>3, HandOf DEF TypeInv, Hand
    <3>2. s # proc[q].sess
      BY <1>2, <2>3, <3>1 DEF RotationInv, HandInv
    <3>. QED BY <1>5, <2>3, <3>1, <3>2 DEF RotationInv, HandInv
  <2>4. \A q1, q2 \in Procs :
           q1 # q2 /\ proc'[q1].fresh # None => proc'[q1].fresh # proc'[q2].fresh
    BY <1>4, <1>6 DEF RotationInv, HandInv
  <2>. QED BY <2>1, <2>2, <2>3, <2>4 DEF HandInv
<1>10. \A q \in Procs \ {p} : proc[q].stage \in Serving /\ proc[q].token = old => old \in late
  BY <1>2 DEF RotationInv, LockInv
<1>11. LockInv'
  <2>1. \A q \in Procs : Rotating(q)' => proc'[q].token \in late' \/ Holds(q)'
    BY <1>4, <1>5 DEF RotationInv, LockInv, Rotating, Holds
  <2>2. \A q \in Procs : proc'[q].stage = "issue" => tokens'[proc'[q].token] = 0
    BY <1>5, <1>7, <1>8 DEF RotationInv, LockInv, Presenting, Serving
  <2>3. \A x \in Tokens : heirs'[x] # {} => tokens'[x] = 0 /\ x \in given'
    <3>1. \A x \in Tokens : heirs'[x] # {} => x # t /\ tokens[x] = 0 /\ x \in given
      BY <1>2, <1>5, <1>6 DEF RotationInv, LockInv
    <3>. QED BY <1>5, <3>1
  <2>4. \A q \in Procs : proc'[q].stage \in Serving =>
           proc'[q].token \in late' \/ heirs'[proc'[q].token] = {}
    BY <1>5, <1>7, <1>8, <1>10 DEF RotationInv, LockInv, Presenting
  <2>5. \A q1, q2 \in Procs :
           /\ q1 # q2 /\ proc'[q1].stage = "issue" /\ proc'[q2].stage \in Serving
           /\ proc'[q1].token = proc'[q2].token
           => proc'[q1].token \in late'
    BY <1>5, <1>7 DEF RotationInv, LockInv, Serving
  <2>6. \A x \in Tokens \ late' : heirs'[x] = {} \/ \E h \in Tokens : heirs'[x] = {h}
    <3>1. old \notin late => heirs'[old] = {t}
      BY <1>2, <1>5 DEF RotationInv, LockInv, Serving
    <3>. QED BY <1>3, <1>5, <3>1 DEF RotationInv, LockInv
  <2>. QED BY <2>1, <2>2, <2>3, <2>4, <2>5, <2>6 DEF LockInv
<1>12. LiveInv'
  <2>1. \A x : InTime(x)' => InTime(x)
    BY <1>5, <1>6, GivenType DEF InTime
  <2>2. InTime(s) => \A x \in Tokens : source[x] = s => ~(tokens[x] > 0)
    BY <1>2 DEF RotationInv, LiveInv, Serving
  <2>3. InTime(s) => \A q \in Procs \ {p} : proc[q].stage \in Serving => proc[q].sess # s
    <3>. SUFFICES ASSUME InTime(s), NEW q \in Procs, q # p, proc[q].stage \in Serving,
                         proc[q].sess = s
                  PROVE FALSE
      OBVIOUS
    <3>1. proc[q].token = old
      BY <1>2 DEF RotationInv, LiveInv, Serving
    <3>2. old \notin late
      BY <1>2 DEF InTime
    <3>. QED BY <1>10, <3>1, <3>2
  <2>4. ASSUME NEW t1 \in Tokens, NEW t2 \in Tokens, tokens'[t1] > 0, tokens'[t2] > 0,
               source'[t1] = source'[t2], InTime(source[t1])'
        PROVE t1 = t2
    <3>1. CASE t1 = t \/ t2 = t
      BY <1>5, <2>1, <2>2, <2>4, <3>1
    <3>2. CASE t1 # t /\ t2 # t
      BY <1>5, <2>1, <2>4, <3>2 DEF RotationInv, LiveInv
    <3>. QED BY <3>1, <3>2
  <2>5. ASSUME NEW q \in Procs, NEW x \in Tokens, proc'[q].stage \in Serving,
               InTime(proc[q].sess)', tokens'[x] > 0, source'[x] = proc'[q].sess
        PROVE x = proc'[q].token
    <3>1. q # p /\ proc'[q] = proc[q] /\ InTime(proc[q].sess)
      BY <1>7, <2>1, <2>5
    <3>2. x # t
      BY <1>5, <2>3, <2>5, <3>1
    <3>. QED BY <1>5, <2>5, <3>1, <3>2 DEF RotationInv, LiveInv
  <2>6. ASSUME NEW q1 \in Procs, NEW q2 \in Procs, proc'[q1].stage \in Serving,
               proc'[q2].stage \in Serving, proc'[q1].sess = proc'[q2].sess,
               InTime(proc[q1].sess)'
        PROVE proc'[q1].token = proc'[q2].token
    BY <1>7, <2>1, <2>6 DEF RotationInv, LiveInv
  <2>. QED BY <2>4, <2>5, <2>6 DEF LiveInv
<1>. QED BY <1>9, <1>11, <1>12 DEF RotationInv

(* A request takes away no lock but its own.                               *)
LEMMA RotationRelease ==
  ASSUME TypeInv, TypeInv', RotationInv, NEW p \in Procs, Release(p)
  PROVE RotationInv'
<1>1. /\ proc[p].stage = "release" /\ UNCHANGED <<source, tokens, heirs, late>>
      /\ given' = given \cup ({proc[p].fresh} \ {None})
  BY DEF Release, At, drawnVars
<1>2. proc'[p] = Idle /\ \A q \in Procs \ {p} : proc'[q] = proc[q]
  BY DEF Release, Finish, Goes, TypeInv, ProcType
<1>3. \A q \in Procs : proc'[q].stage \in Presenting \cup {"enlist", "grant"}
         => q # p /\ proc'[q] = proc[q]
  BY <1>2 DEF Presenting, Serving, Idle
<1>4. \A x \in Tokens : locks[x] # None /\ locks[x].by # p => locks'[x] = locks[x]
  BY DEF Release, Unchecked, TypeInv, StoreType
<1>5. HandInv'
  <2>1. \A q \in Procs : proc'[q].stage \in Presenting => proc'[q].token \in given'
    BY <1>1, <1>3 DEF RotationInv, HandInv
  <2>2. \A q \in Procs : proc'[q].stage \in Serving => proc'[q].sess = source'[proc'[q].token]
    BY <1>1, <1>3 DEF RotationInv, HandInv, Presenting
  <2>3. ASSUME NEW q \in Procs, proc'[q].stage \in {"enlist", "grant"}
        PROVE /\ proc'[q].fresh \notin given' /\ source'[proc'[q].fresh] = proc'[q].sess
              /\ \A x \in Tokens : source'[x] = proc'[q].sess => x = proc'[q].fresh
    <3>1. q # p /\ proc'[q] = proc[q] /\ proc[q].fresh \in Tokens
      BY <1>3, <2>3, HandOf DEF TypeInv, Hand
    <3>2. proc[q].fresh # None
      BY <3>1, NullAssumption
    <3>3. proc[q].fresh # proc[p].fresh
      BY <3>1, <3>2 DEF RotationInv, HandInv
    <3>. QED BY <1>1, <2>3, <3>1, <3>3 DEF RotationInv, HandInv
  <2>4. \A q1, q2 \in Procs :
           q1 # q2 /\ proc'[q1].fresh # None => proc'[q1].fresh # proc'[q2].fresh
    BY <1>2 DEF RotationInv, HandInv, Idle
  <2>. QED BY <2>1, <2>2, <2>3, <2>4 DEF HandInv
<1>6. LockInv'
  <2>1. ASSUME NEW q \in Procs, Rotating(q)' PROVE proc'[q].token \in late' \/ Holds(q)'
    <3>1. q # p /\ proc'[q] = proc[q] /\ Rotating(q) /\ proc[q].token \in Tokens
      BY <1>2, <2>1, HandOf DEF Rotating, Idle, TypeInv, Hand
    <3>2. proc[q].token \in late \/ Holds(q)
      BY <3>1 DEF RotationInv, LockInv
    <3>. QED BY <1>1, <1>4, <3>1, <3>2 DEF Holds
  <2>. QED BY <1>1, <1>3, <2>1 DEF RotationInv, LockInv, Presenting, Serving
<1>7. LiveInv'
  BY <1>1, <1>3, LiveKept DEF RotationInv, Presenting
<1>. QED BY <1>5, <1>6, <1>7 DEF RotationInv

(* Time marks the tokens whose lock it takes from a request at work.       *)
LEMMA RotationTick ==
  ASSUME TypeInv, TypeInv', RotationInv, Tick
  PROVE RotationInv'
<1>1. /\ UNCHANGED <<source, proc, given, heirs>> /\ late \subseteq late'
      /\ \A t \in Tokens : locks'[t] = None /\ Rotated(t) => t \in late'
  BY DEF Tick, drawnVars
<1>2. \A t \in Tokens : tokens[t] = 0 => tokens'[t] = 0
  BY DEF Tick
<1>3. \A t \in Tokens : tokens'[t] > 0 => tokens[t] > 0
  BY <1>2 DEF TypeInv, StoreType
<1>4. \A t \in Tokens : locks'[t] = None \/ (locks[t] # None /\ locks'[t].by = locks[t].by)
  BY DEF Tick, Aged, TypeInv, StoreType, Locks
<1>5. HandInv'
  BY <1>1 DEF RotationInv, HandInv
<1>6. LockInv'
  <2>1. ASSUME NEW q \in Procs, Rotating(q)' PROVE proc'[q].token \in late' \/ Holds(q)'
    <3>1. proc'[q] = proc[q] /\ Rotating(q) /\ proc[q].token \in Tokens
      BY <1>1, <2>1, HandOf DEF Rotating, TypeInv, Hand
    <3>2. proc[q].token \in late \/ Holds(q)
      BY <3>1 DEF RotationInv, LockInv
    <3>3. CASE Holds(q) /\ locks'[proc[q].token] = None
      BY <1>1, <3>1, <3>3 DEF Rotated
    <3>. QED BY <1>1, <1>4, <3>1, <3>2, <3>3 DEF Holds
  <2>2. \A q \in Procs : proc'[q].stage = "issue" => tokens'[proc'[q].token] = 0
    BY <1>1, <1>2, HandOf DEF RotationInv, LockInv, TypeInv, Hand
  <2>. QED BY <1>1, <1>2, <2>1, <2>2 DEF RotationInv, LockInv
<1>7. LiveInv'
  BY <1>1, <1>3, LiveKept DEF RotationInv
<1>. QED BY <1>5, <1>6, <1>7 DEF RotationInv

LEMMA RotationInit == Init => RotationInv
  BY DEF Init, Idle, RotationInv, HandInv, LockInv, LiveInv, InTime, Rotating,
     Presenting, Serving

LEMMA RotationNext ==
  ASSUME TypeInv, RotationInv, [Next]_vars PROVE RotationInv'
<1>1. TypeInv'
  BY TypeNext
<1>2. CASE UNCHANGED vars
  BY <1>2 DEF vars, redisVars, drawnVars, historyVars, RotationInv, HandInv, LockInv,
              LiveInv, InTime, Rotating, Holds
<1>3. ASSUME NEW p \in Procs, NEW op \in Ops, Receive(p, op) PROVE RotationInv'
  BY <1>1, <1>3, CalmReceive, RotationCalm
<1>4. ASSUME NEW p \in Procs, Fail(p) PROVE RotationInv'
  BY <1>1, <1>4, CalmFail, RotationCalm DEF RotationInv
<1>5. ASSUME NEW p \in Procs, Handle(p) PROVE RotationInv'
  <2>1. CASE \/ Account(p) \/ Undo(p) \/ Forget(p) \/ Erase(p) \/ Keep(p) \/ Prune(p)
             \/ Drop(p) \/ Discard(p) \/ Wipe(p) \/ Unsweep(p)
    BY <1>1, <2>1, CalmOthers, RotationCalm
  <2>2. CASE Beat(p) \/ Find(p) \/ Members(p) \/ Each(p) \/ Sweep(p)
    BY <1>1, <2>2, CalmReads, RotationCalm
  <2>3. CASE Enlist(p) \/ Alive(p) \/ Extend(p) \/ Store(p) \/ Retract(p)
    BY <1>1, <2>3, CalmExchange, RotationCalm DEF RotationInv
  <2>. QED BY <1>1, <1>5, <2>1, <2>2, <2>3, RotationCreate, RotationGrant, RotationAcquire,
           RotationLoad, RotationSpend, RotationIssue, RotationRelease DEF Handle
<1>. QED BY <1>1, <1>2, <1>3, <1>4, <1>5, RotationTick DEF Next

LEMMA RotationAlways == Spec => [](TypeInv /\ RotationInv)
<1>1. Init => TypeInv /\ RotationInv
  BY TypeInit, RotationInit
<1>2. TypeInv /\ RotationInv /\ [Next]_vars => (TypeInv /\ RotationInv)'
  BY TypeNext, RotationNext
<1>. QED BY <1>1, <1>2, PTL DEF Spec

(* A refresh token is exchanged at most once unless its lock runs out on a *)
(* request at work: the SETNX, the GET and the DEL of RefreshTokens let no *)
(* two of any number of requests pass.                                     *)
THEOREM ExchangedOnce == Spec => []RotatedOnce
<1>1. TypeInv /\ RotationInv => RotatedOnce
  <2>. SUFFICES ASSUME TypeInv, RotationInv, NEW t \in Tokens \ late
                PROVE Cardinality(heirs[t]) <= 1
    BY DEF RotatedOnce
  <2>1. heirs[t] = {} \/ \E h \in Tokens : heirs[t] = {h}
    BY DEF RotationInv, LockInv
  <2>2. CASE heirs[t] = {}
    BY <2>2, FS_EmptySet
  <2>3. ASSUME NEW h \in Tokens, heirs[t] = {h} PROVE Cardinality(heirs[t]) <= 1
    <3>1. Cardinality({h}) = 1
      BY FS_Singleton
    <3>. QED BY <2>3, <3>1
  <2>. QED BY <2>1, <2>2, <2>3
<1>. QED BY <1>1, RotationAlways, PTL

(* Of the tokens of one session at most one lives, unless the lock of one  *)
(* of them ran out on a request at work: the old one is deleted before the *)
(* new one is stored, whatever fails in between.                           *)
THEOREM LiveTokenUnique == Spec => []OneLiveToken
<1>1. TypeInv /\ RotationInv => OneLiveToken
  BY DEF RotationInv, LiveInv, InTime, OneLiveToken
<1>. QED BY <1>1, RotationAlways, PTL
=============================================================================
