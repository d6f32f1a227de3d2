------------------------------ MODULE Sessions ------------------------------
(***************************************************************************)
(* Logins, sessions and refresh tokens: internal/auth-session, that is     *)
(* session/service.go, token/service.go and user/service.go.               *)
(*                                                                         *)
(* A login leaves three things in Redis, each with a TTL of its own: the   *)
(* session, its membership in the set of the user's sessions, and a        *)
(* refresh token, which is exchanged for a new one again and again.        *)
(* Requests run on goroutines and change these keys one call at a time;    *)
(* an action is one call, or one pipeline of calls.                        *)
(***************************************************************************)
EXTENDS Integers, FiniteSets

CONSTANTS
  Users,      \* accounts
  Sessions,   \* session ids, each drawn by one login
  Tokens,     \* refresh tokens, each drawn once
  Lives,      \* refresh expiries: that of a remembered login, and the short one
  LockLife,   \* life of a rotation lock (five seconds)
  Never,      \* the life of a key without a TTL
  None,       \* no key, no session, no token
  Procs,      \* goroutines that serve requests
  Jobs,       \* Jobs[p]: the operations goroutine p is asked for
  Faults      \* may calls fail and processes stop?

Ops == {"login", "refresh", "heartbeat", "revoke", "logout",
        "others", "all", "delete", "list"}

ASSUME DomainAssumption ==
  /\ Lives \subseteq Nat \ {0}
  /\ LockLife \in Nat \ {0}
  /\ Jobs \in [Procs -> SUBSET Ops]
  /\ Faults \in BOOLEAN
ASSUME NullAssumption ==
  /\ Never \notin Nat
  /\ None \notin Ops /\ None \notin Lives
  /\ None \notin Users \cup Sessions \cup Tokens
  /\ None \notin [token : Tokens, left : Nat \cup {Never}]
  /\ None \notin [by : Procs, left : Nat]
  /\ None \notin [user : Users, life : Lives]

VARIABLES
  accounts,   \* accounts that exist
  sessions,   \* sessions[s]: the key "session:s"
  sets,       \* sets[u]: the key "user_sessions:u"
  tokens,     \* tokens[t]: the life left to the key "refresh:t", 0 without one
  locks,      \* locks[t]: the key "lock:refresh:t"
  logins,     \* logins[s]: the login that drew s (its key and its tokens say so)
  source,     \* source[t]: the session t was drawn for (its payload)
  proc,       \* proc[p]: the request goroutine p serves
  given,      \* history: the tokens that a client was given
  heirs,      \* history: heirs[t], the tokens issued in exchange for t
  revoked,    \* history: sessions that a revocation has deleted
  late,       \* history: tokens whose lock ran out on a request at work
  stale       \* history: sessions that went away before they were overwritten

redisVars == <<sessions, sets, tokens, locks>>
drawnVars == <<logins, source>>
historyVars == <<given, heirs, revoked, late, stale>>
vars == <<accounts, redisVars, drawnVars, proc, historyVars>>

Stages == {"idle", "account", "create", "enlist", "undo", "grant",
           "lock", "load", "alive", "spend", "issue", "extend", "store",
           "retract", "release", "beat", "keep", "find", "drop", "forget",
           "erase", "members", "each", "discard", "wipe", "prune",
           "sweep", "unsweep"}
Keys == [token : Tokens, left : Nat \cup {Never}]
Requests == [stage : Stages, op : Ops \cup {None}, user : Users \cup {None},
             sess : Sessions \cup {None}, token : Tokens \cup {None},
             life : Lives \cup {None},
             fresh : Tokens \cup {None},   \* the token drawn meanwhile
             seen : Tokens \cup {None},    \* the token of the session it read
             list : SUBSET Sessions,       \* sessions to delete
             todo : SUBSET Sessions,       \* sessions still to read
             doom : SUBSET Tokens]         \* tokens to delete

Idle == [stage |-> "idle", op |-> None, user |-> None, sess |-> None,
         token |-> None, life |-> None, fresh |-> None, seen |-> None,
         list |-> {}, todo |-> {}, doom |-> {}]

-----------------------------------------------------------------------------
(* Helpers *)

User(s) == logins[s].user
Life(s) == logins[s].life

At(p, stage) == proc[p].stage = stage
Goes(p, r) == proc' = [proc EXCEPT ![p] = r]
To(p, stage) == Goes(p, [proc[p] EXCEPT !.stage = stage])
Finish(p) == Goes(p, Idle)

Unchecked(effect, none) == effect \/ (Faults /\ none)

EmptySet == [members |-> {}, left |-> 0]

(* Mutant: a set without members stays.                                    *)
SRemKeeps(set, S) == [set EXCEPT !.members = @ \ S]

(* Redis removes a set with its last member, and does not EXPIRE a key     *)
(* that does not exist.                                                    *)
SRem(set, S) == IF set.members \subseteq S THEN EmptySet
                ELSE [set EXCEPT !.members = @ \ S]
Expire(set, life) == IF set = EmptySet THEN set ELSE [set EXCEPT !.left = life]

(* A rotation that needs its lock: it has not deleted the old token yet.   *)
Holds(p) == LET lock == locks[proc[p].token] IN lock # None /\ lock.by = p
Rotating(p) == proc[p].stage \in {"load", "alive", "spend"}
Rotated(t) == \E p \in Procs : Rotating(p) /\ Holds(p) /\ proc[p].token = t

(* History: which sessions go away between the GET and the SET of a        *)
(* heartbeat or an extension.                                              *)
Overwriting(s) == \E p \in Procs : proc[p].stage \in {"keep", "store"} /\ proc[p].sess = s
Missed == stale' = stale \cup {s \in Sessions : /\ sessions[s] # None /\ sessions'[s] = None
                                              /\ Overwriting(s)}

Without(keys, S, absent) == [k \in DOMAIN keys |-> IF k \in S THEN absent ELSE keys[k]]

Known == {source[t] : t \in given}
SpareTokens == {t \in Tokens : source[t] = None}
SpareSessions == {s \in Sessions : logins[s] = None}

-----------------------------------------------------------------------------
(* Requests.  A client has the cookies it was given; revocations name a    *)
(* session that was listed; logout and the revocation of the others come   *)
(* with an access token, whose session must exist (ValidateAccessToken).   *)
WellFormed(op, user, sess, token, life) ==
  /\ user # None <=> op \notin {"refresh", "heartbeat"}
  /\ sess # None <=> op \in {"heartbeat", "revoke", "logout", "others"}
  /\ token # None <=> op \in {"refresh", "logout"}
  /\ life # None <=> op = "login"
  /\ sess # None => sess \in Known
  /\ token # None => token \in given
  /\ op = "logout" => source[token] = sess
  /\ op \in {"logout", "others"} => sessions[sess] # None /\ user = User(sess)

FirstStage(op) ==
  CASE op = "login"               -> "account"
    [] op = "refresh"             -> "lock"
    [] op = "heartbeat"           -> "beat"
    [] op \in {"revoke","logout"} -> "find"
    [] op = "delete"              -> "erase"
    [] OTHER                      -> "members"

(* Bounds: there are sessions and tokens left for every request that will  *)
(* draw one.                                                               *)
Drawing(ops) == {p \in Procs : proc[p].op \in ops /\ proc[p].fresh = None}
RoomFor(op) ==
  /\ op \in {"login", "refresh"} =>
       Cardinality(Drawing({"login", "refresh"})) < Cardinality(SpareTokens)
  /\ op = "login" => Cardinality(Drawing({"login"})) < Cardinality(SpareSessions)

Request(op, user, sess, token, life) ==
  [stage |-> FirstStage(op), op |-> op, user |-> user, sess |-> sess,
   token |-> token, life |-> life, fresh |-> None, seen |-> None,
   list |-> {}, todo |-> {}, doom |-> {}]

Receive(p, op) ==
  /\ At(p, "idle")
  /\ op \in Jobs[p]
  /\ RoomFor(op)
  /\ \E user \in Users \cup {None}, sess \in Sessions \cup {None},
        token \in Tokens \cup {None}, life \in Lives \cup {None} :
       /\ WellFormed(op, user, sess, token, life)
       /\ Goes(p, Request(op, user, sess, token, life))
  /\ UNCHANGED <<accounts, redisVars, drawnVars, historyVars>>

-----------------------------------------------------------------------------
(* Login *)

(* The account is read; the password is not modelled.                      *)
Account(p) ==
  /\ At(p, "account")
  /\ IF proc[p].user \in accounts THEN To(p, "create") ELSE Finish(p)
  /\ UNCHANGED <<accounts, redisVars, drawnVars, historyVars>>

(* CreateSession: the SETNX of a new session, which names its token.       *)
Create(p) ==
  /\ At(p, "create")
  /\ \E s \in SpareSessions, t \in SpareTokens :
       /\ sessions' = [sessions EXCEPT ![s] = [token |-> t, left |-> proc[p].life]]
       /\ logins' = [logins EXCEPT ![s] = [user |-> proc[p].user, life |-> proc[p].life]]
       /\ source' = [source EXCEPT ![t] = s]
       /\ Goes(p, [proc[p] EXCEPT !.stage = "enlist", !.sess = s, !.fresh = t])
  /\ UNCHANGED <<accounts, sets, tokens, locks, historyVars>>

(* The pipeline of SADD and EXPIRE: the set lives as long as the newest    *)
(* login wants, even if that is shorter than what an earlier one wanted.   *)
Enlist(p) ==
  LET u == proc[p].user
  IN /\ At(p, "enlist")
     /\ sets' = [sets EXCEPT ![u] = [members |-> @.members \cup {proc[p].sess},
                                     left |-> proc[p].life]]
     /\ To(p, "grant")
     /\ UNCHANGED <<accounts, sessions, tokens, locks, drawnVars, historyVars>>

Undo(p) ==
  /\ At(p, "undo")
  /\ Unchecked(sessions' = [sessions EXCEPT ![proc[p].sess] = None], UNCHANGED sessions)
  /\ Missed
  /\ Finish(p)
  /\ UNCHANGED <<accounts, sets, tokens, locks, drawnVars, given, heirs, revoked, late>>

(* The SETNX of the refresh token ends the login, or its error does.       *)
Grant(p) ==
  /\ At(p, "grant")
  /\ tokens' = [tokens EXCEPT ![proc[p].fresh] = proc[p].life]
  /\ \/ Finish(p) /\ given' = given \cup {proc[p].fresh}
     \/ /\ Faults
        /\ Goes(p, [proc[p] EXCEPT !.stage = "find", !.op = "revoke"])
        /\ UNCHANGED given
  /\ UNCHANGED <<accounts, sessions, sets, locks, drawnVars, heirs, revoked, late, stale>>

-----------------------------------------------------------------------------
(* RefreshTokens *)

(* Mutant: the answer of the SETNX is not looked at.                       *)
AcquireAnyway(p) ==
  LET t == proc[p].token
  IN /\ At(p, "lock")
     /\ locks' = IF locks[t] = None
                 THEN [locks EXCEPT ![t] = [by |-> p, left |-> LockLife]] ELSE locks
     /\ To(p, "load")
     /\ UNCHANGED <<accounts, sessions, sets, tokens, drawnVars, historyVars>>

Acquire(p) ==
  LET t == proc[p].token
  IN /\ At(p, "lock")
     /\ IF locks[t] = None
          THEN /\ locks' = [locks EXCEPT ![t] = [by |-> p, left |-> LockLife]]
               /\ To(p, "load")
          ELSE Finish(p) /\ UNCHANGED locks
     /\ UNCHANGED <<accounts, sessions, sets, tokens, drawnVars, historyVars>>

(* The GET of the token, whose payload names the session.                  *)
Load(p) ==
  LET t == proc[p].token
  IN /\ At(p, "load")
     /\ IF tokens[t] > 0
          THEN Goes(p, [proc[p] EXCEPT !.stage = "alive", !.sess = source[t]])
          ELSE To(p, "release")
     /\ UNCHANGED <<accounts, redisVars, drawnVars, historyVars>>

Alive(p) ==
  /\ At(p, "alive")
  /\ To(p, IF sessions[proc[p].sess] # None THEN "spend" ELSE "release")
  /\ UNCHANGED <<accounts, redisVars, drawnVars, historyVars>>

(* Mutant: the old token is left to its TTL.                               *)
SpendNot(p) ==
  /\ At(p, "spend")
  /\ To(p, "issue")
  /\ UNCHANGED <<accounts, redisVars, drawnVars, historyVars>>

Spend(p) ==
  /\ At(p, "spend")
  /\ tokens' = [tokens EXCEPT ![proc[p].token] = 0]
  /\ To(p, "issue")
  /\ UNCHANGED <<accounts, sessions, sets, locks, drawnVars, historyVars>>

(* generateRefreshToken: the new token has the life of the old one.        *)
Issue(p) ==
  LET s == proc[p].sess
  IN /\ At(p, "issue")
     /\ \E t \in SpareTokens :
          /\ tokens' = [tokens EXCEPT ![t] = Life(s)]
          /\ source' = [source EXCEPT ![t] = s]
          /\ heirs' = [heirs EXCEPT ![proc[p].token] = @ \cup {t}]
          /\ Goes(p, [proc[p] EXCEPT !.stage = "extend", !.fresh = t])
     /\ UNCHANGED <<accounts, sessions, sets, locks, logins, given, revoked, late, stale>>

(* Mutant: the session is written whether or not it is there.              *)
ExtendBlindly(p) ==
  /\ At(p, "extend")
  /\ To(p, "store")
  /\ UNCHANGED <<accounts, redisVars, drawnVars, historyVars>>

(* ExtendSession: the GET of the session, ...                              *)
Extend(p) ==
  /\ At(p, "extend")
  /\ To(p, IF sessions[proc[p].sess] # None THEN "store" ELSE "retract")
  /\ UNCHANGED <<accounts, redisVars, drawnVars, historyVars>>

(* Mutants: the set is not made to live longer with the session, or the    *)
(* session goes on naming the old token.                                   *)
StoreOnly(p) ==
  LET s == proc[p].sess
  IN /\ At(p, "store")
     /\ sessions' = [sessions EXCEPT ![s] = [token |-> proc[p].fresh, left |-> Life(s)]]
     /\ To(p, "release")
     /\ UNCHANGED <<accounts, sets, tokens, locks, drawnVars, historyVars>>

StoreOldToken(p) ==
  LET s == proc[p].sess
  IN /\ At(p, "store")
     /\ sessions' = [sessions EXCEPT ![s] = [token |-> proc[p].token, left |-> Life(s)]]
     /\ sets' = [sets EXCEPT ![User(s)] = Expire(@, Life(s))]
     /\ To(p, "release")
     /\ UNCHANGED <<accounts, tokens, locks, drawnVars, historyVars>>

(* ... and the pipeline of its SET and the EXPIRE of the set, whatever has *)
(* become of the session since.                                            *)
Store(p) ==
  LET s == proc[p].sess
  IN /\ At(p, "store")
     /\ sessions' = [sessions EXCEPT ![s] = [token |-> proc[p].fresh, left |-> Life(s)]]
     /\ sets' = [sets EXCEPT ![User(s)] = Expire(@, Life(s))]
     /\ To(p, "release")
     /\ UNCHANGED <<accounts, tokens, locks, drawnVars, historyVars>>

(* Without a session the new token is taken back.                          *)
Retract(p) ==
  /\ At(p, "retract")
  /\ Unchecked(tokens' = [tokens EXCEPT ![proc[p].fresh] = 0], UNCHANGED tokens)
  /\ Goes(p, [proc[p] EXCEPT !.stage = "release", !.fresh = None])
  /\ UNCHANGED <<accounts, sessions, sets, locks, drawnVars, historyVars>>

(* releaseLock deletes the lock if it still is this request's; then the    *)
(* client is answered.                                                     *)
Release(p) ==
  LET t == proc[p].token
      mine == locks[t] # None /\ locks[t].by = p   \* the GET of the script
  IN /\ At(p, "release")
     /\ Unchecked(locks' = IF mine THEN [locks EXCEPT ![t] = None] ELSE locks,
                  UNCHANGED locks)
     /\ given' = given \cup ({proc[p].fresh} \ {None})
     /\ Finish(p)
     /\ UNCHANGED <<accounts, sessions, sets, tokens, drawnVars, heirs, revoked, late, stale>>

-----------------------------------------------------------------------------
(* Heartbeat: the GET of the session and the SET of what was read, which   *)
(* keeps the TTL of the key if there still is one.                         *)
Beat(p) ==
  LET s == proc[p].sess
  IN /\ At(p, "beat")
     /\ IF sessions[s] # None
          THEN Goes(p, [proc[p] EXCEPT !.stage = "keep", !.seen = sessions[s].token])
          ELSE Finish(p)
     /\ UNCHANGED <<accounts, redisVars, drawnVars, historyVars>>

(* Mutant: a SET without KEEPTTL.                                          *)
KeepForEver(p) ==
  LET s == proc[p].sess
  IN /\ At(p, "keep")
     /\ sessions' = [sessions EXCEPT ![s] = [token |-> proc[p].seen, left |-> Never]]
     /\ Finish(p)
     /\ UNCHANGED <<accounts, sets, tokens, locks, drawnVars, historyVars>>

Keep(p) ==
  LET s == proc[p].sess
  IN /\ At(p, "keep")
     /\ sessions' = [sessions EXCEPT ![s] =
          [token |-> proc[p].seen, left |-> IF @ = None THEN Never ELSE @.left]]
     /\ Finish(p)
     /\ UNCHANGED <<accounts, sets, tokens, locks, drawnVars, historyVars>>

-----------------------------------------------------------------------------
(* Revocations *)

(* RevokeSession: the GET, which learns the token, ...                     *)
Find(p) ==
  LET s == proc[p].sess
  IN /\ At(p, "find")
     /\ IF sessions[s] # None
          THEN Goes(p, [proc[p] EXCEPT !.stage = "drop", !.seen = sessions[s].token])
          ELSE IF proc[p].op = "logout" THEN To(p, "forget") ELSE Finish(p)
     /\ UNCHANGED <<accounts, redisVars, drawnVars, historyVars>>

(* ... and the pipeline that deletes session, membership and token.        *)
Drop(p) ==
  LET s == proc[p].sess
  IN /\ At(p, "drop")
     /\ sessions' = [sessions EXCEPT ![s] = None]
     /\ sets' = [sets EXCEPT ![proc[p].user] = SRem(@, {s})]
     /\ tokens' = [tokens EXCEPT ![proc[p].seen] = 0]
     /\ revoked' = revoked \cup {s}
     /\ IF proc[p].op = "logout" THEN To(p, "forget") ELSE Finish(p)
     /\ Missed
     /\ UNCHANGED <<accounts, locks, drawnVars, given, heirs, late>>

(* Logout deletes the token of the cookie and revokes the session again.   *)
Forget(p) ==
  /\ At(p, "forget")
  /\ tokens' = [tokens EXCEPT ![proc[p].token] = 0]
  /\ Goes(p, [proc[p] EXCEPT !.stage = "find", !.op = "revoke"])
  /\ UNCHANGED <<accounts, sessions, sets, locks, drawnVars, historyVars>>

(* The DELETE of the account.                                              *)
Erase(p) ==
  LET u == proc[p].user
  IN /\ At(p, "erase")
     /\ accounts' = accounts \ {u}
     /\ IF u \in accounts THEN To(p, "members") ELSE Finish(p)
     /\ UNCHANGED <<redisVars, drawnVars, historyVars>>

Sweeps(op) == op \in {"all", "delete"}

(* SMEMBERS: RevokeAllOtherSessions passes over the caller's session.      *)
Members(p) ==
  LET r == proc[p]
      todo == sets[r.user].members \ (IF r.op = "others" THEN {r.sess} ELSE {})
  IN /\ At(p, "members")
     /\ IF todo # {}
          THEN Goes(p, [r EXCEPT !.stage = "each", !.todo = todo,
                                 !.list = IF r.op = "list" THEN {} ELSE todo])
          ELSE IF Sweeps(r.op) THEN To(p, "discard") ELSE Finish(p)
     /\ UNCHANGED <<accounts, redisVars, drawnVars, historyVars>>

(* PurgeUserSessions deletes a set it has found empty, with whatever has   *)
(* joined it since.                                                        *)
Discard(p) ==
  /\ At(p, "discard")
  /\ Unchecked(sets' = [sets EXCEPT ![proc[p].user] = EmptySet], UNCHANGED sets)
  /\ To(p, "sweep")
  /\ UNCHANGED <<accounts, sessions, tokens, locks, drawnVars, historyVars>>

(* The GET of each: a revocation collects tokens, a listing collects what  *)
(* has expired, and either goes on if it fails.                            *)
Each(p) ==
  LET r == proc[p]
  IN /\ At(p, "each")
     /\ \E s \in r.todo, read \in {TRUE, ~Faults} :
          LET alive == sessions[s] # None
              list == IF r.op = "list" /\ read /\ ~alive THEN r.list \cup {s} ELSE r.list
              after == IF r.todo # {s} THEN "each"
                       ELSE IF r.op # "list" THEN "wipe" ELSE "prune"
          IN Goes(p, [r EXCEPT !.todo = @ \ {s}, !.list = list, !.stage = after,
                        !.doom = IF read /\ alive /\ r.op # "list"
                                   THEN @ \cup {sessions[s].token} ELSE @])
     /\ UNCHANGED <<accounts, redisVars, drawnVars, historyVars>>

(* The pipeline of deletions; PurgeUserSessions deletes the whole set.     *)
Wipe(p) ==
  LET r == proc[p]
  IN /\ At(p, "wipe")
     /\ sessions' = Without(sessions, r.list, None)
     /\ tokens' = Without(tokens, r.doom, 0)
     /\ sets' = [sets EXCEPT ![r.user] = IF Sweeps(r.op) THEN EmptySet ELSE SRem(@, r.list)]
     /\ revoked' = revoked \cup r.list
     /\ IF Sweeps(r.op) THEN To(p, "sweep") ELSE Finish(p)
     /\ Missed
     /\ UNCHANGED <<accounts, locks, drawnVars, given, heirs, late>>

(* GetActiveSessions takes what has expired out of the set.                *)
Prune(p) ==
  LET u == proc[p].user
  IN /\ At(p, "prune")
     /\ Unchecked(sets' = [sets EXCEPT ![u] = SRem(@, proc[p].list)], UNCHANGED sets)
     /\ Finish(p)
     /\ UNCHANGED <<accounts, sessions, tokens, locks, drawnVars, historyVars>>

LiveTokens(u) == {t \in Tokens : tokens[t] > 0 /\ User(source[t]) = u}

(* What a scan finds: a GET that fails hides a token.                      *)
Scanned(u) == IF Faults THEN SUBSET LiveTokens(u) ELSE {LiveTokens(u)}

(* Mutant: the tokens of the sessions that were listed must do.            *)
SweepNone(p) ==
  /\ At(p, "sweep")
  /\ Finish(p)
  /\ UNCHANGED <<accounts, redisVars, drawnVars, historyVars>>

(* sweepOrphanRefreshTokens: SCAN and GET find the tokens of the user ...  *)
Sweep(p) ==
  /\ At(p, "sweep")
  /\ \E found \in Scanned(proc[p].user) :
       IF found # {} THEN Goes(p, [proc[p] EXCEPT !.stage = "unsweep", !.doom = found])
       ELSE Finish(p)
  /\ UNCHANGED <<accounts, redisVars, drawnVars, historyVars>>

(* ... and a DEL removes them.                                             *)
Unsweep(p) ==
  /\ At(p, "unsweep")
  /\ tokens' = Without(tokens, proc[p].doom, 0)
  /\ Finish(p)
  /\ UNCHANGED <<accounts, sessions, sets, locks, drawnVars, historyVars>>

-----------------------------------------------------------------------------
(* Failures and time *)

(* Where an error of a call leads when the code does not just return it.   *)
(* An error may hide an effect, as the step to the next stage followed by  *)
(* its error; a token that was not stored is no answer to the client.      *)
Failures ==
  {<<"enlist", "undo">>, <<"grant", "undo">>, <<"grant", "find">>,
   <<"load", "release">>, <<"alive", "release">>, <<"spend", "release">>,
   <<"issue", "release">>, <<"extend", "release">>, <<"extend", "retract">>,
   <<"store", "retract">>, <<"release", "retract">>}

Fail(p) ==
  /\ Faults
  /\ \/ \E f \in Failures :
          /\ At(p, f[1])
          /\ f[2] = "retract" => proc[p].fresh # None
          /\ Goes(p, [proc[p] EXCEPT !.stage = f[2],
                        !.op = IF @ = "login" THEN "revoke" ELSE @,
                        !.fresh = IF f[2] = "release" THEN None ELSE @])
     \/ /\ proc[p].op = "logout"
        /\ At(p, "find") \/ At(p, "drop")
        /\ To(p, "forget")
     \/ /\ ~At(p, "idle")
        /\ Finish(p)
  /\ UNCHANGED <<accounts, redisVars, drawnVars, historyVars>>

Aged(key) == IF key = None \/ key.left = Never THEN key
             ELSE IF key.left <= 1 THEN None ELSE [key EXCEPT !.left = @ - 1]

(* Every key with a TTL loses a tick of it.                                *)
Tick ==
  /\ \/ \E s \in Sessions : sessions[s] # None /\ sessions[s].left # Never
     \/ \E u \in Users : sets[u] # EmptySet
     \/ \E t \in Tokens : tokens[t] > 0 \/ locks[t] # None
  /\ sessions' = [s \in Sessions |-> Aged(sessions[s])]
  /\ sets' = [u \in Users |-> IF sets[u].left <= 1 THEN EmptySet
                              ELSE [sets[u] EXCEPT !.left = @ - 1]]
  /\ tokens' = [t \in Tokens |-> IF tokens[t] = 0 THEN 0 ELSE tokens[t] - 1]
  /\ locks' = [t \in Tokens |-> Aged(locks[t])]
  /\ Missed
  /\ late' = late \cup {t \in Tokens : locks'[t] = None /\ Rotated(t)}
  /\ UNCHANGED <<accounts, drawnVars, proc, given, heirs, revoked>>

-----------------------------------------------------------------------------
Init ==
  /\ accounts = Users
  /\ sessions = [s \in Sessions |-> None]
  /\ sets = [u \in Users |-> EmptySet]
  /\ tokens = [t \in Tokens |-> 0]
  /\ locks = [t \in Tokens |-> None]
  /\ logins = [s \in Sessions |-> None]
  /\ source = [t \in Tokens |-> None]
  /\ proc = [p \in Procs |-> Idle]
  /\ given = {}
  /\ heirs = [t \in Tokens |-> {}]
  /\ revoked = {}
  /\ late = {}
  /\ stale = {}

Handle(p) ==
  \/ Account(p) \/ Create(p) \/ Enlist(p) \/ Undo(p) \/ Grant(p)
  \/ Acquire(p) \/ Load(p) \/ Alive(p) \/ Spend(p) \/ Issue(p)
  \/ Extend(p) \/ Store(p) \/ Retract(p) \/ Release(p)
  \/ Beat(p) \/ Keep(p)
  \/ Find(p) \/ Drop(p) \/ Forget(p)
  \/ Erase(p) \/ Members(p) \/ Each(p) \/ Discard(p) \/ Wipe(p) \/ Prune(p)
  \/ Sweep(p) \/ Unsweep(p)

Next ==
  \/ \E p \in Procs : (\E op \in Ops : Receive(p, op)) \/ Handle(p) \/ Fail(p)
  \/ Tick

Spec == Init /\ [][Next]_vars

-----------------------------------------------------------------------------
(* Properties *)

(* Types; Redis keeps no empty set.                                        *)
TypeOK ==
  /\ accounts \subseteq Users
  /\ sessions \in [Sessions -> Keys \cup {None}]
  /\ sets \in [Users -> [members : SUBSET Sessions, left : Nat]]
  /\ \A u \in Users : sets[u].members = {} <=> sets[u].left = 0
  /\ tokens \in [Tokens -> Nat]
  /\ locks \in [Tokens -> [by : Procs, left : Nat] \cup {None}]
  /\ logins \in [Sessions -> [user : Users, life : Lives] \cup {None}]
  /\ source \in [Tokens -> Sessions \cup {None}]
  /\ proc \in [Procs -> Requests]
  /\ given \subseteq Tokens
  /\ heirs \in [Tokens -> SUBSET Tokens]
  /\ revoked \cup stale \subseteq Sessions
  /\ late \subseteq Tokens

(* A refresh token is exchanged at most once, however many requests        *)
(* present it together (the lock and the DEL of RefreshTokens), if its     *)
(* lock never runs out on a request at work.                               *)
RotatedOnce == \A t \in Tokens \ late : Cardinality(heirs[t]) <= 1

(* Then a session never has two refresh tokens that live either, whatever  *)
(* fails on the way from one to the next.                                  *)
OneLiveToken ==
  \A t1, t2 \in Tokens :
    tokens[t1] > 0 /\ tokens[t2] > 0 /\ source[t1] = source[t2]
      => t1 = t2 \/ \E t \in late : source[t] = source[t1]

(* A session that was revoked is not there again.                          *)
RevokedStaysRevoked == \A s \in revoked : sessions[s] = None

(* Rotations and heartbeats bring back a session that was revoked, and     *)
(* keep one for ever, only when it goes away in the one call between their *)
(* GET and their SET.                                                      *)
RevivedOnlyByStale == \A s \in revoked \ stale : sessions[s] = None
ImmortalOnlyByStale ==
  \A s \in Sessions \ stale : sessions[s] # None => sessions[s].left # Never

(* Requests that do not overlap leave a set that knows each session of its *)
(* user, as long as all logins of the user were of one kind (remembered or *)
(* not) and no session was written back after its end.                     *)
Quiet == \A p \in Procs : At(p, "idle")
SetCovers ==
  \A u \in Users :
    LET mine == {s \in Sessions : logins[s] # None /\ User(s) = u}
    IN Quiet /\ Cardinality({Life(s) : s \in mine}) = 1
         => \A s \in mine \ stale : sessions[s] # None => s \in sets[u].members

(* Requests that do not overlap leave a session that names the refresh     *)
(* token that lives for it, so that revoking the one revokes the other.    *)
RevocableToken ==
  Quiet => \A t \in Tokens : tokens[t] > 0 /\ sessions[source[t]] # None
                             => sessions[source[t]].token = t

(* When everything of a user has been revoked, or the account deleted, no  *)
(* refresh token of the user lives, not even of sessions the set has lost. *)
Ends(p) == /\ Sweeps(proc[p].op) /\ proc[p].stage \notin {"idle", "erase"}
           /\ proc'[p] = Idle
SweptClean ==
  [][\A p \in Procs : Ends(p) =>
       \A t \in Tokens : source[t] # None /\ User(source[t]) = proc[p].user
                         => tokens'[t] = 0]_vars

(* "Revoke All My Active Sessions including this Session (Force Logout     *)
(* All)": when it ends no session of the user lives.                       *)
ForceLogoutAll ==
  [][\A p \in Procs : Ends(p) =>
       \A s \in Sessions : logins[s] # None /\ User(s) = proc[p].user
                           => sessions'[s] = None]_vars
=============================================================================
