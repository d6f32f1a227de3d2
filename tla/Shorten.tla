------------------------------- MODULE Shorten -------------------------------
(***************************************************************************)
(* The life of a short link: internal/url-shortener/shortener/service.go   *)
(* over repository.go.                                                     *)
(*                                                                         *)
(* One link lives in three places that no transaction ties together: a row *)
(* of PostgreSQL, a copy in the Redis cache, and a member of the Redis     *)
(* sorted set that tells the background worker when to deactivate it.      *)
(* Requests run on goroutines of their own and touch the three stores one  *)
(* call at a time, so an action of this module is one such call, and the   *)
(* stage of a request is the call it makes next.                           *)
(***************************************************************************)
EXTENDS Integers, FiniteSets

CONSTANTS
  Links,      \* primary keys of rows, as numbers in the order of the keys
  Codes,      \* short codes
  CodeOf,     \* CodeOf[l]: the random code drawn for link l
  Users,      \* accounts whose role is "user"
  Admins,     \* accounts whose role is "admin"
  Leavers,    \* the users whose account may be deleted
  Nobody,     \* the owner of a public link (NULL), and an anonymous caller
  Urls,       \* original URLs
  Expiries,   \* instants a caller may ask for as expires_at
  Never,      \* a NULL expires_at
  Keep,       \* a field that an update leaves out
  NoRow, NoEntry, NoScore, NoRequest, NoCode,   \* absent values
  PublicTTL,  \* the life of a public link, in ticks (three days)
  Second,     \* ticks in a second
  MaxTime,    \* bound on the clock
  BatchSize,  \* Count of the worker's ZRANGEBYSCORE (100)
  Procs,      \* goroutines that serve requests
  Jobs,       \* Jobs[p]: the operations goroutine p is asked for
  Workers,    \* expiry workers, one per server process
  Faults      \* may calls fail, clients disconnect and processes stop?

Accounts == Users \cup Admins
Callers == Accounts \cup {Nobody}
Ops == {"create", "update", "status", "delete", "redirect"}

ASSUME DomainAssumption ==
  /\ Links \subseteq Nat
  /\ CodeOf \in [Links -> Codes]
  /\ Jobs \in [Procs -> SUBSET Ops]
  /\ Leavers \subseteq Users
  /\ Users \cap Admins = {}
  /\ Expiries \subseteq Nat
ASSUME NullAssumption ==
  /\ Never \notin Nat
  /\ Keep \notin Nat \cup BOOLEAN \cup Urls /\ Keep # Never
  /\ NoScore \notin Nat
  /\ NoCode \notin Codes
  /\ Nobody \notin Accounts
ASSUME BoundAssumption ==
  /\ PublicTTL \in Nat /\ MaxTime \in Nat
  /\ Second \in Nat \ {0} /\ BatchSize \in Nat \ {0}
  /\ Faults \in BOOLEAN

(***************************************************************************)
(* What the stores hold.  A cached copy carries its remaining life, which  *)
(* is Never for a key set without a TTL.                                   *)
(***************************************************************************)
Instants == Nat \cup {Never}
Rows == [owner : Callers, url : Urls, exp : Instants, active : BOOLEAN]
Entries == [url : Urls, exp : Instants, active : BOOLEAN, left : Instants]
Requests == [op : Ops, link : Links, who : Callers,
             url : Urls \cup {Keep}, exp : Instants \cup {Keep},
             active : BOOLEAN \cup {Keep}]
ASSUME AbsenceAssumption ==
  NoRow \notin Rows /\ NoEntry \notin Entries /\ NoRequest \notin Requests

Stages == {"idle", "insert", "check", "write", "reread", "set", "schedule",
           "drop", "unschedule", "remove", "lookup", "fetch"}
WorkerStages == {"ready", "claimed", "clearing"}

VARIABLES
  rows,      \* rows[l]: the row of link l in PostgreSQL
  issued,    \* links whose key was drawn: a UUID is never drawn again
  cache,     \* cache[c]: the Redis key "shorten:c"
  queue,     \* queue[c]: the score of c in the sorted set of expiries
  accounts,  \* accounts that exist
  now,       \* the clock
  stage,     \* stage[p]: the call goroutine p makes next
  req,       \* req[p]: the request it serves
  seen,      \* seen[p]: the row it last read (existing, result, shorten)
  batch,     \* batch[w]: codes of ZRANGEBYSCORE that w has still to claim
  wstage,    \* wstage[w]: what w does next
  held,      \* held[w]: the code w took off the queue and works on
  grants     \* history: every expiry that rows of code c ever had

dbVars == <<rows, issued, accounts, grants>>
workerVars == <<batch, wstage, held>>
requestVars == <<stage, req, seen>>
vars == <<rows, issued, cache, queue, accounts, now, stage, req, seen,
          batch, wstage, held, grants>>

-----------------------------------------------------------------------------
(* Time *)

Unix(t) == t \div Second

Expired(e) == e # Never /\ now > e

(* Mutant: the expiry of a cached copy is left to the TTL of Redis.        *)
ShouldServeIfActive(x) == x.active

ShouldServe(x) == x.active /\ ~Expired(x.exp)

(* Mutants: a link that has expired is cached without a TTL, or with the   *)
(* negative rest of its life.                                              *)
TTLZeroIfPast(e) == IF e = Never \/ e <= now THEN Never ELSE e - now
TTLUnfloored(e) == IF e = Never THEN Never ELSE e - now

(* resolveTTL: 0, which Redis takes as "no TTL", for a link that never     *)
(* expires, and one second for a link that has expired already.            *)
TTL(e) == IF e = Never THEN Never ELSE IF e <= now THEN Second ELSE e - now

CacheEntity(row) == [url |-> row.url, exp |-> row.exp, active |-> row.active,
                     left |-> TTL(row.exp)]

-----------------------------------------------------------------------------
(* Helpers of the handlers *)

Code(p) == CodeOf[req[p].link]

(* Mutant: a link without an owner is anybody's.                           *)
MayTouchUnowned(who, row) == who \in Users => row.owner \in {who, Nobody}

(* A caller whose role is not "user" skips the comparison of owners.       *)
MayTouch(who, row) == who \in Users => row.owner = who

Proceed(p, s) == /\ stage' = [stage EXCEPT ![p] = s]
                 /\ UNCHANGED <<req, seen>>

Read(p, row, s) == /\ stage' = [stage EXCEPT ![p] = s]
                   /\ seen' = [seen EXCEPT ![p] = row]
                   /\ UNCHANGED req

Finish(p) == /\ stage' = [stage EXCEPT ![p] = "idle"]
             /\ req' = [req EXCEPT ![p] = NoRequest]
             /\ seen' = [seen EXCEPT ![p] = NoRow]

WithCode(c) == {l \in Links : CodeOf[l] = c /\ rows[l] # NoRow}

(* The row GetShortenByShortCode finds: First orders by primary key.       *)
IsFirstWithCode(l, c) == /\ l \in WithCode(c)
                         /\ \A k \in WithCode(c) : l <= k

(* A patch leaves alone what it does not name.                             *)
Patched(row, r) ==
  [row EXCEPT !.url = IF r.url = Keep THEN @ ELSE r.url,
              !.exp = IF r.exp = Keep THEN @ ELSE r.exp,
              !.active = IF r.active = Keep THEN @ ELSE r.active]

(* The effect of a call whose error the code does not look at.             *)
Unchecked(effect, none) == effect \/ (Faults /\ none)

-----------------------------------------------------------------------------
(* Requests *)

(* What a request carries.  The routes under /me and /admin need a token,  *)
(* a public link takes three days from the moment of the request, and only *)
(* an update may leave fields out.                                         *)
WellFormed(r) ==
  /\ r.op = "create" => /\ r.url # Keep
                        /\ IF r.who = Nobody THEN r.exp = now + PublicTTL
                           ELSE r.exp \in Expiries \cup {Never}
  /\ r.op = "update" => r.exp \in Expiries \cup {Never, Keep}
  /\ r.op \notin {"create", "update"} => r.url = Keep /\ r.exp = Keep
  /\ (r.op = "status") = (r.active # Keep)
  /\ r.op = "redirect" => r.who = Nobody
  /\ r.op \notin {"create", "redirect"} => r.who # Nobody

FirstStage(op) == IF op = "create" THEN "insert"
                  ELSE IF op = "redirect" THEN "lookup" ELSE "check"

(* Bound: a public link is created while its expiry fits in the clock.     *)
Receive(p, r) ==
  /\ stage[p] = "idle"
  /\ r.op \in Jobs[p]
  /\ WellFormed(r)
  /\ r.op = "create" => r.link \notin issued /\ (r.exp \in Nat => r.exp < MaxTime)
  /\ issued' = IF r.op = "create" THEN issued \cup {r.link} ELSE issued
  /\ stage' = [stage EXCEPT ![p] = FirstStage(r.op)]
  /\ req' = [req EXCEPT ![p] = r]
  /\ UNCHANGED <<rows, accounts, grants, seen, cache, queue, now, workerVars>>

(* The INSERT; the foreign key refuses an owner without an account.        *)
Insert(p) ==
  LET r == req[p]
      row == [owner |-> r.who, url |-> r.url, exp |-> r.exp, active |-> TRUE]
  IN /\ stage[p] = "insert"
     /\ IF r.who \in accounts \cup {Nobody}
          THEN /\ rows' = [rows EXCEPT ![r.link] = row]
               /\ grants' = [grants EXCEPT ![Code(p)] = @ \cup {r.exp}]
               /\ Read(p, row, "set")
          ELSE Finish(p) /\ UNCHANGED <<rows, grants>>
     /\ UNCHANGED <<issued, accounts, cache, queue, now, workerVars>>

(* The SELECT of the row, then the comparison of owner and caller.         *)
Check(p) ==
  LET row == rows[req[p].link]
  IN /\ stage[p] = "check"
     /\ IF row # NoRow /\ MayTouch(req[p].who, row)
          THEN Read(p, row, IF req[p].op = "delete" THEN "drop" ELSE "write")
          ELSE Finish(p)
     /\ UNCHANGED <<dbVars, cache, queue, now, workerVars>>

(* The UPDATE, by primary key alone.                                       *)
Write(p) ==
  LET r == req[p]
      row == Patched(rows[r.link], r)
  IN /\ stage[p] = "write"
     /\ IF rows[r.link] # NoRow
          THEN /\ rows' = [rows EXCEPT ![r.link] = row]
               /\ grants' = [grants EXCEPT ![Code(p)] = @ \cup {row.exp}]
               /\ Proceed(p, "reread")
          ELSE Finish(p) /\ UNCHANGED <<rows, grants>>
     /\ UNCHANGED <<issued, accounts, cache, queue, now, workerVars>>

(* The second SELECT.  An update caches what it finds, active or not; a    *)
(* change of status goes by the is_active it finds.                        *)
Reread(p) ==
  LET row == rows[req[p].link]
  IN /\ stage[p] = "reread"
     /\ IF row # NoRow
          THEN Read(p, row, IF req[p].op = "update" \/ row.active
                              THEN "set" ELSE "drop")
          ELSE Finish(p)
     /\ UNCHANGED <<dbVars, cache, queue, now, workerVars>>

(* Mutant: a link that is activated again is cached but not scheduled.     *)
CacheShortenOnly(p) ==
  /\ stage[p] = "set"
  /\ cache' = [cache EXCEPT ![Code(p)] = CacheEntity(seen[p])]
  /\ IF req[p].op \in {"redirect", "status"} THEN Finish(p) ELSE Proceed(p, "schedule")
  /\ UNCHANGED <<dbVars, queue, now, workerVars>>

(* cacheShorten: a SET that overwrites.  A redirect then answers.          *)
CacheShorten(p) ==
  /\ stage[p] = "set"
  /\ cache' = [cache EXCEPT ![Code(p)] = CacheEntity(seen[p])]
  /\ IF req[p].op = "redirect" THEN Finish(p) ELSE Proceed(p, "schedule")
  /\ UNCHANGED <<dbVars, queue, now, workerVars>>

(* Mutants: a link that never expires stays in the queue, or a link that   *)
(* has expired is not put there.                                           *)
ScheduleExpiryOnlyAdds(p) ==
  /\ stage[p] = "schedule"
  /\ queue' = IF seen[p].exp = Never THEN queue
              ELSE [queue EXCEPT ![Code(p)] = Unix(seen[p].exp)]
  /\ Finish(p)
  /\ UNCHANGED <<dbVars, cache, now, workerVars>>

ScheduleExpiryIfAhead(p) ==
  /\ stage[p] = "schedule"
  /\ queue' = [queue EXCEPT ![Code(p)] =
                 IF seen[p].exp = Never \/ Expired(seen[p].exp) THEN NoScore
                 ELSE Unix(seen[p].exp)]
  /\ Finish(p)
  /\ UNCHANGED <<dbVars, cache, now, workerVars>>

(* scheduleExpiry: ZREM, or ZADD with the seconds of the expiry.           *)
ScheduleExpiry(p) ==
  /\ stage[p] = "schedule"
  /\ queue' = [queue EXCEPT ![Code(p)] =
                 IF seen[p].exp = Never THEN NoScore ELSE Unix(seen[p].exp)]
  /\ Finish(p)
  /\ UNCHANGED <<dbVars, cache, now, workerVars>>

(* Mutant: the DEL is forgotten.                                           *)
DropCacheNot(p) ==
  /\ stage[p] = "drop"
  /\ IF req[p].op = "redirect" THEN Finish(p) ELSE Proceed(p, "unschedule")
  /\ UNCHANGED <<dbVars, cache, queue, now, workerVars>>

(* A DEL of the cached copy whose error is not looked at.                  *)
DropCache(p) ==
  /\ stage[p] = "drop"
  /\ Unchecked(cache' = [cache EXCEPT ![Code(p)] = NoEntry], UNCHANGED cache)
  /\ IF req[p].op = "redirect" THEN Finish(p) ELSE Proceed(p, "unschedule")
  /\ UNCHANGED <<dbVars, queue, now, workerVars>>

(* Mutant: the ZREM is forgotten.                                          *)
UnscheduleNot(p) ==
  /\ stage[p] = "unschedule"
  /\ IF req[p].op = "delete" THEN Proceed(p, "remove") ELSE Finish(p)
  /\ UNCHANGED <<dbVars, cache, queue, now, workerVars>>

(* A ZREM whose error is not looked at.                                    *)
Unschedule(p) ==
  /\ stage[p] = "unschedule"
  /\ Unchecked(queue' = [queue EXCEPT ![Code(p)] = NoScore], UNCHANGED queue)
  /\ IF req[p].op = "delete" THEN Proceed(p, "remove") ELSE Finish(p)
  /\ UNCHANGED <<dbVars, cache, now, workerVars>>

(* The DELETE, last of all; without the row it only reports an error.      *)
Remove(p) ==
  /\ stage[p] = "remove"
  /\ rows' = [rows EXCEPT ![req[p].link] = NoRow]
  /\ Finish(p)
  /\ UNCHANGED <<issued, accounts, grants, cache, queue, now, workerVars>>

(* GetOriginalURL: the GET of the cache answers by itself on a hit ...     *)
ServeCached(p) ==
  /\ stage[p] = "lookup"
  /\ cache[Code(p)] # NoEntry
  /\ ShouldServe(cache[Code(p)])
  /\ Finish(p)
  /\ UNCHANGED <<dbVars, cache, queue, now, workerVars>>

(* ... a copy that must not be served is dropped, and a miss asks the      *)
(* database.                                                               *)
LookupOther(p) ==
  /\ stage[p] = "lookup"
  /\ \/ /\ cache[Code(p)] = NoEntry
        /\ Proceed(p, "fetch")
     \/ /\ cache[Code(p)] # NoEntry
        /\ ~ShouldServe(cache[Code(p)])
        /\ Proceed(p, "drop")
  /\ UNCHANGED <<dbVars, cache, queue, now, workerVars>>

(* The row is served, once cached, ...                                     *)
FetchServed(p) ==
  /\ stage[p] = "fetch"
  /\ \E l \in Links : /\ IsFirstWithCode(l, Code(p))
                      /\ ShouldServe(rows[l])
                      /\ Read(p, rows[l], "set")
  /\ UNCHANGED <<dbVars, cache, queue, now, workerVars>>

(* ... unless there is none, or it is inactive or expired.                 *)
FetchNotFound(p) ==
  /\ stage[p] = "fetch"
  /\ \A l \in Links : IsFirstWithCode(l, Code(p)) => ~ShouldServe(rows[l])
  /\ Finish(p)
  /\ UNCHANGED <<dbVars, cache, queue, now, workerVars>>

(* A call returns an error, the client goes away (which cancels the        *)
(* context of every later call) or the process stops.  An error that hides *)
(* an effect is the same step taken one stage later.                       *)
Abort(p) ==
  /\ Faults
  /\ stage[p] # "idle"
  /\ Finish(p)
  /\ UNCHANGED <<dbVars, cache, queue, now, workerVars>>

-----------------------------------------------------------------------------
(* The expiry worker *)

Due == {c \in Codes : queue[c] # NoScore /\ queue[c] <= Unix(now)}

(* ZRANGEBYSCORE with a Count: the lowest scores.                          *)
Lowest(B) == /\ B \subseteq Due
             /\ \/ B = Due /\ Cardinality(Due) <= BatchSize
                \/ Cardinality(B) = BatchSize
             /\ \A b \in B, d \in Due \ B : queue[b] <= queue[d]

Scan(w) ==
  /\ wstage[w] = "ready"
  /\ batch[w] = {}
  /\ Due # {}
  /\ \E B \in SUBSET Codes : Lowest(B) /\ batch' = [batch EXCEPT ![w] = B]
  /\ UNCHANGED <<dbVars, requestVars, cache, queue, now, wstage, held>>

(* The ZREM that decides which worker handles the code.  A code that is    *)
(* no longer queued is passed over, and so is one whose ZREM fails,        *)
(* whether or not Redis carried it out.                                    *)
Claim(w, c) ==
  /\ wstage[w] = "ready"
  /\ c \in batch[w]
  /\ batch' = [batch EXCEPT ![w] = @ \ {c}]
  /\ \/ /\ queue[c] # NoScore
        /\ queue' = [queue EXCEPT ![c] = NoScore]
        /\ wstage' = [wstage EXCEPT ![w] = "claimed"]
        /\ held' = [held EXCEPT ![w] = c]
     \/ /\ queue[c] = NoScore
        /\ UNCHANGED <<queue, wstage, held>>
     \/ /\ Faults
        /\ queue[c] # NoScore
        /\ queue' \in {queue, [queue EXCEPT ![c] = NoScore]}
        /\ UNCHANGED <<wstage, held>>
  /\ UNCHANGED <<dbVars, requestVars, cache, now>>

(* DeactivateByShortCode: every row with the code; an error is logged.     *)
Deactivate(w) ==
  /\ wstage[w] = "claimed"
  /\ Unchecked(rows' = [l \in Links |-> IF l \in WithCode(held[w])
                                          THEN [rows[l] EXCEPT !.active = FALSE]
                                          ELSE rows[l]],
               UNCHANGED rows)
  /\ wstage' = [wstage EXCEPT ![w] = "clearing"]
  /\ UNCHANGED <<issued, accounts, grants, requestVars, cache, queue, now, batch, held>>

ClearCache(w) ==
  /\ wstage[w] = "clearing"
  /\ Unchecked(cache' = [cache EXCEPT ![held[w]] = NoEntry], UNCHANGED cache)
  /\ wstage' = [wstage EXCEPT ![w] = "ready"]
  /\ held' = [held EXCEPT ![w] = NoCode]
  /\ UNCHANGED <<dbVars, requestVars, queue, now, batch>>

(* The process stops: main does not wait for the worker it cancels.        *)
WorkerStops(w) ==
  /\ Faults
  /\ batch[w] # {} \/ wstage[w] # "ready"
  /\ batch' = [batch EXCEPT ![w] = {}]
  /\ wstage' = [wstage EXCEPT ![w] = "ready"]
  /\ held' = [held EXCEPT ![w] = NoCode]
  /\ UNCHANGED <<dbVars, requestVars, cache, queue, now>>

-----------------------------------------------------------------------------
(* The environment *)

(* Redis lets a copy go when its life runs out.  The clock stops at        *)
(* MaxTime, the lives of cached copies run on.                             *)
Tick ==
  /\ now < MaxTime \/ \E c \in Codes : cache[c] # NoEntry /\ cache[c].left # Never
  /\ now' = IF now < MaxTime THEN now + 1 ELSE now
  /\ cache' = [c \in Codes |->
                 IF cache[c] = NoEntry \/ cache[c].left = Never THEN cache[c]
                 ELSE IF cache[c].left <= 1 THEN NoEntry
                 ELSE [cache[c] EXCEPT !.left = @ - 1]]
  /\ UNCHANGED <<dbVars, requestVars, queue, workerVars>>

(* An account is deleted: the foreign key takes its links along, and       *)
(* nothing tells Redis.                                                    *)
DeleteUser(u) ==
  /\ u \in accounts
  /\ accounts' = accounts \ {u}
  /\ rows' = [l \in Links |-> IF rows[l] # NoRow /\ rows[l].owner = u
                                THEN NoRow ELSE rows[l]]
  /\ UNCHANGED <<issued, grants, requestVars, cache, queue, now, workerVars>>

-----------------------------------------------------------------------------
Init ==
  /\ rows = [l \in Links |-> NoRow]
  /\ issued = {}
  /\ cache = [c \in Codes |-> NoEntry]
  /\ queue = [c \in Codes |-> NoScore]
  /\ accounts = Accounts
  /\ now = 0
  /\ stage = [p \in Procs |-> "idle"]
  /\ req = [p \in Procs |-> NoRequest]
  /\ seen = [p \in Procs |-> NoRow]
  /\ batch = [w \in Workers |-> {}]
  /\ wstage = [w \in Workers |-> "ready"]
  /\ held = [w \in Workers |-> NoCode]
  /\ grants = [c \in Codes |-> {}]

Handle(p) ==
  \/ Insert(p) \/ Check(p) \/ Write(p) \/ Reread(p)
  \/ CacheShorten(p) \/ ScheduleExpiry(p)
  \/ DropCache(p) \/ Unschedule(p) \/ Remove(p)
  \/ ServeCached(p) \/ LookupOther(p) \/ FetchServed(p) \/ FetchNotFound(p)

Work(w) == \/ Scan(w)
           \/ \E c \in Codes : Claim(w, c)
           \/ Deactivate(w)
           \/ ClearCache(w)

(* Requests a client may send now; a public link's expiry is not chosen.   *)
Asked == [op : Ops, link : Links, who : Callers, url : Urls \cup {Keep},
          exp : Expiries \cup {Never, Keep, now + PublicTTL},
          active : BOOLEAN \cup {Keep}]

Next ==
  \/ \E p \in Procs : (\E r \in Asked : Receive(p, r)) \/ Handle(p) \/ Abort(p)
  \/ \E w \in Workers : Work(w) \/ WorkerStops(w)
  \/ \E u \in Leavers : DeleteUser(u)
  \/ Tick

Spec == Init /\ [][Next]_vars

(* Environment assumptions under which some properties are stated.         *)
Changing(p) == stage[p] # "idle" /\ req[p].op # "redirect"

(* No two requests change links of one code at the same time.              *)
ChangesAlone ==
  \A p, q \in Procs : p # q /\ Changing(p) /\ Changing(q) => Code(p) # Code(q)

(* Whatever works on a code works on it alone, redirects and the worker    *)
(* included.                                                               *)
CodesAlone ==
  /\ \A p, q \in Procs : p # q /\ stage[p] # "idle" /\ stage[q] # "idle"
                           => Code(p) # Code(q)
  /\ \A p \in Procs, w \in Workers :
       stage[p] # "idle" => Code(p) \notin batch[w] \cup {held[w]}

SpecChangesAlone == Init /\ [][Next /\ ChangesAlone']_vars
SpecCodesAlone == Init /\ [][Next /\ CodesAlone']_vars

(* Requests in flight and the worker go on, and time passes.  The worker's *)
(* ticker makes it scan again and again; nothing makes a client ask.       *)
Fairness ==
  /\ \A p \in Procs : WF_vars(Handle(p))
  /\ \A w \in Workers : WF_vars(Work(w))
  /\ WF_vars(Tick)

FairSpec == Spec /\ Fairness
FairSpecChangesAlone == SpecChangesAlone /\ Fairness

-----------------------------------------------------------------------------
(* Properties *)

(* Types of the variables.                                                 *)
TypeOK ==
  /\ rows \in [Links -> Rows \cup {NoRow}]
  /\ issued \subseteq Links
  /\ cache \in [Codes -> Entries \cup {NoEntry}]
  /\ queue \in [Codes -> Nat \cup {NoScore}]
  /\ accounts \subseteq Accounts
  /\ now \in Nat
  /\ stage \in [Procs -> Stages]
  /\ req \in [Procs -> Requests \cup {NoRequest}]
  /\ seen \in [Procs -> Rows \cup {NoRow}]
  /\ batch \in [Workers -> SUBSET Codes]
  /\ wstage \in [Workers -> WorkerStages]
  /\ held \in [Workers -> Codes \cup {NoCode}]
  /\ grants \in [Codes -> SUBSET Instants]

(* The latest life a code was ever given lies at t or later.               *)
Granted(c, t) == \E e \in grants[c] : e = Never \/ t <= e

(* Whatever requests overlap, whichever of their calls fail and whoever    *)
(* deletes an account, no redirect is answered from the cache after the    *)
(* last expiry that was ever given to a link of its code: a stale fill may *)
(* bring back an older expiry, never a later one.                          *)
ServedWithinGrant ==
  [][\A p \in Procs : ServeCached(p) => Granted(Code(p), now)]_vars

(* Redis drops a copy by itself no later than the last expiry its code was *)
(* ever given, or one second from now if that is later; a copy without a   *)
(* TTL exists only for a code that once had a link that never expires.     *)
CacheMortal ==
  \A c \in Codes : cache[c] # NoEntry =>
    \E e \in grants[c] :
      IF cache[c].left = Never THEN e = Never
      ELSE e # Never /\ (cache[c].left <= Second \/ now + cache[c].left <= e)

(* Who may change or remove a row once it exists: the owner, an admin, the *)
(* worker (which only deactivates) or the end of the owner's account.  The *)
(* comparison of owners is made two or four calls before the row is        *)
(* written, and other requests come in between.                            *)
MayChange(l) ==
  \/ \E p \in Procs : /\ stage[p] \in {"write", "remove"}
                       /\ req[p].link = l
                       /\ req[p].who \in Admins \cup ({rows[l].owner} \ {Nobody})
  \/ \E w \in Workers : /\ held[w] = CodeOf[l]
                         /\ rows'[l] = [rows[l] EXCEPT !.active = FALSE]
  \/ rows[l].owner \in accounts \ accounts'

AuthorisedChange ==
  [][\A l \in Links : rows[l] # NoRow /\ rows'[l] # rows[l] => MayChange(l)]_vars

(* A code that no request is changing and no worker holds is in the queue  *)
(* with the second of its row's expiry if the row is active and expires,   *)
(* and is out of the queue if it never expires: the schedule of the worker *)
(* follows every sequence of creations, updates and changes of status,     *)
(* whatever the worker does in between.                                    *)
Settled(c) == /\ \A p \in Procs : Changing(p) => Code(p) # c
              /\ \A w \in Workers : held[w] # c

ScheduleFollowsRows ==
  \A l \in Links : rows[l] # NoRow /\ Settled(CodeOf[l]) =>
    IF rows[l].exp = Never THEN queue[CodeOf[l]] = NoScore
    ELSE rows[l].active => queue[CodeOf[l]] = Unix(rows[l].exp)

(* A settled code without a row is neither cached nor queued.              *)
NothingLeftBehind ==
  \A l \in Links : rows[l] = NoRow /\ Settled(CodeOf[l]) =>
    cache[CodeOf[l]] = NoEntry /\ queue[CodeOf[l]] = NoScore

(* With one request on a code at a time the redirect answers as the row    *)
(* says: the URL is the one last written, and the link is active and has   *)
(* not expired.                                                            *)
RedirectFollowsRow ==
  [][\A p \in Procs : ServeCached(p) =>
       \E l \in WithCode(Code(p)) : /\ ShouldServe(rows[l])
                                     /\ rows[l].url = cache[Code(p)].url]_vars

(* The worker deactivates a link only in or after the second of its expiry.*)
Deactivates(l) == /\ \E w \in Workers : wstage[w] = "claimed" /\ wstage'[w] = "clearing"
                  /\ rows[l] # NoRow /\ rows[l].active
                  /\ rows'[l] # rows[l]

DeactivatesWhenDue ==
  [][\A l \in Links : Deactivates(l) =>
       rows[l].exp # Never /\ Unix(rows[l].exp) <= Unix(now)]_vars

(* README: the worker "marks expired links inactive", so a link it         *)
(* deactivates has reached its expiry.                                     *)
DeactivatesOnlyExpired ==
  [][\A l \in Links : Deactivates(l) => rows[l].exp # Never /\ rows[l].exp <= now]_vars

(* README: expired links are marked inactive, sooner or later each of them.*)
ActivePastExpiry(l) == rows[l] # NoRow /\ rows[l].active /\ Expired(rows[l].exp)

ExpiredIsDeactivated ==
  \A l \in Links : ActivePastExpiry(l) ~> ~ActivePastExpiry(l)

(* A copy that outlives its row is gone in the end, unless its code was    *)
(* given an expiry of "never".                                             *)
OrphanVanishes ==
  \A c \in Codes : (cache[c] # NoEntry /\ Never \notin grants[c] /\ WithCode(c) = {})
                     ~> (cache[c] = NoEntry \/ WithCode(c) # {})
=============================================================================
