---------------------------- MODULE RouteProofs ------------------------------
(***************************************************************************)
(* What the routes of the gateway are made of.  Every route is a gate that *)
(* changes nothing, the checks and readings of its service, and its work.  *)
(* Each of its steps fits the route: whichever error it may end in, the    *)
(* status is one that may be answered there, and says what has happened.   *)
(***************************************************************************)
EXTENDS Gateway, SequenceTheorems, TLAPS

(* The steps there are: what a check may look at, the errors named by      *)
(* checks and callers, the names of what a call is about, the constraints  *)
(* it may meet and the values that may not fit, what callers do with its   *)
(* errors, and what they undo.                                             *)
Labels ==
  Cookies \cup {"id", "body", "page", "rows", "owner", "admin", "no_admin", "no_admin_account",
                "password", "status", "bearer", "signed_not_expired"}
Terms ==
  {"InvalidInput", "BadRequest", "Unauthorized", "AccessDenied", "Forbidden", "NotFound",
   "InvalidCredentials", "SessionNotFound", "TokenRevoked", "RefreshTokenInvalid", "raw",
   "ignored"}
Names == Things \cup {"lock", "page", "set", "copy", "queue"}
Violations == {"23505", "not_set"} \cup Unfit
Fresh == {"new_session", "new_member", "new_refresh"}
Rewrites ==
  {Same, [RedisLockNotAcquired |-> "RefreshTokenConcurrent"]}
    \cup {Always(err) : err \in Terms} \cup {IfMissing(err) : err \in Terms}
Steps ==
  [kind : {"check"}, what : Labels, err : Terms]
    \cup [kind : {"limit"}, open : BOOLEAN]
    \cup [kind : {"call"}, thing : Names, needs : SUBSET Things, gives : SUBSET Things,
          takes : SUBSET Things, raw : SUBSET Violations, as : Rewrites,
          undo : SUBSET Fresh, listed : BOOLEAN]

(* The error that a call turns what a store says into, and the one that    *)
(* its caller tells.                                                       *)
Classified(st, raw) ==
  IF st.thing \in Tables \cup {"page"} THEN HandleDBError(raw) ELSE HandleRedisSetNX(raw)
Told(st, raw) ==
  IF Classified(st, raw) \in DOMAIN st.as THEN st.as[Classified(st, raw)]
  ELSE Classified(st, raw)

(* The status of an error, by the errors' mapping of the handler.          *)
StatusIn(m, err) ==
  IF err \in DOMAIN Direct THEN Direct[err]
  ELSE IF m = "user" THEN UserError(err) ELSE LinkError(err)

(* What a store may say of a failure; the statuses that blame the client;  *)
(* what is said when something that a call needs is not there.             *)
Faults(st) == IF st.thing \in Tables \cup {"page"} THEN PgFaults ELSE RedisFaults
Blamed == {400, 401, 403, 404, 409}
Missing(st) ==
  CASE st.thing \notin Tables -> "redis_nil"
    [] st.thing \in Tables \cap st.needs -> "record_not_found"
    [] OTHER -> "23503"

(* The steps that suit a part of a route with mapping m: checks and        *)
(* constraints answer statuses of A that blame the client, limits theirs,  *)
(* a value that does not fit 500, failures statuses of F, and what is not  *)
(* there statuses of L; only a check of found rows answers 404 by itself.  *)
Sound(m, A, F, L) ==
  {st \in Steps :
     /\ st.kind = "check" =>
          /\ StatusIn(m, st.err) \in A \cap Blamed
          /\ StatusIn(m, st.err) = 404 => st.what = "rows"
     /\ st.kind = "limit" => {429, 503} \subseteq A
     /\ st.kind = "call" =>
          /\ \A raw \in Faults(st) : Told(st, raw) # "ignored" =>
               StatusIn(m, Told(st, raw)) \in F
          /\ st.needs # {} /\ Told(st, Missing(st)) # "ignored" =>
               StatusIn(m, Told(st, Missing(st))) \in L
          /\ \A raw \in st.raw :
               /\ Told(st, raw) # "ignored"
               /\ StatusIn(m, Told(st, raw))
                    \in A \cap (IF raw \in Unfit THEN {500} ELSE Blamed \ {404})}

-----------------------------------------------------------------------------
(* The errors of failures.                                                 *)
Broken == {"ConnectionFailed", "Deadlock", "SerializationFailure", "TooManyConnections",
           "QueryCanceled", "InsufficientPrivilege", "Internal", "RedisConnectionFailed",
           "RedisTimeout", "RedisInternal"}

(* Whatever a store says of a failure, the error is one of a failure, and  *)
(* so is that of a value that does not fit.                                *)
LEMMA FaultsBreak ==
  /\ \A raw \in PgFaults : HandleDBError(raw) \in Broken
  /\ \A raw \in Unfit : HandleDBError(raw) \in Broken
  /\ \A raw \in RedisFaults : HandleRedisSetNX(raw) \in Broken
<1>1. \A raw \in PgFaults : HandleDBError(raw) \in Broken
  BY DEF PgFaults, HandleDBError, HandlePGError, Broken
<1>2. \A raw \in RedisFaults : HandleRedisSetNX(raw) \in Broken
  BY DEF RedisFaults, HandleRedisSetNX, HandleRedisError, IsTimeoutError, Broken
<1>3. \A raw \in Unfit : HandleDBError(raw) \in Broken
  BY DEF Unfit, HandleDBError, HandlePGError, Broken
<1>. QED  BY <1>1, <1>2, <1>3

(* An error of a failure is no other error, and both mappings answer 500   *)
(* to it.                                                                  *)
LEMMA BrokenIs500 ==
  /\ Broken \subseteq Errors
  /\ \A err \in Broken : /\ err # "ignored" /\ err # "RedisKeyNotFound"
                         /\ err # "RedisLockNotAcquired"
                         /\ \A m : StatusIn(m, err) = 500
<1>1. Broken \subseteq Errors
  <2>1. {"ConnectionFailed", "Deadlock", "SerializationFailure", "TooManyConnections",
         "QueryCanceled", "InsufficientPrivilege", "Internal"} \subseteq Errors
    <3>1. /\ HandleDBError("network") = "ConnectionFailed"
          /\ HandleDBError("40P01") = "Deadlock"
          /\ HandleDBError("40001") = "SerializationFailure"
          /\ HandleDBError("53300") = "TooManyConnections"
          /\ HandleDBError("57014") = "QueryCanceled"
          /\ HandleDBError("42501") = "InsufficientPrivilege"
          /\ HandleDBError("57P01") = "Internal"
      BY DEF HandleDBError, HandlePGError
    <3>. QED  BY <3>1 DEF Errors, PgFaults
  <2>2. {"RedisConnectionFailed", "RedisTimeout", "RedisInternal"} \subseteq Errors
    <3>1. /\ HandleRedisSetNX("network") = "RedisConnectionFailed"
          /\ HandleRedisSetNX("deadline_exceeded") = "RedisTimeout"
          /\ HandleRedisSetNX("LOADING") = "RedisInternal"
      BY DEF HandleRedisSetNX, HandleRedisError, IsTimeoutError
    <3>. QED  BY <3>1 DEF Errors, RedisFaults
  <2>. QED  BY <2>1, <2>2 DEF Broken
<1>2. \A err \in Broken : \A m : StatusIn(m, err) = 500
  BY DEF Broken, StatusIn, Direct, UserError, LinkError
<1>. QED  BY <1>1, <1>2 DEF Broken

(* What the stores say of what is not there, and of constraints.           *)
LEMMA Missings ==
  /\ HandleDBError("record_not_found") = "NotFound"
  /\ HandleDBError("23503") = "ForeignKeyViolation"
  /\ HandleDBError("23505") = "AlreadyExists"
  /\ HandleRedisSetNX("redis_nil") = "RedisKeyNotFound"
  /\ HandleRedisSetNX("not_set") = "RedisLockNotAcquired"
  /\ {"NotFound", "ForeignKeyViolation", "AlreadyExists", "RedisKeyNotFound",
      "RedisLockNotAcquired"} \subseteq Errors
<1>1. /\ HandleDBError("record_not_found") = "NotFound"
      /\ HandleDBError("23503") = "ForeignKeyViolation"
      /\ HandleDBError("23505") = "AlreadyExists"
      /\ HandleRedisSetNX("redis_nil") = "RedisKeyNotFound"
      /\ HandleRedisSetNX("not_set") = "RedisLockNotAcquired"
  BY DEF HandleDBError, HandlePGError, HandleRedisSetNX, HandleRedisError, IsTimeoutError
<1>. QED  BY <1>1 DEF Errors

(* The errors that a caller replaces, and by which.                        *)
LEMMA RewriteOf ==
  /\ DOMAIN Same = {}
  /\ \A e : DOMAIN Always(e) = Errors /\ \A x \in Errors : Always(e)[x] = e
  /\ \A e : DOMAIN IfMissing(e) = {"RedisKeyNotFound"} /\ IfMissing(e)["RedisKeyNotFound"] = e
  /\ DOMAIN [RedisLockNotAcquired |-> "RefreshTokenConcurrent"] = {"RedisLockNotAcquired"}
  BY DEF Same, Always, IfMissing

-----------------------------------------------------------------------------
(* The fields of a call, and that it is a step.                            *)
LEMMA CallIs ==
  ASSUME NEW thing, NEW needs, NEW gives, NEW takes, NEW raw, NEW as,
         NEW st, st = Call(thing, needs, gives, takes, raw, as)
  PROVE  /\ st.kind = "call" /\ st.thing = thing /\ st.needs = needs /\ st.gives = gives
         /\ st.takes = takes /\ st.raw = raw /\ st.as = as /\ st.undo = {}
         /\ st.listed = FALSE
  BY DEF Call

LEMMA CallStep ==
  ASSUME NEW thing \in Names, NEW needs \in SUBSET Things, NEW gives \in SUBSET Things,
         NEW takes \in SUBSET Things, NEW raw \in SUBSET Violations, NEW as \in Rewrites
  PROVE  Call(thing, needs, gives, takes, raw, as) \in Steps
  BY DEF Call, Steps

LEMMA RewriteSet ==
  /\ Same \in Rewrites
  /\ \A e \in Terms : Always(e) \in Rewrites /\ IfMissing(e) \in Rewrites
  BY DEF Rewrites

(* What becomes of an error on its way to the caller.                      *)
LEMMA ErrorOf ==
  ASSUME NEW st
  PROVE  /\ \A raw \in Faults(st) : Classified(st, raw) \in Broken
         /\ st.thing \in Tables /\ st.thing \in st.needs =>
              Classified(st, Missing(st)) = "NotFound"
         /\ st.thing \in Tables /\ st.thing \notin st.needs =>
              Classified(st, Missing(st)) = "ForeignKeyViolation"
         /\ st.thing \notin Tables \cup {"page"} =>
              Classified(st, Missing(st)) = "RedisKeyNotFound"
         /\ st.thing \in Tables => Classified(st, "23505") = "AlreadyExists"
         /\ st.thing \in Tables \cup {"page"} =>
              \A raw \in Unfit : Classified(st, raw) \in Broken
<1>1. \A raw \in Faults(st) : Classified(st, raw) \in Broken
  BY FaultsBreak DEF Classified, Faults
<1>2. ASSUME st.thing \in Tables, st.thing \in st.needs
      PROVE  Classified(st, Missing(st)) = "NotFound"
  <2>1. Missing(st) = "record_not_found"
    BY <1>2 DEF Missing
  <2>. QED  BY <1>2, <2>1, Missings DEF Classified
<1>3. ASSUME st.thing \in Tables, st.thing \notin st.needs
      PROVE  Classified(st, Missing(st)) = "ForeignKeyViolation"
  <2>1. Missing(st) = "23503"
    BY <1>3 DEF Missing
  <2>. QED  BY <1>3, <2>1, Missings DEF Classified
<1>4. ASSUME st.thing \notin Tables \cup {"page"}
      PROVE  Classified(st, Missing(st)) = "RedisKeyNotFound"
  <2>1. Missing(st) = "redis_nil"
    BY <1>4 DEF Missing
  <2>. QED  BY <1>4, <2>1, Missings DEF Classified
<1>5. st.thing \in Tables => Classified(st, "23505") = "AlreadyExists"
  BY Missings DEF Classified
<1>6. st.thing \in Tables \cup {"page"} => \A raw \in Unfit : Classified(st, raw) \in Broken
  BY FaultsBreak DEF Classified
<1>. QED  BY <1>1, <1>2, <1>3, <1>4, <1>5, <1>6

(* What the caller tells, if it passes errors on, replaces every error, or *)
(* only the one of a key that is missing.                                  *)
LEMMA ToldSame ==
  ASSUME NEW st, st.as = Same
  PROVE  \A raw : Told(st, raw) = Classified(st, raw)
  BY RewriteOf DEF Told

LEMMA ToldAlways ==
  ASSUME NEW e, NEW st, st.as = Always(e)
  PROVE  /\ \A raw \in Faults(st) : Told(st, raw) = e
         /\ st.thing # "page" => Told(st, Missing(st)) = e
<1>1. \A raw : Classified(st, raw) \in Errors => Told(st, raw) = e
  BY RewriteOf DEF Told
<1>2. \A raw \in Faults(st) : Classified(st, raw) \in Errors
  BY ErrorOf, BrokenIs500
<1>3. st.thing # "page" => Classified(st, Missing(st)) \in Errors
  BY ErrorOf, Missings
<1>. QED  BY <1>1, <1>2, <1>3

LEMMA ToldIfMissing ==
  ASSUME NEW e, NEW st, st.as = IfMissing(e), st.thing \notin Tables \cup {"page"}
  PROVE  /\ \A raw \in Faults(st) : Told(st, raw) \in Broken
         /\ Told(st, Missing(st)) = e
<1>1. \A raw : IF Classified(st, raw) = "RedisKeyNotFound" THEN Told(st, raw) = e
               ELSE Told(st, raw) = Classified(st, raw)
  BY RewriteOf DEF Told
<1>. QED  BY <1>1, ErrorOf, BrokenIs500

(* Checks and limits that suit a route.                                    *)
LEMMA CheckSound ==
  ASSUME NEW m, NEW A, NEW F, NEW L, NEW what \in Labels, NEW err \in Terms,
         StatusIn(m, err) \in A, StatusIn(m, err) \in Blamed,
         StatusIn(m, err) = 404 => what = "rows"
  PROVE  Check(what, err) \in Sound(m, A, F, L)
  BY DEF Sound, Check, Steps

LEMMA CheckAnswers ==
  ASSUME NEW m, NEW A, NEW F, NEW L, NEW what \in Labels, NEW err \in Terms,
         NEW code \in {400, 401, 403}, StatusIn(m, err) = code, code \in A
  PROVE  Check(what, err) \in Sound(m, A, F, L)
  BY CheckSound DEF Blamed

LEMMA LimitSound ==
  ASSUME NEW m, NEW A, NEW F, NEW L, {429, 503} \subseteq A, NEW open \in BOOLEAN
  PROVE  Limit(open) \in Sound(m, A, F, L)
  BY DEF Sound, Limit, Steps

(* A call whose errors are passed on suits a route that may answer 500 to  *)
(* failures and to values that do not fit, 409 to a row that exists, and   *)
(* 404 to one that does not.                                               *)
LEMMA SameSound ==
  ASSUME NEW m \in {"user", "link"}, NEW A, NEW F, NEW L, 500 \in F,
         NEW st \in Steps, st.kind = "call", st.as = Same,
         \/ st.needs = {}
         \/ st.thing \in Tables /\ st.needs = {st.thing} /\ 404 \in L
         \/ st.thing \in Tables /\ st.thing \notin st.needs /\ 500 \in L,
         st.raw \subseteq {"23505"} \cup Unfit,
         "23505" \in st.raw => m = "user" /\ 409 \in A /\ st.thing \in Tables,
         st.raw \cap Unfit # {} => 500 \in A /\ st.thing \in Tables \cup {"page"}
  PROVE  st \in Sound(m, A, F, L)
<1>1. /\ StatusIn(m, "NotFound") = 404
      /\ StatusIn(m, "ForeignKeyViolation") = 500
      /\ m = "user" => StatusIn(m, "AlreadyExists") = 409
  BY DEF StatusIn, Direct, UserError, LinkError
<1>2. \A raw \in Faults(st) : StatusIn(m, Told(st, raw)) \in F
  BY ToldSame, ErrorOf, BrokenIs500
<1>3. st.needs # {} => StatusIn(m, Told(st, Missing(st))) \in L
  BY <1>1, ToldSame, ErrorOf
<1>4. ASSUME NEW raw \in st.raw
      PROVE  /\ Told(st, raw) # "ignored"
             /\ StatusIn(m, Told(st, raw))
                  \in A \cap (IF raw \in Unfit THEN {500} ELSE Blamed \ {404})
  <2>1. CASE raw \in Unfit
    <3>1. Told(st, raw) \in Broken /\ 500 \in A
      BY <2>1, ToldSame, ErrorOf
    <3>. QED  BY <2>1, <3>1, BrokenIs500
  <2>2. CASE raw \notin Unfit
    <3>1. raw = "23505"
      BY <2>2
    <3>2. Told(st, raw) = "AlreadyExists" /\ m = "user" /\ 409 \in A
      BY <3>1, ToldSame, ErrorOf
    <3>. QED  BY <1>1, <2>2, <3>2 DEF Blamed
  <2>. QED  BY <2>1, <2>2
<1>. QED  BY <1>2, <1>3, <1>4 DEF Sound

(* Calls some of whose errors are replaced.                                *)
LEMMA AlwaysSound ==
  ASSUME NEW m \in {"user", "link"}, NEW A, NEW F, NEW L, NEW e \in Terms,
         NEW st \in Steps, st.kind = "call", st.as = Always(e), st.raw = {},
         st.thing = "page" => st.needs = {},
         e # "ignored" => StatusIn(m, e) \in F /\ (st.needs # {} => StatusIn(m, e) \in L)
  PROVE  st \in Sound(m, A, F, L)
  BY ToldAlways DEF Sound

LEMMA IfMissingSound ==
  ASSUME NEW m \in {"user", "link"}, NEW A, NEW F, NEW L, 500 \in F,
         NEW e \in Terms, NEW st \in Steps, st.kind = "call", st.as = IfMissing(e),
         st.thing \notin Tables \cup {"page"}, st.raw = {},
         e # "ignored" => StatusIn(m, e) \in L
  PROVE  st \in Sound(m, A, F, L)
  BY ToldIfMissing, BrokenIs500 DEF Sound

-----------------------------------------------------------------------------
(* The calls of the services are steps.                                    *)
LEMMA CallForms ==
  /\ \A thing \in Names, as \in Rewrites :
       /\ Ask(thing, as) \in Steps
       /\ thing \in Things => Read(thing, as) \in Steps
  /\ \A thing \in Things :
       /\ \A raw \in SUBSET Violations : Write(thing, raw) \in Steps
       /\ Delete(thing) \in Steps /\ Put(thing) \in Steps /\ Del(thing) \in Steps
  /\ \A needs \in SUBSET Things, raw \in SUBSET Violations : Insert(needs, raw) \in Steps
  /\ \A raw \in SUBSET Violations :
       List(raw) \in Steps /\ \A thing \in Things : Find(thing, raw) \in Steps
  /\ \A as \in Rewrites : Revoke(as) \in Steps
  /\ Call("session", {}, {"new_session", "new_member"}, {}, {}, Same) \in Steps
  /\ Purge \in Steps
<1>. Things \subseteq Names /\ BrowserKeys \subseteq Things /\ UserKeys \subseteq Things
     /\ "made" \in Things /\ "session" \in Things /\ "page" \in Names /\ Members \subseteq Things
     /\ "member" \in Members /\ {"new_session", "new_member"} \subseteq Things
  BY DEF Names, Things, Tables, UserKeys, BrowserKeys, NewKeys, Members
<1>. Ignored \in Rewrites /\ Same \in Rewrites
  BY RewriteSet DEF Ignored, Terms
<1>1. \A thing \in Names, as \in Rewrites :
        /\ Ask(thing, as) \in Steps
        /\ thing \in Things => Read(thing, as) \in Steps
  BY CallStep DEF Ask, Read
<1>2. \A thing \in Things :
        /\ \A raw \in SUBSET Violations : Write(thing, raw) \in Steps
        /\ Delete(thing) \in Steps /\ Put(thing) \in Steps /\ Del(thing) \in Steps
  BY CallStep DEF Write, Delete, Put, Del
<1>3. \A needs \in SUBSET Things, raw \in SUBSET Violations : Insert(needs, raw) \in Steps
  BY CallStep DEF Insert
<1>4. \A raw \in SUBSET Violations :
        List(raw) \in Steps /\ \A thing \in Things : Find(thing, raw) \in Steps
  BY CallStep DEF List, Find
<1>5. \A as \in Rewrites : Revoke(as) \in Steps
  BY CallStep DEF Revoke
<1>6. Call("session", {}, {"new_session", "new_member"}, {}, {}, Same) \in Steps
  BY CallStep
<1>7. Purge \in Steps
  <2>1. Call("session", {}, {}, UserKeys \cup Members, {}, Ignored) \in Steps
    BY CallStep
  <2>2. Call("session", {}, {}, UserKeys \cup Members, {}, Ignored).kind = "call"
    BY DEF Call
  <2>. QED  BY <2>1, <2>2 DEF Purge, Steps
<1>. QED  BY <1>1, <1>2, <1>3, <1>4, <1>5, <1>6, <1>7

LEMMA SameCall ==
  ASSUME NEW m \in {"user", "link"}, NEW A, NEW F, NEW L, 500 \in F,
         NEW thing \in Names, NEW needs \in SUBSET Things, NEW gives \in SUBSET Things,
         NEW takes \in SUBSET Things, NEW raw \in SUBSET ({"23505"} \cup Unfit),
         \/ needs = {}
         \/ thing \in Tables /\ needs = {thing} /\ 404 \in L
         \/ thing \in Tables /\ thing \notin needs /\ 500 \in L,
         "23505" \in raw => m = "user" /\ 409 \in A /\ thing \in Tables,
         raw \cap Unfit # {} => 500 \in A /\ thing \in Tables \cup {"page"}
  PROVE  Call(thing, needs, gives, takes, raw, Same) \in Sound(m, A, F, L)
<1>. DEFINE st == Call(thing, needs, gives, takes, raw, Same)
<1>1. st \in Steps
  BY CallStep, RewriteSet DEF Violations
<1>2. st.kind = "call" /\ st.thing = thing /\ st.needs = needs /\ st.raw = raw
      /\ st.as = Same
  BY DEF Call
<1>. HIDE DEF st
<1>3. st \in Sound(m, A, F, L)
  BY <1>1, <1>2, SameSound
<1>. QED  BY <1>3 DEF st

(* The calls of the services whose errors are passed on suit their routes, *)
(* and under which statuses.                                               *)
LEMMA PassOn ==
  ASSUME NEW m \in {"user", "link"}, NEW A, NEW F, NEW L, 500 \in A, 500 \in F
  PROVE  /\ \A thing \in Names : Ask(thing, Same) \in Sound(m, A, F, L)
         /\ \A raw \in SUBSET Unfit : List(raw) \in Sound(m, A, F, L)
         /\ \A thing \in Tables : 404 \in L =>
              /\ Read(thing, Same) \in Sound(m, A, F, L)
              /\ Delete(thing) \in Sound(m, A, F, L)
              /\ \A raw \in SUBSET Unfit : /\ Find(thing, raw) \in Sound(m, A, F, L)
                                          /\ Write(thing, raw) \in Sound(m, A, F, L)
              /\ m = "user" /\ 409 \in A =>
                   Write(thing, {"23505", "22001"}) \in Sound(m, A, F, L)
         /\ \A thing \in Things : /\ Put(thing) \in Sound(m, A, F, L)
                                 /\ Del(thing) \in Sound(m, A, F, L)
         /\ Call("session", {}, {"new_session", "new_member"}, {}, {}, Same)
              \in Sound(m, A, F, L)
         /\ m = "user" /\ 409 \in A => Insert({}, {"23505", "22001"}) \in Sound(m, A, F, L)
         /\ Insert({}, {"22001"}) \in Sound(m, A, F, L)
         /\ 500 \in L => Insert({"account"}, {"22001"}) \in Sound(m, A, F, L)
<1>. Things \subseteq Names /\ Tables \subseteq Things /\ "made" \in Tables
     /\ "account" \in Things /\ "made" # "account" /\ "made" \notin {"account"}
     /\ "page" \in Names
  BY DEF Names, Things, Tables, UserKeys, BrowserKeys, NewKeys
<1>. /\ "23505" \notin Unfit /\ {"22001"} \in SUBSET Unfit
     /\ {"23505", "22001"} \in SUBSET ({"23505"} \cup Unfit)
  BY DEF Unfit
<1>. {"session"} \cup {"new_session", "new_member"} \subseteq Things
  BY DEF Things, UserKeys, BrowserKeys, NewKeys, Members
<1>1. \A thing \in Names : Ask(thing, Same) \in Sound(m, A, F, L)
  BY SameCall DEF Ask
<1>2. \A raw \in SUBSET Unfit : List(raw) \in Sound(m, A, F, L)
  BY SameCall DEF List
<1>3. ASSUME NEW thing \in Tables, 404 \in L
      PROVE  /\ Read(thing, Same) \in Sound(m, A, F, L)
             /\ Delete(thing) \in Sound(m, A, F, L)
             /\ \A raw \in SUBSET Unfit : /\ Find(thing, raw) \in Sound(m, A, F, L)
                                         /\ Write(thing, raw) \in Sound(m, A, F, L)
             /\ m = "user" /\ 409 \in A =>
                  Write(thing, {"23505", "22001"}) \in Sound(m, A, F, L)
  <2>1. Read(thing, Same) \in Sound(m, A, F, L) /\ Delete(thing) \in Sound(m, A, F, L)
    BY <1>3, SameCall DEF Read, Delete
  <2>2. ASSUME NEW raw \in SUBSET Unfit
        PROVE  Find(thing, raw) \in Sound(m, A, F, L) /\ Write(thing, raw) \in Sound(m, A, F, L)
    BY <1>3, SameCall DEF Find, Write
  <2>3. m = "user" /\ 409 \in A => Write(thing, {"23505", "22001"}) \in Sound(m, A, F, L)
    BY <1>3, SameCall DEF Write
  <2>. QED  BY <2>1, <2>2, <2>3
<1>4. \A thing \in Things : /\ Put(thing) \in Sound(m, A, F, L)
                          /\ Del(thing) \in Sound(m, A, F, L)
  BY SameCall DEF Put, Del
<1>5. Call("session", {}, {"new_session", "new_member"}, {}, {}, Same) \in Sound(m, A, F, L)
  BY SameCall
<1>6. /\ m = "user" /\ 409 \in A => Insert({}, {"23505", "22001"}) \in Sound(m, A, F, L)
      /\ Insert({}, {"22001"}) \in Sound(m, A, F, L)
  BY SameCall DEF Insert
<1>7. 500 \in L => Insert({"account"}, {"22001"}) \in Sound(m, A, F, L)
  <2>1. {"account"} \in SUBSET Things
    OBVIOUS
  <2>. QED  BY <2>1, SameCall DEF Insert
<1>. QED  BY <1>1, <1>2, <1>3, <1>4, <1>5, <1>6, <1>7

(* A call like one that suits a route suits it.                            *)
LEMMA LikeSound ==
  ASSUME NEW m, NEW A, NEW F, NEW L, NEW st \in Sound(m, A, F, L), st.kind = "call",
         NEW u \in Steps, u.kind = "call",
         u.thing = st.thing, u.needs = st.needs, u.raw = st.raw, u.as = st.as
  PROVE  u \in Sound(m, A, F, L)
<1>1. /\ Faults(u) = Faults(st) /\ Missing(u) = Missing(st)
      /\ \A raw : Told(u, raw) = Told(st, raw)
  BY DEF Faults, Missing, Told, Classified
<1>. QED  BY <1>1 DEF Sound

(* A call whose errors are all replaced, and one of whose errors is.       *)
LEMMA AlwaysCall ==
  ASSUME NEW m \in {"user", "link"}, NEW A, NEW F, NEW L, NEW e \in Terms,
         NEW thing \in Names, NEW needs \in SUBSET Things, NEW takes \in SUBSET Things,
         thing = "page" => needs = {},
         e # "ignored" => StatusIn(m, e) \in F /\ (needs # {} => StatusIn(m, e) \in L)
  PROVE  Call(thing, needs, {}, takes, {}, Always(e)) \in Sound(m, A, F, L)
<1>. DEFINE st == Call(thing, needs, {}, takes, {}, Always(e))
<1>1. st \in Steps
  BY CallStep, RewriteSet
<1>2. st.kind = "call" /\ st.thing = thing /\ st.needs = needs /\ st.raw = {}
      /\ st.as = Always(e)
  BY DEF Call
<1>. HIDE DEF st
<1>3. st \in Sound(m, A, F, L)
  BY <1>1, <1>2, AlwaysSound
<1>. QED  BY <1>3 DEF st

LEMMA IfMissingCall ==
  ASSUME NEW m \in {"user", "link"}, NEW A, NEW F, NEW L, 500 \in F, NEW e \in Terms,
         NEW thing \in Names, NEW needs \in SUBSET Things, NEW takes \in SUBSET Things,
         thing \notin Tables \cup {"page"},
         e # "ignored" => StatusIn(m, e) \in L
  PROVE  Call(thing, needs, {}, takes, {}, IfMissing(e)) \in Sound(m, A, F, L)
<1>. DEFINE st == Call(thing, needs, {}, takes, {}, IfMissing(e))
<1>1. st \in Steps
  BY CallStep, RewriteSet
<1>2. st.kind = "call" /\ st.thing = thing /\ st.needs = needs /\ st.raw = {}
      /\ st.as = IfMissing(e)
  BY DEF Call
<1>. HIDE DEF st
<1>3. st \in Sound(m, A, F, L)
  BY <1>1, <1>2, IfMissingSound
<1>. QED  BY <1>3 DEF st

(* The calls of the services whose errors are replaced suit their routes.  *)
LEMMA Replace ==
  ASSUME NEW m \in {"user", "link"}, NEW A, NEW F, NEW L, 500 \in F
  PROVE  /\ \A thing \in Names : /\ Ask(thing, Ignored) \in Sound(m, A, F, L)
                                 /\ Ask(thing, Always("raw")) \in Sound(m, A, F, L)
         /\ \A thing \in Things : 401 \in F \cap L =>
              /\ Read(thing, Always("Unauthorized")) \in Sound(m, A, F, L)
              /\ m = "user" =>
                   /\ Read(thing, Always("InvalidCredentials")) \in Sound(m, A, F, L)
                   /\ Read(thing, Always("TokenRevoked")) \in Sound(m, A, F, L)
         /\ m = "user" /\ 404 \in F \cap L =>
              Read("session", Always("SessionNotFound")) \in Sound(m, A, F, L)
         /\ Purge \in Sound(m, A, F, L)
         /\ Revoke(Ignored) \in Sound(m, A, F, L)
         /\ Revoke(Revoked) \in Sound(m, A, F, L)
         /\ m = "user" /\ 401 \in L =>
              Read("refresh", IfMissing("RefreshTokenInvalid")) \in Sound(m, A, F, L)
         /\ m = "user" /\ 404 \in L =>
              Read("session", IfMissing("SessionNotFound")) \in Sound(m, A, F, L)
<1>. Things \subseteq Names /\ "page" \notin Things /\ {"session", "refresh"} \subseteq Things
     /\ {"session", "refresh"} \cap Tables = {} /\ "page" \notin Tables
     /\ BrowserKeys \cup {"member"} \subseteq Things /\ UserKeys \cup Members \subseteq Things
  BY DEF Names, Things, Tables, UserKeys, BrowserKeys, NewKeys, Members
<1>. /\ StatusIn(m, "raw") = 500 /\ StatusIn(m, "Unauthorized") = 401
     /\ m = "user" => /\ StatusIn(m, "InvalidCredentials") = 401
                      /\ StatusIn(m, "TokenRevoked") = 401
                      /\ StatusIn(m, "RefreshTokenInvalid") = 401
                      /\ StatusIn(m, "SessionNotFound") = 404
  BY DEF StatusIn, Direct, UserError, LinkError
<1>1. \A thing \in Names : /\ Ask(thing, Ignored) \in Sound(m, A, F, L)
                          /\ Ask(thing, Always("raw")) \in Sound(m, A, F, L)
  BY AlwaysCall DEF Terms, Ask, Ignored
<1>2. \A thing \in Things : 401 \in F \cap L =>
        /\ Read(thing, Always("Unauthorized")) \in Sound(m, A, F, L)
        /\ m = "user" =>
             /\ Read(thing, Always("InvalidCredentials")) \in Sound(m, A, F, L)
             /\ Read(thing, Always("TokenRevoked")) \in Sound(m, A, F, L)
  BY AlwaysCall DEF Terms, Read
<1>3. m = "user" /\ 404 \in F \cap L =>
        Read("session", Always("SessionNotFound")) \in Sound(m, A, F, L)
  BY AlwaysCall DEF Terms, Read
<1>4. Purge \in Sound(m, A, F, L) /\ Revoke(Ignored) \in Sound(m, A, F, L)
  <2>. DEFINE st == Call("session", {}, {}, UserKeys \cup Members, {}, Ignored)
  <2>1. st \in Sound(m, A, F, L) /\ Revoke(Ignored) \in Sound(m, A, F, L)
    BY AlwaysCall DEF Terms, Revoke, Ignored
  <2>2. /\ st.kind = "call" /\ Purge.kind = "call" /\ Purge.thing = st.thing
        /\ Purge.needs = st.needs /\ Purge.raw = st.raw /\ Purge.as = st.as
    BY DEF Purge, Call
  <2>. HIDE DEF st
  <2>. QED  BY <2>1, <2>2, CallForms, LikeSound
<1>5. Revoke(Revoked) \in Sound(m, A, F, L)
  BY IfMissingCall DEF Terms, Revoke, Revoked
<1>6. m = "user" /\ 401 \in L =>
        Read("refresh", IfMissing("RefreshTokenInvalid")) \in Sound(m, A, F, L)
  BY IfMissingCall DEF Terms, Read
<1>7. m = "user" /\ 404 \in L =>
        Read("session", IfMissing("SessionNotFound")) \in Sound(m, A, F, L)
  BY IfMissingCall DEF Terms, Read
<1>. QED  BY <1>1, <1>2, <1>3, <1>4, <1>5, <1>6, <1>7

-----------------------------------------------------------------------------
(* The services *)
LEMMA Checks ==
  ASSUME NEW m \in {"user", "link"}, NEW A, NEW F, NEW L
  PROVE  /\ 400 \in A => /\ Body \in Sound(m, A, F, L)
                         /\ Page \in Sound(m, A, F, L)
                         /\ Id \in Sound(m, A, F, L)
                         /\ Check("status", "BadRequest") \in Sound(m, A, F, L)
         /\ 401 \in A => /\ \A name \in Cookies : Cookie(name) \in Sound(m, A, F, L)
                         /\ Check("bearer", "Unauthorized") \in Sound(m, A, F, L)
                         /\ Check("signed_not_expired", "Unauthorized") \in Sound(m, A, F, L)
                         /\ m = "user" =>
                              Check("password", "InvalidCredentials") \in Sound(m, A, F, L)
         /\ 403 \in A => /\ \A what \in {"owner", "no_admin", "no_admin_account"} :
                              Check(what, "Forbidden") \in Sound(m, A, F, L)
                         /\ Check("admin", "AccessDenied") \in Sound(m, A, F, L)
         /\ 404 \in A => Check("rows", "NotFound") \in Sound(m, A, F, L)
<1>. /\ StatusIn(m, "BadRequest") = 400 /\ StatusIn(m, "InvalidInput") = 400
     /\ StatusIn(m, "Unauthorized") = 401 /\ StatusIn(m, "Forbidden") = 403
     /\ StatusIn(m, "AccessDenied") = 403 /\ StatusIn(m, "NotFound") = 404
     /\ m = "user" => StatusIn(m, "InvalidCredentials") = 401
  BY DEF StatusIn, Direct, UserError, LinkError
<1>1. {"InvalidInput", "BadRequest", "Unauthorized", "AccessDenied", "Forbidden", "NotFound",
       "InvalidCredentials"} \subseteq Terms
  BY DEF Terms
<1>2. /\ Cookies \subseteq Labels
      /\ {"id", "body", "page", "rows", "owner", "admin", "no_admin", "no_admin_account",
           "password", "status", "bearer", "signed_not_expired"} \subseteq Labels
  BY DEF Labels
<1>3. ASSUME NEW what \in Labels
      PROVE  /\ 400 \in A => /\ Check(what, "BadRequest") \in Sound(m, A, F, L)
                             /\ Check(what, "InvalidInput") \in Sound(m, A, F, L)
             /\ 401 \in A => /\ Check(what, "Unauthorized") \in Sound(m, A, F, L)
                             /\ m = "user" =>
                                  Check(what, "InvalidCredentials") \in Sound(m, A, F, L)
             /\ 403 \in A => /\ Check(what, "Forbidden") \in Sound(m, A, F, L)
                             /\ Check(what, "AccessDenied") \in Sound(m, A, F, L)
  BY <1>1, CheckAnswers
<1>4. 404 \in A => Check("rows", "NotFound") \in Sound(m, A, F, L)
  <2>1. StatusIn(m, "NotFound") \in Blamed /\ "NotFound" \in Terms /\ "rows" \in Labels
    BY <1>1, <1>2 DEF Blamed
  <2>. QED  BY <2>1, CheckSound
<1>. QED  BY <1>2, <1>3, <1>4 DEF Body, Page, Id, Cookie

(* Tuples and concatenations as sequences.                                 *)
LEMMA Tuples ==
  ASSUME NEW S, NEW a \in S
  PROVE  /\ <<a>> \in Seq(S)
         /\ \A b \in S : <<a, b>> \in Seq(S)
         /\ \A b, c \in S : <<a, b, c>> \in Seq(S)
         /\ \A b, c, d \in S : <<a, b, c, d>> \in Seq(S)
         /\ \A b, c, d, e \in S : <<a, b, c, d, e>> \in Seq(S)
         /\ \A b, c, d, e, f \in S : <<a, b, c, d, e, f>> \in Seq(S)
         /\ \A b, c, d, e, f, g \in S : <<a, b, c, d, e, f, g>> \in Seq(S)
  OBVIOUS

LEMMA Joined ==
  ASSUME NEW S, NEW s \in Seq(S), NEW t \in Seq(S)
  PROVE  /\ s \o t \in Seq(S) /\ Len(s \o t) = Len(s) + Len(t)
         /\ \A i \in 1 .. Len(s) : (s \o t)[i] = s[i]
         /\ \A i \in 1 .. Len(t) : (s \o t)[Len(s) + i] = t[i]
  BY ConcatProperties

(* The gates suit every route that may answer 401, and 403 to              *)
(* administrators.                                                         *)
LEMMA Gates ==
  ASSUME NEW m \in {"user", "link"}, NEW A, NEW F, NEW L, {429, 503} \subseteq A,
         NEW open \in BOOLEAN
  PROVE  /\ Public(open) \in Seq(Sound(m, A, F, L))
         /\ 401 \in A \cap F \cap L => Mine(open) \in Seq(Sound(m, A, F, L))
         /\ {401, 403} \subseteq A /\ 401 \in F \cap L =>
              Admin(open) \in Seq(Sound(m, A, F, L))
<1>1. Public(open) \in Seq(Sound(m, A, F, L))
  BY LimitSound, Tuples DEF Public
<1>2. ASSUME 401 \in A \cap F \cap L, NEW session \in {"session", "admin_session"}
      PROVE  Authenticate(session) \in Seq(Sound(m, A, F, L))
  <2>1. StatusIn(m, "Unauthorized") = 401 /\ "Unauthorized" \in Terms
    BY DEF StatusIn, Direct, Terms
  <2>2. session \in Names /\ {session} \in SUBSET Things /\ session # "page"
    BY DEF Names, Things, UserKeys, BrowserKeys
  <2>3. Read(session, Always("Unauthorized")) \in Sound(m, A, F, L)
    BY <1>2, <2>1, <2>2, AlwaysCall DEF Read
  <2>. QED  BY <1>2, <2>3, Checks, Tuples DEF Authenticate
<1>3. 403 \in A => RequireRole \in Seq(Sound(m, A, F, L))
  BY Checks, Tuples DEF RequireRole
<1>4. 401 \in A \cap F \cap L => Mine(open) \in Seq(Sound(m, A, F, L))
  <2>1. <<Limit(open)>> \in Seq(Sound(m, A, F, L))
    BY <1>1 DEF Public
  <2>. QED  BY <1>2, <2>1, Joined DEF Mine
<1>5. {401, 403} \subseteq A /\ 401 \in F \cap L => Admin(open) \in Seq(Sound(m, A, F, L))
  <2>1. <<Limit(open)>> \in Seq(Sound(m, A, F, L))
    BY <1>1 DEF Public
  <2>2. ASSUME {401, 403} \subseteq A, 401 \in F \cap L
        PROVE  Authenticate("admin_session") \o RequireRole \in Seq(Sound(m, A, F, L))
    BY <1>2, <1>3, <2>2, Joined
  <2>. QED  BY <2>1, <2>2, Joined DEF Admin
<1>. QED  BY <1>1, <1>4, <1>5

(* A call that undoes earlier ones when it fails is a call like it.        *)
LEMMA UndoingIs ==
  ASSUME NEW st \in Steps, st.kind = "call", NEW things \in SUBSET Fresh
  PROVE  LET u == Undoing(things, st)
         IN /\ u \in Steps /\ u.kind = "call" /\ u.undo = things /\ u.listed = st.listed
            /\ u.thing = st.thing /\ u.needs = st.needs /\ u.gives = st.gives
            /\ u.takes = st.takes /\ u.raw = st.raw /\ u.as = st.as
  BY DEF Undoing, Steps

LEMMA UndoingSound ==
  ASSUME NEW m, NEW A, NEW F, NEW L, NEW st \in Sound(m, A, F, L), st.kind = "call",
         NEW things \in SUBSET Fresh
  PROVE  Undoing(things, st) \in Sound(m, A, F, L)
<1>1. st \in Steps
  BY DEF Sound
<1>. QED  BY <1>1, UndoingIs, LikeSound

(* The lock of a refresh: who does not get it is told of the concurrent    *)
(* refresh.                                                                *)
LEMMA LockSound ==
  ASSUME NEW A, NEW F, NEW L, 409 \in A, 500 \in F
  PROVE  Call("lock", {}, {}, {}, {"not_set"}, [RedisLockNotAcquired |-> "RefreshTokenConcurrent"])
           \in Sound("user", A, F, L)
<1>. DEFINE as == [RedisLockNotAcquired |-> "RefreshTokenConcurrent"]
            st == Call("lock", {}, {}, {}, {"not_set"}, as)
<1>1. st \in Steps
  <2>1. as \in Rewrites /\ "lock" \in Names /\ {"not_set"} \in SUBSET Violations
    BY DEF Rewrites, Names, Violations
  <2>. QED  BY <2>1, CallStep
<1>2. st.kind = "call" /\ st.thing = "lock" /\ st.needs = {} /\ st.raw = {"not_set"}
      /\ st.as = as
  BY DEF Call
<1>3. as["RedisLockNotAcquired"] = "RefreshTokenConcurrent" /\ DOMAIN as = {"RedisLockNotAcquired"}
  OBVIOUS
<1>. HIDE DEF st, as
<1>4. \A raw \in Faults(st) : Told(st, raw) \in Broken
  BY <1>2, <1>3, ErrorOf, BrokenIs500 DEF Told
<1>5. Told(st, "not_set") = "RefreshTokenConcurrent"
  <2>1. "lock" \notin Tables \cup {"page"}
    BY DEF Tables
  <2>. QED  BY <1>2, <1>3, <2>1, Missings DEF Told, Classified
<1>6. StatusIn("user", "RefreshTokenConcurrent") = 409
  BY DEF StatusIn, Direct, UserError
<1>7. st \in Sound("user", A, F, L)
  <2>1. \A raw \in Faults(st) : StatusIn("user", Told(st, raw)) \in F
    BY <1>4, BrokenIs500
  <2>2. \A raw \in st.raw :
          /\ Told(st, raw) # "ignored"
          /\ StatusIn("user", Told(st, raw))
               \in A \cap (IF raw \in Unfit THEN {500} ELSE Blamed \ {404})
    <3>1. 409 \in A \cap (Blamed \ {404})
      BY DEF Blamed
    <3>2. ASSUME NEW raw \in st.raw
          PROVE  Told(st, raw) = "RefreshTokenConcurrent" /\ raw \notin Unfit
      BY <1>2, <1>5 DEF Unfit
    <3>. QED  BY <3>1, <3>2, <1>6
  <2>. QED  BY <1>1, <1>2, <2>1, <2>2 DEF Sound
<1>. QED  BY <1>7 DEF st, as

(* The services of users and of links suit every route that may answer     *)
(* what their errors ask for.                                              *)
LEMMA UserServices ==
  ASSUME NEW A, NEW F, NEW L, 500 \in A, 500 \in F
  PROVE  LET S == Sound("user", A, F, L)
         IN /\ 400 \in A /\ 409 \in A => RegisterUser \in Seq(S)
            /\ {400, 403, 409} \subseteq A /\ 404 \in L => UpdateUser \in Seq(S)
            /\ 404 \in L => \A raw \in SUBSET Unfit : GetUserByID(raw) \in Seq(S)
            /\ 400 \in A /\ 404 \in L => Heartbeat \in Seq(S)
            /\ 404 \in A => GetUsers \in Seq(S)
            /\ 403 \in A /\ 404 \in L =>
                 \A raw \in SUBSET Unfit : DeleteUser(raw) \in Seq(S)
            /\ {400, 401} \subseteq A /\ 401 \in F /\ 401 \in L => LoginUser \in Seq(S)
            /\ 409 \in A /\ 401 \in F /\ 401 \in L /\ 404 \in L => RefreshTokens \in Seq(S)
            /\ 400 \in A => LogoutUser \in Seq(S) /\ RevokeSession \in Seq(S)
            /\ RevokeAllOtherSessions \in Seq(S) /\ RevokeAllSessions \in Seq(S)
            /\ 400 \in A /\ 404 \in F /\ 404 \in L => GetActiveSessions \in Seq(S)
<1>. DEFINE S == Sound("user", A, F, L)
<1>0. /\ "account" \in Tables /\ {"page", "set"} \subseteq Names
      /\ {"account", "session", "refresh", "new_session", "new_refresh"} \subseteq Things
  BY DEF Names, Things, Tables, UserKeys, BrowserKeys, NewKeys
<1>1. 400 \in A /\ 409 \in A => RegisterUser \in Seq(S)
  BY PassOn, Checks, Tuples DEF RegisterUser
<1>2. {400, 403, 409} \subseteq A /\ 404 \in L => UpdateUser \in Seq(S)
  BY <1>0, PassOn, Checks, Tuples DEF UpdateUser
<1>3. 404 \in L => \A raw \in SUBSET Unfit : GetUserByID(raw) \in Seq(S)
  BY <1>0, PassOn, Checks, Tuples DEF GetUserByID
<1>4. 400 \in A /\ 404 \in L => Heartbeat \in Seq(S)
  BY <1>0, PassOn, Replace, Checks, Tuples DEF Heartbeat
<1>5. 404 \in A => GetUsers \in Seq(S)
  BY <1>0, PassOn, Replace, Checks, Tuples DEF GetUsers
<1>6. 403 \in A /\ 404 \in L => \A raw \in SUBSET Unfit : DeleteUser(raw) \in Seq(S)
  BY <1>0, PassOn, Replace, Checks, Tuples DEF DeleteUser
<1>7. ASSUME 400 \in A, 401 \in A, 401 \in F, 401 \in L
      PROVE  LoginUser \in Seq(S)
  <2>1. <<Body, Read("account", Always("InvalidCredentials")),
          Check("password", "InvalidCredentials"),
          Read("account", Always("InvalidCredentials"))>> \in Seq(S)
    BY <1>0, <1>7, Replace, Checks, Tuples
  <2>2. NewSession \in S
    <3>1. Call("session", {}, {"new_session", "new_member"}, {}, {}, Same) \in S
      BY PassOn
    <3>2. Call("session", {}, {"new_session", "new_member"}, {}, {}, Same).kind = "call"
      BY DEF Call
    <3>. QED  BY <3>1, <3>2, UndoingSound DEF NewSession, Fresh
  <2>3. NewRefresh \in S
    <3>1. Put("new_refresh") \in S
      BY <1>0, PassOn
    <3>2. Put("new_refresh").kind = "call"
      BY DEF Put, Call
    <3>. QED  BY <3>1, <3>2, UndoingSound DEF NewRefresh, Fresh
  <2>4. NewPair \in Seq(S)
    BY <2>2, <2>3, Tuples DEF NewPair
  <2>. QED  BY <2>1, <2>4, Joined DEF LoginUser
<1>8. ASSUME 409 \in A, 401 \in F, 401 \in L, 404 \in L
      PROVE  RefreshTokens \in Seq(S)
  <2>1. /\ Read("refresh", IfMissing("RefreshTokenInvalid")) \in S
        /\ Read("session", Always("TokenRevoked")) \in S
        /\ Read("session", IfMissing("SessionNotFound")) \in S
        /\ Del("refresh") \in S /\ Put("new_refresh") \in S /\ Put("session") \in S
    BY <1>0, <1>8, PassOn, Replace
  <2>2. /\ Undoing({"new_refresh"}, Read("session", IfMissing("SessionNotFound"))) \in S
        /\ Undoing({"new_refresh"}, Put("session")) \in S
    <3>1. /\ Read("session", IfMissing("SessionNotFound")).kind = "call"
          /\ Put("session").kind = "call"
      BY DEF Read, Put, Call
    <3>. QED  BY <2>1, <3>1, UndoingSound DEF Fresh
  <2>. QED  BY <1>8, <2>1, <2>2, LockSound, Tuples DEF RefreshTokens
<1>9. 400 \in A => LogoutUser \in Seq(S) /\ RevokeSession \in Seq(S)
  BY <1>0, PassOn, Replace, Checks, Tuples DEF LogoutUser, RevokeSession
<1>10. RevokeAllOtherSessions \in Seq(S) /\ RevokeAllSessions \in Seq(S)
  BY <1>0, PassOn, Replace, Checks, Tuples DEF RevokeAllOtherSessions, RevokeAllSessions
<1>11. 400 \in A /\ 404 \in F /\ 404 \in L => GetActiveSessions \in Seq(S)
  BY <1>0, PassOn, Replace, Checks, Tuples DEF GetActiveSessions
<1>. QED  BY <1>1, <1>2, <1>3, <1>4, <1>5, <1>6, <1>7, <1>8, <1>9, <1>10, <1>11

LEMMA LinkServices ==
  ASSUME NEW A, NEW F, NEW L, 500 \in A, 500 \in F
  PROVE  LET S == Sound("link", A, F, L)
         IN /\ 400 \in A => CreateShorten({}) \in Seq(S)
            /\ 400 \in A /\ 500 \in L => CreateShorten({"account"}) \in Seq(S)
            /\ 400 \in A /\ 403 \in A /\ 404 \in L =>
                 /\ UpdateShorten \in Seq(S) /\ GetShortenByID \in Seq(S)
                 /\ SetURLStatus(TRUE) \in Seq(S) /\ SetURLStatus(FALSE) \in Seq(S)
                 /\ DeleteShorten \in Seq(S)
            /\ 404 \in A => GetShortens \in Seq(S)
            /\ 404 \in A => \A raw \in SUBSET Unfit : GetShortenByOwner(raw) \in Seq(S)
            /\ 404 \in A /\ 404 \in L =>
                 GetOriginalURL(TRUE) \in Seq(S) /\ GetOriginalURL(FALSE) \in Seq(S)
<1>. DEFINE S == Sound("link", A, F, L)
<1>0. "link" \in Tables /\ {"page", "copy", "queue"} \subseteq Names
  BY DEF Names, Things, Tables
<1>. {} \in SUBSET Unfit /\ {"22001"} \in SUBSET Unfit /\ {"22021"} \in SUBSET Unfit
  BY DEF Unfit
<1>1. Copied \in Seq(S) /\ Uncopied \in Seq(S)
  BY <1>0, PassOn, Replace, Tuples DEF Copied, Uncopied
<1>2. 400 \in A => CreateShorten({}) \in Seq(S)
  <2>1. 400 \in A => <<Body, Insert({}, {"22001"})>> \in Seq(S)
    BY PassOn, Checks, Tuples
  <2>. QED  BY <1>1, <2>1, Joined DEF CreateShorten
<1>3. 400 \in A /\ 500 \in L => CreateShorten({"account"}) \in Seq(S)
  <2>1. 400 \in A /\ 500 \in L => <<Body, Insert({"account"}, {"22001"})>> \in Seq(S)
    BY PassOn, Checks, Tuples
  <2>. QED  BY <1>1, <2>1, Joined DEF CreateShorten
<1>4. ASSUME 400 \in A, 403 \in A, 404 \in L
      PROVE  /\ UpdateShorten \in Seq(S) /\ GetShortenByID \in Seq(S)
             /\ SetURLStatus(TRUE) \in Seq(S) /\ SetURLStatus(FALSE) \in Seq(S)
             /\ DeleteShorten \in Seq(S)
  <2>0. /\ Read("link", Same) \in S /\ Named \in S /\ Delete("link") \in S
        /\ Write("link", {}) \in S /\ Write("link", {"22001"}) \in S
    BY <1>0, <1>4, PassOn DEF Named
  <2>1. Id \in S /\ Body \in S /\ Owned \in S /\ Check("status", "BadRequest") \in S
    BY <1>4, Checks DEF Owned
  <2>2. UpdateShorten \in Seq(S)
    <3>1. <<Body, Id, Named, Owned, Write("link", {"22001"}), Read("link", Same)>> \in Seq(S)
      BY <2>0, <2>1, Tuples
    <3>. QED  BY <1>1, <3>1, Joined DEF UpdateShorten
  <2>3. GetShortenByID \in Seq(S)
    BY <2>0, <2>1, Tuples DEF GetShortenByID
  <2>4. SetURLStatus(TRUE) \in Seq(S) /\ SetURLStatus(FALSE) \in Seq(S)
    <3>1. <<Check("status", "BadRequest"), Id, Named, Owned, Write("link", {}),
            Read("link", Same)>> \in Seq(S)
      BY <2>0, <2>1, Tuples
    <3>. QED  BY <1>1, <3>1, Joined DEF SetURLStatus
  <2>5. DeleteShorten \in Seq(S)
    <3>1. <<Id, Named, Owned>> \in Seq(S) /\ <<Delete("link")>> \in Seq(S)
      BY <2>0, <2>1, Tuples
    <3>. QED  BY <1>1, <3>1, Joined DEF DeleteShorten
  <2>. QED  BY <2>2, <2>3, <2>4, <2>5
<1>5. 404 \in A => GetShortens \in Seq(S)
  BY <1>0, PassOn, Checks, Tuples DEF GetShortens, Found
<1>6. 404 \in A => \A raw \in SUBSET Unfit : GetShortenByOwner(raw) \in Seq(S)
  BY <1>0, PassOn, Checks, Tuples DEF GetShortenByOwner, Found
<1>7. 404 \in A /\ 404 \in L => GetOriginalURL(TRUE) \in Seq(S) /\ GetOriginalURL(FALSE) \in Seq(S)
  BY <1>0, PassOn, Checks, Tuples DEF GetOriginalURL, Found, Named
<1>. QED  BY <1>2, <1>3, <1>4, <1>5, <1>6, <1>7

-----------------------------------------------------------------------------
(* The routes *)
LEMMA UserRouted ==
  /\ Routes["RegisterUser"] = RegisterUserHandler
  /\ Routes["LoginUser"] = LoginUserHandler
  /\ Routes["RefreshToken"] = RefreshTokenHandler
  /\ Routes["Heartbeat"] = HeartbeatHandler
  /\ Routes["LogoutUser"] = LogoutUserHandler
  /\ Routes["GetMyProfile"] = GetMyProfileHandler
  /\ Routes["UpdateMyProfile"] = UpdateMyProfileHandler
  /\ Routes["DeleteMyProfile"] = DeleteMyProfileHandler
  /\ Routes["GetActiveSessionsMyProfile"] = GetActiveSessionsMyProfileHandler
  /\ Routes["RevokeSessionMyProfile"] = RevokeSessionMyProfileHandler
  /\ Routes["RevokeAllOtherSessionsMyProfile"] = RevokeAllOtherSessionsMyProfileHandler
  /\ Routes["RevokeAllSessionsMyProfile"] = RevokeAllSessionsMyProfileHandler
  /\ Routes["Redirect"] = RedirectHandler(FALSE)
  /\ Routes["RedirectCached"] = RedirectHandler(TRUE)
  /\ Routes["CreateShorten"] = CreateShortenHandler
  /\ Routes["CreateMyShorten"] = CreateMyShortenHandler
  /\ Routes["GetMyShortens"] = GetMyShortensHandler
  /\ Routes["GetMyShortenByID"] = GetMyShortenByIDHandler
  /\ Routes["UpdateMyShorten"] = UpdateMyShortenHandler
  /\ Routes["DeleteMyShorten"] = DeleteMyShortenHandler
  /\ Routes["SetMyShortenStatus"] = SetMyShortenStatusHandler(TRUE)
  /\ Routes["UnsetMyShortenStatus"] = SetMyShortenStatusHandler(FALSE)
  BY DEF Routes, UserRoutes

LEMMA AdminRouted ==
  /\ Routes["GetUsers"] = GetUsersHandler
  /\ Routes["GetUserByID"] = GetUserByIDHandler
  /\ Routes["UpdateUser"] = UpdateUserHandler
  /\ Routes["DeleteUserProfile"] = DeleteUserProfileHandler
  /\ Routes["GetActiveSessionsUser"] = GetActiveSessionsUserHandler
  /\ Routes["RevokeSessionUser"] = RevokeSessionUserHandler
  /\ Routes["RevokeAllSessionsUser"] = RevokeAllSessionsUserHandler
  /\ Routes["GetUserShortens"] = GetUserShortensHandler
  /\ Routes["GetUserShortenByID"] = GetUserShortenByIDHandler
  /\ Routes["GetShortensByUserID"] = GetShortensByUserIDHandler
  /\ Routes["UpdateUserShorten"] = UpdateUserShortenHandler
  /\ Routes["SetUserShortenStatus"] = SetUserShortenStatusHandler(TRUE)
  /\ Routes["UnsetUserShortenStatus"] = SetUserShortenStatusHandler(FALSE)
  /\ Routes["DeleteUserShorten"] = DeleteUserShortenHandler
  BY DEF Routes, UserRoutes, AdminRoutes

LEMMA RouteNames ==
  /\ DOMAIN Routes = DOMAIN UserRoutes \cup DOMAIN AdminRoutes
  /\ DOMAIN UserRoutes =
       {"RegisterUser", "LoginUser", "RefreshToken", "Heartbeat", "LogoutUser", "GetMyProfile",
        "UpdateMyProfile", "DeleteMyProfile", "GetActiveSessionsMyProfile",
        "RevokeSessionMyProfile", "RevokeAllOtherSessionsMyProfile",
        "RevokeAllSessionsMyProfile", "Redirect", "RedirectCached", "CreateShorten",
        "CreateMyShorten", "GetMyShortens", "GetMyShortenByID", "UpdateMyShorten",
        "DeleteMyShorten", "SetMyShortenStatus", "UnsetMyShortenStatus"}
  /\ DOMAIN AdminRoutes =
       {"GetUsers", "GetUserByID", "UpdateUser", "DeleteUserProfile", "GetActiveSessionsUser",
        "RevokeSessionUser", "RevokeAllSessionsUser", "GetUserShortens", "GetUserShortenByID",
        "GetShortensByUserID", "UpdateUserShorten", "SetUserShortenStatus",
        "UnsetUserShortenStatus", "DeleteUserShorten"}
  BY DEF Routes, UserRoutes, AdminRoutes

-----------------------------------------------------------------------------
(* The steps that change nothing, and a route that begins with such steps. *)
Quiet == {st \in Steps : st.kind = "call" => st.gives = {} /\ st.takes = {} /\ st.undo = {}}

Tailed(s, w) == w \in Seq(Steps) /\ \E g \in Seq(Quiet) : s = g \o w

(* A tuple cut in two.                                                     *)
LEMMA CutTwo ==
  ASSUME NEW a, NEW b
  PROVE  <<a, b>> = <<a>> \o <<b>>
<1>. DEFINE s == <<a, b>>
            t == <<a>> \o <<b>>
<1>1. s \in Seq({a, b}) /\ t \in Seq({a, b}) /\ Len(s) = 2 /\ Len(t) = 2
  OBVIOUS
<1>2. \A i \in 1 .. 2 : s[i] = t[i]
  OBVIOUS
<1>. HIDE DEF s, t
<1>3. s = t
  BY <1>1, <1>2, SeqEqual
<1>. QED  BY <1>3 DEF s, t

LEMMA CutThree ==
  ASSUME NEW a, NEW b, NEW c
  PROVE  <<a, b, c>> = <<a, b>> \o <<c>>
<1>. DEFINE s == <<a, b, c>>
            t == <<a, b>> \o <<c>>
<1>1. s \in Seq({a, b, c}) /\ t \in Seq({a, b, c}) /\ Len(s) = 3 /\ Len(t) = 3
  OBVIOUS
<1>2. \A i \in 1 .. 3 : s[i] = t[i]
  OBVIOUS
<1>. HIDE DEF s, t
<1>3. s = t
  BY <1>1, <1>2, SeqEqual
<1>. QED  BY <1>3 DEF s, t

LEMMA CutFour ==
  ASSUME NEW a, NEW b, NEW c, NEW d
  PROVE  <<a, b, c, d>> = <<a, b>> \o <<c, d>>
<1>. DEFINE s == <<a, b, c, d>>
            t == <<a, b>> \o <<c, d>>
<1>1. s \in Seq({a, b, c, d}) /\ t \in Seq({a, b, c, d}) /\ Len(s) = 4 /\ Len(t) = 4
  OBVIOUS
<1>2. \A i \in 1 .. 4 : s[i] = t[i]
  OBVIOUS
<1>. HIDE DEF s, t
<1>3. s = t
  BY <1>1, <1>2, SeqEqual
<1>. QED  BY <1>3 DEF s, t

LEMMA CutFive ==
  ASSUME NEW a, NEW b, NEW c, NEW d, NEW e
  PROVE  <<a, b, c, d, e>> = <<a, b, c>> \o <<d, e>>
<1>. DEFINE s == <<a, b, c, d, e>>
            t == <<a, b, c>> \o <<d, e>>
<1>1. s \in Seq({a, b, c, d, e}) /\ t \in Seq({a, b, c, d, e}) /\ Len(s) = 5 /\ Len(t) = 5
  OBVIOUS
<1>2. \A i \in 1 .. 5 : s[i] = t[i]
  OBVIOUS
<1>. HIDE DEF s, t
<1>3. s = t
  BY <1>1, <1>2, SeqEqual
<1>. QED  BY <1>3 DEF s, t

LEMMA CutSix ==
  ASSUME NEW a, NEW b, NEW c, NEW d, NEW e, NEW f
  PROVE  <<a, b, c, d, e, f>> = <<a, b, c, d>> \o <<e, f>>
<1>. DEFINE s == <<a, b, c, d, e, f>>
            t == <<a, b, c, d>> \o <<e, f>>
<1>1. s \in Seq({a, b, c, d, e, f}) /\ t \in Seq({a, b, c, d, e, f}) /\ Len(s) = 6 /\ Len(t) = 6
  OBVIOUS
<1>2. \A i \in 1 .. 6 : s[i] = t[i]
  OBVIOUS
<1>. HIDE DEF s, t
<1>3. s = t
  BY <1>1, <1>2, SeqEqual
<1>. QED  BY <1>3 DEF s, t

LEMMA CutSeven ==
  ASSUME NEW a, NEW b, NEW c, NEW d, NEW e, NEW f, NEW g
  PROVE  <<a, b, c, d, e, f, g>> = <<a, b, c>> \o <<d, e, f, g>>
<1>. DEFINE s == <<a, b, c, d, e, f, g>>
            t == <<a, b, c>> \o <<d, e, f, g>>
<1>1. /\ s \in Seq({a, b, c, d, e, f, g})
      /\ t \in Seq({a, b, c, d, e, f, g})
      /\ Len(s) = 7 /\ Len(t) = 7
  OBVIOUS
<1>2. \A i \in 1 .. 7 : s[i] = t[i]
  OBVIOUS
<1>. HIDE DEF s, t
<1>3. s = t
  BY <1>1, <1>2, SeqEqual
<1>. QED  BY <1>3 DEF s, t

(* Checks, limits and readings change nothing.                             *)
LEMMA QuietSteps ==
  /\ Quiet \subseteq Steps
  /\ \A what \in Labels, err \in Terms : Check(what, err) \in Quiet
  /\ \A open \in BOOLEAN : Limit(open) \in Quiet
  /\ \A thing \in Names, as \in Rewrites :
       /\ Ask(thing, as) \in Quiet
       /\ thing \in Things => Read(thing, as) \in Quiet
  /\ \A raw \in SUBSET Unfit : /\ List(raw) \in Quiet
                              /\ \A thing \in Things : Find(thing, raw) \in Quiet
  /\ Call("lock", {}, {}, {}, {"not_set"}, [RedisLockNotAcquired |-> "RefreshTokenConcurrent"])
       \in Quiet
<1>1. \A what \in Labels, err \in Terms : Check(what, err) \in Quiet
  BY DEF Check, Quiet, Steps
<1>2. \A open \in BOOLEAN : Limit(open) \in Quiet
  BY DEF Limit, Quiet, Steps
<1>3. ASSUME NEW thing \in Names, NEW needs \in SUBSET Things, NEW raw \in SUBSET Violations,
             NEW as \in Rewrites
      PROVE  Call(thing, needs, {}, {}, raw, as) \in Quiet
  <2>. DEFINE st == Call(thing, needs, {}, {}, raw, as)
  <2>1. st \in Steps
    BY CallStep
  <2>2. st.gives = {} /\ st.takes = {} /\ st.undo = {}
    BY DEF Call
  <2>. HIDE DEF st
  <2>3. st \in Quiet
    BY <2>1, <2>2 DEF Quiet
  <2>. QED  BY <2>3 DEF st
<1>4. \A thing \in Names, as \in Rewrites :
        /\ Ask(thing, as) \in Quiet
        /\ thing \in Things => Read(thing, as) \in Quiet
  BY <1>3 DEF Ask, Read
<1>5. Call("lock", {}, {}, {}, {"not_set"}, [RedisLockNotAcquired |-> "RefreshTokenConcurrent"])
        \in Quiet
  <2>1. /\ [RedisLockNotAcquired |-> "RefreshTokenConcurrent"] \in Rewrites
        /\ "lock" \in Names /\ {"not_set"} \in SUBSET Violations
    BY DEF Rewrites, Names, Violations
  <2>. QED  BY <1>3, <2>1
<1>6. \A raw \in SUBSET Unfit : /\ List(raw) \in Quiet
                               /\ \A thing \in Things : Find(thing, raw) \in Quiet
  <2>1. "page" \in Names /\ Things \subseteq Names /\ SUBSET Unfit \subseteq SUBSET Violations
    BY DEF Names, Violations
  <2>. QED  BY <1>3, <2>1, RewriteSet DEF List, Find
<1>. QED  BY <1>1, <1>2, <1>4, <1>5, <1>6 DEF Quiet

(* A gate in front of a route leaves its work alone.                       *)
LEMMA TailedBehind ==
  ASSUME NEW g \in Seq(Quiet), NEW s, NEW w, Tailed(s, w)
  PROVE  Tailed(g \o s, w)
<1>1. PICK h \in Seq(Quiet) : s = h \o w
  BY DEF Tailed
<1>2. Seq(Quiet) \subseteq Seq(Steps)
  BY QuietSteps, SeqMonotonic
<1>3. g \o (h \o w) = (g \o h) \o w
  BY <1>2, ConcatAssociative DEF Tailed
<1>4. g \o h \in Seq(Quiet)
  BY Joined
<1>. QED  BY <1>1, <1>3, <1>4 DEF Tailed

(* Who changes nothing has no work.                                        *)
LEMMA TailedNothing ==
  ASSUME NEW s \in Seq(Quiet)
  PROVE  Tailed(s, <<>>)
<1>1. <<>> \in Seq(Steps)
  OBVIOUS
<1>2. s = s \o <<>>
  BY ConcatEmptySeq
<1>. QED  BY <1>1, <1>2 DEF Tailed

(* The steps of a route: those in front of its work, and the work.         *)
LEMMA TailedAt ==
  ASSUME NEW s, NEW w, Tailed(s, w)
  PROVE  /\ s \in Seq(Steps) /\ Len(s) \in Nat /\ Len(w) \in Nat /\ Len(w) <= Len(s)
         /\ \A i \in 1 .. Len(s) - Len(w) : s[i] \in Quiet
         /\ \A j \in 1 .. Len(w) : s[Len(s) - Len(w) + j] = w[j]
<1>1. PICK g \in Seq(Quiet) : s = g \o w
  BY DEF Tailed
<1>2. w \in Seq(Steps) /\ g \in Seq(Steps)
  BY QuietSteps, SeqMonotonic DEF Tailed
<1>3. /\ s \in Seq(Steps) /\ Len(s) = Len(g) + Len(w)
      /\ \A i \in 1 .. Len(g) : s[i] = g[i]
      /\ \A j \in 1 .. Len(w) : s[Len(g) + j] = w[j]
  BY <1>1, <1>2, Joined
<1>4. Len(g) \in Nat /\ Len(w) \in Nat /\ \A i \in 1 .. Len(g) : g[i] \in Quiet
  BY <1>2, LenProperties, ElementOfSeq
<1>5. Len(g) = Len(s) - Len(w)
  BY <1>3, <1>4
<1>. QED  BY <1>3, <1>4, <1>5

LEMMA QuietForms ==
  /\ {Body, Page, Id, Owned, Found, Cookie("refresh_token"), Cookie("session_id"),
      Check("status", "BadRequest"), Check("no_admin", "Forbidden"),
      Check("no_admin_account", "Forbidden"), Check("password", "InvalidCredentials")}
       \subseteq Quiet
  /\ {Read("account", Same), Read("account", Always("InvalidCredentials")), Read("link", Same),
      Read("session", Always("TokenRevoked")), Read("refresh", IfMissing("RefreshTokenInvalid")),
      Read("session", IfMissing("SessionNotFound")), Read("session", Always("SessionNotFound"))}
       \subseteq Quiet
  /\ {Ask("page", Same), Ask("page", Always("raw")), Ask("set", Same), Ask("copy", Same),
      Ask("copy", Ignored), Ask("queue", Always("raw")), Ask("queue", Ignored)} \subseteq Quiet
  /\ Named \in Quiet
  /\ \A raw \in SUBSET Unfit : Find("account", raw) \in Quiet /\ List(raw) \in Quiet
<1>1. {Body, Page, Id, Owned, Found, Cookie("refresh_token"), Cookie("session_id"),
       Check("status", "BadRequest"), Check("no_admin", "Forbidden"),
       Check("no_admin_account", "Forbidden"), Check("password", "InvalidCredentials")}
        \subseteq Quiet
  BY QuietSteps DEF Body, Page, Id, Owned, Found, Cookie, Labels, Terms, Cookies
<1>2. /\ {"account", "link", "session", "refresh"} \subseteq Things
      /\ {"account", "link", "session", "refresh", "page", "set", "copy", "queue"} \subseteq Names
  BY DEF Names, Things, Tables, UserKeys, BrowserKeys
<1>3. {Same, Ignored, Always("InvalidCredentials"), Always("TokenRevoked"), Always("raw"),
       Always("SessionNotFound"), IfMissing("RefreshTokenInvalid"),
       IfMissing("SessionNotFound")} \subseteq Rewrites
  BY RewriteSet DEF Ignored, Terms
<1>4. /\ Named \in Quiet
      /\ \A raw \in SUBSET Unfit : Find("account", raw) \in Quiet /\ List(raw) \in Quiet
  BY <1>2, QuietSteps DEF Named, Unfit
<1>. QED  BY <1>1, <1>2, <1>3, <1>4, QuietSteps

(* The calls that change something.                                        *)
LEMMA LoudSteps ==
  /\ {Write("account", {"23505", "22001"}), Write("link", {}), Write("link", {"22001"}),
      Insert({}, {"23505", "22001"}), Insert({}, {"22001"}), Insert({"account"}, {"22001"}),
      Delete("account"), Delete("link"), Purge, Revoke(Ignored), Revoke(Revoked),
      Del("refresh"), Put("session"), Put("new_refresh"), NewSession,
      NewRefresh, Undoing({"new_refresh"}, Read("session", IfMissing("SessionNotFound"))),
      Undoing({"new_refresh"}, Put("session"))} \subseteq Steps
<1>1. /\ {"account", "link", "session", "refresh", "new_session", "new_refresh"} \subseteq Things
      /\ {{}, {"account"}} \subseteq SUBSET Things
      /\ {{}, {"22001"}, {"23505", "22001"}} \subseteq SUBSET Violations
      /\ {Ignored, Revoked} \subseteq Rewrites
  BY RewriteSet DEF Names, Things, Tables, UserKeys, BrowserKeys, NewKeys, Violations, Unfit,
                    Ignored, Revoked, Terms
<1>2. {Write("account", {"23505", "22001"}), Write("link", {}), Write("link", {"22001"}),
       Insert({}, {"23505", "22001"}), Insert({}, {"22001"}), Insert({"account"}, {"22001"}),
       Delete("account"), Delete("link"), Purge, Revoke(Ignored), Revoke(Revoked),
       Del("refresh"), Put("session"), Put("new_refresh")} \subseteq Steps
  BY <1>1, CallForms
<1>3. /\ Read("session", IfMissing("SessionNotFound")) \in Steps
      /\ Read("session", IfMissing("SessionNotFound")).kind = "call"
      /\ Put("session").kind = "call" /\ Put("new_refresh").kind = "call"
  BY QuietForms, QuietSteps DEF Read, Put, Call
<1>4. /\ Undoing({"new_refresh"}, Read("session", IfMissing("SessionNotFound"))) \in Steps
      /\ Undoing({"new_refresh"}, Put("session")) \in Steps
      /\ NewRefresh \in Steps
  BY <1>2, <1>3, UndoingIs DEF Fresh, NewRefresh
<1>5. NewSession \in Steps
  <2>1. Call("session", {}, {"new_session", "new_member"}, {}, {}, Same).kind = "call"
    BY DEF Call
  <2>. QED  BY <2>1, CallForms, UndoingIs DEF NewSession, Fresh
<1>. QED  BY <1>2, <1>4, <1>5

(* Where a tuple of steps begins to change something.                      *)
LEMMA TailedTuples ==
  /\ \A a \in Quiet, b \in Steps : Tailed(<<a, b>>, <<b>>)
  /\ \A a, b \in Quiet, c \in Steps : Tailed(<<a, b, c>>, <<c>>)
  /\ \A a, b \in Quiet, c, d \in Steps : Tailed(<<a, b, c, d>>, <<c, d>>)
  /\ \A a, b, c \in Quiet, d, e \in Steps : Tailed(<<a, b, c, d, e>>, <<d, e>>)
  /\ \A a, b, c, d \in Quiet, e, f \in Steps : Tailed(<<a, b, c, d, e, f>>, <<e, f>>)
  /\ \A a, b, c \in Quiet, d, e, f, g \in Steps :
       Tailed(<<a, b, c, d, e, f, g>>, <<d, e, f, g>>)
<1>. Quiet \subseteq Steps
  BY QuietSteps
<1>1. ASSUME NEW a \in Quiet, NEW b \in Steps
      PROVE  Tailed(<<a, b>>, <<b>>)
  <2>1. <<a>> \in Seq(Quiet) /\ <<b>> \in Seq(Steps)
    BY Tuples
  <2>2. <<a, b>> = <<a>> \o <<b>>
    BY CutTwo
  <2>. QED  BY <2>1, <2>2 DEF Tailed
<1>2. ASSUME NEW a \in Quiet, NEW b \in Quiet, NEW c \in Steps
      PROVE  Tailed(<<a, b, c>>, <<c>>)
  <2>1. <<a, b>> \in Seq(Quiet) /\ <<c>> \in Seq(Steps)
    BY Tuples
  <2>2. <<a, b, c>> = <<a, b>> \o <<c>>
    BY CutThree
  <2>. QED  BY <2>1, <2>2 DEF Tailed
<1>3. ASSUME NEW a \in Quiet, NEW b \in Quiet, NEW c \in Steps, NEW d \in Steps
      PROVE  Tailed(<<a, b, c, d>>, <<c, d>>)
  <2>1. <<a, b>> \in Seq(Quiet) /\ <<c, d>> \in Seq(Steps)
    BY Tuples
  <2>2. <<a, b, c, d>> = <<a, b>> \o <<c, d>>
    BY CutFour
  <2>. QED  BY <2>1, <2>2 DEF Tailed
<1>4. ASSUME NEW a \in Quiet, NEW b \in Quiet, NEW c \in Quiet, NEW d \in Steps, NEW e \in Steps
      PROVE  Tailed(<<a, b, c, d, e>>, <<d, e>>)
  <2>1. <<a, b, c>> \in Seq(Quiet) /\ <<d, e>> \in Seq(Steps)
    BY Tuples
  <2>2. <<a, b, c, d, e>> = <<a, b, c>> \o <<d, e>>
    BY CutFive
  <2>. QED  BY <2>1, <2>2 DEF Tailed
<1>5. ASSUME NEW a \in Quiet, NEW b \in Quiet, NEW c \in Quiet, NEW d \in Quiet,
             NEW e \in Steps, NEW f \in Steps
      PROVE  Tailed(<<a, b, c, d, e, f>>, <<e, f>>)
  <2>1. <<a, b, c, d>> \in Seq(Quiet) /\ <<e, f>> \in Seq(Steps)
    BY Tuples
  <2>2. <<a, b, c, d, e, f>> = <<a, b, c, d>> \o <<e, f>>
    BY CutSix
  <2>. QED  BY <2>1, <2>2 DEF Tailed
<1>6. ASSUME NEW a \in Quiet, NEW b \in Quiet, NEW c \in Quiet, NEW d \in Steps,
             NEW e \in Steps, NEW f \in Steps, NEW g \in Steps
      PROVE  Tailed(<<a, b, c, d, e, f, g>>, <<d, e, f, g>>)
  <2>1. <<a, b, c>> \in Seq(Quiet) /\ <<d, e, f, g>> \in Seq(Steps)
    BY Tuples
  <2>2. <<a, b, c, d, e, f, g>> = <<a, b, c>> \o <<d, e, f, g>>
    BY CutSeven
  <2>. QED  BY <2>1, <2>2 DEF Tailed
<1>. QED  BY <1>1, <1>2, <1>3, <1>4, <1>5, <1>6

(* Where the services of users begin to change something, and those of     *)
(* links.                                                                  *)
LEMMA UserTails ==
  /\ Tailed(RegisterUser, <<Insert({}, {"23505", "22001"})>>)
  /\ Tailed(UpdateUser, <<Write("account", {"23505", "22001"}), Read("account", Same)>>)
  /\ \A raw \in SUBSET Unfit : Tailed(DeleteUser(raw), <<Delete("account"), Purge>>)
  /\ Tailed(LoginUser, NewPair)
  /\ Tailed(RefreshTokens,
            <<Del("refresh"), Put("new_refresh"),
              Undoing({"new_refresh"}, Read("session", IfMissing("SessionNotFound"))),
              Undoing({"new_refresh"}, Put("session"))>>)
  /\ Tailed(LogoutUser, LogoutUser)
  /\ Tailed(RevokeSession, <<Revoke(Revoked)>>) /\ Tailed(RevokeAllSessions, <<Purge>>)
  /\ Tailed(Heartbeat, <<Put("session")>>)
  /\ \A raw \in SUBSET Unfit : Tailed(GetUserByID(raw), <<>>)
  /\ Tailed(GetUsers, <<>>)
  /\ Tailed(GetActiveSessions, <<>>) /\ Tailed(RevokeAllOtherSessions, <<>>)
<1>. Quiet \subseteq Steps
  BY QuietSteps
<1>1. Tailed(RegisterUser, <<Insert({}, {"23505", "22001"})>>)
  BY QuietForms, LoudSteps, TailedTuples DEF RegisterUser
<1>2. Tailed(UpdateUser, <<Write("account", {"23505", "22001"}), Read("account", Same)>>)
  BY QuietForms, LoudSteps, TailedTuples DEF UpdateUser
<1>3. \A raw \in SUBSET Unfit : Tailed(DeleteUser(raw), <<Delete("account"), Purge>>)
  BY QuietForms, LoudSteps, TailedTuples DEF DeleteUser
<1>4. Tailed(LoginUser, NewPair)
  <2>1. <<Body, Read("account", Always("InvalidCredentials")),
          Check("password", "InvalidCredentials"),
          Read("account", Always("InvalidCredentials"))>> \in Seq(Quiet)
    BY QuietForms, Tuples
  <2>2. NewPair \in Seq(Steps)
    BY LoudSteps, Tuples DEF NewPair
  <2>. QED  BY <2>1, <2>2 DEF LoginUser, Tailed
<1>5. Tailed(RefreshTokens,
             <<Del("refresh"), Put("new_refresh"),
               Undoing({"new_refresh"}, Read("session", IfMissing("SessionNotFound"))),
               Undoing({"new_refresh"}, Put("session"))>>)
  BY QuietForms, QuietSteps, LoudSteps, TailedTuples DEF RefreshTokens
<1>6. Tailed(LogoutUser, LogoutUser)
  <2>1. LogoutUser \in Seq(Steps)
    BY QuietForms, LoudSteps, Tuples DEF LogoutUser
  <2>2. <<>> \in Seq(Quiet) /\ <<>> \o LogoutUser = LogoutUser
    BY <2>1, ConcatEmptySeq, EmptySeq
  <2>. QED  BY <2>1, <2>2 DEF Tailed
<1>7. Tailed(RevokeSession, <<Revoke(Revoked)>>)
  BY QuietForms, LoudSteps, TailedTuples DEF RevokeSession
<1>8. Tailed(RevokeAllSessions, <<Purge>>)
  <2>1. <<Purge>> \in Seq(Steps)
    BY LoudSteps, Tuples
  <2>2. <<>> \in Seq(Quiet) /\ <<>> \o <<Purge>> = <<Purge>>
    BY <2>1, ConcatEmptySeq, EmptySeq
  <2>. QED  BY <2>1, <2>2 DEF Tailed, RevokeAllSessions
<1>9. Tailed(Heartbeat, <<Put("session")>>)
  BY QuietForms, LoudSteps, TailedTuples DEF Heartbeat
<1>10. /\ \A raw \in SUBSET Unfit : Tailed(GetUserByID(raw), <<>>)
       /\ Tailed(GetUsers, <<>>)
       /\ Tailed(GetActiveSessions, <<>>) /\ Tailed(RevokeAllOtherSessions, <<>>)
  <2>1. (\A raw \in SUBSET Unfit : GetUserByID(raw) \in Seq(Quiet)) /\ GetUsers \in Seq(Quiet)
    BY QuietForms, Tuples DEF GetUserByID, GetUsers, Found
  <2>2. GetActiveSessions \in Seq(Quiet) /\ RevokeAllOtherSessions \in Seq(Quiet)
    BY QuietForms, Tuples DEF GetActiveSessions, RevokeAllOtherSessions
  <2>. QED  BY <2>1, <2>2, TailedNothing
<1>. QED  BY <1>1, <1>2, <1>3, <1>4, <1>5, <1>6, <1>7, <1>8, <1>9, <1>10

LEMMA LinkTails ==
  /\ Tailed(CreateShorten({}), <<Insert({}, {"22001"})>> \o Copied)
  /\ Tailed(CreateShorten({"account"}), <<Insert({"account"}, {"22001"})>> \o Copied)
  /\ Tailed(UpdateShorten, <<Write("link", {"22001"}), Read("link", Same)>> \o Copied)
  /\ Tailed(SetURLStatus(TRUE), <<Write("link", {}), Read("link", Same)>> \o Copied)
  /\ Tailed(SetURLStatus(FALSE), <<Write("link", {}), Read("link", Same)>> \o Uncopied)
  /\ Tailed(DeleteShorten, <<Delete("link")>>)
  /\ Tailed(GetShortens, <<>>) /\ Tailed(GetShortenByID, <<>>)
  /\ \A raw \in SUBSET Unfit : Tailed(GetShortenByOwner(raw), <<>>)
  /\ Tailed(GetOriginalURL(TRUE), <<>>) /\ Tailed(GetOriginalURL(FALSE), <<>>)
<1>. Quiet \subseteq Steps
  BY QuietSteps
<1>1. Copied \in Seq(Quiet) /\ Uncopied \in Seq(Quiet)
  BY QuietForms, Tuples DEF Copied, Uncopied
<1>2. ASSUME NEW g \in Seq(Quiet), NEW s \in Seq(Steps), NEW w \in Seq(Quiet)
      PROVE  Tailed((g \o s) \o w, s \o w)
  <2>1. g \in Seq(Steps) /\ w \in Seq(Steps)
    BY SeqMonotonic
  <2>2. (g \o s) \o w = g \o (s \o w)
    BY <2>1, ConcatAssociative
  <2>3. s \o w \in Seq(Steps)
    BY <2>1, Joined
  <2>. QED  BY <2>2, <2>3 DEF Tailed
<1>3. ASSUME NEW needs \in {{}, {"account"}}
      PROVE  Tailed(CreateShorten(needs), <<Insert(needs, {"22001"})>> \o Copied)
  <2>1. <<Body>> \in Seq(Quiet) /\ <<Insert(needs, {"22001"})>> \in Seq(Steps)
    BY QuietForms, LoudSteps, Tuples
  <2>2. <<Body, Insert(needs, {"22001"})>> = <<Body>> \o <<Insert(needs, {"22001"})>>
    BY CutTwo
  <2>. QED  BY <1>1, <1>2, <2>1, <2>2 DEF CreateShorten
<1>4. ASSUME NEW a \in {Body, Check("status", "BadRequest")}, NEW copied \in {Copied, Uncopied},
             NEW raw \in {{}, {"22001"}}
      PROVE  Tailed(<<a, Id, Named, Owned, Write("link", raw), Read("link", Same)>> \o copied,
                    <<Write("link", raw), Read("link", Same)>> \o copied)
  <2>1. /\ <<a, Id, Named, Owned>> \in Seq(Quiet)
        /\ <<Write("link", raw), Read("link", Same)>> \in Seq(Steps)
    BY QuietForms, LoudSteps, Tuples
  <2>2. <<a, Id, Named, Owned, Write("link", raw), Read("link", Same)>>
          = <<a, Id, Named, Owned>> \o <<Write("link", raw), Read("link", Same)>>
    BY CutSix
  <2>. QED  BY <1>1, <1>2, <2>1, <2>2
<1>5. Tailed(DeleteShorten, <<Delete("link")>>)
  <2>1. <<Id, Named, Owned>> \in Seq(Quiet) /\ <<Delete("link")>> \in Seq(Steps)
    BY QuietForms, LoudSteps, Tuples
  <2>. QED  BY <1>1, <2>1, Joined DEF DeleteShorten, Tailed
<1>6. {} \in SUBSET Unfit
  OBVIOUS
<1>7. /\ GetShortens \in Seq(Quiet) /\ GetShortenByID \in Seq(Quiet)
      /\ \A raw \in SUBSET Unfit : GetShortenByOwner(raw) \in Seq(Quiet)
      /\ GetOriginalURL(TRUE) \in Seq(Quiet) /\ GetOriginalURL(FALSE) \in Seq(Quiet)
  BY <1>6, QuietForms, Tuples DEF GetShortens, GetShortenByID, GetShortenByOwner, GetOriginalURL
<1>8. Tailed(UpdateShorten, <<Write("link", {"22001"}), Read("link", Same)>> \o Copied)
  BY <1>4 DEF UpdateShorten
<1>9. /\ Tailed(SetURLStatus(TRUE), <<Write("link", {}), Read("link", Same)>> \o Copied)
      /\ Tailed(SetURLStatus(FALSE), <<Write("link", {}), Read("link", Same)>> \o Uncopied)
  BY <1>4 DEF SetURLStatus
<1>. QED  BY <1>3, <1>5, <1>7, <1>8, <1>9, TailedNothing

-----------------------------------------------------------------------------
(* What may be answered by the service of the request, what by a failure   *)
(* and by something that is not there; the steps that suit its gate and    *)
(* those that suit its service.                                            *)
Allowed == Handler.docs \cup Untold
Failed ==
  Allowed \cap (CASE req.handler \in SessionLists -> {404, 500}
                  [] req.handler \in {"LoginUser", "RefreshToken"} -> {401, 500}
                  [] OTHER -> {500})
Lacked == Allowed \cap (IF req.handler = "CreateMyShorten" THEN Blamed \cup {500} ELSE Blamed)
GateFit == Sound(Handler.errors, OfGate, OfGate \cap {401}, OfGate \cap {401})
Fit == Sound(Handler.errors, Allowed, Failed, Lacked)

(* The requests that do the same work.                                     *)
Updating == {"UpdateMyProfile", "UpdateUser"}
Deleting == {"DeleteMyProfile", "DeleteUserProfile"}
Relinking == {"UpdateMyShorten", "UpdateUserShorten", "SetMyShortenStatus",
              "SetUserShortenStatus"}
Unlinking == {"UnsetMyShortenStatus", "UnsetUserShortenStatus"}

(* A new target may be too long, a status may not.                         *)
Strain ==
  IF req.handler \in {"UpdateMyShorten", "UpdateUserShorten"} THEN {"22001"} ELSE {}

(* What a request changes, and what it calls after that.                   *)
Work ==
  CASE req.handler = "RegisterUser" -> <<Insert({}, {"23505", "22001"})>>
    [] req.handler \in Updating ->
         <<Write("account", {"23505", "22001"}), Read("account", Same)>>
    [] req.handler \in Deleting -> <<Delete("account"), Purge>>
    [] req.handler = "LoginUser" -> NewPair
    [] req.handler = "RefreshToken" ->
         <<Del("refresh"), Put("new_refresh"),
           Undoing({"new_refresh"}, Read("session", IfMissing("SessionNotFound"))),
           Undoing({"new_refresh"}, Put("session"))>>
    [] req.handler = "LogoutUser" -> LogoutUser
    [] req.handler \in {"RevokeSessionMyProfile", "RevokeSessionUser"} -> <<Revoke(Revoked)>>
    [] req.handler \in {"RevokeAllSessionsMyProfile", "RevokeAllSessionsUser"} -> <<Purge>>
    [] req.handler = "Heartbeat" -> <<Put("session")>>
    [] req.handler = "CreateShorten" -> <<Insert({}, {"22001"})>> \o Copied
    [] req.handler = "CreateMyShorten" -> <<Insert({"account"}, {"22001"})>> \o Copied
    [] req.handler \in Relinking -> <<Write("link", Strain), Read("link", Same)>> \o Copied
    [] req.handler \in Unlinking -> <<Write("link", {}), Read("link", Same)>> \o Uncopied
    [] req.handler \in {"DeleteMyShorten", "DeleteUserShorten"} -> <<Delete("link")>>
    [] OTHER -> <<>>

(* The gates change nothing.                                               *)
LEMMA QuietGates ==
  ASSUME NEW open \in BOOLEAN
  PROVE  /\ Public(open) \in Seq(Quiet) /\ Mine(open) \in Seq(Quiet)
         /\ Admin(open) \in Seq(Quiet)
<1>1. <<Limit(open)>> \in Seq(Quiet)
  BY QuietSteps, Tuples
<1>2. ASSUME NEW session \in {"session", "admin_session"}
      PROVE  Authenticate(session) \in Seq(Quiet)
  <2>1. /\ Check("bearer", "Unauthorized") \in Quiet
        /\ Check("signed_not_expired", "Unauthorized") \in Quiet
    BY QuietSteps DEF Labels, Terms
  <2>2. Read(session, Always("Unauthorized")) \in Quiet
    BY QuietSteps, RewriteSet DEF Names, Things, UserKeys, BrowserKeys, Terms
  <2>. QED  BY <2>1, <2>2, Tuples DEF Authenticate
<1>3. RequireRole \in Seq(Quiet)
  BY QuietSteps, Tuples DEF RequireRole, Labels, Terms
<1>4. Authenticate("admin_session") \o RequireRole \in Seq(Quiet)
  BY <1>2, <1>3, Joined
<1>. QED  BY <1>1, <1>2, <1>4, Joined DEF Public, Mine, Admin

(* The gates, the inputs and the services, for the statuses of the route   *)
(* of the request.                                                         *)
LEMMA GateFits ==
  ASSUME Handler.errors \in {"user", "link"}, NEW open \in BOOLEAN
  PROVE  /\ Public(open) \in Seq(GateFit)
         /\ 401 \in OfGate => Mine(open) \in Seq(GateFit)
         /\ 401 \in OfGate /\ 403 \in OfGate => Admin(open) \in Seq(GateFit)
<1>1. {429, 503} \subseteq OfGate
  BY DEF OfGate
<1>. QED  BY <1>1, Gates DEF GateFit

LEMMA InputFits ==
  ASSUME Handler.errors \in {"user", "link"}
  PROVE  /\ 400 \in Allowed =>
              <<Page>> \in Seq(Fit) /\ <<Id>> \in Seq(Fit) /\ <<Page, Id>> \in Seq(Fit)
         /\ 401 \in Allowed =>
              /\ <<Cookie("session_id")>> \in Seq(Fit)
              /\ 400 \in Allowed => <<Cookie("session_id"), Body>> \in Seq(Fit)
              /\ <<Cookie("refresh_token"), Cookie("session_id")>> \in Seq(Fit)
         /\ <<Page>> \in Seq(Quiet) /\ <<Id>> \in Seq(Quiet) /\ <<Page, Id>> \in Seq(Quiet)
         /\ <<Cookie("session_id")>> \in Seq(Quiet)
         /\ <<Cookie("session_id"), Body>> \in Seq(Quiet)
         /\ <<Cookie("refresh_token"), Cookie("session_id")>> \in Seq(Quiet)
<1>1. 400 \in Allowed => Page \in Fit /\ Body \in Fit /\ Id \in Fit
  BY Checks DEF Fit
<1>2. 401 \in Allowed => Cookie("session_id") \in Fit /\ Cookie("refresh_token") \in Fit
  BY Checks DEF Fit, Cookies
<1>. QED  BY <1>1, <1>2, QuietForms, Tuples

LEMMA UserFits ==
  ASSUME Handler.errors = "user", 500 \in Allowed, 500 \in Failed
  PROVE  /\ 400 \in Allowed /\ 409 \in Allowed => RegisterUser \in Seq(Fit)
         /\ {400, 403, 409} \subseteq Allowed /\ 404 \in Lacked => UpdateUser \in Seq(Fit)
         /\ 404 \in Lacked => \A raw \in SUBSET Unfit : GetUserByID(raw) \in Seq(Fit)
         /\ 400 \in Allowed /\ 404 \in Lacked => Heartbeat \in Seq(Fit)
         /\ 404 \in Allowed => GetUsers \in Seq(Fit)
         /\ 403 \in Allowed /\ 404 \in Lacked =>
              \A raw \in SUBSET Unfit : DeleteUser(raw) \in Seq(Fit)
         /\ {400, 401} \subseteq Allowed /\ 401 \in Failed /\ 401 \in Lacked =>
              LoginUser \in Seq(Fit)
         /\ 409 \in Allowed /\ 401 \in Failed /\ 401 \in Lacked /\ 404 \in Lacked =>
              RefreshTokens \in Seq(Fit)
         /\ 400 \in Allowed => LogoutUser \in Seq(Fit) /\ RevokeSession \in Seq(Fit)
         /\ RevokeAllOtherSessions \in Seq(Fit) /\ RevokeAllSessions \in Seq(Fit)
         /\ 400 \in Allowed /\ 404 \in Failed /\ 404 \in Lacked =>
              GetActiveSessions \in Seq(Fit)
  BY UserServices DEF Fit

LEMMA LinkFits ==
  ASSUME Handler.errors = "link", 500 \in Allowed, 500 \in Failed
  PROVE  /\ 400 \in Allowed => CreateShorten({}) \in Seq(Fit)
         /\ 400 \in Allowed /\ 500 \in Lacked => CreateShorten({"account"}) \in Seq(Fit)
         /\ 400 \in Allowed /\ 403 \in Allowed /\ 404 \in Lacked =>
              /\ UpdateShorten \in Seq(Fit) /\ GetShortenByID \in Seq(Fit)
              /\ SetURLStatus(TRUE) \in Seq(Fit) /\ SetURLStatus(FALSE) \in Seq(Fit)
              /\ DeleteShorten \in Seq(Fit)
         /\ 404 \in Allowed => GetShortens \in Seq(Fit)
         /\ 404 \in Allowed => \A raw \in SUBSET Unfit : GetShortenByOwner(raw) \in Seq(Fit)
         /\ 404 \in Allowed /\ 404 \in Lacked =>
              GetOriginalURL(TRUE) \in Seq(Fit) /\ GetOriginalURL(FALSE) \in Seq(Fit)
  BY LinkServices DEF Fit

(* The work of a request is that of its service.                           *)
LEMMA WorkOf ==
  /\ req.handler = "RegisterUser" => Tailed(RegisterUser, Work)
  /\ req.handler \in Updating => Tailed(UpdateUser, Work)
  /\ req.handler \in Deleting => \A raw \in SUBSET Unfit : Tailed(DeleteUser(raw), Work)
  /\ req.handler = "LoginUser" => Tailed(LoginUser, Work)
  /\ req.handler = "RefreshToken" => Tailed(RefreshTokens, Work)
  /\ req.handler = "LogoutUser" => Tailed(LogoutUser, Work)
  /\ req.handler \in {"RevokeSessionMyProfile", "RevokeSessionUser"} =>
       Tailed(RevokeSession, Work)
  /\ req.handler \in {"RevokeAllSessionsMyProfile", "RevokeAllSessionsUser"} =>
       Tailed(RevokeAllSessions, Work)
  /\ req.handler = "Heartbeat" => Tailed(Heartbeat, Work)
  /\ req.handler = "CreateShorten" => Tailed(CreateShorten({}), Work)
  /\ req.handler = "CreateMyShorten" => Tailed(CreateShorten({"account"}), Work)
  /\ req.handler \in {"UpdateMyShorten", "UpdateUserShorten"} => Tailed(UpdateShorten, Work)
  /\ req.handler \in {"SetMyShortenStatus", "SetUserShortenStatus"} =>
       Tailed(SetURLStatus(TRUE), Work)
  /\ req.handler \in Unlinking => Tailed(SetURLStatus(FALSE), Work)
  /\ req.handler \in {"DeleteMyShorten", "DeleteUserShorten"} => Tailed(DeleteShorten, Work)
<1>. DEFINE h == req.handler
<1>1. h = "RegisterUser" => Tailed(RegisterUser, Work)
  BY UserTails DEF Work, Updating, Deleting, Relinking, Unlinking
<1>2. h \in Updating => Tailed(UpdateUser, Work)
  BY UserTails DEF Work, Updating, Deleting, Relinking, Unlinking
<1>3. h \in Deleting => \A raw \in SUBSET Unfit : Tailed(DeleteUser(raw), Work)
  BY UserTails DEF Work, Updating, Deleting, Relinking, Unlinking
<1>4. h = "LoginUser" => Tailed(LoginUser, Work)
  BY UserTails DEF Work, Updating, Deleting, Relinking, Unlinking
<1>5. h = "RefreshToken" => Tailed(RefreshTokens, Work)
  BY UserTails DEF Work, Updating, Deleting, Relinking, Unlinking
<1>6. h = "LogoutUser" => Tailed(LogoutUser, Work)
  BY UserTails DEF Work, Updating, Deleting, Relinking, Unlinking
<1>7. h \in {"RevokeSessionMyProfile", "RevokeSessionUser"} => Tailed(RevokeSession, Work)
  BY UserTails DEF Work, Updating, Deleting, Relinking, Unlinking
<1>8. h \in {"RevokeAllSessionsMyProfile", "RevokeAllSessionsUser"} =>
        Tailed(RevokeAllSessions, Work)
  BY UserTails DEF Work, Updating, Deleting, Relinking, Unlinking
<1>9. h = "Heartbeat" => Tailed(Heartbeat, Work)
  BY UserTails DEF Work, Updating, Deleting, Relinking, Unlinking
<1>10. h = "CreateShorten" => Tailed(CreateShorten({}), Work)
  BY LinkTails DEF Work, Updating, Deleting, Relinking, Unlinking
<1>11. h = "CreateMyShorten" => Tailed(CreateShorten({"account"}), Work)
  BY LinkTails DEF Work, Updating, Deleting, Relinking, Unlinking
<1>12. h \in {"UpdateMyShorten", "UpdateUserShorten"} => Tailed(UpdateShorten, Work)
  BY LinkTails DEF Work, Updating, Deleting, Relinking, Unlinking, Strain
<1>13. h \in {"SetMyShortenStatus", "SetUserShortenStatus"} => Tailed(SetURLStatus(TRUE), Work)
  BY LinkTails DEF Work, Updating, Deleting, Relinking, Unlinking, Strain
<1>14. h \in Unlinking => Tailed(SetURLStatus(FALSE), Work)
  BY LinkTails DEF Work, Updating, Deleting, Relinking, Unlinking
<1>15. h \in {"DeleteMyShorten", "DeleteUserShorten"} => Tailed(DeleteShorten, Work)
  BY LinkTails DEF Work, Updating, Deleting, Relinking, Unlinking
<1>. QED
  BY <1>1, <1>2, <1>3, <1>4, <1>5, <1>6, <1>7, <1>8, <1>9, <1>10, <1>11, <1>12, <1>13,
     <1>14, <1>15

(* The requests that change nothing.                                       *)
LEMMA NoWork ==
  ASSUME req.handler \in {"GetMyProfile", "GetUserByID", "GetUsers", "GetActiveSessionsMyProfile",
                          "GetActiveSessionsUser", "RevokeAllOtherSessionsMyProfile", "Redirect",
                          "RedirectCached", "GetMyShortens", "GetMyShortenByID",
                          "GetUserShortens", "GetUserShortenByID", "GetShortensByUserID"}
  PROVE  Work = <<>>
  BY DEF Work, Updating, Deleting, Relinking, Unlinking

(* A route is a gate, which changes nothing, and its service.              *)
LEMMA Assembled ==
  ASSUME NEW g \in Seq(Quiet), NEW s, Handler.steps = g \o s, Handler.gate = Len(g),
         Tailed(s, Work), g \in Seq(GateFit), s \in Seq(Fit)
  PROVE  /\ Tailed(Handler.steps, Work)
         /\ Handler.gate \in Nat /\ Handler.gate <= Len(Handler.steps)
         /\ \A i \in 1 .. Handler.gate : Handler.steps[i] \in GateFit
         /\ \A i \in Handler.gate + 1 .. Len(Handler.steps) : Handler.steps[i] \in Fit
<1>1. Tailed(Handler.steps, Work)
  BY TailedBehind
<1>2. g \in Seq(Steps) /\ s \in Seq(Steps)
  BY SeqMonotonic DEF GateFit, Fit, Sound
<1>3. /\ Len(Handler.steps) = Len(g) + Len(s) /\ Len(g) \in Nat /\ Len(s) \in Nat
      /\ \A i \in 1 .. Len(g) : Handler.steps[i] = g[i]
      /\ \A i \in 1 .. Len(s) : Handler.steps[Len(g) + i] = s[i]
  BY <1>2, Joined, LenProperties
<1>4. \A i \in 1 .. Len(g) : g[i] \in GateFit
  BY ElementOfSeq
<1>5. \A i \in 1 .. Len(s) : s[i] \in Fit
  BY ElementOfSeq
<1>6. ASSUME NEW i \in Len(g) + 1 .. Len(Handler.steps)
      PROVE  Handler.steps[i] \in Fit
  <2>1. PICK j \in 1 .. Len(s) : i = Len(g) + j
    <3>1. i - Len(g) \in 1 .. Len(s) /\ i = Len(g) + (i - Len(g))
      BY <1>3
    <3>. QED  BY <3>1
  <2>. QED  BY <1>3, <1>5, <2>1
<1>. QED  BY <1>1, <1>3, <1>4, <1>6

(* Every step of every route fits its gate or its service, save on the     *)
(* route of UpdateUser: there an administrator is refused as an            *)
(* administrator, and what comes behind that check is never reached.       *)
LEMMA Fits ==
  ASSUME req.handler \in DOMAIN Routes, req.handler # "UpdateUser"
  PROVE  /\ Tailed(Handler.steps, Work)
         /\ Handler.gate \in Nat /\ Handler.gate <= Len(Handler.steps)
         /\ \A i \in 1 .. Handler.gate : Handler.steps[i] \in GateFit
         /\ \A i \in Handler.gate + 1 .. Len(Handler.steps) : Handler.steps[i] \in Fit
<1>. DEFINE h == req.handler
<1>1. CASE h = "RegisterUser"
  <2>1. Handler = RegisterUserHandler
    BY <1>1, UserRouted DEF Handler
  <2>2. /\ Handler.errors = "user" /\ Handler.steps = Public(FALSE) \o RegisterUser
        /\ Handler.gate = Len(Public(FALSE))
    BY <2>1 DEF RegisterUserHandler, User
  <2>3. 400 \in Allowed /\ 409 \in Allowed /\ 500 \in Allowed /\ 500 \in Failed
    BY <1>1, <2>1, RouteNames
       DEF Allowed, Failed, Lacked, Untold, Blamed, SessionLists, RegisterUserHandler,
           User
  <2>4. RegisterUser \in Seq(Fit) /\ Tailed(RegisterUser, Work)
    BY <1>1, <2>2, <2>3, UserFits, WorkOf
  <2>6. Public(FALSE) \in Seq(GateFit) /\ Public(FALSE) \in Seq(Quiet)
    BY <2>2, GateFits, QuietGates
  <2>. QED  BY <2>2, <2>4, <2>6, Assembled
<1>2. CASE h = "LoginUser"
  <2>1. Handler = LoginUserHandler
    BY <1>2, UserRouted DEF Handler
  <2>2. /\ Handler.errors = "user" /\ Handler.steps = Public(FALSE) \o LoginUser
        /\ Handler.gate = Len(Public(FALSE))
    BY <2>1 DEF LoginUserHandler, User
  <2>3. /\ 400 \in Allowed /\ 401 \in Allowed /\ 500 \in Allowed /\ 401 \in Failed
        /\ 500 \in Failed /\ 401 \in Lacked
    BY <1>2, <2>1, RouteNames
       DEF Allowed, Failed, Lacked, Untold, Blamed, SessionLists, LoginUserHandler, User
  <2>4. LoginUser \in Seq(Fit) /\ Tailed(LoginUser, Work)
    BY <1>2, <2>2, <2>3, UserFits, WorkOf
  <2>6. Public(FALSE) \in Seq(GateFit) /\ Public(FALSE) \in Seq(Quiet)
    BY <2>2, GateFits, QuietGates
  <2>. QED  BY <2>2, <2>4, <2>6, Assembled
<1>3. CASE h = "RefreshToken"
  <2>1. Handler = RefreshTokenHandler
    BY <1>3, UserRouted DEF Handler
  <2>2. /\ Handler.errors = "user"
        /\ Handler.steps =
             Public(FALSE) \o (<<Cookie("refresh_token"), Cookie("session_id")>> \o RefreshTokens)
        /\ Handler.gate = Len(Public(FALSE))
    BY <2>1 DEF RefreshTokenHandler, User
  <2>3. /\ 401 \in Allowed /\ 409 \in Allowed /\ 500 \in Allowed /\ 401 \in Failed
        /\ 500 \in Failed /\ 401 \in Lacked /\ 404 \in Lacked
    BY <1>3, <2>1, RouteNames
       DEF Allowed, Failed, Lacked, Untold, Blamed, SessionLists, RefreshTokenHandler,
           User
  <2>4. RefreshTokens \in Seq(Fit) /\ Tailed(RefreshTokens, Work)
    BY <1>3, <2>2, <2>3, UserFits, WorkOf
  <2>6. Public(FALSE) \in Seq(GateFit) /\ Public(FALSE) \in Seq(Quiet)
    BY <2>2, GateFits, QuietGates
  <2>7. /\ <<Cookie("refresh_token"), Cookie("session_id")>> \in Seq(Fit)
        /\ <<Cookie("refresh_token"), Cookie("session_id")>> \in Seq(Quiet)
    BY <2>2, <2>3, InputFits
  <2>8. /\ <<Cookie("refresh_token"), Cookie("session_id")>> \o RefreshTokens \in Seq(Fit)
        /\ Tailed(<<Cookie("refresh_token"), Cookie("session_id")>> \o RefreshTokens, Work)
    BY <2>4, <2>7, Joined, TailedBehind
  <2>. QED  BY <2>2, <2>8, <2>6, Assembled
<1>4. CASE h = "Heartbeat"
  <2>1. Handler = HeartbeatHandler
    BY <1>4, UserRouted DEF Handler
  <2>2. /\ Handler.errors = "user"
        /\ Handler.steps = Public(TRUE) \o (<<Cookie("session_id"), Body>> \o Heartbeat)
        /\ Handler.gate = Len(Public(TRUE))
    BY <2>1 DEF HeartbeatHandler, User
  <2>3. /\ 400 \in Allowed /\ 401 \in Allowed /\ 500 \in Allowed /\ 500 \in Failed
        /\ 404 \in Lacked
    BY <1>4, <2>1, RouteNames
       DEF Allowed, Failed, Lacked, Untold, Blamed, SessionLists, HeartbeatHandler, User
  <2>4. Heartbeat \in Seq(Fit) /\ Tailed(Heartbeat, Work)
    BY <1>4, <2>2, <2>3, UserFits, WorkOf
  <2>6. Public(TRUE) \in Seq(GateFit) /\ Public(TRUE) \in Seq(Quiet)
    BY <2>2, GateFits, QuietGates
  <2>7. /\ <<Cookie("session_id"), Body>> \in Seq(Fit)
        /\ <<Cookie("session_id"), Body>> \in Seq(Quiet)
    BY <2>2, <2>3, InputFits
  <2>8. /\ <<Cookie("session_id"), Body>> \o Heartbeat \in Seq(Fit)
        /\ Tailed(<<Cookie("session_id"), Body>> \o Heartbeat, Work)
    BY <2>4, <2>7, Joined, TailedBehind
  <2>. QED  BY <2>2, <2>8, <2>6, Assembled
<1>5. CASE h = "LogoutUser"
  <2>1. Handler = LogoutUserHandler
    BY <1>5, UserRouted DEF Handler
  <2>2. /\ Handler.errors = "user"
        /\ Handler.steps =
             Mine(TRUE) \o (<<Cookie("refresh_token"), Cookie("session_id")>> \o LogoutUser)
        /\ Handler.gate = Len(Mine(TRUE))
    BY <2>1 DEF LogoutUserHandler, User
  <2>3. 400 \in Allowed /\ 401 \in Allowed /\ 500 \in Allowed /\ 500 \in Failed
    BY <1>5, <2>1, RouteNames
       DEF Allowed, Failed, Lacked, Untold, Blamed, SessionLists, LogoutUserHandler,
           User
  <2>4. LogoutUser \in Seq(Fit) /\ Tailed(LogoutUser, Work)
    BY <1>5, <2>2, <2>3, UserFits, WorkOf
  <2>5. 401 \in OfGate
    BY <1>5, RouteNames DEF OfGate, Open
  <2>6. Mine(TRUE) \in Seq(GateFit) /\ Mine(TRUE) \in Seq(Quiet)
    BY <2>2, <2>5, GateFits, QuietGates
  <2>7. /\ <<Cookie("refresh_token"), Cookie("session_id")>> \in Seq(Fit)
        /\ <<Cookie("refresh_token"), Cookie("session_id")>> \in Seq(Quiet)
    BY <2>2, <2>3, InputFits
  <2>8. /\ <<Cookie("refresh_token"), Cookie("session_id")>> \o LogoutUser \in Seq(Fit)
        /\ Tailed(<<Cookie("refresh_token"), Cookie("session_id")>> \o LogoutUser, Work)
    BY <2>4, <2>7, Joined, TailedBehind
  <2>. QED  BY <2>2, <2>8, <2>6, Assembled
<1>6. CASE h = "GetMyProfile"
  <2>1. Handler = GetMyProfileHandler
    BY <1>6, UserRouted DEF Handler
  <2>2. /\ Handler.errors = "user" /\ Handler.steps = Mine(TRUE) \o GetUserByID({})
        /\ Handler.gate = Len(Mine(TRUE))
    BY <2>1 DEF GetMyProfileHandler, User
  <2>3. 500 \in Allowed /\ 500 \in Failed /\ 404 \in Lacked
    BY <1>6, <2>1, RouteNames
       DEF Allowed, Failed, Lacked, Untold, Blamed, SessionLists, GetMyProfileHandler,
           User
  <2>4. GetUserByID({}) \in Seq(Fit) /\ Tailed(GetUserByID({}), Work)
    BY <1>6, <2>2, <2>3, UserFits, NoWork, UserTails
  <2>5. 401 \in OfGate
    BY <1>6, RouteNames DEF OfGate, Open
  <2>6. Mine(TRUE) \in Seq(GateFit) /\ Mine(TRUE) \in Seq(Quiet)
    BY <2>2, <2>5, GateFits, QuietGates
  <2>. QED  BY <2>2, <2>4, <2>6, Assembled
<1>7. CASE h = "UpdateMyProfile"
  <2>1. Handler = UpdateMyProfileHandler
    BY <1>7, UserRouted DEF Handler
  <2>2. /\ Handler.errors = "user" /\ Handler.steps = Mine(FALSE) \o UpdateUser
        /\ Handler.gate = Len(Mine(FALSE))
    BY <2>1 DEF UpdateMyProfileHandler, User
  <2>3. /\ 400 \in Allowed /\ 403 \in Allowed /\ 409 \in Allowed /\ 500 \in Allowed
        /\ 500 \in Failed /\ 404 \in Lacked
    BY <1>7, <2>1, RouteNames
       DEF Allowed, Failed, Lacked, Untold, Blamed, SessionLists,
           UpdateMyProfileHandler, User
  <2>4. UpdateUser \in Seq(Fit) /\ Tailed(UpdateUser, Work)
    BY <1>7, <2>2, <2>3, UserFits, WorkOf DEF Updating
  <2>5. 401 \in OfGate
    BY <1>7, RouteNames DEF OfGate, Open
  <2>6. Mine(FALSE) \in Seq(GateFit) /\ Mine(FALSE) \in Seq(Quiet)
    BY <2>2, <2>5, GateFits, QuietGates
  <2>. QED  BY <2>2, <2>4, <2>6, Assembled
<1>8. CASE h = "DeleteMyProfile"
  <2>1. Handler = DeleteMyProfileHandler
    BY <1>8, UserRouted DEF Handler
  <2>2. /\ Handler.errors = "user" /\ Handler.steps = Mine(FALSE) \o DeleteUser({})
        /\ Handler.gate = Len(Mine(FALSE))
    BY <2>1 DEF DeleteMyProfileHandler, User
  <2>3. 403 \in Allowed /\ 500 \in Allowed /\ 500 \in Failed /\ 404 \in Lacked
    BY <1>8, <2>1, RouteNames
       DEF Allowed, Failed, Lacked, Untold, Blamed, SessionLists,
           DeleteMyProfileHandler, User
  <2>4. DeleteUser({}) \in Seq(Fit) /\ Tailed(DeleteUser({}), Work)
    BY <1>8, <2>2, <2>3, UserFits, WorkOf DEF Deleting
  <2>5. 401 \in OfGate
    BY <1>8, RouteNames DEF OfGate, Open
  <2>6. Mine(FALSE) \in Seq(GateFit) /\ Mine(FALSE) \in Seq(Quiet)
    BY <2>2, <2>5, GateFits, QuietGates
  <2>. QED  BY <2>2, <2>4, <2>6, Assembled
<1>9. CASE h = "GetActiveSessionsMyProfile"
  <2>1. Handler = GetActiveSessionsMyProfileHandler
    BY <1>9, UserRouted DEF Handler
  <2>2. /\ Handler.errors = "user"
        /\ Handler.steps = Mine(TRUE) \o (<<Cookie("session_id")>> \o GetActiveSessions)
        /\ Handler.gate = Len(Mine(TRUE))
    BY <2>1 DEF GetActiveSessionsMyProfileHandler, User
  <2>3. /\ 400 \in Allowed /\ 401 \in Allowed /\ 500 \in Allowed /\ 404 \in Failed
        /\ 500 \in Failed /\ 404 \in Lacked
    BY <1>9, <2>1, RouteNames
       DEF Allowed, Failed, Lacked, Untold, Blamed, SessionLists,
           GetActiveSessionsMyProfileHandler, User
  <2>4. GetActiveSessions \in Seq(Fit) /\ Tailed(GetActiveSessions, Work)
    BY <1>9, <2>2, <2>3, UserFits, NoWork, UserTails
  <2>5. 401 \in OfGate
    BY <1>9, RouteNames DEF OfGate, Open
  <2>6. Mine(TRUE) \in Seq(GateFit) /\ Mine(TRUE) \in Seq(Quiet)
    BY <2>2, <2>5, GateFits, QuietGates
  <2>7. /\ <<Cookie("session_id")>> \in Seq(Fit)
        /\ <<Cookie("session_id")>> \in Seq(Quiet)
    BY <2>2, <2>3, InputFits
  <2>8. /\ <<Cookie("session_id")>> \o GetActiveSessions \in Seq(Fit)
        /\ Tailed(<<Cookie("session_id")>> \o GetActiveSessions, Work)
    BY <2>4, <2>7, Joined, TailedBehind
  <2>. QED  BY <2>2, <2>8, <2>6, Assembled
<1>10. CASE h = "RevokeSessionMyProfile"
  <2>1. Handler = RevokeSessionMyProfileHandler
    BY <1>10, UserRouted DEF Handler
  <2>2. /\ Handler.errors = "user" /\ Handler.steps = Mine(FALSE) \o RevokeSession
        /\ Handler.gate = Len(Mine(FALSE))
    BY <2>1 DEF RevokeSessionMyProfileHandler, User
  <2>3. 400 \in Allowed /\ 500 \in Allowed /\ 500 \in Failed
    BY <1>10, <2>1, RouteNames
       DEF Allowed, Failed, Lacked, Untold, Blamed, SessionLists,
           RevokeSessionMyProfileHandler, User
  <2>4. RevokeSession \in Seq(Fit) /\ Tailed(RevokeSession, Work)
    BY <1>10, <2>2, <2>3, UserFits, WorkOf
  <2>5. 401 \in OfGate
    BY <1>10, RouteNames DEF OfGate, Open
  <2>6. Mine(FALSE) \in Seq(GateFit) /\ Mine(FALSE) \in Seq(Quiet)
    BY <2>2, <2>5, GateFits, QuietGates
  <2>. QED  BY <2>2, <2>4, <2>6, Assembled
<1>11. CASE h = "RevokeAllOtherSessionsMyProfile"
  <2>1. Handler = RevokeAllOtherSessionsMyProfileHandler
    BY <1>11, UserRouted DEF Handler
  <2>2. /\ Handler.errors = "user"
        /\ Handler.steps = Mine(FALSE) \o RevokeAllOtherSessions
        /\ Handler.gate = Len(Mine(FALSE))
    BY <2>1 DEF RevokeAllOtherSessionsMyProfileHandler, User
  <2>3. 500 \in Allowed /\ 500 \in Failed
    BY <1>11, <2>1, RouteNames
       DEF Allowed, Failed, Lacked, Untold, Blamed, SessionLists,
           RevokeAllOtherSessionsMyProfileHandler, User
  <2>4. /\ RevokeAllOtherSessions \in Seq(Fit)
        /\ Tailed(RevokeAllOtherSessions, Work)
    BY <1>11, <2>2, <2>3, UserFits, NoWork, UserTails
  <2>5. 401 \in OfGate
    BY <1>11, RouteNames DEF OfGate, Open
  <2>6. Mine(FALSE) \in Seq(GateFit) /\ Mine(FALSE) \in Seq(Quiet)
    BY <2>2, <2>5, GateFits, QuietGates
  <2>. QED  BY <2>2, <2>4, <2>6, Assembled
<1>12. CASE h = "RevokeAllSessionsMyProfile"
  <2>1. Handler = RevokeAllSessionsMyProfileHandler
    BY <1>12, UserRouted DEF Handler
  <2>2. /\ Handler.errors = "user"
        /\ Handler.steps = Mine(FALSE) \o RevokeAllSessions
        /\ Handler.gate = Len(Mine(FALSE))
    BY <2>1 DEF RevokeAllSessionsMyProfileHandler, User
  <2>3. 500 \in Allowed /\ 500 \in Failed
    BY <1>12, <2>1, RouteNames
       DEF Allowed, Failed, Lacked, Untold, Blamed, SessionLists,
           RevokeAllSessionsMyProfileHandler, User
  <2>4. RevokeAllSessions \in Seq(Fit) /\ Tailed(RevokeAllSessions, Work)
    BY <1>12, <2>2, <2>3, UserFits, WorkOf
  <2>5. 401 \in OfGate
    BY <1>12, RouteNames DEF OfGate, Open
  <2>6. Mine(FALSE) \in Seq(GateFit) /\ Mine(FALSE) \in Seq(Quiet)
    BY <2>2, <2>5, GateFits, QuietGates
  <2>. QED  BY <2>2, <2>4, <2>6, Assembled
<1>13. CASE h = "Redirect"
  <2>1. Handler = RedirectHandler(FALSE)
    BY <1>13, UserRouted DEF Handler
  <2>2. /\ Handler.errors = "link"
        /\ Handler.steps = Public(TRUE) \o GetOriginalURL(FALSE)
        /\ Handler.gate = Len(Public(TRUE))
    BY <2>1 DEF RedirectHandler, Link
  <2>3. 404 \in Allowed /\ 500 \in Allowed /\ 500 \in Failed /\ 404 \in Lacked
    BY <1>13, <2>1, RouteNames
       DEF Allowed, Failed, Lacked, Untold, Blamed, SessionLists, RedirectHandler, Link
  <2>4. GetOriginalURL(FALSE) \in Seq(Fit) /\ Tailed(GetOriginalURL(FALSE), Work)
    BY <1>13, <2>2, <2>3, LinkFits, NoWork, LinkTails
  <2>6. Public(TRUE) \in Seq(GateFit) /\ Public(TRUE) \in Seq(Quiet)
    BY <2>2, GateFits, QuietGates
  <2>. QED  BY <2>2, <2>4, <2>6, Assembled
<1>14. CASE h = "RedirectCached"
  <2>1. Handler = RedirectHandler(TRUE)
    BY <1>14, UserRouted DEF Handler
  <2>2. /\ Handler.errors = "link"
        /\ Handler.steps = Public(TRUE) \o GetOriginalURL(TRUE)
        /\ Handler.gate = Len(Public(TRUE))
    BY <2>1 DEF RedirectHandler, Link
  <2>3. 404 \in Allowed /\ 500 \in Allowed /\ 500 \in Failed /\ 404 \in Lacked
    BY <1>14, <2>1, RouteNames
       DEF Allowed, Failed, Lacked, Untold, Blamed, SessionLists, RedirectHandler, Link
  <2>4. GetOriginalURL(TRUE) \in Seq(Fit) /\ Tailed(GetOriginalURL(TRUE), Work)
    BY <1>14, <2>2, <2>3, LinkFits, NoWork, LinkTails
  <2>6. Public(TRUE) \in Seq(GateFit) /\ Public(TRUE) \in Seq(Quiet)
    BY <2>2, GateFits, QuietGates
  <2>. QED  BY <2>2, <2>4, <2>6, Assembled
<1>15. CASE h = "CreateShorten"
  <2>1. Handler = CreateShortenHandler
    BY <1>15, UserRouted DEF Handler
  <2>2. /\ Handler.errors = "link"
        /\ Handler.steps = (Public(FALSE) \o Public(FALSE)) \o CreateShorten({})
        /\ Handler.gate = Len(Public(FALSE) \o Public(FALSE))
    BY <2>1 DEF CreateShortenHandler, Link
  <2>3. 400 \in Allowed /\ 500 \in Allowed /\ 500 \in Failed
    BY <1>15, <2>1, RouteNames
       DEF Allowed, Failed, Lacked, Untold, Blamed, SessionLists, CreateShortenHandler,
           Link
  <2>4. CreateShorten({}) \in Seq(Fit) /\ Tailed(CreateShorten({}), Work)
    BY <1>15, <2>2, <2>3, LinkFits, WorkOf
  <2>6. Public(FALSE) \in Seq(GateFit) /\ Public(FALSE) \in Seq(Quiet)
    BY <2>2, GateFits, QuietGates
  <2>7. /\ Public(FALSE) \o Public(FALSE) \in Seq(GateFit)
        /\ Public(FALSE) \o Public(FALSE) \in Seq(Quiet)
    BY <2>6, Joined
  <2>. QED  BY <2>2, <2>4, <2>7, Assembled
<1>16. CASE h = "CreateMyShorten"
  <2>1. Handler = CreateMyShortenHandler
    BY <1>16, UserRouted DEF Handler
  <2>2. /\ Handler.errors = "link"
        /\ Handler.steps = Mine(FALSE) \o CreateShorten({"account"})
        /\ Handler.gate = Len(Mine(FALSE))
    BY <2>1 DEF CreateMyShortenHandler, Link
  <2>3. 400 \in Allowed /\ 500 \in Allowed /\ 500 \in Failed /\ 500 \in Lacked
    BY <1>16, <2>1, RouteNames
       DEF Allowed, Failed, Lacked, Untold, Blamed, SessionLists,
           CreateMyShortenHandler, Link
  <2>4. /\ CreateShorten({"account"}) \in Seq(Fit)
        /\ Tailed(CreateShorten({"account"}), Work)
    BY <1>16, <2>2, <2>3, LinkFits, WorkOf
  <2>5. 401 \in OfGate
    BY <1>16, RouteNames DEF OfGate, Open
  <2>6. Mine(FALSE) \in Seq(GateFit) /\ Mine(FALSE) \in Seq(Quiet)
    BY <2>2, <2>5, GateFits, QuietGates
  <2>. QED  BY <2>2, <2>4, <2>6, Assembled
<1>17. CASE h = "GetMyShortens"
  <2>1. Handler = GetMyShortensHandler
    BY <1>17, UserRouted DEF Handler
  <2>2. /\ Handler.errors = "link"
        /\ Handler.steps = Mine(TRUE) \o (<<Page>> \o GetShortenByOwner({}))
        /\ Handler.gate = Len(Mine(TRUE))
    BY <2>1 DEF GetMyShortensHandler, Link
  <2>3. 400 \in Allowed /\ 404 \in Allowed /\ 500 \in Allowed /\ 500 \in Failed
    BY <1>17, <2>1, RouteNames
       DEF Allowed, Failed, Lacked, Untold, Blamed, SessionLists, GetMyShortensHandler,
           Link
  <2>4. GetShortenByOwner({}) \in Seq(Fit) /\ Tailed(GetShortenByOwner({}), Work)
    BY <1>17, <2>2, <2>3, LinkFits, NoWork, LinkTails
  <2>5. 401 \in OfGate
    BY <1>17, RouteNames DEF OfGate, Open
  <2>6. Mine(TRUE) \in Seq(GateFit) /\ Mine(TRUE) \in Seq(Quiet)
    BY <2>2, <2>5, GateFits, QuietGates
  <2>7. <<Page>> \in Seq(Fit) /\ <<Page>> \in Seq(Quiet)
    BY <2>2, <2>3, InputFits
  <2>8. /\ <<Page>> \o GetShortenByOwner({}) \in Seq(Fit)
        /\ Tailed(<<Page>> \o GetShortenByOwner({}), Work)
    BY <2>4, <2>7, Joined, TailedBehind
  <2>. QED  BY <2>2, <2>8, <2>6, Assembled
<1>18. CASE h = "GetMyShortenByID"
  <2>1. Handler = GetMyShortenByIDHandler
    BY <1>18, UserRouted DEF Handler
  <2>2. /\ Handler.errors = "link" /\ Handler.steps = Mine(TRUE) \o GetShortenByID
        /\ Handler.gate = Len(Mine(TRUE))
    BY <2>1 DEF GetMyShortenByIDHandler, Link
  <2>3. /\ 400 \in Allowed /\ 403 \in Allowed /\ 500 \in Allowed /\ 500 \in Failed
        /\ 404 \in Lacked
    BY <1>18, <2>1, RouteNames
       DEF Allowed, Failed, Lacked, Untold, Blamed, SessionLists,
           GetMyShortenByIDHandler, Link
  <2>4. GetShortenByID \in Seq(Fit) /\ Tailed(GetShortenByID, Work)
    BY <1>18, <2>2, <2>3, LinkFits, NoWork, LinkTails
  <2>5. 401 \in OfGate
    BY <1>18, RouteNames DEF OfGate, Open
  <2>6. Mine(TRUE) \in Seq(GateFit) /\ Mine(TRUE) \in Seq(Quiet)
    BY <2>2, <2>5, GateFits, QuietGates
  <2>. QED  BY <2>2, <2>4, <2>6, Assembled
<1>19. CASE h = "UpdateMyShorten"
  <2>1. Handler = UpdateMyShortenHandler
    BY <1>19, UserRouted DEF Handler
  <2>2. /\ Handler.errors = "link" /\ Handler.steps = Mine(FALSE) \o UpdateShorten
        /\ Handler.gate = Len(Mine(FALSE))
    BY <2>1 DEF UpdateMyShortenHandler, Link
  <2>3. /\ 400 \in Allowed /\ 403 \in Allowed /\ 500 \in Allowed /\ 500 \in Failed
        /\ 404 \in Lacked
    BY <1>19, <2>1, RouteNames
       DEF Allowed, Failed, Lacked, Untold, Blamed, SessionLists,
           UpdateMyShortenHandler, Link
  <2>4. UpdateShorten \in Seq(Fit) /\ Tailed(UpdateShorten, Work)
    BY <1>19, <2>2, <2>3, LinkFits, WorkOf
  <2>5. 401 \in OfGate
    BY <1>19, RouteNames DEF OfGate, Open
  <2>6. Mine(FALSE) \in Seq(GateFit) /\ Mine(FALSE) \in Seq(Quiet)
    BY <2>2, <2>5, GateFits, QuietGates
  <2>. QED  BY <2>2, <2>4, <2>6, Assembled
<1>20. CASE h = "DeleteMyShorten"
  <2>1. Handler = DeleteMyShortenHandler
    BY <1>20, UserRouted DEF Handler
  <2>2. /\ Handler.errors = "link" /\ Handler.steps = Mine(FALSE) \o DeleteShorten
        /\ Handler.gate = Len(Mine(FALSE))
    BY <2>1 DEF DeleteMyShortenHandler, Link
  <2>3. /\ 400 \in Allowed /\ 403 \in Allowed /\ 500 \in Allowed /\ 500 \in Failed
        /\ 404 \in Lacked
    BY <1>20, <2>1, RouteNames
       DEF Allowed, Failed, Lacked, Untold, Blamed, SessionLists,
           DeleteMyShortenHandler, Link
  <2>4. DeleteShorten \in Seq(Fit) /\ Tailed(DeleteShorten, Work)
    BY <1>20, <2>2, <2>3, LinkFits, WorkOf
  <2>5. 401 \in OfGate
    BY <1>20, RouteNames DEF OfGate, Open
  <2>6. Mine(FALSE) \in Seq(GateFit) /\ Mine(FALSE) \in Seq(Quiet)
    BY <2>2, <2>5, GateFits, QuietGates
  <2>. QED  BY <2>2, <2>4, <2>6, Assembled
<1>21. CASE h = "SetMyShortenStatus"
  <2>1. Handler = SetMyShortenStatusHandler(TRUE)
    BY <1>21, UserRouted DEF Handler
  <2>2. /\ Handler.errors = "link"
        /\ Handler.steps = Mine(FALSE) \o SetURLStatus(TRUE)
        /\ Handler.gate = Len(Mine(FALSE))
    BY <2>1 DEF SetMyShortenStatusHandler, Link
  <2>3. /\ 400 \in Allowed /\ 403 \in Allowed /\ 500 \in Allowed /\ 500 \in Failed
        /\ 404 \in Lacked
    BY <1>21, <2>1, RouteNames
       DEF Allowed, Failed, Lacked, Untold, Blamed, SessionLists,
           SetMyShortenStatusHandler, Link
  <2>4. SetURLStatus(TRUE) \in Seq(Fit) /\ Tailed(SetURLStatus(TRUE), Work)
    BY <1>21, <2>2, <2>3, LinkFits, WorkOf
  <2>5. 401 \in OfGate
    BY <1>21, RouteNames DEF OfGate, Open
  <2>6. Mine(FALSE) \in Seq(GateFit) /\ Mine(FALSE) \in Seq(Quiet)
    BY <2>2, <2>5, GateFits, QuietGates
  <2>. QED  BY <2>2, <2>4, <2>6, Assembled
<1>22. CASE h = "UnsetMyShortenStatus"
  <2>1. Handler = SetMyShortenStatusHandler(FALSE)
    BY <1>22, UserRouted DEF Handler
  <2>2. /\ Handler.errors = "link"
        /\ Handler.steps = Mine(FALSE) \o SetURLStatus(FALSE)
        /\ Handler.gate = Len(Mine(FALSE))
    BY <2>1 DEF SetMyShortenStatusHandler, Link
  <2>3. /\ 400 \in Allowed /\ 403 \in Allowed /\ 500 \in Allowed /\ 500 \in Failed
        /\ 404 \in Lacked
    BY <1>22, <2>1, RouteNames
       DEF Allowed, Failed, Lacked, Untold, Blamed, SessionLists,
           SetMyShortenStatusHandler, Link
  <2>4. SetURLStatus(FALSE) \in Seq(Fit) /\ Tailed(SetURLStatus(FALSE), Work)
    BY <1>22, <2>2, <2>3, LinkFits, WorkOf DEF Unlinking
  <2>5. 401 \in OfGate
    BY <1>22, RouteNames DEF OfGate, Open
  <2>6. Mine(FALSE) \in Seq(GateFit) /\ Mine(FALSE) \in Seq(Quiet)
    BY <2>2, <2>5, GateFits, QuietGates
  <2>. QED  BY <2>2, <2>4, <2>6, Assembled
<1>23. CASE h = "GetUsers"
  <2>1. Handler = GetUsersHandler
    BY <1>23, AdminRouted DEF Handler
  <2>2. /\ Handler.errors = "user"
        /\ Handler.steps = Admin(TRUE) \o (<<Page>> \o GetUsers)
        /\ Handler.gate = Len(Admin(TRUE))
    BY <2>1 DEF GetUsersHandler, User
  <2>3. 400 \in Allowed /\ 404 \in Allowed /\ 500 \in Allowed /\ 500 \in Failed
    BY <1>23, <2>1, RouteNames
       DEF Allowed, Failed, Lacked, Untold, Blamed, SessionLists, GetUsersHandler, User
  <2>4. GetUsers \in Seq(Fit) /\ Tailed(GetUsers, Work)
    BY <1>23, <2>2, <2>3, UserFits, NoWork, UserTails
  <2>5. 401 \in OfGate /\ 403 \in OfGate
    BY <1>23, RouteNames DEF OfGate, Open
  <2>6. Admin(TRUE) \in Seq(GateFit) /\ Admin(TRUE) \in Seq(Quiet)
    BY <2>2, <2>5, GateFits, QuietGates
  <2>7. <<Page>> \in Seq(Fit) /\ <<Page>> \in Seq(Quiet)
    BY <2>2, <2>3, InputFits
  <2>8. <<Page>> \o GetUsers \in Seq(Fit) /\ Tailed(<<Page>> \o GetUsers, Work)
    BY <2>4, <2>7, Joined, TailedBehind
  <2>. QED  BY <2>2, <2>8, <2>6, Assembled
<1>24. CASE h = "GetUserByID"
  <2>1. Handler = GetUserByIDHandler
    BY <1>24, AdminRouted DEF Handler
  <2>2. /\ Handler.errors = "user"
        /\ Handler.steps = Admin(TRUE) \o (<<Id>> \o GetUserByID({"22021"}))
        /\ Handler.gate = Len(Admin(TRUE))
    BY <2>1 DEF GetUserByIDHandler, User
  <2>3. 400 \in Allowed /\ 500 \in Allowed /\ 500 \in Failed /\ 404 \in Lacked
    BY <1>24, <2>1, RouteNames
       DEF Allowed, Failed, Lacked, Untold, Blamed, SessionLists, GetUserByIDHandler,
           User
  <2>4. /\ GetUserByID({"22021"}) \in Seq(Fit)
        /\ Tailed(GetUserByID({"22021"}), Work)
    BY <1>24, <2>2, <2>3, UserFits, NoWork, UserTails DEF Unfit
  <2>5. 401 \in OfGate /\ 403 \in OfGate
    BY <1>24, RouteNames DEF OfGate, Open
  <2>6. Admin(TRUE) \in Seq(GateFit) /\ Admin(TRUE) \in Seq(Quiet)
    BY <2>2, <2>5, GateFits, QuietGates
  <2>7. <<Id>> \in Seq(Fit) /\ <<Id>> \in Seq(Quiet)
    BY <2>2, <2>3, InputFits
  <2>8. /\ <<Id>> \o GetUserByID({"22021"}) \in Seq(Fit)
        /\ Tailed(<<Id>> \o GetUserByID({"22021"}), Work)
    BY <2>4, <2>7, Joined, TailedBehind
  <2>. QED  BY <2>2, <2>8, <2>6, Assembled
<1>25. CASE h = "DeleteUserProfile"
  <2>1. Handler = DeleteUserProfileHandler
    BY <1>25, AdminRouted DEF Handler
  <2>2. /\ Handler.errors = "user"
        /\ Handler.steps = Admin(FALSE) \o (<<Id>> \o DeleteUser({"22021"}))
        /\ Handler.gate = Len(Admin(FALSE))
    BY <2>1 DEF DeleteUserProfileHandler, User
  <2>3. /\ 400 \in Allowed /\ 403 \in Allowed /\ 500 \in Allowed /\ 500 \in Failed
        /\ 404 \in Lacked
    BY <1>25, <2>1, RouteNames
       DEF Allowed, Failed, Lacked, Untold, Blamed, SessionLists,
           DeleteUserProfileHandler, User
  <2>4. DeleteUser({"22021"}) \in Seq(Fit) /\ Tailed(DeleteUser({"22021"}), Work)
    BY <1>25, <2>2, <2>3, UserFits, WorkOf DEF Unfit, Deleting
  <2>5. 401 \in OfGate /\ 403 \in OfGate
    BY <1>25, RouteNames DEF OfGate, Open
  <2>6. Admin(FALSE) \in Seq(GateFit) /\ Admin(FALSE) \in Seq(Quiet)
    BY <2>2, <2>5, GateFits, QuietGates
  <2>7. <<Id>> \in Seq(Fit) /\ <<Id>> \in Seq(Quiet)
    BY <2>2, <2>3, InputFits
  <2>8. /\ <<Id>> \o DeleteUser({"22021"}) \in Seq(Fit)
        /\ Tailed(<<Id>> \o DeleteUser({"22021"}), Work)
    BY <2>4, <2>7, Joined, TailedBehind
  <2>. QED  BY <2>2, <2>8, <2>6, Assembled
<1>26. CASE h = "GetActiveSessionsUser"
  <2>1. Handler = GetActiveSessionsUserHandler
    BY <1>26, AdminRouted DEF Handler
  <2>2. /\ Handler.errors = "user"
        /\ Handler.steps = Admin(TRUE) \o GetActiveSessions
        /\ Handler.gate = Len(Admin(TRUE))
    BY <2>1 DEF GetActiveSessionsUserHandler, User
  <2>3. /\ 400 \in Allowed /\ 500 \in Allowed /\ 404 \in Failed /\ 500 \in Failed
        /\ 404 \in Lacked
    BY <1>26, <2>1, RouteNames
       DEF Allowed, Failed, Lacked, Untold, Blamed, SessionLists,
           GetActiveSessionsUserHandler, User
  <2>4. GetActiveSessions \in Seq(Fit) /\ Tailed(GetActiveSessions, Work)
    BY <1>26, <2>2, <2>3, UserFits, NoWork, UserTails
  <2>5. 401 \in OfGate /\ 403 \in OfGate
    BY <1>26, RouteNames DEF OfGate, Open
  <2>6. Admin(TRUE) \in Seq(GateFit) /\ Admin(TRUE) \in Seq(Quiet)
    BY <2>2, <2>5, GateFits, QuietGates
  <2>. QED  BY <2>2, <2>4, <2>6, Assembled
<1>27. CASE h = "RevokeSessionUser"
  <2>1. Handler = RevokeSessionUserHandler
    BY <1>27, AdminRouted DEF Handler
  <2>2. /\ Handler.errors = "user" /\ Handler.steps = Admin(FALSE) \o RevokeSession
        /\ Handler.gate = Len(Admin(FALSE))
    BY <2>1 DEF RevokeSessionUserHandler, User
  <2>3. 400 \in Allowed /\ 500 \in Allowed /\ 500 \in Failed
    BY <1>27, <2>1, RouteNames
       DEF Allowed, Failed, Lacked, Untold, Blamed, SessionLists,
           RevokeSessionUserHandler, User
  <2>4. RevokeSession \in Seq(Fit) /\ Tailed(RevokeSession, Work)
    BY <1>27, <2>2, <2>3, UserFits, WorkOf
  <2>5. 401 \in OfGate /\ 403 \in OfGate
    BY <1>27, RouteNames DEF OfGate, Open
  <2>6. Admin(FALSE) \in Seq(GateFit) /\ Admin(FALSE) \in Seq(Quiet)
    BY <2>2, <2>5, GateFits, QuietGates
  <2>. QED  BY <2>2, <2>4, <2>6, Assembled
<1>28. CASE h = "RevokeAllSessionsUser"
  <2>1. Handler = RevokeAllSessionsUserHandler
    BY <1>28, AdminRouted DEF Handler
  <2>2. /\ Handler.errors = "user"
        /\ Handler.steps = Admin(FALSE) \o (<<Id>> \o RevokeAllSessions)
        /\ Handler.gate = Len(Admin(FALSE))
    BY <2>1 DEF RevokeAllSessionsUserHandler, User
  <2>3. 400 \in Allowed /\ 500 \in Allowed /\ 500 \in Failed
    BY <1>28, <2>1, RouteNames
       DEF Allowed, Failed, Lacked, Untold, Blamed, SessionLists,
           RevokeAllSessionsUserHandler, User
  <2>4. RevokeAllSessions \in Seq(Fit) /\ Tailed(RevokeAllSessions, Work)
    BY <1>28, <2>2, <2>3, UserFits, WorkOf
  <2>5. 401 \in OfGate /\ 403 \in OfGate
    BY <1>28, RouteNames DEF OfGate, Open
  <2>6. Admin(FALSE) \in Seq(GateFit) /\ Admin(FALSE) \in Seq(Quiet)
    BY <2>2, <2>5, GateFits, QuietGates
  <2>7. <<Id>> \in Seq(Fit) /\ <<Id>> \in Seq(Quiet)
    BY <2>2, <2>3, InputFits
  <2>8. /\ <<Id>> \o RevokeAllSessions \in Seq(Fit)
        /\ Tailed(<<Id>> \o RevokeAllSessions, Work)
    BY <2>4, <2>7, Joined, TailedBehind
  <2>. QED  BY <2>2, <2>8, <2>6, Assembled
<1>29. CASE h = "GetUserShortens"
  <2>1. Handler = GetUserShortensHandler
    BY <1>29, AdminRouted DEF Handler
  <2>2. /\ Handler.errors = "link"
        /\ Handler.steps = Admin(TRUE) \o (<<Page>> \o GetShortens)
        /\ Handler.gate = Len(Admin(TRUE))
    BY <2>1 DEF GetUserShortensHandler, Link
  <2>3. 400 \in Allowed /\ 404 \in Allowed /\ 500 \in Allowed /\ 500 \in Failed
    BY <1>29, <2>1, RouteNames
       DEF Allowed, Failed, Lacked, Untold, Blamed, SessionLists,
           GetUserShortensHandler, Link
  <2>4. GetShortens \in Seq(Fit) /\ Tailed(GetShortens, Work)
    BY <1>29, <2>2, <2>3, LinkFits, NoWork, LinkTails
  <2>5. 401 \in OfGate /\ 403 \in OfGate
    BY <1>29, RouteNames DEF OfGate, Open
  <2>6. Admin(TRUE) \in Seq(GateFit) /\ Admin(TRUE) \in Seq(Quiet)
    BY <2>2, <2>5, GateFits, QuietGates
  <2>7. <<Page>> \in Seq(Fit) /\ <<Page>> \in Seq(Quiet)
    BY <2>2, <2>3, InputFits
  <2>8. /\ <<Page>> \o GetShortens \in Seq(Fit)
        /\ Tailed(<<Page>> \o GetShortens, Work)
    BY <2>4, <2>7, Joined, TailedBehind
  <2>. QED  BY <2>2, <2>8, <2>6, Assembled
<1>30. CASE h = "GetUserShortenByID"
  <2>1. Handler = GetUserShortenByIDHandler
    BY <1>30, AdminRouted DEF Handler
  <2>2. /\ Handler.errors = "link" /\ Handler.steps = Admin(TRUE) \o GetShortenByID
        /\ Handler.gate = Len(Admin(TRUE))
    BY <2>1 DEF GetUserShortenByIDHandler, Link
  <2>3. /\ 400 \in Allowed /\ 403 \in Allowed /\ 500 \in Allowed /\ 500 \in Failed
        /\ 404 \in Lacked
    BY <1>30, <2>1, RouteNames
       DEF Allowed, Failed, Lacked, Untold, Blamed, SessionLists,
           GetUserShortenByIDHandler, Link
  <2>4. GetShortenByID \in Seq(Fit) /\ Tailed(GetShortenByID, Work)
    BY <1>30, <2>2, <2>3, LinkFits, NoWork, LinkTails
  <2>5. 401 \in OfGate /\ 403 \in OfGate
    BY <1>30, RouteNames DEF OfGate, Open
  <2>6. Admin(TRUE) \in Seq(GateFit) /\ Admin(TRUE) \in Seq(Quiet)
    BY <2>2, <2>5, GateFits, QuietGates
  <2>. QED  BY <2>2, <2>4, <2>6, Assembled
<1>31. CASE h = "GetShortensByUserID"
  <2>1. Handler = GetShortensByUserIDHandler
    BY <1>31, AdminRouted DEF Handler
  <2>2. /\ Handler.errors = "link"
        /\ Handler.steps =
             Admin(TRUE) \o (<<Page, Id>> \o GetShortenByOwner({"22021", "22P02"}))
        /\ Handler.gate = Len(Admin(TRUE))
    BY <2>1 DEF GetShortensByUserIDHandler, Link
  <2>3. 400 \in Allowed /\ 404 \in Allowed /\ 500 \in Allowed /\ 500 \in Failed
    BY <1>31, <2>1, RouteNames
       DEF Allowed, Failed, Lacked, Untold, Blamed, SessionLists,
           GetShortensByUserIDHandler, Link
  <2>4. /\ GetShortenByOwner({"22021", "22P02"}) \in Seq(Fit)
        /\ Tailed(GetShortenByOwner({"22021", "22P02"}), Work)
    BY <1>31, <2>2, <2>3, LinkFits, NoWork, LinkTails DEF Unfit
  <2>5. 401 \in OfGate /\ 403 \in OfGate
    BY <1>31, RouteNames DEF OfGate, Open
  <2>6. Admin(TRUE) \in Seq(GateFit) /\ Admin(TRUE) \in Seq(Quiet)
    BY <2>2, <2>5, GateFits, QuietGates
  <2>7. <<Page, Id>> \in Seq(Fit) /\ <<Page, Id>> \in Seq(Quiet)
    BY <2>2, <2>3, InputFits
  <2>8. /\ <<Page, Id>> \o GetShortenByOwner({"22021", "22P02"}) \in Seq(Fit)
        /\ Tailed(<<Page, Id>> \o GetShortenByOwner({"22021", "22P02"}), Work)
    BY <2>4, <2>7, Joined, TailedBehind
  <2>. QED  BY <2>2, <2>8, <2>6, Assembled
<1>32. CASE h = "UpdateUserShorten"
  <2>1. Handler = UpdateUserShortenHandler
    BY <1>32, AdminRouted DEF Handler
  <2>2. /\ Handler.errors = "link" /\ Handler.steps = Admin(FALSE) \o UpdateShorten
        /\ Handler.gate = Len(Admin(FALSE))
    BY <2>1 DEF UpdateUserShortenHandler, Link
  <2>3. /\ 400 \in Allowed /\ 403 \in Allowed /\ 500 \in Allowed /\ 500 \in Failed
        /\ 404 \in Lacked
    BY <1>32, <2>1, RouteNames
       DEF Allowed, Failed, Lacked, Untold, Blamed, SessionLists,
           UpdateUserShortenHandler, Link
  <2>4. UpdateShorten \in Seq(Fit) /\ Tailed(UpdateShorten, Work)
    BY <1>32, <2>2, <2>3, LinkFits, WorkOf
  <2>5. 401 \in OfGate /\ 403 \in OfGate
    BY <1>32, RouteNames DEF OfGate, Open
  <2>6. Admin(FALSE) \in Seq(GateFit) /\ Admin(FALSE) \in Seq(Quiet)
    BY <2>2, <2>5, GateFits, QuietGates
  <2>. QED  BY <2>2, <2>4, <2>6, Assembled
<1>33. CASE h = "SetUserShortenStatus"
  <2>1. Handler = SetUserShortenStatusHandler(TRUE)
    BY <1>33, AdminRouted DEF Handler
  <2>2. /\ Handler.errors = "link"
        /\ Handler.steps = Admin(FALSE) \o SetURLStatus(TRUE)
        /\ Handler.gate = Len(Admin(FALSE))
    BY <2>1 DEF SetUserShortenStatusHandler, Link
  <2>3. /\ 400 \in Allowed /\ 403 \in Allowed /\ 500 \in Allowed /\ 500 \in Failed
        /\ 404 \in Lacked
    BY <1>33, <2>1, RouteNames
       DEF Allowed, Failed, Lacked, Untold, Blamed, SessionLists,
           SetUserShortenStatusHandler, Link
  <2>4. SetURLStatus(TRUE) \in Seq(Fit) /\ Tailed(SetURLStatus(TRUE), Work)
    BY <1>33, <2>2, <2>3, LinkFits, WorkOf
  <2>5. 401 \in OfGate /\ 403 \in OfGate
    BY <1>33, RouteNames DEF OfGate, Open
  <2>6. Admin(FALSE) \in Seq(GateFit) /\ Admin(FALSE) \in Seq(Quiet)
    BY <2>2, <2>5, GateFits, QuietGates
  <2>. QED  BY <2>2, <2>4, <2>6, Assembled
<1>34. CASE h = "UnsetUserShortenStatus"
  <2>1. Handler = SetUserShortenStatusHandler(FALSE)
    BY <1>34, AdminRouted DEF Handler
  <2>2. /\ Handler.errors = "link"
        /\ Handler.steps = Admin(FALSE) \o SetURLStatus(FALSE)
        /\ Handler.gate = Len(Admin(FALSE))
    BY <2>1 DEF SetUserShortenStatusHandler, Link
  <2>3. /\ 400 \in Allowed /\ 403 \in Allowed /\ 500 \in Allowed /\ 500 \in Failed
        /\ 404 \in Lacked
    BY <1>34, <2>1, RouteNames
       DEF Allowed, Failed, Lacked, Untold, Blamed, SessionLists,
           SetUserShortenStatusHandler, Link
  <2>4. SetURLStatus(FALSE) \in Seq(Fit) /\ Tailed(SetURLStatus(FALSE), Work)
    BY <1>34, <2>2, <2>3, LinkFits, WorkOf DEF Unlinking
  <2>5. 401 \in OfGate /\ 403 \in OfGate
    BY <1>34, RouteNames DEF OfGate, Open
  <2>6. Admin(FALSE) \in Seq(GateFit) /\ Admin(FALSE) \in Seq(Quiet)
    BY <2>2, <2>5, GateFits, QuietGates
  <2>. QED  BY <2>2, <2>4, <2>6, Assembled
<1>35. CASE h = "DeleteUserShorten"
  <2>1. Handler = DeleteUserShortenHandler
    BY <1>35, AdminRouted DEF Handler
  <2>2. /\ Handler.errors = "link" /\ Handler.steps = Admin(FALSE) \o DeleteShorten
        /\ Handler.gate = Len(Admin(FALSE))
    BY <2>1 DEF DeleteUserShortenHandler, Link
  <2>3. /\ 400 \in Allowed /\ 403 \in Allowed /\ 500 \in Allowed /\ 500 \in Failed
        /\ 404 \in Lacked
    BY <1>35, <2>1, RouteNames
       DEF Allowed, Failed, Lacked, Untold, Blamed, SessionLists,
           DeleteUserShortenHandler, Link
  <2>4. DeleteShorten \in Seq(Fit) /\ Tailed(DeleteShorten, Work)
    BY <1>35, <2>2, <2>3, LinkFits, WorkOf
  <2>5. 401 \in OfGate /\ 403 \in OfGate
    BY <1>35, RouteNames DEF OfGate, Open
  <2>6. Admin(FALSE) \in Seq(GateFit) /\ Admin(FALSE) \in Seq(Quiet)
    BY <2>2, <2>5, GateFits, QuietGates
  <2>. QED  BY <2>2, <2>4, <2>6, Assembled
<1>. QED
  BY RouteNames, <1>1, <1>2, <1>3, <1>4, <1>5, <1>6, <1>7, <1>8, <1>9, <1>10, <1>11,
     <1>12, <1>13, <1>14, <1>15, <1>16, <1>17, <1>18, <1>19, <1>20, <1>21, <1>22, <1>23,
     <1>24, <1>25, <1>26, <1>27, <1>28, <1>29, <1>30, <1>31, <1>32, <1>33, <1>34, <1>35

(* The steps of UpdateUser up to the check that refuses everybody.         *)
LEMMA UpdateUserFits ==
  ASSUME req.handler = "UpdateUser"
  PROVE  /\ Tailed(Handler.steps, Work) /\ Len(Handler.steps) = 9 /\ Handler.gate = 5
         /\ \A i \in 1 .. 5 : Handler.steps[i] \in GateFit
         /\ Handler.steps[6] \in Fit /\ Handler.steps[7] \in Fit
         /\ Handler.steps[7] = Check("no_admin", "Forbidden")
<1>1. Handler = UpdateUserHandler
  BY AdminRouted DEF Handler
<1>2. /\ Handler.errors = "user" /\ Handler.steps = Admin(FALSE) \o UpdateUser
      /\ Handler.gate = Len(Admin(FALSE))
  BY <1>1 DEF UpdateUserHandler, User
<1>3. 400 \in Allowed /\ 403 \in Allowed
  BY <1>1, RouteNames
     DEF Allowed, Failed, Lacked, Untold, Blamed, SessionLists, UpdateUserHandler, User
<1>4. Admin(FALSE) \in Seq(GateFit) /\ Admin(FALSE) \in Seq(Quiet)
  <2>1. 401 \in OfGate /\ 403 \in OfGate
    BY RouteNames DEF OfGate, Open
  <2>. QED  BY <1>2, <2>1, GateFits, QuietGates
<1>5. Tailed(UpdateUser, Work)
  BY WorkOf DEF Updating
<1>6. Body \in Fit /\ Check("no_admin", "Forbidden") \in Fit
  BY <1>2, <1>3, Checks DEF Fit
<1>7. /\ Len(Admin(FALSE)) = 5 /\ Len(UpdateUser) = 4
      /\ UpdateUser[1] = Body /\ UpdateUser[2] = Check("no_admin", "Forbidden")
  BY DEF Admin, Authenticate, RequireRole, UpdateUser
<1>8. Admin(FALSE) \in Seq(Steps) /\ UpdateUser \in Seq(Steps)
  BY <1>4, <1>5, TailedAt, QuietSteps, SeqMonotonic
<1>9. /\ Len(Handler.steps) = 9
      /\ \A i \in 1 .. 5 : Handler.steps[i] = Admin(FALSE)[i]
      /\ Handler.steps[6] = Body /\ Handler.steps[7] = Check("no_admin", "Forbidden")
  <2>. DEFINE g == Admin(FALSE)
              u == UpdateUser
  <2>0. g \in Seq(Steps) /\ u \in Seq(Steps)
    BY <1>8
  <2>1. Len(g) = 5 /\ Len(u) = 4
    BY <1>7
  <2>2. Handler.steps = g \o u
    BY <1>2
  <2>3. u[1] = Body /\ u[2] = Check("no_admin", "Forbidden")
    BY <1>7
  <2>. HIDE DEF g, u
  <2>4. /\ Len(g \o u) = 9
        /\ \A i \in 1 .. 5 : (g \o u)[i] = g[i]
        /\ \A i \in 1 .. 4 : (g \o u)[5 + i] = u[i]
    <3>1. /\ Len(g \o u) = Len(g) + Len(u)
          /\ \A i \in 1 .. Len(g) : (g \o u)[i] = g[i]
          /\ \A i \in 1 .. Len(u) : (g \o u)[Len(g) + i] = u[i]
      BY <2>0, Joined
    <3>. QED  BY <2>1, <3>1
  <2>5. (g \o u)[5 + 1] = u[1] /\ (g \o u)[5 + 2] = u[2]
    BY <2>4
  <2>6. (g \o u)[6] = u[1] /\ (g \o u)[7] = u[2]
    BY <2>5, 5 + 1 = 6, 5 + 2 = 7
  <2>. QED  BY <2>2, <2>3, <2>4, <2>6 DEF g
<1>10. \A i \in 1 .. 5 : Admin(FALSE)[i] \in GateFit
  BY <1>4, <1>7, ElementOfSeq
<1>. QED  BY <1>2, <1>4, <1>5, <1>6, <1>7, <1>9, <1>10, TailedBehind

(* How the handlers of the routes answer.                                  *)
LEMMA RouteFacts ==
  ASSUME req.handler \in DOMAIN Routes
  PROVE  /\ Handler.errors \in {"user", "link"}
         /\ Handler.ok \in {200, 201, 302} /\ Handler.ok \in Handler.docs
         /\ Handler.jar = IF req.handler \in {"LoginUser", "RefreshToken"} THEN "set"
                          ELSE IF req.handler \in Parting THEN "clear" ELSE "keep"
<1>. DEFINE h == req.handler
<1>1. CASE h = "RegisterUser"
  BY <1>1, UserRouted DEF Handler, RegisterUserHandler, User, Parting
<1>2. CASE h = "LoginUser"
  BY <1>2, UserRouted DEF Handler, LoginUserHandler, User, Parting
<1>3. CASE h = "RefreshToken"
  BY <1>3, UserRouted DEF Handler, RefreshTokenHandler, User, Parting
<1>4. CASE h = "Heartbeat"
  BY <1>4, UserRouted DEF Handler, HeartbeatHandler, User, Parting
<1>5. CASE h = "LogoutUser"
  BY <1>5, UserRouted DEF Handler, LogoutUserHandler, User, Parting
<1>6. CASE h = "GetMyProfile"
  BY <1>6, UserRouted DEF Handler, GetMyProfileHandler, User, Parting
<1>7. CASE h = "UpdateMyProfile"
  BY <1>7, UserRouted DEF Handler, UpdateMyProfileHandler, User, Parting
<1>8. CASE h = "DeleteMyProfile"
  BY <1>8, UserRouted DEF Handler, DeleteMyProfileHandler, User, Parting
<1>9. CASE h = "GetActiveSessionsMyProfile"
  BY <1>9, UserRouted DEF Handler, GetActiveSessionsMyProfileHandler, User, Parting
<1>10. CASE h = "RevokeSessionMyProfile"
  BY <1>10, UserRouted DEF Handler, RevokeSessionMyProfileHandler, User, Parting
<1>11. CASE h = "RevokeAllOtherSessionsMyProfile"
  BY <1>11, UserRouted DEF Handler, RevokeAllOtherSessionsMyProfileHandler, User, Parting
<1>12. CASE h = "RevokeAllSessionsMyProfile"
  BY <1>12, UserRouted DEF Handler, RevokeAllSessionsMyProfileHandler, User, Parting
<1>13. CASE h = "Redirect"
  BY <1>13, UserRouted DEF Handler, RedirectHandler, Link, Parting
<1>14. CASE h = "RedirectCached"
  BY <1>14, UserRouted DEF Handler, RedirectHandler, Link, Parting
<1>15. CASE h = "CreateShorten"
  BY <1>15, UserRouted DEF Handler, CreateShortenHandler, Link, Parting
<1>16. CASE h = "CreateMyShorten"
  BY <1>16, UserRouted DEF Handler, CreateMyShortenHandler, Link, Parting
<1>17. CASE h = "GetMyShortens"
  BY <1>17, UserRouted DEF Handler, GetMyShortensHandler, Link, Parting
<1>18. CASE h = "GetMyShortenByID"
  BY <1>18, UserRouted DEF Handler, GetMyShortenByIDHandler, Link, Parting
<1>19. CASE h = "UpdateMyShorten"
  BY <1>19, UserRouted DEF Handler, UpdateMyShortenHandler, Link, Parting
<1>20. CASE h = "DeleteMyShorten"
  BY <1>20, UserRouted DEF Handler, DeleteMyShortenHandler, Link, Parting
<1>21. CASE h = "SetMyShortenStatus"
  BY <1>21, UserRouted DEF Handler, SetMyShortenStatusHandler, Link, Parting
<1>22. CASE h = "UnsetMyShortenStatus"
  BY <1>22, UserRouted DEF Handler, SetMyShortenStatusHandler, Link, Parting
<1>23. CASE h = "GetUsers"
  BY <1>23, AdminRouted DEF Handler, GetUsersHandler, User, Parting
<1>24. CASE h = "GetUserByID"
  BY <1>24, AdminRouted DEF Handler, GetUserByIDHandler, User, Parting
<1>25. CASE h = "DeleteUserProfile"
  BY <1>25, AdminRouted DEF Handler, DeleteUserProfileHandler, User, Parting
<1>26. CASE h = "GetActiveSessionsUser"
  BY <1>26, AdminRouted DEF Handler, GetActiveSessionsUserHandler, User, Parting
<1>27. CASE h = "RevokeSessionUser"
  BY <1>27, AdminRouted DEF Handler, RevokeSessionUserHandler, User, Parting
<1>28. CASE h = "RevokeAllSessionsUser"
  BY <1>28, AdminRouted DEF Handler, RevokeAllSessionsUserHandler, User, Parting
<1>29. CASE h = "GetUserShortens"
  BY <1>29, AdminRouted DEF Handler, GetUserShortensHandler, Link, Parting
<1>30. CASE h = "GetUserShortenByID"
  BY <1>30, AdminRouted DEF Handler, GetUserShortenByIDHandler, Link, Parting
<1>31. CASE h = "GetShortensByUserID"
  BY <1>31, AdminRouted DEF Handler, GetShortensByUserIDHandler, Link, Parting
<1>32. CASE h = "UpdateUserShorten"
  BY <1>32, AdminRouted DEF Handler, UpdateUserShortenHandler, Link, Parting
<1>33. CASE h = "SetUserShortenStatus"
  BY <1>33, AdminRouted DEF Handler, SetUserShortenStatusHandler, Link, Parting
<1>34. CASE h = "UnsetUserShortenStatus"
  BY <1>34, AdminRouted DEF Handler, SetUserShortenStatusHandler, Link, Parting
<1>35. CASE h = "DeleteUserShorten"
  BY <1>35, AdminRouted DEF Handler, DeleteUserShortenHandler, Link, Parting
<1>36. CASE h = "UpdateUser"
  BY <1>36, AdminRouted DEF Handler, UpdateUserHandler, User, Parting
<1>. QED
  BY RouteNames, <1>1, <1>2, <1>3, <1>4, <1>5, <1>6, <1>7, <1>8, <1>9, <1>10, <1>11,
     <1>12, <1>13, <1>14, <1>15, <1>16, <1>17, <1>18, <1>19, <1>20, <1>21, <1>22, <1>23,
     <1>24, <1>25, <1>26, <1>27, <1>28, <1>29, <1>30, <1>31, <1>32, <1>33, <1>34, <1>35,
     <1>36

-----------------------------------------------------------------------------
(* What a change is about, and the requests that write it first.           *)
Object == IF req.handler \in Updating THEN "account" ELSE "link"
Overwriting == Updating \cup Relinking \cup Unlinking

LEMMA CutFirst ==
  ASSUME NEW a, NEW b, NEW c
  PROVE  <<a, b, c>> = <<a>> \o <<b, c>>
<1>. DEFINE s == <<a, b, c>>
            t == <<a>> \o <<b, c>>
<1>1. s \in Seq({a, b, c}) /\ t \in Seq({a, b, c}) /\ Len(s) = 3 /\ Len(t) = 3
  OBVIOUS
<1>2. \A i \in 1 .. 3 : s[i] = t[i]
  OBVIOUS
<1>. HIDE DEF s, t
<1>3. s = t
  BY <1>1, <1>2, SeqEqual
<1>. QED  BY <1>3 DEF s, t

(* The calls of a refresh that undo the new token.                         *)
LEMMA UndoForms ==
  /\ LET st == Undoing({"new_refresh"}, Read("session", IfMissing("SessionNotFound")))
     IN /\ st.kind = "call" /\ st.thing = "session" /\ st.needs = {"session"} /\ st.gives = {}
        /\ st.takes = {} /\ st.raw = {} /\ st.as = IfMissing("SessionNotFound")
        /\ st.undo = {"new_refresh"}
  /\ LET st == Undoing({"new_refresh"}, Put("session"))
     IN /\ st.kind = "call" /\ st.thing = "session" /\ st.needs = {} /\ st.gives = {"session"}
        /\ st.takes = {} /\ st.raw = {} /\ st.as = Same /\ st.undo = {"new_refresh"}
  /\ LET st == NewSession
     IN /\ st.kind = "call" /\ st.thing = "session" /\ st.needs = {}
        /\ st.gives = {"new_session", "new_member"} /\ st.takes = {} /\ st.raw = {}
        /\ st.as = Same /\ st.undo = {"new_session"}
  /\ LET st == NewRefresh
     IN /\ st.kind = "call" /\ st.thing = "new_refresh" /\ st.needs = {}
        /\ st.gives = {"new_refresh"} /\ st.takes = {} /\ st.raw = {} /\ st.as = Same
        /\ st.undo = {"new_session", "new_member", "new_refresh"}
  BY DEF Undoing, Read, Put, Call, NewSession, NewRefresh

(* The calls whose callers make of a failure nothing, or an internal       *)
(* error.                                                                  *)
Mild ==
  {st \in Steps : /\ st.kind = "call"
                  /\ \/ st.as \in {Same, Ignored, Always("raw")}
                     \/ st.as \in {Revoked, IfMissing("SessionNotFound")} /\ st.thing = "session"}

(* What is told of the failure of such a call.                             *)
LEMMA MildTold ==
  ASSUME NEW st \in Mild, NEW raw \in Faults(st)
  PROVE  /\ st.as = Ignored => Told(st, raw) = "ignored"
         /\ st.as # Ignored => /\ Told(st, raw) # "ignored"
                               /\ \A m : StatusIn(m, Told(st, raw)) = 500
<1>1. Ignored # Same /\ Ignored # Revoked /\ Ignored # IfMissing("SessionNotFound")
      /\ Ignored # Always("raw")
  <2>1. DOMAIN Ignored = Errors /\ DOMAIN Same = {} /\ DOMAIN Revoked = {"RedisKeyNotFound"}
        /\ DOMAIN IfMissing("SessionNotFound") = {"RedisKeyNotFound"}
    BY RewriteOf DEF Ignored, Revoked
  <2>2. "NotFound" \in Errors /\ "RedisKeyNotFound" \in Errors
    BY Missings
  <2>3. Ignored["NotFound"] = "ignored" /\ Always("raw")["NotFound"] = "raw"
    BY <2>2, RewriteOf DEF Ignored
  <2>. QED  BY <2>1, <2>2, <2>3
<1>2. CASE st.as = Ignored
  BY <1>1, <1>2, ToldAlways DEF Ignored
<1>3. CASE st.as = Same
  <2>1. Told(st, raw) \in Broken
    BY <1>3, ToldSame, ErrorOf
  <2>. QED  BY <1>1, <1>3, <2>1, BrokenIs500
<1>4. CASE st.as = Always("raw")
  <2>1. Told(st, raw) = "raw"
    BY <1>4, ToldAlways
  <2>2. \A m : StatusIn(m, "raw") = 500
    BY DEF StatusIn, Direct, UserError, LinkError
  <2>. QED  BY <1>1, <1>4, <2>1, <2>2
<1>5. CASE st.as \in {Revoked, IfMissing("SessionNotFound")} /\ st.thing = "session"
  <2>1. st.thing \notin Tables \cup {"page"}
    BY <1>5 DEF Tables
  <2>2. Told(st, raw) \in Broken
    BY <1>5, <2>1, ToldIfMissing DEF Revoked
  <2>. QED  BY <1>1, <1>5, <2>2, BrokenIs500
<1>. QED  BY <1>2, <1>3, <1>4, <1>5 DEF Mild

LEMMA CutSteps ==
  /\ \A a \in Steps, b \in Steps, c \in Steps : <<a>> \o <<b, c>> = <<a, b, c>>
  /\ \A a \in Steps, b \in Steps, c \in Steps, d \in Steps :
       <<a, b>> \o <<c, d>> = <<a, b, c, d>>
<1>1. ASSUME NEW a \in Steps, NEW b \in Steps, NEW c \in Steps
      PROVE  <<a>> \o <<b, c>> = <<a, b, c>>
  <2>1. <<a, b, c>> = <<a>> \o <<b, c>>
    BY CutFirst
  <2>. QED  BY <2>1
<1>2. ASSUME NEW a \in Steps, NEW b \in Steps, NEW c \in Steps, NEW d \in Steps
      PROVE  <<a, b>> \o <<c, d>> = <<a, b, c, d>>
  <2>1. <<a, b, c, d>> = <<a, b>> \o <<c, d>>
    BY CutFour
  <2>. QED  BY <2>1
<1>. QED  BY <1>1, <1>2

(* The work of every request as one tuple.                                 *)
LEMMA WorkIs ==
  /\ req.handler = "RegisterUser" => Work = <<Insert({}, {"23505", "22001"})>>
  /\ req.handler \in Updating => Work = <<Write("account", {"23505", "22001"}), Read("account", Same)>>
  /\ req.handler \in Deleting => Work = <<Delete("account"), Purge>>
  /\ req.handler = "LoginUser" => Work = <<NewSession, NewRefresh>>
  /\ req.handler = "RefreshToken" =>
       Work = <<Del("refresh"), Put("new_refresh"),
                Undoing({"new_refresh"}, Read("session", IfMissing("SessionNotFound"))),
                Undoing({"new_refresh"}, Put("session"))>>
  /\ req.handler = "LogoutUser" => Work = <<Revoke(Ignored), Del("refresh"), Id, Revoke(Revoked)>>
  /\ req.handler \in {"RevokeSessionMyProfile", "RevokeSessionUser"} => Work = <<Revoke(Revoked)>>
  /\ req.handler \in {"RevokeAllSessionsMyProfile", "RevokeAllSessionsUser"} => Work = <<Purge>>
  /\ req.handler = "Heartbeat" => Work = <<Put("session")>>
  /\ req.handler = "CreateShorten" =>
       Work = <<Insert({}, {"22001"}), Ask("copy", Same), Ask("queue", Always("raw"))>>
  /\ req.handler = "CreateMyShorten" =>
       Work = <<Insert({"account"}, {"22001"}), Ask("copy", Same), Ask("queue", Always("raw"))>>
  /\ req.handler \in Relinking =>
       Work = <<Write("link", Strain), Read("link", Same), Ask("copy", Same),
                Ask("queue", Always("raw"))>>
  /\ req.handler \in Unlinking =>
       Work = <<Write("link", {}), Read("link", Same), Ask("copy", Ignored),
                Ask("queue", Ignored)>>
  /\ req.handler \in {"DeleteMyShorten", "DeleteUserShorten"} => Work = <<Delete("link")>>
<1>. DEFINE h == req.handler
<1>1. /\ Insert({}, {"22001"}) \in Steps /\ Insert({"account"}, {"22001"}) \in Steps
      /\ Write("link", {}) \in Steps /\ Read("link", Same) \in Steps
      /\ Ask("copy", Same) \in Steps /\ Ask("queue", Always("raw")) \in Steps
      /\ Ask("copy", Ignored) \in Steps /\ Ask("queue", Ignored) \in Steps
  BY LoudSteps, QuietForms, QuietSteps
<1>2. h = "CreateShorten" => Work = <<Insert({}, {"22001"}), Ask("copy", Same),
                                      Ask("queue", Always("raw"))>>
  <2>1. h = "CreateShorten" =>
         Work = <<Insert({}, {"22001"})>>
           \o <<Ask("copy", Same), Ask("queue", Always("raw"))>>
    BY DEF Work, Updating, Deleting, Relinking, Unlinking, Copied
  <2>. QED  BY <1>1, <2>1, CutSteps
<1>3. h = "CreateMyShorten" => Work = <<Insert({"account"}, {"22001"}), Ask("copy", Same),
                                        Ask("queue", Always("raw"))>>
  <2>1. h = "CreateMyShorten" =>
         Work = <<Insert({"account"}, {"22001"})>>
           \o <<Ask("copy", Same), Ask("queue", Always("raw"))>>
    BY DEF Work, Updating, Deleting, Relinking, Unlinking, Copied
  <2>. QED  BY <1>1, <2>1, CutSteps
<1>4. h \in Relinking => Work = <<Write("link", Strain), Read("link", Same), Ask("copy", Same),
                                  Ask("queue", Always("raw"))>>
  <2>1. h \in Relinking =>
         Work = <<Write("link", Strain), Read("link", Same)>>
           \o <<Ask("copy", Same), Ask("queue", Always("raw"))>>
    BY DEF Work, Updating, Deleting, Relinking, Unlinking, Copied
  <2>. QED  BY <1>1, <2>1, CutSteps
<1>5. h \in Unlinking => Work = <<Write("link", {}), Read("link", Same), Ask("copy", Ignored),
                                  Ask("queue", Ignored)>>
  <2>1. h \in Unlinking =>
         Work = <<Write("link", {}), Read("link", Same)>>
           \o <<Ask("copy", Ignored), Ask("queue", Ignored)>>
    BY DEF Work, Updating, Deleting, Relinking, Unlinking, Uncopied
  <2>. QED  BY <1>1, <2>1, CutSteps
<1>. QED
  BY <1>2, <1>3, <1>4, <1>5
     DEF Work, Updating, Deleting, Relinking, Unlinking, LogoutUser, NewPair

(* The calls of the works are mild.                                        *)
LEMMA MildSteps ==
  /\ \A thing \in Things : \A raw \in SUBSET Violations : Write(thing, raw) \in Mild
  /\ \A thing \in Things : Delete(thing) \in Mild /\ Put(thing) \in Mild /\ Del(thing) \in Mild
  /\ \A needs \in SUBSET Things, raw \in SUBSET Violations : Insert(needs, raw) \in Mild
  /\ Revoke(Ignored) \in Mild /\ Revoke(Revoked) \in Mild /\ Purge \in Mild
  /\ NewSession \in Mild
  /\ NewRefresh \in Mild
  /\ Read("account", Same) \in Mild /\ Read("link", Same) \in Mild
  /\ Ask("copy", Same) \in Mild /\ Ask("queue", Always("raw")) \in Mild
  /\ Ask("copy", Ignored) \in Mild /\ Ask("queue", Ignored) \in Mild
  /\ Undoing({"new_refresh"}, Read("session", IfMissing("SessionNotFound"))) \in Mild
  /\ Undoing({"new_refresh"}, Put("session")) \in Mild
<1>1. Ignored \in Rewrites /\ Revoked \in Rewrites /\ "session" \in Things
  BY RewriteSet DEF Ignored, Revoked, Terms, Things, UserKeys, BrowserKeys
<1>2. \A thing \in Things : \A raw \in SUBSET Violations : Write(thing, raw) \in Mild
  BY CallForms DEF Mild, Write, Call
<1>3. \A thing \in Things : Delete(thing) \in Mild /\ Put(thing) \in Mild /\ Del(thing) \in Mild
  BY CallForms DEF Mild, Delete, Put, Del, Call
<1>4. \A needs \in SUBSET Things, raw \in SUBSET Violations : Insert(needs, raw) \in Mild
  BY CallForms DEF Mild, Insert, Call
<1>5. Revoke(Ignored) \in Mild /\ Revoke(Revoked) \in Mild /\ Purge \in Mild
  BY <1>1, CallForms DEF Mild, Revoke, Purge, Call
<1>6. /\ Read("account", Same) \in Mild /\ Read("link", Same) \in Mild
      /\ Ask("copy", Same) \in Mild /\ Ask("queue", Always("raw")) \in Mild
      /\ Ask("copy", Ignored) \in Mild /\ Ask("queue", Ignored) \in Mild
  <2>1. /\ Read("account", Same) \in Steps /\ Read("link", Same) \in Steps
        /\ Ask("copy", Same) \in Steps /\ Ask("queue", Always("raw")) \in Steps
        /\ Ask("copy", Ignored) \in Steps /\ Ask("queue", Ignored) \in Steps
    BY QuietForms, QuietSteps
  <2>. QED  BY <2>1 DEF Mild, Read, Ask, Call
<1>7. /\ Undoing({"new_refresh"}, Read("session", IfMissing("SessionNotFound"))) \in Mild
      /\ Undoing({"new_refresh"}, Put("session")) \in Mild
      /\ NewSession \in Mild
      /\ NewRefresh \in Mild
  BY LoudSteps, UndoForms DEF Mild
<1>. QED  BY <1>2, <1>3, <1>4, <1>5, <1>6, <1>7

(* What a work does at each of its steps.                                  *)
LEMMA WorkAt ==
  ASSUME NEW j \in 1 .. Len(Work)
  PROVE  /\ req.handler = "RegisterUser" =>
              j = 1 /\ Work[j] = Insert({}, {"23505", "22001"})
         /\ req.handler \in Updating =>
              \/ j = 1 /\ Work[j] = Write("account", {"23505", "22001"})
              \/ j = 2 /\ Work[j] = Read("account", Same)
         /\ req.handler \in Deleting =>
              \/ j = 1 /\ Work[j] = Delete("account")
              \/ j = 2 /\ Work[j] = Purge
         /\ req.handler = "LoginUser" =>
              \/ j = 1 /\ Work[j] = NewSession
              \/ j = 2 /\ Work[j] = NewRefresh
         /\ req.handler = "RefreshToken" =>
              \/ j = 1 /\ Work[j] = Del("refresh")
              \/ j = 2 /\ Work[j] = Put("new_refresh")
              \/ /\ j = 3
                 /\ Work[j] = Undoing({"new_refresh"}, Read("session", IfMissing("SessionNotFound")))
              \/ j = 4 /\ Work[j] = Undoing({"new_refresh"}, Put("session"))
         /\ req.handler = "LogoutUser" =>
              \/ j = 1 /\ Work[j] = Revoke(Ignored)
              \/ j = 2 /\ Work[j] = Del("refresh")
              \/ j = 3 /\ Work[j] = Id
              \/ j = 4 /\ Work[j] = Revoke(Revoked)
         /\ req.handler \in {"RevokeSessionMyProfile", "RevokeSessionUser"} =>
              j = 1 /\ Work[j] = Revoke(Revoked)
         /\ req.handler \in {"RevokeAllSessionsMyProfile", "RevokeAllSessionsUser"} =>
              j = 1 /\ Work[j] = Purge
         /\ req.handler = "Heartbeat" =>
              j = 1 /\ Work[j] = Put("session")
         /\ req.handler = "CreateShorten" =>
              \/ j = 1 /\ Work[j] = Insert({}, {"22001"})
              \/ j = 2 /\ Work[j] = Ask("copy", Same)
              \/ j = 3 /\ Work[j] = Ask("queue", Always("raw"))
         /\ req.handler = "CreateMyShorten" =>
              \/ j = 1 /\ Work[j] = Insert({"account"}, {"22001"})
              \/ j = 2 /\ Work[j] = Ask("copy", Same)
              \/ j = 3 /\ Work[j] = Ask("queue", Always("raw"))
         /\ req.handler \in Relinking =>
              \/ j = 1 /\ Work[j] = Write("link", Strain)
              \/ j = 2 /\ Work[j] = Read("link", Same)
              \/ j = 3 /\ Work[j] = Ask("copy", Same)
              \/ j = 4 /\ Work[j] = Ask("queue", Always("raw"))
         /\ req.handler \in Unlinking =>
              \/ j = 1 /\ Work[j] = Write("link", {})
              \/ j = 2 /\ Work[j] = Read("link", Same)
              \/ j = 3 /\ Work[j] = Ask("copy", Ignored)
              \/ j = 4 /\ Work[j] = Ask("queue", Ignored)
         /\ req.handler \in {"DeleteMyShorten", "DeleteUserShorten"} =>
              j = 1 /\ Work[j] = Delete("link")
<1>. DEFINE h == req.handler
<1>1. ASSUME h = "RegisterUser"
      PROVE  j = 1 /\ Work[j] = Insert({}, {"23505", "22001"})
  <2>1. Work = <<Insert({}, {"23505", "22001"})>>
    BY <1>1, WorkIs
  <2>. QED  BY <2>1
<1>2. ASSUME h \in Updating
      PROVE  \/ j = 1 /\ Work[j] = Write("account", {"23505", "22001"})
             \/ j = 2 /\ Work[j] = Read("account", Same)
  <2>1. Work = <<Write("account", {"23505", "22001"}), Read("account", Same)>>
    BY <1>2, WorkIs
  <2>. QED  BY <2>1
<1>3. ASSUME h \in Deleting
      PROVE  \/ j = 1 /\ Work[j] = Delete("account")
             \/ j = 2 /\ Work[j] = Purge
  <2>1. Work = <<Delete("account"), Purge>>
    BY <1>3, WorkIs
  <2>. QED  BY <2>1
<1>4. ASSUME h = "LoginUser"
      PROVE  \/ j = 1 /\ Work[j] = NewSession
             \/ j = 2 /\ Work[j] = NewRefresh
  <2>1. Work = <<NewSession, NewRefresh>>
    BY <1>4, WorkIs
  <2>. QED  BY <2>1
<1>5. ASSUME h = "RefreshToken"
      PROVE  \/ j = 1 /\ Work[j] = Del("refresh")
             \/ j = 2 /\ Work[j] = Put("new_refresh")
             \/ /\ j = 3
                /\ Work[j] = Undoing({"new_refresh"}, Read("session", IfMissing("SessionNotFound")))
             \/ j = 4 /\ Work[j] = Undoing({"new_refresh"}, Put("session"))
  <2>1. Work = <<Del("refresh"), Put("new_refresh"),
                  Undoing({"new_refresh"}, Read("session", IfMissing("SessionNotFound"))),
                  Undoing({"new_refresh"}, Put("session"))>>
    BY <1>5, WorkIs
  <2>. QED  BY <2>1
<1>6. ASSUME h = "LogoutUser"
      PROVE  \/ j = 1 /\ Work[j] = Revoke(Ignored)
             \/ j = 2 /\ Work[j] = Del("refresh")
             \/ j = 3 /\ Work[j] = Id
             \/ j = 4 /\ Work[j] = Revoke(Revoked)
  <2>1. Work = <<Revoke(Ignored), Del("refresh"), Id, Revoke(Revoked)>>
    BY <1>6, WorkIs
  <2>. QED  BY <2>1
<1>7. ASSUME h \in {"RevokeSessionMyProfile", "RevokeSessionUser"}
      PROVE  j = 1 /\ Work[j] = Revoke(Revoked)
  <2>1. Work = <<Revoke(Revoked)>>
    BY <1>7, WorkIs
  <2>. QED  BY <2>1
<1>8. ASSUME h \in {"RevokeAllSessionsMyProfile", "RevokeAllSessionsUser"}
      PROVE  j = 1 /\ Work[j] = Purge
  <2>1. Work = <<Purge>>
    BY <1>8, WorkIs
  <2>. QED  BY <2>1
<1>9. ASSUME h = "Heartbeat"
      PROVE  j = 1 /\ Work[j] = Put("session")
  <2>1. Work = <<Put("session")>>
    BY <1>9, WorkIs
  <2>. QED  BY <2>1
<1>10. ASSUME h = "CreateShorten"
      PROVE  \/ j = 1 /\ Work[j] = Insert({}, {"22001"})
             \/ j = 2 /\ Work[j] = Ask("copy", Same)
             \/ j = 3 /\ Work[j] = Ask("queue", Always("raw"))
  <2>1. Work = <<Insert({}, {"22001"}), Ask("copy", Same), Ask("queue", Always("raw"))>>
    BY <1>10, WorkIs
  <2>. QED  BY <2>1
<1>11. ASSUME h = "CreateMyShorten"
      PROVE  \/ j = 1 /\ Work[j] = Insert({"account"}, {"22001"})
             \/ j = 2 /\ Work[j] = Ask("copy", Same)
             \/ j = 3 /\ Work[j] = Ask("queue", Always("raw"))
  <2>1. Work = <<Insert({"account"}, {"22001"}), Ask("copy", Same), Ask("queue", Always("raw"))>>
    BY <1>11, WorkIs
  <2>. QED  BY <2>1
<1>12. ASSUME h \in Relinking
      PROVE  \/ j = 1 /\ Work[j] = Write("link", Strain)
             \/ j = 2 /\ Work[j] = Read("link", Same)
             \/ j = 3 /\ Work[j] = Ask("copy", Same)
             \/ j = 4 /\ Work[j] = Ask("queue", Always("raw"))
  <2>1. Work = <<Write("link", Strain), Read("link", Same), Ask("copy", Same),
                  Ask("queue", Always("raw"))>>
    BY <1>12, WorkIs
  <2>. QED  BY <2>1
<1>13. ASSUME h \in Unlinking
      PROVE  \/ j = 1 /\ Work[j] = Write("link", {})
             \/ j = 2 /\ Work[j] = Read("link", Same)
             \/ j = 3 /\ Work[j] = Ask("copy", Ignored)
             \/ j = 4 /\ Work[j] = Ask("queue", Ignored)
  <2>1. Work = <<Write("link", {}), Read("link", Same), Ask("copy", Ignored),
                  Ask("queue", Ignored)>>
    BY <1>13, WorkIs
  <2>. QED  BY <2>1
<1>14. ASSUME h \in {"DeleteMyShorten", "DeleteUserShorten"}
      PROVE  j = 1 /\ Work[j] = Delete("link")
  <2>1. Work = <<Delete("link")>>
    BY <1>14, WorkIs
  <2>. QED  BY <2>1
<1>. QED
  BY <1>1, <1>2, <1>3, <1>4, <1>5, <1>6, <1>7,
     <1>8, <1>9, <1>10, <1>11, <1>12, <1>13, <1>14

(* The requests by their work.                                             *)
LEMMA WorkCases ==
  req.handler \in DOMAIN Routes =>
    \/ req.handler = "RegisterUser" \/ req.handler \in Updating \/ req.handler \in Deleting
    \/ req.handler = "LoginUser" \/ req.handler = "RefreshToken" \/ req.handler = "LogoutUser"
    \/ req.handler \in {"RevokeSessionMyProfile", "RevokeSessionUser"}
    \/ req.handler \in {"RevokeAllSessionsMyProfile", "RevokeAllSessionsUser"}
    \/ req.handler = "Heartbeat" \/ req.handler = "CreateShorten"
    \/ req.handler = "CreateMyShorten" \/ req.handler \in Relinking
    \/ req.handler \in Unlinking \/ req.handler \in {"DeleteMyShorten", "DeleteUserShorten"}
    \/ Work = <<>>
  BY RouteNames, NoWork DEF Updating, Deleting, Relinking, Unlinking

(* Every call of a work is mild; a logout alone checks something on the    *)
(* way.                                                                    *)
LEMMA WorkMild ==
  ASSUME req.handler \in DOMAIN Routes, NEW j \in 1 .. Len(Work)
  PROVE  Work[j] \in Mild \/ (req.handler = "LogoutUser" /\ j = 3 /\ Work[j] = Id)
<1>. DEFINE h == req.handler
<1>0. /\ "account" \in Things /\ "link" \in Things /\ "session" \in Things
      /\ "refresh" \in Things /\ "new_session" \in Things /\ "new_refresh" \in Things
      /\ {} \in SUBSET Things /\ {"account"} \in SUBSET Things
      /\ {{}, {"22001"}, {"23505", "22001"}, Strain} \subseteq SUBSET Violations
  BY DEF Things, Tables, UserKeys, BrowserKeys, NewKeys, Violations, Unfit, Strain
<1>1. CASE h = "RegisterUser"
  <2>1. j = 1 /\ Work[j] = Insert({}, {"23505", "22001"})
    BY <1>1, WorkAt
  <2>. QED  BY <1>0, <1>1, <2>1, MildSteps
<1>2. CASE h \in Updating
  <2>1. \/ j = 1 /\ Work[j] = Write("account", {"23505", "22001"})
        \/ j = 2 /\ Work[j] = Read("account", Same)
    BY <1>2, WorkAt
  <2>. QED  BY <1>0, <1>2, <2>1, MildSteps
<1>3. CASE h \in Deleting
  <2>1. \/ j = 1 /\ Work[j] = Delete("account")
        \/ j = 2 /\ Work[j] = Purge
    BY <1>3, WorkAt
  <2>. QED  BY <1>0, <1>3, <2>1, MildSteps
<1>4. CASE h = "LoginUser"
  <2>1. \/ j = 1 /\ Work[j] = NewSession
        \/ j = 2 /\ Work[j] = NewRefresh
    BY <1>4, WorkAt
  <2>. QED  BY <1>0, <1>4, <2>1, MildSteps
<1>5. CASE h = "RefreshToken"
  <2>1. \/ j = 1 /\ Work[j] = Del("refresh")
        \/ j = 2 /\ Work[j] = Put("new_refresh")
        \/ j = 3 /\ Work[j] = Undoing({"new_refresh"}, Read("session", IfMissing("SessionNotFound")))
        \/ j = 4 /\ Work[j] = Undoing({"new_refresh"}, Put("session"))
    BY <1>5, WorkAt
  <2>. QED  BY <1>0, <1>5, <2>1, MildSteps
<1>6. CASE h = "LogoutUser"
  <2>1. \/ j = 1 /\ Work[j] = Revoke(Ignored)
        \/ j = 2 /\ Work[j] = Del("refresh")
        \/ j = 3 /\ Work[j] = Id
        \/ j = 4 /\ Work[j] = Revoke(Revoked)
    BY <1>6, WorkAt
  <2>. QED  BY <1>0, <1>6, <2>1, MildSteps
<1>7. CASE h \in {"RevokeSessionMyProfile", "RevokeSessionUser"}
  <2>1. j = 1 /\ Work[j] = Revoke(Revoked)
    BY <1>7, WorkAt
  <2>. QED  BY <1>0, <1>7, <2>1, MildSteps
<1>8. CASE h \in {"RevokeAllSessionsMyProfile", "RevokeAllSessionsUser"}
  <2>1. j = 1 /\ Work[j] = Purge
    BY <1>8, WorkAt
  <2>. QED  BY <1>0, <1>8, <2>1, MildSteps
<1>9. CASE h = "Heartbeat"
  <2>1. j = 1 /\ Work[j] = Put("session")
    BY <1>9, WorkAt
  <2>. QED  BY <1>0, <1>9, <2>1, MildSteps
<1>10. CASE h = "CreateShorten"
  <2>1. \/ j = 1 /\ Work[j] = Insert({}, {"22001"})
        \/ j = 2 /\ Work[j] = Ask("copy", Same)
        \/ j = 3 /\ Work[j] = Ask("queue", Always("raw"))
    BY <1>10, WorkAt
  <2>. QED  BY <1>0, <1>10, <2>1, MildSteps
<1>11. CASE h = "CreateMyShorten"
  <2>1. \/ j = 1 /\ Work[j] = Insert({"account"}, {"22001"})
        \/ j = 2 /\ Work[j] = Ask("copy", Same)
        \/ j = 3 /\ Work[j] = Ask("queue", Always("raw"))
    BY <1>11, WorkAt
  <2>. QED  BY <1>0, <1>11, <2>1, MildSteps
<1>12. CASE h \in Relinking
  <2>1. \/ j = 1 /\ Work[j] = Write("link", Strain)
        \/ j = 2 /\ Work[j] = Read("link", Same)
        \/ j = 3 /\ Work[j] = Ask("copy", Same)
        \/ j = 4 /\ Work[j] = Ask("queue", Always("raw"))
    BY <1>12, WorkAt
  <2>. QED  BY <1>0, <1>12, <2>1, MildSteps
<1>13. CASE h \in Unlinking
  <2>1. \/ j = 1 /\ Work[j] = Write("link", {})
        \/ j = 2 /\ Work[j] = Read("link", Same)
        \/ j = 3 /\ Work[j] = Ask("copy", Ignored)
        \/ j = 4 /\ Work[j] = Ask("queue", Ignored)
    BY <1>13, WorkAt
  <2>. QED  BY <1>0, <1>13, <2>1, MildSteps
<1>14. CASE h \in {"DeleteMyShorten", "DeleteUserShorten"}
  <2>1. j = 1 /\ Work[j] = Delete("link")
    BY <1>14, WorkAt
  <2>. QED  BY <1>0, <1>14, <2>1, MildSteps
<1>15. CASE Work = <<>>
  BY <1>15
<1>. QED
  BY WorkCases, <1>1, <1>2, <1>3, <1>4, <1>5, <1>6, <1>7,
     <1>8, <1>9, <1>10, <1>11, <1>12, <1>13, <1>14, <1>15

(* Behind its first step, a work meets no constraint and misses nothing    *)
(* but its object, the session of a refresh, or what a revocation          *)
(* forgives.                                                               *)
LEMMA WorkLate ==
  ASSUME req.handler \in DOMAIN Routes, NEW j \in 1 .. Len(Work), j # 1, Work[j] # Id
  PROVE  /\ Work[j].raw = {}
         /\ \/ Work[j].needs = {}
            \/ /\ req.handler \in Overwriting /\ j = 2
               /\ Work[j].needs = {Object} /\ Work[j].gives = {}
            \/ /\ req.handler = "RefreshToken" /\ j = 3 /\ Work[j].thing = "session"
               /\ Work[j].as = IfMissing("SessionNotFound")
            \/ Work[j].thing = "session" /\ Work[j].as = Revoked
<1>. DEFINE h == req.handler
<1>1. CASE h = "RegisterUser"
  <2>1. j = 1 /\ Work[j] = Insert({}, {"23505", "22001"})
    BY <1>1, WorkAt
  <2>. QED  BY <2>1
<1>2. CASE h \in Updating
  <2>1. \/ j = 1 /\ Work[j] = Write("account", {"23505", "22001"})
        \/ j = 2 /\ Work[j] = Read("account", Same)
    BY <1>2, WorkAt
  <2>. QED  BY <1>2, <2>1 DEF Read, Call, Object, Overwriting
<1>3. CASE h \in Deleting
  <2>1. \/ j = 1 /\ Work[j] = Delete("account")
        \/ j = 2 /\ Work[j] = Purge
    BY <1>3, WorkAt
  <2>. QED  BY <1>3, <2>1 DEF Purge, Call
<1>4. CASE h = "LoginUser"
  <2>1. \/ j = 1 /\ Work[j] = NewSession
        \/ j = 2 /\ Work[j] = NewRefresh
    BY <1>4, WorkAt
  <2>2. j = 2 => Work[j].raw = {} /\ Work[j].needs = {}
    BY <2>1, UndoForms
  <2>. QED  BY <2>1, <2>2
<1>5. CASE h = "RefreshToken"
  <2>1. \/ j = 1 /\ Work[j] = Del("refresh")
        \/ j = 2 /\ Work[j] = Put("new_refresh")
        \/ j = 3 /\ Work[j] = Undoing({"new_refresh"}, Read("session", IfMissing("SessionNotFound")))
        \/ j = 4 /\ Work[j] = Undoing({"new_refresh"}, Put("session"))
    BY <1>5, WorkAt
  <2>2. j = 2 => Work[j].raw = {} /\ Work[j].needs = {}
    BY <2>1 DEF Put, Call
  <2>3. j = 3 => /\ Work[j].raw = {} /\ Work[j].thing = "session"
                 /\ Work[j].as = IfMissing("SessionNotFound")
    BY <2>1, UndoForms
  <2>4. j = 4 => Work[j].raw = {} /\ Work[j].needs = {}
    BY <2>1, UndoForms
  <2>5. j = 2 \/ j = 3 \/ j = 4
    BY <2>1
  <2>. QED  BY <1>5, <2>2, <2>3, <2>4, <2>5
<1>6. CASE h = "LogoutUser"
  <2>1. \/ j = 1 /\ Work[j] = Revoke(Ignored)
        \/ j = 2 /\ Work[j] = Del("refresh")
        \/ j = 3 /\ Work[j] = Id
        \/ j = 4 /\ Work[j] = Revoke(Revoked)
    BY <1>6, WorkAt
  <2>. QED  BY <1>6, <2>1 DEF Del, Revoke, Call
<1>7. CASE h \in {"RevokeSessionMyProfile", "RevokeSessionUser"}
  <2>1. j = 1 /\ Work[j] = Revoke(Revoked)
    BY <1>7, WorkAt
  <2>. QED  BY <2>1
<1>8. CASE h \in {"RevokeAllSessionsMyProfile", "RevokeAllSessionsUser"}
  <2>1. j = 1 /\ Work[j] = Purge
    BY <1>8, WorkAt
  <2>. QED  BY <2>1
<1>9. CASE h = "Heartbeat"
  <2>1. j = 1 /\ Work[j] = Put("session")
    BY <1>9, WorkAt
  <2>. QED  BY <2>1
<1>10. CASE h = "CreateShorten"
  <2>1. \/ j = 1 /\ Work[j] = Insert({}, {"22001"})
        \/ j = 2 /\ Work[j] = Ask("copy", Same)
        \/ j = 3 /\ Work[j] = Ask("queue", Always("raw"))
    BY <1>10, WorkAt
  <2>. QED  BY <1>10, <2>1 DEF Ask, Call
<1>11. CASE h = "CreateMyShorten"
  <2>1. \/ j = 1 /\ Work[j] = Insert({"account"}, {"22001"})
        \/ j = 2 /\ Work[j] = Ask("copy", Same)
        \/ j = 3 /\ Work[j] = Ask("queue", Always("raw"))
    BY <1>11, WorkAt
  <2>. QED  BY <1>11, <2>1 DEF Ask, Call
<1>12. CASE h \in Relinking
  <2>1. \/ j = 1 /\ Work[j] = Write("link", Strain)
        \/ j = 2 /\ Work[j] = Read("link", Same)
        \/ j = 3 /\ Work[j] = Ask("copy", Same)
        \/ j = 4 /\ Work[j] = Ask("queue", Always("raw"))
    BY <1>12, WorkAt
  <2>. QED  BY <1>12, <2>1 DEF Read, Ask, Call, Object, Overwriting, Updating, Relinking
<1>13. CASE h \in Unlinking
  <2>1. \/ j = 1 /\ Work[j] = Write("link", {})
        \/ j = 2 /\ Work[j] = Read("link", Same)
        \/ j = 3 /\ Work[j] = Ask("copy", Ignored)
        \/ j = 4 /\ Work[j] = Ask("queue", Ignored)
    BY <1>13, WorkAt
  <2>2. Object = "link" /\ h \in Overwriting
    BY <1>13 DEF Object, Overwriting, Updating, Unlinking
  <2>3. j = 2 => Work[j].raw = {} /\ Work[j].needs = {"link"} /\ Work[j].gives = {}
    BY <2>1 DEF Read, Call
  <2>4. j = 3 \/ j = 4 => Work[j].raw = {} /\ Work[j].needs = {}
    BY <2>1 DEF Ask, Call
  <2>5. j = 2 \/ j = 3 \/ j = 4
    BY <2>1
  <2>. QED  BY <2>2, <2>3, <2>4, <2>5
<1>14. CASE h \in {"DeleteMyShorten", "DeleteUserShorten"}
  <2>1. j = 1 /\ Work[j] = Delete("link")
    BY <1>14, WorkAt
  <2>. QED  BY <2>1
<1>15. CASE Work = <<>>
  BY <1>15
<1>. QED
  BY WorkCases, <1>1, <1>2, <1>3, <1>4, <1>5, <1>6, <1>7,
     <1>8, <1>9, <1>10, <1>11, <1>12, <1>13, <1>14, <1>15

(* A change of an account or of a link begins by writing it.               *)
LEMMA WorkFirst ==
  ASSUME req.handler \in Overwriting
  PROVE  /\ Len(Work) >= 2 /\ Work[1].kind = "call"
         /\ Work[1].gives = {Object} /\ Work[1].takes = {}
<1>1. CASE req.handler \in Updating
  <2>1. Work = <<Write("account", {"23505", "22001"}), Read("account", Same)>>
    BY <1>1, WorkIs
  <2>2. Len(Work) >= 2 /\ Work[1] = Write("account", {"23505", "22001"})
    BY <2>1
  <2>3. Object = "account"
    BY <1>1 DEF Object, Updating
  <2>. QED  BY <2>2, <2>3 DEF Write, Call
<1>2. CASE req.handler \in Relinking
  <2>1. Work = <<Write("link", Strain), Read("link", Same), Ask("copy", Same),
                 Ask("queue", Always("raw"))>>
    BY <1>2, WorkIs
  <2>2. Len(Work) >= 2 /\ Work[1] = Write("link", Strain)
    BY <2>1
  <2>3. Object = "link"
    BY <1>2 DEF Object, Updating, Relinking
  <2>. QED  BY <2>2, <2>3 DEF Write, Call
<1>3. CASE req.handler \in Unlinking
  <2>1. Work = <<Write("link", {}), Read("link", Same), Ask("copy", Ignored),
                 Ask("queue", Ignored)>>
    BY <1>3, WorkIs
  <2>2. Len(Work) >= 2 /\ Work[1] = Write("link", {})
    BY <2>1
  <2>3. Object = "link"
    BY <1>3 DEF Object, Updating, Unlinking
  <2>. QED  BY <2>2, <2>3 DEF Write, Call
<1>. QED  BY <1>1, <1>2, <1>3 DEF Overwriting
=============================================================================
