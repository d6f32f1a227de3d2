------------------------------- MODULE Gateway -------------------------------
(***************************************************************************)
(* What a client is told: every route of internal/router/router.go with    *)
(* its middleware, its handler and the service behind it, as the sequence  *)
(* of what may end the request, and the way from an error to an answer.    *)
(*                                                                         *)
(* One browser of one user, and an administrator who works on that user,   *)
(* send requests one after the other.  Everybody else, and the clock, may  *)
(* remove a row or a key between any two steps.  A call to a store may     *)
(* fail, before or after it took effect, and an answer may be lost.        *)
(***************************************************************************)
EXTENDS Integers, Sequences, FiniteSets

CONSTANT MaxFaults   \* bound: calls of one request that fail

ASSUME FaultsAssumption == MaxFaults \in Nat

VARIABLES
  world,      \* rows and keys that are there
  cookies,    \* cookies that the browser holds
  req,        \* the request that is served, or Idle
  excused     \* history: what the cookies name was ended, and not by a request
              \* that clears them and was answered with success

vars == <<world, cookies, req, excused>>

(* The account, a link, and what a request creates; the session and the    *)
(* refresh token of the browser, those it is about to get, and the session *)
(* of the administrator; the entries that the sessions of the user have in *)
(* user_sessions:<user>.                                                   *)
Tables == {"account", "link", "made"}
BrowserKeys == {"session", "refresh"}
NewKeys == {"new_session", "new_refresh"}
UserKeys == BrowserKeys \cup NewKeys
Members == {"member", "new_member"}
MemberOf == [session |-> "member", new_session |-> "new_member"]
Things == Tables \cup UserKeys \cup Members \cup {"admin_session"}
Cookies == {"refresh_token", "session_id"}

-----------------------------------------------------------------------------
(* Errors *)

PgFaults == {"network", "40P01", "40001", "53300", "57014", "42501", "57P01"}
RedisFaults == {"network", "deadline_exceeded", "context_canceled", "LOADING"}

(* What a column cannot hold: a value too long for varchar(255), a byte    *)
(* that is no text, an id that uuid.Parse takes and PostgreSQL does not.   *)
Unfit == {"22001", "22021", "22P02"}

HandlePGError(code) ==
  CASE code = "23505" -> "AlreadyExists"
    [] code = "23503" -> "ForeignKeyViolation"
    [] code = "40P01" -> "Deadlock"
    [] code = "40001" -> "SerializationFailure"
    [] code = "53300" -> "TooManyConnections"
    [] code = "57014" -> "QueryCanceled"
    [] code = "42501" -> "InsufficientPrivilege"
    [] OTHER          -> "Internal"

HandleDBError(raw) ==
  CASE raw = "record_not_found" -> "NotFound"
    [] raw = "network"          -> "ConnectionFailed"
    [] OTHER                    -> HandlePGError(raw)

IsTimeoutError(raw) == raw \in {"deadline_exceeded", "context_canceled"}

HandleRedisError(raw) ==
  CASE raw = "redis_nil"  -> "RedisKeyNotFound"
    [] raw = "network"     -> "RedisConnectionFailed"
    [] IsTimeoutError(raw) -> "RedisTimeout"
    [] OTHER               -> "RedisInternal"

HandleRedisSetNX(raw) ==
  IF raw = "not_set" THEN "RedisLockNotAcquired" ELSE HandleRedisError(raw)

Errors ==
  {"NotFound", "ForeignKeyViolation", "AlreadyExists", "RedisKeyNotFound"}
    \cup {HandleDBError(raw) : raw \in PgFaults \cup Unfit}
    \cup {HandleRedisSetNX(raw) : raw \in RedisFaults \cup {"not_set"}}

(* Mutant: a session that is not there is an internal error.               *)
UserErrorForgets(err) ==
  CASE err = "NotFound" -> 404
    [] err \in {"InvalidCredentials", "TokenRevoked", "RefreshTokenInvalid"} -> 401
    [] err = "InvalidInput" -> 400
    [] err \in {"AlreadyExists", "RefreshTokenConcurrent"} -> 409
    [] err = "Forbidden" -> 403
    [] OTHER -> 500

(* httpError of the user handlers and of the link handlers.                *)
UserError(err) ==
  CASE err \in {"NotFound", "SessionNotFound"} -> 404
    [] err \in {"InvalidCredentials", "TokenRevoked", "RefreshTokenInvalid"} -> 401
    [] err = "InvalidInput" -> 400
    [] err \in {"AlreadyExists", "RefreshTokenConcurrent"} -> 409
    [] err = "Forbidden" -> 403
    [] OTHER -> 500

LinkError(err) ==
  CASE err = "NotFound"     -> 404
    [] err = "Forbidden"    -> 403
    [] err = "InvalidInput" -> 400
    [] OTHER                -> 500

(* What middleware and handlers answer by themselves.                      *)
Direct == [BadRequest |-> 400, Unauthorized |-> 401, AccessDenied |-> 403,
           TooManyRequests |-> 429, ServiceUnavailable |-> 503]

-----------------------------------------------------------------------------
(* Steps: a check of the request; a policy of the rate limiter; a call to  *)
(* a store, which needs, gives and takes things, of the sessions perhaps   *)
(* only those that the set has listed, may be refused for its raw errors,  *)
(* and whose errors the caller may replace or ignore, or undo what it has  *)
(* given before.                                                           *)
Check(what, err) == [kind |-> "check", what |-> what, err |-> err]
Limit(open) == [kind |-> "limit", open |-> open]
Call(thing, needs, gives, takes, raw, as) ==
  [kind |-> "call", thing |-> thing, needs |-> needs, gives |-> gives,
   takes |-> takes, raw |-> raw, as |-> as, undo |-> {}, listed |-> FALSE]

Same == [err \in {} |-> err]
Always(err) == [e \in Errors |-> err]
Ignored == Always("ignored")
IfMissing(err) == [RedisKeyNotFound |-> err]

Ask(thing, as)   == Call(thing, {}, {}, {}, {}, as)
Read(thing, as)  == Call(thing, {thing}, {}, {}, {}, as)
Find(thing, raw)  == Call(thing, {thing}, {}, {}, raw, Same)
List(raw)         == Call("page", {}, {}, {}, raw, Same)
Write(thing, raw) == Call(thing, {thing}, {thing}, {}, raw, Same)
Insert(needs, raw) == Call("made", needs, {"made"}, {}, raw, Same)
Delete(thing)    == Call(thing, {thing}, {}, {thing}, {}, Same)
Put(thing)       == Call(thing, {}, {thing}, {}, {}, Same)
Del(thing)       == Call(thing, {}, {}, {thing}, {}, Same)

(* RevokeSession: the GET and the pipeline.                                *)
Revoke(as) == Call("session", {"session"}, {}, BrowserKeys \cup {"member"}, {}, as)
Revoked == IfMissing("ignored")
Undoing(things, step) == [step EXCEPT !.undo = things]
Id == Check("id", "InvalidInput")
Body == Check("body", "BadRequest")
Page == Check("page", "BadRequest")
Cookie(name) == Check(name, "Unauthorized")

-----------------------------------------------------------------------------
(* The services *)

(* RevokeAllUserTokens, whose errors its callers log: the sessions in the  *)
(* set, the set, and every refresh token of the user.                      *)
Purge ==
  [Call("session", {}, {}, UserKeys \cup Members, {}, Ignored) EXCEPT !.listed = TRUE]

RegisterUser == <<Body, Insert({}, {"23505", "22001"})>>
UpdateUser ==
  <<Body, Check("no_admin", "Forbidden"), Write("account", {"23505", "22001"}),
    Read("account", Same)>>

(* The id comes from the access token, or from the path: then it is parsed *)
(* first, and what the parser takes may still be no text.                  *)
GetUserByID(raw) == <<Find("account", raw)>>
GetUsers == <<Ask("page", Same), Ask("page", Always("raw")), Check("rows", "NotFound")>>

DeleteUser(raw) ==
  <<Find("account", raw), Check("no_admin_account", "Forbidden"), Delete("account"), Purge>>

(* CreateSession: the SETNX and the pipeline.  A failing GenerateTokenPair *)
(* revokes the session, and does not look at how that went.                *)
NewSession ==
  Undoing({"new_session"}, Call("session", {}, {"new_session", "new_member"}, {}, {}, Same))
NewRefresh ==
  Undoing({"new_session", "new_member", "new_refresh"}, Put("new_refresh"))
NewPair == <<NewSession, NewRefresh>>

(* Mutant: an unknown address is told.                                     *)
LoginUserTells ==
  <<Body, Read("account", Same), Check("password", "InvalidCredentials"),
    Read("account", Always("InvalidCredentials"))>> \o NewPair

LoginUser ==
  <<Body, Read("account", Always("InvalidCredentials")), Check("password", "InvalidCredentials"),
    Read("account", Always("InvalidCredentials"))>> \o NewPair

RefreshTokens ==
  <<Call("lock", {}, {}, {}, {"not_set"}, [RedisLockNotAcquired |-> "RefreshTokenConcurrent"]),
    Read("refresh", IfMissing("RefreshTokenInvalid")),
    Read("session", Always("TokenRevoked")),
    Del("refresh"), Put("new_refresh"),
    Undoing({"new_refresh"}, Read("session", IfMissing("SessionNotFound"))),
    Undoing({"new_refresh"}, Put("session"))>>

(* Mutant: the session in the cookie is left to the access token.          *)
LogoutUserOnce == <<Revoke(Ignored), Del("refresh"), Id>>

LogoutUser == <<Revoke(Ignored), Del("refresh"), Id, Revoke(Revoked)>>

(* What it cannot read is no session to it.                                *)
GetActiveSessions ==
  <<Id, Ask("set", Same), Read("session", Always("SessionNotFound"))>>
RevokeSession == <<Id, Revoke(Revoked)>>
RevokeAllOtherSessions == <<Ask("set", Same), Ask("set", Same)>>
RevokeAllSessions == <<Purge>>
Heartbeat == <<Id, Read("session", IfMissing("SessionNotFound")), Put("session")>>

(* The copy in the cache and the queue: what they hold is Shorten's.       *)
Copied == <<Ask("copy", Same), Ask("queue", Always("raw"))>>
Uncopied == <<Ask("copy", Ignored), Ask("queue", Ignored)>>
Owned == Check("owner", "Forbidden")
Found == Check("rows", "NotFound")

(* The id of a link comes from the path.                                   *)
Named == Find("link", {"22021"})

CreateShorten(owner) == <<Body, Insert(owner, {"22001"})>> \o Copied
UpdateShorten ==
  <<Body, Id, Named, Owned, Write("link", {"22001"}), Read("link", Same)>> \o Copied
GetShortens == <<List({}), List({}), Found>>
GetShortenByID == <<Id, Named, Owned>>
GetShortenByOwner(raw) == <<List(raw), List({}), Found>>

(* "active" is what the second SELECT finds.                               *)
(* Mutant: the owner is looked at when the status is written.              *)
SetURLStatusFirst(active) ==
  <<Check("status", "BadRequest"), Id, Named, Write("link", {}), Owned,
    Read("link", Same)>> \o (IF active THEN Copied ELSE Uncopied)

SetURLStatus(active) ==
  <<Check("status", "BadRequest"), Id, Named, Owned, Write("link", {}),
    Read("link", Same)>> \o (IF active THEN Copied ELSE Uncopied)

DeleteShorten ==
  <<Id, Named, Owned>> \o Uncopied \o <<Delete("link")>>
GetOriginalURL(cached) ==
  IF cached THEN <<Ask("copy", Same), Found>>
  ELSE <<Ask("copy", Same), Named, Found, Ask("copy", Same)>>

-----------------------------------------------------------------------------
(* The router: who may come in, and the limit of the route.                *)
Authenticate(session) ==
  <<Check("bearer", "Unauthorized"), Check("signed_not_expired", "Unauthorized"),
    Read(session, Always("Unauthorized"))>>
RequireRole == <<Check("admin", "AccessDenied")>>

Public(open) == <<Limit(open)>>
Mine(open)   == Authenticate("session") \o <<Limit(open)>>
Admin(open)  == Authenticate("admin_session") \o RequireRole \o <<Limit(open)>>

-----------------------------------------------------------------------------
(* The handlers: what answers an error, the status of success, the answers *)
(* of the annotations, the steps, of which the first are the gate's, and   *)
(* what becomes of the cookies.                                            *)
User(ok, docs, gate, steps, jar) ==
  [errors |-> "user", ok |-> ok, docs |-> docs, gate |-> Len(gate), steps |-> gate \o steps,
   jar |-> jar]
Link(ok, docs, gate, steps) ==
  [errors |-> "link", ok |-> ok, docs |-> docs, gate |-> Len(gate), steps |-> gate \o steps,
   jar |-> "keep"]

RegisterUserHandler ==
  User(201, {201, 400, 500}, Public(FALSE), RegisterUser, "keep")
UpdateMyProfileHandler ==
  User(200, {200, 400, 401, 500}, Mine(FALSE), UpdateUser, "keep")
UpdateUserHandler ==
  User(200, {200, 400, 404, 500}, Admin(FALSE), UpdateUser, "keep")
GetMyProfileHandler ==
  User(200, {200, 401, 404, 500}, Mine(TRUE), GetUserByID({}), "keep")
GetUserByIDHandler ==
  User(200, {200, 404, 500}, Admin(TRUE), <<Id>> \o GetUserByID({"22021"}), "keep")
GetUsersHandler ==
  User(200, {200, 500}, Admin(TRUE), <<Page>> \o GetUsers, "keep")
DeleteMyProfileHandler ==
  User(200, {200, 401, 500}, Mine(FALSE), DeleteUser({}), "clear")
DeleteUserProfileHandler ==
  User(200, {200, 400, 401, 404, 500}, Admin(FALSE), <<Id>> \o DeleteUser({"22021"}), "keep")
LoginUserHandler ==
  User(200, {200, 400, 401, 500}, Public(FALSE), LoginUser, "set")
RefreshTokenHandler ==
  User(200, {200, 401, 500},
       Public(FALSE), <<Cookie("refresh_token"), Cookie("session_id")>> \o RefreshTokens, "set")

(* Mutant: only the refresh token's cookie is cleared.                     *)
LogoutUserHandlerHalf ==
  User(200, {200, 401, 500},
       Mine(TRUE), <<Cookie("refresh_token"), Cookie("session_id")>> \o LogoutUser, "keep")

LogoutUserHandler ==
  User(200, {200, 401, 500},
       Mine(TRUE), <<Cookie("refresh_token"), Cookie("session_id")>> \o LogoutUser, "clear")
GetActiveSessionsMyProfileHandler ==
  User(200, {200, 401, 500},
       Mine(TRUE), <<Cookie("session_id")>> \o GetActiveSessions, "keep")
RevokeSessionMyProfileHandler ==
  User(200, {200, 400, 401, 404, 500}, Mine(FALSE), RevokeSession, "keep")
RevokeAllOtherSessionsMyProfileHandler ==
  User(200, {200, 401, 500}, Mine(FALSE), RevokeAllOtherSessions, "keep")
RevokeAllSessionsMyProfileHandler ==
  User(200, {200, 401, 500}, Mine(FALSE), RevokeAllSessions, "clear")
GetActiveSessionsUserHandler ==
  User(200, {200, 400, 404, 500}, Admin(TRUE), GetActiveSessions, "keep")
RevokeSessionUserHandler ==
  User(200, {200, 400, 404, 500}, Admin(FALSE), RevokeSession, "keep")
RevokeAllSessionsUserHandler ==
  User(200, {200, 400, 404, 500}, Admin(FALSE), <<Id>> \o RevokeAllSessions, "keep")
HeartbeatHandler ==
  User(200, {200, 400, 401, 500},
       Public(TRUE), <<Cookie("session_id"), Body>> \o Heartbeat, "keep")

RedirectHandler(cached) ==
  Link(302, {302, 404, 500}, Public(TRUE), GetOriginalURL(cached))
CreateShortenHandler ==
  Link(201, {201, 401, 500}, Public(FALSE) \o Public(FALSE), CreateShorten({}))
CreateMyShortenHandler ==
  Link(201, {201, 400, 401, 500}, Mine(FALSE), CreateShorten({"account"}))
GetMyShortensHandler ==
  Link(200, {200, 401, 404, 500}, Mine(TRUE), <<Page>> \o GetShortenByOwner({}))
GetMyShortenByIDHandler ==
  Link(200, {200, 401, 404, 500}, Mine(TRUE), GetShortenByID)
UpdateMyShortenHandler ==
  Link(200, {200, 401, 404, 500}, Mine(FALSE), UpdateShorten)
SetMyShortenStatusHandler(active) ==
  Link(200, {200, 401, 404, 500}, Mine(FALSE), SetURLStatus(active))
DeleteMyShortenHandler ==
  Link(200, {200, 401, 404, 500}, Mine(FALSE), DeleteShorten)
GetUserShortensHandler ==
  Link(200, {200, 401, 403, 404, 500}, Admin(TRUE), <<Page>> \o GetShortens)
GetUserShortenByIDHandler ==
  Link(200, {200, 401, 403, 404, 500}, Admin(TRUE), GetShortenByID)
GetShortensByUserIDHandler ==
  Link(200, {200, 401, 403, 404, 500}, Admin(TRUE),
       <<Page, Id>> \o GetShortenByOwner({"22021", "22P02"}))
UpdateUserShortenHandler ==
  Link(200, {200, 401, 403, 404, 500}, Admin(FALSE), UpdateShorten)
SetUserShortenStatusHandler(active) ==
  Link(200, {200, 401, 403, 404, 500}, Admin(FALSE), SetURLStatus(active))
DeleteUserShortenHandler ==
  Link(200, {200, 401, 403, 404, 500}, Admin(FALSE), DeleteShorten)

UserRoutes ==
  [RegisterUser |-> RegisterUserHandler, LoginUser |-> LoginUserHandler,
   RefreshToken |-> RefreshTokenHandler, Heartbeat |-> HeartbeatHandler,
   LogoutUser |-> LogoutUserHandler, GetMyProfile |-> GetMyProfileHandler,
   UpdateMyProfile |-> UpdateMyProfileHandler, DeleteMyProfile |-> DeleteMyProfileHandler,
   GetActiveSessionsMyProfile |-> GetActiveSessionsMyProfileHandler,
   RevokeSessionMyProfile |-> RevokeSessionMyProfileHandler,
   RevokeAllOtherSessionsMyProfile |-> RevokeAllOtherSessionsMyProfileHandler,
   RevokeAllSessionsMyProfile |-> RevokeAllSessionsMyProfileHandler,
   Redirect |-> RedirectHandler(FALSE), RedirectCached |-> RedirectHandler(TRUE),
   CreateShorten |-> CreateShortenHandler, CreateMyShorten |-> CreateMyShortenHandler,
   GetMyShortens |-> GetMyShortensHandler, GetMyShortenByID |-> GetMyShortenByIDHandler,
   UpdateMyShorten |-> UpdateMyShortenHandler, DeleteMyShorten |-> DeleteMyShortenHandler,
   SetMyShortenStatus |-> SetMyShortenStatusHandler(TRUE),
   UnsetMyShortenStatus |-> SetMyShortenStatusHandler(FALSE)]
AdminRoutes ==
  [GetUsers |-> GetUsersHandler, GetUserByID |-> GetUserByIDHandler,
   UpdateUser |-> UpdateUserHandler, DeleteUserProfile |-> DeleteUserProfileHandler,
   GetActiveSessionsUser |-> GetActiveSessionsUserHandler,
   RevokeSessionUser |-> RevokeSessionUserHandler,
   RevokeAllSessionsUser |-> RevokeAllSessionsUserHandler,
   GetUserShortens |-> GetUserShortensHandler, GetUserShortenByID |-> GetUserShortenByIDHandler,
   GetShortensByUserID |-> GetShortensByUserIDHandler,
   UpdateUserShorten |-> UpdateUserShortenHandler,
   SetUserShortenStatus |-> SetUserShortenStatusHandler(TRUE),
   UnsetUserShortenStatus |-> SetUserShortenStatusHandler(FALSE),
   DeleteUserShorten |-> DeleteUserShortenHandler]
Routes == [h \in DOMAIN UserRoutes \cup DOMAIN AdminRoutes |->
             IF h \in DOMAIN UserRoutes THEN UserRoutes[h] ELSE AdminRoutes[h]]

-----------------------------------------------------------------------------
(* Requests *)

Idle == [handler |-> "none"]
Running == req # Idle /\ req.answer = 0
Answered == req # Idle /\ req.answer # 0

Handler == Routes[req.handler]
Step == Handler.steps[req.pos]
AtStep(kind) ==
  Running /\ req.pos <= Len(Handler.steps) /\ Step.kind = kind

Status(err) ==
  IF err \in DOMAIN Direct THEN Direct[err]
  ELSE IF Handler.errors = "user" THEN UserError(err) ELSE LinkError(err)

Goes(r) == req' = [r EXCEPT !.pos = @ + 1]
Ends(r, err) == req' = [r EXCEPT !.answer = Status(err)]

Arrive ==
  /\ req = Idle
  /\ \E h \in DOMAIN Routes :
       req' = [handler |-> h, pos |-> 1, answer |-> 0, faults |-> 0, cut |-> FALSE,
               upset |-> FALSE, missed |-> FALSE, unfit |-> FALSE, ignored |-> FALSE,
               gave |-> {}, took |-> {}, unlisted |-> {}]
  /\ UNCHANGED <<world, cookies, excused>>

(* What a check may find.  Who has come as far as the service on a route   *)
(* of administrators is one, on the other routes it may be either.         *)
Outcomes(what) ==
  CASE what = "no_admin" /\ req.handler \in DOMAIN AdminRoutes -> {FALSE}
    [] what = "owner" /\ req.handler \in DOMAIN AdminRoutes    -> {TRUE}
    [] what \in Cookies -> {what \in cookies}
    [] OTHER -> BOOLEAN

Inspect ==
  /\ AtStep("check")
  /\ \E ok \in Outcomes(Step.what) :
       IF ok THEN Goes(req)
       ELSE Ends([req EXCEPT !.missed = @ \/ Step.what = "rows"], Step.err)
  /\ UNCHANGED <<world, cookies, excused>>

(* The limiter lets it through, refuses it, or cannot ask Redis.           *)
Meter ==
  /\ AtStep("limit")
  /\ \/ Goes(req)
     \/ Ends(req, "TooManyRequests")
     \/ /\ req.faults < MaxFaults
        /\ LET r == [req EXCEPT !.faults = @ + 1]
           IN IF Step.open THEN Goes(r)
              ELSE Ends([r EXCEPT !.cut = TRUE], "ServiceUnavailable")
  /\ UNCHANGED <<world, cookies, excused>>

(* An error of a call is turned into one of the domain, and its caller     *)
(* returns it, returns another one, or goes on.                            *)
Raised(raw) ==
  LET err == IF Step.thing \in Tables \cup {"page"} THEN HandleDBError(raw)
             ELSE HandleRedisSetNX(raw)
  IN IF err \in DOMAIN Step.as THEN Step.as[err] ELSE err

Raise(r, raw) ==
  IF Raised(raw) = "ignored" THEN Goes([r EXCEPT !.ignored = TRUE])
  ELSE Ends(r, Raised(raw))

(* What is undone when an error is returned, by calls that may fail too.   *)
Undone == {Step.undo} \cup (IF req.faults < MaxFaults THEN SUBSET Step.undo ELSE {})

(* The sessions that the set does not list, and what a call takes of what  *)
(* it would take.                                                          *)
Unlisted == {s \in DOMAIN MemberOf : MemberOf[s] \notin world}
Taken == IF Step.listed THEN Step.takes \ Unlisted ELSE Step.takes

Perform ==
  /\ AtStep("call") /\ Step.needs \subseteq world
  /\ world' = (world \cup Step.gives) \ Taken
  /\ Goes([req EXCEPT !.gave = @ \cup Step.gives, !.took = @ \cup (Taken \cap world),
                      !.unlisted = IF Step.listed THEN Unlisted ELSE @])
  /\ UNCHANGED <<cookies, excused>>

(* What is needed is not there.                                            *)
Lack ==
  /\ AtStep("call") /\ ~(Step.needs \subseteq world)
  /\ LET raw == CASE Step.thing \notin Tables -> "redis_nil"
                  [] Step.thing \in Tables \cap Step.needs -> "record_not_found"
                  [] OTHER -> "23503"
     IN Raise([req EXCEPT !.missed = TRUE], raw)
  /\ \E undone \in Undone : world' = world \ undone
  /\ UNCHANGED <<cookies, excused>>

(* A constraint is violated, or a value does not fit, whatever is there.   *)
Refuse ==
  /\ AtStep("call")
  /\ \E raw \in Step.raw :
       /\ raw \in Unfit \/ Step.needs \subseteq world
       /\ Raise([req EXCEPT !.unfit = raw \in Unfit], raw)
  /\ UNCHANGED <<world, cookies, excused>>

(* The call fails, before or after it took effect, a pipeline half-way.    *)
Fail ==
  /\ AtStep("call") /\ req.faults < MaxFaults
  /\ \E gives \in SUBSET Step.gives, takes \in SUBSET (Taken \cap world),
        undone \in SUBSET Step.undo :
       /\ Step.needs \subseteq world \/ gives \cup takes = {}
       /\ world' = ((world \cup gives) \ takes) \ undone
       /\ \E raw \in IF Step.thing \in Tables \cup {"page"} THEN PgFaults ELSE RedisFaults :
            Raise([req EXCEPT !.faults = @ + 1, !.gave = @ \cup gives, !.took = @ \cup takes,
                              !.cut = Raised(raw) # "ignored"],
                  raw)
  /\ UNCHANGED <<cookies, excused>>

Succeed ==
  /\ Running /\ req.pos > Len(Handler.steps)
  /\ req' = [req EXCEPT !.answer = Handler.ok]
  /\ UNCHANGED <<world, cookies, excused>>

(* The requests by which a user leaves, and what the others end is ended   *)
(* without the cookies being cleared.                                      *)
Parting == {"LogoutUser", "DeleteMyProfile", "RevokeAllSessionsMyProfile"}

(* The request has ended what the cookies name, and the browser is told    *)
(* something else than that, or nothing.                                   *)
Unnoticed(told) ==
  req.took \cap BrowserKeys # {} /\ (req.handler \notin Parting \/ told # Handler.ok)

Forgotten == world \ (NewKeys \cup {"new_member", "made"})
Successor ==
  [session |-> "new_session", refresh |-> "new_refresh", member |-> "new_member"]

(* The answer arrives: one that is not a success, or one without cookies.  *)
DeliverPlain ==
  /\ Answered /\ (req.answer # Handler.ok \/ Handler.jar = "keep")
  /\ world' = Forgotten
  /\ excused' = (cookies # {} /\ (excused \/ Unnoticed(req.answer)))
  /\ req' = Idle /\ UNCHANGED cookies

DeliverCleared ==
  /\ Answered /\ req.answer = Handler.ok /\ Handler.jar = "clear"
  /\ cookies' = {} /\ excused' = FALSE
  /\ world' = Forgotten
  /\ req' = Idle

(* Mutant: the access token is put into a cookie too.                      *)
DeliverSetAccess ==
  /\ Answered /\ req.answer = Handler.ok /\ Handler.jar = "set"
  /\ cookies' = Cookies \cup {"access_token"} /\ excused' = req.upset
  /\ world' = {k \in Forgotten : k \in DOMAIN Successor => Successor[k] \notin req.gave}
                \cup {k \in DOMAIN Successor : Successor[k] \in world}
  /\ req' = Idle

DeliverSet ==
  /\ Answered /\ req.answer = Handler.ok /\ Handler.jar = "set"
  /\ cookies' = Cookies /\ excused' = req.upset
  /\ world' = {k \in Forgotten : k \in DOMAIN Successor => Successor[k] \notin req.gave}
                \cup {k \in DOMAIN Successor : Successor[k] \in world}
  /\ req' = Idle

(* The client or the process is gone, or the answer is lost.  Nobody knows *)
(* of what the request has made.                                           *)
Lose ==
  /\ req # Idle
  /\ world' = Forgotten
  /\ excused' = (cookies # {} /\ (excused \/ Unnoticed(0)))
  /\ req' = Idle /\ UNCHANGED cookies

(* Others remove something, or a key expires, the set of the sessions      *)
(* before they do, and whoever lists them takes out what it cannot read.   *)
Others ==
  /\ \E thing \in world \ {"made"} :
       /\ world' = world \ {thing}
       /\ IF thing \in UserKeys
            THEN /\ excused' = (cookies # {} /\ (excused \/ thing \in BrowserKeys))
                 /\ req' = IF req = Idle THEN req ELSE [req EXCEPT !.upset = TRUE]
            ELSE UNCHANGED <<excused, req>>
  /\ UNCHANGED cookies

-----------------------------------------------------------------------------
Init ==
  /\ world \in SUBSET {"account", "link", "admin_session"}
  /\ cookies = {}
  /\ req = Idle
  /\ excused = FALSE

Serve == Inspect \/ Meter \/ Perform \/ Lack \/ Refuse \/ Fail \/ Succeed
Answer == DeliverPlain \/ DeliverCleared \/ DeliverSet \/ Lose
Next == Arrive \/ Serve \/ Answer \/ Others

Spec == Init /\ [][Next]_vars

-----------------------------------------------------------------------------
(* Properties *)

TypeOK ==
  /\ world \subseteq Things /\ cookies \subseteq Cookies /\ excused \in BOOLEAN
  /\ \/ req = Idle
     \/ /\ req.handler \in DOMAIN Routes /\ req.pos \in 1 .. Len(Handler.steps) + 1
        /\ req.answer = 0 \/ req.answer \in 200 .. 599
        /\ req.gave \cup req.took \cup req.unlisted \subseteq Things

SessionLists == {"GetActiveSessionsMyProfile", "GetActiveSessionsUser"}

(* The routes that are open to everybody.                                  *)
Open ==
  {"RegisterUser", "LoginUser", "RefreshToken", "Heartbeat", "Redirect", "RedirectCached",
   "CreateShorten"}

(* What a request is answered that does not come past its middleware.      *)
AtGate == req.pos <= Handler.gate
OfGate ==
  {429, 503} \cup (IF req.handler \in Open THEN {} ELSE {401})
             \cup (IF req.handler \in DOMAIN AdminRoutes THEN {403} ELSE {})

(* What handlers and services answer and the annotations do not tell.      *)
Untold ==
  CASE req.handler = "UpdateMyProfile" -> {403, 404, 409}
    [] req.handler = "DeleteMyProfile" -> {403, 404}
    [] req.handler \in {"UpdateUser", "DeleteUserProfile"} -> {403}
    [] req.handler = "RefreshToken"    -> {404, 409}
    [] req.handler = "RegisterUser"    -> {409}
    [] req.handler = "Heartbeat"       -> {404}
    [] req.handler \in {"GetActiveSessionsMyProfile", "GetUsers"} -> {400, 404}
    [] req.handler \in {"GetMyShortenByID", "UpdateMyShorten", "DeleteMyShorten",
                        "SetMyShortenStatus", "UnsetMyShortenStatus"} -> {400, 403}
    [] req.handler \in {"GetUserByID", "LogoutUser", "CreateShorten", "GetMyShortens",
                        "GetUserShortens", "GetUserShortenByID", "GetShortensByUserID",
                        "UpdateUserShorten", "SetUserShortenStatus", "UnsetUserShortenStatus",
                        "DeleteUserShorten"} -> {400}
    [] OTHER -> {}

(* Whatever fails, vanishes or is refused on the way, who does not come    *)
(* past the middleware is answered by it, and who does is answered what    *)
(* the annotation of the handler lists or one of its omissions, all of     *)
(* them in Untold.                                                         *)
AnswersAsDocumented ==
  Answered => req.answer \in IF AtGate THEN OfGate ELSE Handler.docs \cup Untold

(* Where a store that fails is told as the client's mistake: the session   *)
(* that the middleware or a refresh looks up and the account of a login as *)
(* 401, sessions that are listed as 404.                                   *)
Concealed ==
  \/ req.answer = 401 /\ (AtGate \/ req.handler \in {"LoginUser", "RefreshToken"})
  \/ req.answer = 404 /\ req.handler \in SessionLists

(* A server error is answered only if a store has failed, save for a value *)
(* that its column cannot hold and for a link of an account that is gone;  *)
(* a failure is answered with a server error, save where it is Concealed:  *)
(* PostgreSQL may be down and a login hears of wrong credentials; and only *)
(* what is not there, or not to be served, is not found, save by the lists *)
(* of sessions.                                                            *)
HonestAnswers ==
  Answered =>
    /\ req.answer >= 500 =>
         req.cut \/ req.unfit \/ (req.handler = "CreateMyShorten" /\ req.missed)
    /\ req.cut => req.answer >= 500 \/ Concealed
    /\ req.answer = 404 => req.missed \/ req.handler \in SessionLists

(* A request that is refused has neither removed nor left anything, save a *)
(* logout whose second cookie is malformed, which has ended the session,   *)
(* and a refresh whose session goes away under it, which has spent its     *)
(* token.                                                                  *)
RefusedChangesNothing ==
  (Answered /\ req.answer \in 400 .. 499
     /\ <<req.handler, req.answer>> \notin {<<"LogoutUser", 400>>, <<"RefreshToken", 404>>})
  => req.took = {} /\ req.gave \cap world = {}

(* What a request is to end when it succeeds.  The purge of an account may *)
(* have failed with nobody but the log to know, or a GET of its sweep with *)
(* not even that; and a session lives on that the set had lost when the    *)
(* purge read it.                                                          *)
Purged == IF req.ignored THEN {} ELSE UserKeys \ req.unlisted
ToEnd ==
  [LogoutUser |-> BrowserKeys, RevokeSessionMyProfile |-> {"session"},
   RevokeSessionUser |-> {"session"}, RevokeAllSessionsMyProfile |-> Purged,
   RevokeAllSessionsUser |-> Purged, DeleteMyProfile |-> {"account"} \cup Purged,
   DeleteUserProfile |-> {"account"} \cup Purged,
   DeleteMyShorten |-> {"link"}, DeleteUserShorten |-> {"link"}]

(* Success of a logout, a revocation or a deletion is answered only when   *)
(* its object is gone, although a logout goes on after its first call has  *)
(* failed; of everything a user has, save what Purged leaves out.          *)
SuccessMeansGone ==
  (Answered /\ req.answer = Handler.ok /\ req.handler \in DOMAIN ToEnd)
  => ToEnd[req.handler] \cap world = {}

(* The cookies of a browser name a session and a refresh token that exist, *)
(* unless somebody else has ended them or the answer that was to bring or  *)
(* clear the cookies was an error or was lost.                             *)
CookiesLive ==
  (req = Idle /\ cookies # {} /\ ~excused) => BrowserKeys \subseteq world

(* README.md: PATCH /admin/users/:sub is for admins, and the annotation of *)
(* UpdateUser lists success and no 403: what the router lets in is not     *)
(* forbidden.                                                              *)
AdminMayUpdate ==
  (Answered /\ req.handler = "UpdateUser" /\ ~AtGate) => req.answer # 403

=============================================================================
