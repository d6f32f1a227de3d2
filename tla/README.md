# A TLA+ model of the URL shortener

TLA+ modules, TLC configurations and TLAPS proofs for the URL shortener API
(Go, Gin, PostgreSQL, Redis). Paths are relative to the repository, service.go
without a directory is `internal/url-shortener/shortener/service.go`.

## 1. Inventory: the system and what makes it correct

| Component | State it keeps | Operations | What makes it correct |
| --- | --- | --- | --- |
| Short-link service, `internal/url-shortener/shortener` | rows of `shorten_storages` (PostgreSQL); cached copies `shorten:<code>` and the sorted set `shorten:expiry_queue` (Redis) | create (public, authorised), update, status, delete, redirect, listings | a redirect never outlives the life its link was given; only the owner, an admin or the worker changes a row; cache, queue and row agree when nothing is in flight |
| Expiry worker, `StartExpiryWorker` | the batch of codes it works on | scan, claim, deactivate, clear | every expired link is marked inactive, no other link is |
| Sessions, `internal/auth-session/session` | `session:<hash>` with a TTL, the set `user_sessions:<user>` with a TTL of its own | create, list, revoke one/others/all, extend, heartbeat | what is revoked stays revoked; the set knows every live session |
| Tokens, `internal/auth-session/token` | `refresh:<hash>`, `lock:refresh:<hash>`; access tokens are signed and kept nowhere | issue, validate, rotate, revoke, sweep | a refresh token is exchanged at most once; a session has at most one live refresh token |
| Users, `internal/auth-session/user` | the `users` table | register, login, refresh, logout, update, delete, heartbeat | deleting an account ends its links and sessions |
| Rate limiter, `internal/middleware/rate_limit.go` | one Redis key per policy and identity, changed by Lua scripts | sliding window, token bucket | never more than the limit in any window; a key that expires changes nothing; a client that waits as told is admitted |
| Authentication middleware, `internal/middleware/auth.go` | none | token to (user, session, role) | a handler runs with the identity of a live session |
| Handlers, `user/handler.go` and `shortener/handler.go` | the two cookies of a browser | a service and an answer per route | what a client is told is what has happened; cookies name what exists |
| Router, `internal/router` | none | which limits and roles guard which route | order of the two limits of public creation |
| Process, `main.go`, `internal/config`, `internal/infrastructure` | the worker's context | start, stop | a stop at any point loses nothing that matters |
| `pkg` | none | pagination, errors, validation, envelopes | an error keeps its meaning on the way to the answer |
| `docs/` | none | generated Swagger text | not modelled |

How they interact: a request passes the rate limiter and the authentication
middleware, then its handler calls a service on the goroutine of the request,
with the context of the request (a client that goes away cancels the calls that
are left). A service calls PostgreSQL and Redis one call at a time, and no
transaction or lock spans two calls. The worker is a goroutine of every server
process and shares the Redis queue with the workers of the other processes.
Deleting an account reaches the links through a foreign key of the database
alone.

What is hard here is therefore concurrency and partial failure: three stores
that are changed one after the other, by requests that overlap, with errors that
end an operation half-way or are not looked at, copies with a life of their own,
and a worker that acts on what it read earlier. `PROJECT.json` lists the hazards
with the line at which each one bites and the properties that watch over it.

## 2. Plan

1. `Shorten` with `MCShorten`, `ShortenProofs` and `ScheduleProofs`: links,
   cache, queue, worker; proofs of what holds under every fault, then of what
   holds when nothing fails. **Done.**
2. `Sessions` with `MCSessions`, `SessionsProofs`, `RotationProofs` and
   `AloneProofs`: sessions, refresh tokens, rotation lock, user set, account deletion; revocation against rotation and heartbeat; proofs of
   the rotation, then of requests that do not overlap. **Done.**
3. `RateLimit` with `MCRateLimit`, `WindowContract`, `BucketContract` and
   `RateLimitProofs`: both scripts against an abstract limiter each, the chains
   of policies, retries and outages; the refinements proved. **Done.**
4. `Gateway` with `RouteProofs` and `GatewayProofs`: every route as the sequence
   of what may end it, the way from an error to an answer, the cookies; proofs of
   what the routes are made of, then of what a client is told. **Done.**
5. Open: how long a due code may wait when batches are full; which rows a page
   holds; what else survives when two links share a code; whether the proofs
   without failures hold of failures that the code looks at.

`Shorten` and `Sessions` share one thing, the accounts: the end of an account
removes rows through the foreign key (`DeleteUser` of `Shorten`) and ends sessions
and tokens through the calls of `DeleteUser` (`Erase` and what follows it in
`Sessions`). No other call crosses, so the two are modelled apart. `Gateway` lies
across both: it keeps of their state only what an answer depends on (is the row,
the session, the token there?) and lets anything vanish at any time, which the
other modules explain. `RateLimit` stands before every handler and shares no key
with them; a request of `Gateway` is let through, refused or not metered.

## 3. `Shorten`: the life of a short link

### State and code

| Model | Code |
| --- | --- |
| `rows[l]` | the row of a link: owner, URL, expires_at, is_active (`ShortenStorage`) |
| `issued` | primary keys that were drawn (UUIDs are not drawn twice) |
| `cache[c]` | the key `shorten:c`: `ShortenCacheEntity` and the time its TTL leaves it |
| `queue[c]` | the score of `c` in `shorten:expiry_queue` |
| `accounts` | accounts that exist, for the foreign key |
| `stage[p]`, `req[p]`, `seen[p]` | the goroutine of a request: its next call, its input, the row it read last |
| `batch[w]`, `wstage[w]`, `held[w]` | a worker: codes of its scan, its next call, the code it claimed |
| `grants[c]` | history: every `expires_at` a row of code `c` ever had |

An action is one call to a store. The stages of the operations:

- create: `Insert`, `CacheShorten`, `ScheduleExpiry`
- update: `Check`, `Write`, `Reread`, `CacheShorten`, `ScheduleExpiry`
- status: `Check`, `Write`, `Reread`, then `CacheShorten`, `ScheduleExpiry` if
  the row read is active, and `DropCache`, `Unschedule` if not
- delete: `Check`, `DropCache`, `Unschedule`, `Remove`
- redirect: `ServeCached`, or `LookupOther` followed by `DropCache` (a copy that
  must not be served) or by `FetchServed`, `CacheShorten`, or `FetchNotFound`
- worker: `Scan`, then for each code `Claim`, `Deactivate`, `ClearCache`

`Abort` is an error returned by a call, a client that goes away or a process
that stops: the rest of the operation does not happen. Errors the code does not
look at (`DropCache`, `Unschedule`, `ClearCache`, and `Deactivate`, which only
logs) lose the effect and go on. `WorkerStops` is the end of a process in the
middle of a batch: main cancels the worker and does not wait for it.

What is abstracted: codes, URLs and accounts are model values; a public link's
three days and a second are constants in ticks; the TTL of a copy is computed
and set in one step (in the code the SET follows the computation by one round
trip); validation, JSON and UUID parsing are left out, so every request of the
model is one that passed them; `CodeOf` fixes the code each link draws, and two
links may draw the same one. A request that leaves no field to change still
writes `updated_at` and behaves as the identity on what is modelled. Tokens are
valid and roles are true, as the middleware hands them on.

### Runs

| Run | Question | Instance |
| --- | --- | --- |
| `links_grants` | whatever fails and overlaps, how long can a link be served, and does anybody else change it? `TypeOK`, `CacheMortal`, `ServedWithinGrant`, `AuthorisedChange` | one link, public or of a user, a stream of changes, a redirect, a worker, an account that may go, every fault, clock to 4 |
| `links_seq` | one operation at a time: do row, cache and queue agree? `NothingLeftBehind`, `RedirectFollowsRow`, `DeactivatesWhenDue` | two URLs, expiries inside and at the end of a second of two ticks, `SpecCodesAlone` |
| `links_expiry` | do two workers and a stream of changes keep the queue right, is every expired link marked inactive, does every orphaned copy go? `ScheduleFollowsRows`, `ExpiredIsDeactivated`, `OrphanVanishes` | two workers, changes one after the other (`SpecChangesAlone`), fairness, no faults |
| `early_race` | violation of "marks expired links inactive" by an update that overlaps with the worker: `DeactivatesOnlyExpired` | a second is one tick, so that nothing else can violate it |
| `lost_schedule` | violation of the same promise by omission: `ExpiredIsDeactivated` | faults allowed |

Bounds. One link and one code are enough for these questions, because no
operation relates two codes but the scan, whose order matters to liveness only
under a full batch, which no run has. Links that share a code are covered by the
theorems, which hold for every `CodeOf`; so are admins and several users
(`OnlyAuthorisedChanges`), the runs have one user and public links. The clock goes to 2, 3 or 4, and the
life of a cached copy goes on when the clock stands still, so every copy dies in
every run. `Receive` refuses a public link whose expiry would lie at the end of
the clock or later, because such a link could not expire within it.

Two environment assumptions name what a property needs and are part of the
specification of the run: `ChangesAlone`, no two requests change one code at the
same time, and `CodesAlone`, nothing at all overlaps on a code. They are
conjoined to the next-state relation as `Next /\ ChangesAlone'`, so a request
waits outside until the code is free. Without them the properties do not hold in
the code, and the hazards list says why.

Fairness. A request in flight goes on (Go schedules every goroutine, and every
call has a deadline through the request's or the server's time-outs), the worker
goes on because its ticker fires every two seconds for as long as the process
runs, and time passes. Nothing makes a client send a request.

### What the runs found

- `early_race`: the worker claims a code by removing it from the queue and looks
  neither at the row nor at the score again (service.go:477), so an update that
  has prolonged the link and not yet rescheduled it loses to the worker.
- `lost_schedule`: a creation that ends after its INSERT (service.go:82-93), or a
  worker that stops or fails after its ZREM (service.go:477-485), leaves an
  expired link with `is_active = true` for ever. Redirects still refuse it,
  because `shouldServe` looks at the expiry too (`ServedWithinGrant`).

Both sides of the worker's comparison are cut to whole seconds (service.go:449
and 455), so a link with a fraction of a second in its expiry is marked inactive
up to a second early; `DeactivatesWhenDue` says what holds instead, with a second
of two ticks.

### What is proved

For all constants that satisfy the assumptions of `Shorten` (any number of links,
codes, accounts, goroutines and workers) and, where the last column is empty,
with all faults:

| Theorem | Statement | Assumes in addition |
| --- | --- | --- |
| `ShortenProofs!TypeCorrect` | `Spec => []TypeOK` | |
| `ShortenProofs!CopiesAreMortal` | `Spec => []CacheMortal` | |
| `ShortenProofs!NothingServedPastItsGrants` | `Spec => ServedWithinGrant` | |
| `ShortenProofs!OnlyAuthorisedChanges` | `Spec => AuthorisedChange` | |
| `ScheduleProofs!QueueFollowsRows` | `SpecChangesAlone => []ScheduleFollowsRows` | no failures, `OwnCodes` |
| `ScheduleProofs!OnlyDueLinksAreDeactivated` | `SpecCodesAlone => DeactivatesWhenDue` | no failures, `OwnCodes` |
| `ScheduleProofs!GoneIsGone` | `SpecCodesAlone => []NothingLeftBehind` | the same, and no account is deleted |
| `ScheduleProofs!RedirectsAreTrue` | `SpecCodesAlone => RedirectFollowsRow` | the same, and no account is deleted |

`OwnCodes` says that no two links have the same code. The extra assumptions are
those under which the runs check the same properties, and each of them is
needed: a failure between INSERT and ZADD leaves a row unqueued, two links with
one code take each other's score, the deletion of an account reaches neither
cache nor queue (see the hazards).

The arguments:

- `TypeInv` (`StoreType`, `RequestType`, `WorkerType`) is `TypeOK` plus the fact
  that a request in flight has a request record, and one that is about to cache
  or schedule has read a row. It is needed to read the fields of `req[p]` and
  `seen[p]`.
- `GrantInv` says that every expiry in sight was granted to its code: that of a
  row (`RowsGranted`), of a row somebody has read (`SeenGranted`) and of a cached
  copy (`CacheGranted`), and that the life left to a copy ends with that expiry
  or a second from now (`LifeOf`). `CacheMortal` is a consequence of its
  last parts; a copy that is served has not passed its own expiry, which is the
  second theorem. Neither is inductive alone: a stale reading of a goroutine
  becomes a copy later.
- `AuthInv` follows the comparison of owners to the write: a request that has
  passed `Check` carries a key whose row, if it still exists, belongs to the
  caller, unless the caller is an admin (`Cleared`); keys are never drawn twice
  and owners never change (`KeyInv`, `OwnerInv`), and this is what makes a
  check that precedes the write by several calls sound.

- `ScheduleInv` follows a change from its first call to its last: up to the write
  the queue is in order with the row (`InOrder`); from there to the ZADD or ZREM
  the request carries what the row says (`Carried`). A worker may take the entry
  away (`Claimed`) and deactivates the row next, after which an inactive row asks
  for nothing. Deletions of accounts and redirects run beside it all.
- `DueInv` carries what a scan found to the deactivation some calls later: a code
  in the batch that is still queued has the score by which it was due, and the
  link behind a claimed code is due. It rests on `ScheduleInv`, which makes the
  score the second of the row's expiry.
- `CopyInv`: outside the few calls between the write of a row and the refresh of
  its copy (`InMotion`), the copy in the cache agrees with the row, and a row that
  is gone has neither copy nor score. A redirect that fills the cache holds the
  row it read (`Hand`), which is what two that overlap would break.

The step lemmas are split per way a request goes on (`Finish`, `Proceed`,
`Read`), then per action. Out of the prover's reach, and therefore
model-checked only: liveness under fairness (`ExpiredIsDeactivated`,
`OrphanVanishes`).

## 4. `Sessions`: logins, sessions and refresh tokens

### State and code

| Model | Code |
| --- | --- |
| `sessions[s]` | the key `session:s`: the refresh token the session names, and what is left of its TTL, `Never` for a key without one |
| `sets[u]` | the set `user_sessions:u` and its TTL; Redis removes a set with its last member |
| `tokens[t]` | the TTL of the key `refresh:t`, 0 without one |
| `locks[t]` | the key `lock:refresh:t`: who set it, and its TTL |
| `logins[s]`, `source[t]` | what never changes of a session (user, remembered or not) and of a token (its payload names the session) |
| `accounts` | accounts that exist |
| `proc[p]` | the goroutine of a request: its next call, its input, and what it read |
| `given`, `heirs`, `revoked` | histories: tokens a client got, tokens issued in exchange for a token, sessions a revocation deleted |
| `late`, `stale` | histories: tokens whose lock ran out while a rotation needed it; sessions that went away between the GET and the SET of a request |

An action is one call to a store, or one pipeline of writes: such a pipeline is
sent in one go and taken as one step, though Redis does not promise that no
other command comes between. The GETs that `PurgeUserSessions` pipelines are
taken one at a time. The stages of the operations:

- login: `Account`, `Create`, `Enlist` (or `Undo`), `Grant`
- refresh: `Acquire`, `Load`, `Alive`, `Spend`, `Issue`, `Extend`, `Store` (or
  `Retract`), `Release`
- heartbeat: `Beat`, `Keep`
- revoke: `Find`, `Drop`; logout: the same, then `Forget`, then both once more
- revoke others: `Members`, `Each`, `Wipe`; revoke all: the same (or `Members`,
  `Discard` if the set is empty), then `Sweep`, `Unsweep`; delete the account:
  `Erase` before all of this
- list: `Members`, `Each`, `Prune`

`Fail` is an error of a call: `Failures` lists where it leads if the code does
more than return it, and any request may stop at any call (a client that goes
away, a process that ends). Errors the code does not look at (`Undo`, `Retract`,
`Release`, `Discard`, `Prune`) lose the effect and go on (`Unchecked`). `Tick` is the time
that every TTL loses.

What is abstracted: session ids and tokens are drawn at random and never drawn
twice; passwords, roles and the fields of a session that only its listing shows
are left out; the expiry of an access token is left out, its session decides
(`ValidateAccessToken`); the SCAN of the sweep and the GETs that go with it are
one reading, which may miss tokens if calls may fail; a request that names a
session names one that a client knows, and the two cookies of a logout come from
one login.

### Runs

| Run | Question | Instance |
| --- | --- | --- |
| `sessions_rotation` | what do lock, rotation and heartbeat promise whatever fails and overlaps? `TypeOK`, `RotatedOnce`, `OneLiveToken`, `RevivedOnlyByStale`, `ImmortalOnlyByStale` | one session and three tokens, a goroutine that logs in, rotates and sends heartbeats against one that rotates, logs out and revokes; every fault; locks that may run out |
| `sessions_alone` | one operation at a time: do session, set and token agree, and does a revocation of everything leave no token? `SetCovers`, `RevocableToken`, `SweptClean` | two users, two sessions, three tokens, both kinds of login, all operations, no faults |
| `sessions_revived` | violation of "Revoke/Delete Specific Session": `RevokedStaysRevoked` | a heartbeat against a revocation |
| `force_logout` | violation of "Force Logout All": `ForceLogoutAll` | one goroutine, logins of both kinds, then a revocation of everything |

Bounds. Three tokens let a session rotate twice, or two requests that present
one token both succeed if the lock does not hold them apart; a third request on
the same token adds no new order, since the lock knows only who holds it. A lock
lives one tick and a key two, so each may outlive the other's request. `RoomFor`
refuses a request for which no session or token would be left to draw.

The properties of `sessions_rotation` need no assumption on the environment;
they say instead which token or session they do not speak of: `late` and
`stale` hold what the two gaps of the code have touched (a lock of five seconds
that nobody renews, and a GET and SET that nothing holds together). No fairness
is assumed, and no liveness is claimed: every TTL runs by itself.

### What the runs found

- `sessions_revived`: `Heartbeat` writes back what it read with KEEPTTL
  (session/service.go:334). If a revocation has deleted the key in between, the
  session is there again and never expires. `ExtendSession` does the same with a
  TTL.
- `force_logout`: every login sets the TTL of the user's set to its own life,
  also when that is shorter (session/service.go:72). When the set is gone, a
  revocation of everything does not see the sessions it listed. The sweep still
  removes their refresh tokens (`SweptClean`).

### What is proved

For all constants that satisfy the assumptions of `Sessions`, any number of
users, sessions and tokens, and, where the last column is empty, of goroutines,
with all faults:

| Theorem | Statement | Assumes in addition |
| --- | --- | --- |
| `SessionsProofs!TypeCorrect` | `Spec => []TypeOK` | |
| `SessionsProofs!RevivedOnlyThere` | `Spec => []RevivedOnlyByStale` | |
| `SessionsProofs!ImmortalOnlyThere` | `Spec => []ImmortalOnlyByStale` | |
| `RotationProofs!ExchangedOnce` | `Spec => []RotatedOnce` | |
| `RotationProofs!LiveTokenUnique` | `Spec => []OneLiveToken` | |
| `AloneProofs!NothingOutlivesTheSweep` | `Spec => SweptClean` | `OneAtATime`, no failures |
| `AloneProofs!SessionsNameTheirToken` | `Spec => []RevocableToken` | `OneAtATime`, no failures |
| `AloneProofs!SetsCoverSessions` | `Spec => []SetCovers` | the same, `Lives` is finite |

`OneAtATime` says that there is one goroutine. Keys go on expiring between any
two calls of it, which is where these proofs have their work.

The arguments:

- `TypeInv` adds to `TypeOK` what a request has in hand at each stage (`Hand`)
  and that tokens, sets and requests speak only of what was drawn (`DrawInv`).
- `OverwriteInv`: a request about to overwrite a session overwrites one that is
  there, or the session is in `stale`. `OverwriteKept` is the lemma for all
  steps that create no session.
- `RotationInv` has three parts. `HandInv`: a token that is presented was given,
  and the one a login has drawn is known to nobody else. `LockInv`: a rotation
  up to its DEL holds its lock or is late; a token that was spent or exchanged
  never lives again; so of two requests on one token only one can be between
  its DEL and its SETNX. `LiveInv`: the token that a rotation presents is the
  only one of its session that can live. None of the three is inductive without
  the others: that a spent token stays dead needs `HandInv` (a login could store
  it again if it had drawn it), that nobody exchanges it twice needs the lock.
  `Calm` names the steps that no part of the invariant notices; the others have
  a lemma each.

- `PurgeInv`: a request that ends everything of a user keeps to the stages that
  lead to the sweep, and when it deletes it has in hand every token of the user
  that lives. With overlap the second part fails, a rotation stores a token
  behind the scan.
- `NameInv`: a session has at most one live token (`OneToken`) and names it, but
  for a rotation between its DEL and the rewriting of the session (`Names`);
  `Knows` says stage by stage what a login, a rotation and a heartbeat know of
  that token, so that the heartbeat's rewriting restores the right name.
- `SetInv`: a session that is there is in its user's set or on its way
  (`Enlisting`), with no more life left than the set (`Covered`), if all logins of
  the user want the same life (`Uniform`). `Recalls` carries what SMEMBERS found to
  the deletions: they take all that is there, so the set may go with them. The
  life must be part of the invariant, because a tick may take the set away. It
  uses `OverwriteInv` for sessions that are overwritten after their end, which
  `SetCovers` leaves out.

## 5. `RateLimit`: the policies before a handler

### State and code

| Model | Code |
| --- | --- |
| `windows[k]` | the sorted set of a sliding window: members with their instants, and the last instant before Redis drops the key |
| `buckets[k]` | the hash of a token bucket: tokens at the instant of the last refill, and the end of its life |
| `proc[p]` | a request: the chain of policies of its route, the one it asks now, how often it has tried, the calls that let it through |
| `calls` | numbers the calls as their uuids do; a retry keeps its number |
| `now` | the clock of Redis (`TIME`), which both scripts read |
| `passed`, `taken`, `promise`, `lost` | histories: decisions that let a request pass, units taken out of a bucket, the instant up to which the last one refused was told to wait, calls whose answer was lost |

A script runs atomically in Redis, so `Decide` is one step: `Slide` or `Pour` on
the key, the answer, and `c.Next()` (`Proceed`) or 429. `Lose` runs the script
and loses its answer, `Miss` fails before it; go-redis makes both calls again
with the same arguments. `Degrade` is the error branch of `Limit` after the last retry:
on if the policy fails open, 503 otherwise. `Identity` is how a client is told,
`Key` how a policy and an identity make a key.

Tokens are counted in units, as many to a token as ticks refill it, which keeps
the arithmetic in integers; the floating point of the script is not modelled,
and neither are the informative headers. The clock of Redis does not step back.

### Runs

| Run | Question | Instance |
| --- | --- | --- |
| `limits` | do limits, Retry-After and closed policies hold while Redis forgets keys, loses answers or fails? `TypeOK`, `WindowBound`, `BucketBound`, `HonestRetryAfter`, `NoPhantomSlots`, `ClosedIsMetered`, `KeepsWindowContract`, `KeepsBucketContract` | the public route with its two windows, a closed and an open bucket; two clients at one address; two goroutines |

Bounds: three requests of a route, by two goroutines that are alike (symmetry),
against limits of one and two; one failure, which may be retried once; four
ticks for windows of two, six for the buckets, which is past the life of each.
`OneRoute` explores the routes one at a time, which share no key. Time and calls
run out, so deadlock is not checked.

`WindowContract` and `BucketContract` say what a policy promises, with a clock
that never sleeps: admissions are forgotten when they are one window old, a
bucket gains a unit each tick. The scripts prune and refill only when they are
asked, and Redis drops idle keys; `Window(k)` and `Bucket(k)` map `Recent(k)` and
`Level(k)` to the contracts' state.

What a reader may not expect, and `NoPhantomSlots` leaves room for: a script
that took the last slot of a window and whose answer was lost is run again and
finds the window full, so the request it had admitted is answered 429. Nor is
the first window of public creation given back when the second refuses.

### What is proved

`RateLimitProofs` proves, for all policies, chains, clients and goroutines that
satisfy `PolicyAssumption` and `DomainAssumption`, with any number of failures:

| Theorem | Statement |
| --- | --- |
| `TypeCorrect` | `Spec => []TypeOK` |
| `BucketBounded` | `Spec => []BucketBound` |
| `BucketsKeepContract` | `Spec => KeepsBucketContract` |
| `WindowBounded` | `Spec => []WindowBound` |
| `WindowsKeepContract` | `Spec => KeepsWindowContract` |
| `RetryAfterHonest` | `Spec => []HonestRetryAfter` |
| `SlotsAreHeld` | `Spec => []NoPhantomSlots` |
| `ClosedHolds` | `Spec => []ClosedIsMetered` |

- `BucketInv`: a bucket lives until it would be full, so to forget it changes
  nothing that `Level` sees.
- `WindowInv`: a set outlives each of its members by a window (`WindowKept`),
  and who was let through within the last window is still in it (`PassedKept`).
  The second needs `NumberInv`: no two calls in flight share a number, or ZADD
  would move somebody else's entry.
- `PromiseInv`: as long as nobody overtakes, the promise is never before the
  instant at which the oldest entry leaves or the missing units are back.
- `MeteredInv`: a request carries a decision for every closed policy it has left
  behind.

## 6. `Gateway`: what a client is told

### State and code

| Model | Code |
| --- | --- |
| `world` | rows and keys that exist: the account, a link, what a request creates, the session and the refresh token of the browser, those it is about to get, the session of the administrator; the entries of the user's sessions in `user_sessions:<user>` (`Members`) |
| `cookies` | `refresh_token` and `session_id`, as the browser holds them |
| `req` | the request: handler, position in its steps, answer, failures so far, whether a value did not fit its column (`unfit`), what it has created and removed, which sessions the set did not list when the request purged them (`unlisted`) |
| `excused` | history: what the cookies name was ended otherwise than by a request that clears them and is answered with success |

Every route under `/v1` is a sequence of steps: the checks of the middleware and
the handler, the policies of the rate limiter, and the calls of the service,
each with the things it needs, creates and removes, and with what its caller
does with an error (return it, replace it, ignore it, undo). A store may also say
no to the data alone (`Unfit`): a string too long for its `varchar(255)` (22001),
and an id of the path that PostgreSQL does not take as `uuid.Parse` does (22021,
22P02). All three become an internal error and 500. `UserRoutes` and
`AdminRoutes` put them together as `internal/router/router.go` does.
`HandleDBError`, `HandleRedisError` and `HandleRedisSetNX` turn the errors of the
stores into those of the domain, `UserError` and `LinkError` (the two `httpError`)
those into a status.

`Inspect`, `Meter`, `Perform`, `Lack`, `Refuse`, `Fail` and `Succeed` run a request;
`DeliverPlain`, `DeliverCleared` and `DeliverSet` are the arrival of the answer
with what it does to the cookies, `Lose` is a client or a process that goes away
or an answer that is lost. `Others` removes something at any moment: other
requests, the worker, the end of a key's life. It may remove the entry of a
session from the set and leave the session, as the end of the set's own life does
(`force_logout` of `Sessions` shows how that comes about). `Purge` ends what the
set lists at that moment and no more (session/service.go:264-302), and every refresh
token of the user, which it finds by a sweep. What the stores hold beyond the
existence of a thing is the business of `Shorten` and `Sessions`.

### Runs

| Run | Question | Instance |
| --- | --- | --- |
| `gateway` | do answers, stores and cookies agree on every route, whatever fails or vanishes? `TypeOK`, `AnswersAsDocumented`, `HonestAnswers`, `RefusedChangesNothing`, `SuccessMeansGone`, `CookiesLive` | all 36 handlers and variants, two failures a request; 205,008 states |
| `admin_update` | violation of "PATCH /admin/users/:sub": `AdminMayUpdate` | one failure |

Bounds. One browser and one administrator send one request at a time; others
only remove things. Two failures are enough to lose an operation and what was
to undo it. There is no fairness and no liveness: a client may stop anywhere.

`AnswersAsDocumented` compares with the `@Success` and `@Failure` annotations of
the handlers. A request that its middleware stops is answered by the middleware
(`OfGate`: 429 and 503, 401 where a session is needed, 403 on the routes of
administrators), and by nothing else. A request that comes past it is answered
what the annotation lists or one of the omissions in `Untold`. These are the
handlers' and the services' own answers, and each one contradicts an annotation:

| Route | Answered, and not in its annotation |
| --- | --- |
| `UpdateMyProfile` | 403 (administrators), 404, 409 (address taken) |
| `DeleteMyProfile` | 403 (administrators, user/service.go:161-163), 404 |
| `UpdateUser` | 403 (every caller, see `admin_update`) |
| `DeleteUserProfile` | 403 (the account of an administrator, user/service.go:161-163) |
| `RefreshToken` | 404 (session gone meanwhile), 409 (lock held) |
| `RegisterUser` | 409 |
| `Heartbeat` | 404 |
| `GetActiveSessionsMyProfile`, `GetUsers` | 400, 404 |
| `GetMyShortenByID`, `UpdateMyShorten`, `DeleteMyShorten`, `SetMyShortenStatus`, `UnsetMyShortenStatus` | 400, 403 (not the owner) |
| `GetUserByID`, `LogoutUser`, `CreateShorten`, `GetMyShortens`, `GetUserShortens`, `GetUserShortenByID`, `GetShortensByUserID`, `UpdateUserShorten`, `SetUserShortenStatus`, `UnsetUserShortenStatus`, `DeleteUserShorten` | 400 |

Some annotations never come true: 404 of `RevokeSession` (a session that does
not exist is answered with 200), 500 of `RevokeAllSessions` (errors of the purge
are logged) and 401 of `CreateShorten`.

`HonestAnswers` names where the code is not honest. In one direction (`Concealed`),
a store that fails is told as the client's mistake: 401 of the middleware, which
cannot read the session; 401 "invalid credentials" of `LoginUser`, whatever error
PostgreSQL gave (user/service.go:181-184 and 190-193); 401 of `RefreshToken`, whose
look at the session turns every error into a revoked token; 404 of the lists of
sessions. In the other direction 500 is answered although no store failed: to a
value that does not fit its column, and to a link created for an account that has
just gone. Everywhere else a failure is a 5xx and a 5xx is a failure.

`RefusedChangesNothing` has two exceptions: a logout whose session cookie is no UUID
is answered with 400 after the session of the access token was ended, and a
refresh whose session goes away meanwhile with 404 after its token was spent. Of
a link it sees the row, not the copy and the queue, which are `Shorten`'s.

`SuccessMeansGone` asks of a logout, of one revocation and of a deletion that their
object is gone. Of a purge it asks less, because the code gives less (`Purged`): all
tokens, and the sessions that the set listed when it was read, unless a call of the
purge failed, which is logged and answered with 200 nonetheless. A session the
set has lost may outlive a purge that succeeds.

`CookiesLive` holds up to `excused`: others ended what the cookies name, it expired,
or the browser's own request ended it and was answered with an error, or with
nothing. A lost answer therefore leaves cookies that name nothing; what is checked
is that no answer which arrives does.

### What the run found

- `admin_update`: `UpdateUser` refuses whoever has the role admin
  (user/service.go:92), and the handler passes the role of the caller. The route
  lets only administrators in, so it always answers 403.

### What is proved

For every `MaxFaults`, that is, for requests of which any number of calls fail,
on every route of the router:

| Theorem of `GatewayProofs` | Statement | In words |
| --- | --- | --- |
| `TypeCorrect` | `Spec => []TypeOK` | |
| `DocumentedAnswers` | `Spec => []AnswersAsDocumented` | past the middleware, the annotation or the table above; before it, what the middleware answers |
| `Honesty` | `Spec => []HonestAnswers` | a failure is a 5xx and a 5xx a failure, save for `Concealed`, data that does not fit and the link of a gone account; 404 means missing, save in the lists of sessions |
| `Refusals` | `Spec => []RefusedChangesNothing` | 4xx has changed no row, session or token, save `LogoutUser` 400 and `RefreshToken` 404 |
| `Gone` | `Spec => []SuccessMeansGone` | success means gone; of a purge, all that was listed, unless it ignored a failure |
| `LiveCookies` | `Spec => []CookiesLive` | the cookies name what is stored, unless others ended it, it expired, or an answer was an error or lost |

`RouteProofs` has the part that no state changes. Every route is a gate of
steps that change nothing (`Quiet`) followed by what its service does (`Work`);
`At` is how far a request is in the latter, so an invariant speaks of calls and
not of positions that differ with the checks before them. And every step is `Sound`
where it stands: whichever error it ends in, the two conversions and the mapping
of the handler make of it a status that may be answered there and says what has
happened. `GateFit` and `Fit` say so of the two parts of a route, with statuses of
their own: the middleware's for the gate, the annotation's and `Untold` for the
service. The one route with steps that do not fit is `UpdateUser`,
whose last calls could be answered as nothing documents; the check that refuses
administrators keeps every request away from them, so the invariant has to say
where it stops. Routes that share a service share its lemma.

`GatewayProofs` has the steps of a request:

- `TypeInv` gives the request a record, with a position on its route.
- `AnswerInv`: a request that runs has not been cut short, one that was ended by
  an error has the status that the failing step told (`TrueAnswer`).
- `RefuseInv`: nothing is changed before the second call of the work, and only
  what was there is overwritten before the third; every refusal comes earlier,
  which is how an answer of 4xx comes to mean that nothing happened. The two
  exceptions of `RefusedChangesNothing` are where it fails.
- `DoneInv`, `GoneInv`: success is answered behind the last step only, and what
  is gone follows from how far the work is, although others remove things
  meanwhile and the calls whose errors are ignored may have failed. A purge takes
  what its set lists, so its request remembers what was left out (`unlisted`).
- `HeldInv`, `BornInv`: what the cookies name is stored, or the request has just
  removed it and will clear them or be excused; a login or a refresh that nothing
  disturbed has stored the keys before its answer brings the cookies. The first
  needs the second when `DeliverSet` makes the new keys the browser's.

The proof corrected the model once: two arms of the CASE in `Lack` overlapped,
and TLC had taken the first without a word.

## 7. Out of the prover's reach, and not modelled

Every invariant and every action property of the passing runs is proved. What
stays with TLC is liveness under fairness, `ExpiredIsDeactivated` and
`OrphanVanishes`, and the violations, which are traces.

Not modelled: configuration, connections, migration and seeding (set-up, before
the first request); JSON, validators' rules and messages (a check with a free
outcome in `Gateway`); `handlePQError` (for a driver the program does not use);
hashes and signatures; which rows a page of a listing holds; the generated
Swagger code in `docs/`, which is nearly a third of the lines of the repository
and has no behaviour.
