---------------------------- MODULE ShortenProofs ----------------------------
(***************************************************************************)
(* What holds of Shorten for every value of its constants: any number of   *)
(* links, codes (shared by several links or not), accounts, goroutines and *)
(* workers, any clock, with every failure the module allows.               *)
(***************************************************************************)
EXTENDS Shorten, TLAPS

(* The types of the stores, of the requests and of the workers, with what  *)
(* a request in flight has in hand at each stage.                          *)
StoreType ==
  /\ rows \in [Links -> Rows \cup {NoRow}]
  /\ issued \subseteq Links
  /\ cache \in [Codes -> Entries \cup {NoEntry}]
  /\ queue \in [Codes -> Nat \cup {NoScore}]
  /\ accounts \subseteq Accounts
  /\ now \in Nat
  /\ grants \in [Codes -> SUBSET Instants]

RequestType ==
  /\ stage \in [Procs -> Stages]
  /\ req \in [Procs -> Requests \cup {NoRequest}]
  /\ seen \in [Procs -> Rows \cup {NoRow}]
  /\ \A p \in Procs :
       /\ stage[p] = "idle" => seen[p] = NoRow
       /\ stage[p] # "idle" => req[p] \in Requests
       /\ stage[p] \in {"set", "schedule"} => seen[p] \in Rows
       /\ stage[p] = "insert" => req[p].url \in Urls /\ req[p].exp \in Instants

WorkerType ==
  /\ batch \in [Workers -> SUBSET Codes]
  /\ wstage \in [Workers -> WorkerStages]
  /\ held \in [Workers -> Codes \cup {NoCode}]
  /\ \A w \in Workers : wstage[w] # "ready" => held[w] \in Codes

TypeInv == StoreType /\ RequestType /\ WorkerType

(* Every expiry that a row, a request or a cached copy holds was given to  *)
(* the code, and no copy lives past its own.                               *)
LifeOf(entry, t) ==
  IF entry.left = Never THEN entry.exp = Never
  ELSE entry.exp # Never /\ (entry.left <= Second \/ t + entry.left <= entry.exp)

RowsGranted == \A l \in Links : rows[l] # NoRow => rows[l].exp \in grants[CodeOf[l]]
SeenGranted == \A p \in Procs : seen[p] # NoRow => seen[p].exp \in grants[Code(p)]
CacheGranted == \A c \in Codes : cache[c] # NoEntry =>
                                  cache[c].exp \in grants[c] /\ LifeOf(cache[c], now)
GrantInv == RowsGranted /\ SeenGranted /\ CacheGranted

-----------------------------------------------------------------------------
(* Operators *)

(* The seconds of an instant are a natural number.                         *)
LEMMA UnixType == ASSUME NEW t \in Nat PROVE Unix(t) \in Nat
  BY BoundAssumption DEF Unix

(* A row turns into a cached copy of the right type, which holds the       *)
(* expiry of the row and does not live past it.                            *)
LEMMA CacheEntityType ==
  ASSUME NEW row \in Rows, now \in Nat
  PROVE /\ CacheEntity(row) \in Entries
        /\ CacheEntity(row).exp = row.exp
        /\ LifeOf(CacheEntity(row), now)
  BY BoundAssumption, NullAssumption
  DEF CacheEntity, TTL, Entries, Rows, Instants, LifeOf

(* An update or a change of status yields a row, of the same owner.        *)
LEMMA PatchedType ==
  ASSUME NEW row \in Rows, NEW r \in Requests
  PROVE Patched(row, r) \in Rows /\ Patched(row, r).owner = row.owner
  BY DEF Patched, Rows, Requests, Instants, Ops

(* A request in flight names a link and through it a code.                 *)
LEMMA InFlight ==
  ASSUME RequestType, NEW p \in Procs, stage[p] # "idle"
  PROVE /\ req[p] \in Requests
        /\ req[p].link \in Links
        /\ Code(p) \in Codes
  BY DomainAssumption DEF RequestType, Requests, Code

(* The three ways a request goes on keep the types of the requests.        *)
LEMMA FinishType ==
  ASSUME RequestType, NEW p \in Procs, Finish(p)
  PROVE RequestType'
  BY DEF RequestType, Finish, Stages

LEMMA ProceedType ==
  ASSUME RequestType, NEW p \in Procs, NEW s \in Stages \ {"idle", "insert"},
         Proceed(p, s), stage[p] # "idle",
         s \in {"set", "schedule"} => seen[p] \in Rows
  PROVE RequestType'
  BY DEF RequestType, Proceed, Stages

LEMMA ReadType ==
  ASSUME RequestType, NEW p \in Procs, NEW s \in Stages \ {"idle", "insert"},
         NEW row \in Rows, Read(p, row, s), stage[p] # "idle"
  PROVE RequestType'
  BY DEF RequestType, Read, Stages

-----------------------------------------------------------------------------
(* Types *)

LEMMA TypeInit == Init => TypeInv
  BY DomainAssumption, NullAssumption
  DEF Init, TypeInv, StoreType, RequestType, WorkerType, Stages, WorkerStages

LEMMA TypeReceive ==
  ASSUME TypeInv, NEW p \in Procs, NEW r \in Asked, Receive(p, r)
  PROVE TypeInv'
<1>1. now + PublicTTL \in Nat /\ Expiries \subseteq Nat
  BY DomainAssumption, BoundAssumption DEF TypeInv, StoreType
<1>2. r \in Requests
  BY <1>1 DEF Asked, Requests, Instants
<1>3. r.op = "create" => r.url \in Urls /\ r.exp \in Instants
  BY <1>1, <1>2 DEF Receive, WellFormed, Requests, Instants
<1>4. /\ FirstStage(r.op) \in Stages \ {"idle", "set", "schedule"}
      /\ FirstStage(r.op) = "insert" => r.op = "create"
  BY DEF FirstStage, Stages
<1>5. r.link \in Links
  BY <1>2 DEF Requests
<1>6. RequestType'
  BY <1>2, <1>3, <1>4 DEF Receive, TypeInv, RequestType
<1>7. StoreType' /\ WorkerType'
  BY <1>5 DEF Receive, TypeInv, StoreType, WorkerType, workerVars
<1>. QED
  BY <1>6, <1>7 DEF TypeInv

LEMMA TypeInsert ==
  ASSUME TypeInv, NEW p \in Procs, Insert(p)
  PROVE TypeInv'
<1>. DEFINE row == [owner |-> req[p].who, url |-> req[p].url,
                    exp |-> req[p].exp, active |-> TRUE]
<1>1. row \in Rows /\ req[p].exp \in Instants
  BY DEF Insert, TypeInv, RequestType, Requests, Rows
<1>2. req[p].link \in Links /\ Code(p) \in Codes
  BY InFlight DEF Insert, TypeInv
<1>. HIDE DEF row
<1>3. CASE req[p].who \in accounts \cup {Nobody}
  <2>1. /\ rows' = [rows EXCEPT ![req[p].link] = row]
        /\ grants' = [grants EXCEPT ![Code(p)] = @ \cup {req[p].exp}]
        /\ Read(p, row, "set") /\ stage[p] = "insert"
    BY <1>3 DEF Insert, row
  <2>2. RequestType'
    BY <1>1, <2>1, ReadType DEF TypeInv, Stages
  <2>3. StoreType'
    BY <1>1, <1>2, <2>1 DEF Insert, TypeInv, StoreType
  <2>. QED BY <2>2, <2>3 DEF Insert, TypeInv, WorkerType, workerVars
<1>4. CASE req[p].who \notin accounts \cup {Nobody}
  BY <1>4, FinishType DEF Insert, TypeInv, StoreType, WorkerType, workerVars
<1>. QED BY <1>3, <1>4
(* A request that reads a row, and goes on or ends, changes no store.      *)
LEMMA TypeCheck ==
  ASSUME TypeInv, NEW p \in Procs, Check(p)
  PROVE TypeInv'
<1>1. StoreType' /\ WorkerType'
  BY DEF Check, TypeInv, StoreType, WorkerType, dbVars, workerVars
<1>2. req[p].link \in Links
  BY InFlight DEF Check, TypeInv
<1>3. CASE rows[req[p].link] # NoRow /\ MayTouch(req[p].who, rows[req[p].link])
  <2>1. rows[req[p].link] \in Rows
    BY <1>2, <1>3 DEF TypeInv, StoreType
  <2>. QED
    BY <1>1, <1>3, <2>1, ReadType DEF Check, TypeInv, Stages
<1>4. CASE ~(rows[req[p].link] # NoRow /\ MayTouch(req[p].who, rows[req[p].link]))
  BY <1>1, <1>4, FinishType DEF Check, TypeInv
<1>. QED BY <1>3, <1>4

LEMMA TypeWrite ==
  ASSUME TypeInv, NEW p \in Procs, Write(p)
  PROVE TypeInv'
<1>1. WorkerType'
  BY DEF Write, TypeInv, WorkerType, workerVars
<1>2. req[p] \in Requests /\ req[p].link \in Links /\ Code(p) \in Codes
  BY InFlight DEF Write, TypeInv
<1>3. CASE rows[req[p].link] # NoRow
  <2>. DEFINE row == Patched(rows[req[p].link], req[p])
  <2>1. row \in Rows
    BY <1>2, <1>3, PatchedType DEF TypeInv, StoreType
  <2>2. row.exp \in Instants
    BY <2>1 DEF Rows
  <2>3. /\ rows' = [rows EXCEPT ![req[p].link] = row]
        /\ grants' = [grants EXCEPT ![Code(p)] = @ \cup {row.exp}]
        /\ Proceed(p, "reread") /\ stage[p] = "write"
    BY <1>3 DEF Write
  <2>. HIDE DEF row
  <2>4. StoreType'
    BY <1>2, <2>1, <2>2, <2>3 DEF Write, TypeInv, StoreType
  <2>5. RequestType'
    BY <2>3, ProceedType DEF TypeInv, Stages
  <2>. QED BY <1>1, <2>4, <2>5 DEF TypeInv
<1>4. CASE rows[req[p].link] = NoRow
  BY <1>1, <1>4, FinishType DEF Write, TypeInv, StoreType
<1>. QED BY <1>3, <1>4

LEMMA TypeReread ==
  ASSUME TypeInv, NEW p \in Procs, Reread(p)
  PROVE TypeInv'
<1>1. StoreType' /\ WorkerType'
  BY DEF Reread, TypeInv, StoreType, WorkerType, dbVars, workerVars
<1>2. req[p].link \in Links
  BY InFlight DEF Reread, TypeInv
<1>3. CASE rows[req[p].link] # NoRow
  <2>1. rows[req[p].link] \in Rows
    BY <1>2, <1>3 DEF TypeInv, StoreType
  <2>. QED
    BY <1>1, <1>3, <2>1, ReadType DEF Reread, TypeInv, Stages
<1>4. CASE rows[req[p].link] = NoRow
  BY <1>1, <1>4, FinishType DEF Reread, TypeInv
<1>. QED BY <1>3, <1>4

LEMMA TypeCacheShorten ==
  ASSUME TypeInv, NEW p \in Procs, CacheShorten(p)
  PROVE TypeInv'
<1>1. Code(p) \in Codes /\ seen[p] \in Rows
  BY InFlight DEF CacheShorten, TypeInv, RequestType
<1>2. CacheEntity(seen[p]) \in Entries
  BY <1>1, CacheEntityType DEF TypeInv, StoreType
<1>3. StoreType' /\ WorkerType'
  BY <1>1, <1>2 DEF CacheShorten, TypeInv, StoreType, WorkerType, dbVars, workerVars
<1>4. RequestType'
  BY <1>1, FinishType, ProceedType DEF CacheShorten, TypeInv, Stages
<1>. QED BY <1>3, <1>4 DEF TypeInv

LEMMA TypeScheduleExpiry ==
  ASSUME TypeInv, NEW p \in Procs, ScheduleExpiry(p)
  PROVE TypeInv'
<1>1. Code(p) \in Codes /\ seen[p].exp \in Instants
  BY InFlight DEF ScheduleExpiry, TypeInv, RequestType, Rows
<1>2. (IF seen[p].exp = Never THEN NoScore ELSE Unix(seen[p].exp)) \in Nat \cup {NoScore}
  BY <1>1, UnixType DEF Instants
<1>3. StoreType' /\ WorkerType'
  BY <1>1, <1>2 DEF ScheduleExpiry, TypeInv, StoreType, WorkerType, dbVars, workerVars
<1>. QED BY <1>3, FinishType DEF ScheduleExpiry, TypeInv

LEMMA TypeDropCache ==
  ASSUME TypeInv, NEW p \in Procs, DropCache(p)
  PROVE TypeInv'
<1>1. StoreType' /\ WorkerType'
  BY InFlight DEF DropCache, Unchecked, TypeInv, StoreType, WorkerType, dbVars, workerVars
<1>2. RequestType'
  BY FinishType, ProceedType DEF DropCache, TypeInv, Stages
<1>. QED BY <1>1, <1>2 DEF TypeInv

LEMMA TypeUnschedule ==
  ASSUME TypeInv, NEW p \in Procs, Unschedule(p)
  PROVE TypeInv'
<1>1. StoreType' /\ WorkerType'
  BY InFlight DEF Unschedule, Unchecked, TypeInv, StoreType, WorkerType, dbVars, workerVars
<1>2. RequestType'
  BY FinishType, ProceedType DEF Unschedule, TypeInv, Stages
<1>. QED BY <1>1, <1>2 DEF TypeInv

LEMMA TypeRemove ==
  ASSUME TypeInv, NEW p \in Procs, Remove(p)
  PROVE TypeInv'
<1>1. StoreType' /\ WorkerType'
  BY InFlight DEF Remove, TypeInv, StoreType, WorkerType, workerVars
<1>. QED BY <1>1, FinishType DEF Remove, TypeInv

(* A redirect changes no store but through CacheShorten and DropCache.     *)
LEMMA TypeRedirect ==
  ASSUME TypeInv, NEW p \in Procs,
         ServeCached(p) \/ LookupOther(p) \/ FetchServed(p) \/ FetchNotFound(p)
  PROVE TypeInv'
<1>1. StoreType' /\ WorkerType'
  BY DEF ServeCached, LookupOther, FetchServed, FetchNotFound,
         TypeInv, StoreType, WorkerType, dbVars, workerVars
<1>2. CASE ServeCached(p) \/ FetchNotFound(p)
  BY <1>1, <1>2, FinishType DEF ServeCached, FetchNotFound, TypeInv
<1>3. CASE LookupOther(p)
  BY <1>1, <1>3, ProceedType DEF LookupOther, TypeInv, Stages
<1>4. CASE FetchServed(p)
  <2>1. PICK l \in Links : IsFirstWithCode(l, Code(p)) /\ Read(p, rows[l], "set")
    BY <1>4 DEF FetchServed
  <2>2. rows[l] \in Rows
    BY <2>1 DEF IsFirstWithCode, WithCode, TypeInv, StoreType
  <2>. QED
    BY <1>1, <1>4, <2>1, <2>2, ReadType DEF FetchServed, TypeInv, Stages
<1>. QED BY <1>2, <1>3, <1>4

LEMMA TypeAbort ==
  ASSUME TypeInv, NEW p \in Procs, Abort(p)
  PROVE TypeInv'
  BY FinishType DEF Abort, TypeInv, StoreType, WorkerType, dbVars, workerVars

LEMMA TypeWorker ==
  ASSUME TypeInv, NEW w \in Workers, Work(w) \/ WorkerStops(w)
  PROVE TypeInv'
<1>1. CASE Scan(w)
  BY <1>1 DEF Scan, Lowest, Due, TypeInv, StoreType, RequestType, WorkerType,
              dbVars, requestVars
<1>2. ASSUME NEW c \in Codes, Claim(w, c) PROVE TypeInv'
  BY <1>2 DEF Claim, TypeInv, StoreType, RequestType, WorkerType, WorkerStages,
              dbVars, requestVars
<1>3. CASE Deactivate(w)
  <2>1. \A l \in Links : rows[l] \in Rows => [rows[l] EXCEPT !.active = FALSE] \in Rows
    BY DEF Rows
  <2>2. rows' \in [Links -> Rows \cup {NoRow}]
    BY <1>3, <2>1 DEF Deactivate, Unchecked, WithCode, TypeInv, StoreType
  <2>. QED
    BY <1>3, <2>2 DEF Deactivate, TypeInv, StoreType, RequestType, WorkerType,
                      WorkerStages, requestVars
<1>4. CASE ClearCache(w)
  BY <1>4 DEF ClearCache, Unchecked, TypeInv, StoreType, RequestType, WorkerType,
              WorkerStages, dbVars, requestVars
<1>5. CASE WorkerStops(w)
  BY <1>5 DEF WorkerStops, TypeInv, StoreType, RequestType, WorkerType,
              WorkerStages, dbVars, requestVars
<1>. QED BY <1>1, <1>2, <1>3, <1>4, <1>5 DEF Work

LEMMA TypeEnvironment ==
  ASSUME TypeInv, Tick \/ \E u \in Leavers : DeleteUser(u)
  PROVE TypeInv'
<1>1. CASE Tick
  <2>1. \A c \in Codes :
          cache[c] # NoEntry /\ cache[c].left # Never /\ ~(cache[c].left <= 1) =>
            [cache[c] EXCEPT !.left = @ - 1] \in Entries
    BY DEF TypeInv, StoreType, Entries, Instants
  <2>2. cache' \in [Codes -> Entries \cup {NoEntry}]
    BY <1>1, <2>1 DEF Tick, TypeInv, StoreType
  <2>. QED
    BY <1>1, <2>2 DEF Tick, TypeInv, StoreType, RequestType, WorkerType,
                      dbVars, requestVars, workerVars
<1>2. ASSUME NEW u \in Leavers, DeleteUser(u) PROVE TypeInv'
  BY <1>2 DEF DeleteUser, TypeInv, StoreType, RequestType, WorkerType,
              requestVars, workerVars
<1>. QED BY <1>1, <1>2

LEMMA TypeStep == TypeInv /\ [Next]_vars => TypeInv'
<1>. SUFFICES ASSUME TypeInv, [Next]_vars PROVE TypeInv'
  OBVIOUS
<1>1. ASSUME NEW p \in Procs, Handle(p) PROVE TypeInv'
  BY <1>1, TypeInsert, TypeCheck, TypeWrite, TypeReread, TypeCacheShorten,
     TypeScheduleExpiry, TypeDropCache, TypeUnschedule, TypeRemove, TypeRedirect
  DEF Handle
<1>2. CASE UNCHANGED vars
  BY <1>2 DEF vars, TypeInv, StoreType, RequestType, WorkerType
<1>. QED
  BY <1>1, <1>2, TypeReceive, TypeAbort, TypeWorker, TypeEnvironment DEF Next

(* Every variable keeps its type, whatever fails and whatever overlaps.    *)
THEOREM TypeCorrect == Spec => []TypeOK
<1>1. TypeInv => TypeOK
  BY DEF TypeInv, StoreType, RequestType, WorkerType, TypeOK
<1>. QED BY <1>1, TypeInit, TypeStep, PTL DEF Spec
-----------------------------------------------------------------------------
(* Expiries that were granted *)

LEMMA GrantInit == Init => GrantInv
  BY DEF Init, GrantInv, RowsGranted, SeenGranted, CacheGranted

(* The three ways a request goes on keep what is known of the rows read.   *)
LEMMA FinishGrant ==
  ASSUME TypeInv, SeenGranted, NEW p \in Procs, Finish(p),
         \A c \in Codes : grants[c] \subseteq grants'[c]
  PROVE SeenGranted'
<1>1. \A q \in Procs : q # p => req'[q] = req[q] /\ seen'[q] = seen[q]
  BY DEF Finish, TypeInv, RequestType
<1>2. seen'[p] = NoRow
  BY DEF Finish, TypeInv, RequestType
<1>3. \A q \in Procs : seen[q] # NoRow => Code(q) \in Codes
  BY InFlight DEF TypeInv, RequestType
<1>. QED BY <1>1, <1>2, <1>3 DEF SeenGranted, Code

LEMMA ProceedGrant ==
  ASSUME TypeInv, SeenGranted, NEW p \in Procs, NEW s, Proceed(p, s),
         \A c \in Codes : grants[c] \subseteq grants'[c]
  PROVE SeenGranted'
<1>1. \A q \in Procs : seen[q] # NoRow => Code(q) \in Codes
  BY InFlight DEF TypeInv, RequestType
<1>. QED BY <1>1 DEF Proceed, SeenGranted, Code

LEMMA ReadGrant ==
  ASSUME TypeInv, SeenGranted, NEW p \in Procs, NEW s, NEW row, Read(p, row, s),
         \A c \in Codes : grants[c] \subseteq grants'[c],
         row.exp \in grants'[Code(p)]
  PROVE SeenGranted'
<1>1. \A q \in Procs : seen[q] # NoRow => Code(q) \in Codes
  BY InFlight DEF TypeInv, RequestType
<1>2. seen'[p] = row /\ \A q \in Procs : q # p => seen'[q] = seen[q]
  BY DEF Read, TypeInv, RequestType
<1>. QED BY <1>1, <1>2 DEF Read, SeenGranted, Code

(* A request in flight that changes rows and grants.                       *)
LEMMA GrantRows ==
  ASSUME TypeInv, GrantInv, NEW p \in Procs, Insert(p) \/ Write(p) \/ Remove(p)
  PROVE GrantInv'
<1>1. req[p].link \in Links /\ Code(p) = CodeOf[req[p].link] /\ Code(p) \in Codes
  BY InFlight DEF Insert, Write, Remove, TypeInv, Code
<1>2. \A c \in Codes : grants[c] \subseteq grants'[c]
  BY <1>1 DEF Insert, Write, Remove, TypeInv, StoreType
<1>3. \A l \in Links : CodeOf[l] \in Codes
  BY DomainAssumption
<1>4. CacheGranted'
  BY <1>2 DEF GrantInv, Insert, Write, Remove, CacheGranted
<1>5. ASSUME Insert(p) PROVE RowsGranted' /\ SeenGranted'
  <2>. DEFINE row == [owner |-> req[p].who, url |-> req[p].url,
                      exp |-> req[p].exp, active |-> TRUE]
  <2>1. row.exp = req[p].exp
    OBVIOUS
  <2>. HIDE DEF row
  <2>2. CASE req[p].who \in accounts \cup {Nobody}
    <3>1. /\ rows' = [rows EXCEPT ![req[p].link] = row]
          /\ grants' = [grants EXCEPT ![Code(p)] = @ \cup {req[p].exp}]
          /\ Read(p, row, "set")
      BY <1>5, <2>2 DEF Insert, row
    <3>2. row.exp \in grants'[Code(p)]
      BY <1>1, <2>1, <3>1 DEF TypeInv, StoreType
    <3>3. RowsGranted'
      BY <1>1, <1>2, <1>3, <3>1, <3>2 DEF GrantInv, RowsGranted, TypeInv, StoreType
    <3>. QED BY <1>2, <3>1, <3>2, <3>3, ReadGrant DEF GrantInv
  <2>3. CASE req[p].who \notin accounts \cup {Nobody}
    BY <1>2, <1>5, <2>3, FinishGrant DEF GrantInv, Insert, RowsGranted
  <2>. QED BY <2>2, <2>3
<1>6. ASSUME Write(p) PROVE RowsGranted' /\ SeenGranted'
  <2>. DEFINE row == Patched(rows[req[p].link], req[p])
  <2>1. CASE rows[req[p].link] # NoRow
    <3>1. /\ rows' = [rows EXCEPT ![req[p].link] = row]
          /\ grants' = [grants EXCEPT ![Code(p)] = @ \cup {row.exp}]
          /\ Proceed(p, "reread")
      BY <1>6, <2>1 DEF Write
    <3>. HIDE DEF row
    <3>2. RowsGranted'
      BY <1>1, <1>2, <1>3, <3>1 DEF GrantInv, RowsGranted, TypeInv, StoreType
    <3>. QED BY <1>2, <3>1, <3>2, ProceedGrant DEF GrantInv
  <2>2. CASE rows[req[p].link] = NoRow
    BY <1>2, <1>6, <2>2, FinishGrant DEF GrantInv, Write, RowsGranted
  <2>. QED BY <2>1, <2>2
<1>7. ASSUME Remove(p) PROVE RowsGranted' /\ SeenGranted'
  BY <1>1, <1>2, <1>7, FinishGrant DEF GrantInv, Remove, RowsGranted, TypeInv, StoreType
<1>. QED BY <1>4, <1>5, <1>6, <1>7 DEF GrantInv

(* A request that reads a row and keeps it.                                *)
LEMMA GrantReads ==
  ASSUME TypeInv, GrantInv, NEW p \in Procs,
         Check(p) \/ Reread(p) \/ FetchServed(p)
  PROVE GrantInv'
<1>1. req[p].link \in Links /\ Code(p) = CodeOf[req[p].link] /\ Code(p) \in Codes
  BY InFlight DEF Check, Reread, FetchServed, TypeInv, Code
<1>2. RowsGranted' /\ CacheGranted'
  BY DEF GrantInv, Check, Reread, FetchServed, dbVars, RowsGranted, CacheGranted
<1>3. \A c \in Codes : grants[c] \subseteq grants'[c]
  BY DEF Check, Reread, FetchServed, dbVars
<1>4. Finish(p) \/ \E l \in Links, s \in Stages : /\ CodeOf[l] = Code(p)
                                                /\ rows[l] # NoRow
                                                /\ Read(p, rows[l], s)
  BY <1>1 DEF Check, Reread, FetchServed, IsFirstWithCode, WithCode, Stages
<1>5. ASSUME NEW l \in Links, NEW s \in Stages, CodeOf[l] = Code(p),
             rows[l] # NoRow, Read(p, rows[l], s)
      PROVE SeenGranted'
  <2>1. rows[l].exp \in grants'[Code(p)]
    BY <1>1, <1>3, <1>5 DEF GrantInv, RowsGranted
  <2>. QED BY <1>3, <1>5, <2>1, ReadGrant DEF GrantInv
<1>. QED BY <1>2, <1>3, <1>4, <1>5, FinishGrant DEF GrantInv

LEMMA GrantCacheShorten ==
  ASSUME TypeInv, GrantInv, NEW p \in Procs, CacheShorten(p)
  PROVE GrantInv'
<1>1. Code(p) \in Codes /\ seen[p] \in Rows
  BY InFlight DEF CacheShorten, TypeInv, RequestType
<1>2. /\ CacheEntity(seen[p]).exp = seen[p].exp
      /\ LifeOf(CacheEntity(seen[p]), now)
  BY <1>1, CacheEntityType DEF TypeInv, StoreType
<1>3. seen[p].exp \in grants[Code(p)]
  BY <1>1, AbsenceAssumption DEF GrantInv, SeenGranted
<1>4. /\ cache' = [cache EXCEPT ![Code(p)] = CacheEntity(seen[p])]
      /\ grants' = grants /\ now' = now /\ rows' = rows
      /\ Finish(p) \/ Proceed(p, "schedule")
  BY DEF CacheShorten, dbVars
<1>5. CacheGranted'
  BY <1>1, <1>2, <1>3, <1>4 DEF GrantInv, CacheGranted, TypeInv, StoreType
<1>. QED
  BY <1>4, <1>5, FinishGrant, ProceedGrant DEF GrantInv, RowsGranted

(* A request that ends, or goes on with what it has, and at most drops a   *)
(* cached copy.                                                            *)
LEMMA GrantOther ==
  ASSUME TypeInv, GrantInv, NEW p \in Procs,
         \/ ScheduleExpiry(p) \/ DropCache(p) \/ Unschedule(p)
         \/ ServeCached(p) \/ LookupOther(p) \/ FetchNotFound(p) \/ Abort(p)
  PROVE GrantInv'
<1>1. /\ cache' \in {cache, [cache EXCEPT ![Code(p)] = NoEntry]}
      /\ grants' = grants /\ now' = now /\ rows' = rows
      /\ Finish(p) \/ \E s \in Stages : Proceed(p, s)
  BY DEF ScheduleExpiry, DropCache, Unschedule, ServeCached, LookupOther,
         FetchNotFound, Abort, Unchecked, dbVars, Stages
<1>2. CacheGranted'
  BY <1>1 DEF GrantInv, CacheGranted, TypeInv, StoreType
<1>. QED
  BY <1>1, <1>2, FinishGrant, ProceedGrant DEF GrantInv, RowsGranted

LEMMA GrantReceive ==
  ASSUME TypeInv, GrantInv, NEW p \in Procs, NEW r \in Asked, Receive(p, r)
  PROVE GrantInv'
<1>1. seen[p] = NoRow /\ \A q \in Procs : q # p => req'[q] = req[q]
  BY DEF Receive, TypeInv, RequestType
<1>. QED BY <1>1 DEF Receive, GrantInv, RowsGranted, SeenGranted, CacheGranted, Code, TypeInv, RequestType

LEMMA GrantWorker ==
  ASSUME TypeInv, GrantInv, NEW w \in Workers, Work(w) \/ WorkerStops(w)
  PROVE GrantInv'
<1>1. /\ cache' \in {cache, [cache EXCEPT ![held[w]] = NoEntry]}
      /\ grants' = grants /\ now' = now /\ req' = req /\ seen' = seen
  BY DEF Work, Scan, Claim, Deactivate, ClearCache, WorkerStops, Unchecked,
         dbVars, requestVars
<1>2. \A l \in Links : /\ rows'[l] # NoRow => rows[l] # NoRow
                       /\ rows'[l] # NoRow => rows'[l].exp = rows[l].exp
  <2>1. CASE Deactivate(w)
    <3>1. \A l \in Links : rows[l] \in Rows =>
            [rows[l] EXCEPT !.active = FALSE].exp = rows[l].exp
      BY DEF Rows
    <3>. QED BY <2>1, <3>1 DEF Deactivate, Unchecked, WithCode, TypeInv, StoreType
  <2>2. CASE rows' = rows
    BY <2>2
  <2>. QED
    BY <2>1, <2>2 DEF Work, Scan, Claim, ClearCache, WorkerStops, dbVars
<1>3. CacheGranted'
  BY <1>1 DEF GrantInv, CacheGranted, TypeInv, StoreType
<1>. QED
  BY <1>1, <1>2, <1>3 DEF GrantInv, RowsGranted, SeenGranted, Code

LEMMA GrantEnvironment ==
  ASSUME TypeInv, GrantInv, Tick \/ \E u \in Leavers : DeleteUser(u)
  PROVE GrantInv'
<1>1. CASE Tick
  <2>1. RowsGranted' /\ SeenGranted'
    BY <1>1 DEF GrantInv, Tick, RowsGranted, SeenGranted, Code, dbVars, requestVars
  <2>2. ASSUME NEW c \in Codes, cache'[c] # NoEntry
        PROVE cache'[c].exp \in grants'[c] /\ LifeOf(cache'[c], now')
    <3>1. /\ cache[c] \in Entries
          /\ cache[c].exp \in grants[c] /\ LifeOf(cache[c], now)
      BY <1>1, <2>2 DEF Tick, TypeInv, StoreType, GrantInv, CacheGranted
    <3>2. CASE cache[c].left = Never
      BY <1>1, <2>2, <3>1, <3>2 DEF Tick, LifeOf, dbVars
    <3>3. CASE cache[c].left # Never
      <4>1. /\ cache'[c] = [cache[c] EXCEPT !.left = @ - 1]
            /\ grants' = grants
        BY <1>1, <2>2, <3>1, <3>3, AbsenceAssumption DEF Tick, dbVars
      <4>2. /\ cache'[c].left = cache[c].left - 1
            /\ cache'[c].exp = cache[c].exp
            /\ cache[c].left \in Nat /\ cache[c].exp \in Instants
        BY <3>1, <3>3, <4>1 DEF Entries, Instants
      <4>3. now' \in {now, now + 1} /\ now \in Nat
        BY <1>1 DEF Tick, TypeInv, StoreType
      <4>4. ~(cache[c].left <= 1)
        BY <1>1, <2>2, <3>1, <3>3, AbsenceAssumption DEF Tick
      <4>5. Second \in Nat /\ cache[c].left - 1 # Never
        BY <4>2, <4>4, BoundAssumption, NullAssumption
      <4>6. LifeOf(cache'[c], now')
        BY <3>1, <3>3, <4>2, <4>3, <4>5 DEF LifeOf, Instants
      <4>. QED BY <3>1, <4>1, <4>2, <4>6
    <3>. QED BY <3>2, <3>3
  <2>. QED BY <2>1, <2>2 DEF GrantInv, CacheGranted
<1>2. ASSUME NEW u \in Leavers, DeleteUser(u) PROVE GrantInv'
  BY <1>2 DEF DeleteUser, GrantInv, RowsGranted, SeenGranted, CacheGranted, Code, requestVars, TypeInv, StoreType
<1>. QED BY <1>1, <1>2

LEMMA GrantStep == TypeInv /\ GrantInv /\ [Next]_vars => GrantInv'
<1>. SUFFICES ASSUME TypeInv, GrantInv, [Next]_vars PROVE GrantInv'
  OBVIOUS
<1>1. ASSUME NEW p \in Procs, Handle(p) PROVE GrantInv'
  BY <1>1, GrantRows, GrantReads, GrantCacheShorten, GrantOther DEF Handle
<1>2. CASE UNCHANGED vars
  BY <1>2 DEF vars, GrantInv, RowsGranted, SeenGranted, CacheGranted, Code
<1>. QED
  BY <1>1, <1>2, GrantReceive, GrantOther, GrantWorker, GrantEnvironment DEF Next

LEMMA Invariance == Spec => [](TypeInv /\ GrantInv)
  BY TypeInit, TypeStep, GrantInit, GrantStep, PTL DEF Spec

(* Redis drops every cached copy by the last expiry that was ever given to *)
(* its code, or a second from now; only a code that once never expired is  *)
(* cached without a TTL.                                                   *)
THEOREM CopiesAreMortal == Spec => []CacheMortal
<1>1. TypeInv /\ GrantInv => CacheMortal
  <2>. SUFFICES ASSUME TypeInv, GrantInv, NEW c \in Codes, cache[c] # NoEntry
                PROVE \E e \in grants[c] :
                        IF cache[c].left = Never THEN e = Never
                        ELSE /\ e # Never
                             /\ (cache[c].left <= Second \/ now + cache[c].left <= e)
    BY DEF CacheMortal
  <2>1. cache[c].exp \in grants[c] /\ LifeOf(cache[c], now)
    BY DEF GrantInv, CacheGranted
  <2>. QED BY <2>1 DEF LifeOf
<1>. QED BY <1>1, Invariance, PTL

(* No redirect is answered from the cache after the last expiry that was   *)
(* ever given to a link of its code.                                       *)
THEOREM NothingServedPastItsGrants == Spec => ServedWithinGrant
<1>1. TypeInv /\ GrantInv /\ [Next]_vars =>
        [\A p \in Procs : ServeCached(p) => Granted(Code(p), now)]_vars
  <2>. SUFFICES ASSUME TypeInv, GrantInv, NEW p \in Procs, ServeCached(p)
                PROVE Granted(Code(p), now)
    OBVIOUS
  <2>1. /\ Code(p) \in Codes /\ cache[Code(p)] # NoEntry
        /\ ~Expired(cache[Code(p)].exp)
    BY InFlight DEF ServeCached, ShouldServe, TypeInv
  <2>2. cache[Code(p)] \in Entries /\ cache[Code(p)].exp \in grants[Code(p)]
    BY <2>1 DEF TypeInv, StoreType, GrantInv, CacheGranted
  <2>3. cache[Code(p)].exp = Never \/ now <= cache[Code(p)].exp
    BY <2>1, <2>2 DEF Expired, Entries, Instants, TypeInv, StoreType
  <2>. QED BY <2>2, <2>3 DEF Granted
<1>. QED BY <1>1, Invariance, PTL DEF Spec, ServedWithinGrant
-----------------------------------------------------------------------------
(* Who may change a row *)

(* A request whose caller was compared with the owner of its row, and that *)
(* will go on to write or remove the row.                                  *)
Cleared(p) == \/ stage[p] = "write"
              \/ stage[p] \in {"drop", "unschedule", "remove"} /\ req[p].op = "delete"

(* The operation of a request follows from its stage, ...                  *)
OpInv ==
  \A p \in Procs :
    /\ stage[p] \in {"write", "reread"} => req[p].op \in {"update", "status"}
    /\ stage[p] = "remove" => req[p].op = "delete"
    /\ stage[p] \in {"lookup", "fetch"} => req[p].op = "redirect"
    /\ stage[p] = "check" => req[p].op \in {"update", "status", "delete"}
    /\ stage[p] \in {"check", "write", "remove"} => req[p].who \in Accounts
    /\ stage[p] # "idle" /\ req[p].op = "delete" => req[p].who \in Accounts

(* ... a key is drawn once, so that no request was cleared for a row that  *)
(* is still to be inserted, ...                                            *)
KeyInv ==
  /\ \A l \in Links : rows[l] # NoRow => l \in issued
  /\ \A p \in Procs : Cleared(p) => req[p].link \in issued
  /\ \A q \in Procs : stage[q] = "insert" =>
       /\ req[q].link \in issued
       /\ rows[req[q].link] = NoRow
       /\ \A p \in Procs \ {q} :
            Cleared(p) \/ stage[p] = "insert" => req[p].link # req[q].link

(* ... and what the comparison found still holds when the row is written.  *)
OwnerInv ==
  \A p \in Procs : Cleared(p) /\ rows[req[p].link] # NoRow =>
                     MayTouch(req[p].who, rows[req[p].link])

AuthInv == OpInv /\ KeyInv /\ OwnerInv

LEMMA AuthInit == Init => AuthInv
  BY DEF Init, AuthInv, OpInv, KeyInv, OwnerInv, Cleared

(* A step of one request that leaves rows and keys alone, and clears the   *)
(* request only for a row that exists and that its caller may touch.       *)
LEMMA AuthRequest ==
  ASSUME TypeInv, AuthInv, NEW p \in Procs, rows' = rows, issued' = issued,
         \A q \in Procs \ {p} : stage'[q] = stage[q] /\ req'[q] = req[q],
         stage'[p] # "insert",
         stage'[p] # "idle" => req'[p] = req[p] /\ stage[p] # "idle",
         OpInv',
         Cleared(p)' => \/ Cleared(p)
                        \/ /\ rows[req[p].link] # NoRow /\ req[p].link \in Links
                           /\ MayTouch(req[p].who, rows[req[p].link])
  PROVE AuthInv'
<1>1. Cleared(p)' => req'[p] = req[p]
  BY DEF Cleared
<1>2. \A q \in Procs \ {p} : Cleared(q)' = Cleared(q)
  BY DEF Cleared
<1>3. KeyInv'
  BY <1>1, <1>2 DEF AuthInv, KeyInv
<1>4. OwnerInv'
  BY <1>1, <1>2 DEF AuthInv, OwnerInv, MayTouch
<1>. QED BY <1>3, <1>4 DEF AuthInv

(* The ways a request goes on, seen from AuthInv.                          *)
LEMMA FinishAuth ==
  ASSUME TypeInv, AuthInv, NEW p \in Procs, Finish(p), rows' = rows, issued' = issued
  PROVE AuthInv'
<1>1. /\ stage'[p] = "idle"
      /\ \A q \in Procs \ {p} : stage'[q] = stage[q] /\ req'[q] = req[q]
  BY DEF Finish, TypeInv, RequestType
<1>2. OpInv'
  BY <1>1 DEF AuthInv, OpInv
<1>. QED BY <1>1, <1>2, AuthRequest DEF Cleared

LEMMA GoOnAuth ==
  ASSUME TypeInv, AuthInv, NEW p \in Procs, NEW s \in Stages \ {"idle", "insert"},
         stage[p] # "idle", rows' = rows, issued' = issued,
         stage' = [stage EXCEPT ![p] = s], req' = req,
         s \in {"write", "reread"} => req[p].op \in {"update", "status"}
                                       /\ req[p].who \in Accounts,
         s = "remove" => req[p].op = "delete",
         s \in {"lookup", "fetch"} => req[p].op = "redirect",
         s # "check",
         s = "write" \/ (s \in {"drop", "unschedule", "remove"} /\ req[p].op = "delete") =>
           \/ Cleared(p)
           \/ /\ rows[req[p].link] # NoRow /\ req[p].link \in Links
              /\ MayTouch(req[p].who, rows[req[p].link])
  PROVE AuthInv'
<1>1. stage'[p] = s /\ \A q \in Procs \ {p} : stage'[q] = stage[q]
  BY DEF TypeInv, RequestType
<1>2. OpInv'
  BY <1>1 DEF AuthInv, OpInv
<1>. QED BY <1>1, <1>2, AuthRequest DEF Cleared
LEMMA AuthReads ==
  ASSUME TypeInv, AuthInv, NEW p \in Procs, Check(p) \/ Reread(p) \/ FetchServed(p)
  PROVE AuthInv'
<1>1. req[p].link \in Links /\ stage[p] # "idle"
  BY InFlight DEF Check, Reread, FetchServed, TypeInv
<1>2. rows' = rows /\ issued' = issued
  BY DEF Check, Reread, FetchServed, dbVars
<1>3. ASSUME Check(p), rows[req[p].link] # NoRow, MayTouch(req[p].who, rows[req[p].link])
      PROVE AuthInv'
  <2>1. req[p].op \in {"update", "status", "delete"} /\ req[p].who \in Accounts
    BY <1>3 DEF Check, AuthInv, OpInv
  <2>2. CASE req[p].op = "delete"
    BY <1>1, <1>2, <1>3, <2>2, GoOnAuth DEF Check, Read, Stages
  <2>3. CASE req[p].op # "delete"
    BY <1>1, <1>2, <1>3, <2>1, <2>3, GoOnAuth DEF Check, Read, Stages
  <2>. QED BY <2>2, <2>3
<1>4. ASSUME Reread(p), rows[req[p].link] # NoRow
      PROVE AuthInv'
  <2>1. req[p].op \in {"update", "status"}
    BY <1>4 DEF Reread, AuthInv, OpInv
  <2>2. PICK s \in {"set", "drop"} : stage' = [stage EXCEPT ![p] = s] /\ req' = req
    BY <1>4 DEF Reread, Read
  <2>. QED BY <1>1, <1>2, <2>1, <2>2, GoOnAuth DEF Stages
<1>5. ASSUME FetchServed(p) PROVE AuthInv'
  <2>1. stage' = [stage EXCEPT ![p] = "set"] /\ req' = req
    BY <1>5 DEF FetchServed, Read
  <2>. QED BY <1>1, <1>2, <2>1, GoOnAuth DEF Stages
<1>6. CASE Finish(p)
  BY <1>2, <1>6, FinishAuth
<1>. QED
  BY <1>3, <1>4, <1>5, <1>6 DEF Check, Reread

(* Steps that touch neither rows nor keys.                                 *)
LEMMA AuthOther ==
  ASSUME TypeInv, AuthInv, NEW p \in Procs,
         \/ CacheShorten(p) \/ ScheduleExpiry(p) \/ DropCache(p) \/ Unschedule(p)
         \/ ServeCached(p) \/ LookupOther(p) \/ FetchNotFound(p) \/ Abort(p)
  PROVE AuthInv'
<1>1. rows' = rows /\ issued' = issued /\ stage[p] # "idle"
  BY DEF CacheShorten, ScheduleExpiry, DropCache, Unschedule, ServeCached,
         LookupOther, FetchNotFound, Abort, dbVars
<1>2. CASE Finish(p)
  BY <1>1, <1>2, FinishAuth
<1>3. CASE CacheShorten(p) /\ Proceed(p, "schedule")
  BY <1>1, <1>3, GoOnAuth DEF Proceed, Stages
<1>4. CASE DropCache(p) /\ Proceed(p, "unschedule")
  BY <1>1, <1>4, GoOnAuth DEF DropCache, Proceed, Stages, Cleared
<1>5. CASE Unschedule(p) /\ Proceed(p, "remove") /\ req[p].op = "delete"
  BY <1>1, <1>5, GoOnAuth DEF Unschedule, Proceed, Stages, Cleared
<1>6. CASE LookupOther(p)
  <2>1. req[p].op = "redirect"
    BY <1>6 DEF LookupOther, AuthInv, OpInv
  <2>2. PICK s \in {"fetch", "drop"} : Proceed(p, s)
    BY <1>6 DEF LookupOther
  <2>. QED BY <1>1, <2>1, <2>2, GoOnAuth DEF Proceed, Stages
<1>. QED
  BY <1>2, <1>3, <1>4, <1>5, <1>6
  DEF CacheShorten, ScheduleExpiry, DropCache, Unschedule, ServeCached,
      FetchNotFound, Abort

LEMMA AuthInsert ==
  ASSUME TypeInv, AuthInv, NEW p \in Procs, Insert(p)
  PROVE AuthInv'
<1>. DEFINE row == [owner |-> req[p].who, url |-> req[p].url,
                    exp |-> req[p].exp, active |-> TRUE]
<1>1. CASE Finish(p) /\ rows' = rows
  BY <1>1, FinishAuth DEF Insert
<1>2. CASE rows' = [rows EXCEPT ![req[p].link] = row] /\ Read(p, row, "set")
  <2>. HIDE DEF row
  <2>1. /\ stage[p] = "insert" /\ req[p].link \in Links /\ issued' = issued
        /\ req' = req /\ stage'[p] = "set"
        /\ \A q \in Procs \ {p} : stage'[q] = stage[q]
    BY <1>2, InFlight DEF Insert, Read, TypeInv, RequestType
  <2>2. \A q \in Procs : Cleared(q)' => q # p /\ Cleared(q)
    BY <2>1, <1>2 DEF Cleared, Insert, AuthInv, OpInv
  <2>3. OpInv'
    BY <2>1 DEF AuthInv, OpInv
  <2>4. \A q \in Procs \ {p} : Cleared(q) \/ stage[q] = "insert" => req[q].link # req[p].link
    BY <2>1 DEF AuthInv, KeyInv
  <2>5. \A l \in Links : l # req[p].link => rows'[l] = rows[l]
    BY <1>2, <2>1 DEF TypeInv, StoreType
  <2>6. \A q \in Procs : stage[q] # "idle" => req[q].link \in Links
    BY InFlight DEF TypeInv
  <2>7. KeyInv'
    BY <2>1, <2>2, <2>4, <2>5, <2>6 DEF AuthInv, KeyInv
  <2>8. OwnerInv'
    BY <2>1, <2>2, <2>4, <2>5, <2>6 DEF AuthInv, OwnerInv, MayTouch, Cleared
  <2>. QED BY <2>3, <2>7, <2>8 DEF AuthInv
<1>. QED BY <1>1, <1>2 DEF Insert

(* Rows that go, or change without changing hands.                         *)
LEMMA AuthRows ==
  ASSUME TypeInv, AuthInv,
         \A l \in Links : rows'[l] # NoRow =>
                            rows[l] # NoRow /\ rows'[l].owner = rows[l].owner,
         issued' = issued,
         \A q \in Procs : stage'[q] \in {stage[q], "idle", "reread"},
         \A q \in Procs : stage'[q] # "idle" => req'[q] = req[q] /\ stage[q] # "idle",
         \A q \in Procs : stage'[q] = "reread" => stage[q] \in {"write", "reread"}
  PROVE AuthInv'
<1>1. \A q \in Procs : Cleared(q)' => Cleared(q) /\ req'[q] = req[q]
  BY DEF Cleared
<1>2. \A q \in Procs : stage[q] # "idle" => req[q].link \in Links
  BY InFlight DEF TypeInv
<1>3. OpInv'
  BY DEF AuthInv, OpInv
<1>4. KeyInv'
  BY <1>1, <1>2 DEF AuthInv, KeyInv
<1>5. OwnerInv'
  BY <1>1, <1>2 DEF AuthInv, OwnerInv, MayTouch, Cleared
<1>. QED BY <1>3, <1>4, <1>5 DEF AuthInv

LEMMA AuthWrites ==
  ASSUME TypeInv, AuthInv, NEW p \in Procs, Write(p) \/ Remove(p)
  PROVE AuthInv'
<1>1. req[p] \in Requests /\ req[p].link \in Links /\ stage[p] # "idle"
  BY InFlight DEF Write, Remove, TypeInv
<1>2. \A l \in Links : rows'[l] # NoRow =>
                          rows[l] # NoRow /\ rows'[l].owner = rows[l].owner
  <2>1. CASE Remove(p)
    BY <1>1, <2>1 DEF Remove, TypeInv, StoreType
  <2>2. CASE Write(p) /\ rows[req[p].link] # NoRow
    <3>1. rows' = [rows EXCEPT ![req[p].link] = Patched(rows[req[p].link], req[p])]
      BY <2>2 DEF Write
    <3>2. Patched(rows[req[p].link], req[p]).owner = rows[req[p].link].owner
      BY <1>1, <2>2, PatchedType DEF TypeInv, StoreType
    <3>. QED BY <1>1, <2>2, <3>1, <3>2 DEF TypeInv, StoreType
  <2>3. CASE Write(p) /\ rows[req[p].link] = NoRow
    BY <2>3 DEF Write
  <2>. QED BY <2>1, <2>2, <2>3
<1>3. Finish(p) \/ (Write(p) /\ Proceed(p, "reread"))
  BY DEF Write, Remove
<1>4. issued' = issued
  BY DEF Write, Remove
<1>5. \A q \in Procs : stage'[q] \in {stage[q], "idle", "reread"}
  BY <1>3 DEF Finish, Proceed, TypeInv, RequestType
<1>6. \A q \in Procs : stage'[q] = "reread" => stage[q] \in {"write", "reread"}
  BY <1>3 DEF Write, Finish, Proceed, TypeInv, RequestType
<1>7. \A q \in Procs : stage'[q] # "idle" => req'[q] = req[q] /\ stage[q] # "idle"
  BY <1>1, <1>3 DEF Finish, Proceed, TypeInv, RequestType
<1>. QED BY <1>2, <1>4, <1>5, <1>6, <1>7, AuthRows

LEMMA AuthReceive ==
  ASSUME TypeInv, AuthInv, NEW p \in Procs, NEW r \in Asked, Receive(p, r)
  PROVE AuthInv'
<1>1. /\ rows' = rows /\ stage[p] = "idle"
      /\ stage'[p] = FirstStage(r.op) /\ req'[p] = r
      /\ \A q \in Procs \ {p} : stage'[q] = stage[q] /\ req'[q] = req[q]
  BY DEF Receive, TypeInv, RequestType
<1>2. /\ FirstStage(r.op) \in {"insert", "lookup", "check"}
      /\ FirstStage(r.op) = "insert" <=> r.op = "create"
      /\ FirstStage(r.op) = "lookup" <=> r.op = "redirect"
  BY DEF FirstStage
<1>3. r.op \in Ops /\ r.who \in Callers
      /\ (r.op \notin {"create", "redirect"} => r.who \in Accounts)
  BY DEF Receive, WellFormed, Asked, Callers
<1>4. \A q \in Procs : Cleared(q)' => q # p /\ Cleared(q)
  BY <1>1, <1>2 DEF Cleared
<1>5. OpInv'
  BY <1>1, <1>2, <1>3 DEF AuthInv, OpInv, Ops
<1>6. /\ issued \subseteq issued' /\ r.link \in Links
      /\ r.op = "create" => r.link \notin issued /\ r.link \in issued'
  BY DEF Receive, Asked
<1>7. KeyInv'
  BY <1>1, <1>2, <1>4, <1>6 DEF AuthInv, KeyInv
<1>8. OwnerInv'
  BY <1>1, <1>4 DEF AuthInv, OwnerInv, MayTouch
<1>. QED BY <1>5, <1>7, <1>8 DEF AuthInv

(* The worker, the clock and the end of an account.                        *)
LEMMA AuthRest ==
  ASSUME TypeInv, AuthInv,
         \/ \E w \in Workers : Work(w) \/ WorkerStops(w)
         \/ \E u \in Leavers : DeleteUser(u)
         \/ Tick
         \/ UNCHANGED vars
  PROVE AuthInv'
<1>1. issued' = issued /\ stage' = stage /\ req' = req
  BY DEF Work, Scan, Claim, Deactivate, ClearCache, WorkerStops, DeleteUser, Tick,
         dbVars, requestVars, vars
<1>2. \A l \in Links : rows'[l] # NoRow =>
                          rows[l] # NoRow /\ rows'[l].owner = rows[l].owner
  <2>1. ASSUME NEW w \in Workers, Deactivate(w), NEW l \in Links, rows'[l] # NoRow
        PROVE rows[l] # NoRow /\ rows'[l].owner = rows[l].owner
    <3>1. rows[l] \in Rows => [rows[l] EXCEPT !.active = FALSE].owner = rows[l].owner
      BY DEF Rows
    <3>. QED BY <2>1, <3>1 DEF Deactivate, Unchecked, WithCode, TypeInv, StoreType
  <2>2. ASSUME NEW u \in Leavers, DeleteUser(u), NEW l \in Links, rows'[l] # NoRow
        PROVE rows[l] # NoRow /\ rows'[l].owner = rows[l].owner
    BY <2>2 DEF DeleteUser
  <2>3. CASE rows' = rows
    BY <2>3
  <2>. QED
    BY <2>1, <2>2, <2>3
    DEF Work, Scan, Claim, ClearCache, WorkerStops, Tick, dbVars, vars
<1>. QED BY <1>1, <1>2, AuthRows

LEMMA AuthStep == TypeInv /\ AuthInv /\ [Next]_vars => AuthInv'
<1>. SUFFICES ASSUME TypeInv, AuthInv, [Next]_vars PROVE AuthInv'
  OBVIOUS
<1>1. ASSUME NEW p \in Procs, Handle(p) PROVE AuthInv'
  BY <1>1, AuthInsert, AuthReads, AuthWrites, AuthOther DEF Handle
<1>. QED
  BY <1>1, AuthReceive, AuthOther, AuthRest DEF Next

(* Only its owner, an admin, the worker or the end of its owner's account  *)
(* changes a row or removes it, although the caller is compared with the   *)
(* owner some calls before the row is written.                             *)
THEOREM OnlyAuthorisedChanges == Spec => AuthorisedChange
<1>1. TypeInv /\ AuthInv /\ [Next]_vars =>
        [\A l \in Links : rows[l] # NoRow /\ rows'[l] # rows[l] => MayChange(l)]_vars
  <2>. SUFFICES ASSUME TypeInv, AuthInv, Next,
                       NEW l \in Links, rows[l] # NoRow, rows'[l] # rows[l]
                PROVE MayChange(l)
    OBVIOUS
  <2>1. ASSUME NEW p \in Procs, Insert(p) PROVE MayChange(l)
    BY <2>1, InFlight DEF Insert, AuthInv, KeyInv, TypeInv, StoreType
  <2>2. ASSUME NEW p \in Procs, Write(p) \/ Remove(p) PROVE MayChange(l)
    <3>1. req[p].link \in Links /\ stage[p] \in {"write", "remove"}
      BY <2>2, InFlight DEF Write, Remove, TypeInv
    <3>2. req[p].link = l
      BY <2>2, <3>1 DEF Write, Remove, TypeInv, StoreType
    <3>3. Cleared(p) /\ req[p].who \in Accounts
      BY <3>1 DEF Cleared, AuthInv, OpInv
    <3>4. MayTouch(req[p].who, rows[l])
      BY <3>2, <3>3 DEF AuthInv, OwnerInv
    <3>5. req[p].who \in Admins \cup ({rows[l].owner} \ {Nobody})
      BY <3>3, <3>4, NullAssumption DEF MayTouch, Accounts
    <3>. QED BY <3>1, <3>2, <3>5 DEF MayChange
  <2>3. ASSUME NEW w \in Workers, Deactivate(w) PROVE MayChange(l)
    BY <2>3 DEF Deactivate, Unchecked, WithCode, MayChange
  <2>4. ASSUME NEW u \in Leavers, DeleteUser(u) PROVE MayChange(l)
    BY <2>4 DEF DeleteUser, MayChange
  <2>5. CASE rows' = rows
    BY <2>5
  <2>6. ASSUME NEW p \in Procs, Handle(p) PROVE MayChange(l)
    BY <2>1, <2>2, <2>5, <2>6
    DEF Handle, Check, Reread, CacheShorten, ScheduleExpiry, DropCache, Unschedule,
        ServeCached, LookupOther, FetchServed, FetchNotFound, dbVars
  <2>7. ASSUME NEW w \in Workers, Work(w) \/ WorkerStops(w) PROVE MayChange(l)
    BY <2>3, <2>5, <2>7 DEF Work, Scan, Claim, ClearCache, WorkerStops, dbVars
  <2>. QED
    BY <2>4, <2>5, <2>6, <2>7 DEF Next, Receive, Abort, Tick, dbVars
<1>. QED
  BY <1>1, TypeInit, TypeStep, AuthInit, AuthStep, PTL DEF Spec, AuthorisedChange
=============================================================================
