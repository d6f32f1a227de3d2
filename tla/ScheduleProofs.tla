---------------------------- MODULE ScheduleProofs ---------------------------
(***************************************************************************)
(* The schedule of the worker, and what a redirect answers from the cache. *)
(* Without failures, with a code of its own for each link and with one     *)
(* change of a link at a time, the queue follows the rows, whatever any    *)
(* number of workers and redirects do in between and whichever accounts    *)
(* go; with one actor on a code at a time the copies follow them too.      *)
(***************************************************************************)
EXTENDS ShortenProofs

OwnCodes == \A k, l \in Links : CodeOf[k] = CodeOf[l] => k = l

(* A request that changes link l, and a worker about to deactivate it.     *)
Changer(p, l) == stage[p] # "idle" /\ req[p].op # "redirect" /\ req[p].link = l
Claimed(l) == \E w \in Workers : wstage[w] = "claimed" /\ held[w] = CodeOf[l]

(* The queue has what the row asks for; a claim has taken it away.         *)
InOrder(l) ==
  IF rows[l].exp = Never THEN queue[CodeOf[l]] = NoScore
  ELSE rows[l].active /\ ~Claimed(l) => queue[CodeOf[l]] = Unix(rows[l].exp)

(* Before its write a change has disturbed nothing.  Between the write and *)
(* the last call it carries what the queue is to be made of.               *)
Before == {"insert", "check", "write"}
Carried(p, l) ==
  /\ stage[p] \in {"set", "schedule"} => seen[p].exp = rows[l].exp
  /\ stage[p] \in {"drop", "unschedule"} /\ req[p].op # "delete" => ~rows[l].active

LinkInv(l) ==
  rows[l] # NoRow =>
    /\ (\A p \in Procs : Changer(p, l) => stage[p] \in Before) => InOrder(l)
    /\ \A p \in Procs : Changer(p, l) => Carried(p, l)

(* Redirects and changes share two stages only.                            *)
Roles ==
  \A p \in Procs :
    /\ stage[p] \in {"lookup", "fetch"} => req[p].op = "redirect"
    /\ stage[p] \in Before \cup {"reread", "schedule", "unschedule", "remove"}
         => req[p].op # "redirect"

ScheduleInv == Roles /\ \A l \in Links : LinkInv(l)

Alone(l) == \A p, q \in Procs : Changer(p, l) /\ Changer(q, l) => p = q

LEMMA AloneOnLinks == ASSUME ChangesAlone, NEW l \in Links PROVE Alone(l)
  BY DEF ChangesAlone, Changing, Alone, Changer, Code

-----------------------------------------------------------------------------
(* Steps of requests *)

(* A step that changes neither the link, its score, those who change it    *)
(* nor those who have claimed it.                                          *)
LEMMA Aside ==
  ASSUME NEW l \in Links, LinkInv(l),
         rows'[l] = rows[l], queue'[CodeOf[l]] = queue[CodeOf[l]],
         Claimed(l)' <=> Claimed(l),
         \A p \in Procs : Changer(p, l)' <=> Changer(p, l),
         \A p \in Procs : Changer(p, l) =>
           stage'[p] = stage[p] /\ seen'[p] = seen[p] /\ req'[p] = req[p]
  PROVE  LinkInv(l)'
<1>1. \A p \in Procs : Changer(p, l)' => Carried(p, l)' \/ rows[l] = NoRow
  BY DEF LinkInv, Carried
<1>2. InOrder(l)' <=> InOrder(l)
  BY DEF InOrder
<1>3. (\A p \in Procs : Changer(p, l)' => stage'[p] \in Before)
        => (\A p \in Procs : Changer(p, l) => stage[p] \in Before)
  OBVIOUS
<1>. QED  BY <1>1, <1>2, <1>3 DEF LinkInv

(* The request that changes the link ends, ...                             *)
LEMMA Ending ==
  ASSUME TypeInv, NEW p \in Procs, NEW l \in Links, Changer(p, l), Alone(l), Finish(p),
         rows'[l] # NoRow => InOrder(l)'
  PROVE  LinkInv(l)'
<1>1. ASSUME NEW q \in Procs PROVE ~Changer(q, l)'
  <2>1. CASE q = p
    BY <2>1 DEF Changer, Finish, TypeInv, RequestType
  <2>2. CASE q # p
    <3>1. stage'[q] = stage[q] /\ req'[q] = req[q]
      BY <2>2 DEF Finish, TypeInv, RequestType
    <3>. QED  BY <2>2, <3>1 DEF Changer, Alone
  <2>. QED  BY <2>1, <2>2
<1>. QED  BY <1>1 DEF LinkInv

(* ... or it goes on.                                                      *)
LEMMA GoingOn ==
  ASSUME TypeInv, NEW p \in Procs, NEW l \in Links, Changer(p, l), Alone(l),
         NEW s \in Stages \ {"idle"}, stage' = [stage EXCEPT ![p] = s], req' = req,
         \A q \in Procs \ {p} : seen'[q] = seen[q],
         s \in Before /\ rows'[l] # NoRow => InOrder(l)',
         s \in {"set", "schedule"} /\ rows'[l] # NoRow => seen'[p].exp = rows'[l].exp,
         s \in {"drop", "unschedule"} /\ req[p].op # "delete" /\ rows'[l] # NoRow
           => ~rows'[l].active
  PROVE  LinkInv(l)'
<1>1. stage'[p] = s
  BY DEF TypeInv, RequestType
<1>2. \A q \in Procs : Changer(q, l)' => q = p
  BY DEF Changer, Alone, TypeInv, RequestType
<1>3. Changer(p, l)'
  BY <1>1 DEF Changer
<1>4. rows'[l] # NoRow => \A q \in Procs : Changer(q, l)' => Carried(q, l)'
  BY <1>1, <1>2 DEF Carried
<1>. QED  BY <1>1, <1>2, <1>3, <1>4 DEF LinkInv

(* What a request does that changes another link, or none.                 *)
LEMMA Elsewhere ==
  ASSUME TypeInv, NEW p \in Procs, NEW l \in Links, LinkInv(l), ~Changer(p, l),
         stage[p] # "idle",
         Finish(p) \/ (req' = req /\ \A q \in Procs \ {p} : stage'[q] = stage[q] /\ seen'[q] = seen[q]),
         rows'[l] = rows[l], queue'[CodeOf[l]] = queue[CodeOf[l]], UNCHANGED workerVars
  PROVE  LinkInv(l)'
<1>1. \A q \in Procs \ {p} : stage'[q] = stage[q] /\ seen'[q] = seen[q] /\ req'[q] = req[q]
  BY DEF Finish, TypeInv, RequestType
<1>2. ~Changer(p, l)'
  <2>1. CASE Finish(p)
    BY <2>1 DEF Finish, Changer, TypeInv, RequestType
  <2>2. CASE req' = req
    BY <2>2 DEF Changer
  <2>. QED  BY <2>1, <2>2
<1>3. \A q \in Procs : Changer(q, l)' <=> Changer(q, l)
  BY <1>1, <1>2 DEF Changer
<1>4. Claimed(l)' <=> Claimed(l)
  BY DEF Claimed, workerVars
<1>. QED  BY <1>1, <1>3, <1>4, Aside

(* A change of link l by p touches the row and the score of no other link. *)
LEMMA OtherLinks ==
  ASSUME OwnCodes, TypeInv, NEW p \in Procs, stage[p] # "idle",
         NEW l \in Links, req[p].link # l
  PROVE  Code(p) # CodeOf[l]
  BY InFlight DEF TypeInv, OwnCodes, Code

LEMMA InsertLink ==
  ASSUME OwnCodes, TypeInv, ScheduleInv, NEW l \in Links, Alone(l),
         NEW p \in Procs, Insert(p)
  PROVE  LinkInv(l)'
<1>0. stage[p] = "insert" /\ UNCHANGED workerVars /\ queue' = queue /\ LinkInv(l)
      /\ req[p].link \in Links /\ req[p].op # "redirect"
  BY InFlight DEF Insert, ScheduleInv, TypeInv, Roles, Before
<1>. DEFINE row == [owner |-> req[p].who, url |-> req[p].url, exp |-> req[p].exp, active |-> TRUE]
<1>1. \/ rows' = [rows EXCEPT ![req[p].link] = row] /\ Read(p, row, "set")
      \/ rows' = rows /\ Finish(p)
  BY DEF Insert
<1>. HIDE DEF row
<1>2. CASE req[p].link # l
  <2>1. rows'[l] = rows[l]
    BY <1>0, <1>1, <1>2 DEF TypeInv, StoreType
  <2>2. ~Changer(p, l)
    BY <1>2 DEF Changer
  <2>3. Finish(p) \/ (req' = req /\ \A q \in Procs \ {p} : stage'[q] = stage[q] /\ seen'[q] = seen[q])
    BY <1>1 DEF Read, TypeInv, RequestType
  <2>. QED  BY <1>0, <2>1, <2>2, <2>3, Elsewhere
<1>3. CASE req[p].link = l
  <2>1. Changer(p, l)
    BY <1>0, <1>3 DEF Changer
  <2>2. CASE rows' = rows /\ Finish(p)
    <3>1. rows[l] # NoRow => InOrder(l)
      BY <1>0, <2>1 DEF LinkInv, Alone, Before
    <3>2. InOrder(l)' <=> InOrder(l)
      BY <1>0, <2>2 DEF InOrder, Claimed, workerVars
    <3>. QED  BY <2>1, <2>2, <3>1, <3>2, Ending
  <2>3. CASE rows' = [rows EXCEPT ![req[p].link] = row] /\ Read(p, row, "set")
    <3>1. rows'[l] = row /\ seen'[p] = row
      BY <1>3, <2>3 DEF Read, TypeInv, StoreType, RequestType
    <3>2. stage' = [stage EXCEPT ![p] = "set"] /\ req' = req
          /\ \A q \in Procs \ {p} : seen'[q] = seen[q]
      BY <2>3 DEF Read, TypeInv, RequestType
    <3>3. "set" \in Stages \ {"idle"} /\ "set" \notin Before
      BY DEF Stages, Before
    <3>. QED  BY <2>1, <3>1, <3>2, <3>3, GoingOn
  <2>. QED  BY <1>1, <2>2, <2>3
<1>. QED  BY <1>2, <1>3

(* Reading the row for the first time.                                     *)
LEMMA CheckLink ==
  ASSUME TypeInv, ScheduleInv, NEW l \in Links, Alone(l),
         NEW p \in Procs, Check(p)
  PROVE  LinkInv(l)'
<1>0. /\ stage[p] = "check" /\ UNCHANGED workerVars /\ queue' = queue /\ rows' = rows
      /\ LinkInv(l)
  BY DEF Check, ScheduleInv, dbVars
<1>. DEFINE row == rows[req[p].link]
            s == IF req[p].op = "delete" THEN "drop" ELSE "write"
<1>1. Read(p, row, s) \/ Finish(p)
  BY DEF Check
<1>. HIDE DEF row
<1>2. CASE ~Changer(p, l)
  <2>1. Finish(p) \/ (req' = req /\ \A q \in Procs \ {p} : stage'[q] = stage[q] /\ seen'[q] = seen[q])
    BY <1>1 DEF Read, TypeInv, RequestType
  <2>. QED  BY <1>0, <1>2, <2>1, Elsewhere
<1>3. CASE Changer(p, l)
  <2>1. rows[l] # NoRow => InOrder(l)
    BY <1>0, <1>3 DEF LinkInv, Alone, Before
  <2>2. InOrder(l)' <=> InOrder(l)
    BY <1>0 DEF InOrder, Claimed, workerVars
  <2>3. CASE Finish(p)
    BY <1>0, <1>3, <2>1, <2>2, <2>3, Ending
  <2>4. CASE Read(p, row, s)
    <3>1. stage' = [stage EXCEPT ![p] = s] /\ req' = req
          /\ \A q \in Procs \ {p} : seen'[q] = seen[q]
      BY <2>4 DEF Read, TypeInv, RequestType
    <3>2. s \in Stages \ {"idle"} /\ s \notin {"set", "schedule"}
          /\ (s \in {"drop", "unschedule"} => req[p].op = "delete")
      BY DEF Stages
    <3>. HIDE DEF s
    <3>. QED  BY <1>0, <1>3, <2>1, <2>2, <3>1, <3>2, GoingOn
  <2>. QED  BY <1>1, <2>3, <2>4
<1>. QED  BY <1>2, <1>3

(* The write, ...                                                          *)
LEMMA WriteLink ==
  ASSUME TypeInv, ScheduleInv, NEW l \in Links, Alone(l),
         NEW p \in Procs, Write(p)
  PROVE  LinkInv(l)'
<1>0. stage[p] = "write" /\ UNCHANGED workerVars /\ queue' = queue /\ LinkInv(l)
      /\ req[p].link \in Links /\ req[p].op # "redirect"
  BY InFlight DEF Write, ScheduleInv, TypeInv, Roles, Before
<1>. DEFINE row == Patched(rows[req[p].link], req[p])
<1>1. \/ rows' = [rows EXCEPT ![req[p].link] = row] /\ Proceed(p, "reread")
      \/ rows[req[p].link] = NoRow /\ rows' = rows /\ Finish(p)
  BY DEF Write
<1>. HIDE DEF row
<1>2. CASE req[p].link # l
  <2>1. rows'[l] = rows[l]
    BY <1>0, <1>1, <1>2 DEF TypeInv, StoreType
  <2>2. ~Changer(p, l)
    BY <1>2 DEF Changer
  <2>3. Finish(p) \/ (req' = req /\ \A q \in Procs \ {p} : stage'[q] = stage[q] /\ seen'[q] = seen[q])
    BY <1>1 DEF Proceed, TypeInv, RequestType
  <2>. QED  BY <1>0, <2>1, <2>2, <2>3, Elsewhere
<1>3. CASE req[p].link = l
  <2>1. Changer(p, l)
    BY <1>0, <1>3 DEF Changer
  <2>2. CASE rows[req[p].link] = NoRow /\ rows' = rows /\ Finish(p)
    BY <1>3, <2>1, <2>2, Ending
  <2>3. CASE Proceed(p, "reread")
    <3>1. stage' = [stage EXCEPT ![p] = "reread"] /\ req' = req /\ seen' = seen
      BY <2>3 DEF Proceed
    <3>2. "reread" \in Stages \ {"idle"} /\ "reread" \notin Before
      BY DEF Stages, Before
    <3>. QED  BY <2>1, <3>1, <3>2, GoingOn
  <2>. QED  BY <1>1, <2>2, <2>3
<1>. QED  BY <1>2, <1>3

(* ... and the second reading, by which the request goes on.               *)
LEMMA RereadLink ==
  ASSUME TypeInv, ScheduleInv, NEW l \in Links, Alone(l),
         NEW p \in Procs, Reread(p)
  PROVE  LinkInv(l)'
<1>0. /\ stage[p] = "reread" /\ UNCHANGED workerVars /\ queue' = queue /\ rows' = rows
      /\ LinkInv(l)
  BY DEF Reread, ScheduleInv, dbVars
<1>. DEFINE row == rows[req[p].link]
            s == IF req[p].op = "update" \/ row.active THEN "set" ELSE "drop"
<1>1. Read(p, row, s) \/ (row = NoRow /\ Finish(p))
  BY DEF Reread
<1>2. CASE ~Changer(p, l)
  <2>1. Finish(p) \/ (req' = req /\ \A q \in Procs \ {p} : stage'[q] = stage[q] /\ seen'[q] = seen[q])
    BY <1>1 DEF Read, TypeInv, RequestType
  <2>. QED  BY <1>0, <1>2, <2>1, Elsewhere
<1>3. CASE Changer(p, l)
  <2>0. row = rows[l]
    BY <1>3 DEF Changer
  <2>1. CASE row = NoRow /\ Finish(p)
    BY <1>0, <1>3, <2>0, <2>1, Ending
  <2>2. CASE Read(p, row, s)
    <3>1. stage' = [stage EXCEPT ![p] = s] /\ req' = req /\ seen'[p] = row
          /\ \A q \in Procs \ {p} : seen'[q] = seen[q]
      BY <2>2 DEF Read, TypeInv, RequestType
    <3>2. s \in Stages \ {"idle"} /\ s \notin Before /\ (s = "drop" => ~row.active)
          /\ s # "unschedule"
      BY DEF Stages, Before
    <3>. HIDE DEF s, row
    <3>. QED  BY <1>0, <1>3, <2>0, <3>1, <3>2, GoingOn
  <2>. QED  BY <1>1, <2>1, <2>2
<1>. QED  BY <1>2, <1>3

(* The cached copy is set or dropped: the queue is next.                   *)
LEMMA CacheLink ==
  ASSUME TypeInv, ScheduleInv, NEW l \in Links, Alone(l),
         NEW p \in Procs, CacheShorten(p) \/ DropCache(p)
  PROVE  LinkInv(l)'
<1>. DEFINE s == IF stage[p] = "set" THEN "schedule" ELSE "unschedule"
<1>0. /\ stage[p] \in {"set", "drop"} /\ UNCHANGED workerVars /\ queue' = queue
      /\ rows' = rows /\ LinkInv(l)
      /\ IF req[p].op = "redirect" THEN Finish(p) ELSE Proceed(p, s)
  BY DEF CacheShorten, DropCache, ScheduleInv, dbVars
<1>1. CASE ~Changer(p, l)
  <2>1. Finish(p) \/ (req' = req /\ \A q \in Procs \ {p} : stage'[q] = stage[q] /\ seen'[q] = seen[q])
    BY <1>0 DEF Proceed, TypeInv, RequestType
  <2>. QED  BY <1>0, <1>1, <2>1, Elsewhere
<1>2. CASE Changer(p, l)
  <2>1. stage' = [stage EXCEPT ![p] = s] /\ req' = req /\ seen' = seen
    BY <1>0, <1>2 DEF Changer, Proceed
  <2>2. rows[l] # NoRow => Carried(p, l)
    BY <1>0, <1>2 DEF LinkInv
  <2>3. s \in Stages \ {"idle"} /\ s \notin Before /\ s # "drop" /\ s # "set"
        /\ (s = "schedule" => stage[p] = "set") /\ (s = "unschedule" => stage[p] = "drop")
    BY <1>0 DEF Stages, Before
  <2>. HIDE DEF s
  <2>. QED  BY <1>0, <1>2, <2>1, <2>2, <2>3, GoingOn DEF Carried
<1>. QED  BY <1>1, <1>2

(* The queue is set.                                                       *)
LEMMA ScheduleLink ==
  ASSUME OwnCodes, TypeInv, ScheduleInv, NEW l \in Links, Alone(l),
         NEW p \in Procs, ScheduleExpiry(p)
  PROVE  LinkInv(l)'
<1>. DEFINE score == IF seen[p].exp = Never THEN NoScore ELSE Unix(seen[p].exp)
<1>0. /\ stage[p] = "schedule" /\ UNCHANGED workerVars /\ rows' = rows /\ LinkInv(l)
      /\ queue' = [queue EXCEPT ![Code(p)] = score] /\ Finish(p)
      /\ req[p].op # "redirect"
  BY DEF ScheduleExpiry, ScheduleInv, dbVars, Roles, Before
<1>1. CASE req[p].link # l
  <2>1. queue'[CodeOf[l]] = queue[CodeOf[l]] /\ ~Changer(p, l)
    BY <1>0, <1>1, OtherLinks, DomainAssumption DEF TypeInv, StoreType, Changer
  <2>. QED  BY <1>0, <2>1, Elsewhere
<1>2. CASE req[p].link = l
  <2>1. Changer(p, l)
    BY <1>0, <1>2 DEF Changer
  <2>2. rows[l] # NoRow => seen[p].exp = rows[l].exp
    BY <1>0, <2>1 DEF LinkInv, Carried
  <2>3. queue'[CodeOf[l]] = score
    BY <1>0, <1>2, DomainAssumption DEF Code, TypeInv, StoreType
  <2>4. rows'[l] # NoRow => InOrder(l)'
    BY <1>0, <2>2, <2>3 DEF InOrder
  <2>. QED  BY <1>0, <2>1, <2>4, Ending
<1>. QED  BY <1>1, <1>2

(* The queue is cleared, when no call fails.                               *)
LEMMA UnscheduleLink ==
  ASSUME OwnCodes, Faults = FALSE, TypeInv, ScheduleInv, NEW l \in Links, Alone(l),
         NEW p \in Procs, Unschedule(p)
  PROVE  LinkInv(l)'
<1>0. /\ stage[p] = "unschedule" /\ UNCHANGED workerVars /\ rows' = rows /\ LinkInv(l)
      /\ queue' = [queue EXCEPT ![Code(p)] = NoScore]
      /\ IF req[p].op = "delete" THEN Proceed(p, "remove") ELSE Finish(p)
      /\ req[p].op # "redirect"
  BY DEF Unschedule, Unchecked, ScheduleInv, dbVars, Roles
<1>1. CASE req[p].link # l
  <2>1. queue'[CodeOf[l]] = queue[CodeOf[l]] /\ ~Changer(p, l)
    BY <1>0, <1>1, OtherLinks, DomainAssumption DEF TypeInv, StoreType, Changer
  <2>2. Finish(p) \/ (req' = req /\ \A q \in Procs \ {p} : stage'[q] = stage[q] /\ seen'[q] = seen[q])
    BY <1>0 DEF Proceed, TypeInv, RequestType
  <2>. QED  BY <1>0, <2>1, <2>2, Elsewhere
<1>2. CASE req[p].link = l
  <2>1. Changer(p, l)
    BY <1>0, <1>2 DEF Changer
  <2>2. queue'[CodeOf[l]] = NoScore
    BY <1>0, <1>2, DomainAssumption DEF Code, TypeInv, StoreType
  <2>3. CASE req[p].op = "delete"
    <3>1. stage' = [stage EXCEPT ![p] = "remove"] /\ req' = req /\ seen' = seen
      BY <1>0, <2>3 DEF Proceed
    <3>2. "remove" \in Stages \ {"idle"} /\ "remove" \notin Before
      BY DEF Stages, Before
    <3>. QED  BY <2>1, <3>1, <3>2, GoingOn
  <2>4. CASE req[p].op # "delete"
    <3>1. rows[l] # NoRow => ~rows[l].active
      BY <1>0, <2>1, <2>4 DEF LinkInv, Carried
    <3>2. rows'[l] # NoRow => InOrder(l)'
      BY <1>0, <2>2, <3>1 DEF InOrder
    <3>. QED  BY <1>0, <2>1, <2>4, <3>2, Ending
  <2>. QED  BY <2>3, <2>4
<1>. QED  BY <1>1, <1>2

LEMMA RemoveLink ==
  ASSUME TypeInv, ScheduleInv, NEW l \in Links, Alone(l),
         NEW p \in Procs, Remove(p)
  PROVE  LinkInv(l)'
<1>0. /\ stage[p] = "remove" /\ UNCHANGED workerVars /\ queue' = queue /\ LinkInv(l)
      /\ rows' = [rows EXCEPT ![req[p].link] = NoRow] /\ Finish(p)
  BY DEF Remove, ScheduleInv
<1>1. CASE req[p].link # l
  <2>1. rows'[l] = rows[l] /\ ~Changer(p, l)
    BY <1>0, <1>1 DEF TypeInv, StoreType, Changer
  <2>. QED  BY <1>0, <2>1, Elsewhere
<1>2. CASE req[p].link = l
  BY <1>0, <1>2 DEF TypeInv, StoreType, LinkInv
<1>. QED  BY <1>1, <1>2

(* A redirect is no change.                                                *)
LEMMA RedirectLink ==
  ASSUME TypeInv, ScheduleInv, NEW l \in Links, NEW p \in Procs,
         ServeCached(p) \/ LookupOther(p) \/ FetchServed(p) \/ FetchNotFound(p)
  PROVE  LinkInv(l)'
<1>1. /\ stage[p] \in {"lookup", "fetch"} /\ UNCHANGED workerVars /\ queue' = queue
      /\ rows' = rows /\ LinkInv(l)
  BY DEF ServeCached, LookupOther, FetchServed, FetchNotFound, ScheduleInv, dbVars
<1>2. ~Changer(p, l)
  BY <1>1 DEF ScheduleInv, Roles, Changer
<1>3. Finish(p) \/ (req' = req /\ \A q \in Procs \ {p} : stage'[q] = stage[q] /\ seen'[q] = seen[q])
  BY DEF ServeCached, LookupOther, FetchServed, FetchNotFound, Proceed, Read,
         TypeInv, RequestType
<1>. QED  BY <1>1, <1>2, <1>3, Elsewhere

(* A change begins when no other is under way.                             *)
LEMMA ReceiveLink ==
  ASSUME TypeInv, ScheduleInv, NEW l \in Links, Alone(l)',
         NEW p \in Procs, NEW r \in Asked, Receive(p, r)
  PROVE  LinkInv(l)'
<1>0. /\ stage[p] = "idle" /\ UNCHANGED workerVars /\ queue' = queue /\ rows' = rows
      /\ seen' = seen /\ LinkInv(l)
      /\ stage'[p] = FirstStage(r.op) /\ req'[p] = r
      /\ \A q \in Procs \ {p} : stage'[q] = stage[q] /\ req'[q] = req[q]
  BY DEF Receive, ScheduleInv, TypeInv, RequestType
<1>1. ~Changer(p, l) /\ \A q \in Procs \ {p} : Changer(q, l)' <=> Changer(q, l)
  BY <1>0 DEF Changer
<1>2. CASE ~Changer(p, l)'
  <2>1. Claimed(l)' <=> Claimed(l)
    BY <1>0 DEF Claimed, workerVars
  <2>2. \A q \in Procs : Changer(q, l)' <=> Changer(q, l)
    BY <1>1, <1>2
  <2>3. \A q \in Procs : Changer(q, l) =>
          stage'[q] = stage[q] /\ seen'[q] = seen[q] /\ req'[q] = req[q]
    BY <1>0, <1>1
  <2>. QED  BY <1>0, <2>1, <2>2, <2>3, Aside
<1>3. CASE Changer(p, l)'
  <2>1. \A q \in Procs : ~Changer(q, l)
    BY <1>1, <1>3 DEF Alone
  <2>2. rows[l] # NoRow => InOrder(l)
    BY <1>0, <2>1 DEF LinkInv
  <2>3. InOrder(l)' <=> InOrder(l)
    BY <1>0 DEF InOrder, Claimed, workerVars
  <2>4. Carried(p, l)'
    BY <1>0 DEF Carried, FirstStage
  <2>5. \A q \in Procs : Changer(q, l)' => q = p
    BY <1>3 DEF Alone
  <2>. QED  BY <1>0, <2>2, <2>3, <2>4, <2>5 DEF LinkInv
<1>. QED  BY <1>2, <1>3

-----------------------------------------------------------------------------
(* Steps of the workers and of the environment *)

(* When no request takes a step, the link keeps its invariant if its order *)
(* is kept and its row changes only to become inactive or to go.           *)
LEMMA NoRequestStep ==
  ASSUME NEW l \in Links, LinkInv(l), UNCHANGED requestVars,
         \/ rows'[l] = NoRow
         \/ /\ rows[l] # NoRow /\ rows'[l] # NoRow => rows'[l].exp = rows[l].exp
            /\ rows[l] # NoRow
            /\ rows'[l].active => rows[l].active
            /\ InOrder(l) => InOrder(l)'
         \/ rows[l] = NoRow /\ rows'[l] = NoRow
  PROVE  LinkInv(l)'
<1>1. \A p \in Procs : (Changer(p, l)' <=> Changer(p, l)) /\ stage'[p] = stage[p]
  BY DEF Changer, requestVars
<1>2. CASE rows'[l] = NoRow
  BY <1>2 DEF LinkInv
<1>3. CASE rows'[l] # NoRow
  <2>1. \A p \in Procs : Changer(p, l) => Carried(p, l)'
    BY <1>3 DEF LinkInv, Carried, requestVars
  <2>. QED  BY <1>1, <1>3, <2>1 DEF LinkInv
<1>. QED  BY <1>2, <1>3

(* A claim takes the code off the queue, and only its own.                 *)
LEMMA ClaimLink ==
  ASSUME Faults = FALSE, TypeInv, ScheduleInv, NEW l \in Links,
         NEW w \in Workers, NEW c \in Codes, Claim(w, c)
  PROVE  LinkInv(l)'
<1>0. /\ LinkInv(l) /\ rows' = rows /\ UNCHANGED requestVars /\ wstage[w] = "ready"
      /\ \/ /\ queue[c] # NoScore /\ queue' = [queue EXCEPT ![c] = NoScore]
            /\ wstage' = [wstage EXCEPT ![w] = "claimed"]
            /\ held' = [held EXCEPT ![w] = c]
         \/ UNCHANGED <<queue, wstage, held>>
  BY DEF Claim, ScheduleInv, dbVars
<1>1. CASE UNCHANGED <<queue, wstage, held>>
  <2>1. InOrder(l)' <=> InOrder(l)
    BY <1>0, <1>1 DEF InOrder, Claimed
  <2>. QED  BY <1>0, <2>1, NoRequestStep
<1>2. CASE /\ queue[c] # NoScore /\ queue' = [queue EXCEPT ![c] = NoScore]
           /\ wstage' = [wstage EXCEPT ![w] = "claimed"]
           /\ held' = [held EXCEPT ![w] = c]
  <2>1. wstage'[w] = "claimed" /\ held'[w] = c /\ queue'[c] = NoScore
    BY <1>2 DEF TypeInv, WorkerType, StoreType
  <2>2. CASE CodeOf[l] = c
    <3>1. Claimed(l)'
      BY <2>1, <2>2 DEF Claimed
    <3>2. InOrder(l) => InOrder(l)'
      BY <1>0, <1>2, <2>1, <2>2, <3>1 DEF InOrder
    <3>. QED  BY <1>0, <3>2, NoRequestStep
  <2>3. CASE CodeOf[l] # c
    <3>1. queue'[CodeOf[l]] = queue[CodeOf[l]]
      BY <1>2, <2>3, DomainAssumption DEF TypeInv, StoreType
    <3>2. Claimed(l) => Claimed(l)'
      <4>. SUFFICES ASSUME NEW v \in Workers, wstage[v] = "claimed", held[v] = CodeOf[l]
                    PROVE  Claimed(l)'
        BY DEF Claimed
      <4>1. wstage'[v] = "claimed" /\ held'[v] = CodeOf[l]
        BY <1>0, <1>2 DEF TypeInv, WorkerType
      <4>. QED  BY <4>1 DEF Claimed
    <3>3. Claimed(l)' => Claimed(l)
      <4>. SUFFICES ASSUME NEW v \in Workers, wstage'[v] = "claimed", held'[v] = CodeOf[l]
                    PROVE  Claimed(l)
        BY DEF Claimed
      <4>1. v # w
        BY <2>1, <2>3
      <4>2. wstage[v] = "claimed" /\ held[v] = CodeOf[l]
        BY <1>2, <4>1 DEF TypeInv, WorkerType
      <4>. QED  BY <4>2 DEF Claimed
    <3>4. InOrder(l) => InOrder(l)'
      BY <1>0, <3>1, <3>2, <3>3 DEF InOrder
    <3>. QED  BY <1>0, <3>4, NoRequestStep
  <2>. QED  BY <2>2, <2>3
<1>. QED  BY <1>0, <1>1, <1>2

(* The deactivation makes up for the claim.                                *)
LEMMA DeactivateLink ==
  ASSUME Faults = FALSE, TypeInv, ScheduleInv, NEW l \in Links,
         NEW w \in Workers, Deactivate(w)
  PROVE  LinkInv(l)'
<1>0. /\ LinkInv(l) /\ UNCHANGED requestVars /\ queue' = queue /\ held' = held
      /\ wstage' = [wstage EXCEPT ![w] = "clearing"]
      /\ rows'[l] = IF CodeOf[l] = held[w] /\ rows[l] # NoRow
                      THEN [rows[l] EXCEPT !.active = FALSE] ELSE rows[l]
  BY DEF Deactivate, Unchecked, ScheduleInv, WithCode
<1>1. CASE rows[l] = NoRow
  BY <1>0, <1>1, NoRequestStep
<1>2. CASE rows[l] # NoRow /\ CodeOf[l] = held[w]
  <2>1. rows[l] \in Rows
    BY <1>2 DEF TypeInv, StoreType
  <2>2. rows'[l].exp = rows[l].exp /\ rows'[l].active = FALSE
    BY <1>0, <1>2, <2>1 DEF Rows
  <2>3. InOrder(l) => InOrder(l)'
    BY <1>0, <2>2 DEF InOrder
  <2>. QED  BY <1>0, <1>2, <2>2, <2>3, NoRequestStep
<1>3. CASE rows[l] # NoRow /\ CodeOf[l] # held[w]
  <2>1. rows'[l] = rows[l]
    BY <1>0, <1>3
  <2>2. \A v \in Workers : v # w => wstage'[v] = wstage[v]
    BY <1>0 DEF TypeInv, WorkerType
  <2>3. Claimed(l) => Claimed(l)'
    <3>. SUFFICES ASSUME NEW v \in Workers, wstage[v] = "claimed", held[v] = CodeOf[l]
                  PROVE  Claimed(l)'
      BY DEF Claimed
    <3>1. v # w
      BY <1>3
    <3>. QED  BY <1>0, <2>2, <3>1 DEF Claimed
  <2>4. InOrder(l) => InOrder(l)'
    BY <1>0, <2>1, <2>3 DEF InOrder
  <2>. QED  BY <1>0, <1>3, <2>1, <2>4, NoRequestStep
<1>. QED  BY <1>1, <1>2, <1>3

LEMMA WorkerLink ==
  ASSUME Faults = FALSE, TypeInv, ScheduleInv, NEW l \in Links, NEW w \in Workers, Work(w)
  PROVE  LinkInv(l)'
<1>0. LinkInv(l)
  BY DEF ScheduleInv
<1>1. CASE Scan(w)
  <2>1. rows' = rows /\ UNCHANGED requestVars /\ UNCHANGED <<queue, wstage, held>>
    BY <1>1 DEF Scan, dbVars
  <2>2. InOrder(l)' <=> InOrder(l)
    BY <2>1 DEF InOrder, Claimed
  <2>. QED  BY <1>0, <2>1, <2>2, NoRequestStep
<1>2. CASE ClearCache(w)
  <2>1. /\ rows' = rows /\ UNCHANGED requestVars /\ queue' = queue
        /\ wstage[w] = "clearing" /\ wstage' = [wstage EXCEPT ![w] = "ready"]
        /\ held' = [held EXCEPT ![w] = NoCode]
    BY <1>2 DEF ClearCache, dbVars
  <2>2. Claimed(l) => Claimed(l)'
    <3>. SUFFICES ASSUME NEW v \in Workers, wstage[v] = "claimed", held[v] = CodeOf[l]
                  PROVE  Claimed(l)'
      BY DEF Claimed
    <3>1. wstage'[v] = "claimed" /\ held'[v] = CodeOf[l]
      BY <2>1 DEF TypeInv, WorkerType
    <3>. QED  BY <3>1 DEF Claimed
  <2>3. InOrder(l) => InOrder(l)'
    BY <2>1, <2>2 DEF InOrder
  <2>. QED  BY <1>0, <2>1, <2>3, NoRequestStep
<1>. QED  BY <1>1, <1>2, ClaimLink, DeactivateLink DEF Work

(* The clock moves neither rows nor scores, and an account that goes takes *)
(* its rows along.                                                         *)
LEMMA EnvironmentLink ==
  ASSUME TypeInv, ScheduleInv, NEW l \in Links,
         Tick \/ \E u \in Leavers : DeleteUser(u)
  PROVE  LinkInv(l)'
<1>1. /\ LinkInv(l) /\ UNCHANGED requestVars /\ UNCHANGED workerVars /\ queue' = queue
      /\ rows'[l] = rows[l] \/ rows'[l] = NoRow
  BY DEF Tick, DeleteUser, ScheduleInv, dbVars
<1>2. rows'[l] = rows[l] => (InOrder(l)' <=> InOrder(l))
  BY <1>1 DEF InOrder, Claimed, workerVars
<1>. QED  BY <1>1, <1>2, NoRequestStep

-----------------------------------------------------------------------------
(* The invariant *)

LEMMA RolesStep == ASSUME TypeInv, Roles, Faults = FALSE, Next PROVE Roles'
<1>. DEFINE RoleOf(op, s) ==
              /\ s \in {"lookup", "fetch"} => op = "redirect"
              /\ s \in Before \cup {"reread", "schedule", "unschedule", "remove"}
                   => op # "redirect"
<1>1. ASSUME NEW p \in Procs, Handle(p) PROVE Roles'
  <2>1. RoleOf(req'[p].op, stage'[p])
    BY <1>1 DEF Handle, Insert, Check, Write, Reread, CacheShorten, ScheduleExpiry,
                DropCache, Unschedule, Remove, ServeCached, LookupOther, FetchServed,
                FetchNotFound, Finish, Proceed, Read, Before, Roles, TypeInv, RequestType
  <2>2. \A q \in Procs \ {p} : stage'[q] = stage[q] /\ req'[q] = req[q]
    BY <1>1 DEF Handle, Insert, Check, Write, Reread, CacheShorten, ScheduleExpiry,
                DropCache, Unschedule, Remove, ServeCached, LookupOther, FetchServed,
                FetchNotFound, Finish, Proceed, Read, TypeInv, RequestType
  <2>. QED  BY <2>1, <2>2 DEF Roles
<1>2. ASSUME NEW p \in Procs, NEW r \in Asked, Receive(p, r) PROVE Roles'
  <2>1. RoleOf(r.op, FirstStage(r.op))
    BY DEF FirstStage, Before
  <2>. QED  BY <1>2, <2>1 DEF Receive, Roles, TypeInv, RequestType
<1>3. CASE UNCHANGED requestVars
  BY <1>3 DEF Roles, requestVars
<1>. QED
  BY <1>1, <1>2, <1>3
  DEF Next, Abort, Work, Scan, Claim, Deactivate, ClearCache, WorkerStops, DeleteUser, Tick

LEMMA ScheduleInit == Init => ScheduleInv
  BY DEF Init, ScheduleInv, Roles, LinkInv, Before

LEMMA ScheduleStep ==
  ASSUME OwnCodes, Faults = FALSE, TypeInv, ScheduleInv, ChangesAlone,
         [Next /\ ChangesAlone']_vars
  PROVE  ScheduleInv' /\ ChangesAlone'
<1>1. CASE UNCHANGED vars
  <2>1. UNCHANGED requestVars /\ UNCHANGED workerVars /\ UNCHANGED <<rows, queue>>
    BY <1>1 DEF vars, requestVars, workerVars
  <2>2. ChangesAlone' /\ Roles'
    BY <2>1 DEF ChangesAlone, Changing, Code, requestVars, ScheduleInv, Roles
  <2>3. ASSUME NEW l \in Links PROVE LinkInv(l)'
    <3>1. LinkInv(l) /\ (InOrder(l)' <=> InOrder(l))
      BY <2>1 DEF ScheduleInv, InOrder, Claimed, workerVars
    <3>. QED  BY <2>1, <3>1, NoRequestStep
  <2>. QED  BY <2>2, <2>3 DEF ScheduleInv
<1>2. CASE Next /\ ChangesAlone'
  <2>1. Roles'
    BY <1>2, RolesStep DEF ScheduleInv
  <2>2. ASSUME NEW l \in Links PROVE LinkInv(l)'
    <3>1. Alone(l) /\ Alone(l)'
      <4>1. Alone(l)
        BY AloneOnLinks
      <4>2. Alone(l)'
        BY <1>2 DEF ChangesAlone, Changing, Alone, Changer, Code
      <4>. QED  BY <4>1, <4>2
    <3>2. ASSUME NEW p \in Procs, Handle(p) PROVE LinkInv(l)'
      BY <3>1, <3>2, InsertLink, CheckLink, WriteLink, RereadLink, CacheLink, ScheduleLink,
         UnscheduleLink, RemoveLink, RedirectLink DEF Handle
    <3>. QED
      BY <1>2, <3>1, <3>2, ReceiveLink, WorkerLink, EnvironmentLink
      DEF Next, Abort, WorkerStops
  <2>. QED  BY <1>2, <2>1, <2>2 DEF ScheduleInv
<1>. QED  BY <1>1, <1>2

(* Without failures, with a code of its own for each link and with one     *)
(* change of a link at a time, the queue follows the rows: a link that     *)
(* nothing is working on is queued with the second of its expiry if it is  *)
(* active and expires, and is not queued if it never expires, whatever the *)
(* workers, the redirects and the deletions of accounts did meanwhile.     *)
THEOREM QueueFollowsRows ==
  ASSUME OwnCodes, Faults = FALSE
  PROVE  SpecChangesAlone => []ScheduleFollowsRows
<1>1. Init => TypeInv /\ ScheduleInv /\ ChangesAlone
  BY TypeInit, ScheduleInit DEF Init, ChangesAlone, Changing
<1>2. TypeInv /\ ScheduleInv /\ ChangesAlone /\ [Next /\ ChangesAlone']_vars
        => (TypeInv /\ ScheduleInv /\ ChangesAlone)'
  BY TypeStep, ScheduleStep
<1>3. ScheduleInv => ScheduleFollowsRows
  <2>. SUFFICES ASSUME ScheduleInv, NEW l \in Links, rows[l] # NoRow, Settled(CodeOf[l])
                PROVE  IF rows[l].exp = Never THEN queue[CodeOf[l]] = NoScore
                       ELSE rows[l].active => queue[CodeOf[l]] = Unix(rows[l].exp)
    BY DEF ScheduleFollowsRows
  <2>1. \A p \in Procs : ~Changer(p, l)
    BY DEF Settled, Changing, Changer, Code
  <2>2. ~Claimed(l)
    BY DEF Settled, Claimed
  <2>. QED  BY <2>1, <2>2 DEF ScheduleInv, LinkInv, InOrder
<1>. QED  BY <1>1, <1>2, <1>3, PTL DEF SpecChangesAlone

-----------------------------------------------------------------------------
(* What the worker deactivates *)

(* With one actor on a code at a time, a code that waits in a batch keeps  *)
(* the score by which it was due, one that is claimed stays off the queue, *)
(* and the link it stands for is due.                                      *)
LinkDue(l) == rows[l] # NoRow /\ rows[l].active =>
                rows[l].exp # Never /\ Unix(rows[l].exp) <= Unix(now)

BatchDue(w) == \A c \in batch[w] : queue[c] # NoScore => queue[c] <= Unix(now)
ClaimDue(w) == wstage[w] = "claimed" =>
                 /\ queue[held[w]] = NoScore
                 /\ \A l \in Links : CodeOf[l] = held[w] => LinkDue(l)

DueInv == \A w \in Workers : BatchDue(w) /\ ClaimDue(w)

LEMMA OneAtATime == CodesAlone => ChangesAlone
  BY DEF CodesAlone, ChangesAlone, Changing

(* A later instant has no earlier second.                                  *)
LEMMA UnixMonotone == ASSUME NEW t \in Nat PROVE Unix(t) <= Unix(t + 1)
  BY BoundAssumption DEF Unix

(* Requests are on other codes than the workers.                           *)
LEMMA DueRequest ==
  ASSUME TypeInv, DueInv, CodesAlone, NEW p \in Procs, Handle(p)
  PROVE  DueInv'
<1>1. stage[p] # "idle" /\ UNCHANGED workerVars /\ now' = now
  BY DEF Handle, Insert, Check, Write, Reread, CacheShorten, ScheduleExpiry, DropCache,
         Unschedule, Remove, ServeCached, LookupOther, FetchServed, FetchNotFound
<1>2. \A l \in Links : CodeOf[l] # Code(p) => rows'[l] = rows[l]
  BY DEF Handle, Insert, Check, Write, Reread, CacheShorten, ScheduleExpiry, DropCache,
         Unschedule, Remove, ServeCached, LookupOther, FetchServed, FetchNotFound,
         dbVars, Code, TypeInv, StoreType
<1>3. \A c \in Codes \ {Code(p)} : queue'[c] = queue[c]
  BY DEF Handle, Insert, Check, Write, Reread, CacheShorten, ScheduleExpiry, DropCache,
         Unschedule, Remove, ServeCached, LookupOther, FetchServed, FetchNotFound,
         Unchecked, TypeInv, StoreType
<1>4. ASSUME NEW w \in Workers PROVE BatchDue(w)' /\ ClaimDue(w)'
  <2>1. Code(p) \notin batch[w] \cup {held[w]} /\ BatchDue(w) /\ ClaimDue(w)
    BY <1>1 DEF CodesAlone, DueInv
  <2>2. BatchDue(w)'
    BY <1>1, <1>3, <2>1 DEF BatchDue, workerVars, TypeInv, WorkerType
  <2>3. ClaimDue(w)'
    <3>1. wstage[w] = "claimed" => held[w] \in Codes \ {Code(p)}
      BY <2>1 DEF TypeInv, WorkerType
    <3>2. \A l \in Links : CodeOf[l] = held[w] => rows'[l] = rows[l]
      BY <1>2, <2>1
    <3>. QED  BY <1>1, <1>3, <2>1, <3>1, <3>2 DEF ClaimDue, LinkDue, workerVars
  <2>. QED  BY <2>2, <2>3
<1>. QED  BY <1>4 DEF DueInv

(* A claim finds the score that the schedule asks for.                     *)
LEMMA DueClaim ==
  ASSUME Faults = FALSE, TypeInv, ScheduleInv, DueInv, CodesAlone,
         NEW w \in Workers, NEW c \in Codes, Claim(w, c)
  PROVE  DueInv'
<1>0. /\ c \in batch[w] /\ rows' = rows /\ now' = now
      /\ batch' = [batch EXCEPT ![w] = @ \ {c}]
      /\ \/ /\ queue[c] # NoScore /\ queue' = [queue EXCEPT ![c] = NoScore]
            /\ wstage' = [wstage EXCEPT ![w] = "claimed"]
            /\ held' = [held EXCEPT ![w] = c]
         \/ UNCHANGED <<queue, wstage, held>>
  BY DEF Claim, dbVars
<1>1. \A v \in Workers : batch'[v] \subseteq batch[v]
  BY <1>0 DEF TypeInv, WorkerType
<1>2. \A d \in Codes : queue'[d] \in {queue[d], NoScore}
  BY <1>0 DEF TypeInv, StoreType
<1>3. ASSUME NEW v \in Workers PROVE BatchDue(v)'
  <2>1. \A d \in batch'[v] : d \in Codes /\ d \in batch[v]
    BY <1>1 DEF TypeInv, WorkerType
  <2>. QED  BY <1>0, <1>2, <2>1 DEF BatchDue, DueInv
<1>4. ASSUME NEW v \in Workers PROVE ClaimDue(v)'
  <2>1. CASE wstage'[v] = wstage[v] /\ held'[v] = held[v]
    <3>1. wstage[v] = "claimed" => held[v] \in Codes
      BY DEF TypeInv, WorkerType
    <3>. QED  BY <1>0, <1>2, <2>1, <3>1 DEF ClaimDue, LinkDue, DueInv
  <2>2. CASE ~(wstage'[v] = wstage[v] /\ held'[v] = held[v])
    <3>1. /\ v = w /\ held'[v] = c /\ queue[c] # NoScore /\ queue'[c] = NoScore
      BY <1>0, <2>2 DEF TypeInv, WorkerType, StoreType
    <3>2. ASSUME NEW l \in Links, CodeOf[l] = c, rows[l] # NoRow, rows[l].active
          PROVE  rows[l].exp # Never /\ Unix(rows[l].exp) <= Unix(now)
      <4>1. \A p \in Procs : ~Changer(p, l)
        BY <1>0, <3>2 DEF CodesAlone, Changer, Code
      <4>2. InOrder(l)
        BY <3>2, <4>1 DEF ScheduleInv, LinkInv
      <4>3. ~Claimed(l)
        BY <3>1, <3>2 DEF Claimed, DueInv, ClaimDue
      <4>4. rows[l].exp # Never /\ queue[c] = Unix(rows[l].exp)
        BY <3>1, <3>2, <4>2, <4>3 DEF InOrder
      <4>5. queue[c] <= Unix(now)
        BY <1>0, <3>1 DEF DueInv, BatchDue
      <4>. QED  BY <4>4, <4>5
    <3>. QED  BY <1>0, <3>1, <3>2 DEF ClaimDue, LinkDue
  <2>. QED  BY <2>1, <2>2
<1>. QED  BY <1>3, <1>4 DEF DueInv

(* The other steps of a worker, and those of the environment: rows only    *)
(* become inactive or go, and time only passes.                            *)
LEMMA DueRest ==
  ASSUME Faults = FALSE, TypeInv, DueInv,
         \/ \E w \in Workers : Scan(w) \/ Deactivate(w) \/ ClearCache(w)
         \/ Tick
         \/ \E u \in Leavers : DeleteUser(u)
         \/ \E p \in Procs, r \in Asked : Receive(p, r)
  PROVE  DueInv'
<1>1. queue' = queue
  BY DEF Scan, Deactivate, ClearCache, Tick, DeleteUser, Receive
<1>2. Unix(now) <= Unix(now')
  <2>1. now' = now \/ now' = now + 1
    BY DEF Scan, Deactivate, ClearCache, Tick, DeleteUser, Receive
  <2>2. now \in Nat /\ Unix(now) \in Nat
    BY UnixType DEF TypeInv, StoreType
  <2>. QED  BY <2>1, <2>2, UnixMonotone
<1>3. Unix(now) \in Nat /\ Unix(now') \in Nat
  <2>1. now \in Nat /\ now' \in Nat
    BY DEF Scan, Deactivate, ClearCache, Tick, DeleteUser, Receive, TypeInv, StoreType
  <2>. QED  BY <2>1, UnixType
<1>4. ASSUME NEW l \in Links, LinkDue(l) PROVE LinkDue(l)'
  <2>1. \/ rows'[l] = NoRow
        \/ rows'[l] = rows[l]
        \/ rows[l] # NoRow /\ rows'[l] = [rows[l] EXCEPT !.active = FALSE]
    BY DEF Scan, Deactivate, ClearCache, Tick, DeleteUser, Receive, dbVars, Unchecked,
           WithCode
  <2>2. CASE rows'[l] = rows[l]
    <3>1. rows[l] # NoRow => rows[l].exp \in Nat \cup {Never}
      BY DEF TypeInv, StoreType, Rows, Instants
    <3>2. rows[l] # NoRow /\ rows[l].exp # Never => Unix(rows[l].exp) \in Nat
      BY <3>1, UnixType
    <3>. QED  BY <1>2, <1>3, <1>4, <2>2, <3>2 DEF LinkDue
  <2>3. CASE rows[l] # NoRow /\ rows'[l] = [rows[l] EXCEPT !.active = FALSE]
    BY <2>3 DEF LinkDue, TypeInv, StoreType, Rows
  <2>. QED  BY <2>1, <2>2, <2>3 DEF LinkDue
<1>5. ASSUME NEW w \in Workers PROVE BatchDue(w)'
  <2>1. \/ batch'[w] = batch[w]
        \/ now' = now /\ batch'[w] \subseteq Due
    BY DEF Scan, Deactivate, ClearCache, Tick, DeleteUser, Receive, workerVars, Lowest,
           TypeInv, WorkerType
  <2>2. \A c \in batch[w] : queue[c] \in Nat \cup {NoScore}
    BY DEF TypeInv, WorkerType, StoreType
  <2>. QED  BY <1>1, <1>2, <1>3, <2>1, <2>2 DEF BatchDue, DueInv, Due
<1>6. ASSUME NEW w \in Workers PROVE ClaimDue(w)'
  <2>1. wstage'[w] = "claimed" => wstage[w] = "claimed" /\ held'[w] = held[w]
    BY DEF Scan, Deactivate, ClearCache, Tick, DeleteUser, Receive, workerVars,
           TypeInv, WorkerType
  <2>. QED  BY <1>1, <1>4, <2>1 DEF ClaimDue, DueInv
<1>. QED  BY <1>5, <1>6 DEF DueInv

LEMMA DueStep ==
  ASSUME OwnCodes, Faults = FALSE, TypeInv, ScheduleInv, DueInv, CodesAlone,
         [Next /\ CodesAlone']_vars
  PROVE  ScheduleInv' /\ DueInv' /\ CodesAlone'
<1>1. ScheduleInv'
  <2>1. ChangesAlone /\ (CodesAlone' => ChangesAlone')
    BY OneAtATime DEF CodesAlone, ChangesAlone, Changing
  <2>. QED  BY <2>1, ScheduleStep
<1>2. CASE UNCHANGED vars
  <2>1. DueInv'
    BY <1>2 DEF vars, DueInv, BatchDue, ClaimDue, LinkDue
  <2>2. CodesAlone'
    BY <1>2 DEF vars, CodesAlone, Code
  <2>. QED  BY <1>1, <2>1, <2>2
<1>3. CASE Next /\ CodesAlone'
  <2>1. DueInv'
    BY <1>3, DueRequest, DueClaim, DueRest DEF Next, Abort, WorkerStops, Work
  <2>. QED  BY <1>1, <1>3, <2>1
<1>. QED  BY <1>2, <1>3

(* Without failures, with a code of its own for each link and with one     *)
(* actor on a code at a time, no worker deactivates a link before the      *)
(* second of its expiry, although it claims a code some calls after the    *)
(* scan that found it due and deactivates it later still.                  *)
THEOREM OnlyDueLinksAreDeactivated ==
  ASSUME OwnCodes, Faults = FALSE
  PROVE  SpecCodesAlone => DeactivatesWhenDue
<1>1. Init => TypeInv /\ ScheduleInv /\ DueInv /\ CodesAlone
  <2>1. ASSUME Init PROVE DueInv /\ CodesAlone
    BY <2>1 DEF Init, DueInv, BatchDue, ClaimDue, CodesAlone
  <2>. QED  BY <2>1, TypeInit, ScheduleInit
<1>2. TypeInv /\ ScheduleInv /\ DueInv /\ CodesAlone /\ [Next /\ CodesAlone']_vars
        => (TypeInv /\ ScheduleInv /\ DueInv /\ CodesAlone)'
  BY TypeStep, DueStep
<1>3. TypeInv /\ DueInv /\ [Next /\ CodesAlone']_vars =>
        [\A l \in Links : Deactivates(l) =>
           rows[l].exp # Never /\ Unix(rows[l].exp) <= Unix(now)]_vars
  <2>. SUFFICES ASSUME TypeInv, DueInv, Next, NEW l \in Links, Deactivates(l)
                PROVE  rows[l].exp # Never /\ Unix(rows[l].exp) <= Unix(now)
    OBVIOUS
  <2>1. PICK w \in Workers : wstage[w] = "claimed" /\ wstage'[w] = "clearing"
    BY DEF Deactivates
  <2>2. PICK v \in Workers : Deactivate(v)
    BY <2>1 DEF Next, Handle, Work, Insert, Check, Write, Reread, CacheShorten,
      ScheduleExpiry, DropCache, Unschedule, Remove, ServeCached, LookupOther, FetchServed,
      FetchNotFound, Receive, Abort, Scan, Claim, ClearCache, WorkerStops, Tick, DeleteUser,
      workerVars, TypeInv, WorkerType
  <2>3. wstage[v] = "claimed" /\ CodeOf[l] = held[v]
    BY <2>2 DEF Deactivate, Deactivates, Unchecked, WithCode
  <2>. QED  BY <2>3 DEF DueInv, ClaimDue, LinkDue, Deactivates
<1>. QED  BY <1>1, <1>2, <1>3, PTL DEF SpecCodesAlone, DeactivatesWhenDue

-----------------------------------------------------------------------------
(* What a redirect answers from the cache.  Without failures, with a code  *)
(* of its own for each link, with one actor on a code at a time and while  *)
(* no account goes, the copy agrees with the row whenever somebody can ask *)
(* for it, and a link that is gone leaves nothing in Redis.                *)

Agrees(entry, row) ==
  entry.url = row.url /\ entry.exp = row.exp /\ entry.active = row.active

(* Between the write of a row and the call that brings its copy up to date *)
(* a request has one of three stages, and a worker one.                    *)
Moving == {"reread", "set", "drop"}
InMotion(l) ==
  \/ \E p \in Procs : stage[p] \in Moving /\ req[p].link = l
  \/ \E w \in Workers : wstage[w] = "clearing" /\ held[w] = CodeOf[l]

CopyOf(l) ==
  /\ rows[l] = NoRow => cache[CodeOf[l]] = NoEntry /\ queue[CodeOf[l]] = NoScore
  /\ cache[CodeOf[l]] # NoEntry /\ ~InMotion(l) => Agrees(cache[CodeOf[l]], rows[l])

(* What a request knows: nobody else works on its code.                    *)
Hand(p) ==
  /\ stage[p] = "reread" => rows[req[p].link] # NoRow
  /\ stage[p] \in {"set", "schedule"} =>
       rows[req[p].link] # NoRow /\ seen[p] = rows[req[p].link]
  /\ stage[p] \in {"unschedule", "remove"} => cache[CodeOf[req[p].link]] = NoEntry
  /\ stage[p] = "remove" => queue[CodeOf[req[p].link]] = NoScore

CopyInv == (\A l \in Links : CopyOf(l)) /\ (\A p \in Procs : Hand(p))

-----------------------------------------------------------------------------
(* Requests *)

(* Before a request begins to move its link, the copy agrees.              *)
LEMMA AtRest ==
  ASSUME OwnCodes, TypeInv, CodesAlone, NEW p \in Procs, stage[p] # "idle",
         stage[p] \notin Moving
  PROVE  ~InMotion(req[p].link)
<1>1. \A q \in Procs : stage[q] \in Moving => req[q].link # req[p].link
  BY DEF CodesAlone, Code, Moving
<1>2. \A w \in Workers : held[w] # CodeOf[req[p].link]
  BY DEF CodesAlone, Code
<1>. QED  BY <1>1, <1>2 DEF InMotion

(* A call of a request concerns its own link only: what has to be shown is *)
(* that it leaves this link in order.                                      *)
LEMMA OneCall ==
  ASSUME OwnCodes, TypeInv, CopyInv, CodesAlone, NEW p \in Procs, NEW l \in Links,
         stage[p] # "idle", req[p].link = l, UNCHANGED workerVars,
         \/ Finish(p)
         \/ /\ req' = req
            /\ \A q \in Procs \ {p} : stage'[q] = stage[q] /\ seen'[q] = seen[q],
         \A k \in Links \ {l} : rows'[k] = rows[k],
         \A d \in Codes \ {CodeOf[l]} : queue'[d] = queue[d] /\ cache'[d] = cache[d],
         rows'[l] = NoRow => cache'[CodeOf[l]] = NoEntry /\ queue'[CodeOf[l]] = NoScore,
         cache'[CodeOf[l]] # NoEntry /\ stage'[p] \notin Moving
           => Agrees(cache'[CodeOf[l]], rows'[l]),
         Hand(p)'
  PROVE  CopyInv'
<1>1. \A q \in Procs \ {p} : stage'[q] = stage[q] /\ seen'[q] = seen[q] /\ req'[q] = req[q]
  BY DEF Finish, TypeInv, RequestType
<1>2. Finish(p) => stage'[p] = "idle"
  BY DEF Finish, TypeInv, RequestType
<1>3. ASSUME NEW q \in Procs PROVE Hand(q)'
  <2>1. CASE q # p /\ stage[q] # "idle"
    <3>1. req[q].link \in Links /\ CodeOf[req[q].link] \in Codes
      BY <2>1, InFlight DEF TypeInv, Code
    <3>2. CodeOf[req[q].link] # CodeOf[l]
      BY <2>1 DEF CodesAlone, Code
    <3>3. req[q].link # l
      BY <3>2
    <3>4. Hand(q)
      BY DEF CopyInv
    <3>. QED  BY <1>1, <2>1, <3>1, <3>2, <3>3, <3>4 DEF Hand
  <2>2. CASE q # p /\ stage[q] = "idle"
    BY <1>1, <2>2 DEF Hand
  <2>. QED  BY <2>1, <2>2
<1>4. ASSUME NEW k \in Links PROVE CopyOf(k)'
  <2>1. CASE k = l
    <3>1. stage'[p] \in Moving => InMotion(l)'
      BY <1>2 DEF InMotion, Moving
    <3>. QED  BY <2>1, <3>1 DEF CopyOf
  <2>2. CASE k # l
    <3>1. CodeOf[k] \in Codes \ {CodeOf[l]}
      BY <2>2, DomainAssumption DEF OwnCodes
    <3>2. InMotion(k) => InMotion(k)'
      <4>1. \A q \in Procs : stage[q] \in Moving /\ req[q].link = k
              => stage'[q] \in Moving /\ req'[q].link = k
        BY <1>1, <2>2
      <4>. QED  BY <4>1 DEF InMotion, workerVars
    <3>. QED  BY <2>2, <3>1, <3>2 DEF CopyOf, CopyInv
  <2>. QED  BY <2>1, <2>2
<1>. QED  BY <1>3, <1>4 DEF CopyInv

(* What is known of the link when a request makes its next call.           *)
LEMMA BeforeCall ==
  ASSUME OwnCodes, TypeInv, CopyInv, CodesAlone, NEW p \in Procs, stage[p] # "idle"
  PROVE  /\ req[p].link \in Links /\ req[p] \in Requests
         /\ CodeOf[req[p].link] \in Codes /\ CodeOf[req[p].link] = Code(p)
         /\ CopyOf(req[p].link) /\ Hand(p)
         /\ stage[p] \notin Moving => ~InMotion(req[p].link)
  BY InFlight, AtRest DEF TypeInv, CopyInv, Code

LEMMA CopyInsert ==
  ASSUME OwnCodes, TypeInv, CopyInv, CodesAlone, NEW p \in Procs, Insert(p)
  PROVE  CopyInv'
<1>. DEFINE l == req[p].link
            row == [owner |-> req[p].who, url |-> req[p].url, exp |-> req[p].exp, active |-> TRUE]
<1>0. stage[p] = "insert" /\ UNCHANGED workerVars /\ cache' = cache /\ queue' = queue
  BY DEF Insert
<1>1. l \in Links /\ CodeOf[l] \in Codes /\ CopyOf(l) /\ ~InMotion(l)
  BY <1>0, BeforeCall DEF Moving
<1>2. CASE rows' = [rows EXCEPT ![l] = row] /\ Read(p, row, "set")
  <2>1. row \in Rows
    BY <1>0 DEF TypeInv, RequestType, Requests, Rows
  <2>. HIDE DEF row
  <2>2. rows'[l] = row /\ row # NoRow
    BY <1>1, <1>2, <2>1, AbsenceAssumption DEF TypeInv, StoreType
  <2>3. /\ stage'[p] = "set" /\ seen'[p] = row /\ req' = req
        /\ \A q \in Procs \ {p} : stage'[q] = stage[q] /\ seen'[q] = seen[q]
    BY <1>2 DEF Read, TypeInv, RequestType
  <2>4. Hand(p)'
    BY <2>2, <2>3 DEF Hand
  <2>5. \A k \in Links \ {l} : rows'[k] = rows[k]
    BY <1>2 DEF TypeInv, StoreType
  <2>. HIDE DEF l
  <2>. QED  BY <1>0, <1>1, <2>2, <2>3, <2>4, <2>5, OneCall DEF Moving, l
<1>3. CASE rows' = rows /\ Finish(p)
  <2>1. stage'[p] = "idle"
    BY <1>3 DEF Finish, TypeInv, RequestType
  <2>2. Hand(p)'
    BY <2>1 DEF Hand
  <2>. QED  BY <1>0, <1>1, <1>3, <2>1, <2>2, OneCall DEF CopyOf
<1>. QED  BY <1>2, <1>3 DEF Insert

(* The calls that only read.                                               *)
LEMMA CopyReads ==
  ASSUME OwnCodes, TypeInv, CopyInv, CodesAlone, NEW p \in Procs,
         Check(p) \/ Reread(p) \/ ServeCached(p) \/ LookupOther(p) \/ FetchServed(p)
           \/ FetchNotFound(p)
  PROVE  CopyInv'
<1>. DEFINE l == req[p].link
<1>0. stage[p] # "idle" /\ UNCHANGED workerVars /\ cache' = cache /\ queue' = queue /\ rows' = rows
  BY DEF Check, Reread, ServeCached, LookupOther, FetchServed, FetchNotFound, dbVars
<1>1. l \in Links /\ CodeOf[l] \in Codes /\ CodeOf[l] = Code(p) /\ CopyOf(l) /\ Hand(p)
      /\ (stage[p] \notin Moving => ~InMotion(l))
  BY <1>0, BeforeCall
<1>2. \/ Finish(p)
      \/ /\ req' = req
         /\ \A q \in Procs \ {p} : stage'[q] = stage[q] /\ seen'[q] = seen[q]
  BY DEF Check, Reread, ServeCached, LookupOther, FetchServed, FetchNotFound, Read, Proceed,
         TypeInv, RequestType
<1>3. \/ stage'[p] \in {"idle", "write", "drop", "fetch"}
      \/ stage'[p] = "set" /\ seen'[p] = rows[l] /\ rows[l] # NoRow /\ req' = req
  <2>1. CASE FetchServed(p)
    <3>1. PICK k \in Links : IsFirstWithCode(k, Code(p)) /\ Read(p, rows[k], "set")
      BY <2>1 DEF FetchServed
    <3>2. k = l /\ rows[k] # NoRow
      BY <1>1, <3>1 DEF IsFirstWithCode, WithCode, OwnCodes
    <3>. QED  BY <3>1, <3>2 DEF Read, TypeInv, RequestType
  <2>2. CASE Reread(p)
    BY <2>2 DEF Reread, Read, Finish, TypeInv, RequestType
  <2>3. CASE Check(p) \/ ServeCached(p) \/ LookupOther(p) \/ FetchNotFound(p)
    BY <2>3 DEF Check, ServeCached, LookupOther, FetchNotFound, Read, Proceed, Finish,
                TypeInv, RequestType
  <2>. QED  BY <2>1, <2>2, <2>3
<1>4. Hand(p)'
  BY <1>0, <1>3 DEF Hand
<1>5. stage'[p] \notin Moving => stage[p] \notin Moving
  <2>1. CASE Reread(p)
    <3>1. rows[l] # NoRow
      BY <1>1, <2>1 DEF Hand, Reread
    <3>. QED  BY <2>1, <3>1 DEF Reread, Read, Moving, TypeInv, RequestType
  <2>2. CASE ~Reread(p)
    BY <2>2 DEF Check, ServeCached, LookupOther, FetchServed, FetchNotFound, Moving
  <2>. QED  BY <2>1, <2>2
<1>6. /\ rows'[l] = NoRow => cache'[CodeOf[l]] = NoEntry /\ queue'[CodeOf[l]] = NoScore
      /\ cache'[CodeOf[l]] # NoEntry /\ stage'[p] \notin Moving
           => Agrees(cache'[CodeOf[l]], rows'[l])
  BY <1>0, <1>1, <1>5 DEF CopyOf
<1>. HIDE DEF l
<1>. QED  BY <1>0, <1>1, <1>2, <1>4, <1>6, OneCall DEF l

(* The calls that change a row.                                            *)
LEMMA CopyWrites ==
  ASSUME OwnCodes, TypeInv, CopyInv, CodesAlone, NEW p \in Procs, Write(p) \/ Remove(p)
  PROVE  CopyInv'
<1>. DEFINE l == req[p].link
            row == Patched(rows[l], req[p])
<1>0. stage[p] \in {"write", "remove"} /\ UNCHANGED workerVars /\ cache' = cache /\ queue' = queue
  BY DEF Write, Remove
<1>1. l \in Links /\ req[p] \in Requests /\ CodeOf[l] \in Codes /\ CopyOf(l) /\ Hand(p)
      /\ ~InMotion(l)
  BY <1>0, BeforeCall DEF Moving
<1>2. CASE Remove(p)
  <2>1. rows'[l] = NoRow /\ \A k \in Links \ {l} : rows'[k] = rows[k]
    BY <1>1, <1>2 DEF Remove, TypeInv, StoreType
  <2>2. Finish(p) /\ stage'[p] = "idle"
    BY <1>2 DEF Remove, Finish, TypeInv, RequestType
  <2>3. Hand(p)'
    BY <2>2 DEF Hand
  <2>4. cache'[CodeOf[l]] = NoEntry /\ queue'[CodeOf[l]] = NoScore
    BY <1>0, <1>1, <1>2 DEF Hand, Remove
  <2>. HIDE DEF l
  <2>. QED  BY <1>0, <1>1, <2>1, <2>2, <2>3, <2>4, OneCall DEF l
<1>3. CASE Write(p) /\ rows[l] # NoRow
  <2>1. row \in Rows
    BY <1>1, <1>3, PatchedType DEF TypeInv, StoreType
  <2>2. rows' = [rows EXCEPT ![l] = row] /\ Proceed(p, "reread")
    BY <1>3 DEF Write
  <2>. HIDE DEF row
  <2>3. rows'[l] # NoRow /\ \A k \in Links \ {l} : rows'[k] = rows[k]
    BY <1>1, <2>1, <2>2, AbsenceAssumption DEF TypeInv, StoreType
  <2>4. stage'[p] = "reread" /\ req' = req
        /\ \A q \in Procs \ {p} : stage'[q] = stage[q] /\ seen'[q] = seen[q]
    BY <2>2 DEF Proceed, TypeInv, RequestType
  <2>5. Hand(p)'
    BY <2>3, <2>4 DEF Hand
  <2>. HIDE DEF l
  <2>. QED  BY <1>0, <1>1, <2>3, <2>4, <2>5, OneCall DEF Moving, l
<1>4. CASE Write(p) /\ rows[l] = NoRow
  <2>1. rows' = rows /\ Finish(p) /\ stage'[p] = "idle"
    BY <1>4 DEF Write, Finish, TypeInv, RequestType
  <2>2. Hand(p)'
    BY <2>1 DEF Hand
  <2>. HIDE DEF l, row
  <2>. QED  BY <1>0, <1>1, <2>1, <2>2, OneCall DEF CopyOf, l
<1>. QED  BY <1>2, <1>3, <1>4

(* The calls that change the cache.                                        *)
LEMMA CopyCaches ==
  ASSUME OwnCodes, Faults = FALSE, TypeInv, CopyInv, CodesAlone, NEW p \in Procs,
         CacheShorten(p) \/ DropCache(p)
  PROVE  CopyInv'
<1>. DEFINE l == req[p].link
            s == IF stage[p] = "set" THEN "schedule" ELSE "unschedule"
            entry == IF stage[p] = "set" THEN CacheEntity(seen[p]) ELSE NoEntry
<1>0. /\ stage[p] \in {"set", "drop"} /\ UNCHANGED workerVars /\ queue' = queue /\ rows' = rows
      /\ cache' = [cache EXCEPT ![Code(p)] = entry]
      /\ Finish(p) \/ Proceed(p, s)
  BY DEF CacheShorten, DropCache, Unchecked, dbVars
<1>1. l \in Links /\ CodeOf[l] \in Codes /\ CodeOf[l] = Code(p) /\ CopyOf(l) /\ Hand(p)
  BY <1>0, BeforeCall
<1>2. /\ cache'[CodeOf[l]] = entry
      /\ \A d \in Codes \ {CodeOf[l]} : cache'[d] = cache[d]
  BY <1>0, <1>1 DEF TypeInv, StoreType
<1>3. stage[p] = "set" => rows[l] # NoRow /\ seen[p] = rows[l] /\ Agrees(entry, rows[l])
  BY <1>1 DEF Hand, Agrees, CacheEntity
<1>4. stage[p] # "set" => entry = NoEntry
  OBVIOUS
<1>5. /\ stage'[p] \in {"idle", s}
      /\ stage'[p] # "idle" => req' = req /\ seen' = seen
      /\ \/ Finish(p)
         \/ /\ req' = req
            /\ \A q \in Procs \ {p} : stage'[q] = stage[q] /\ seen'[q] = seen[q]
  BY <1>0 DEF Finish, Proceed, TypeInv, RequestType
<1>6. Hand(p)'
  BY <1>0, <1>2, <1>3, <1>4, <1>5 DEF Hand
<1>7. /\ rows'[l] = NoRow => cache'[CodeOf[l]] = NoEntry /\ queue'[CodeOf[l]] = NoScore
      /\ cache'[CodeOf[l]] # NoEntry => Agrees(cache'[CodeOf[l]], rows'[l])
  BY <1>0, <1>1, <1>2, <1>3, <1>4 DEF CopyOf
<1>. HIDE DEF l, s, entry
<1>. QED  BY <1>0, <1>1, <1>2, <1>5, <1>6, <1>7, OneCall DEF l

(* The calls that change the queue.                                        *)
LEMMA CopyQueues ==
  ASSUME OwnCodes, Faults = FALSE, TypeInv, CopyInv, CodesAlone, NEW p \in Procs,
         ScheduleExpiry(p) \/ Unschedule(p)
  PROVE  CopyInv'
<1>. DEFINE l == req[p].link
            score == IF stage[p] = "unschedule" \/ seen[p].exp = Never THEN NoScore
                     ELSE Unix(seen[p].exp)
<1>0. /\ stage[p] \in {"schedule", "unschedule"} /\ UNCHANGED workerVars /\ cache' = cache
      /\ rows' = rows
      /\ queue' = [queue EXCEPT ![Code(p)] = score]
      /\ Finish(p) \/ (stage[p] = "unschedule" /\ Proceed(p, "remove"))
  BY DEF ScheduleExpiry, Unschedule, Unchecked, dbVars
<1>1. l \in Links /\ CodeOf[l] \in Codes /\ CodeOf[l] = Code(p) /\ CopyOf(l) /\ Hand(p)
      /\ ~InMotion(l)
  BY <1>0, BeforeCall DEF Moving
<1>2. /\ queue'[CodeOf[l]] = score
      /\ \A d \in Codes \ {CodeOf[l]} : queue'[d] = queue[d]
  BY <1>0, <1>1 DEF TypeInv, StoreType
<1>3. stage[p] = "schedule" => rows[l] # NoRow
  BY <1>1 DEF Hand
<1>4. stage[p] = "unschedule" => cache[CodeOf[l]] = NoEntry /\ score = NoScore
  BY <1>1 DEF Hand
<1>5. /\ stage'[p] = "idle" \/ (stage[p] = "unschedule" /\ stage'[p] = "remove" /\ req' = req)
      /\ \/ Finish(p)
         \/ /\ req' = req
            /\ \A q \in Procs \ {p} : stage'[q] = stage[q] /\ seen'[q] = seen[q]
  BY <1>0 DEF Finish, Proceed, TypeInv, RequestType
<1>6. Hand(p)'
  BY <1>0, <1>2, <1>4, <1>5 DEF Hand
<1>7. /\ rows'[l] = NoRow => cache'[CodeOf[l]] = NoEntry /\ queue'[CodeOf[l]] = NoScore
      /\ cache'[CodeOf[l]] # NoEntry => Agrees(cache'[CodeOf[l]], rows'[l])
  BY <1>0, <1>1, <1>2, <1>3, <1>4 DEF CopyOf
<1>. HIDE DEF l, score
<1>. QED  BY <1>0, <1>1, <1>2, <1>5, <1>6, <1>7, OneCall DEF l

LEMMA CopyReceive ==
  ASSUME TypeInv, CopyInv, NEW p \in Procs, NEW r \in Asked, Receive(p, r)
  PROVE  CopyInv'
<1>0. /\ stage[p] = "idle" /\ UNCHANGED workerVars
      /\ UNCHANGED <<rows, cache, queue, seen>>
      /\ stage'[p] \in {"insert", "check", "lookup"}
      /\ \A q \in Procs \ {p} : stage'[q] = stage[q] /\ req'[q] = req[q]
  BY DEF Receive, FirstStage, TypeInv, RequestType
<1>1. ASSUME NEW l \in Links PROVE CopyOf(l)'
  <2>1. \A q \in Procs : stage[q] \in Moving /\ req[q].link = l
          => stage'[q] \in Moving /\ req'[q].link = l
    BY <1>0 DEF Moving
  <2>2. InMotion(l) => InMotion(l)'
    BY <1>0, <2>1 DEF InMotion, workerVars
  <2>. QED  BY <1>0, <2>2 DEF CopyOf, CopyInv
<1>2. ASSUME NEW q \in Procs PROVE Hand(q)'
  <2>1. CASE q = p
    BY <1>0, <2>1 DEF Hand
  <2>2. CASE q # p
    BY <1>0, <2>2 DEF Hand, CopyInv
  <2>. QED  BY <2>1, <2>2
<1>. QED  BY <1>1, <1>2 DEF CopyInv

-----------------------------------------------------------------------------
(* Workers and time *)

(* A worker works on a code that no request works on; all it does to the   *)
(* queue and to the cache is to remove.                                    *)
LEMMA CopyWorker ==
  ASSUME OwnCodes, Faults = FALSE, TypeInv, CopyInv, CodesAlone,
         NEW w \in Workers, Work(w)
  PROVE  CopyInv'
<1>0. UNCHANGED requestVars
  BY DEF Work, Scan, Claim, Deactivate, ClearCache
<1>1. \A c \in Codes : queue'[c] \in {queue[c], NoScore} /\ cache'[c] \in {cache[c], NoEntry}
  BY DEF Work, Scan, Claim, Deactivate, ClearCache, Unchecked, TypeInv, StoreType
<1>2. ASSUME NEW l \in Links
      PROVE  /\ (rows'[l] = NoRow) <=> (rows[l] = NoRow)
             /\ rows'[l] = rows[l] \/ (Deactivate(w) /\ held[w] = CodeOf[l])
  <2>1. CASE Deactivate(w)
    <3>1. rows'[l] = IF CodeOf[l] = held[w] /\ rows[l] # NoRow
                       THEN [rows[l] EXCEPT !.active = FALSE] ELSE rows[l]
      BY <2>1 DEF Deactivate, Unchecked, WithCode
    <3>2. rows[l] # NoRow => [rows[l] EXCEPT !.active = FALSE] \in Rows
      BY DEF TypeInv, StoreType, Rows
    <3>. QED  BY <2>1, <3>1, <3>2, AbsenceAssumption
  <2>2. CASE ~Deactivate(w)
    BY <2>2 DEF Work, Scan, Claim, ClearCache, dbVars
  <2>. QED  BY <2>1, <2>2
<1>3. ASSUME NEW q \in Procs PROVE Hand(q)'
  <2>1. CASE stage[q] # "idle"
    <3>1. req[q].link \in Links /\ CodeOf[req[q].link] \in Codes
          /\ held[w] # CodeOf[req[q].link]
      BY <2>1, InFlight DEF TypeInv, Code, CodesAlone
    <3>2. rows'[req[q].link] = rows[req[q].link]
      BY <1>2, <3>1
    <3>. QED  BY <1>0, <1>1, <3>1, <3>2 DEF Hand, CopyInv, requestVars
  <2>2. CASE stage[q] = "idle"
    BY <1>0, <2>2 DEF Hand, requestVars
  <2>. QED  BY <2>1, <2>2
<1>4. ASSUME NEW l \in Links PROVE CopyOf(l)'
  <2>0. CodeOf[l] \in Codes /\ CopyOf(l)
    BY DomainAssumption DEF CopyInv
  <2>1. rows'[l] = NoRow => cache'[CodeOf[l]] = NoEntry /\ queue'[CodeOf[l]] = NoScore
    BY <1>1, <1>2, <2>0 DEF CopyOf
  <2>2. CASE Deactivate(w) /\ held[w] = CodeOf[l]
    <3>1. wstage'[w] = "clearing" /\ held'[w] = CodeOf[l]
      BY <2>2 DEF Deactivate, TypeInv, WorkerType
    <3>2. InMotion(l)'
      BY <3>1 DEF InMotion
    <3>. QED  BY <2>1, <3>2 DEF CopyOf
  <2>3. CASE ClearCache(w) /\ held[w] = CodeOf[l]
    <3>1. cache'[CodeOf[l]] = NoEntry
      BY <2>0, <2>3 DEF ClearCache, Unchecked, TypeInv, StoreType
    <3>. QED  BY <2>1, <3>1 DEF CopyOf
  <2>4. CASE ~(held[w] = CodeOf[l] /\ (Deactivate(w) \/ ClearCache(w)))
    <3>1. ASSUME NEW v \in Workers, wstage[v] = "clearing", held[v] = CodeOf[l]
          PROVE  wstage'[v] = "clearing" /\ held'[v] = CodeOf[l]
      BY <2>4, <3>1 DEF Work, Scan, Claim, Deactivate, ClearCache, TypeInv, WorkerType
    <3>2. InMotion(l) => InMotion(l)'
      BY <1>0, <3>1 DEF InMotion, requestVars
    <3>3. rows'[l] = rows[l]
      BY <1>2, <2>4
    <3>. QED  BY <1>1, <2>0, <2>1, <3>2, <3>3 DEF CopyOf
  <2>. QED  BY <2>2, <2>3, <2>4
<1>. QED  BY <1>3, <1>4 DEF CopyInv

(* Time shortens the life of a copy, and changes nothing else of it.       *)
LEMMA CopyTick ==
  ASSUME TypeInv, CopyInv, Tick
  PROVE  CopyInv'
<1>0. UNCHANGED requestVars /\ UNCHANGED workerVars /\ UNCHANGED <<rows, queue>>
  BY DEF Tick, dbVars
<1>1. ASSUME NEW c \in Codes
      PROVE  \/ cache'[c] = NoEntry
             \/ /\ cache[c] # NoEntry
                /\ cache'[c].url = cache[c].url /\ cache'[c].exp = cache[c].exp
                /\ cache'[c].active = cache[c].active
  <2>1. cache[c] # NoEntry => cache[c] \in Entries
    BY DEF TypeInv, StoreType
  <2>2. cache'[c] = IF cache[c] = NoEntry \/ cache[c].left = Never THEN cache[c]
                    ELSE IF cache[c].left <= 1 THEN NoEntry
                    ELSE [cache[c] EXCEPT !.left = @ - 1]
    BY DEF Tick
  <2>3. CASE cache'[c] = cache[c]
    BY <2>3
  <2>4. CASE cache[c] # NoEntry /\ cache'[c] = [cache[c] EXCEPT !.left = @ - 1]
    BY <2>1, <2>4 DEF Entries
  <2>. QED  BY <2>2, <2>3, <2>4
<1>2. ASSUME NEW q \in Procs PROVE Hand(q)'
  <2>1. CASE stage[q] # "idle"
    <3>1. CodeOf[req[q].link] \in Codes
      BY <2>1, InFlight DEF TypeInv, Code
    <3>. QED  BY <1>0, <1>1, <3>1 DEF Hand, CopyInv, requestVars
  <2>2. CASE stage[q] = "idle"
    BY <1>0, <2>2 DEF Hand, requestVars
  <2>. QED  BY <2>1, <2>2
<1>3. ASSUME NEW l \in Links PROVE CopyOf(l)'
  <2>1. CodeOf[l] \in Codes /\ CopyOf(l)
    BY DomainAssumption DEF CopyInv
  <2>2. InMotion(l)' <=> InMotion(l)
    BY <1>0 DEF InMotion, requestVars, workerVars
  <2>. QED  BY <1>0, <1>1, <2>1, <2>2 DEF CopyOf, Agrees
<1>. QED  BY <1>2, <1>3 DEF CopyInv

-----------------------------------------------------------------------------
(* The invariant and what follows from it *)

LEMMA CopyInit == Init => CopyInv
  BY DomainAssumption DEF Init, CopyInv, CopyOf, Hand

LEMMA CopyStep ==
  ASSUME OwnCodes, Faults = FALSE, Leavers = {}, TypeInv, CopyInv, CodesAlone,
         [Next /\ CodesAlone']_vars
  PROVE  CopyInv' /\ CodesAlone'
<1>1. CASE UNCHANGED vars
  <2>1. CopyInv'
    BY <1>1 DEF vars, CopyInv, CopyOf, Hand, InMotion
  <2>. QED  BY <1>1, <2>1 DEF vars, CodesAlone, Code
<1>2. CASE Next /\ CodesAlone'
  <2>1. ASSUME NEW p \in Procs, Handle(p) PROVE CopyInv'
    BY <2>1, CopyInsert, CopyReads, CopyWrites, CopyCaches, CopyQueues DEF Handle
  <2>. QED
    BY <1>2, <2>1, CopyReceive, CopyWorker, CopyTick DEF Next, Abort, WorkerStops
<1>. QED  BY <1>1, <1>2

LEMMA CopyInvariance ==
  ASSUME OwnCodes, Faults = FALSE, Leavers = {}
  PROVE  SpecCodesAlone => [](TypeInv /\ CopyInv /\ CodesAlone)
<1>1. Init => TypeInv /\ CopyInv /\ CodesAlone
  BY TypeInit, CopyInit DEF Init, CodesAlone
<1>2. TypeInv /\ CopyInv /\ CodesAlone /\ [Next /\ CodesAlone']_vars
        => (TypeInv /\ CopyInv /\ CodesAlone)'
  BY TypeStep, CopyStep
<1>. QED  BY <1>1, <1>2, PTL DEF SpecCodesAlone

(* Without failures, with a code of its own for each link, with one actor  *)
(* on a code at a time and while no account goes, a link without a row is  *)
(* neither cached nor queued.                                              *)
THEOREM GoneIsGone ==
  ASSUME OwnCodes, Faults = FALSE, Leavers = {}
  PROVE  SpecCodesAlone => []NothingLeftBehind
<1>1. CopyInv => NothingLeftBehind
  BY DEF CopyInv, CopyOf, NothingLeftBehind
<1>. QED  BY <1>1, CopyInvariance, PTL

(* Under the same assumptions a redirect that is answered from the cache   *)
(* answers as the row says: the row exists, is active and has not expired, *)
(* and its URL is the one served, although the copy was made some calls    *)
(* after the row was read and outlives the request that made it.           *)
THEOREM RedirectsAreTrue ==
  ASSUME OwnCodes, Faults = FALSE, Leavers = {}
  PROVE  SpecCodesAlone => RedirectFollowsRow
<1>1. TypeInv /\ CopyInv /\ CodesAlone /\ [Next /\ CodesAlone']_vars =>
        [\A p \in Procs : ServeCached(p) =>
           \E l \in WithCode(Code(p)) : /\ ShouldServe(rows[l])
                                         /\ rows[l].url = cache[Code(p)].url]_vars
  <2>. SUFFICES ASSUME TypeInv, CopyInv, CodesAlone, NEW p \in Procs, ServeCached(p)
                PROVE  \E l \in WithCode(Code(p)) : /\ ShouldServe(rows[l])
                                                     /\ rows[l].url = cache[Code(p)].url
    OBVIOUS
  <2>. DEFINE l == req[p].link
  <2>1. stage[p] = "lookup" /\ cache[Code(p)] # NoEntry /\ ShouldServe(cache[Code(p)])
    BY DEF ServeCached
  <2>2. l \in Links /\ CodeOf[l] = Code(p) /\ CopyOf(l) /\ ~InMotion(l)
    BY <2>1, BeforeCall DEF Moving
  <2>3. rows[l] # NoRow /\ Agrees(cache[Code(p)], rows[l])
    BY <2>1, <2>2 DEF CopyOf
  <2>4. l \in WithCode(Code(p))
    BY <2>2, <2>3 DEF WithCode
  <2>. QED  BY <2>1, <2>3, <2>4 DEF Agrees, ShouldServe, Expired
<1>. QED  BY <1>1, CopyInvariance, PTL DEF SpecCodesAlone, RedirectFollowsRow
=============================================================================
