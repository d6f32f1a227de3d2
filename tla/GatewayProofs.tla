---------------------------- MODULE GatewayProofs ----------------------------
(***************************************************************************)
(* The gateway, for any number of failing calls, and up to the exceptions  *)
(* that its properties name: what a client is told is documented and true, *)
(* who is refused has changed nothing, what success says is gone is gone,  *)
(* and the cookies of a browser name what exists.                          *)
(***************************************************************************)
EXTENDS RouteProofs

-----------------------------------------------------------------------------
(* Type correctness, with what the other proofs need of a request's record *)
Requests ==
  [handler : DOMAIN Routes, pos : Nat, answer : Nat, faults : Nat, cut : BOOLEAN,
   upset : BOOLEAN, missed : BOOLEAN, unfit : BOOLEAN, ignored : BOOLEAN,
   gave : SUBSET Things, took : SUBSET Things, unlisted : SUBSET Things]

TypeInv ==
  /\ world \subseteq Things /\ cookies \subseteq Cookies /\ excused \in BOOLEAN
  /\ \/ req = Idle
     \/ /\ req \in Requests /\ req.pos \in 1 .. Len(Handler.steps) + 1
        /\ req.answer = 0 \/ req.answer \in 200 .. 599

(* A request is not Idle.                                                  *)
LEMMA NotIdle == \A r \in Requests : r # Idle
<1>1. "none" \notin DOMAIN Routes
  BY RouteNames
<1>. QED  BY <1>1 DEF Requests, Idle

(* A request is on a route, at one of its steps or behind them.            *)
LEMMA StepFacts ==
  ASSUME TypeInv, req # Idle
  PROVE  /\ req \in Requests /\ req.handler \in DOMAIN Routes
         /\ Handler.steps \in Seq(Steps) /\ Len(Handler.steps) \in Nat
         /\ req.pos \in 1 .. Len(Handler.steps) + 1
         /\ req.pos <= Len(Handler.steps) => Step \in Steps
<1>1. req \in Requests /\ req.handler \in DOMAIN Routes
  BY DEF TypeInv, Requests
<1>2. Tailed(Handler.steps, Work)
  BY <1>1, Fits, UpdateUserFits
<1>3. Handler.steps \in Seq(Steps) /\ Len(Handler.steps) \in Nat
  BY <1>2, TailedAt
<1>. QED  BY <1>1, <1>3, ElementOfSeq DEF TypeInv, Step

(* What the fields of a step may be.                                       *)
LEMMA StepForms ==
  ASSUME NEW st \in Steps
  PROVE  /\ st.kind \in {"check", "limit", "call"}
         /\ st.kind = "check" => st.what \in Labels /\ st.err \in Terms
         /\ st.kind = "call" => /\ st.needs \subseteq Things /\ st.gives \subseteq Things
                                /\ st.takes \subseteq Things /\ st.undo \subseteq Fresh
  BY DEF Steps

(* The status of an error is one of an error.                              *)
LEMMA StatusFacts ==
  ASSUME req.handler \in DOMAIN Routes
  PROVE  \A err : Status(err) = StatusIn(Handler.errors, err) /\ Status(err) \in 400 .. 503
<1>. TAKE err
<1>1. Status(err) = StatusIn(Handler.errors, err)
  BY DEF Status, StatusIn
<1>2. Status(err) \in {400, 401, 403, 404, 409, 429, 500, 503}
  <2>1. UserError(err) \in {400, 401, 403, 404, 409, 500}
    BY DEF UserError
  <2>2. LinkError(err) \in {400, 403, 404, 500}
    BY DEF LinkError
  <2>3. err \in DOMAIN Direct => Direct[err] \in {400, 401, 403, 429, 503}
    BY DEF Direct
  <2>. QED  BY <2>1, <2>2, <2>3 DEF Status
<1>. QED  BY <1>1, <1>2

(* Fields of the record that no step but its own actions touch.            *)
SameRecord(r) ==
  /\ req' \in Requests /\ req'.handler = r.handler /\ req'.faults = r.faults
  /\ req'.cut = r.cut /\ req'.upset = r.upset /\ req'.missed = r.missed
  /\ req'.unfit = r.unfit /\ req'.gave = r.gave /\ req'.took = r.took
  /\ req'.unlisted = r.unlisted

(* What going on and ending do to the record.                              *)
LEMMA GoesDoes ==
  ASSUME NEW r \in Requests, Goes(r)
  PROVE  /\ SameRecord(r) /\ req'.ignored = r.ignored
         /\ req'.pos = r.pos + 1 /\ req'.answer = r.answer
  BY DEF Goes, Requests, SameRecord

LEMMA EndsDoes ==
  ASSUME req.handler \in DOMAIN Routes, NEW r \in Requests, NEW err, Ends(r, err)
  PROVE  /\ SameRecord(r) /\ req'.ignored = r.ignored
         /\ req'.pos = r.pos /\ req'.answer = Status(err)
<1>1. Status(err) \in Nat
  BY StatusFacts
<1>. QED  BY <1>1 DEF Ends, Requests, SameRecord

(* An error is told, or ignored.                                           *)
LEMMA RaisedIs == \A raw : Raised(raw) = Told(Step, raw)
  BY DEF Raised, Told, Classified

LEMMA RaiseDoes ==
  ASSUME req.handler \in DOMAIN Routes, NEW r \in Requests, NEW raw, Raise(r, raw)
  PROVE  /\ SameRecord(r)
         /\ \/ /\ Told(Step, raw) = "ignored" /\ req'.ignored
               /\ req'.pos = r.pos + 1 /\ req'.answer = r.answer
            \/ /\ Told(Step, raw) # "ignored" /\ req'.ignored = r.ignored
               /\ req'.pos = r.pos /\ req'.answer = Status(Told(Step, raw))
<1>. DEFINE i == [r EXCEPT !.ignored = TRUE]
<1>1. /\ i \in Requests /\ i.ignored /\ i.pos = r.pos /\ i.answer = r.answer
      /\ i.handler = r.handler /\ i.faults = r.faults /\ i.cut = r.cut
      /\ i.upset = r.upset /\ i.missed = r.missed /\ i.gave = r.gave /\ i.took = r.took
      /\ i.unfit = r.unfit /\ i.unlisted = r.unlisted
  BY DEF Requests
<1>. HIDE DEF i
<1>2. CASE Told(Step, raw) = "ignored"
  <2>1. Goes(i)
    BY <1>2, RaisedIs DEF Raise, i
  <2>. QED  BY <1>1, <1>2, <2>1, GoesDoes DEF SameRecord
<1>3. CASE Told(Step, raw) # "ignored"
  <2>1. Ends(r, Told(Step, raw))
    BY <1>3, RaisedIs DEF Raise
  <2>. QED  BY <1>3, <2>1, EndsDoes
<1>. QED  BY <1>2, <1>3

(* What each of the steps of a request does to its record.                 *)
LEMMA InspectDoes ==
  ASSUME TypeInv, Inspect
  PROVE  /\ Running /\ req.pos <= Len(Handler.steps) /\ Step.kind = "check"
         /\ UNCHANGED <<world, cookies, excused>>
         /\ req' \in Requests /\ req'.handler = req.handler
         /\ req'.gave = req.gave /\ req'.took = req.took /\ req'.cut = req.cut
         /\ req'.ignored = req.ignored /\ req'.upset = req.upset
         /\ req'.unlisted = req.unlisted
         /\ \/ /\ req'.pos = req.pos + 1 /\ req'.answer = 0 /\ TRUE \in Outcomes(Step.what)
            \/ /\ req'.pos = req.pos /\ req'.answer = Status(Step.err)
               /\ FALSE \in Outcomes(Step.what) /\ (Step.what = "rows" => req'.missed)
<1>1. /\ Running /\ req.pos <= Len(Handler.steps) /\ Step.kind = "check"
      /\ UNCHANGED <<world, cookies, excused>>
  BY DEF Inspect, AtStep
<1>2. req \in Requests /\ req.handler \in DOMAIN Routes /\ req.answer = 0
  BY <1>1, StepFacts DEF Running
<1>3. PICK ok \in Outcomes(Step.what) :
        IF ok THEN Goes(req)
        ELSE Ends([req EXCEPT !.missed = @ \/ Step.what = "rows"], Step.err)
  BY DEF Inspect
<1>4. ok \in BOOLEAN
  BY <1>3 DEF Outcomes
<1>5. CASE ok
  BY <1>1, <1>2, <1>3, <1>4, <1>5, GoesDoes DEF SameRecord
<1>6. CASE ~ok
  <2>. DEFINE r == [req EXCEPT !.missed = @ \/ Step.what = "rows"]
  <2>1. /\ r \in Requests /\ r.handler = req.handler /\ r.cut = req.cut /\ r.upset = req.upset
        /\ r.gave = req.gave /\ r.took = req.took /\ r.ignored = req.ignored
        /\ r.pos = req.pos /\ (Step.what = "rows" => r.missed) /\ r.unlisted = req.unlisted
    BY <1>2 DEF Requests
  <2>2. Ends(r, Step.err)
    BY <1>3, <1>6
  <2>. HIDE DEF r
  <2>. QED  BY <1>1, <1>2, <1>3, <1>4, <1>6, <2>1, <2>2, EndsDoes DEF SameRecord
<1>. QED  BY <1>4, <1>5, <1>6

LEMMA MeterDoes ==
  ASSUME TypeInv, Meter
  PROVE  /\ Running /\ req.pos <= Len(Handler.steps) /\ Step.kind = "limit"
         /\ UNCHANGED <<world, cookies, excused>>
         /\ req' \in Requests /\ req'.handler = req.handler
         /\ req'.gave = req.gave /\ req'.took = req.took
         /\ req'.ignored = req.ignored /\ req'.upset = req.upset
         /\ req'.unlisted = req.unlisted
         /\ \/ req'.pos = req.pos + 1 /\ req'.answer = 0 /\ req'.cut = req.cut
            \/ req'.pos = req.pos /\ req'.answer = 429 /\ req'.cut = req.cut
            \/ req'.pos = req.pos /\ req'.answer = 503 /\ req'.cut
<1>1. /\ Running /\ req.pos <= Len(Handler.steps) /\ Step.kind = "limit"
      /\ UNCHANGED <<world, cookies, excused>>
  BY DEF Meter, AtStep
<1>2. req \in Requests /\ req.handler \in DOMAIN Routes /\ req.answer = 0
  BY <1>1, StepFacts DEF Running
<1>3. Status("TooManyRequests") = 429 /\ Status("ServiceUnavailable") = 503
  BY DEF Status, Direct
<1>4. CASE Goes(req)
  BY <1>1, <1>2, <1>4, GoesDoes DEF SameRecord
<1>5. CASE Ends(req, "TooManyRequests")
  BY <1>1, <1>2, <1>3, <1>5, EndsDoes DEF SameRecord
<1>6. CASE LET r == [req EXCEPT !.faults = @ + 1]
           IN IF Step.open THEN Goes(r) ELSE Ends([r EXCEPT !.cut = TRUE], "ServiceUnavailable")
  <2>. DEFINE r == [req EXCEPT !.faults = @ + 1]
              c == [r EXCEPT !.cut = TRUE]
  <2>1. /\ r \in Requests /\ r.handler = req.handler /\ r.cut = req.cut /\ r.upset = req.upset
        /\ r.gave = req.gave /\ r.took = req.took /\ r.ignored = req.ignored
        /\ r.pos = req.pos /\ r.answer = req.answer /\ r.unlisted = req.unlisted
    BY <1>2 DEF Requests
  <2>2. /\ c \in Requests /\ c.handler = req.handler /\ c.cut /\ c.upset = req.upset
        /\ c.gave = req.gave /\ c.took = req.took /\ c.ignored = req.ignored /\ c.pos = req.pos
        /\ c.unlisted = req.unlisted
    <3>. HIDE DEF r
    <3>. QED  BY <2>1 DEF Requests
  <2>3. Goes(r) \/ Ends(c, "ServiceUnavailable")
    BY <1>6
  <2>. HIDE DEF r, c
  <2>4. CASE Goes(r)
    BY <1>1, <1>2, <2>1, <2>4, GoesDoes DEF SameRecord
  <2>5. CASE Ends(c, "ServiceUnavailable")
    BY <1>1, <1>2, <1>3, <2>2, <2>5, EndsDoes DEF SameRecord
  <2>. QED  BY <2>3, <2>4, <2>5
<1>. QED  BY <1>4, <1>5, <1>6 DEF Meter

(* What the set lists, and what a call takes.                              *)
LEMMA TakenIs ==
  /\ Unlisted \subseteq Things /\ Taken \subseteq Step.takes
  /\ ~Step.listed => Taken = Step.takes
<1>1. DOMAIN MemberOf \subseteq Things
  BY DEF MemberOf, Things, UserKeys, BrowserKeys, NewKeys
<1>. QED  BY <1>1 DEF Unlisted, Taken

LEMMA PerformDoes ==
  ASSUME TypeInv, Perform
  PROVE  /\ Running /\ req.pos <= Len(Handler.steps) /\ Step.kind = "call"
         /\ Step.needs \subseteq world /\ world' = (world \cup Step.gives) \ Taken
         /\ UNCHANGED <<cookies, excused>>
         /\ req' \in Requests /\ req'.handler = req.handler
         /\ req'.pos = req.pos + 1 /\ req'.answer = 0
         /\ req'.gave = req.gave \cup Step.gives
         /\ req'.took = req.took \cup (Taken \cap world)
         /\ req'.unlisted = IF Step.listed THEN Unlisted ELSE req.unlisted
         /\ req'.cut = req.cut /\ req'.ignored = req.ignored /\ req'.upset = req.upset
<1>1. /\ Running /\ req.pos <= Len(Handler.steps) /\ Step.kind = "call"
      /\ Step.needs \subseteq world /\ world' = (world \cup Step.gives) \ Taken
      /\ UNCHANGED <<cookies, excused>>
  BY DEF Perform, AtStep
<1>2. req \in Requests /\ Step \in Steps /\ req.answer = 0
  BY <1>1, StepFacts DEF Running
<1>3. /\ req.gave \cup Step.gives \in SUBSET Things
      /\ req.took \cup (Taken \cap world) \in SUBSET Things
      /\ (IF Step.listed THEN Unlisted ELSE req.unlisted) \in SUBSET Things
  <2>1. Step.gives \subseteq Things /\ Step.takes \subseteq Things
    BY <1>1, <1>2, StepForms
  <2>2. req.gave \subseteq Things /\ req.took \subseteq Things /\ req.unlisted \subseteq Things
    BY <1>2 DEF Requests
  <2>. QED  BY <2>1, <2>2, TakenIs
<1>. DEFINE g == req.gave \cup Step.gives
            k == req.took \cup (Taken \cap world)
            u == IF Step.listed THEN Unlisted ELSE req.unlisted
            r == [req EXCEPT !.gave = g, !.took = k, !.unlisted = u]
<1>4. Goes(r)
  BY DEF Perform
<1>5. /\ r \in Requests /\ r.handler = req.handler /\ r.cut = req.cut /\ r.upset = req.upset
      /\ r.gave = g /\ r.took = k /\ r.unlisted = u
      /\ r.ignored = req.ignored /\ r.pos = req.pos /\ r.answer = req.answer
  <2>. HIDE DEF g, k, u
  <2>. QED  BY <1>2, <1>3 DEF Requests, g, k, u
<1>. HIDE DEF r
<1>. QED  BY <1>1, <1>2, <1>4, <1>5, GoesDoes DEF SameRecord

LEMMA LackDoes ==
  ASSUME TypeInv, Lack
  PROVE  /\ Running /\ req.pos <= Len(Handler.steps) /\ Step.kind = "call"
         /\ ~(Step.needs \subseteq world)
         /\ \E undone \in SUBSET Step.undo : world' = world \ undone
         /\ UNCHANGED <<cookies, excused>>
         /\ req' \in Requests /\ req'.handler = req.handler
         /\ req'.gave = req.gave /\ req'.took = req.took /\ req'.cut = req.cut
         /\ req'.upset = req.upset /\ req'.missed /\ req'.unlisted = req.unlisted
         /\ \/ /\ Told(Step, Missing(Step)) = "ignored" /\ req'.ignored
               /\ req'.pos = req.pos + 1 /\ req'.answer = 0
            \/ /\ Told(Step, Missing(Step)) # "ignored" /\ req'.ignored = req.ignored
               /\ req'.pos = req.pos /\ req'.answer = Status(Told(Step, Missing(Step)))
<1>1. /\ Running /\ req.pos <= Len(Handler.steps) /\ Step.kind = "call"
      /\ ~(Step.needs \subseteq world) /\ UNCHANGED <<cookies, excused>>
  BY DEF Lack, AtStep
<1>2. req \in Requests /\ req.handler \in DOMAIN Routes /\ req.answer = 0
  BY <1>1, StepFacts DEF Running
<1>3. \E undone \in SUBSET Step.undo : world' = world \ undone
  BY DEF Lack, Undone
<1>. DEFINE r == [req EXCEPT !.missed = TRUE]
<1>4. /\ r \in Requests /\ r.handler = req.handler /\ r.cut = req.cut /\ r.upset = req.upset
      /\ r.gave = req.gave /\ r.took = req.took /\ r.ignored = req.ignored /\ r.missed
      /\ r.pos = req.pos /\ r.answer = req.answer /\ r.unlisted = req.unlisted
  BY <1>2 DEF Requests
<1>5. Raise(r, Missing(Step))
  BY DEF Lack, Missing
<1>. HIDE DEF r
<1>6. /\ SameRecord(r)
      /\ \/ /\ Told(Step, Missing(Step)) = "ignored" /\ req'.ignored
            /\ req'.pos = r.pos + 1 /\ req'.answer = r.answer
         \/ /\ Told(Step, Missing(Step)) # "ignored" /\ req'.ignored = r.ignored
            /\ req'.pos = r.pos /\ req'.answer = Status(Told(Step, Missing(Step)))
  BY <1>2, <1>4, <1>5, RaiseDoes
<1>. QED  BY <1>1, <1>2, <1>3, <1>4, <1>6 DEF SameRecord

LEMMA RefuseDoes ==
  ASSUME TypeInv, Refuse
  PROVE  /\ Running /\ req.pos <= Len(Handler.steps) /\ Step.kind = "call"
         /\ UNCHANGED <<world, cookies, excused>>
         /\ req' \in Requests /\ req'.handler = req.handler
         /\ req'.gave = req.gave /\ req'.took = req.took /\ req'.cut = req.cut
         /\ req'.upset = req.upset /\ req'.unlisted = req.unlisted
         /\ \E raw \in Step.raw :
              /\ (req'.unfit <=> raw \in Unfit)
              /\ \/ /\ Told(Step, raw) = "ignored" /\ req'.ignored
                    /\ req'.pos = req.pos + 1 /\ req'.answer = 0
                 \/ /\ Told(Step, raw) # "ignored" /\ req'.ignored = req.ignored
                    /\ req'.pos = req.pos /\ req'.answer = Status(Told(Step, raw))
<1>1. /\ Running /\ req.pos <= Len(Handler.steps) /\ Step.kind = "call"
      /\ UNCHANGED <<world, cookies, excused>>
  BY DEF Refuse, AtStep
<1>2. req \in Requests /\ req.handler \in DOMAIN Routes /\ req.answer = 0
  BY <1>1, StepFacts DEF Running
<1>3. PICK raw \in Step.raw : Raise([req EXCEPT !.unfit = raw \in Unfit], raw)
  BY DEF Refuse
<1>4. PICK unfit \in BOOLEAN : unfit = (raw \in Unfit)
  <2>1. (raw \in Unfit) \in BOOLEAN
    OBVIOUS
  <2>. QED  BY <2>1
<1>. DEFINE r == [req EXCEPT !.unfit = unfit]
<1>5. /\ r \in Requests /\ r.handler = req.handler /\ r.cut = req.cut /\ r.upset = req.upset
      /\ r.gave = req.gave /\ r.took = req.took /\ r.ignored = req.ignored
      /\ r.pos = req.pos /\ r.answer = req.answer /\ r.unlisted = req.unlisted
      /\ r.unfit = unfit
  BY <1>2 DEF Requests
<1>6. Raise(r, raw)
  BY <1>3, <1>4
<1>. HIDE DEF r
<1>7. /\ SameRecord(r)
      /\ \/ /\ Told(Step, raw) = "ignored" /\ req'.ignored
            /\ req'.pos = r.pos + 1 /\ req'.answer = r.answer
         \/ /\ Told(Step, raw) # "ignored" /\ req'.ignored = r.ignored
            /\ req'.pos = r.pos /\ req'.answer = Status(Told(Step, raw))
  BY <1>2, <1>5, <1>6, RaiseDoes
<1>8. (req'.unfit <=> raw \in Unfit)
  BY <1>4, <1>5, <1>7 DEF SameRecord
<1>. QED  BY <1>1, <1>2, <1>5, <1>7, <1>8 DEF SameRecord

LEMMA FailDoes ==
  ASSUME TypeInv, Fail
  PROVE  /\ Running /\ req.pos <= Len(Handler.steps) /\ Step.kind = "call"
         /\ UNCHANGED <<cookies, excused>>
         /\ req' \in Requests /\ req'.handler = req.handler /\ req'.upset = req.upset
         /\ req'.unlisted = req.unlisted
         /\ \E gives \in SUBSET Step.gives, takes \in SUBSET (Taken \cap world),
               undone \in SUBSET Step.undo, raw \in Faults(Step) :
              /\ Step.needs \subseteq world \/ gives \cup takes = {}
              /\ world' = ((world \cup gives) \ takes) \ undone
              /\ req'.gave = req.gave \cup gives /\ req'.took = req.took \cup takes
              /\ \/ /\ Told(Step, raw) = "ignored" /\ req'.ignored /\ ~req'.cut
                    /\ req'.pos = req.pos + 1 /\ req'.answer = 0
                 \/ /\ Told(Step, raw) # "ignored" /\ req'.ignored = req.ignored /\ req'.cut
                    /\ req'.pos = req.pos /\ req'.answer = Status(Told(Step, raw))
<1>1. /\ Running /\ req.pos <= Len(Handler.steps) /\ Step.kind = "call"
      /\ UNCHANGED <<cookies, excused>>
  BY DEF Fail, AtStep
<1>2. /\ req \in Requests /\ req.handler \in DOMAIN Routes /\ req.answer = 0
      /\ Step \in Steps
  BY <1>1, StepFacts DEF Running
<1>3. Step.gives \subseteq Things /\ Step.takes \subseteq Things
  BY <1>1, <1>2, StepForms
<1>4. PICK gives \in SUBSET Step.gives, takes \in SUBSET (Taken \cap world),
           undone \in SUBSET Step.undo, raw \in Faults(Step) :
        /\ Step.needs \subseteq world \/ gives \cup takes = {}
        /\ world' = ((world \cup gives) \ takes) \ undone
        /\ Raise([req EXCEPT !.faults = @ + 1, !.gave = @ \cup gives, !.took = @ \cup takes,
                             !.cut = Raised(raw) # "ignored"], raw)
  BY Zenon DEF Fail, Faults
<1>5. gives \in SUBSET Things /\ takes \in SUBSET Things
  BY <1>3, <1>4, TakenIs
<1>6. PICK told \in BOOLEAN : told = (Raised(raw) # "ignored")
  OBVIOUS
<1>. DEFINE r == [req EXCEPT !.faults = @ + 1, !.gave = @ \cup gives, !.took = @ \cup takes,
                             !.cut = told]
<1>7. /\ r \in Requests /\ r.handler = req.handler /\ r.upset = req.upset
      /\ r.gave = req.gave \cup gives /\ r.took = req.took \cup takes
      /\ r.ignored = req.ignored /\ r.pos = req.pos /\ r.answer = req.answer /\ r.cut = told
      /\ r.unlisted = req.unlisted
  <2>1. /\ r.handler = req.handler /\ r.upset = req.upset /\ r.ignored = req.ignored
        /\ r.pos = req.pos /\ r.answer = req.answer /\ r.unlisted = req.unlisted
    BY <1>2 DEF Requests
  <2>2. r.gave = req.gave \cup gives /\ r.took = req.took \cup takes
    BY <1>2 DEF Requests
  <2>3. r.cut = told
    BY <1>2 DEF Requests
  <2>4. r \in Requests
    <3>. DEFINE f == req.faults + 1
                g == req.gave \cup gives
                k == req.took \cup takes
    <3>1. f \in Nat /\ g \in SUBSET Things /\ k \in SUBSET Things
      BY <1>2, <1>5 DEF Requests
    <3>2. r = [req EXCEPT !.faults = f, !.gave = g, !.took = k, !.cut = told]
      OBVIOUS
    <3>. HIDE DEF f, g, k
    <3>. QED  BY <1>2, <3>1, <3>2 DEF Requests
  <2>. QED  BY <2>1, <2>2, <2>3, <2>4
<1>8. Raise(r, raw)
  BY <1>4, <1>6
<1>. HIDE DEF r
<1>9. /\ req' \in Requests /\ req'.handler = req.handler /\ req'.upset = req.upset
      /\ req'.gave = req.gave \cup gives /\ req'.took = req.took \cup takes
      /\ req'.unlisted = req.unlisted
      /\ \/ /\ Told(Step, raw) = "ignored" /\ req'.ignored /\ ~req'.cut
            /\ req'.pos = req.pos + 1 /\ req'.answer = 0
         \/ /\ Told(Step, raw) # "ignored" /\ req'.ignored = req.ignored /\ req'.cut
            /\ req'.pos = req.pos /\ req'.answer = Status(Told(Step, raw))
  BY <1>2, <1>6, <1>7, <1>8, RaiseDoes, RaisedIs DEF SameRecord
<1>. QED  BY <1>1, <1>4, <1>9

LEMMA SucceedDoes ==
  ASSUME TypeInv, Succeed
  PROVE  /\ Running /\ req.pos = Len(Handler.steps) + 1
         /\ UNCHANGED <<world, cookies, excused>>
         /\ req' \in Requests /\ req'.handler = req.handler /\ req'.pos = req.pos
         /\ req'.answer = Handler.ok
         /\ req'.gave = req.gave /\ req'.took = req.took /\ req'.cut = req.cut
         /\ req'.ignored = req.ignored /\ req'.upset = req.upset
         /\ req'.unlisted = req.unlisted
<1>1. Running /\ req.pos > Len(Handler.steps) /\ req' = [req EXCEPT !.answer = Handler.ok]
  BY DEF Succeed
<1>2. /\ req \in Requests /\ req.handler \in DOMAIN Routes /\ Len(Handler.steps) \in Nat
      /\ req.pos \in 1 .. Len(Handler.steps) + 1
  BY <1>1, StepFacts DEF Running
<1>3. Handler.ok \in Nat
  BY <1>2, RouteFacts
<1>. QED  BY <1>1, <1>2, <1>3 DEF Succeed, Requests

(* Only a request that has no answer yet takes a step.                     *)
LEMMA Serving == Serve => Running
<1>1. Inspect => Running
  BY DEF Inspect, AtStep
<1>2. Meter => Running
  BY DEF Meter, AtStep
<1>3. Perform => Running
  BY DEF Perform, AtStep
<1>4. Lack => Running
  BY DEF Lack, AtStep
<1>5. Refuse => Running
  BY DEF Refuse, AtStep
<1>6. Fail => Running
  BY DEF Fail, AtStep
<1>7. Succeed => Running
  BY DEF Succeed
<1>. QED  BY <1>1, <1>2, <1>3, <1>4, <1>5, <1>6, <1>7 DEF Serve

(* Where a step that may end the request leaves it.                        *)
LEMMA StepEnds ==
  ASSUME TypeInv, Inspect \/ Lack \/ Refuse \/ Fail
  PROVE  \/ req'.pos = req.pos + 1 /\ req'.answer = 0
         \/ req'.pos = req.pos /\ req'.answer \in 400 .. 503
<1>1. req.handler \in DOMAIN Routes
  BY Serving, StepFacts DEF Serve, Running
<1>2. CASE Inspect
  <2>1. Status(Step.err) \in 400 .. 503
    BY <1>1, StatusFacts
  <2>. QED  BY <1>2, <2>1, InspectDoes
<1>3. CASE Lack
  <2>1. Status(Told(Step, Missing(Step))) \in 400 .. 503
    BY <1>1, StatusFacts
  <2>. QED  BY <1>3, <2>1, LackDoes
<1>4. CASE Refuse
  <2>1. PICK raw \in Step.raw : \/ req'.pos = req.pos + 1 /\ req'.answer = 0
                                \/ req'.pos = req.pos /\ req'.answer = Status(Told(Step, raw))
    BY <1>4, RefuseDoes
  <2>2. Status(Told(Step, raw)) \in 400 .. 503
    BY <1>1, StatusFacts
  <2>. QED  BY <2>1, <2>2
<1>5. CASE Fail
  <2>1. PICK raw \in Faults(Step) :
          \/ req'.pos = req.pos + 1 /\ req'.answer = 0
          \/ req'.pos = req.pos /\ req'.answer = Status(Told(Step, raw))
    BY <1>5, FailDoes
  <2>2. Status(Told(Step, raw)) \in 400 .. 503
    BY <1>1, StatusFacts
  <2>. QED  BY <2>1, <2>2
<1>. QED  BY <1>2, <1>3, <1>4, <1>5

(* A new request has done nothing yet.                                     *)
LEMMA ArriveDoes ==
  ASSUME Arrive
  PROVE  /\ req = Idle /\ UNCHANGED <<world, cookies, excused>>
         /\ req' \in Requests /\ req' # Idle /\ req'.handler \in DOMAIN Routes
         /\ req'.pos = 1 /\ req'.answer = 0 /\ ~req'.cut /\ ~req'.upset /\ ~req'.missed
         /\ req'.gave = {} /\ req'.took = {}
<1>1. PICK h \in DOMAIN Routes :
        req' = [handler |-> h, pos |-> 1, answer |-> 0, faults |-> 0, cut |-> FALSE,
                upset |-> FALSE, missed |-> FALSE, unfit |-> FALSE, ignored |-> FALSE,
                gave |-> {}, took |-> {}, unlisted |-> {}]
  BY DEF Arrive
<1>2. req' \in Requests
  BY <1>1 DEF Requests
<1>. QED  BY <1>1, <1>2, NotIdle DEF Arrive

(* An answer that is delivered or lost ends the request.                   *)
LEMMA AnswerDoes ==
  ASSUME Answer
  PROVE  req # Idle /\ req' = Idle
  BY DEF Answer, DeliverPlain, DeliverCleared, DeliverSet, Lose, Answered

(* Others take one thing; the request remembers that its user was          *)
(* disturbed.                                                              *)
LEMMA OthersDoes ==
  ASSUME TypeInv, Others
  PROVE  /\ UNCHANGED cookies
         /\ \E thing \in world :
              /\ world' = world \ {thing}
              /\ IF thing \in UserKeys
                   THEN /\ excused' = (cookies # {} /\ (excused \/ thing \in BrowserKeys))
                        /\ req = Idle => req' = Idle
                        /\ req # Idle =>
                             /\ req' \in Requests /\ req'.handler = req.handler
                             /\ req'.pos = req.pos /\ req'.answer = req.answer
                             /\ req'.gave = req.gave /\ req'.took = req.took
                             /\ req'.cut = req.cut /\ req'.missed = req.missed
                             /\ req'.unfit = req.unfit /\ req'.unlisted = req.unlisted
                             /\ req'.ignored = req.ignored /\ req'.upset
                   ELSE UNCHANGED <<excused, req>>
<1>1. PICK thing \in world \ {"made"} :
        /\ world' = world \ {thing}
        /\ IF thing \in UserKeys
             THEN /\ excused' = (cookies # {} /\ (excused \/ thing \in BrowserKeys))
                  /\ req' = IF req = Idle THEN req ELSE [req EXCEPT !.upset = TRUE]
             ELSE UNCHANGED <<excused, req>>
  BY DEF Others
<1>2. req # Idle => req \in Requests
  BY DEF TypeInv
<1>3. ASSUME req # Idle, req' = [req EXCEPT !.upset = TRUE]
      PROVE  /\ req' \in Requests /\ req'.handler = req.handler
             /\ req'.pos = req.pos /\ req'.answer = req.answer
             /\ req'.gave = req.gave /\ req'.took = req.took
             /\ req'.cut = req.cut /\ req'.missed = req.missed
             /\ req'.unfit = req.unfit /\ req'.unlisted = req.unlisted
             /\ req'.ignored = req.ignored /\ req'.upset
  BY <1>2, <1>3 DEF Requests
<1>. QED  BY <1>1, <1>3 DEF Others

-----------------------------------------------------------------------------
(* How far the request is in its work: at most 0 in its gate, and beyond   *)
(* the last step of the work when it is done.                              *)
At == req.pos - (Len(Handler.steps) - Len(Work))

(* Where the request is, and which step that is.                           *)
LEMMA AtWork ==
  ASSUME TypeInv, req # Idle
  PROVE  /\ At \in Int /\ Len(Handler.steps) \in Nat /\ Len(Work) \in Nat /\ req.pos \in Nat
         /\ At <= Len(Work) + 1
         /\ req.pos = Len(Handler.steps) + 1 <=> At = Len(Work) + 1
         /\ req.pos <= Len(Handler.steps) =>
              \/ At <= 0 /\ Step \in Quiet
              \/ At \in 1 .. Len(Work) /\ Step = Work[At]
<1>1. /\ req.handler \in DOMAIN Routes /\ Len(Handler.steps) \in Nat
      /\ req.pos \in 1 .. Len(Handler.steps) + 1
  BY StepFacts
<1>2. Tailed(Handler.steps, Work)
  BY <1>1, Fits, UpdateUserFits
<1>. DEFINE s == Handler.steps
            w == Work
<1>3. /\ Len(s) \in Nat /\ Len(w) \in Nat /\ Len(w) <= Len(s)
      /\ \A i \in 1 .. Len(s) - Len(w) : s[i] \in Quiet
      /\ \A j \in 1 .. Len(w) : s[Len(s) - Len(w) + j] = w[j]
  BY <1>2, TailedAt
<1>4. At = req.pos - (Len(s) - Len(w)) /\ Step = s[req.pos]
  BY DEF At, Step
<1>5. req.pos \in 1 .. Len(s) + 1
  BY <1>1
<1>. HIDE DEF s, w
<1>6. At \in Int /\ At <= Len(w) + 1 /\ req.pos = Len(s) - Len(w) + At
  BY <1>3, <1>4, <1>5
<1>7. req.pos = Len(s) + 1 <=> At = Len(w) + 1
  <2>1. req.pos = Len(s) + 1 => At = Len(w) + 1
    BY <1>3, <1>6
  <2>2. At = Len(w) + 1 => req.pos = Len(s) + 1
    BY <1>3, <1>6
  <2>. QED  BY <2>1, <2>2
<1>8. req.pos <= Len(s) => \/ At <= 0 /\ Step \in Quiet
                           \/ At \in 1 .. Len(w) /\ Step = w[At]
  <2>1. CASE At <= 0
    BY <1>3, <1>4, <1>5, <1>6, <2>1
  <2>2. CASE At > 0
    <3>1. req.pos <= Len(s) => At \in 1 .. Len(w)
      BY <1>3, <1>5, <1>6, <2>2
    <3>. QED  BY <1>3, <1>4, <1>6, <3>1
  <2>. QED  BY <1>6, <2>1, <2>2
<1>9. req.pos \in Nat
  BY <1>3, <1>5
<1>. QED  BY <1>3, <1>6, <1>7, <1>8, <1>9 DEF s, w

(* The route of a request stays the same.                                  *)
LEMMA SameRoute ==
  ASSUME req'.handler = req.handler
  PROVE  /\ Handler' = Handler /\ Work' = Work /\ Object' = Object
         /\ Allowed' = Allowed /\ OfGate' = OfGate
         /\ At' = req'.pos - (Len(Handler.steps) - Len(Work))
<1>1. Handler' = Handler
  BY DEF Handler
<1>2. Work' = Work
  BY DEF Work
<1>3. Allowed' = Allowed /\ OfGate' = OfGate
  BY <1>1 DEF Allowed, OfGate, Untold
<1>4. Object' = Object
  BY DEF Object
<1>5. At' = req'.pos - (Len(Handler.steps) - Len(Work))
  BY <1>1, <1>2 DEF At
<1>. QED  BY <1>1, <1>2, <1>3, <1>4, <1>5

(* Who ends without success is answered an error.                          *)
LEMMA Stops ==
  ASSUME TypeInv, Inspect \/ Lack \/ Refuse \/ Fail, req'.pos = req.pos
  PROVE  req'.answer \in 400 .. 503 /\ req'.answer # 0
<1>1. req.pos \in Nat
  BY Serving, AtWork DEF Serve, Running
<1>2. req'.answer \in 400 .. 503
  BY <1>1, StepEnds
<1>. QED  BY <1>2

-----------------------------------------------------------------------------
(* Types are kept by every step.                                           *)
LEMMA RouteLength == req.handler \in DOMAIN Routes => Len(Handler.steps) \in Nat
<1>1. ASSUME req.handler \in DOMAIN Routes
      PROVE  Len(Handler.steps) \in Nat
  BY <1>1, Fits, UpdateUserFits, TailedAt
<1>. QED  BY <1>1

LEMMA TypeStep ==
  ASSUME TypeInv, [Next]_vars
  PROVE  TypeInv'
<1>1. CASE Arrive
  <2>1. (req.handler \in DOMAIN Routes => Len(Handler.steps) \in Nat)'
    BY RouteLength, PTL
  <2>2. req'.handler \in DOMAIN Routes /\ req'.pos = 1
    BY <1>1, ArriveDoes
  <2>3. req'.pos \in 1 .. Len(Handler'.steps) + 1
    BY <2>1, <2>2
  <2>. QED  BY <1>1, <2>3, ArriveDoes DEF TypeInv
<1>2. CASE Serve
  <2>1. /\ req # Idle /\ req \in Requests /\ req.handler \in DOMAIN Routes
        /\ Len(Handler.steps) \in Nat /\ req.pos \in 1 .. Len(Handler.steps) + 1
        /\ req.pos <= Len(Handler.steps) => Step \in Steps
    BY <1>2, Serving, StepFacts DEF Running
  <2>2. ASSUME world' \subseteq Things, UNCHANGED <<cookies, excused>>, req' \in Requests,
               req'.handler = req.handler,
               \/ req'.pos = req.pos + 1 /\ req'.answer = 0 /\ req.pos <= Len(Handler.steps)
               \/ req'.pos = req.pos /\ req'.answer \in 200 .. 599
        PROVE  TypeInv'
    <3>1. Handler' = Handler
      BY <2>2 DEF Handler
    <3>2. req'.pos \in 1 .. Len(Handler.steps) + 1
      BY <2>1, <2>2
    <3>. QED  BY <2>2, <3>1, <3>2 DEF TypeInv
  <2>3. 400 .. 503 \subseteq 200 .. 599
    OBVIOUS
  <2>4. CASE Inspect
    <3>1. \/ req'.pos = req.pos + 1 /\ req'.answer = 0
          \/ req'.pos = req.pos /\ req'.answer \in 400 .. 503
      BY <2>4, StepEnds
    <3>2. /\ world' \subseteq Things /\ UNCHANGED <<cookies, excused>> /\ req' \in Requests
          /\ req'.handler = req.handler /\ req.pos <= Len(Handler.steps)
      BY <2>4, InspectDoes DEF TypeInv
    <3>. QED  BY <2>2, <2>3, <3>1, <3>2
  <2>5. CASE Meter
    BY <2>2, <2>5, MeterDoes DEF TypeInv
  <2>6. CASE Perform
    <3>1. req.pos <= Len(Handler.steps) /\ Step.kind = "call"
      BY <2>6 DEF Perform, AtStep
    <3>2. Step.gives \subseteq Things
      BY <2>1, <3>1, StepForms
    <3>3. world' \subseteq Things
      BY <2>6, <3>2, PerformDoes DEF TypeInv
    <3>. QED  BY <2>2, <2>6, <3>3, PerformDoes
  <2>7. CASE Lack
    <3>1. \/ req'.pos = req.pos + 1 /\ req'.answer = 0
          \/ req'.pos = req.pos /\ req'.answer \in 400 .. 503
      BY <2>7, StepEnds
    <3>2. /\ world' \subseteq Things /\ UNCHANGED <<cookies, excused>> /\ req' \in Requests
          /\ req'.handler = req.handler /\ req.pos <= Len(Handler.steps)
      BY <2>7, LackDoes DEF TypeInv
    <3>. QED  BY <2>2, <2>3, <3>1, <3>2
  <2>8. CASE Refuse
    <3>1. \/ req'.pos = req.pos + 1 /\ req'.answer = 0
          \/ req'.pos = req.pos /\ req'.answer \in 400 .. 503
      BY <2>8, StepEnds
    <3>2. /\ world' \subseteq Things /\ UNCHANGED <<cookies, excused>> /\ req' \in Requests
          /\ req'.handler = req.handler /\ req.pos <= Len(Handler.steps)
      BY <2>8, RefuseDoes DEF TypeInv
    <3>. QED  BY <2>2, <2>3, <3>1, <3>2
  <2>9. CASE Fail
    <3>1. req.pos <= Len(Handler.steps) /\ Step.kind = "call"
      BY <2>9 DEF Fail, AtStep
    <3>2. Step.gives \subseteq Things
      BY <2>1, <3>1, StepForms
    <3>3. world' \subseteq Things
      BY <2>9, <3>2, FailDoes DEF TypeInv
    <3>4. \/ req'.pos = req.pos + 1 /\ req'.answer = 0
          \/ req'.pos = req.pos /\ req'.answer \in 400 .. 503
      BY <2>9, StepEnds
    <3>5. req' \in Requests /\ req'.handler = req.handler /\ UNCHANGED <<cookies, excused>>
      BY <2>9, FailDoes
    <3>. QED  BY <2>2, <2>3, <3>1, <3>3, <3>4, <3>5
  <2>10. CASE Succeed
    <3>1. Handler.ok \in 200 .. 599
      BY <2>1, RouteFacts
    <3>. QED  BY <2>2, <2>10, <3>1, SucceedDoes DEF TypeInv
  <2>. QED  BY <1>2, <2>4, <2>5, <2>6, <2>7, <2>8, <2>9, <2>10 DEF Serve
<1>3. CASE Answer
  <2>1. world' \subseteq Things /\ cookies' \subseteq Cookies /\ excused' \in BOOLEAN
    <3>1. Forgotten \subseteq Things /\ DOMAIN Successor \subseteq Things
      BY DEF TypeInv, Forgotten, Things, UserKeys, BrowserKeys, Members, Successor
    <3>2. CASE DeliverPlain
      BY <3>1, <3>2 DEF DeliverPlain, TypeInv
    <3>3. CASE DeliverCleared
      BY <3>1, <3>3 DEF DeliverCleared, TypeInv
    <3>4. CASE DeliverSet
      <4>1. req.upset \in BOOLEAN
        BY <3>4 DEF DeliverSet, Answered, TypeInv, Requests
      <4>. QED  BY <3>1, <3>4, <4>1 DEF DeliverSet, TypeInv
    <3>5. CASE Lose
      BY <3>1, <3>5 DEF Lose, TypeInv
    <3>. QED  BY <1>3, <3>2, <3>3, <3>4, <3>5 DEF Answer
  <2>. QED  BY <1>3, <2>1, AnswerDoes DEF TypeInv
<1>4. CASE Others
  <2>1. world' \subseteq Things /\ UNCHANGED cookies /\ excused' \in BOOLEAN
    BY <1>4, OthersDoes DEF TypeInv
  <2>2. CASE req = Idle
    BY <1>4, <2>1, <2>2, OthersDoes DEF TypeInv
  <2>3. CASE req # Idle
    <3>1. /\ req' \in Requests /\ req'.handler = req.handler
          /\ req'.pos = req.pos /\ req'.answer = req.answer
      BY <1>4, <2>3, OthersDoes DEF TypeInv
    <3>2. Handler' = Handler
      BY <3>1 DEF Handler
    <3>. QED  BY <2>1, <2>3, <3>1, <3>2 DEF TypeInv
  <2>. QED  BY <2>2, <2>3
<1>5. CASE UNCHANGED vars
  BY <1>5 DEF vars, TypeInv, Handler
<1>. QED  BY <1>1, <1>2, <1>3, <1>4, <1>5 DEF Next

LEMMA TypeInvariant == Spec => []TypeInv
<1>1. Init => TypeInv
  BY DEF Init, TypeInv, Things, Tables
<1>2. TypeInv /\ [Next]_vars => TypeInv'
  BY TypeStep
<1>. QED  BY <1>1, <1>2, PTL DEF Spec

(* The request is one of the router's, is at a step of its route or behind *)
(* it, and is answered a status of HTTP; the cookies are the two that the  *)
(* handlers set.                                                           *)
THEOREM TypeCorrect == Spec => []TypeOK
<1>1. TypeInv => TypeOK
  BY DEF TypeInv, TypeOK, Requests
<1>. QED  BY <1>1, TypeInvariant, PTL

-----------------------------------------------------------------------------
(* Answers *)

(* What may be answered where the request is, what by a failure and what   *)
(* by something that is not there.                                         *)
AllowedHere == IF AtGate THEN OfGate ELSE Allowed
FailedHere == IF AtGate THEN OfGate \cap {401} ELSE Failed
LackedHere == IF AtGate THEN OfGate \cap {401} ELSE Lacked

(* An error has ended the request, and what it says is true.               *)
TrueAnswer ==
  /\ req.answer \in AllowedHere
  /\ req.answer >= 500 =>
       req.cut \/ req.unfit \/ (req.handler = "CreateMyShorten" /\ req.missed)
  /\ req.cut => req.answer >= 500 \/ Concealed
  /\ req.answer = 404 => req.missed \/ req.handler \in SessionLists

(* No call of a request that goes on has cut it short, and no              *)
(* administrator is past the check that refuses administrators.            *)
AnswerInv ==
  req # Idle =>
    /\ Running => ~req.cut
    /\ req.handler = "UpdateUser" => req.pos <= 7
    /\ Answered => TrueAnswer

(* The step that a request is at suits its route, and only behind the gate *)
(* is there success.                                                       *)
LEMMA AtFit ==
  ASSUME TypeInv, AnswerInv, Running
  PROVE  /\ req.pos <= Len(Handler.steps) =>
              Step \in Sound(Handler.errors, AllowedHere, FailedHere, LackedHere)
         /\ req.pos > Len(Handler.steps) => ~AtGate
<1>1. req # Idle /\ req.handler \in DOMAIN Routes /\ req.pos \in 1 .. Len(Handler.steps) + 1
      /\ Len(Handler.steps) \in Nat
  BY StepFacts DEF Running
<1>2. ASSUME req.pos <= Handler.gate => Step \in GateFit,
             req.pos <= Len(Handler.steps) /\ ~(req.pos <= Handler.gate) => Step \in Fit
      PROVE  req.pos <= Len(Handler.steps) =>
               Step \in Sound(Handler.errors, AllowedHere, FailedHere, LackedHere)
  <2>1. CASE AtGate
    BY <1>2, <2>1 DEF AtGate, GateFit, AllowedHere, FailedHere, LackedHere
  <2>2. CASE ~AtGate
    BY <1>2, <2>2 DEF AtGate, Fit, AllowedHere, FailedHere, LackedHere
  <2>. QED  BY <2>1, <2>2
<1>3. CASE req.handler = "UpdateUser"
  <2>0. Len(Handler.steps) = 9 /\ Handler.gate = 5
    BY <1>3, UpdateUserFits
  <2>1. req.pos \in 1 .. 7 /\ Len(Handler.steps) = 9 /\ Handler.gate = 5
    BY <1>1, <1>3, <2>0 DEF AnswerInv
  <2>2. req.pos <= Handler.gate => Step \in GateFit
    BY <1>3, <2>1, UpdateUserFits DEF Step
  <2>3. ~(req.pos <= Handler.gate) => Step \in Fit
    <3>1. ASSUME ~(req.pos <= Handler.gate)
          PROVE  req.pos = 6 \/ req.pos = 7
      BY <2>1, <3>1
    <3>. QED  BY <1>3, <3>1, UpdateUserFits DEF Step
  <2>. QED  BY <1>2, <2>1, <2>2, <2>3
<1>4. CASE req.handler # "UpdateUser"
  <2>1. Handler.gate \in Nat /\ Handler.gate <= Len(Handler.steps)
    BY <1>1, <1>4, Fits
  <2>2. req.pos <= Handler.gate => Step \in GateFit
    <3>1. req.pos <= Handler.gate => req.pos \in 1 .. Handler.gate
      BY <1>1, <2>1
    <3>. QED  BY <1>1, <1>4, <3>1, Fits DEF Step
  <2>3. req.pos <= Len(Handler.steps) /\ ~(req.pos <= Handler.gate) => Step \in Fit
    <3>1. req.pos <= Len(Handler.steps) /\ ~(req.pos <= Handler.gate) =>
            req.pos \in Handler.gate + 1 .. Len(Handler.steps)
      BY <1>1, <2>1
    <3>. QED  BY <1>1, <1>4, <3>1, Fits DEF Step
  <2>4. req.pos > Len(Handler.steps) => ~AtGate
    BY <1>1, <2>1 DEF AtGate
  <2>. QED  BY <1>2, <2>2, <2>3, <2>4
<1>. QED  BY <1>3, <1>4

(* An administrator never gets past the check that refuses administrators. *)
LEMMA Stuck ==
  ASSUME TypeInv, Inspect \/ Meter \/ Perform \/ Lack \/ Refuse \/ Fail,
         req.handler = "UpdateUser", req.pos <= 7, req'.pos = req.pos + 1
  PROVE  req.pos < 7
<1>1. SUFFICES ASSUME req.pos = 7
               PROVE  FALSE
  <2>1. req.pos \in Nat
    BY Serving, AtWork DEF Serve, Running
  <2>. QED  BY <2>1
<1>2. Step = Check("no_admin", "Forbidden")
  BY <1>1, UpdateUserFits DEF Step
<1>3. Step.kind = "check" /\ Step.what = "no_admin"
  BY <1>2 DEF Check
<1>4. Inspect
  BY <1>3 DEF Meter, Perform, Lack, Refuse, Fail, AtStep
<1>5. Outcomes("no_admin") = {FALSE}
  BY RouteNames DEF Outcomes, Cookies
<1>6. ~(TRUE \in Outcomes(Step.what))
  BY <1>3, <1>5
<1>7. req.pos # req.pos + 1
  BY <1>1
<1>. QED  BY <1>4, <1>6, <1>7, InspectDoes

LEMMA AnswerStep ==
  ASSUME TypeInv, AnswerInv, [Next]_vars
  PROVE  AnswerInv'
<1>. USE DEF AnswerInv
<1>1. CASE Arrive
  BY <1>1, ArriveDoes DEF Answered
<1>2. CASE Answer
  BY <1>2, AnswerDoes
<1>3. CASE Others
  <2>1. SUFFICES ASSUME req # Idle
                 PROVE  AnswerInv'
    BY <1>3, OthersDoes
  <2>2. /\ req'.handler = req.handler /\ req'.pos = req.pos /\ req'.answer = req.answer
        /\ req'.cut = req.cut /\ req'.missed = req.missed /\ req'.unfit = req.unfit
    BY <1>3, <2>1, OthersDoes
  <2>3. AllowedHere' = AllowedHere /\ (Concealed' <=> Concealed)
    BY <2>2, SameRoute DEF AllowedHere, AtGate, Concealed
  <2>. QED  BY <2>1, <2>2, <2>3 DEF Running, Answered, TrueAnswer
<1>4. CASE UNCHANGED vars
  <2>1. AllowedHere' = AllowedHere /\ (Concealed' <=> Concealed)
    BY <1>4, SameRoute DEF vars, AllowedHere, AtGate, Concealed
  <2>. QED  BY <1>4, <2>1 DEF vars, Running, Answered, TrueAnswer
<1>5. CASE Serve
  <2>1. /\ Running /\ req # Idle /\ req.handler \in DOMAIN Routes /\ req.pos \in Nat
        /\ Len(Handler.steps) \in Nat /\ ~req.cut
    BY <1>5, Serving, StepFacts, AtWork DEF Running
  <2>2. ASSUME req'.handler = req.handler, req'.pos = req.pos
        PROVE  /\ AllowedHere' = AllowedHere
               /\ Concealed' <=> \/ req'.answer = 401 /\ \/ AtGate
                                                         \/ req.handler = "LoginUser"
                                                         \/ req.handler = "RefreshToken"
                                 \/ req'.answer = 404 /\ req.handler \in SessionLists
    BY <2>2, SameRoute DEF AllowedHere, AtGate, Concealed
  <2>3. ASSUME req'.handler = req.handler, req'.pos = req.pos + 1, req'.answer = 0, ~req'.cut,
               Inspect \/ Meter \/ Perform \/ Lack \/ Refuse \/ Fail
        PROVE  AnswerInv'
    <3>1. req.handler = "UpdateUser" => req.pos < 7
      BY <2>1, <2>3, Stuck
    <3>. QED  BY <2>1, <2>3, <3>1 DEF Answered
  <2>4. ASSUME req'.handler = req.handler, req'.pos = req.pos, req'.answer # 0,
               req'.answer \in AllowedHere,
               req'.answer >= 500 =>
                 req'.cut \/ req'.unfit \/ (req.handler = "CreateMyShorten" /\ req'.missed),
               req'.cut =>
                 \/ req'.answer >= 500
                 \/ req'.answer = 401 /\ (AtGate \/ req.handler = "LoginUser"
                                                 \/ req.handler = "RefreshToken")
                 \/ req'.answer = 404 /\ req.handler \in SessionLists,
               req'.answer = 404 => req'.missed \/ req.handler \in SessionLists
        PROVE  AnswerInv'
    BY <2>1, <2>2, <2>4 DEF Running, TrueAnswer
  <2>5. req.pos <= Len(Handler.steps) =>
          Step \in Sound(Handler.errors, AllowedHere, FailedHere, LackedHere)
    BY <2>1, AtFit
  <2>6. \A err : Status(err) = StatusIn(Handler.errors, err)
    BY <2>1, StatusFacts
  <2>7. Blamed = {400, 401, 403, 404, 409}
    BY DEF Blamed
  <2>8. CASE Inspect
    <3>1. /\ req'.handler = req.handler /\ req'.cut = req.cut
          /\ req.pos <= Len(Handler.steps) /\ Step.kind = "check"
      BY <2>8, InspectDoes
    <3>2. CASE req'.pos = req.pos + 1 /\ req'.answer = 0
      BY <2>1, <2>3, <2>8, <3>1, <3>2
    <3>3. CASE /\ req'.pos = req.pos /\ req'.answer = Status(Step.err)
               /\ Step.what = "rows" => req'.missed
      <4>1. /\ req'.answer \in AllowedHere \cap Blamed
            /\ req'.answer = 404 => Step.what = "rows"
        BY <2>5, <2>6, <3>1, <3>3 DEF Sound
      <4>. QED  BY <2>1, <2>4, <2>7, <3>1, <3>3, <4>1
    <3>. QED  BY <2>8, <3>2, <3>3, InspectDoes
  <2>9. CASE Meter
    <3>1. /\ req'.handler = req.handler
          /\ req.pos <= Len(Handler.steps) /\ Step.kind = "limit"
      BY <2>9, MeterDoes
    <3>2. CASE req'.pos = req.pos + 1 /\ req'.answer = 0 /\ req'.cut = req.cut
      BY <2>1, <2>3, <2>9, <3>1, <3>2
    <3>3. 429 \in AllowedHere /\ 503 \in AllowedHere
      BY <2>5, <3>1 DEF Sound
    <3>4. CASE req'.pos = req.pos /\ req'.answer = 429 /\ req'.cut = req.cut
      BY <2>1, <2>4, <3>1, <3>3, <3>4
    <3>5. CASE req'.pos = req.pos /\ req'.answer = 503 /\ req'.cut
      BY <2>1, <2>4, <3>1, <3>3, <3>5
    <3>. QED  BY <2>9, <3>2, <3>4, <3>5, MeterDoes
  <2>10. CASE Perform
    BY <2>1, <2>3, <2>10, PerformDoes
  <2>11. CASE Lack
    <3>1. /\ req'.handler = req.handler /\ req'.cut = req.cut /\ req'.missed
          /\ req.pos <= Len(Handler.steps) /\ Step.kind = "call" /\ ~(Step.needs \subseteq world)
      BY <2>11, LackDoes
    <3>2. CASE req'.pos = req.pos + 1 /\ req'.answer = 0
      BY <2>1, <2>3, <2>11, <3>1, <3>2
    <3>3. CASE /\ Told(Step, Missing(Step)) # "ignored"
               /\ req'.pos = req.pos /\ req'.answer = Status(Told(Step, Missing(Step)))
      <4>1. Step.needs # {}
        BY <3>1
      <4>2. req'.answer \in LackedHere
        BY <2>5, <2>6, <3>1, <3>3, <4>1 DEF Sound
      <4>3. /\ req'.answer \in AllowedHere
            /\ req'.answer \in {400, 401, 403, 404, 409, 500}
            /\ req'.answer >= 500 => req.handler = "CreateMyShorten"
        BY <2>7, <4>2 DEF LackedHere, AllowedHere, Lacked
      <4>. QED  BY <2>1, <2>4, <3>1, <3>3, <4>3
    <3>. QED  BY <2>11, <3>2, <3>3, LackDoes
  <2>12. CASE Refuse
    <3>1. /\ req'.handler = req.handler /\ req'.cut = req.cut
          /\ req.pos <= Len(Handler.steps) /\ Step.kind = "call"
      BY <2>12, RefuseDoes
    <3>2. PICK raw \in Step.raw :
            /\ (req'.unfit <=> raw \in Unfit)
            /\ \/ req'.pos = req.pos + 1 /\ req'.answer = 0
               \/ /\ Told(Step, raw) # "ignored"
                  /\ req'.pos = req.pos /\ req'.answer = Status(Told(Step, raw))
      BY <2>12, RefuseDoes
    <3>3. CASE req'.pos = req.pos + 1 /\ req'.answer = 0
      BY <2>1, <2>3, <2>12, <3>1, <3>3
    <3>4. CASE req'.pos = req.pos /\ req'.answer = Status(Told(Step, raw))
      <4>1. req'.answer \in AllowedHere \cap (IF raw \in Unfit THEN {500} ELSE Blamed \ {404})
        BY <2>5, <2>6, <3>1, <3>2, <3>4 DEF Sound
      <4>2. CASE raw \in Unfit
        BY <2>1, <2>4, <3>1, <3>2, <3>4, <4>1, <4>2
      <4>3. CASE raw \notin Unfit
        BY <2>1, <2>4, <2>7, <3>1, <3>4, <4>1, <4>3
      <4>. QED  BY <4>2, <4>3
    <3>. QED  BY <3>2, <3>3, <3>4
  <2>13. CASE Fail
    <3>1. /\ req'.handler = req.handler /\ req.pos <= Len(Handler.steps) /\ Step.kind = "call"
      BY <2>13, FailDoes
    <3>2. PICK raw \in Faults(Step) :
            \/ req'.pos = req.pos + 1 /\ req'.answer = 0 /\ ~req'.cut
            \/ /\ Told(Step, raw) # "ignored" /\ req'.cut
               /\ req'.pos = req.pos /\ req'.answer = Status(Told(Step, raw))
      BY <2>13, FailDoes
    <3>3. CASE req'.pos = req.pos + 1 /\ req'.answer = 0 /\ ~req'.cut
      BY <2>1, <2>3, <2>13, <3>1, <3>3
    <3>4. CASE /\ Told(Step, raw) # "ignored" /\ req'.cut
               /\ req'.pos = req.pos /\ req'.answer = Status(Told(Step, raw))
      <4>1. req'.answer \in FailedHere
        BY <2>5, <2>6, <3>1, <3>4 DEF Sound
      <4>2. /\ req'.answer \in AllowedHere
            /\ \/ req'.answer = 500
               \/ /\ req'.answer = 401
                  /\ AtGate \/ req.handler = "LoginUser" \/ req.handler = "RefreshToken"
               \/ req'.answer = 404 /\ req.handler \in SessionLists
        BY <4>1 DEF FailedHere, AllowedHere, Failed
      <4>. QED  BY <2>1, <2>4, <3>1, <3>4, <4>2
    <3>. QED  BY <3>2, <3>3, <3>4
  <2>14. CASE Succeed
    <3>1. /\ req'.handler = req.handler /\ req'.pos = req.pos /\ req'.answer = Handler.ok
          /\ req'.cut = req.cut /\ req.pos = Len(Handler.steps) + 1
      BY <2>14, SucceedDoes
    <3>2. Handler.ok \in {200, 201, 302} /\ Handler.ok \in Allowed
      BY <2>1, RouteFacts DEF Allowed
    <3>3. req.pos > Len(Handler.steps)
      BY <2>1, <3>1
    <3>4. Handler.ok \in AllowedHere
      BY <2>1, <3>2, <3>3, AtFit DEF AllowedHere
    <3>. QED  BY <2>1, <2>4, <3>1, <3>2, <3>4
  <2>. QED  BY <1>5, <2>8, <2>9, <2>10, <2>11, <2>12, <2>13, <2>14 DEF Serve
<1>. QED  BY <1>1, <1>2, <1>3, <1>4, <1>5 DEF Next

LEMMA AnswerInvariant == Spec => []AnswerInv
<1>1. Init => AnswerInv
  BY DEF Init, AnswerInv
<1>2. TypeInv /\ AnswerInv /\ [Next]_vars => AnswerInv'
  BY AnswerStep
<1>. QED  BY <1>1, <1>2, TypeInvariant, PTL DEF Spec

(* Whatever fails or vanishes, a request that does not come past its       *)
(* middleware is answered what that answers, and one that does what the    *)
(* annotation of its handler lists, or one of the omissions of the         *)
(* annotations that Untold names.                                          *)
THEOREM DocumentedAnswers == Spec => []AnswersAsDocumented
<1>1. AnswerInv => AnswersAsDocumented
  BY DEF AnswerInv, Answered, TrueAnswer, AllowedHere, Allowed, AnswersAsDocumented
<1>. QED  BY <1>1, AnswerInvariant, PTL

(* A server error means that a store has failed, that a value does not fit *)
(* its column, or that the account of a new link is gone; a failure is     *)
(* answered with a server error, but for the 401 of the middleware, of a   *)
(* login and of a refresh and the 404 of the lists of sessions; and 404    *)
(* means that something was not there, but for those lists.                *)
THEOREM Honesty == Spec => []HonestAnswers
<1>1. AnswerInv => HonestAnswers
  BY DEF AnswerInv, Answered, TrueAnswer, HonestAnswers
<1>. QED  BY <1>1, AnswerInvariant, PTL

-----------------------------------------------------------------------------
(* Refusals. A request has changed nothing before the second step of its   *)
(* work, and only overwritten what was there before the third, if it is a  *)
(* change of an account or of a link.                                      *)
RefuseInv ==
  req # Idle =>
    /\ Running /\ At <= 1 => req.gave = {} /\ req.took = {}
    /\ Running /\ At = 2 /\ req.handler \in Overwriting =>
         req.gave \subseteq {Object} /\ req.took = {}
    /\ RefusedChangesNothing

(* The step of a request is one of its gate or of its work.                *)
LEMMA StepWorks ==
  ASSUME TypeInv, Running, req.pos <= Len(Handler.steps)
  PROVE  /\ At \in Int
         /\ \/ At <= 0 /\ Step \in Quiet
            \/ /\ At \in 1 .. Len(Work) /\ Step = Work[At]
               /\ Step \in Mild \/ (req.handler = "LogoutUser" /\ At = 3 /\ Step = Id)
<1>1. req # Idle /\ req.handler \in DOMAIN Routes
  BY StepFacts DEF Running
<1>2. /\ At \in Int
      /\ \/ At <= 0 /\ Step \in Quiet
         \/ At \in 1 .. Len(Work) /\ Step = Work[At]
  BY <1>1, AtWork
<1>3. ASSUME At \in 1 .. Len(Work), Step = Work[At]
      PROVE  Step \in Mild \/ (req.handler = "LogoutUser" /\ At = 3 /\ Step = Id)
  BY <1>1, <1>3, WorkMild
<1>. QED  BY <1>2, <1>3

(* The kinds of the steps of a work and of a gate.                         *)
LEMMA Kinds ==
  /\ \A st \in Mild : st.kind = "call" /\ st \in Steps
  /\ Id.kind = "check" /\ Id.err = "InvalidInput"
  /\ \A st \in Quiet : st.kind = "call" => st.gives = {} /\ st.takes = {} /\ st.undo = {}
  BY DEF Mild, Id, Check, Quiet

(* What a step adds to the record of what the request has done.            *)
LEMMA Records ==
  ASSUME TypeInv, Inspect \/ Meter \/ Perform \/ Lack \/ Refuse \/ Fail
  PROVE  /\ Running /\ req.pos <= Len(Handler.steps)
         /\ req'.handler = req.handler
         /\ \/ req'.gave = req.gave /\ req'.took = req.took
            \/ /\ Step.kind = "call" /\ req'.gave \subseteq req.gave \cup Step.gives
               /\ req'.took \subseteq req.took \cup Step.takes
<1>1. CASE Inspect
  BY <1>1, InspectDoes
<1>2. CASE Meter
  BY <1>2, MeterDoes
<1>3. CASE Perform
  BY <1>3, TakenIs, PerformDoes
<1>4. CASE Lack
  BY <1>4, LackDoes
<1>5. CASE Refuse
  BY <1>5, RefuseDoes
<1>6. CASE Fail
  BY <1>6, TakenIs, FailDoes
<1>. QED  BY <1>1, <1>2, <1>3, <1>4, <1>5, <1>6

(* What can end a request behind the first step of its work: failures,     *)
(* which are answered 500, and the two refusals that RefusedChangesNothing *)
(* names.                                                                  *)
LEMMA RefuseStep ==
  ASSUME TypeInv, RefuseInv, [Next]_vars
  PROVE  RefuseInv'
<1>. USE DEF RefuseInv
<1>1. CASE Arrive
  BY <1>1, ArriveDoes DEF RefusedChangesNothing, Answered
<1>2. CASE Answer
  BY <1>2, AnswerDoes
<1>3. CASE Others
  <2>1. SUFFICES ASSUME req # Idle
                 PROVE  RefuseInv'
    BY <1>3, OthersDoes
  <2>2. /\ req'.handler = req.handler /\ req'.pos = req.pos /\ req'.answer = req.answer
        /\ req'.gave = req.gave /\ req'.took = req.took /\ world' \subseteq world
    BY <1>3, <2>1, OthersDoes
  <2>3. At' = At /\ Object' = Object
    BY <2>2, SameRoute DEF At
  <2>. QED  BY <2>1, <2>2, <2>3 DEF Running, Answered, RefusedChangesNothing
<1>4. CASE UNCHANGED vars
  <2>1. At' = At /\ Object' = Object
    BY <1>4, SameRoute DEF At, vars
  <2>. QED  BY <1>4, <2>1 DEF vars, Running, Answered, RefusedChangesNothing
<1>5. CASE Succeed
  <2>1. Running /\ req.handler \in DOMAIN Routes
    BY <1>5, StepFacts DEF Succeed, Running
  <2>2. req'.answer \in {200, 201, 302}
    BY <1>5, <2>1, RouteFacts, SucceedDoes
  <2>. QED  BY <2>2 DEF Running, Answered, RefusedChangesNothing
<1>6. CASE Inspect \/ Meter \/ Perform \/ Lack \/ Refuse \/ Fail
  <2>1. /\ Running /\ req # Idle /\ req.pos <= Len(Handler.steps) /\ req'.handler = req.handler
        /\ req.handler \in DOMAIN Routes /\ req.pos \in Nat
        /\ Len(Handler.steps) \in Nat /\ Len(Work) \in Nat
    BY <1>6, Records, StepFacts, AtWork DEF Running
  <2>2. /\ At \in Int
        /\ \/ At <= 0 /\ Step \in Quiet
           \/ /\ At \in 1 .. Len(Work) /\ Step = Work[At]
              /\ Step \in Mild \/ (req.handler = "LogoutUser" /\ At = 3 /\ Step = Id)
    BY <2>1, StepWorks
  <2>3. Object' = Object /\ At' = req'.pos - (Len(Handler.steps) - Len(Work))
    BY <2>1, SameRoute
  <2>4. /\ At <= 1 => req.gave = {} /\ req.took = {}
        /\ At = 2 /\ req.handler \in Overwriting =>
             req.gave \subseteq {Object} /\ req.took = {}
    BY <2>1
  <2>5. ASSUME req'.pos = req.pos + 1, req'.answer = 0
        PROVE  RefuseInv'
    <3>1. At' = At + 1
      <4>. DEFINE n == Len(Handler.steps) - Len(Work)
      <4>1. n \in Int /\ At' = req'.pos - n /\ At = req.pos - n
        BY <2>1, <2>3 DEF At
      <4>. HIDE DEF n
      <4>. QED  BY <2>1, <2>5, <4>1
    <3>2. ASSUME At' <= 1
          PROVE  req'.gave = {} /\ req'.took = {}
      <4>1. At <= 0 /\ Step \in Quiet
        BY <2>2, <3>1, <3>2
      <4>. QED  BY <1>6, <2>2, <2>4, <4>1, Records, Kinds
    <3>3. ASSUME At' = 2, req.handler \in Overwriting
          PROVE  req'.gave \subseteq {Object} /\ req'.took = {}
      <4>1. At = 1 /\ Step = Work[1]
        BY <2>2, <3>1, <3>3
      <4>2. Step.gives = {Object} /\ Step.takes = {}
        BY <3>3, <4>1, WorkFirst
      <4>. QED  BY <1>6, <2>4, <4>1, <4>2, Records
    <3>. QED  BY <2>1, <2>3, <2>5, <3>2, <3>3 DEF Answered, RefusedChangesNothing
  <2>6. ASSUME req'.answer # 0,
               (/\ req'.answer \in 400 .. 499
                /\ <<req.handler, req'.answer>> \notin
                     {<<"LogoutUser", 400>>, <<"RefreshToken", 404>>})
                 => req'.took = {} /\ req'.gave \cap world' = {}
        PROVE  RefuseInv'
    BY <2>1, <2>6 DEF Running, RefusedChangesNothing
  <2>7. CASE Inspect
    <3>1. CASE req'.pos = req.pos /\ req'.answer = Status(Step.err)
      <4>1. Step.kind = "check" /\ req'.gave = req.gave /\ req'.took = req.took
        BY <2>7, InspectDoes
      <4>2. req'.answer # 0
        BY <2>7, <3>1, Stops
      <4>3. CASE At <= 0
        <5>1. req'.gave = {} /\ req'.took = {}
          BY <2>2, <2>4, <4>1, <4>3
        <5>. QED  BY <2>6, <4>2, <5>1
      <4>4. CASE req.handler = "LogoutUser" /\ Step = Id
        <5>1. req'.answer = 400
          <6>1. Handler.errors = "user"
            BY <4>4, UserRouted DEF Handler, LogoutUserHandler, User
          <6>. QED  BY <3>1, <4>4, <6>1, Kinds DEF Status, Direct, UserError
        <5>. QED  BY <2>6, <4>4, <5>1
      <4>. QED  BY <2>2, <4>1, <4>3, <4>4, Kinds
    <3>. QED  BY <2>5, <2>7, <3>1, InspectDoes
  <2>8. CASE Meter
    <3>1. At <= 0
      BY <2>2, <2>8, MeterDoes, Kinds
    <3>2. req'.gave = {} /\ req'.took = {}
      <4>1. req'.gave = req.gave /\ req'.took = req.took /\ At <= 1
        BY <2>2, <2>8, <3>1, MeterDoes
      <4>. QED  BY <2>4, <4>1
    <3>. QED  BY <2>5, <2>6, <2>8, <3>2, MeterDoes
  <2>9. CASE Perform
    BY <2>5, <2>9, PerformDoes
  <2>10. CASE Lack
    <3>1. /\ req'.gave = req.gave /\ req'.took = req.took /\ world' \subseteq world
          /\ Step.kind = "call" /\ ~(Step.needs \subseteq world)
      BY <2>10, LackDoes
    <3>2. CASE req'.pos = req.pos + 1 /\ req'.answer = 0
      BY <2>5, <3>2
    <3>3. CASE /\ Told(Step, Missing(Step)) # "ignored"
               /\ req'.pos = req.pos /\ req'.answer = Status(Told(Step, Missing(Step)))
      <4>1. req'.answer # 0
        BY <2>10, <3>3, Stops
      <4>2. CASE At <= 1
        BY <2>2, <2>4, <2>6, <3>1, <4>1, <4>2
      <4>3. CASE At > 1
        <5>1. At \in 1 .. Len(Work) /\ At # 1 /\ Step = Work[At] /\ Work[At] # Id
          BY <2>2, <3>1, <4>3, Kinds
        <5>2. \/ Step.needs = {}
              \/ /\ req.handler \in Overwriting /\ At = 2
                 /\ Step.needs = {Object} /\ Step.gives = {}
              \/ /\ req.handler = "RefreshToken" /\ Step.thing = "session"
                 /\ Step.as = IfMissing("SessionNotFound")
              \/ Step.thing = "session" /\ Step.as = Revoked
          BY <2>1, <5>1, WorkLate
        <5>3. CASE Step.needs = {}
          BY <3>1, <5>3
        <5>4. CASE req.handler \in Overwriting /\ At = 2 /\ Step.needs = {Object}
          BY <2>4, <2>6, <3>1, <4>1, <5>4
        <5>5. CASE /\ req.handler = "RefreshToken" /\ Step.thing = "session"
                   /\ Step.as = IfMissing("SessionNotFound")
          <6>1. Told(Step, Missing(Step)) = "SessionNotFound"
            BY <5>5, ToldIfMissing DEF Tables
          <6>2. Handler.errors = "user"
            BY <5>5, UserRouted DEF Handler, RefreshTokenHandler, User
          <6>3. req'.answer = 404
            BY <3>3, <6>1, <6>2 DEF Status, Direct, UserError
          <6>. QED  BY <2>6, <5>5, <6>3
        <5>6. CASE Step.thing = "session" /\ Step.as = Revoked
          <6>1. Told(Step, Missing(Step)) = "ignored"
            BY <5>6, ToldIfMissing DEF Tables, Revoked
          <6>. QED  BY <3>3, <6>1
        <5>. QED  BY <5>2, <5>3, <5>4, <5>5, <5>6
      <4>. QED  BY <2>2, <4>2, <4>3
    <3>. QED  BY <2>10, <3>2, <3>3, LackDoes
  <2>11. CASE Refuse
    <3>1. /\ req'.gave = req.gave /\ req'.took = req.took /\ Step.kind = "call"
      BY <2>11, RefuseDoes
    <3>2. PICK raw \in Step.raw : \/ req'.pos = req.pos + 1 /\ req'.answer = 0
                                  \/ req'.pos = req.pos /\ req'.answer = Status(Told(Step, raw))
      BY <2>11, RefuseDoes
    <3>3. req'.pos = req.pos => req'.answer # 0
      BY <2>11, Stops
    <3>4. At <= 1
      <4>1. SUFFICES ASSUME At > 1
                     PROVE  FALSE
        BY <2>2
      <4>2. At \in 1 .. Len(Work) /\ At # 1 /\ Step = Work[At] /\ Work[At] # Id
        BY <2>2, <3>1, <4>1, Kinds
      <4>. QED  BY <2>1, <3>2, <4>2, WorkLate
    <3>5. req'.gave = {} /\ req'.took = {}
      BY <2>4, <3>1, <3>4
    <3>. QED  BY <2>5, <2>6, <3>2, <3>3, <3>5
  <2>12. CASE Fail
    <3>1. Step.kind = "call"
      BY <2>12, FailDoes
    <3>2. PICK raw \in Faults(Step) :
            \/ req'.pos = req.pos + 1 /\ req'.answer = 0
            \/ /\ Told(Step, raw) # "ignored"
               /\ req'.pos = req.pos /\ req'.answer = Status(Told(Step, raw))
      BY <2>12, FailDoes
    <3>3. CASE req'.pos = req.pos + 1 /\ req'.answer = 0
      BY <2>5, <3>3
    <3>4. CASE /\ Told(Step, raw) # "ignored"
               /\ req'.pos = req.pos /\ req'.answer = Status(Told(Step, raw))
      <4>1. /\ req'.answer # 0
            /\ Status(Told(Step, raw)) = StatusIn(Handler.errors, Told(Step, raw))
        BY <2>1, <2>12, <3>4, StatusFacts, Stops
      <4>2. CASE At <= 0 /\ Step \in Quiet
        <5>1. req'.gave = {} /\ req'.took = {}
          BY <1>6, <2>2, <2>4, <4>2, Records, Kinds
        <5>. QED  BY <2>6, <3>4, <4>1, <5>1
      <4>3. CASE Step \in Mild
        <5>1. req'.answer = 500
          BY <3>4, <4>1, <4>3, MildTold
        <5>. QED  BY <2>6, <5>1
      <4>. QED  BY <2>2, <3>1, <4>2, <4>3, Kinds
    <3>. QED  BY <3>2, <3>3, <3>4
  <2>. QED  BY <1>6, <2>7, <2>8, <2>9, <2>10, <2>11, <2>12
<1>. QED  BY <1>1, <1>2, <1>3, <1>4, <1>5, <1>6 DEF Next, Serve

(* Who is answered that he is to blame has changed nothing, however the    *)
(* calls of the request went and whatever others removed: all that a       *)
(* request may be refused for is looked at before its first write, save    *)
(* that LogoutUser may answer 400 when it has ended the session, and       *)
(* RefreshToken 404 when it has spent the token.                           *)
THEOREM Refusals == Spec => []RefusedChangesNothing
<1>1. Init => RefuseInv
  BY DEF Init, RefuseInv
<1>2. TypeInv /\ RefuseInv /\ [Next]_vars => RefuseInv'
  BY RefuseStep
<1>3. RefuseInv => RefusedChangesNothing
  BY DEF RefuseInv, RefusedChangesNothing, Answered
<1>. QED  BY <1>1, <1>2, <1>3, TypeInvariant, PTL DEF Spec

-----------------------------------------------------------------------------
(* Logouts, revocations and deletions: how far the request is in its work  *)
(* says what is gone, and success is answered behind the last step.        *)
Ending == {"LogoutUser", "RevokeSessionMyProfile", "RevokeSessionUser",
           "RevokeAllSessionsMyProfile", "RevokeAllSessionsUser", "DeleteMyProfile",
           "DeleteUserProfile", "DeleteMyShorten", "DeleteUserShorten"}

DoneInv ==
  Answered /\ req.answer = Handler.ok => At = Len(Work) + 1

GoneInv ==
  req # Idle =>
    /\ req.handler = "LogoutUser" =>
         (At >= 3 => "refresh" \notin world) /\ (At >= 5 => "session" \notin world)
    /\ req.handler \in {"RevokeSessionMyProfile", "RevokeSessionUser"} =>
         (At >= 2 => "session" \notin world)
    /\ req.handler \in {"RevokeAllSessionsMyProfile", "RevokeAllSessionsUser"} =>
         (At >= 2 => req.ignored \/ (UserKeys \ req.unlisted) \cap world = {})
    /\ req.handler \in Deleting =>
         /\ At >= 2 => "account" \notin world
         /\ At >= 3 => req.ignored \/ (UserKeys \ req.unlisted) \cap world = {}
    /\ req.handler \in {"DeleteMyShorten", "DeleteUserShorten"} =>
         (At >= 2 => "link" \notin world)

(* The calls of such a request create nothing and meet no constraint.      *)
LEMMA EndingSteps ==
  ASSUME req.handler \in Ending, NEW j \in 1 .. Len(Work), Work[j].kind = "call"
  PROVE  /\ Work[j].gives = {} /\ Work[j].raw = {} /\ Work[j].thing # "page"
         /\ \/ Work[j].as \in {Same, Ignored}
            \/ Work[j].as = Revoked /\ Work[j].thing = "session" /\ Work[j].needs = {"session"}
<1>. DEFINE h == req.handler
<1>1. CASE h \in Deleting
  <2>1. \/ j = 1 /\ Work[j] = Delete("account")
        \/ j = 2 /\ Work[j] = Purge
    BY <1>1, WorkAt
  <2>. QED  BY <2>1 DEF Delete, Purge, Call
<1>2. CASE h = "LogoutUser"
  <2>1. \/ j = 1 /\ Work[j] = Revoke(Ignored)
        \/ j = 2 /\ Work[j] = Del("refresh")
        \/ j = 3 /\ Work[j] = Id
        \/ j = 4 /\ Work[j] = Revoke(Revoked)
    BY <1>2, WorkAt
  <2>2. Id.kind = "check"
    BY DEF Id, Check
  <2>3. Work[j] \in {Revoke(Ignored), Del("refresh"), Revoke(Revoked)}
    BY <2>1, <2>2
  <2>. QED  BY <2>3 DEF Revoke, Del, Call
<1>3. CASE h \in {"RevokeSessionMyProfile", "RevokeSessionUser"}
  <2>1. Work[j] = Revoke(Revoked)
    BY <1>3, WorkAt
  <2>. QED  BY <2>1 DEF Revoke, Call
<1>4. CASE h \in {"RevokeAllSessionsMyProfile", "RevokeAllSessionsUser"}
  <2>1. Work[j] = Purge
    BY <1>4, WorkAt
  <2>. QED  BY <2>1 DEF Purge, Call
<1>5. CASE h \in {"DeleteMyShorten", "DeleteUserShorten"}
  <2>1. Work[j] = Delete("link")
    BY <1>5, WorkAt
  <2>. QED  BY <2>1 DEF Delete, Call
<1>. QED  BY <1>1, <1>2, <1>3, <1>4, <1>5 DEF Ending, Deleting

(* What a caller tells of what is not there.                               *)
LEMMA MissingTold ==
  ASSUME NEW st, st.thing # "page",
         \/ st.as \in {Same, Ignored}
         \/ st.as = Revoked /\ st.thing = "session" /\ st.needs = {"session"}
  PROVE  Told(st, Missing(st)) = "ignored" => st.as = Ignored \/ st.as = Revoked
<1>1. CASE st.as = Same
  <2>1. Classified(st, Missing(st)) \in {"NotFound", "ForeignKeyViolation", "RedisKeyNotFound"}
    BY ErrorOf
  <2>. QED  BY <1>1, <2>1, ToldSame
<1>. QED  BY <1>1

(* How a call of such a request lets it go on.                             *)
LEMMA EndingPasses ==
  ASSUME TypeInv, Inspect \/ Meter \/ Perform \/ Lack \/ Refuse \/ Fail,
         req.handler \in Ending, req'.pos = req.pos + 1, At \in 1 .. Len(Work),
         Step = Work[At], Step.kind = "call"
  PROVE  \/ /\ (IF Step.listed THEN Step.takes \ req'.unlisted ELSE Step.takes) \cap world' = {}
            /\ ~Step.listed => req'.unlisted = req.unlisted
         \/ Step.as = Ignored /\ req'.ignored
         \/ Step.as = Revoked /\ "session" \notin world'
<1>1. /\ Step.raw = {} /\ Step.thing # "page"
      /\ \/ Step.as \in {Same, Ignored}
         \/ Step.as = Revoked /\ Step.thing = "session" /\ Step.needs = {"session"}
  BY EndingSteps
<1>2. req # Idle /\ req.handler \in DOMAIN Routes /\ req.pos \in Nat
  BY Records, StepFacts, AtWork DEF Running
<1>3. Step \in Mild
  <2>1. Work[At] \in Mild \/ Work[At] = Id
    BY <1>2, WorkMild
  <2>. QED  BY <2>1, Kinds
<1>4. CASE Inspect
  BY <1>4, InspectDoes
<1>5. CASE Meter
  BY <1>5, MeterDoes
<1>6. CASE Perform
  BY <1>6, PerformDoes DEF Taken
<1>7. CASE Lack
  <2>1. Told(Step, Missing(Step)) = "ignored" /\ req'.ignored
    BY <1>2, <1>7, LackDoes
  <2>2. Step.as = Ignored \/ Step.as = Revoked
    BY <1>1, <2>1, MissingTold
  <2>3. ~(Step.needs \subseteq world) /\ world' \subseteq world
    BY <1>7, LackDoes
  <2>4. Revoked # Same
    <3>1. DOMAIN Revoked # DOMAIN Same
      BY RewriteOf DEF Revoked
    <3>. QED  BY <3>1
  <2>. QED  BY <1>1, <2>1, <2>2, <2>3, <2>4
<1>8. CASE Refuse
  BY <1>1, <1>8, RefuseDoes
<1>9. CASE Fail
  <2>1. PICK raw \in Faults(Step) : Told(Step, raw) = "ignored" /\ req'.ignored
    BY <1>2, <1>9, FailDoes
  <2>. QED  BY <1>3, <2>1, MildTold
<1>. QED  BY <1>4, <1>5, <1>6, <1>7, <1>8, <1>9

(* Nothing comes into being on the way.                                    *)
LEMMA EndingShrinks ==
  ASSUME TypeInv, Inspect \/ Meter \/ Perform \/ Lack \/ Refuse \/ Fail,
         req.handler \in Ending
  PROVE  /\ world' \subseteq world
         /\ req'.ignored = req.ignored \/ req'.ignored
         /\ req'.pos = req.pos => req'.unlisted = req.unlisted
<1>1. Running /\ req.pos <= Len(Handler.steps) /\ req.pos \in Nat
  BY Records, AtWork DEF Running
<1>2. Step.kind = "call" => Step.gives = {}
  <2>1. \/ At <= 0 /\ Step \in Quiet
        \/ At \in 1 .. Len(Work) /\ Step = Work[At]
    BY <1>1, StepWorks
  <2>2. ASSUME At \in 1 .. Len(Work), Step = Work[At], Step.kind = "call"
        PROVE  Step.gives = {}
    BY <2>2, EndingSteps
  <2>. QED  BY <2>1, <2>2, Kinds
<1>3. CASE Inspect
  BY <1>3, InspectDoes
<1>4. CASE Meter
  BY <1>4, MeterDoes
<1>5. CASE Perform
  <2>1. req'.pos # req.pos
    BY <1>1, <1>5, PerformDoes
  <2>. QED  BY <1>2, <1>5, <2>1, PerformDoes
<1>6. CASE Lack
  BY <1>6, LackDoes
<1>7. CASE Refuse
  BY <1>7, RefuseDoes
<1>8. CASE Fail
  <2>1. Step.kind = "call"
    BY <1>8, FailDoes
  <2>2. PICK gives \in SUBSET Step.gives, takes \in SUBSET (Taken \cap world),
             undone \in SUBSET Step.undo : world' = ((world \cup gives) \ takes) \ undone
    BY <1>8, FailDoes
  <2>3. (req'.ignored = req.ignored \/ req'.ignored) /\ req'.unlisted = req.unlisted
    BY <1>8, FailDoes
  <2>. QED  BY <1>2, <2>1, <2>2, <2>3
<1>. QED  BY <1>3, <1>4, <1>5, <1>6, <1>7, <1>8

(* A new request is in its gate, or at the first step of its work.         *)
LEMMA Starts ==
  req.handler \in DOMAIN Routes /\ req.pos = 1 => At \in Int /\ At <= 1
<1>1. ASSUME req.handler \in DOMAIN Routes, req.pos = 1
      PROVE  At \in Int /\ At <= 1
  <2>1. Tailed(Handler.steps, Work)
    BY <1>1, Fits, UpdateUserFits
  <2>2. Len(Handler.steps) \in Nat /\ Len(Work) \in Nat /\ Len(Work) <= Len(Handler.steps)
    BY <2>1, TailedAt
  <2>. QED  BY <1>1, <2>2 DEF At
<1>. QED  BY <1>1

(* Success is answered behind the last step, and nothing else looks like   *)
(* it.                                                                     *)
LEMMA DoneStep ==
  ASSUME TypeInv, DoneInv, [Next]_vars
  PROVE  DoneInv'
<1>1. CASE Arrive \/ Answer
  BY <1>1, ArriveDoes, AnswerDoes DEF DoneInv, Answered
<1>2. CASE Others
  <2>1. SUFFICES ASSUME req # Idle
                 PROVE  DoneInv'
    BY <1>2, OthersDoes DEF DoneInv, Answered
  <2>2. req'.handler = req.handler /\ req'.pos = req.pos /\ req'.answer = req.answer
    BY <1>2, <2>1, OthersDoes
  <2>3. At' = At /\ Handler' = Handler /\ Work' = Work
    BY <2>2, SameRoute DEF At
  <2>. QED  BY <2>1, <2>2, <2>3 DEF DoneInv, Answered
<1>3. CASE UNCHANGED vars
  <2>1. At' = At /\ Handler' = Handler /\ Work' = Work
    BY <1>3, SameRoute DEF At, vars
  <2>. QED  BY <1>3, <2>1 DEF DoneInv, Answered, vars
<1>4. CASE Succeed
  <2>1. req # Idle /\ req.pos = Len(Handler.steps) + 1
        /\ req'.handler = req.handler /\ req'.pos = req.pos
    BY <1>4, SucceedDoes DEF Running
  <2>2. At' = At /\ Work' = Work
    BY <2>1, SameRoute DEF At
  <2>3. At = Len(Work) + 1
    BY <2>1, AtWork
  <2>. QED  BY <2>2, <2>3 DEF DoneInv
<1>5. CASE Inspect \/ Meter \/ Perform \/ Lack \/ Refuse \/ Fail
  <2>1. req.handler \in DOMAIN Routes /\ req'.handler = req.handler
    BY <1>5, Records, StepFacts DEF Running
  <2>2. Handler.ok \in {200, 201, 302} /\ Handler' = Handler
    BY <2>1, RouteFacts, SameRoute
  <2>3. req'.answer = 0 \/ req'.answer \in 400 .. 503
    BY <1>5, StepEnds, MeterDoes, PerformDoes
  <2>4. ~(req'.answer # 0 /\ req'.answer = Handler.ok)
    BY <2>2, <2>3
  <2>. QED  BY <2>2, <2>4 DEF DoneInv, Answered
<1>. QED  BY <1>1, <1>2, <1>3, <1>4, <1>5 DEF Next, Serve

(* Passing on, ignoring and forgiving are three things.                    *)
LEMMA Rewritten == Same # Ignored /\ Same # Revoked /\ Ignored # Revoked
<1>1. DOMAIN Same = {} /\ DOMAIN Ignored = Errors /\ DOMAIN Revoked = {"RedisKeyNotFound"}
  BY RewriteOf DEF Ignored, Revoked
<1>2. "NotFound" \in Errors
  BY Missings
<1>. QED  BY <1>1, <1>2

(* A call lets the request go on when it has removed its object, when its  *)
(* object was not there, or, if its errors are ignored, with that on       *)
(* record.                                                                 *)
LEMMA GoneStep ==
  ASSUME TypeInv, GoneInv, [Next]_vars
  PROVE  GoneInv'
<1>1. CASE Arrive
  <2>1. (req.handler \in DOMAIN Routes /\ req.pos = 1 => At \in Int /\ At <= 1)'
    BY Starts, PTL
  <2>2. At' \in Int /\ At' <= 1
    BY <1>1, <2>1, ArriveDoes
  <2>. QED  BY <2>2 DEF GoneInv
<1>2. CASE Answer
  BY <1>2, AnswerDoes DEF GoneInv
<1>3. ASSUME req # Idle, req'.handler = req.handler, req'.pos = req.pos,
             req.handler \in Ending => world' \subseteq world,
             req'.ignored = req.ignored \/ req'.ignored, req'.unlisted = req.unlisted
      PROVE  GoneInv'
  <2>1. At' = At
    BY <1>3, SameRoute DEF At
  <2>. QED  BY <1>3, <2>1 DEF GoneInv, Ending, Deleting
<1>4. CASE Others
  <2>1. CASE req = Idle
    BY <1>4, <2>1, OthersDoes DEF GoneInv
  <2>2. CASE req # Idle
    <3>1. /\ req'.handler = req.handler /\ req'.pos = req.pos
          /\ req'.ignored = req.ignored /\ world' \subseteq world
          /\ req'.unlisted = req.unlisted
      BY <1>4, <2>2, OthersDoes
    <3>. QED  BY <1>3, <2>2, <3>1
  <2>. QED  BY <2>1, <2>2
<1>5. CASE UNCHANGED vars
  BY <1>3, <1>5 DEF vars, GoneInv
<1>6. CASE Succeed
  BY <1>3, <1>6, SucceedDoes DEF Running
<1>7. CASE Inspect \/ Meter \/ Perform \/ Lack \/ Refuse \/ Fail
  <2>1. /\ Running /\ req # Idle /\ req.pos <= Len(Handler.steps) /\ req'.handler = req.handler
        /\ req.pos \in Nat /\ Len(Handler.steps) \in Nat /\ Len(Work) \in Nat
    BY <1>7, Records, AtWork DEF Running
  <2>2. \/ At \in Int /\ At <= 0
        \/ At \in 1 .. Len(Work) /\ Step = Work[At]
    BY <2>1, StepWorks
  <2>3. ASSUME req.handler \in Ending
        PROVE  /\ world' \subseteq world /\ (req'.ignored = req.ignored \/ req'.ignored)
               /\ req'.pos = req.pos => req'.unlisted = req.unlisted
    BY <1>7, <2>3, EndingShrinks
  <2>4. SUFFICES ASSUME req.handler \in Ending, req'.pos = req.pos + 1
                 PROVE  GoneInv'
    <3>1. req'.pos = req.pos + 1 \/ req'.pos = req.pos
      BY <1>7, StepEnds, MeterDoes, PerformDoes
    <3>2. CASE req.handler \notin Ending
      BY <2>1, <3>2 DEF GoneInv, Ending, Deleting
    <3>. QED  BY <1>3, <2>1, <2>3, <2>4, <3>1, <3>2
  <2>5. At' = At + 1
    <3>. DEFINE n == Len(Handler.steps) - Len(Work)
    <3>1. n \in Int /\ At' = req'.pos - n /\ At = req.pos - n
      BY <2>1, SameRoute DEF At
    <3>. HIDE DEF n
    <3>. QED  BY <2>1, <2>4, <3>1
  <2>6. ASSUME At \in 1 .. Len(Work), Step = Work[At], Step.kind = "call"
        PROVE  \/ (IF Step.listed THEN Step.takes \ req'.unlisted ELSE Step.takes)
                    \cap world' = {}
               \/ Step.as = Ignored /\ req'.ignored
               \/ Step.as = Revoked /\ "session" \notin world'
    BY <1>7, <2>4, <2>6, EndingPasses
  <2>7. world' \subseteq world /\ (req'.ignored = req.ignored \/ req'.ignored)
    BY <2>3, <2>4
  <2>8. CASE req.handler = "LogoutUser"
    <3>1. ASSUME At = 2
          PROVE  "refresh" \notin world'
      <4>1. Step = Del("refresh")
        BY <2>2, <2>8, <3>1, WorkAt
      <4>2. Step.kind = "call" /\ Step.takes = {"refresh"} /\ Step.as = Same /\ ~Step.listed
        BY <4>1 DEF Del, Call
      <4>. QED  BY <2>2, <2>6, <3>1, <4>2, Rewritten
    <3>2. ASSUME At >= 4
          PROVE  "session" \notin world'
      <4>1. Step = Revoke(Revoked)
        BY <2>2, <2>8, <3>2, WorkAt
      <4>2. Step.kind = "call" /\ "session" \in Step.takes /\ Step.as = Revoked /\ ~Step.listed
        BY <4>1 DEF Revoke, Call, BrowserKeys
      <4>. QED  BY <2>2, <2>6, <3>2, <4>2, Rewritten
    <3>3. At' >= 3 => "refresh" \notin world'
      BY <2>1, <2>2, <2>5, <2>7, <2>8, <3>1 DEF GoneInv
    <3>4. At' >= 5 => "session" \notin world'
      BY <2>2, <2>5, <3>2
    <3>. QED  BY <2>1, <2>8, <3>3, <3>4 DEF GoneInv, Deleting
  <2>9. CASE req.handler \in {"RevokeSessionMyProfile", "RevokeSessionUser"}
    <3>1. ASSUME At >= 1
          PROVE  "session" \notin world'
      <4>1. Step = Revoke(Revoked)
        BY <2>2, <2>9, <3>1, WorkAt
      <4>2. Step.kind = "call" /\ "session" \in Step.takes /\ Step.as = Revoked /\ ~Step.listed
        BY <4>1 DEF Revoke, Call, BrowserKeys
      <4>. QED  BY <2>2, <2>6, <3>1, <4>2, Rewritten
    <3>2. At' >= 2 => "session" \notin world'
      BY <2>2, <2>5, <3>1
    <3>. QED  BY <2>1, <2>9, <3>2 DEF GoneInv, Deleting
  <2>10. CASE req.handler \in {"RevokeAllSessionsMyProfile", "RevokeAllSessionsUser"}
    <3>1. ASSUME At >= 1
          PROVE  req'.ignored \/ (UserKeys \ req'.unlisted) \cap world' = {}
      <4>1. Step = Purge
        BY <2>2, <2>10, <3>1, WorkAt
      <4>2. /\ Step.kind = "call" /\ Step.takes = UserKeys \cup Members
            /\ Step.as = Ignored /\ Step.listed
        BY <4>1 DEF Purge, Call
      <4>. QED  BY <2>2, <2>6, <3>1, <4>2, Rewritten
    <3>2. At' >= 2 => req'.ignored \/ (UserKeys \ req'.unlisted) \cap world' = {}
      BY <2>2, <2>5, <3>1
    <3>. QED  BY <2>1, <2>10, <3>2 DEF GoneInv, Deleting
  <2>11. CASE req.handler \in Deleting
    <3>1. ASSUME At = 1
          PROVE  "account" \notin world'
      <4>1. Step = Delete("account")
        BY <2>2, <2>11, <3>1, WorkAt
      <4>2. Step.kind = "call" /\ Step.takes = {"account"} /\ Step.as = Same /\ ~Step.listed
        BY <4>1 DEF Delete, Call
      <4>. QED  BY <2>2, <2>6, <3>1, <4>2, Rewritten
    <3>2. ASSUME At >= 2
          PROVE  req'.ignored \/ (UserKeys \ req'.unlisted) \cap world' = {}
      <4>1. Step = Purge
        BY <2>2, <2>11, <3>2, WorkAt
      <4>2. /\ Step.kind = "call" /\ Step.takes = UserKeys \cup Members
            /\ Step.as = Ignored /\ Step.listed
        BY <4>1 DEF Purge, Call
      <4>. QED  BY <2>2, <2>6, <3>2, <4>2, Rewritten
    <3>3. At' >= 2 => "account" \notin world'
      BY <2>1, <2>2, <2>5, <2>7, <2>11, <3>1 DEF GoneInv
    <3>4. At' >= 3 => req'.ignored \/ (UserKeys \ req'.unlisted) \cap world' = {}
      BY <2>2, <2>5, <3>2
    <3>. QED  BY <2>1, <2>11, <3>3, <3>4 DEF GoneInv, Deleting
  <2>12. CASE req.handler \in {"DeleteMyShorten", "DeleteUserShorten"}
    <3>1. ASSUME At >= 1
          PROVE  "link" \notin world'
      <4>1. Step = Delete("link")
        BY <2>2, <2>12, <3>1, WorkAt
      <4>2. Step.kind = "call" /\ Step.takes = {"link"} /\ Step.as = Same /\ ~Step.listed
        BY <4>1 DEF Delete, Call
      <4>. QED  BY <2>2, <2>6, <3>1, <4>2, Rewritten
    <3>2. At' >= 2 => "link" \notin world'
      BY <2>2, <2>5, <3>1
    <3>. QED  BY <2>1, <2>12, <3>2 DEF GoneInv, Deleting
  <2>. QED  BY <2>4, <2>8, <2>9, <2>10, <2>11, <2>12 DEF Ending, Deleting
<1>. QED  BY <1>1, <1>2, <1>4, <1>5, <1>6, <1>7 DEF Next, Serve

(* Whatever fails on the way and whatever others remove, a client is told  *)
(* of the success of a logout, of a revocation or of a deletion only when  *)
(* its session, its account or its link is gone: the second RevokeSession  *)
(* of LogoutUser makes up for the first, whose error is ignored.  Of all   *)
(* that a user has, his tokens are gone and the sessions that his set      *)
(* still listed when it was purged, unless a call of the purge failed.     *)
THEOREM Gone == Spec => []SuccessMeansGone
<1>1. Init => DoneInv /\ GoneInv
  BY DEF Init, DoneInv, GoneInv, Answered
<1>2. TypeInv /\ DoneInv /\ [Next]_vars => DoneInv'
  BY DoneStep
<1>3. TypeInv /\ GoneInv /\ [Next]_vars => GoneInv'
  BY GoneStep
<1>4. DoneInv /\ GoneInv => SuccessMeansGone
  <2>. SUFFICES ASSUME DoneInv, GoneInv, Answered, req.answer = Handler.ok,
                       req.handler \in DOMAIN ToEnd
                PROVE  ToEnd[req.handler] \cap world = {}
    BY DEF SuccessMeansGone
  <2>1. req # Idle /\ At = Len(Work) + 1 /\ req.handler \in Ending
    BY DEF DoneInv, Answered, ToEnd, Ending
  <2>2. CASE req.handler = "LogoutUser"
    <3>1. At = 5
      <4>1. Work = <<Revoke(Ignored), Del("refresh"), Id, Revoke(Revoked)>>
        BY <2>2, WorkIs
      <4>2. Len(Work) = 4
        BY <4>1
      <4>. QED  BY <2>1, <4>2
    <3>. QED  BY <2>1, <2>2, <3>1 DEF GoneInv, ToEnd, BrowserKeys
  <2>3. CASE req.handler \in {"RevokeSessionMyProfile", "RevokeSessionUser"}
    <3>1. At = 2
      <4>1. Work = <<Revoke(Revoked)>>
        BY <2>3, WorkIs
      <4>2. Len(Work) = 1
        BY <4>1
      <4>. QED  BY <2>1, <4>2
    <3>. QED  BY <2>1, <2>3, <3>1 DEF GoneInv, ToEnd
  <2>4. CASE req.handler \in {"RevokeAllSessionsMyProfile", "RevokeAllSessionsUser"}
    <3>1. At = 2
      <4>1. Work = <<Purge>>
        BY <2>4, WorkIs
      <4>2. Len(Work) = 1
        BY <4>1
      <4>. QED  BY <2>1, <4>2
    <3>. QED  BY <2>1, <2>4, <3>1 DEF GoneInv, ToEnd, Purged
  <2>5. CASE req.handler \in Deleting
    <3>1. At = 3
      <4>1. Work = <<Delete("account"), Purge>>
        BY <2>5, WorkIs
      <4>2. Len(Work) = 2
        BY <4>1
      <4>. QED  BY <2>1, <4>2
    <3>. QED  BY <2>1, <2>5, <3>1 DEF GoneInv, ToEnd, Purged, Deleting
  <2>6. CASE req.handler \in {"DeleteMyShorten", "DeleteUserShorten"}
    <3>1. At = 2
      <4>1. Work = <<Delete("link")>>
        BY <2>6, WorkIs
      <4>2. Len(Work) = 1
        BY <4>1
      <4>. QED  BY <2>1, <4>2
    <3>. QED  BY <2>1, <2>6, <3>1 DEF GoneInv, ToEnd
  <2>. QED  BY <2>1, <2>2, <2>3, <2>4, <2>5, <2>6 DEF Ending, Deleting
<1>. QED  BY <1>1, <1>2, <1>3, <1>4, TypeInvariant, PTL DEF Spec

-----------------------------------------------------------------------------
(* The cookies: what they name is there unless the request has just ended  *)
(* it, and the requests that bring cookies have stored what these name.    *)
HeldInv ==
  cookies # {} /\ ~excused =>
    BrowserKeys \subseteq world \cup (IF req = Idle THEN {} ELSE req.took)

Undisturbed == req # Idle /\ ~req.upset /\ (Running \/ req.answer = Handler.ok)

BornInv ==
  Undisturbed =>
    /\ req.handler = "LoginUser" =>
         (At >= 2 => "new_session" \in world) /\ (At >= 3 => "new_refresh" \in world)
    /\ req.handler = "RefreshToken" =>
         /\ "new_session" \notin req.gave
         /\ At >= 3 => "new_refresh" \in world
         /\ At >= 5 => "session" \in world

(* What a request removes of what the cookies name, it keeps a record of.  *)
LEMMA Recorded ==
  ASSUME TypeInv, Serve
  PROVE  /\ req # Idle /\ req' # Idle /\ UNCHANGED <<cookies, excused>>
         /\ req.took \subseteq req'.took
         /\ BrowserKeys \cap world \subseteq world' \cup req'.took
<1>1. req # Idle /\ (req' \in Requests => req' # Idle)
  <2>1. Running
    BY Records DEF Serve, Succeed
  <2>. QED  BY <2>1, NotIdle DEF Running
<1>2. CASE Inspect
  BY <1>1, <1>2, InspectDoes
<1>3. CASE Meter
  BY <1>1, <1>3, MeterDoes
<1>4. CASE Perform
  BY <1>1, <1>4, PerformDoes
<1>5. ASSUME Step.kind = "call", req.pos <= Len(Handler.steps), NEW undone \in SUBSET Step.undo
      PROVE  BrowserKeys \cap undone = {}
  <2>1. Step \in Steps
    BY <1>1, <1>5, StepFacts
  <2>2. Step.undo \subseteq Fresh
    BY <1>5, <2>1, StepForms
  <2>. QED  BY <2>2 DEF BrowserKeys, Fresh
<1>6. CASE Lack
  <2>1. PICK undone \in SUBSET Step.undo : world' = world \ undone
    BY <1>6, LackDoes
  <2>2. BrowserKeys \cap undone = {}
    BY <1>5, <1>6, LackDoes
  <2>. QED  BY <1>1, <1>6, <2>1, <2>2, LackDoes
<1>7. CASE Refuse
  BY <1>1, <1>7, RefuseDoes
<1>8. CASE Fail
  <2>1. PICK gives \in SUBSET Step.gives, takes \in SUBSET (Taken \cap world),
             undone \in SUBSET Step.undo :
          /\ world' = ((world \cup gives) \ takes) \ undone
          /\ req'.took = req.took \cup takes
    BY <1>8, FailDoes
  <2>2. BrowserKeys \cap undone = {}
    BY <1>5, <1>8, FailDoes
  <2>. QED  BY <1>1, <1>8, <2>1, <2>2, FailDoes
<1>9. CASE Succeed
  BY <1>1, <1>9, SucceedDoes
<1>. QED  BY <1>2, <1>3, <1>4, <1>6, <1>7, <1>8, <1>9 DEF Serve

(* A call of a login or of a refresh lets it go on only when it has taken  *)
(* effect.                                                                 *)
LEMMA BearingPasses ==
  ASSUME TypeInv, Inspect \/ Meter \/ Perform \/ Lack \/ Refuse \/ Fail,
         req.handler \in {"LoginUser", "RefreshToken"}, req'.pos = req.pos + 1,
         At \in 1 .. Len(Work), Step = Work[At]
  PROVE  Perform
<1>1. req # Idle /\ req.handler \in DOMAIN Routes /\ req.pos \in Nat
  BY Records, StepFacts, AtWork DEF Running
<1>2. /\ Step.kind = "call" /\ Step.raw = {} /\ Step.thing # "page"
      /\ \/ Step.as = Same
         \/ Step.as = IfMissing("SessionNotFound") /\ Step.thing = "session"
  <2>1. CASE req.handler = "LoginUser"
    <3>1. Step \in {NewSession, NewRefresh}
      BY <2>1, WorkAt
    <3>. QED  BY <3>1, UndoForms
  <2>2. CASE req.handler = "RefreshToken"
    <3>1. \/ Step \in {Del("refresh"), Put("new_refresh")}
          \/ Step = Undoing({"new_refresh"}, Read("session", IfMissing("SessionNotFound")))
          \/ Step = Undoing({"new_refresh"}, Put("session"))
      BY <2>2, WorkAt
    <3>2. CASE Step \in {Del("refresh"), Put("new_refresh")}
      BY <3>2 DEF Del, Put, Call
    <3>. QED  BY <3>1, <3>2, UndoForms
  <2>. QED  BY <2>1, <2>2
<1>3. Step \in Mild /\ Step.as # Ignored
  <2>1. Work[At] \in Mild
    BY <1>1, WorkMild
  <2>2. DOMAIN Same # DOMAIN Ignored /\ DOMAIN IfMissing("SessionNotFound") # DOMAIN Ignored
    <3>1. /\ DOMAIN Same = {} /\ DOMAIN Ignored = Errors
          /\ DOMAIN IfMissing("SessionNotFound") = {"RedisKeyNotFound"}
      BY RewriteOf DEF Ignored
    <3>. QED  BY <3>1, Missings
  <2>. QED  BY <1>2, <2>1, <2>2
<1>4. CASE Inspect
  BY <1>2, <1>4, InspectDoes
<1>5. CASE Meter
  BY <1>2, <1>5, MeterDoes
<1>6. CASE Lack
  <2>1. Told(Step, Missing(Step)) = "ignored"
    BY <1>1, <1>6, LackDoes
  <2>2. CASE Step.as = Same
    <3>1. Classified(Step, Missing(Step))
            \in {"NotFound", "ForeignKeyViolation", "RedisKeyNotFound"}
      BY <1>2, ErrorOf
    <3>. QED  BY <2>1, <2>2, <3>1, ToldSame
  <2>3. CASE Step.as = IfMissing("SessionNotFound") /\ Step.thing = "session"
    <3>1. Step.thing \notin Tables \cup {"page"}
      BY <2>3 DEF Tables
    <3>2. Told(Step, Missing(Step)) = "SessionNotFound"
      BY <2>3, <3>1, ToldIfMissing
    <3>. QED  BY <2>1, <3>2
  <2>. QED  BY <1>2, <2>2, <2>3
<1>7. CASE Refuse
  BY <1>2, <1>7, RefuseDoes
<1>8. CASE Fail
  <2>1. PICK raw \in Faults(Step) : Told(Step, raw) = "ignored"
    BY <1>1, <1>8, FailDoes
  <2>. QED  BY <1>3, <2>1, MildTold
<1>. QED  BY <1>4, <1>5, <1>6, <1>7, <1>8

(* A login stores the session and then the refresh token; a refresh the    *)
(* new token and then the session, which it has overwritten and not        *)
(* created anew.                                                           *)
LEMMA BornStep ==
  ASSUME TypeInv, BornInv, [Next]_vars
  PROVE  BornInv'
<1>1. CASE Arrive
  <2>1. (req.handler \in DOMAIN Routes /\ req.pos = 1 => At \in Int /\ At <= 1)'
    BY Starts, PTL
  <2>2. At' \in Int /\ At' <= 1
    BY <1>1, <2>1, ArriveDoes
  <2>. QED  BY <1>1, <2>2, ArriveDoes DEF BornInv
<1>2. CASE Answer
  BY <1>2, AnswerDoes DEF BornInv, Undisturbed
<1>3. ASSUME req # Idle, req'.handler = req.handler, req'.pos = req.pos,
             req'.gave = req.gave, UserKeys \cap world \subseteq world',
             Undisturbed' => Undisturbed
      PROVE  BornInv'
  <2>1. At' = At
    BY <1>3, SameRoute DEF At
  <2>2. {"new_session", "new_refresh", "session"} \subseteq UserKeys
    BY DEF UserKeys, NewKeys, BrowserKeys
  <2>. QED  BY <1>3, <2>1, <2>2 DEF BornInv
<1>4. CASE Others
  <2>1. CASE req = Idle
    BY <1>4, <2>1, OthersDoes DEF BornInv, Undisturbed
  <2>2. CASE req # Idle
    <3>1. PICK thing \in world :
            /\ world' = world \ {thing}
            /\ req'.handler = req.handler /\ req'.pos = req.pos
            /\ req'.answer = req.answer /\ req'.gave = req.gave
            /\ IF thing \in UserKeys THEN req'.upset ELSE UNCHANGED req
      BY <1>4, <2>2, OthersDoes
    <3>2. CASE thing \in UserKeys
      BY <3>1, <3>2 DEF BornInv, Undisturbed
    <3>3. CASE thing \notin UserKeys
      <4>1. Handler' = Handler
        BY <3>1, SameRoute
      <4>2. Undisturbed' => Undisturbed
        BY <2>2, <3>1, <3>3, <4>1 DEF Undisturbed, Running
      <4>. QED  BY <1>3, <2>2, <3>1, <3>3, <4>2
    <3>. QED  BY <3>2, <3>3
  <2>. QED  BY <2>1, <2>2
<1>5. CASE UNCHANGED vars
  <2>1. Handler' = Handler /\ At' = At
    BY <1>5, SameRoute DEF vars, At
  <2>. QED  BY <1>5, <2>1 DEF vars, BornInv, Undisturbed, Running
<1>6. CASE Succeed
  <2>1. Undisturbed' => Undisturbed
    BY <1>6, SucceedDoes DEF Undisturbed, Running
  <2>. QED  BY <1>3, <1>6, <2>1, SucceedDoes DEF Running
<1>7. CASE Inspect \/ Meter \/ Perform \/ Lack \/ Refuse \/ Fail
  <2>1. /\ Running /\ req # Idle /\ req.pos <= Len(Handler.steps) /\ req'.handler = req.handler
        /\ req.pos \in Nat /\ Len(Handler.steps) \in Nat /\ Len(Work) \in Nat
        /\ req.handler \in DOMAIN Routes
    BY <1>7, Records, AtWork, StepFacts DEF Running
  <2>2. \/ At \in Int /\ At <= 0 /\ Step \in Quiet
        \/ At \in 1 .. Len(Work) /\ Step = Work[At]
    BY <2>1, StepWorks
  <2>3. req'.upset = req.upset
    BY <1>7, InspectDoes, MeterDoes, PerformDoes, LackDoes, RefuseDoes, FailDoes
  <2>4. SUFFICES ASSUME Undisturbed', req.handler \in {"LoginUser", "RefreshToken"}
                 PROVE  BornInv'
    BY <2>1 DEF BornInv
  <2>5. Undisturbed
    BY <2>1, <2>3, <2>4 DEF Undisturbed
  <2>6. req'.pos = req.pos + 1
    <3>1. Handler.ok \in {200, 201, 302} /\ Handler' = Handler
      BY <2>1, RouteFacts, SameRoute
    <3>2. req'.answer = 0 \/ req'.answer = Handler.ok
      BY <2>4, <3>1 DEF Undisturbed, Running
    <3>3. \/ req'.pos = req.pos + 1 /\ req'.answer = 0
          \/ req'.answer \in 400 .. 503
      BY <1>7, StepEnds, MeterDoes, PerformDoes
    <3>. QED  BY <3>1, <3>2, <3>3
  <2>7. At' = At + 1
    <3>. DEFINE n == Len(Handler.steps) - Len(Work)
    <3>1. n \in Int /\ At' = req'.pos - n /\ At = req.pos - n
      BY <2>1, SameRoute DEF At
    <3>. HIDE DEF n
    <3>. QED  BY <2>1, <2>6, <3>1
  <2>8. CASE At \in Int /\ At <= 0 /\ Step \in Quiet
    <3>1. req'.gave \subseteq req.gave
      BY <1>7, <2>8, Records, Kinds
    <3>. QED  BY <2>1, <2>4, <2>5, <2>7, <2>8, <3>1 DEF BornInv
  <2>9. CASE At \in 1 .. Len(Work) /\ Step = Work[At]
    <3>1. /\ world' = (world \cup Step.gives) \ Taken
          /\ req'.gave = req.gave \cup Step.gives
          /\ Taken \subseteq Step.takes
      BY <1>7, <2>4, <2>6, <2>9, BearingPasses, PerformDoes, TakenIs
    <3>2. CASE req.handler = "LoginUser"
      <4>1. At = 1 => Step.gives = {"new_session", "new_member"}
        BY <2>9, <3>2, WorkAt, UndoForms
      <4>2. At = 2 => Step.gives = {"new_refresh"}
        BY <2>9, <3>2, WorkAt, UndoForms
      <4>3. Step.takes = {} /\ (At = 1 \/ At = 2)
        BY <2>9, <3>2, WorkAt, UndoForms
      <4>. QED  BY <2>1, <2>5, <2>7, <3>1, <3>2, <4>1, <4>2, <4>3 DEF BornInv
    <3>3. CASE req.handler = "RefreshToken"
      <4>1. At = 1 => Step.gives = {}
        BY <2>9, <3>3, WorkAt DEF Del, Call
      <4>2. At = 2 => Step.gives = {"new_refresh"} /\ Step.takes = {}
        BY <2>9, <3>3, WorkAt DEF Put, Call
      <4>3. At = 3 => Step.gives = {} /\ Step.takes = {}
        BY <2>9, <3>3, WorkAt, UndoForms
      <4>4. At = 4 => Step.gives = {"session"} /\ Step.takes = {}
        BY <2>9, <3>3, WorkAt, UndoForms
      <4>5. At \in {1, 2, 3, 4}
        BY <2>9, <3>3, WorkAt
      <4>6. "new_session" \notin req'.gave
        BY <2>5, <3>1, <3>3, <4>1, <4>2, <4>3, <4>4, <4>5 DEF BornInv
      <4>7. At' >= 3 => "new_refresh" \in world'
        BY <2>5, <2>7, <3>1, <3>3, <4>1, <4>2, <4>3, <4>4, <4>5 DEF BornInv
      <4>8. At' >= 5 => "session" \in world'
        BY <2>7, <3>1, <4>4, <4>5
      <4>. QED  BY <2>1, <3>3, <4>6, <4>7, <4>8 DEF BornInv
    <3>. QED  BY <2>4, <3>2, <3>3
  <2>. QED  BY <2>2, <2>8, <2>9
<1>. QED  BY <1>1, <1>2, <1>4, <1>5, <1>6, <1>7 DEF Next, Serve

(* The cookies change only with an answer of success.                      *)
LEMMA HeldStep ==
  ASSUME TypeInv, DoneInv, BornInv, HeldInv, [Next]_vars
  PROVE  HeldInv'
<1>1. CASE Arrive
  BY <1>1, ArriveDoes DEF HeldInv
<1>2. CASE Serve
  BY <1>2, Recorded DEF HeldInv
<1>3. ASSUME req # Idle, NEW told, world' = Forgotten, req' = Idle, UNCHANGED cookies,
             excused' = (cookies # {} /\ (excused \/ Unnoticed(told))),
             ~(req.handler \in Parting /\ told = Handler.ok)
      PROVE  HeldInv'
  <2>1. SUFFICES ASSUME cookies # {}, ~excused, ~Unnoticed(told)
                 PROVE  BrowserKeys \subseteq Forgotten
    BY <1>3 DEF HeldInv
  <2>2. BrowserKeys \cap req.took = {}
    BY <1>3, <2>1 DEF Unnoticed
  <2>3. BrowserKeys \subseteq world
    BY <1>3, <2>1, <2>2 DEF HeldInv
  <2>. QED  BY <2>3 DEF Forgotten, BrowserKeys, NewKeys
<1>4. req # Idle =>
        /\ Handler.ok # 0
        /\ req.handler \in Parting => Handler.jar = "clear"
  BY StepFacts, RouteFacts DEF Parting
<1>5. CASE DeliverPlain
  <2>1. ~(req.handler \in Parting /\ req.answer = Handler.ok)
    BY <1>4, <1>5 DEF DeliverPlain, Answered
  <2>. QED  BY <1>3, <1>5, <2>1 DEF DeliverPlain, Answered
<1>6. CASE Lose
  BY <1>3, <1>4, <1>6 DEF Lose
<1>7. CASE DeliverCleared
  BY <1>7 DEF DeliverCleared, HeldInv
<1>8. CASE Others
  <2>1. PICK thing \in world :
          /\ world' = world \ {thing}
          /\ IF thing \in UserKeys
               THEN /\ excused' = (cookies # {} /\ (excused \/ thing \in BrowserKeys))
                    /\ req = Idle => req' = Idle
                    /\ req # Idle => req' \in Requests /\ req'.took = req.took
               ELSE UNCHANGED <<excused, req>>
    BY <1>8, OthersDoes
  <2>2. UNCHANGED cookies
    BY <1>8, OthersDoes
  <2>3. CASE thing \in BrowserKeys
    BY <2>1, <2>2, <2>3 DEF HeldInv, UserKeys
  <2>4. CASE thing \notin BrowserKeys
    <3>1. /\ cookies # {} => (excused' <=> excused)
          /\ (IF req' = Idle THEN {} ELSE req'.took) = IF req = Idle THEN {} ELSE req.took
      BY <2>1, <2>4, NotIdle
    <3>. QED  BY <2>1, <2>2, <2>4, <3>1 DEF HeldInv
  <2>. QED  BY <2>3, <2>4
<1>9. CASE UNCHANGED vars
  BY <1>9 DEF vars, HeldInv
<1>10. CASE DeliverSet
  <2>1. /\ Answered /\ req.answer = Handler.ok /\ Handler.jar = "set"
        /\ excused' = req.upset /\ req' = Idle
        /\ world' = {k \in Forgotten : k \in DOMAIN Successor => Successor[k] \notin req.gave}
                      \cup {k \in DOMAIN Successor : Successor[k] \in world}
    BY <1>10 DEF DeliverSet
  <2>2. SUFFICES ASSUME ~req.upset
                 PROVE  BrowserKeys \subseteq world'
    BY <2>1 DEF HeldInv
  <2>3. /\ req # Idle /\ Undisturbed /\ At = Len(Work) + 1
        /\ req.handler \in {"LoginUser", "RefreshToken"}
    <3>1. req # Idle /\ req.handler \in DOMAIN Routes
      BY <2>1, StepFacts DEF Answered
    <3>2. req.handler \in {"LoginUser", "RefreshToken"}
      BY <2>1, <3>1, RouteFacts
    <3>. QED  BY <2>1, <2>2, <3>1, <3>2 DEF Undisturbed, DoneInv
  <2>4. /\ BrowserKeys = {"session", "refresh"} /\ BrowserKeys \subseteq DOMAIN Successor
        /\ Successor["session"] = "new_session" /\ Successor["refresh"] = "new_refresh"
    BY DEF BrowserKeys, Successor
  <2>5. CASE req.handler = "LoginUser"
    <3>1. Work = <<NewSession, NewRefresh>>
      BY <2>5, WorkIs
    <3>2. Len(Work) = 2
      BY <3>1
    <3>3. "new_session" \in world /\ "new_refresh" \in world
      BY <2>3, <2>5, <3>2 DEF BornInv
    <3>. QED  BY <2>1, <2>4, <3>3
  <2>6. CASE req.handler = "RefreshToken"
    <3>1. Work = <<Del("refresh"), Put("new_refresh"),
                   Undoing({"new_refresh"}, Read("session", IfMissing("SessionNotFound"))),
                   Undoing({"new_refresh"}, Put("session"))>>
      BY <2>6, WorkIs
    <3>2. Len(Work) = 4
      BY <3>1
    <3>3. "new_session" \notin req.gave /\ "new_refresh" \in world /\ "session" \in world
      BY <2>3, <2>6, <3>2 DEF BornInv
    <3>4. "session" \in Forgotten
      BY <3>3 DEF Forgotten, NewKeys
    <3>. QED  BY <2>1, <2>4, <3>3, <3>4
  <2>. QED  BY <2>3, <2>5, <2>6
<1>. QED
  BY <1>1, <1>2, <1>5, <1>6, <1>7, <1>8, <1>9, <1>10 DEF Next, Answer

(* The cookies that a browser holds name a session and a refresh token     *)
(* that exist, unless others have removed one of them, or it has expired,  *)
(* or a request of the browser has ended it and its answer did not say so: *)
(* a login or a refresh that is answered with success has stored both, and *)
(* a parting that is has had the cookies cleared, however many calls fail  *)
(* on the way.                                                             *)
THEOREM LiveCookies == Spec => []CookiesLive
<1>1. Init => DoneInv /\ BornInv /\ HeldInv
  BY DEF Init, DoneInv, BornInv, HeldInv, Answered, Undisturbed
<1>2. TypeInv /\ DoneInv /\ [Next]_vars => DoneInv'
  BY DoneStep
<1>3. TypeInv /\ BornInv /\ [Next]_vars => BornInv'
  BY BornStep
<1>4. TypeInv /\ DoneInv /\ BornInv /\ HeldInv /\ [Next]_vars => HeldInv'
  BY HeldStep
<1>5. HeldInv => CookiesLive
  BY DEF HeldInv, CookiesLive
<1>. QED  BY <1>1, <1>2, <1>3, <1>4, <1>5, TypeInvariant, PTL DEF Spec
=============================================================================
