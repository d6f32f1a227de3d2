--------------------------- MODULE WindowContract ---------------------------
(***************************************************************************)
(* What the sliding window of one client promises, with a clock that never *)
(* sleeps: it forgets each admission when it is one span old, and never    *)
(* remembers more than its limit.                                          *)
(***************************************************************************)
EXTENDS Integers, FiniteSets

CONSTANTS
  Most,        \* admissions that are remembered at most
  Age,         \* ticks that an admission is remembered
  Calls        \* numbers of the calls that ask for an admission

VARIABLES
  now,          \* the clock
  recent        \* the admissions that are remembered

Init == now = 1 /\ recent = {}

Tick ==
  /\ now' = now + 1
  /\ recent' = {e \in recent : e.at > now' - Age}

(* A call that is made again moves to the later time.                      *)
Admit(id) ==
  /\ Cardinality(recent) < Most
  /\ recent' = {e \in recent : e.id # id} \cup {[at |-> now, id |-> id]}
  /\ UNCHANGED now

Next == Tick \/ \E id \in Calls : Admit(id)

Spec == Init /\ [][Next]_<<now, recent>>
=============================================================================
