--------------------------- MODULE BucketContract ---------------------------
(***************************************************************************)
(* What the token bucket of one client promises, with a clock that never   *)
(* sleeps: it gains one unit a tick until it is full, and an admission     *)
(* costs a token, which is as many units as the ticks that refill it.      *)
(***************************************************************************)
EXTENDS Integers

CONSTANTS
  Capacity,     \* units of a full bucket
  Price         \* units of a token

VARIABLES
  now,          \* the clock
  level         \* the units in the bucket

Init == now = 1 /\ level = Capacity

Tick ==
  /\ now' = now + 1
  /\ level' = IF level < Capacity THEN level + 1 ELSE level

Take ==
  /\ level >= Price
  /\ level' = level - Price
  /\ UNCHANGED now

Next == Tick \/ Take

Spec == Init /\ [][Next]_<<now, level>>
=============================================================================
