----------------------------- MODULE MCDelivery -----------------------------
(***************************************************************************)
(* Instances of Delivery for TLC.                                          *)
(***************************************************************************)
EXTENDS Delivery, TLC

CONSTANTS j1, j2, j3, k1, k2, ch1, ch2

\* Two deliveries of one event to a channel and one of another event.
TwoKeys   == (j1 :> k1 @@ j2 :> k1 @@ j3 :> k2)
OneTarget == [j \in Jobs |-> ch1]

\* One event that goes to two channels, and another.
TwoTargets == (j1 :> ch1 @@ j2 :> ch2 @@ j3 :> ch1)

Symmetric == Permutations(Workers)
=============================================================================
