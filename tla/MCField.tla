------------------------------ MODULE MCField ------------------------------
(* Three monsters with the code's radii around a meadow: one in striking range *)
(* from the start, one near enough for a single step, whose coordinates are    *)
(* below the player's so that rounding down leads away, and one that takes two.*)
(* The road is out of everyone's sight.                                        *)
EXTENDS Field, TLC

PICKUP_RADIUS == 50
MCNear(p, q) == Dist2(p, q) <= Sq(PICKUP_RADIUS)
MCSpots == {<<300, 300>>, <<900, 300>>}
MCBorn == (1 :> <<320, 325>>) @@ (2 :> <<262, 254>>) @@ (3 :> <<420, 430>>)
=============================================================================
