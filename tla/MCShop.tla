------------------------------- MODULE MCShop -------------------------------
(* A small instance of Shop: a limited, an unlimited, a free and an unlisted good. *)
EXTENDS Shop, TLC
CONSTANTS potion, pass, gift, relic, diamond, gold, honour
MCPrice == (potion :> 1) @@ (pass :> 2) @@ (gift :> 0) @@ (relic :> 1)
MCLimit == (potion :> 0) @@ (pass :> 1) @@ (gift :> 1) @@ (relic :> 1)
MCFunds == (diamond :> 2) @@ (gold :> 4)
=============================================================================
