------------------------------ MODULE MCRewards ------------------------------
(***************************************************************************)
(* A small instance of Rewards.  The quests: talk, hunt two wolves, talk;  *)
(* the hunt pays in two parts, of which one is exp.  The curve has four    *)
(* levels and is not monotone; a wolf gives 1, a boar takes two levels at  *)
(* once.                                                                   *)
(***************************************************************************)
EXTENDS Rewards, TLC
CONSTANTS meet, hunt, report, wolf, boar
MCNextTask == (meet :> hunt) @@ (hunt :> report) @@ (report :> NoTask)
MCTarget   == (meet :> boar) @@ (hunt :> wolf) @@ (report :> boar)
MCNeed     == (meet :> 0) @@ (hunt :> 2) @@ (report :> 0)
MCAwards   == (meet :> 1) @@ (hunt :> 2) @@ (report :> 0)
MCAwardExp == (meet :> <<2>>) @@ (hunt :> <<0, 3>>) @@ (report :> <<>>)
MCKillExp  == (wolf :> 1) @@ (boar :> 6)
MCnext_lv_exp == <<2, 4, 3>>
=============================================================================
