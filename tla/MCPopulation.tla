---------------------------- MODULE MCPopulation ----------------------------
(* Small instances of Population: two maps, two uids.  A tick is 1.5 s. *)
EXTENDS Population, TLC
CONSTANTS fields, cave, u1, u2, wolf, boar
MCPopsOf ==
    (fields :> {(u1 :> wolf) @@ (u2 :> NoTmpl), (u1 :> wolf) @@ (u2 :> boar)}) @@
    (cave :> {(u1 :> boar) @@ (u2 :> NoTmpl)})
MCRebornTimes == {2, 8}
=============================================================================
