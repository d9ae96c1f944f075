----------------------------- MODULE MCMigrator -----------------------------
(* Two processes; two versions in the shape of 0001 (tables) and 0002 (a    *)
(* column on one of them); an old, a current and an edited binary.          *)
EXTENDS Migrator, TLC

CONSTANTS p1, p2, f1, f2, f2edited, tStock, tRun, runKey, edition

MCProcs == {p1, p2}
MCFiles == {f1, f2, f2edited}
MCTables == {tStock, tRun}
MCColumns == {runKey, edition}
MCTableOf == (tStock :> tStock) @@ (tRun :> tRun)
             @@ (runKey :> tRun) @@ (edition :> tRun)
MCUpOf == (f1 :> <<tStock, tRun>>) @@ (f2 :> <<runKey>>)
          @@ (f2edited :> <<runKey, edition>>)
MCDownOf == (f1 :> <<tRun, tStock>>) @@ (f2 :> <<runKey>>)
            @@ (f2edited :> <<edition, runKey>>)
MCBinaries == {<<f1>>, <<f1, f2>>, <<f1, f2edited>>}
=============================================================================
