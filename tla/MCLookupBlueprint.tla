--------------------------- MODULE MCLookupBlueprint ---------------------------
(* Four lookups: three at the same level with different views of the table, one  *)
(* at a later level that needs an entry the first level's lookups must not      *)
(* cache: its wires are solved with theirs.                                    *)
EXTENDS LookupBlueprint, TLC

MCNbEntries  == "a" :> 1 @@ "b" :> 2 @@ "c" :> 2 @@ "d" :> 4
MCNbQueries  == "a" :> 1 @@ "b" :> 2 @@ "c" :> 1 @@ "d" :> 2
MCLevelOf    == "a" :> 2 @@ "b" :> 2 @@ "c" :> 2 @@ "d" :> 3
MCEntryLevel == <<0, 1, 2, 0>>
==============================================================================
