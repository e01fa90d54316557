---------------------------- MODULE MCSqlSessions ----------------------------
(***************************************************************************)
(* The connections of the two SQL drivers written in Rust, for TLC: DuckDB *)
(* (transactions and imports; cursors and exports) and openGauss           *)
(* (transactions; imports; reads).  A behaviour is one use of one driver,  *)
(* the other driver stays at its first state.                              *)
(***************************************************************************)
EXTENDS DuckDb, OpenGauss

VARIABLE use

\* Transactions and imports; and two ways to read a small table, by fetches and by
\* an export.
Changing == INSTANCE DuckDb WITH RowLimits <- {}, FetchSizes <- {}, MaxCursors <- 0

Reads == INSTANCE DuckDb WITH Thresholds <- {}, MaxTx <- 0, MaxImports <- 0, MaxChunk <- 0

OgTx == INSTANCE OpenGauss WITH
  OgRowLimits <- {}, OgThresholds <- {}, OgMaxCursors <- 0, OgMaxImports <- 0, OgMaxChunk <- 2

OgImports == INSTANCE OpenGauss WITH
  Savepoints <- {}, OgRowLimits <- {}, OgMaxCursors <- 0, OgMaxTx <- 1

OgReads == INSTANCE OpenGauss WITH
  Savepoints <- {}, OgThresholds <- {}, OgMaxTx <- 0, OgMaxImports <- 0, OgMaxChunk <- 1

ASSUME UsesAssumption ==
  Changing!DuckAssumption /\ Reads!DuckAssumption /\ OgTx!OpenGaussAssumption /\ OgImports!OpenGaussAssumption /\ OgReads!OpenGaussAssumption

allVars == <<use, vars, ogVars>>

AllInit == /\ use \in {"duck tx", "duck reads", "og tx", "og imports", "og reads"}
           /\ IF use = "duck reads" THEN Reads!Init ELSE Changing!Init
           /\ IF use = "og imports" THEN OgImports!OgInit ELSE IF use = "og reads" THEN OgReads!OgInit ELSE OgTx!OgInit

AllNext == \/ use = "duck tx" /\ Changing!Next /\ UNCHANGED <<use, ogVars>>
           \/ use = "duck reads" /\ Reads!Next /\ UNCHANGED <<use, ogVars>>
           \/ use = "og tx" /\ OgTx!OgNext /\ UNCHANGED <<use, vars>>
           \/ use = "og imports" /\ OgImports!OgNext /\ UNCHANGED <<use, vars>>
           \/ use = "og reads" /\ OgReads!OgNext /\ UNCHANGED <<use, vars>>

AllSpec == AllInit /\ [][AllNext]_allVars
=============================================================================
