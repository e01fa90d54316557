--------------------------- MODULE MCDbIpcServer ---------------------------
(***************************************************************************)
(* The Go database driver for TLC, with three uses of it, one for a        *)
(* behaviour: two connections with transactions and a cursor, one with two *)
(* cursors that are read in pieces, one with imports, exports and batches. *)
(* The constants of the run bound all three.                               *)
(***************************************************************************)
EXTENDS DbIpcServer

VARIABLE use

\* A query without max_rows, one that asks for no row and one that asks for 2.
MCLimits == {NoLimit, 0, 2}

Sessions == INSTANCE DbIpcServer WITH
  MaxConns <- 2, MaxCursors <- 1, MaxTxs <- 2, MaxImports <- 0, MaxWrites <- 1, BatchSizes <- {},
  Lengths <- {2}, Limits <- {NoLimit}, FetchSizes <- {1}, StreamIds <- {}, Databases <- {"d1"}

Cursors == INSTANCE DbIpcServer WITH
  MaxConns <- 1, MaxCursors <- 2, MaxTxs <- 0, MaxImports <- 0, MaxWrites <- 0, BatchSizes <- {},
  Lengths <- {0, 3}, Limits <- MCLimits, FetchSizes <- {1, 2}, StreamIds <- {}, Databases <- {"d1"}

Transfers == INSTANCE DbIpcServer WITH
  MaxConns <- 1, MaxCursors <- 0, MaxTxs <- 0, MaxImports <- 1, MaxWrites <- 2, BatchSizes <- {0, 2},
  Lengths <- {0, 3}, Limits <- {NoLimit}, FetchSizes <- {1, 2}, StreamIds <- {"s1"}, Databases <- {"d1", "d2"}

AllInit == use \in {"sessions", "cursors", "transfers"} /\ Init

AllNext == /\ UNCHANGED use
           /\ \/ use = "sessions" /\ Sessions!Next
              \/ use = "cursors" /\ Cursors!Next
              \/ use = "transfers" /\ Transfers!Next

AllSpec == AllInit /\ [][AllNext]_<<use, vars>>
=============================================================================
