--------------------------- MODULE MCHistoryImport ---------------------------
(* The instance of HistoryImport for TLC: a pair of files and a copy of them in another *)
(* directory, in which a hand is damaged.                                               *)
EXTENDS HistoryImport, TLC

CONSTANTS p1, p2, t1, worker, request

MCPairs  == <<p1, p2>>
MCTourOf == p1 :> t1 @@ p2 :> t1
=============================================================================
