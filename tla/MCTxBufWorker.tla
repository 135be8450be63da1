--------------------------- MODULE MCTxBufWorker ----------------------------
(***************************************************************************)
(* A small instance of TxBufWorker: two workers share the pool, and each   *)
(* has a flow.                                                             *)
(***************************************************************************)
EXTENDS TxBufWorker, TLC

CONSTANTS c1, c2, srv

MCEndpoints == {c1, c2, srv}

From(c) == [src |-> c, dst |-> srv]

MCTraffic == {From(c1), From(c2)}
MCRss == From(c1) :> 0 @@ From(c2) :> 1
==============================================================================
