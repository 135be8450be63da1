---------------------------- MODULE MCEchoWorker -----------------------------
(***************************************************************************)
(* A small instance of EchoWorker: two workers share the pool, one of them *)
(* has two flows and the other has one.                                    *)
(***************************************************************************)
EXTENDS EchoWorker, TLC

CONSTANTS c1, c2, c3, srv

MCEndpoints == {c1, c2, c3, srv}

From(c) == [src |-> c, dst |-> srv]

MCTraffic == {From(c) : c \in {c1, c2, c3}}
MCRss == From(c1) :> 0 @@ From(c2) :> 0 @@ From(c3) :> 1
==============================================================================
