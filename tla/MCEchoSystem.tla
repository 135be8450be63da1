----------------------------- MODULE MCEchoSystem -----------------------------
(***************************************************************************)
(* A small instance of EchoSystem: two flows, each on a queue of its own.  *)
(***************************************************************************)
EXTENDS EchoSystem

MCTraffic == {[src |-> f, dst |-> server] : f \in {0, 1}}
MCRss == [h \in MCTraffic |-> h.src]
==============================================================================
