----------------------------- MODULE MCTcTools -----------------------------
(* A pktrace and two runs of pksniff on one interface. *)
EXTENDS TcTools

MCRuns == {"trace", "sniff1", "sniff2"}
MCTool == [r \in MCRuns |-> IF r = "trace" THEN "pktrace" ELSE "pksniff"]
=============================================================================
