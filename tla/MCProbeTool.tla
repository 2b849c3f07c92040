---------------------------- MODULE MCProbeTool ----------------------------
(* Two CPUs with two events each and room for two records: the ring fills, *)
(* a record is submitted behind a busy one, and the tool stops anywhere.   *)
EXTENDS ProbeTool
=============================================================================
