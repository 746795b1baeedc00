----------------------------- MODULE MCPkd1Gzip -----------------------------
(***************************************************************************)
(* Instances of Pkd1Gzip: batches of one and two records, so that a cut    *)
(* member may end within or between records.                               *)
(***************************************************************************)
EXTENDS Pkd1Gzip

=============================================================================
