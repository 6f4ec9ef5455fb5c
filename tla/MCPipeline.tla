----------------------------- MODULE MCPipeline -----------------------------
(* Instances of Pipeline for TLC. *)
EXTENDS Pipeline

\* The usual three descriptors, without standard error, and with one more.
UsualStarts == {{0, 1, 2}, {0, 1}, {0, 1, 2, 3}}
NoStandardInput == {{1, 2}}
=============================================================================
