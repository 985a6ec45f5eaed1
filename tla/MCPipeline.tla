----------------------------- MODULE MCPipeline -----------------------------
(* Instances of Pipeline for TLC. *)
EXTENDS Pipeline

\* Document 1 came by mail; 2 was uploaded and is a likely duplicate of 1.
MCSuggested == [d \in Docs |-> {"Strom", "ai-approved"}]
MCCluster == [d \in Docs |-> Docs]
=============================================================================
