----------------------------- MODULE MCDisplay -----------------------------
(* The chains and producers of MCBlockExplorer for the runs of Display. *)
EXTENDS MCBlockExplorer, Display
=============================================================================
