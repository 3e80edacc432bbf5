----------------------------- MODULE MCWorkspace -----------------------------
(* The workspace of an Evaluate frame.                                      *)
EXTENDS Workspace

MCTables == <<"entries", "queries">>

=============================================================================
