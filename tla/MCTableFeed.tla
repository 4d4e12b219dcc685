----------------------------- MODULE MCTableFeed -----------------------------
(* Small instances of TableFeed for TLC. *)
EXTENDS TableFeed

CONSTANTS t, b

=============================================================================
