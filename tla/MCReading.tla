----------------------------- MODULE MCReading -----------------------------
(***************************************************************************)
(* Small instances, for TLC, of the two that read lines in the one event    *)
(* loop: LineReader on the data connection, ControlSession on the control   *)
(* connections.  They share no variable and no callback interrupts another, *)
(* so each is checked while the other is at rest.                           *)
(***************************************************************************)
EXTENDS LineReader, ControlSession

MCBodies == <<<<1, 1>>, <<2>>, <<3, 3, 3>>, <<4>>>>

MCInit == Init /\ SessionInit

MCNext ==
    \/ Next /\ SessionInit /\ UNCHANGED sessionVars
    \/ SessionNext /\ Init /\ UNCHANGED vars

MCSpec == MCInit /\ [][MCNext]_<<vars, sessionVars>>

=============================================================================
