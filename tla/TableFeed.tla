------------------------------ MODULE TableFeed ------------------------------
(***************************************************************************)
(* How lines become tables: process_line of src/src/oris_protocol_data.c on *)
(* the tables of src/src/oris_table.c, with everybody else who changes a    *)
(* table between two of its lines: the operator (oris_protocol_ctrl.c), an  *)
(* automation that copies tables (oris_automation.c), a line that is lost,  *)
(* and a connection that breaks.                                            *)
(*                                                                         *)
(* The server sends table t as transmissions 1, 2, ... of Lines(t) lines.   *)
(* A row is the transmission and the number of the line it came in.          *)
(***************************************************************************)
EXTENDS Integers, Sequences

CONSTANTS
    Tables,     \* names of tables
    Bang,       \* the tables whose name ends in '!': one line, a response
    LineCount,  \* lines of a transmission of the other tables
    Foreign,    \* a row the operator types
    Disturbances,   \* what happens but for broken connections: "loss", "operator", "automation"
    MaxVersion, \* bound: transmissions of a table
    MaxRows     \* bound: no foreign row or copy beyond this number of rows

ASSUME ConstantAssumption ==
    /\ Bang \subseteq Tables
    /\ LineCount \in Nat \ {0}
    /\ MaxVersion \in Nat /\ MaxRows \in Nat

VARIABLES
    rows,       \* rows of a table
    state,      \* "COMPLETE" or "RECEIVING"
    version,    \* the transmission of a table that is under way or comes next
    next,       \* its next line
    faults,     \* history: transmissions during which something went wrong
    announced   \* history: the transmission last announced, and the rows it showed

server == <<version, next>>
vars == <<rows, state, server, faults, announced>>

Lines(t) == IF t \in Bang THEN 1 ELSE LineCount

Row(v, i) == [version |-> v, line |-> i]

(* The rows of the first n lines of transmission v, and of all of them.     *)
FirstLines(v, n) == [i \in 1..n |-> Row(v, i)]
Whole(t, v) == FirstLines(v, Lines(t))

-----------------------------------------------------------------------------
(* The server *)

Advance(t) ==
    IF next[t] = Lines(t)
    THEN /\ version' = [version EXCEPT ![t] = @ + 1]
         /\ next' = [next EXCEPT ![t] = 1]
    ELSE /\ next' = [next EXCEPT ![t] = @ + 1]
         /\ UNCHANGED version

(* A transmission that is under way is hit. *)
Hit(t) == faults' = IF next[t] = 1 THEN faults ELSE [faults EXCEPT ![t] = @ \cup {version[t]}]

-----------------------------------------------------------------------------
(* process_line *)

(* Faulty: only a response clears its table. *)
RowsClearedByResponse(t) == IF t \in Bang THEN <<>> ELSE rows[t]

(* The rows the new one is added to: a response, and the first line after a *)
(* complete table, begin anew.                                              *)
RowsBefore(t) == IF t \in Bang \/ state[t] = "COMPLETE" THEN <<>> ELSE rows[t]

(* Faulty: the state of the table is never set back to RECEIVING. *)
StateAlwaysComplete(t) == "COMPLETE"

StateAfter(t) == IF next[t] = Lines(t) THEN "COMPLETE" ELSE "RECEIVING"

(* The line arrives; the last one announces the table (table_complete_cb).  *)
ReceiveLine(t) ==
    /\ version[t] <= MaxVersion
    /\ rows' = [rows EXCEPT ![t] = Append(RowsBefore(t), Row(version[t], next[t]))]
    /\ state' = [state EXCEPT ![t] = StateAfter(t)]
    /\ announced' = IF next[t] = Lines(t)
                    THEN [announced EXCEPT ![t] = [version |-> version[t], rows |-> rows'[t]]]
                    ELSE announced
    /\ Advance(t)
    /\ UNCHANGED faults

(* The line is lost on its way through the buffer (see LineReader). *)
LoseLine(t) ==
    /\ "loss" \in Disturbances
    /\ version[t] <= MaxVersion
    /\ faults' = [faults EXCEPT ![t] = @ \cup {version[t]}]
    /\ Advance(t)
    /\ UNCHANGED <<rows, state, announced>>

(* The connection breaks, is made anew, and the server answers new queries; *)
(* tables keep their rows and their state.                                   *)
Reconnect ==
    LET cut == {t \in Tables : next[t] > 1}
    IN  /\ cut # {}
        /\ version' = [t \in Tables |-> IF t \in cut THEN version[t] + 1 ELSE version[t]]
        /\ next' = [t \in Tables |-> 1]
        /\ faults' = [t \in Tables |-> IF t \in cut THEN faults[t] \cup {version[t]} ELSE faults[t]]
        /\ UNCHANGED <<rows, state, announced>>

-----------------------------------------------------------------------------
(* Those who change tables between two lines; none of them looks at state  *)

(* "clear" of the operator. *)
ClearTable(t) ==
    /\ "operator" \in Disturbances
    /\ rows' = [rows EXCEPT ![t] = <<>>]
    /\ Hit(t)
    /\ UNCHANGED <<state, server, announced>>

(* "add" of the operator. *)
AddRow(t) ==
    /\ "operator" \in Disturbances
    /\ Len(rows[t]) < MaxRows
    /\ rows' = [rows EXCEPT ![t] = Append(@, Foreign)]
    /\ Hit(t)
    /\ UNCHANGED <<state, server, announced>>

(* The copy action; the target is cleared first, also when it is the source. *)
CopyTable(src, dst) ==
    /\ "automation" \in Disturbances
    /\ Len(rows[src]) <= MaxRows
    /\ rows' = [rows EXCEPT ![dst] = IF src = dst THEN <<>> ELSE rows[src]]
    /\ Hit(dst)
    /\ UNCHANGED <<state, server, announced>>

-----------------------------------------------------------------------------
Init ==
    /\ rows = [t \in Tables |-> <<>>]
    /\ state = [t \in Tables |-> "COMPLETE"]
    /\ version = [t \in Tables |-> 1]
    /\ next = [t \in Tables |-> 1]
    /\ faults = [t \in Tables |-> {}]
    /\ announced = [t \in Tables |-> [version |-> 0, rows |-> <<>>]]

Next ==
    \/ \E t \in Tables : ReceiveLine(t) \/ LoseLine(t) \/ ClearTable(t) \/ AddRow(t)
    \/ \E src, dst \in Tables : CopyTable(src, dst)
    \/ Reconnect

Spec == Init /\ [][Next]_vars

-----------------------------------------------------------------------------
(* Properties *)

Rows == [version : Nat, line : Nat] \cup {Foreign}

TypeOK ==
    /\ rows \in [Tables -> Seq(Rows)]
    /\ state \in [Tables -> {"COMPLETE", "RECEIVING"}]
    /\ version \in [Tables -> Nat \ {0}]
    /\ next \in [Tables -> Nat \ {0}]
    /\ \A t \in Tables : next[t] <= Lines(t)
    /\ faults \in [Tables -> SUBSET Nat]
    /\ \A t \in Tables : \A v \in faults[t] : v <= version[t]
    /\ announced \in [Tables -> [version : Nat, rows : Seq(Rows)]]
    /\ \A t \in Tables : announced[t].version < version[t]

(* A fault is forgotten: whatever was lost, cut off, cleared, added or       *)
(* copied, a table is announced with all its rows and no others, unless the  *)
(* fault hit this transmission or the one before.                           *)
FaultsAreForgotten ==
    \A t \in Tables :
        LET v == announced[t].version
        IN  v > 0 /\ {v - 1, v} \cap faults[t] = {} => announced[t].rows = Whole(t, v)

(* A table of one line is announced whole, whatever happened before.        *)
ResponsesAreWhole ==
    \A t \in Bang : announced[t].version > 0 => announced[t].rows = Whole(t, announced[t].version)

(* The announcements are those of TableSpec. *)
Credit(t) ==
    IF version[t] \in faults[t] THEN 2 ELSE IF version[t] - 1 \in faults[t] THEN 1 ELSE 0

Abstract == INSTANCE TableSpec WITH credit <- [t \in Tables |-> Credit(t)]

ImplementsTableSpec == Abstract!Spec

=============================================================================
