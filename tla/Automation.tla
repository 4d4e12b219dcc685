----------------------------- MODULE Automation -----------------------------
(***************************************************************************)
(* The automation of src/src/oris_automation.c: the actions configured for *)
(* an event, run one after the other, with loops over the rows of a table. *)
(*                                                                         *)
(* A loop has no index of its own: it moves current_row of the table, which *)
(* is also what an expression {T.n} reads, and puts it back when it ends.   *)
(* Loops nest, over the same table too, and the actions in them may replace *)
(* the rows a loop runs over, or grow the array of tables a loop points to. *)
(*                                                                         *)
(* The rows of a table are the numbers of their fields; rows are counted    *)
(* from 0, as in the code.                                                  *)
(***************************************************************************)
EXTENDS Integers, Sequences

CONSTANTS
    Tables,         \* names of tables
    NoTable,        \* of an action that reads no record, and of the frame of a trigger
    Loaded,         \* what a data file defines: rows and field_count of some tables
    Actions,        \* the actions of the configuration, with those of loop bodies
    Programs,       \* sequences of Actions: what an event may trigger
    New,            \* a field given by a name the table does not know
    Widths,         \* field counts of rows that are added
    MaxEvents,      \* bound: triggers, and changes of tables between them
    MaxRows         \* bound: rows of a table that are added

(* "foreach" stands for "foreach ... request", for a template per record and *)
(* for one of a whole table; its body is one "read".                         *)
Action ==
    [op : {"read"}, cond : BOOLEAN, tbl : Tables \cup {NoTable}]
        \cup [op : {"iterate", "foreach"}, cond : BOOLEAN, tbl : Tables, body : Seq(Actions)]
        \cup [op : {"update"}, cond : BOOLEAN, tbl : Tables, index : Nat \cup {New}]
        \cup [op : {"copy"}, cond : BOOLEAN, src : Tables, dst : Tables]

ASSUME ConstantAssumption ==
    /\ NoTable \notin Tables
    /\ New \notin Nat
    /\ Programs \subseteq Seq(Actions)
    /\ Actions \subseteq Action
    /\ DOMAIN Loaded \subseteq Tables
    /\ \A t \in DOMAIN Loaded :
          /\ Loaded[t].rows \in Seq(Nat) /\ Loaded[t].field_count \in Nat
          /\ \A k \in DOMAIN Loaded[t].rows : Loaded[t].rows[k] <= Loaded[t].field_count
    /\ Widths \subseteq Nat \ {0}
    /\ MaxEvents \in Nat /\ MaxRows \in Nat

VARIABLES
    known,          \* tables that exist
    rows,           \* field counts of the rows of a table
    field_count,    \* fields of a table: the widest row, and named ones
    current_row,    \* the cursor of a table; -1 when it is cleared
    stack,          \* the loops that run, innermost last; the first frame is the trigger
    undefined,      \* how the program left its memory: "none" as long as it did not
    replaced,       \* history: tables copied to while a loop over them was running
    events          \* number of triggers and changes so far

tables == <<known, rows, field_count, current_row>>
vars == <<tables, stack, undefined, replaced, events>>

Frame == [tbl : Tables \cup {NoTable}, saved : Nat \cup {-1}, body : Seq(Actions), rest : Seq(Actions),
          at : Int, live : BOOLEAN]

Top == stack[Len(stack)]
Running == stack # <<>> /\ undefined = "none"

(* The next action of the innermost loop. *)
Args == Head(Top.rest)
Current(ops) == Running /\ Top.rest # <<>> /\ Args.op \in ops

Popped == SubSeq(stack, 1, Len(stack) - 1)
Passed == [stack EXCEPT ![Len(stack)].rest = Tail(@)]

Looping(t) == \E k \in DOMAIN stack : stack[k].tbl = t

-----------------------------------------------------------------------------
(* oris_table.c *)

(* Faulty: the cursor of a table not read yet goes to its second row. *)
CheckedCursorBehind(t) == IF rows[t] # <<>> /\ current_row[t] = -1 THEN 1 ELSE current_row[t]

(* oris_table_check_and_reset_cursor *)
CheckedCursor(t) == IF rows[t] # <<>> /\ current_row[t] = -1 THEN 0 ELSE current_row[t]

(* oris_table_clear, and rows r with n fields put in. *)
Refilled(t, r, n) ==
    /\ rows' = [rows EXCEPT ![t] = r]
    /\ field_count' = [field_count EXCEPT ![t] = n]
    /\ current_row' = [current_row EXCEPT ![t] = -1]

(* oris_get_or_create_table: a new table grows the array, which may move;   *)
(* the pointer a running loop has is not told.                              *)
MovedFrames(frames) ==
    {frames, [k \in DOMAIN frames |-> [frames[k] EXCEPT !.live = FALSE]]}

-----------------------------------------------------------------------------
(* oris_automation_trigger and timer_callback *)

Start(program) ==
    /\ stack = <<>> /\ undefined = "none"
    /\ events < MaxEvents
    /\ events' = events + 1
    /\ stack' = <<[tbl |-> NoTable, saved |-> -1, body |-> <<>>, rest |-> program,
                   at |-> -1, live |-> TRUE]>>
    /\ UNCHANGED <<tables, undefined, replaced>>

Trigger == \E p \in Programs : Start(p)

(* A timer runs the first operation only, and that only if it is no iterate. *)
TimerTrigger ==
    \E p \in Programs :
        /\ p # <<>>
        /\ Start(IF Head(p).op = "iterate" THEN <<>> ELSE <<Head(p)>>)

EndTrigger ==
    /\ Running /\ Len(stack) = 1 /\ Top.rest = <<>>
    /\ stack' = <<>>
    /\ UNCHANGED <<tables, undefined, replaced, events>>

-----------------------------------------------------------------------------
(* The actions *)

(* The condition of the action does not hold. *)
Skip ==
    /\ Running /\ Top.rest # <<>> /\ Args.cond
    /\ stack' = Passed
    /\ UNCHANGED <<tables, undefined, replaced, events>>

(* A request or an HTTP request is composed from the current row.           *)
Read ==
    /\ Current({"read"})
    /\ LET t == Args.tbl
       IN  IF t = NoTable \/ t \notin known \/ rows[t] = <<>>
           THEN UNCHANGED <<current_row, undefined>>
           ELSE /\ current_row' = [current_row EXCEPT ![t] = CheckedCursor(t)]
                /\ undefined' = IF CheckedCursor(t) < Len(rows[t]) THEN "none" ELSE "outside"
    /\ stack' = Passed
    /\ UNCHANGED <<known, rows, field_count, replaced, events>>

(* The loop remembers current_row and starts; over no rows it does nothing. *)
BeginLoop ==
    /\ Current({"iterate", "foreach"})
    /\ LET t == Args.tbl
       IN  IF t \notin known \/ rows[t] = <<>>
           THEN stack' = Passed /\ UNCHANGED current_row
           ELSE /\ stack' = Append(Passed, [tbl |-> t, saved |-> current_row[t], body |-> Args.body,
                                            rest |-> Args.body, at |-> 0, live |-> TRUE])
                /\ current_row' = [current_row EXCEPT ![t] = 0]
    /\ UNCHANGED <<known, rows, field_count, undefined, replaced, events>>

(* oris_automation_set_tbl_record: a field of the current row. A row that is *)
(* too short is to be widened, but it is its first field that is             *)
(* reallocated (oris_table.c:265). The value is a literal: one read from a   *)
(* record moves a cursor as Read does.                                       *)
Update ==
    /\ Current({"update"})
    /\ LET t == Args.tbl
           index == IF Args.index = New THEN field_count[t] + 1 ELSE Args.index
           row == CheckedCursor(t)
       IN  IF t \notin known
           THEN UNCHANGED <<field_count, current_row, undefined>>
           ELSE /\ field_count' = [field_count EXCEPT ![t] = IF Args.index = New THEN index ELSE @]
                /\ current_row' = [current_row EXCEPT ![t] = row]
                /\ undefined' = IF index \notin 1..field_count'[t] THEN "none"
                                ELSE IF row \notin 0..(Len(rows[t]) - 1) THEN "outside"
                                ELSE IF index > rows[t][row + 1] THEN "field"
                                ELSE "none"
    /\ stack' = Passed
    /\ UNCHANGED <<known, rows, replaced, events>>

(* oris_automation_copy_table; the target is created before the source is   *)
(* looked for, and cleared also when it is the source.                       *)
Copy ==
    /\ Current({"copy"})
    /\ LET s == Args.src
           d == Args.dst
       IN  /\ known' = known \cup {d}
           /\ stack' \in IF d \in known THEN {Passed} ELSE MovedFrames(Passed)
           /\ IF s \notin known'
              THEN UNCHANGED <<rows, field_count, current_row, replaced>>
              ELSE /\ IF s = d THEN Refilled(d, <<>>, 0) ELSE Refilled(d, rows[s], field_count[s])
                   /\ replaced' = IF Looping(d) THEN replaced \cup {d} ELSE replaced \ {d}
    /\ UNCHANGED <<undefined, events>>

(* The body is done: on to the next row. *)
LoopTurn ==
    /\ Running /\ Top.tbl # NoTable /\ Top.rest = <<>> /\ Top.live
    /\ current_row[Top.tbl] + 1 < Len(rows[Top.tbl])
    /\ current_row' = [current_row EXCEPT ![Top.tbl] = @ + 1]
    /\ stack' = [stack EXCEPT ![Len(stack)].rest = Top.body,
                              ![Len(stack)].at = current_row[Top.tbl] + 1]
    /\ UNCHANGED <<known, rows, field_count, undefined, replaced, events>>

(* Faulty: the cursor stays behind the last row. *)
LoopEndWithoutRestore ==
    /\ Running /\ Top.tbl # NoTable /\ Top.rest = <<>> /\ Top.live
    /\ current_row[Top.tbl] + 1 >= Len(rows[Top.tbl])
    /\ current_row' = [current_row EXCEPT ![Top.tbl] = Len(rows[Top.tbl])]
    /\ stack' = Popped
    /\ UNCHANGED <<known, rows, field_count, undefined, replaced, events>>

(* Faulty: the cursor is cleared. *)
LoopEndCleared ==
    /\ Running /\ Top.tbl # NoTable /\ Top.rest = <<>> /\ Top.live
    /\ current_row[Top.tbl] + 1 >= Len(rows[Top.tbl])
    /\ current_row' = [current_row EXCEPT ![Top.tbl] = -1]
    /\ stack' = Popped
    /\ UNCHANGED <<known, rows, field_count, undefined, replaced, events>>

(* There is none: the cursor goes back where it was. *)
LoopEnd ==
    /\ Running /\ Top.tbl # NoTable /\ Top.rest = <<>> /\ Top.live
    /\ current_row[Top.tbl] + 1 >= Len(rows[Top.tbl])
    /\ current_row' = [current_row EXCEPT ![Top.tbl] = Top.saved]
    /\ stack' = Popped
    /\ UNCHANGED <<known, rows, field_count, undefined, replaced, events>>

(* The array of tables has moved, the loop goes on in the old one. *)
LoopDangles ==
    /\ Running /\ Top.tbl # NoTable /\ Top.rest = <<>> /\ ~Top.live
    /\ undefined' = "dangling"
    /\ UNCHANGED <<tables, stack, replaced, events>>

-----------------------------------------------------------------------------
(* Between two triggers *)

Change ==
    /\ stack = <<>> /\ undefined = "none"
    /\ events < MaxEvents
    /\ events' = events + 1
    /\ UNCHANGED <<stack, undefined>>

(* The operator clears a table, or a transmission begins. *)
ClearTable ==
    /\ Change
    /\ \E t \in known : Refilled(t, <<>>, 0) /\ replaced' = replaced \ {t}
    /\ UNCHANGED known

(* A row arrives or is typed in. *)
AddRow ==
    /\ Change
    /\ \E t \in Tables, n \in Widths :
          /\ Len(rows[t]) < MaxRows
          /\ known' = known \cup {t}
          /\ rows' = [rows EXCEPT ![t] = Append(@, n)]
          /\ field_count' = [field_count EXCEPT ![t] = IF @ < n THEN n ELSE @]
    /\ UNCHANGED <<current_row, replaced>>

-----------------------------------------------------------------------------
Init ==
    /\ known = DOMAIN Loaded
    /\ rows = [t \in Tables |-> IF t \in known THEN Loaded[t].rows ELSE <<>>]
    /\ field_count = [t \in Tables |-> IF t \in known THEN Loaded[t].field_count ELSE 0]
    /\ current_row = [t \in Tables |-> -1]
    /\ stack = <<>>
    /\ undefined = "none" /\ replaced = {}
    /\ events = 0

Perform ==
    \/ EndTrigger \/ Skip \/ Read \/ BeginLoop \/ Update \/ Copy
    \/ LoopTurn \/ LoopEnd \/ LoopDangles

Next == Trigger \/ TimerTrigger \/ Perform \/ ClearTable \/ AddRow

(* An event that was triggered runs to its end, like any function. *)
Spec == Init /\ [][Next]_vars /\ WF_vars(Perform)

-----------------------------------------------------------------------------
(* Properties *)

TypeOK ==
    /\ known \subseteq Tables
    /\ rows \in [Tables -> Seq(Nat)]
    /\ field_count \in [Tables -> Nat]
    /\ current_row \in [Tables -> Int]
    /\ \A t \in Tables : current_row[t] >= -1
    /\ stack \in Seq(Frame)
    /\ undefined \in {"none", "outside", "field", "dangling"}
    /\ replaced \subseteq Tables
    /\ events \in 0..MaxEvents
    /\ \A t \in Tables : \A k \in DOMAIN rows[t] : rows[t][k] <= field_count[t]

(* Every row once, in order: when the body of a loop is done the cursor is  *)
(* on the row it began with, whatever loops over the same table ran in it -  *)
(* unless the table was replaced under the loop.                             *)
BodyKeepsRow ==
    Running /\ Top.tbl # NoTable /\ Top.rest = <<>> /\ Top.tbl \notin replaced =>
        current_row[Top.tbl] = Top.at

(* A table no loop runs over has its cursor on the first row, or nowhere:   *)
(* whatever ran before, and whatever was copied under it, every loop has     *)
(* put back what it found.                                                   *)
CursorsComeBack == \A t \in Tables : ~Looping(t) => current_row[t] \in {-1, 0}

(* The program leaves its memory in four ways only: when it uses a record of *)
(* a table that was replaced under a loop over that table, when it updates a *)
(* table without rows, when the current row of the table it updates is       *)
(* shorter than this table is wide, and when a loop goes on after a copy to  *)
(* a table that no data file has defined.                                    *)
UndefinedExplained ==
    [][/\ undefined' = "outside" => \/ Args.tbl \in replaced
                                    \/ Args.op = "update" /\ rows[Args.tbl] = <<>>
       /\ undefined' = "field" => rows[Args.tbl][CheckedCursor(Args.tbl) + 1] < field_count'[Args.tbl]
       /\ undefined' = "dangling" => \E x \in Actions : x.op = "copy" /\ x.dst \in known \ DOMAIN Loaded]_vars

(* A trigger comes to its end - nobody else runs meanwhile - unless it      *)
(* copies to a table under a loop over it.                                  *)
TriggerEnds == stack # <<>> ~> (stack = <<>> \/ undefined # "none" \/ replaced # {})

=============================================================================
