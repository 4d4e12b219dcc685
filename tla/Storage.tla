------------------------------ MODULE Storage ------------------------------
(***************************************************************************)
(* The storage file of src/src/oris_table.c: every table that is complete   *)
(* makes the gateway write all its tables, over the old file; after a crash *)
(* it is started with that file.                                            *)
(*                                                                         *)
(* A line of the file is the sequence of texts between its semicolons; the *)
(* "=" of a definition counts as one.  Nothing is quoted: what a text holds *)
(* decides how it is read back, and that is all the model says of it.       *)
(***************************************************************************)
EXTENDS Integers, Sequences, SequencesExt, FiniteSetsExt

CONSTANTS
    Tables,         \* names of tables
    Copies,         \* tables the automation copies to
    Definition,     \* name of the section of definitions
    Texts,          \* of fields
    Rows,           \* rows the data feed sends
    Empty,          \* the empty text
    Blank,          \* texts that begin with a white space
    Torn,           \* what is left of a text
    NoName,         \* of a field
    Header(_),      \* "[name]"
    Pieces(_),      \* a text split at its semicolons
    Number(_),      \* a number as text
    MaxLines        \* bound: lines of the data feed, copies and restarts

TableNames == Tables \cup {Torn}
SectionNames == TableNames \cup {Definition}

(* A table may be given any name that does not begin with a white space and *)
(* does not look like the header of a section.                              *)
ASSUME NamesAssumption ==
    /\ Copies \subseteq Tables /\ Definition \notin TableNames
    /\ TableNames \cap (Blank \cup {Empty}) = {}
    /\ \A m, n \in SectionNames : Header(m) = Header(n) => m = n
    /\ \A n \in SectionNames : Header(n) \notin TableNames \cup Blank \cup {Empty}

ASSUME StorageAssumption ==
    /\ Rows \subseteq Seq(Texts) \ {<<>>}
    /\ {Empty, Torn} \cup Blank \subseteq Texts
    /\ Empty \notin Blank /\ NoName \notin Texts
    /\ \A x \in Texts : Pieces(x) \in Seq(Texts) \ {<<>>}
    /\ MaxLines \in Nat

VARIABLES
    tables,         \* the list of tables, in the order of their creation
    file,           \* lines of the storage file
    running,
    saved,          \* history: the tables when the file was written
    torn,           \* history: and whether it was not written to its end
    steps           \* number of lines, copies and restarts so far

vars == <<tables, file, running, saved, torn, steps>>

-----------------------------------------------------------------------------
(* A list of tables *)

Names(list) == {list[i].name : i \in DOMAIN list}
Index(list, name) == CHOOSE i \in DOMAIN list : list[i].name = name
RowsOf(list, name) == IF name \in Names(list) THEN list[Index(list, name)].rows ELSE <<>>

NewTable(name) == [name |-> name, fields |-> <<>>, rows |-> <<>>, receiving |-> FALSE, temporary |-> FALSE]

(* oris_get_or_create_table *)
Created(list, name) == IF name \in Names(list) THEN list ELSE Append(list, NewTable(name))

Changed(list, t) == [Created(list, t.name) EXCEPT ![Index(Created(list, t.name), t.name)] = t]

Table(list, name) == Created(list, name)[Index(Created(list, name), name)]

(* Faulty: the table is not widened. *)
RowAddedOnly(t, row) == [t EXCEPT !.rows = Append(@, row)]

(* oris_table_add_row *)
RowAdded(t, row) ==
    [t EXCEPT !.rows = Append(@, row),
              !.fields = [k \in 1..Max({Len(@), Len(row)}) |-> IF k <= Len(@) THEN @[k] ELSE NoName]]

RowsAdded(t, rows) ==
    LET added[n \in 0..Len(rows)] == IF n = 0 THEN t ELSE RowAdded(added[n - 1], rows[n])
    IN  added[Len(rows)]

Cleared(t) == [t EXCEPT !.rows = <<>>, !.fields = <<>>]

-----------------------------------------------------------------------------
(* oris_tables_dump_to_file *)

DefinitionLine(t) ==
    <<t.name>> \o
        (IF t.fields = <<>> THEN <<Empty>>
         ELSE [k \in DOMAIN t.fields |-> IF t.fields[k] = NoName THEN Number(k) ELSE t.fields[k]])

RowLine(row) == FlattenSeq([k \in DOMAIN row |-> Pieces(row[k])])

(* Faulty: no empty line after the rows. *)
UnendedSection(t) ==
    IF t.temporary THEN <<>>
    ELSE <<<<Header(t.name)>>>> \o [k \in DOMAIN t.rows |-> RowLine(t.rows[k])]

Section(t) ==
    IF t.temporary THEN <<>>
    ELSE <<<<Header(t.name)>>>> \o [k \in DOMAIN t.rows |-> RowLine(t.rows[k])] \o <<<<Empty>>>>

Dumped(list) ==
    <<<<Header(Definition)>>>> \o [i \in DOMAIN list |-> DefinitionLine(list[i])] \o <<<<Empty>>>>
        \o FlattenSeq([i \in DOMAIN list |-> Section(list[i])])

(* What may be on the disk of a line: a text, or a part of it, is the last. *)
TornLines(line) ==
    UNION {{SubSeq(line, 1, k)}
               \cup (IF k > 1 THEN {Append(SubSeq(line, 1, k - 1), Empty)} ELSE {})
               \cup (IF line[k] \in Blank \cup {Empty} THEN {}
                      ELSE {Append(SubSeq(line, 1, k - 1), Torn)}) : k \in DOMAIN line}

(* The file of a gateway that was killed while it wrote these lines. *)
TornFiles(written) ==
    UNION {{SubSeq(written, 1, n - 1)}
               \cup {Append(SubSeq(written, 1, n - 1), line) : line \in TornLines(written[n])} :
           n \in DOMAIN written}

-----------------------------------------------------------------------------
(* oris_tables_load_from_file *)

(* oris_find_table_in_file: any line that begins with the header will do.   *)
Found(lines, name) == {k \in DOMAIN lines : lines[k][1] = Header(name)}

Stops(line) == line = <<Empty>> \/ line[1] \in Blank

(* Faulty: the header is taken for a row. *)
ReadSectionWithHeader(lines, name) ==
    IF Found(lines, name) = {} THEN <<>>
    ELSE LET first == Min(Found(lines, name))
             last == Min({k \in first..Len(lines) : Stops(lines[k])} \cup {Len(lines) + 1}) - 1
         IN  SubSeq(lines, first, last)

(* oris_read_table_from_file: up to a line that begins with a white space.  *)
ReadSection(lines, name) ==
    IF Found(lines, name) = {} THEN <<>>
    ELSE LET first == Min(Found(lines, name)) + 1
             last == Min({k \in first..Len(lines) : Stops(lines[k])} \cup {Len(lines) + 1}) - 1
         IN  SubSeq(lines, first, last)

(* Faulty: the name of the table is taken for a field. *)
RestoredWithName(lines, list, definition) ==
    IF definition[1] = Empty THEN list
    ELSE LET name == definition[1]
             t == [Table(list, name) EXCEPT !.fields = definition]
         IN  Changed(list, RowsAdded(t, ReadSection(lines, name)))

(* with oris_table_add_fields_from_definition *)
Restored(lines, list, definition) ==
    IF definition[1] = Empty THEN list
    ELSE LET name == definition[1]
             t == [Table(list, name) EXCEPT !.fields = Tail(definition)]
         IN  Changed(list, RowsAdded(t, ReadSection(lines, name)))

Load(lines) ==
    LET definitions == ReadSection(lines, Definition)
        loaded[n \in 0..Len(definitions)] ==
            IF n = 0 THEN <<>> ELSE Restored(lines, loaded[n - 1], definitions[n])
    IN  loaded[Len(definitions)]

-----------------------------------------------------------------------------
Step == steps < MaxLines /\ steps' = steps + 1

(* The file is written to its end, or the gateway dies over it. *)
Dump(list) ==
    /\ saved' = list
    /\ \/ /\ file' = Dumped(list)
          /\ tables' = list
          /\ torn' = FALSE
          /\ UNCHANGED running
       \/ /\ file' \in TornFiles(Dumped(list))
          /\ tables' = <<>>
          /\ torn' = TRUE
          /\ running' = FALSE

(* process_line: a line of the feed is a response, or one more or the last   *)
(* line of a transmission.                                                   *)
Received(name, row, kind) ==
    LET old == Table(tables, name)
        t == IF kind = "response" \/ ~old.receiving THEN Cleared(old) ELSE old
    IN  Changed(tables, [RowAdded(t, row) EXCEPT !.receiving = kind = "more"])

ReceiveMore ==
    /\ running /\ Step
    /\ \E name \in Tables, row \in Rows : tables' = Received(name, row, "more")
    /\ UNCHANGED <<file, running, saved, torn>>

(* oris_automation_copy_table *)
Copied(list, name, target) ==
    Changed(list, [Table(list, target) EXCEPT !.rows = Table(list, name).rows,
                                              !.fields = Table(list, name).fields,
                                              !.temporary = TRUE])

(* A table is complete: table_complete_cb, whose automation may copy it.    *)
ReceiveComplete ==
    /\ running /\ Step
    /\ \E name \in Tables, row \in Rows, kind \in {"response", "last"} :
          LET list == Received(name, row, kind)
          IN  \/ Dump(list)
              \/ \E target \in Copies \ {name} : Dump(Copied(list, name, target))

(* oris_builtin_cmd_dump *)
OperatorDump == running /\ Dump(tables) /\ UNCHANGED steps

Crash ==
    /\ running
    /\ running' = FALSE
    /\ tables' = <<>>
    /\ UNCHANGED <<file, saved, torn, steps>>

(* The gateway is started with -d and the storage file. *)
Restart ==
    /\ ~running /\ Step
    /\ running' = TRUE
    /\ tables' = Load(file)
    /\ UNCHANGED <<file, saved, torn>>

Init ==
    /\ tables = <<>> /\ file = <<>> /\ saved = <<>>
    /\ running = TRUE
    /\ torn = FALSE
    /\ steps = 0

Next == ReceiveMore \/ ReceiveComplete \/ OperatorDump \/ Crash \/ Restart

Spec == Init /\ [][Next]_vars

-----------------------------------------------------------------------------
(* Properties *)

(* The number of a field stands for it at its place only. *)
IsTable(t) ==
    /\ t \in [name : TableNames, fields : Seq(Range(t.fields)), rows : Seq(Seq(Texts) \ {<<>>}),
              receiving : BOOLEAN, temporary : BOOLEAN]
    /\ \A k \in DOMAIN t.fields : t.fields[k] \in Texts \cup {NoName, Number(k)}
    /\ \A k \in DOMAIN t.rows : Len(t.rows[k]) <= Len(t.fields)

IsList(list) ==
    /\ list \in Seq(Range(list))
    /\ \A i \in DOMAIN list : IsTable(list[i])
    /\ \A i, j \in DOMAIN list : list[i].name = list[j].name => i = j

IsDefinition(line) ==
    /\ line \in Seq(Range(line)) \ {<<>>}
    /\ line[1] \in TableNames
    /\ \A k \in 2..Len(line) : line[k] \in Texts \cup {Number(k - 1)}

TypeOK ==
    /\ IsList(tables) /\ IsList(saved)
    /\ file \in Seq(Range(file))
    /\ \A n \in DOMAIN file : \/ file[n] \in Seq(Texts) \ {<<>>}
                             \/ file[n] \in {<<Header(name)>> : name \in SectionNames}
                             \/ IsDefinition(file[n])
    /\ running \in BOOLEAN /\ torn \in BOOLEAN
    /\ steps \in 0..MaxLines

(* Rows that are read as they are written, in a table no row of which or of *)
(* one before is taken for the header of the table.                          *)
PlainRow(row) ==
    /\ row # <<Empty>> /\ row[1] \notin Blank
    /\ \A k \in DOMAIN row : Pieces(row[k]) = <<row[k]>>

Plain(list, i) ==
    /\ ~list[i].temporary
    /\ \A k \in DOMAIN list[i].rows : PlainRow(list[i].rows[k])
    /\ \A j \in 1..i : list[j].temporary \/
          \A k \in DOMAIN list[j].rows : RowLine(list[j].rows[k])[1] # Header(list[i].name)

(* Whenever the gateway is started with a file that was written to its end, *)
(* every table of plain rows that is not temporary has the rows it had,      *)
(* whatever rows the others have.                                           *)
PlainRowsComeBack ==
    ~torn => \A i \in DOMAIN saved :
        Plain(saved, i) => RowsOf(Load(file), saved[i].name) = saved[i].rows

(* With a file the gateway died over, such a table has lost rows at its end, *)
(* and the last it has may be what is left of it.                            *)
TornFileIsPrefix ==
    \A i \in DOMAIN saved : Plain(saved, i) =>
        LET rows == RowsOf(Load(file), saved[i].name)
        IN  \/ IsPrefix(rows, saved[i].rows)
            \/ /\ torn
               /\ Len(rows) \in DOMAIN saved[i].rows
               /\ IsPrefix(Front(rows), saved[i].rows)
               /\ Last(rows) \in TornLines(saved[i].rows[Len(rows)])

(* Storing what was loaded from a whole file of plain tables changes        *)
(* nothing: neither rows nor the names or numbers of fields drift from one   *)
(* start to the next.                                                        *)
StoredAgainIsTheSame ==
    ~torn /\ (\A i \in DOMAIN saved : Plain(saved, i)) => file \in {<<>>, Dumped(Load(file))}

=============================================================================
