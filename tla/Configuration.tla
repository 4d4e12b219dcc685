--------------------------- MODULE Configuration ---------------------------
(***************************************************************************)
(* From the command line to the running gateway: the arguments             *)
(* (src/src/oris_gateway.c), the configuration files given with -c         *)
(* (src/src/oris_configuration.c), and what their "on ..." blocks do when  *)
(* their events come (src/src/oris_automation.c).                          *)
(*                                                                         *)
(* The connections and the blocks of all files add up.  The requests and   *)
(* templates do not: they are looked up in the file that was parsed last,  *)
(* when a block that names them runs.                                      *)
(*                                                                         *)
(* Names are compared as strings, without case for events; here they are   *)
(* values that are equal or not.  A grammar error is a file that is not    *)
(* ok.  What an operation does to the tables and the connections is the    *)
(* subject of Automation, DataProtocol and HttpTargets; what matters here  *)
(* is which operations run, and with which definitions.                    *)
(***************************************************************************)
EXTENDS Integers, Sequences

CONSTANTS
    Tables,         \* the tables blocks refer to
    NoTable,        \* of an operation without a table
    Keys,           \* names of tables and commands in events, states of connections
    Closed,         \* the state of a connection that no code triggers
    Wild,           \* an uninitialised name of an event
    Names,          \* names of requests and templates
    NoName,         \* of an operation without one
    CommandLines,   \* the sequences of Arguments the gateway may be started with
    MaxSteps        \* bound: triggers, timer ticks and changes of tables

Types == {"connection", "table", "command"}

(* The event of a block: a timer has its interval for a key.               *)
Event == [type : Types, key : Keys] \cup [type : {"timer"}, key : Nat]

(* "http" is the one with a template, "other" whatever needs no definition. *)
(* An operation may have a condition, or be in the body of an iterate,      *)
(* which is written out row by row.                                         *)
When == {"always", "if", "loop"}
Operation ==
    [op : {"request"}, name : Names, tbl : {NoTable}, when : When]
        \cup [op : {"foreach"}, name : Names, tbl : Tables, when : When]
        \cup [op : {"http"}, name : Names, tbl : Tables \cup {NoTable}, when : When]
        \cup [op : {"copy"}, name : {NoName}, tbl : Tables, when : When]
        \cup [op : {"other"}, name : {NoName}, tbl : {NoTable}, when : When]

NoEvent == [type |-> "none", key |-> Wild]

(* An event that was never set: of no type, with a name nobody wrote, or a  *)
(* timer that has a zero where its interval should be.                      *)
Garbage == [type : Types, key : {Wild}] \cup {NoEvent, [type |-> "timer", key |-> 0]}

Block == [event : Event, ops : Seq(Operation)]

(* oris_automation_action_t, and where it was configured. *)
Entry == [event : Event \cup Garbage, ops : Seq(Operation), file : Nat, index : Nat]

(* bind: the connections of the file whose sockets may turn out to be taken. *)
File ==
    {file \in [ok : BOOLEAN, connections : Nat, bind : Nat, blocks : Seq(Block),
               requests : SUBSET Names, templates : SUBSET Names] : file.bind <= file.connections}

Argument ==
    [opt : {"config"}, file : File] \cup [opt : {"datafile"}, tbl : Tables]
        \cup [opt : {"version", "help"}]

ASSUME ConstantAssumption ==
    /\ NoTable \notin Tables
    /\ Wild \notin Keys \cup Nat /\ Keys \cap Nat = {}
    /\ CommandLines \subseteq Seq(Argument)
    /\ MaxSteps \in Nat

VARIABLES
    phase,              \* "arguments", "loading", "running", "exited" or "crashed"
    argv,               \* the arguments that are left
    main,               \* what runs after them: "default", "version" or "help"
    config_files,       \* the files given so far, in their order
    parsed,             \* number of files that were parsed
    connections,        \* connections.count
    automation_events,  \* the blocks of all files: their events, operations and origin
    definitions,        \* request_defs_node and templates
    tables,             \* "unknown", "empty" or "rows"
    seconds,            \* seconds_elapsed
    trigger,            \* the event that is looked for in automation_events
    at,                 \* the one that is compared next; 0: nothing is looked for
    todo,               \* operations of the current block that are left
    ran,                \* history: the blocks that ran for the trigger
    used,               \* history: the definitions that were looked up, and where they were found
    culprit,            \* history: the file whose block crashed the gateway
    steps               \* number of triggers, ticks and changes of tables so far

startup == <<argv, main, config_files, parsed, connections, automation_events, definitions>>
search == <<trigger, at, todo, ran>>
history == <<used, culprit>>
vars == <<phase, startup, tables, seconds, search, history, steps>>

-----------------------------------------------------------------------------
(* main and oris_handle_args *)

Given(opts) == phase = "arguments" /\ argv # <<>> /\ Head(argv).opt \in opts /\ argv' = Tail(argv)

(* -c: oris_add_config_file *)
AddConfigFile ==
    /\ Given({"config"})
    /\ config_files' = Append(config_files, Head(argv).file)
    /\ UNCHANGED <<phase, main, parsed, connections, automation_events, definitions, tables,
                   seconds, search, history, steps>>

(* -d: whether there were rows in the file or not. *)
LoadDataFile ==
    /\ Given({"datafile"})
    /\ \E rows \in {"unknown", "empty", "rows"} :
          tables' = IF rows = "unknown" THEN tables ELSE [tables EXCEPT ![Head(argv).tbl] = rows]
    /\ UNCHANGED <<phase, main, config_files, parsed, connections, automation_events, definitions,
                   seconds, search, history, steps>>

(* -V and -h: the last one counts. *)
ChooseMain ==
    /\ Given({"version", "help"})
    /\ main' = Head(argv).opt
    /\ UNCHANGED <<phase, config_files, parsed, connections, automation_events, definitions, tables,
                   seconds, search, history, steps>>

(* oris_app_info_init needs certificates to begin with.                    *)
CallMain ==
    /\ phase = "arguments" /\ argv = <<>>
    /\ phase' \in IF main = "default" THEN {"loading", "exited"} ELSE {"exited"}
    /\ UNCHANGED <<startup, tables, seconds, search, history, steps>>

-----------------------------------------------------------------------------
(* oris_load_configuration *)

EveryZero(event) == event.type = "timer" /\ event.key = 0

(* What the uninitialised event of an "every 0" may be: an event before it, *)
(* whose place on the stack it has, or anything.                           *)
Leftover(file, j) ==
    {automation_events[k].event : k \in DOMAIN automation_events}
        \cup {file.blocks[k].event : k \in 1 .. j - 1}
        \cup Garbage

Zeros(file) == {j \in DOMAIN file.blocks : EveryZero(file.blocks[j].event)}

(* collect_automation_nodes *)
Collected(file, left) ==
    [j \in DOMAIN file.blocks |->
        [event |-> IF j \in Zeros(file) THEN left[j] ELSE file.blocks[j].event,
         ops |-> file.blocks[j].ops,
         file |-> parsed + 1, index |-> j]]

(* Faulty: the blocks of a file replace those of the one before. *)
CollectedAnew(file, left) == automation_events' = Collected(file, left)

(* They go behind the blocks there are. *)
Collect(file, left) == automation_events' = automation_events \o Collected(file, left)

(* Faulty: the definitions of the first file stay. *)
DefineOnce(file) ==
    definitions' = IF parsed > 0 THEN definitions
                   ELSE [file |-> parsed + 1, request |-> file.requests, template |-> file.templates]

(* request_defs_node and templates *)
Define(file) ==
    definitions' = [file |-> parsed + 1, request |-> file.requests, template |-> file.templates]

(* oris_load_config_file; the first error ends the loading and the program. *)
LoadConfigFile ==
    /\ phase = "loading" /\ parsed < Len(config_files)
    /\ LET file == config_files[parsed + 1]
       IN  IF file.ok
           THEN /\ parsed' = parsed + 1
                /\ \E taken \in 0 .. file.bind :
                      connections' = connections + file.connections - taken
                /\ \E left \in [Zeros(file) -> UNION {Leftover(file, j) : j \in Zeros(file)}] :
                      /\ \A j \in Zeros(file) : left[j] \in Leftover(file, j)
                      /\ Collect(file, left)
                /\ Define(file)
                /\ UNCHANGED phase
           ELSE /\ phase' = "exited"
                /\ UNCHANGED <<parsed, connections, automation_events, definitions>>
    /\ UNCHANGED <<argv, main, config_files, tables, seconds, search, history, steps>>

(* oris_main_default: without a connection there is nothing to do. *)
Dispatch ==
    /\ phase = "loading" /\ parsed = Len(config_files)
    /\ phase' = IF connections = 0 THEN "exited" ELSE "running"
    /\ UNCHANGED <<startup, tables, seconds, search, history, steps>>

-----------------------------------------------------------------------------
(* oris_automation_trigger and timer_callback *)

Idle == phase = "running" /\ at = 0
Step == Idle /\ steps < MaxSteps /\ steps' = steps + 1

LookFor(event) ==
    /\ trigger' = event /\ at' = 1 /\ ran' = <<>>
    /\ UNCHANGED <<phase, startup, tables, todo, history>>

(* A table is complete, a command comes, a connection is established; that   *)
(* one is closed triggers nothing: disconnected_cb is never set.            *)
Trigger ==
    /\ Step /\ UNCHANGED seconds
    /\ \E event \in [type : Types, key : Keys] \ {[type |-> "connection", key |-> Closed]} : LookFor(event)

Tick == Step /\ seconds' = seconds + 1 /\ LookFor([type |-> "timer", key |-> seconds + 1])

(* Comparing divides by zero, or reads a name that is nowhere. *)
Undefined(event) == event.type = trigger.type /\ event.key \in {0, Wild}

(* oris_is_same_automation_event, or the interval of a timer.              *)
Same(event) ==
    /\ event.type = trigger.type /\ ~Undefined(event)
    /\ IF trigger.type = "timer" THEN trigger.key % event.key = 0 ELSE event.key = trigger.key

Looking == phase = "running" /\ at \in DOMAIN automation_events /\ todo = <<>>
Current == automation_events[at]

Crash(file) == phase' = "crashed" /\ culprit' = file

Pass ==
    /\ Looking
    /\ ~Same(Current.event)
    /\ Undefined(Current.event) => Current.event.key = Wild
    /\ at' = at + 1
    /\ UNCHANGED <<phase, startup, tables, seconds, trigger, todo, ran, history, steps>>

Match ==
    /\ Looking /\ Same(Current.event)
    /\ trigger.type = "timer" => Current.ops # <<>>
    /\ todo' = IF trigger.type # "timer" THEN Current.ops
               ELSE IF Head(Current.ops).when = "loop" THEN <<>>
               ELSE <<Head(Current.ops)>>
    /\ ran' = Append(ran, [file |-> Current.file, index |-> Current.index])
    /\ at' = at + 1
    /\ UNCHANGED <<phase, startup, tables, seconds, trigger, history, steps>>

(* A timer takes the first operation of its block without looking whether   *)
(* there is one.                                                            *)
Misread ==
    /\ Looking
    /\ \/ Undefined(Current.event)
       \/ Same(Current.event) /\ trigger.type = "timer" /\ Current.ops = <<>>
    /\ Crash(Current.file)
    /\ UNCHANGED <<startup, tables, seconds, search, used, steps>>

Done ==
    /\ phase = "running" /\ at > Len(automation_events) /\ todo = <<>>
    /\ at' = 0 /\ trigger' = NoEvent /\ ran' = <<>>
    /\ UNCHANGED <<phase, startup, tables, seconds, todo, history, steps>>

-----------------------------------------------------------------------------
(* The operations of the block *)

Performing == phase = "running" /\ todo # <<>>
Op == Head(todo)

(* Its condition does not hold, or its loop has no rows. *)
Skip ==
    /\ Performing /\ Op.when # "always"
    /\ todo' = Tail(todo)
    /\ UNCHANGED <<phase, startup, tables, seconds, trigger, at, ran, history, steps>>

Kind == IF Op.op = "http" THEN "template" ELSE "request"

(* Faulty: requests and templates share their names. *)
FoundAnywhere == Op.name \in definitions.request \cup definitions.template

Found == Op.name \in definitions[Kind]

(* What is not found is NULL: a request without it is not sent; each row of *)
(* a foreach takes its length; a template is looked into, unless it would   *)
(* be for each row of a table that has none.                                *)
Dereferenced ==
    ~Found /\ CASE Op.op = "request" -> FALSE
                [] Op.op = "foreach" -> tables[Op.tbl] = "rows"
                [] Op.op = "http" -> Op.tbl = NoTable \/ tables[Op.tbl] # "empty"

(* oris_get_request_parse_tree and oris_get_template_by_name *)
LookUp ==
    /\ Performing /\ Op.op \in {"request", "foreach", "http"}
    /\ used' = used \cup {[kind |-> Kind, name |-> Op.name,
                           from |-> IF Found THEN definitions.file ELSE 0]}
    /\ IF Dereferenced
       THEN Crash(automation_events[at - 1].file) /\ UNCHANGED todo
       ELSE todo' = Tail(todo) /\ UNCHANGED <<phase, culprit>>
    /\ UNCHANGED <<startup, tables, seconds, trigger, at, ran, steps>>

(* oris_automation_copy_table: the target is there afterwards.             *)
Copy ==
    /\ Performing /\ Op.op = "copy"
    /\ \E rows \in {"empty", "rows"} : tables' = [tables EXCEPT ![Op.tbl] = rows]
    /\ todo' = Tail(todo)
    /\ UNCHANGED <<phase, startup, seconds, trigger, at, ran, history, steps>>

Other ==
    /\ Performing /\ Op.op = "other"
    /\ todo' = Tail(todo)
    /\ UNCHANGED <<phase, startup, tables, seconds, trigger, at, ran, history, steps>>

-----------------------------------------------------------------------------
(* The feed and the operator fill and clear tables; a signal ends it all. *)

Change ==
    /\ Step
    /\ \E t \in Tables, rows \in {"empty", "rows"} : tables' = [tables EXCEPT ![t] = rows]
    /\ UNCHANGED <<phase, startup, seconds, search, history>>

Finalize ==
    /\ Idle /\ phase' = "exited"
    /\ UNCHANGED <<startup, tables, seconds, search, history, steps>>

Ended == phase \in {"exited", "crashed"} /\ UNCHANGED vars

Init ==
    /\ phase = "arguments"
    /\ argv \in CommandLines
    /\ main = "default" /\ config_files = <<>> /\ parsed = 0
    /\ connections = 0 /\ automation_events = <<>>
    /\ definitions = [file |-> 0, request |-> {}, template |-> {}]
    /\ tables = [t \in Tables |-> "unknown"]
    /\ seconds = 0
    /\ trigger = NoEvent /\ at = 0 /\ todo = <<>> /\ ran = <<>>
    /\ used = {} /\ culprit = 0
    /\ steps = 0

Next ==
    \/ AddConfigFile \/ LoadDataFile \/ ChooseMain \/ CallMain
    \/ LoadConfigFile \/ Dispatch
    \/ Trigger \/ Tick \/ Pass \/ Match \/ Misread \/ Done
    \/ Skip \/ LookUp \/ Copy \/ Other
    \/ Change \/ Finalize \/ Ended

Spec == Init /\ [][Next]_vars

-----------------------------------------------------------------------------
(* Properties *)

TypeOK ==
    /\ phase \in {"arguments", "loading", "running", "exited", "crashed"}
    /\ argv \in Seq(Argument)
    /\ main \in {"default", "version", "help"}
    /\ config_files \in Seq(File)
    /\ parsed \in 0 .. Len(config_files)
    /\ connections \in Nat
    /\ automation_events \in Seq(Entry)
    /\ definitions \in [file : Nat, request : SUBSET Names, template : SUBSET Names]
    /\ tables \in [Tables -> {"unknown", "empty", "rows"}]
    /\ seconds \in 0 .. steps
    /\ trigger \in Event \cup {NoEvent}
    /\ at \in 0 .. Len(automation_events) + 1
    /\ todo \in Seq(Operation)
    /\ ran \in Seq([file : Nat, index : Nat])
    /\ todo # <<>> => at > 1
    /\ used \subseteq [kind : {"request", "template"}, name : Names, from : Nat]
    /\ culprit \in Nat
    /\ steps \in 0 .. MaxSteps

(* The names a file refers to are those the last file defines. *)
Complete(file) ==
    \A j \in DOMAIN file.blocks : \A k \in DOMAIN file.blocks[j].ops :
        LET o == file.blocks[j].ops[k]
        IN  /\ o.op = "foreach" => o.name \in config_files[Len(config_files)].requests
            /\ o.op = "http" => o.name \in config_files[Len(config_files)].templates

(* The timers of a file have an interval and something to do. *)
Timed(file) ==
    \A j \in DOMAIN file.blocks :
        file.blocks[j].event.type = "timer" =>
            file.blocks[j].event.key # 0 /\ file.blocks[j].ops # <<>>

(* A block crashes the gateway only if its file names what the last file    *)
(* does not define, or has a timer without interval or operations: what is  *)
(* in the last file and complete in itself is safe, whatever the files      *)
(* before it are like.                                                      *)
CrashExplained ==
    phase = "crashed" => ~(Complete(config_files[culprit]) /\ Timed(config_files[culprit]))

(* The file that defines a name, for a reader of all files as one: the first. *)
Defines(i, u) ==
    u.name \in IF u.kind = "request" THEN config_files[i].requests ELSE config_files[i].templates

(* Several files are as good as one ("use multiple times"), except for the  *)
(* names that are defined in a file other than the last.                    *)
AsOneFile ==
    \A u \in used :
        \/ \E i \in 1 .. Len(config_files) - 1 : Defines(i, u)
        \/ u.from = IF Defines(Len(config_files), u) THEN Len(config_files) ELSE 0

(* Whatever ran for an event, from beginning to end: the blocks of all      *)
(* files that were written for it, each once, in the order of the files -   *)
(* and an "every 0" at most.                                                *)
AllFilesRun ==
    at > Len(automation_events) /\ at # 0 /\ todo = <<>> =>
        /\ \A m, n \in DOMAIN ran : m < n =>
              \/ ran[m].file < ran[n].file
              \/ ran[m].file = ran[n].file /\ ran[m].index < ran[n].index
        /\ \A i \in DOMAIN config_files : \A j \in DOMAIN config_files[i].blocks :
              LET event == config_files[i].blocks[j].event
              IN  ~EveryZero(event) =>
                    ((\E n \in DOMAIN ran : ran[n] = [file |-> i, index |-> j]) <=> Same(event))

=============================================================================
