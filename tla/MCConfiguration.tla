-------------------------- MODULE MCConfiguration --------------------------
(* A small instance of Configuration for TLC. *)
EXTENDS Configuration

CONSTANTS a, r, tmpl

Does(op, name, tbl, when) == [op |-> op, name |-> name, tbl |-> tbl, when |-> when]
On(type, key, ops) == [event |-> [type |-> type, key |-> key], ops |-> ops]

(* One that defines everything it needs; one that leaves the definitions to *)
(* another file; one with definitions only; one whose timers are wrong; one *)
(* with an error in it.                                                     *)
Whole == [ok |-> TRUE, connections |-> 1, bind |-> 0,
          blocks |-> <<On("table", a, <<Does("foreach", r, a, "always"), Does("http", tmpl, a, "if")>>),
                       On("timer", 2, <<Does("request", r, NoTable, "always"), Does("other", NoName, NoTable, "always")>>)>>,
          requests |-> {r}, templates |-> {tmpl}]
Blocks == [ok |-> TRUE, connections |-> 0, bind |-> 0,
           blocks |-> <<On("timer", 1, <<Does("http", tmpl, NoTable, "loop")>>),
                        On("table", a, <<Does("copy", NoName, a, "if"), Does("http", tmpl, a, "loop")>>),
                        On("timer", 2, <<Does("request", r, NoTable, "if")>>)>>,
           requests |-> {}, templates |-> {}]
Defs == [ok |-> TRUE, connections |-> 1, bind |-> 1,
         blocks |-> <<On("connection", Closed, <<Does("http", r, NoTable, "always")>>)>>,
         requests |-> {r}, templates |-> {tmpl}]
Wrong == [ok |-> TRUE, connections |-> 1, bind |-> 0,
          blocks |-> <<On("timer", 0, <<Does("other", NoName, NoTable, "always")>>), On("timer", 2, <<>>)>>,
          requests |-> {r}, templates |-> {}]
Broken == [Whole EXCEPT !.ok = FALSE]

Config(file) == [opt |-> "config", file |-> file]

(* A name of a request is no name of a template. *)
Mixed == [Whole EXCEPT !.templates = {r}, !.requests = {tmpl}, !.connections = 0]

MCCommandLines ==
    {<<Config(f)>> : f \in {Whole, Blocks, Defs, Mixed}}
        \cup {<<Config(f), Config(g)>> : f, g \in {Whole, Blocks, Defs, Mixed, Wrong, Broken}}
        \cup {<<Config(Blocks), [opt |-> "datafile", tbl |-> a], Config(g), Config(h)>> : g, h \in {Whole, Wrong, Defs}}
        \cup {<<[opt |-> "version"], [opt |-> "help"], Config(Whole)>>}

=============================================================================
