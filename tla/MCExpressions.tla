---------------------------- MODULE MCExpressions ----------------------------
(* A small instance of Expressions for TLC. *)
EXTENDS Expressions

Num(n) == [op |-> "INTEGER", num |-> n]
Str(t) == [op |-> "STRING", text |-> t]
Rec(t) == [op |-> "RECORD", text |-> t]
Op(o) == [op |-> o]
Fn(o, n) == [op |-> o, args |-> n]

(* The characters "-", ".", "7" and "x", and some texts. *)
x == <<120>>
seven == <<55>>
minus == <<45>>
date == <<46, 55, 46, 120>>

(* Table "x": the second field has the name "7x". *)
MCTables == [name \in {x} |->
    [fields |-> <<<<46>>, <<55, 120>>>>, rows |-> <<<<seven, x>>, <<x, seven>>>>]]

Leaves == {Num(0), Num(5), Str(<<>>), Str(seven), Str(x)}

MCExpressions ==
    {<<a, b, Op(o)>> : a, b \in Leaves, o \in {"PLUS", "MINUS", "LTH"}}
        \cup {<<Num(5), a, Op("MINUS"), b, Op(o)>> : a \in {Num(0), Str(x)}, b \in {Num(5), Str(x)},
                                                     o \in {"PLUS", "MUL", "EQUAL"}}
        \cup {<<Rec(seven), Str(minus), Op("PLUS"), Rec(date), Num(2), Str(<<46>>), Fn("TOKEN", 3), Num(2),
                Str(x), Fn("LPAD", 3), Op("PLUS"), Fn("LENGTH", 1)>>,
              <<Num(7), Num(0), Op("DIV")>>, <<Num(0), Num(5), Op("MINUS"), Num(3), Op("MOD")>>,
              <<Num(7), Num(200), Op("GE")>>, <<Op("NORECORD")>>, <<Str(x), Fn("QUOTE", 1)>>,
              <<Str(x), Fn("unknown", 1), Fn("QUOTE", 1), Str(x), Op("PLUS")>>,
              <<Str(date), Str(x), Str(<<46>>), Fn("TOKEN", 3)>>,
              <<Str(date), Num(1), Str(<<46>>), Fn("TOKEN", 3)>>, <<Str(x), Num(2), Fn("TOKEN", 2)>>,
              <<Str(x), Num(2), Str(<<>>), Fn("RPAD", 3)>>, <<Num(5), Str(x), Str(x), Fn("RPAD", 3)>>,
              <<Str(x), Fn("unknown", 1), Num(1), Op("AND"), Fn("LENGTH", 1)>>,
              <<Str(x), Str(x), Num(1), Str(<<55, 120>>), Fn("LOOKUP", 4), Num(7), Op("NOT_EQUAL")>>,
              <<Num(7), Str(x), Num(1), Str(minus), Fn("LOOKUP", 4)>>,
              <<Rec(x), Num(5), Num(2), Op("MOD"), Rec(<<>>), Num(0), Op("PLUS"), Fn("RPAD", 3)>>,
              <<Str(seven), Str(seven), Op("OR"), Num(100), Num(100), Op("PLUS"), Op("LE")>>,
              <<Str(x), Str(x), Num(1), Fn("LOOKUP", 3)>>, <<Str(x), Str(x), Str(minus), Fn("LOOKUP", 3)>>,
              <<Str(x), Num(1), Op("MINUS"), Fn("unknown", 1)>>, <<Num(7), Str(minus), Op("GT")>>}

=============================================================================
