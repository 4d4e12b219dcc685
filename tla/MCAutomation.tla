---------------------------- MODULE MCAutomation ----------------------------
(* A small instance of Automation for TLC. *)
EXTENDS Automation

CONSTANTS a, b, c

ReadOf(t) == [op |-> "read", cond |-> FALSE, tbl |-> t]
Loop(t, actions) == [op |-> "iterate", cond |-> FALSE, tbl |-> t, body |-> actions]
LoopIf(t, actions) == [op |-> "iterate", cond |-> TRUE, tbl |-> t, body |-> actions]
Foreach(t) == [op |-> "foreach", cond |-> FALSE, tbl |-> t, body |-> <<ReadOf(t)>>]
CopyOf(s, d) == [op |-> "copy", cond |-> FALSE, src |-> s, dst |-> d]
CopyIf(s, d) == [op |-> "copy", cond |-> TRUE, src |-> s, dst |-> d]
UpdateOf(t, i) == [op |-> "update", cond |-> FALSE, tbl |-> t, index |-> i]

(* a has a short row, b is defined and has none, c does not exist. *)
MCLoaded == [t \in {a, b} |->
    IF t = a THEN [rows |-> <<2, 1>>, field_count |-> 2] ELSE [rows |-> <<>>, field_count |-> 2]]

MCPrograms ==
    {<<Loop(a, <<LoopIf(a, <<ReadOf(a)>>), ReadOf(b)>>), ReadOf(a)>>,
     <<Foreach(a), Loop(b, <<Foreach(a)>>)>>,
     <<CopyOf(a, b), Loop(b, <<Loop(a, <<ReadOf(b)>>), UpdateOf(b, 1)>>)>>,
     <<Loop(a, <<CopyIf(b, a), ReadOf(a)>>), ReadOf(a)>>,
     <<Loop(a, <<CopyOf(a, c)>>), ReadOf(c)>>,
     <<UpdateOf(b, 2), UpdateOf(a, 3), ReadOf(b)>>,
     <<CopyIf(c, c), Loop(c, <<UpdateOf(c, New)>>)>>}

MCActions ==
    LET Of(S) == UNION {{p[k] : k \in DOMAIN p} : p \in S}
        Bodies(S) == {x.body : x \in {y \in S : y.op \in {"iterate", "foreach"}}}
        one == Of(MCPrograms)
        two == Of(Bodies(one))
    IN  one \cup two \cup Of(Bodies(two))

=============================================================================
