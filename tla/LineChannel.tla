----------------------------- MODULE LineChannel -----------------------------
(***************************************************************************)
(* What the framing of the data protocol promises to the code that stores   *)
(* lines in tables: the lines the server sent, each at most once and in      *)
(* their order.  A line may be missing.                                      *)
(***************************************************************************)
EXTENDS Naturals, Sequences

CONSTANT Lines      \* number of lines the server sends

VARIABLE got        \* the numbers of the lines handed on, oldest first

Newest == IF got = <<>> THEN 0 ELSE got[Len(got)]

Init == got = <<>>

Deliver == \E i \in (Newest + 1)..Lines : got' = Append(got, i)

Spec == Init /\ [][Deliver]_got

=============================================================================
