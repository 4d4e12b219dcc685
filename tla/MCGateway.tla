----------------------------- MODULE MCGateway -----------------------------
(* A small instance of Gateway for TLC. *)
EXTENDS Gateway

CONSTANTS a, b

T(base) == [base |-> base, bang |-> FALSE]
TBang(base) == [base |-> base, bang |-> TRUE]

Last(name) == [name |-> name, complete |-> TRUE, empty |-> FALSE]
More(name) == [name |-> name, complete |-> FALSE, empty |-> FALSE]
Empty(name) == [name |-> name, complete |-> TRUE, empty |-> TRUE]

(* Both tables are asked for when the link comes up, b once more when a     *)
(* arrives; b has no rows.                                                  *)
MCOnConnect == <<T(a), T(b)>>
MCOnTable == [n \in Name |-> IF n = T(a) THEN <<T(b)>> ELSE <<>>]
MCReply == [n \in Name |-> IF n.base = a THEN <<More(T(a)), Last(T(a))>> ELSE <<Empty(TBang(b))>>]
MCBatches == {<<>>, MCOnConnect}
MCUnasked == {<<Last(T(a))>>}

(* Receive takes its lines from the wire; these are the ones that fit.      *)
MCSegments == UNION {[1 .. n -> {Last(T(a)), More(T(a)), Empty(TBang(b))}] : n \in 0 .. 4}

=============================================================================
