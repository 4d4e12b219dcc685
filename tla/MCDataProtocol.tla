--------------------------- MODULE MCDataProtocol ---------------------------
(* A small instance of DataProtocol for TLC. *)
EXTENDS DataProtocol

CONSTANTS a, b

T(base) == [base |-> base, bang |-> FALSE]
TBang(base) == [base |-> base, bang |-> TRUE]

Last(name) == [name |-> name, complete |-> TRUE, empty |-> FALSE]
More(name) == [name |-> name, complete |-> FALSE, empty |-> FALSE]
Empty(name) == [name |-> name, complete |-> TRUE, empty |-> TRUE]

(* When a arrives the gateway asks for b; b! makes it send a plain request *)
(* and ask for a.                                                           *)
MCOnTable == [n \in Name |->
    CASE n = T(a) -> <<T(b)>>
      [] n = TBang(b) -> <<Plain, T(a)>>
      [] OTHER -> <<>>]

MCSegments ==
    {<<>>, <<Last(T(a))>>, <<More(T(a)), Last(T(a))>>, <<Last(T(b)), Last(T(a))>>,
     <<Empty(TBang(b))>>, <<Last(TBang(b))>>, <<Empty(TBang(a)), Last(T(b))>>}

MCBatches == {<<>>, <<Plain>>, <<T(a), T(b)>>, <<TBang(b), Plain, T(a)>>}

=============================================================================
