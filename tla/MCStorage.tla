----------------------------- MODULE MCStorage -----------------------------
(* A small instance of Storage for TLC. *)
EXTENDS Storage

MCHeader(name) ==
    CASE name = "Definition" -> "[Definition]"
      [] name = "A" -> "[A]"
      [] name = "B" -> "[B]"
      [] OTHER -> "[?]"

MCTexts == {"", "x", " x", "[B]", "[B];x", "torn"}

MCPieces(text) == IF text = "[B];x" THEN <<"[B]", "x">> ELSE <<text>>

MCNumber(n) == CASE n = 1 -> "1" [] n = 2 -> "2" [] OTHER -> "3"

MCRows == {<<"x", "">>, <<"[B];x">>, <<"">>, <<" x">>}

=============================================================================
