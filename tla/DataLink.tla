------------------------------ MODULE DataLink ------------------------------
(***************************************************************************)
(* What a client connection promises to the protocol above it: one link at *)
(* a time.  A link that is up, or being established, is replaced only after *)
(* its failure; a failed one is replaced or the gateway is gone.            *)
(***************************************************************************)

VARIABLE link   \* "connecting", "up", "down"; "gone": the gateway ended

Init == link = "connecting"

Connect == link = "connecting" /\ link' = "up"

Fail == link \in {"connecting", "up"} /\ link' = "down"

Retry == link = "down" /\ link' = "connecting"

End == link # "gone" /\ link' = "gone"

Next == Connect \/ Fail \/ Retry \/ End

Spec == Init /\ [][Next]_link

=============================================================================
