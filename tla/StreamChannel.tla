--------------------------- MODULE StreamChannel --------------------------
(***************************************************************************)
(* What one direction of a signaling stream promises: the messages that    *)
(* were sent, whole, once and in order, as long as the network lost,       *)
(* repeated or overtook none of their packets; after that it promises      *)
(* nothing.                                                                *)
(***************************************************************************)
EXTENDS Naturals, Sequences

VARIABLES
    sent,       \* how many messages are completely on their way: 1, 2, ..., sent
    got,        \* the messages delivered
    broken,     \* a packet was lost, repeated or overtaken
    ended       \* the reader has closed its end

vars == <<sent, got, broken, ended>>

Init == sent = 0 /\ got = <<>> /\ broken = FALSE /\ ended = FALSE

Send == sent' = sent + 1 /\ UNCHANGED <<got, broken, ended>>

Deliver ==
    /\ ~ended /\ ~broken /\ Len(got) < sent
    /\ got' = Append(got, Len(got) + 1)
    /\ UNCHANGED <<sent, broken, ended>>

Break == broken' = TRUE /\ UNCHANGED <<sent, got, ended>>

Garble == broken /\ got' \in Seq(Nat) /\ UNCHANGED <<sent, broken, ended>>

End == ended' = TRUE /\ UNCHANGED <<sent, got, broken>>

Next == Send \/ Deliver \/ Break \/ Garble \/ End

\* A message that was sent arrives.
Spec == Init /\ [][Next]_vars /\ WF_vars(Deliver)
=============================================================================
