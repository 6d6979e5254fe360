--------------------------- MODULE PacketChannel ---------------------------
(***************************************************************************)
(* What both ends of a connection rely on, and what Network takes for      *)
(* granted: packets are read one by one, whole, in the order they were     *)
(* sent, and all of them.  ByteStream says which byte streams keep this    *)
(* promise.                                                                *)
(***************************************************************************)
EXTENDS Naturals, Sequences

CONSTANT Bodies      \* what a packet may carry

VARIABLES sent,      \* packets sent so far
          got        \* packets read so far

vars == <<sent, got>>

Init == sent = <<>> /\ got = <<>>

Submit(b) == sent' = Append(sent, b) /\ UNCHANGED got

Collect ==
    /\ Len(got) < Len(sent)
    /\ got' = Append(got, sent[Len(got) + 1])
    /\ UNCHANGED sent

Next == Collect \/ \E b \in Bodies : Submit(b)

Spec == Init /\ [][Next]_vars

FairSpec == Spec /\ WF_vars(Collect)
=============================================================================
