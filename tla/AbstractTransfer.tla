-------------------------- MODULE AbstractTransfer --------------------------
(***************************************************************************)
(* What the transfer of a batch promises to the receiver: the files arrive *)
(* whole, one by one and in the order of the batch, nothing else arrives,  *)
(* and the transfer is reported complete only when all of them are there.  *)
(* It may stop at any point; once the receiver is told that the sender     *)
(* cancelled, it has stopped.                                              *)
(***************************************************************************)
EXTENDS Naturals, Sequences

CONSTANT Batches        \* the batches a sender may choose, sequences of file sizes

VARIABLES
    wanted,     \* the batch being sent, <<>> before it is chosen
    got,        \* the batch positions of the files received whole, in order of arrival
    complete,   \* whether the receiver has been told that the transfer is complete
    stopped     \* whether it has been told that the sender cancelled

transferVars == <<wanted, got, complete, stopped>>

Init == wanted = <<>> /\ got = <<>> /\ complete = FALSE /\ stopped = FALSE

Choose ==
    /\ wanted = <<>>
    /\ wanted' \in Batches
    /\ UNCHANGED <<got, complete, stopped>>

Receive ==
    /\ Len(got) < Len(wanted) /\ ~complete /\ ~stopped
    /\ got' = Append(got, Len(got) + 1)
    /\ UNCHANGED <<wanted, complete, stopped>>

Complete ==
    /\ wanted # <<>> /\ Len(got) = Len(wanted) /\ ~complete /\ ~stopped
    /\ complete' = TRUE
    /\ UNCHANGED <<wanted, got, stopped>>

Stop ==
    /\ wanted # <<>> /\ ~stopped
    /\ stopped' = TRUE
    /\ UNCHANGED <<wanted, got, complete>>

Next == Choose \/ Receive \/ Complete \/ Stop

Spec == Init /\ [][Next]_transferVars
=============================================================================
