---------------------------- MODULE FrameChannel ----------------------------
(***************************************************************************)
(* What the code above the transport relies on: frames arrive whole, once  *)
(* and in the order they were sent, for as long as no call has failed.     *)
(***************************************************************************)
EXTENDS Sequences, Naturals

VARIABLES sent, received, broken

cvars == <<sent, received, broken>>

CInit == sent = <<>> /\ received = <<>> /\ broken = FALSE

Put == /\ Len(sent') = Len(sent) + 1
       /\ sent = SubSeq(sent', 1, Len(sent))
       /\ UNCHANGED received

Take == /\ Len(received) < Len(sent)
        /\ received' = Append(received, sent[Len(received) + 1])
        /\ UNCHANGED sent

CNext == broken' \/ Put \/ Take

CSpec == CInit /\ [][CNext]_cvars
=============================================================================
