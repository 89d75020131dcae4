-------------------------- MODULE OrderedChannel --------------------------
(***************************************************************************)
(* What a message path between the host and the RPU promises: the messages  *)
(* one side hands over come out on the other side whole, in the order they  *)
(* were accepted, each of them once, all of them, for as long as nothing    *)
(* fails on the way.  HalCmd (commands, host to RPU), HalEvent (events, RPU *)
(* to host) and RxPath (frames, RPU to stack) are checked against it.       *)
(***************************************************************************)
EXTENDS Naturals, Sequences, SequencesExt

CONSTANT Message        \* what can be handed over

VARIABLES accepted,     \* the messages handed over, in order
          delivered,    \* the messages that came out, in order
          broken        \* something has failed

vars == <<accepted, delivered, broken>>

Init == accepted = <<>> /\ delivered = <<>> /\ ~broken

(* Messages enter the channel, one or several together. *)
Accept == /\ ~broken
          /\ accepted' \in Seq(Message)
          /\ IsStrictPrefix(accepted, accepted')
          /\ UNCHANGED <<delivered, broken>>

(* The oldest message still inside comes out. *)
Deliver == /\ ~broken
           /\ Len(delivered) < Len(accepted)
           /\ delivered' = Append(delivered, accepted[Len(delivered) + 1])
           /\ UNCHANGED <<accepted, broken>>

(* From the first failure on nothing is promised. *)
Break == broken'

Next == Accept \/ Deliver \/ Break

(* Nothing accepted stays inside for ever. *)
Spec == Init /\ [][Next]_vars /\ WF_vars(Deliver)
=============================================================================
