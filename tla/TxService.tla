----------------------------- MODULE TxService -----------------------------
(***************************************************************************)
(* What the transmit path promises the network stack, without queues,      *)
(* counters and maps.  A frame is with the stack, waits in the driver, or  *)
(* travels on a TX token.  A token carries one batch of frames of a single *)
(* access category, one the token may serve, and all frames of the batch   *)
(* come back together.                                                     *)
(***************************************************************************)
EXTENDS Naturals, FiniteSets

CONSTANTS
    Frames,
    Tokens,
    Acs,
    Serves,       \* Serves[d]: the categories token d may carry
    MaxAggr,      \* the largest batch
    None,         \* the category of a frame that is with the stack
    Stack, Waiting  \* the places of a frame besides the tokens, no tokens

VARIABLES
    place,        \* place[f]: Stack, Waiting or a token
    cat           \* cat[f]: the access category of a frame in the driver

vars == <<place, cat>>

Batch(d) == {f \in Frames : place[f] = d}

(* The batches are of one category each, and not too large. *)
BatchesOK ==
    \A d \in Tokens :
        /\ Cardinality(Batch(d)) <= MaxAggr
        /\ \A f, g \in Batch(d) : cat[f] = cat[g] /\ cat[f] \in Serves[d]

Init ==
    /\ place = [f \in Frames |-> Stack]
    /\ cat = [f \in Frames |-> None]

(* The driver takes a frame over. *)
Accept(f) ==
    /\ place[f] = Stack
    /\ place' = [place EXCEPT ![f] = Waiting]
    /\ \E q \in Acs : cat' = [cat EXCEPT ![f] = q]

(* It may drop a frame it has not sent. *)
Refuse(f) ==
    /\ place[f] = Waiting
    /\ place' = [place EXCEPT ![f] = Stack]
    /\ cat' = [cat EXCEPT ![f] = None]

(* Waiting frames travel on the tokens of D; other frames stay put. *)
Board(D, F) ==
    /\ \A f \in F : \/ place'[f] = place[f]
                    \/ place[f] = Waiting /\ place'[f] \in D
    /\ \A f \in F : cat'[f] = cat[f]
    /\ BatchesOK'

(* Batches start on tokens that carry nothing. *)
Send == Board({d \in Tokens : Batch(d) = {}}, Frames)

(* The batch of token d is done: its frames are back with the stack, and   *)
(* the token may leave with another batch.                                 *)
Complete(d) ==
    /\ Batch(d) # {}
    /\ \A f \in Batch(d) : place'[f] = Stack /\ cat'[f] = None
    /\ Board({d}, Frames \ Batch(d))

Next ==
    \/ \E f \in Frames : Accept(f) \/ Refuse(f)
    \/ Send
    \/ \E d \in Tokens : Complete(d)

Spec == Init /\ [][Next]_vars
=============================================================================
