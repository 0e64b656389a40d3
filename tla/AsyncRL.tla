------------------------------- MODULE AsyncRL -------------------------------
(***************************************************************************)
(* What asynchronous training promises, whatever the scheduling: the       *)
(* orchestrator sends numbered batches, the trainer publishes one policy   *)
(* per batch it has trained on, and the inference pool serves published    *)
(* policies in order.  Batch n leaves only when policy n - 1 or a newer    *)
(* one is served: the orchestrator runs at most one step ahead of the      *)
(* trainer.  How old the rollouts in it may be is not said here.           *)
(***************************************************************************)
EXTENDS Integers

VARIABLES
  sent,       \* batches handed to the trainer, and the step being generated
  published,  \* newest policy the trainer has broadcast
  served      \* policy the inference pool serves (ckpt_step)

vars == <<sent, published, served>>

Init == sent = 0 /\ published = 0 /\ served = 0

\* The trainer consumes one batch and publishes the policy it yields.
Publish == /\ published < sent
           /\ published' = published + 1
           /\ UNCHANGED <<sent, served>>

\* The pool moves on to a newer published policy, never back.
Serve == /\ \E v \in (served + 1)..published : served' = v
         /\ UNCHANGED <<sent, published>>

\* Batch `sent` is complete: the pool served policy sent - 1 or newer.
SendBatch == /\ served >= sent - 1
             /\ sent' = sent + 1
             /\ UNCHANGED <<published, served>>

Next == Publish \/ Serve \/ SendBatch

Spec == Init /\ [][Next]_vars
=============================================================================
