---------------------------- MODULE WeightChain ----------------------------
(***************************************************************************)
(* What an inference endpoint promises about its model weights, whatever   *)
(* carries the updates to it (shared files, uploads, relay peers, replay). *)
(* Trainer step n publishes policy n; policy n is either a full checkpoint *)
(* or a sparse delta against policy n - 1.  An endpoint that claims policy *)
(* n therefore got there by a full load, or by every delta in turn from    *)
(* the base model: no delta is skipped, and none is applied twice.         *)
(***************************************************************************)
EXTENDS Naturals

CONSTANT MaxVersion      \* bound: the last policy the trainer publishes

VARIABLES
    policy,   \* the policy the endpoint claims to serve; 0 is the base model
    mode      \* "serving", "delta" or "full" while one is applied,
              \* "reloading", or "broken"

chainVars == <<policy, mode>>

Policies == 0 .. MaxVersion

ChainTypeOK ==
    /\ policy \in Policies
    /\ mode \in {"serving", "delta", "full", "reloading", "broken"}

ChainInit == policy = 0 /\ mode = "serving"

(* An update opens only on weights known to be whole. *)
BeginApply == mode = "serving" /\ mode' \in {"delta", "full"} /\ policy' = policy

(* One delta moves the chain by exactly one link. *)
ApplyDelta ==
    /\ mode = "delta" /\ mode' = "serving"
    /\ policy' = policy + 1 /\ policy' \in Policies

(* A full checkpoint replaces everything. *)
ApplyFull ==
    /\ mode = "full" /\ mode' = "serving"
    /\ policy' \in Policies \ {0, policy}

(* A failed apply may leave any mixture of two policies behind. *)
Break ==
    /\ mode \in {"delta", "full", "reloading"} /\ mode' = "broken"
    /\ policy' = policy

(* Only a reload of the base model leads out of "broken". *)
BeginReload ==
    /\ mode \in {"serving", "broken"} /\ mode' = "reloading"
    /\ policy' = policy

EndReload == mode = "reloading" /\ mode' = "serving" /\ policy' = 0

(* The engine process dies and starts again on the base model. *)
Restart == mode' = "serving" /\ policy' = 0

ChainNext ==
    \/ BeginApply \/ ApplyDelta \/ ApplyFull \/ Break
    \/ BeginReload \/ EndReload \/ Restart

ChainSpec == ChainInit /\ [][ChainNext]_chainVars
=============================================================================
