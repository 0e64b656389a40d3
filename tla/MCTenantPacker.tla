--------------------------- MODULE MCTenantPacker ---------------------------
(* TLC instances of TenantPacker. *)
EXTENDS TenantPacker

CONSTANTS run1, run2

MCRuns == {run1, run2}
Of(form, size) == [size |-> size, form |-> form]
MCBatches == {<<Of("rl", 1), Of("image", 2), Of("rl", 2)>>, <<Of("sft", 1)>>,
              <<Of("rl", 1), Of("rl", 0)>>}
=============================================================================
