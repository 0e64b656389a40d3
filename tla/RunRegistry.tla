----------------------------- MODULE RunRegistry -----------------------------
(***************************************************************************)
(* MultiRunManager (src/src/prime_rl/trainer/runs.py): the runs that share *)
(* one trainer.  A run is a directory run_* under the trainer's output     *)
(* directory; the master rank discovers directories and gives each run a   *)
(* slot (an adapter index), and all ranks follow in synchronize_state:     *)
(* the master publishes its table in the c10d store, everybody meets in a  *)
(* barrier, and each rank works out by itself which runs are new and which *)
(* are gone, and calls the deletion and creation hooks for them.           *)
(*                                                                         *)
(* Around it, the training loop: packing (on the master, discovering       *)
(* whenever it looks for batches), synchronize_state, the collective       *)
(* training step, for a trainer of several runs (MultiPacker).                 *)
(*                                                                         *)
(* Abstractions.  A directory is read at one moment: what happens to it    *)
(* between the glob and the reading of its configuration is as if it had   *)
(* happened before or after.  A failing configuration is a missing one.    *)
(***************************************************************************)
EXTENDS Naturals, FiniteSets

CONSTANTS
    Names,      \* directory names run_*
    Slots,      \* adapter indices, range(max_runs)
    Master,     \* the rank that discovers
    Others,     \* the other ranks
    NoSlot,     \* not registered
    NoRun,      \* no creation hook ran for this slot since it was last freed
    MaxBorn,    \* bound: how often a directory of one name is created
    MaxDirs     \* bound: how many directories are created

ASSUME RegistryAssumption ==
    /\ Master \notin Others
    /\ NoSlot \notin Slots
    /\ NoRun \notin Names \X Nat
    /\ IsFiniteSet(Names) /\ IsFiniteSet(Slots)
    /\ MaxBorn \in Nat /\ MaxDirs \in Nat

Ranks == {Master} \cup Others

VARIABLES
    dir,      \* name -> what the file system shows of it
    born,     \* name -> how many directories of that name there have been
    table,    \* rank -> id_2_idx
    reg,      \* name -> the directory the master registered under it
    reused,   \* whether a name ever came back between two synchronisations
    synced,   \* _last_synced_id_2_idx of the master
    store,    \* the value of the key "runs" in the c10d store
    ready,    \* rank -> the slots whose ready_to_update flag is up
    adapter,  \* rank -> slot -> the run its adapter, optimizer, ... are for
    pc        \* rank -> where it stands

envVars == <<dir, born>>
vars == <<dir, born, table, reg, reused, synced, store, ready, adapter, pc>>

Tables == [Names -> Slots \cup {NoSlot}]
Runs   == Names \X (0 .. MaxBorn)
PCs    == {"run", "looked", "barrier", "sync", "step", "crashed"}

Known(t)  == {n \in Names : t[n] # NoSlot}
Used(t)   == {t[n] : n \in Known(t)}
NoRuns    == [n \in Names |-> NoSlot]

TypeOK ==
    /\ dir \in [Names -> {"absent", "bare", "ready", "evicted"}]
    /\ born \in [Names -> 0 .. MaxBorn]
    /\ table \in [Ranks -> Tables] /\ synced \in Tables
    /\ reg \in [Names -> 0 .. MaxBorn] /\ reused \in BOOLEAN
    /\ store \in [table : Tables, reg : [Names -> 0 .. MaxBorn],
                  new : SUBSET Names, ready : SUBSET Slots]
    /\ ready \in [Ranks -> SUBSET Slots]
    /\ adapter \in [Ranks -> [Slots -> Runs \cup {NoRun}]]
    /\ pc \in [Ranks -> PCs]

Init ==
    /\ dir = [n \in Names |-> "absent"] /\ born = [n \in Names |-> 0]
    /\ table = [r \in Ranks |-> NoRuns] /\ synced = NoRuns
    /\ reg = [n \in Names |-> 0] /\ reused = FALSE
    /\ store = [table |-> NoRuns, reg |-> reg, new |-> {}, ready |-> {}]
    /\ ready = [r \in Ranks |-> {}]
    /\ adapter = [r \in Ranks |-> [s \in Slots |-> NoRun]]
    /\ pc = [r \in Ranks |-> "run"]

Goto(r, where) == pc' = [pc EXCEPT ![r] = where]

-----------------------------------------------------------------------------
(* The world outside: operators, launch scripts and orchestrators.         *)

EnvOnly == UNCHANGED <<table, reg, reused, synced, store, ready, adapter, pc>>

Created == {run \in Names \X (1 .. MaxBorn) : run[2] <= born[run[1]]}

Create(n) ==
    /\ dir[n] = "absent" /\ born[n] < MaxBorn /\ Cardinality(Created) < MaxDirs
    /\ dir' = [dir EXCEPT ![n] = "bare"]
    /\ born' = [born EXCEPT ![n] = @ + 1]
    /\ EnvOnly

(* control/orch.toml is written and valid. *)
Configure(n) ==
    /\ dir[n] = "bare"
    /\ dir' = [dir EXCEPT ![n] = "ready"]
    /\ UNCHANGED born /\ EnvOnly

Remove(n) ==
    /\ dir[n] # "absent"
    /\ dir' = [dir EXCEPT ![n] = "absent"]
    /\ UNCHANGED born /\ EnvOnly

(* The orchestrator gives up on empty batches and evicts its own run. *)
GiveUp(n) ==
    /\ dir[n] = "ready"
    /\ dir' = [dir EXCEPT ![n] = "evicted"]
    /\ UNCHANGED born /\ EnvOnly

-----------------------------------------------------------------------------
(* The master, while it packs. *)

Listed(d) == {n \in Names : d[n] \in {"bare", "ready"}}

Forget(t, d) == [n \in Names |-> IF n \in Listed(d) THEN t[n] ELSE NoSlot]

Waiting(kept, d) == {n \in Names : d[n] = "ready" /\ kept[n] = NoSlot}

(* Mutated: the next index is the number of runs, however many there are.  *)
PlacementsUncapped(kept, d) ==
    {[kept EXCEPT ![n] = Cardinality(Known(kept))] : n \in Waiting(kept, d)} \cup {kept}

(* The tables that give slots, as far as they go, to the configured runs   *)
(* that had none: new_runs is a set, in whatever order it is iterated.     *)
Placements(kept, d) ==
    LET waiting == Waiting(kept, d)
        free    == Slots \ Used(kept)
    IN  {t \in Tables :
           /\ \A n \in Names \ waiting : t[n] = kept[n]
           /\ \A n \in waiting : t[n] \in free \cup {NoSlot}
           /\ \A m, n \in waiting : t[m] = t[n] /\ t[m] # NoSlot => m = n
           /\ waiting \subseteq Known(t) \/ free \subseteq Used(t)}

(* discover_runs: forget first, which frees slots, then place the new ones. *)
DiscoverRuns(d) ==
    LET kept == Forget(table[Master], d)
    IN  \E t \in Placements(kept, d) :
          /\ table' = [table EXCEPT ![Master] = t]
          /\ reg' = [n \in Names |-> IF t[n] # NoSlot /\ kept[n] = NoSlot
                                      THEN born[n] ELSE reg[n]]
          /\ reused' = (reused \/ \E n \in Known(t) \cap Known(synced) : kept[n] = NoSlot)

(* _get_batch, as often as it takes to have samples to pack.               *)
Discover ==
    /\ pc[Master] \in {"run", "looked"}
    /\ DiscoverRuns(dir) /\ Goto(Master, "looked")
    /\ UNCHANGED <<dir, born, synced, store, ready, adapter>>

(* evict_run writes control/evicted.txt, into a new directory if need be;  *)
(* the packer discovers again before it goes on.                           *)
Evict(n) ==
    /\ pc[Master] = "looked" /\ n \in Known(table[Master])
    /\ dir' = [dir EXCEPT ![n] = "evicted"]
    /\ DiscoverRuns(dir')
    /\ UNCHANGED <<born, synced, store, ready, adapter, pc>>

-----------------------------------------------------------------------------
(* synchronize_state. *)

New(now, before)  == Known(now) \ Known(before)
Gone(now, before) == Known(before) \ Known(now)

(* The master has packed a batch of some runs, which completed a step of   *)
(* those in S, and publishes its tables before it enters the barrier.      *)
Announce ==
    /\ pc[Master] = "looked" /\ Used(table[Master]) # {}
    /\ \E S \in SUBSET Used(table[Master]) :
         /\ ready' = [ready EXCEPT ![Master] = S]
         /\ store' = [table |-> table[Master], reg |-> reg, ready |-> S,
                      new |-> New(table[Master], synced)]
    /\ Goto(Master, "barrier")
    /\ UNCHANGED <<dir, born, table, reg, reused, synced, adapter>>

Arrive(r) ==
    /\ pc[r] = "run" /\ Goto(r, "barrier")
    /\ UNCHANGED <<dir, born, table, reg, reused, synced, store, ready, adapter>>

Barrier ==
    /\ \A r \in Ranks : pc[r] = "barrier"
    /\ pc' = [r \in Ranks |-> "sync"]
    /\ UNCHANGED <<dir, born, table, reg, reused, synced, store, ready, adapter>>

(* Mutated: the creation hooks run first. *)
HooksWrongOrder(old, before, now, generation) ==
    [s \in Slots |->
       IF \E n \in Gone(now, before) : before[n] = s THEN NoRun
       ELSE IF \E n \in New(now, before) : now[n] = s
       THEN CHOOSE run \in Runs : \E n \in New(now, before) :
              now[n] = s /\ run = <<n, generation[n]>>
       ELSE old[s]]

(* The deletion hook drops the checkpoint manager of the slot; creation    *)
(* resets the parameters and sets up optimizer, scheduler and checkpoints. *)
Hooks(old, before, now, generation) ==
    [s \in Slots |->
       IF \E n \in New(now, before) : now[n] = s
       THEN CHOOSE run \in Runs : \E n \in New(now, before) :
              now[n] = s /\ run = <<n, generation[n]>>
       ELSE IF \E n \in Gone(now, before) : before[n] = s THEN NoRun
       ELSE old[s]]

SyncMaster ==
    /\ pc[Master] = "sync"
    /\ adapter' = [adapter EXCEPT ![Master] = Hooks(@, synced, table[Master], reg)]
    /\ synced' = table[Master]
    /\ Goto(Master, "step")
    /\ UNCHANGED <<dir, born, table, reg, reused, store, ready>>

(* Mutated: runs that are gone are not deleted. *)
CaughtUpAddsOnly(mine) ==
    [n \in Names |-> IF n \in Known(mine) THEN mine[n] ELSE store.table[n]]

(* _delete_run_data and _create_run_data of another rank: the runs that    *)
(* stay keep the slot they have, and a new run must find its slot free.    *)
CaughtUp(mine) ==
    [n \in Names |-> IF n \in Known(mine) /\ n \in Known(store.table)
                     THEN mine[n] ELSE store.table[n]]

(* Mutated: new runs are created before the deletions. *)
TakenEager(mine) == \E n \in New(store.table, mine), m \in Known(mine) :
                      mine[m] = store.table[n]

(* unused_idxs.remove fails: a run that stays has the slot of a new one.   *)
Taken(mine) == \E n \in New(store.table, mine), m \in Known(mine) \cap Known(store.table) :
                 mine[m] = store.table[n]

(* A new run whose configuration was not published with it.                *)
Missing(mine) == ~(New(store.table, mine) \subseteq store.new)

SyncOther(r) ==
    /\ pc[r] = "sync" /\ ~Taken(table[r]) /\ ~Missing(table[r])
    /\ adapter' = [adapter EXCEPT ![r] = Hooks(@, table[r], store.table, store.reg)]
    /\ table' = [table EXCEPT ![r] = CaughtUp(@)]
    /\ ready' = [ready EXCEPT ![r] = store.ready]
    /\ Goto(r, "step")
    /\ UNCHANGED <<dir, born, reg, reused, synced, store>>

(* unused_idxs.remove or new_configs[...] raises KeyError. *)
SyncRaises(r) ==
    /\ pc[r] = "sync" /\ (Taken(table[r]) \/ Missing(table[r]))
    /\ Goto(r, "crashed")
    /\ UNCHANGED <<dir, born, table, reg, reused, synced, store, ready, adapter>>

-----------------------------------------------------------------------------
(* After synchronize_state. *)

(* Forward, backward, optimizer and broadcast are collective; the broadcast *)
(* takes the flags down again, on the master.                              *)
Train ==
    /\ \A r \in Ranks : pc[r] = "step"
    /\ pc' = [r \in Ranks |-> "run"]
    /\ ready' = [ready EXCEPT ![Master] = {}]
    /\ UNCHANGED <<dir, born, table, reg, reused, synced, store, adapter>>

Environment == \E n \in Names : Create(n) \/ Configure(n) \/ Remove(n) \/ GiveUp(n)

Next ==
    \/ Environment
    \/ \E n \in Names : Evict(n)
    \/ Discover \/ Announce \/ Barrier \/ SyncMaster \/ Train
    \/ \E r \in Others : Arrive(r) \/ SyncOther(r) \/ SyncRaises(r)

Spec == Init /\ [][Next]_vars
-----------------------------------------------------------------------------
(* Properties *)

(* The ranks follow the master without a KeyError, whatever was discovered,
   forgotten and evicted since they last met, and the state that the collectives
   after synchronize_state rely on is then the same on every rank: who sits
   where, and which slots step their optimizer and are broadcast (the NCCL
   broadcast calls it "SPMD-replicated").  Not so when a run is forgotten and
   found again under its name between two synchronisations, because runs are
   compared by name. *)
RanksFollow ==
    ~reused =>
        /\ \A r \in Others : pc[r] # "crashed"
        /\ (\A r \in Ranks : pc[r] = "step") =>
              \A r \in Others : table[r] = table[Master] /\ ready[r] = ready[Master]

(* What a rank trains in a slot was set up for the run in it: creation hooks
   run on all ranks when a run is added (register_creation_hook), for the
   directory that the master registered, and what the slot's previous run left
   behind is gone, under the same condition. *)
AdapterFresh ==
    ~reused => \A r \in Ranks, n \in Names :
        (pc[r] = "step" /\ table[r][n] # NoSlot) =>
            adapter[r][table[r][n]] = <<n, store.reg[n]>>
=============================================================================
