-------------------------- MODULE RunRegistryProofs --------------------------
(***************************************************************************)
(* The ranks follow the master of RunRegistry, and train what they set up, *)
(* for any number of ranks, names and slots, and however often directories *)
(* come, go and come back.                                                 *)
(*                                                                         *)
(* The two properties look at the moment after synchronize_state.  What    *)
(* makes them hold is decided before: the master's table may drift away    *)
(* from the last synchronised one while it packs, but as long as no name   *)
(* comes back a run that both tables know keeps its slot, so what a rank   *)
(* works out from the names that are new and gone is the master's table.   *)
(***************************************************************************)
EXTENDS RunRegistry, TLAPS

(* No slot has two runs. *)
Injective(t) == \A m, n \in Known(t) : t[m] = t[n] => m = n

(* Runs that both tables know sit where they sat. *)
StayPut(now, before) == \A n \in Known(now) \cap Known(before) : now[n] = before[n]

(* Where the ranks stand, seen from the master. *)
PhaseInv ==
  /\ pc[Master] # "crashed"
  /\ \A r \in Others :
       /\ pc[Master] \in {"run", "looked", "barrier"} => pc[r] \in {"run", "barrier", "crashed"}
       /\ pc[Master] \in {"sync", "step"} => pc[r] \in {"sync", "step", "crashed"}

(* The master's table stands still from Announce to Train, and the store holds it. *)
MasterInv ==
  /\ Injective(table[Master]) /\ Injective(synced)
  /\ pc[Master] \in {"barrier", "sync", "step"} =>
       store.table = table[Master] /\ store.reg = reg /\ store.ready = ready[Master]
  /\ pc[Master] \in {"barrier", "sync"} => store.new = New(table[Master], synced)
  /\ pc[Master] = "step" => synced = table[Master]

(* A rank that does not discover has the table of the last synchronisation,
   or is on its way from there to the store's. *)
FollowerAt(r) ==
  /\ pc[r] # "crashed" /\ Injective(table[r])
  /\ pc[r] \in {"run", "barrier"} => table[r] = synced
  /\ pc[r] = "sync" => New(store.table, table[r]) = store.new /\ StayPut(store.table, table[r])
  /\ pc[r] = "step" => table[r] = store.table /\ ready[r] = store.ready

(* The runs that a rank has called its hooks for. *)
Hooked(r) == IF r = Master THEN synced ELSE table[r]

FollowInv ==
  /\ StayPut(table[Master], synced)
  /\ \A r \in Others : FollowerAt(r)
  /\ \A r \in Ranks : \A n \in Known(Hooked(r)) : adapter[r][Hooked(r)[n]] = <<n, reg[n]>>

IInv == TypeOK /\ PhaseInv /\ MasterInv /\ (~reused => FollowInv)

---------------------------------------------------------------------------
(* Tables and hooks *)

LEMMA KnownSlots ==
  ASSUME NEW t \in Tables
  PROVE  /\ Known(t) \in SUBSET Names /\ Used(t) \in SUBSET Slots
         /\ \A n \in Known(t) : t[n] \in Slots
         /\ \A n \in Names : t[n] \in Slots \cup {NoSlot}
  BY DEF Tables, Known, Used

(* The master's table after a discovery. *)
LEMMA PlacedTable ==
  ASSUME NEW old \in Tables, NEW d, Injective(old), NEW t \in Placements(Forget(old, d), d)
  PROVE  /\ t \in Tables /\ Injective(t)
         /\ \A n \in Names : Forget(old, d)[n] # NoSlot => t[n] = old[n] /\ n \in Known(old)
<1> DEFINE kept == Forget(old, d)
           waiting == Waiting(kept, d)
<1>1. kept \in Tables /\ \A n \in Names : kept[n] # NoSlot => kept[n] = old[n] /\ n \in Known(old)
  BY DEF Forget, Tables, Known
<1>2. /\ t \in Tables /\ \A n \in Names \ waiting : t[n] = kept[n]
      /\ \A n \in waiting : t[n] \in (Slots \ Used(kept)) \cup {NoSlot}
      /\ \A m, n \in waiting : t[m] = t[n] /\ t[m] # NoSlot => m = n
  BY DEF Placements
<1>3. \A n \in Names : kept[n] # NoSlot => n \notin waiting
  BY DEF Waiting
<1> HIDE DEF kept, waiting
<1>4. ASSUME NEW m \in Known(t), NEW n \in Known(t), t[m] = t[n]
      PROVE  m = n
  <2>1. m \in Names /\ n \in Names /\ t[m] # NoSlot /\ t[n] # NoSlot
    BY <1>4 DEF Known
  <2>2. CASE m \in waiting /\ n \in waiting
    BY <1>2, <1>4, <2>1, <2>2
  <2>3. CASE m \notin waiting /\ n \notin waiting
    <3>1. old[m] = old[n] /\ m \in Known(old) /\ n \in Known(old)
      BY <1>1, <1>2, <1>4, <2>1, <2>3
    <3> QED
      BY <3>1 DEF Injective
  <2>4. ASSUME NEW x \in Names, NEW y \in Names, x \in waiting, y \notin waiting,
               t[x] = t[y], t[x] # NoSlot
        PROVE  FALSE
    <3>1. t[x] \notin Used(kept) /\ t[y] = kept[y] /\ kept[y] # NoSlot
      BY <1>2, <2>4
    <3>2. kept[y] \in Used(kept)
      BY <2>4, <3>1 DEF Used, Known
    <3> QED
      BY <2>4, <3>1, <3>2
  <2> QED
    BY <1>4, <2>1, <2>2, <2>3, <2>4
<1> QED
  BY <1>1, <1>2, <1>3, <1>4 DEF Injective, kept

LEMMA HooksType ==
  ASSUME NEW old \in [Slots -> Runs \cup {NoRun}], NEW before \in Tables, NEW now \in Tables,
         NEW gen \in [Names -> 0 .. MaxBorn]
  PROVE  Hooks(old, before, now, gen) \in [Slots -> Runs \cup {NoRun}]
<1>1. ASSUME NEW s \in Slots, NEW n \in New(now, before), now[n] = s
      PROVE  (CHOOSE run \in Runs : \E k \in New(now, before) : now[k] = s /\ run = <<k, gen[k]>>)
               \in Runs
  <2>1. <<n, gen[n]>> \in Runs
    BY KnownSlots DEF New, Runs
  <2> QED
    BY <1>1, <2>1
<1> QED
  BY <1>1 DEF Hooks

(* Called for the right tables, the hooks leave every slot with its run. *)
LEMMA HooksFresh ==
  ASSUME NEW old \in [Slots -> Runs \cup {NoRun}], NEW before \in Tables, NEW now \in Tables,
         NEW gen \in [Names -> 0 .. MaxBorn],
         Injective(before), Injective(now), StayPut(now, before),
         \A n \in Known(before) : old[before[n]] = <<n, gen[n]>>
  PROVE  \A n \in Known(now) : Hooks(old, before, now, gen)[now[n]] = <<n, gen[n]>>
<1>1. SUFFICES ASSUME NEW n \in Known(now)
               PROVE  Hooks(old, before, now, gen)[now[n]] = <<n, gen[n]>>
  OBVIOUS
<1>2. now[n] \in Slots /\ n \in Names
  BY KnownSlots
<1>3. CASE n \in New(now, before)
  <2> DEFINE P(run) == \E k \in New(now, before) : now[k] = now[n] /\ run = <<k, gen[k]>>
  <2>1. <<n, gen[n]>> \in Runs /\ P(<<n, gen[n]>>)
    BY <1>2, <1>3 DEF Runs
  <2>2. \A run \in Runs : P(run) => run = <<n, gen[n]>>
    BY <1>1 DEF New, Injective
  <2>3. (CHOOSE run \in Runs : P(run)) = <<n, gen[n]>>
    <3> HIDE DEF P
    <3> QED
      BY <2>1, <2>2
  <2>4. Hooks(old, before, now, gen)[now[n]] = CHOOSE run \in Runs : P(run)
    BY <1>2, <1>3 DEF Hooks
  <2> QED
    BY <2>3, <2>4
<1>4. CASE n \notin New(now, before)
  <2>1. n \in Known(before) /\ before[n] = now[n]
    BY <1>1, <1>4 DEF New, StayPut
  <2>2. ~ \E k \in New(now, before) : now[k] = now[n]
    BY <1>1, <1>4 DEF New, Injective
  <2>3. ~ \E k \in Gone(now, before) : before[k] = now[n]
    BY <1>1, <2>1 DEF Gone, Injective
  <2>4. Hooks(old, before, now, gen)[now[n]] = old[now[n]]
    BY <1>2, <2>2, <2>3 DEF Hooks
  <2> QED
    BY <2>1, <2>4
<1> QED
  BY <1>3, <1>4

---------------------------------------------------------------------------
LEMMA Settings == Master \in Ranks /\ Others \subseteq Ranks /\ Master \notin Others
                  /\ NoSlot \notin Slots /\ MaxBorn \in Nat
                  /\ \A r \in Ranks : r = Master \/ r \in Others
  BY RegistryAssumption DEF Ranks

LEMMA InitIInv == Init => IInv
<1> SUFFICES ASSUME Init PROVE IInv
  OBVIOUS
<1>1. NoRuns \in Tables /\ Known(NoRuns) = {}
  BY DEF NoRuns, Tables, Known
<1>2. TypeOK
  <2>1. 0 \in 0 .. MaxBorn
    BY Settings
  <2>2. /\ reg \in [Names -> 0 .. MaxBorn] /\ born \in [Names -> 0 .. MaxBorn]
        /\ dir \in [Names -> {"absent", "bare", "ready", "evicted"}]
    BY <2>1 DEF Init
  <2>3. store \in [table : Tables, reg : [Names -> 0 .. MaxBorn],
                  new : SUBSET Names, ready : SUBSET Slots]
    BY <1>1, <2>2 DEF Init
  <2>4. /\ table \in [Ranks -> Tables] /\ ready \in [Ranks -> SUBSET Slots]
        /\ adapter \in [Ranks -> [Slots -> Runs \cup {NoRun}]]
    BY <1>1 DEF Init
  <2> QED
    BY <1>1, <2>2, <2>3, <2>4 DEF Init, TypeOK, PCs
<1>3. PhaseInv
  BY Settings DEF Init, PhaseInv
<1>4. MasterInv
  BY <1>1, Settings DEF Init, MasterInv, Injective
<1>5. FollowInv
  BY <1>1, Settings DEF Init, FollowInv, FollowerAt, Injective, StayPut, Hooked
<1> QED
  BY <1>2, <1>3, <1>4, <1>5 DEF IInv

---------------------------------------------------------------------------
(* Steps outside the registry *)

LEMMA WorldIInv ==
  ASSUME IInv, Environment
  PROVE  IInv'
<1>1. /\ dir' \in [Names -> {"absent", "bare", "ready", "evicted"}]
      /\ born' \in [Names -> 0 .. MaxBorn] /\ EnvOnly
  <2>1. TypeOK
    BY DEF IInv
  <2>2. PICK n \in Names : Create(n) \/ Configure(n) \/ Remove(n) \/ GiveUp(n)
    BY DEF Environment
  <2>3. CASE Create(n)
    <3>1. born[n] + 1 \in 0 .. MaxBorn
      BY <2>1, <2>3, Settings DEF Create, TypeOK
    <3> QED
      BY <2>1, <2>3, <3>1 DEF Create, TypeOK
  <2>4. CASE Configure(n) \/ Remove(n) \/ GiveUp(n)
    BY <2>1, <2>4 DEF Configure, Remove, GiveUp, TypeOK
  <2> QED
    BY <2>2, <2>3, <2>4
<1>2. TypeOK'
  BY <1>1 DEF IInv, TypeOK, EnvOnly
<1>3. PhaseInv' /\ MasterInv'
  BY <1>1 DEF IInv, PhaseInv, MasterInv, EnvOnly
<1>4. (~reused => FollowInv)'
  BY <1>1 DEF IInv, FollowInv, FollowerAt, Hooked, EnvOnly
<1> QED
  BY <1>2, <1>3, <1>4 DEF IInv

(* While the master looks for batches, its table changes, and no other's. *)
LEMMA DiscoverIInv ==
  ASSUME IInv, Discover \/ \E n \in Names : Evict(n)
  PROVE  IInv'
<1>1. TypeOK /\ PhaseInv /\ MasterInv
  BY DEF IInv
<1>2. PICK d : /\ DiscoverRuns(d) /\ dir' \in [Names -> {"absent", "bare", "ready", "evicted"}]
               /\ pc[Master] \in {"run", "looked"} /\ pc' = [pc EXCEPT ![Master] = "looked"]
               /\ UNCHANGED <<born, synced, store, ready, adapter>>
  <2>1. CASE Discover
    BY <1>1, <2>1 DEF Discover, Goto, TypeOK
  <2>2. ASSUME NEW n \in Names, Evict(n)
        PROVE  /\ DiscoverRuns(dir') /\ dir' \in [Names -> {"absent", "bare", "ready", "evicted"}]
               /\ pc[Master] \in {"run", "looked"} /\ pc' = [pc EXCEPT ![Master] = "looked"]
               /\ UNCHANGED <<born, synced, store, ready, adapter>>
    BY <1>1, <2>2, Settings DEF Evict, TypeOK
  <2> QED
    BY <2>1, <2>2
<1> DEFINE old == table[Master]
           kept == Forget(old, d)
<1>3. PICK t \in Placements(kept, d) :
        /\ table' = [table EXCEPT ![Master] = t]
        /\ reg' = [n \in Names |-> IF t[n] # NoSlot /\ kept[n] = NoSlot THEN born[n] ELSE reg[n]]
        /\ reused' = (reused \/ \E n \in Known(t) \cap Known(synced) : kept[n] = NoSlot)
  BY <1>2 DEF DiscoverRuns
<1>4. /\ old \in Tables /\ Injective(old)
  BY <1>1, Settings DEF TypeOK, MasterInv
<1>5. /\ t \in Tables /\ Injective(t)
      /\ \A n \in Names : kept[n] # NoSlot => t[n] = old[n] /\ n \in Known(old)
  BY <1>4, PlacedTable
<1>6. /\ table'[Master] = t /\ \A r \in Others : table'[r] = table[r]
      /\ table' \in [Ranks -> Tables]
      /\ pc'[Master] = "looked" /\ \A r \in Others : pc'[r] = pc[r]
      /\ pc' \in [Ranks -> PCs]
  BY <1>1, <1>2, <1>3, <1>5, Settings DEF TypeOK, PCs
<1>7. TypeOK'
  <2>1. reg' \in [Names -> 0 .. MaxBorn]
    BY <1>1, <1>3 DEF TypeOK
  <2>2. reused' \in BOOLEAN
    BY <1>1, <1>3 DEF TypeOK
  <2> QED
    BY <1>1, <1>2, <1>6, <2>1, <2>2 DEF TypeOK
<1>8. PhaseInv'
  BY <1>1, <1>2, <1>6 DEF PhaseInv
<1>9. MasterInv'
  BY <1>1, <1>2, <1>5, <1>6 DEF MasterInv
<1>10. ASSUME ~reused'
       PROVE  FollowInv'
  <2>1. FollowInv /\ \A n \in Known(t) \cap Known(synced) : kept[n] # NoSlot
    BY <1>3, <1>10 DEF IInv
  <2>2. StayPut(t, synced)
    <3>1. ASSUME NEW n \in Known(t) \cap Known(synced)
          PROVE  t[n] = synced[n]
      <4>1. t[n] = old[n] /\ n \in Known(old)
        BY <1>5, <2>1, <3>1 DEF Known
      <4> QED
        BY <2>1, <3>1, <4>1 DEF FollowInv, StayPut
    <3> QED
      BY <3>1 DEF StayPut
  <2>3. StayPut(table[Master], synced)'
    BY <1>2, <1>6, <2>2
  <2>4. ASSUME NEW r \in Others
        PROVE  FollowerAt(r)' /\ Hooked(r)' = synced /\ pc[r] \in {"run", "barrier"}
    <3>1. FollowerAt(r) /\ r # Master /\ pc[r] \in {"run", "barrier"}
      BY <1>1, <1>2, <2>1, Settings DEF PhaseInv, FollowInv, FollowerAt
    <3> QED
      BY <1>2, <1>6, <3>1 DEF FollowerAt, Hooked
  <2>5. ASSUME NEW r \in Ranks
        PROVE  Hooked(r) = synced /\ Hooked(r)' = synced
    <3>1. CASE r = Master
      BY <1>2, <3>1 DEF Hooked
    <3>2. CASE r \in Others
      BY <2>1, <2>4, <3>2, Settings DEF FollowInv, FollowerAt, Hooked
    <3> QED
      BY <3>1, <3>2, Settings
  <2>6. \A n \in Known(synced) : reg'[n] = reg[n]
    <3>1. ASSUME NEW n \in Known(synced)
          PROVE  ~(t[n] # NoSlot /\ kept[n] = NoSlot) /\ n \in Names
      BY <2>1 DEF Known
    <3> QED
      BY <1>3, <3>1
  <2>7. ASSUME NEW r \in Ranks, NEW n \in Known(synced)
        PROVE  adapter'[r][synced[n]] = <<n, reg'[n]>>
    BY <1>2, <2>1, <2>5, <2>6 DEF FollowInv
  <2>8. \A r \in Ranks : \A n \in Known(Hooked(r)') :
          adapter'[r][Hooked(r)'[n]] = <<n, reg'[n]>>
    BY <2>5, <2>7
  <2> QED
    BY <2>3, <2>4, <2>8 DEF FollowInv, Known
<1> QED
  BY <1>7, <1>8, <1>9, <1>10 DEF IInv

---------------------------------------------------------------------------
(* synchronize_state *)

LEMMA AnnounceIInv == ASSUME IInv, Announce PROVE IInv'
<1>1. TypeOK /\ PhaseInv /\ MasterInv
  BY DEF IInv
<1>2. PICK S \in SUBSET Used(table[Master]) :
        /\ ready' = [ready EXCEPT ![Master] = S]
        /\ store' = [table |-> table[Master], reg |-> reg, ready |-> S,
                     new |-> New(table[Master], synced)]
  BY DEF Announce
<1>3. /\ pc[Master] = "looked" /\ pc' = [pc EXCEPT ![Master] = "barrier"]
      /\ UNCHANGED <<dir, born, table, reg, reused, synced, adapter>>
  BY DEF Announce, Goto
<1>4. /\ table[Master] \in Tables /\ S \in SUBSET Slots
      /\ New(table[Master], synced) \in SUBSET Names
  BY <1>1, Settings, KnownSlots DEF TypeOK, New
<1>5. /\ pc'[Master] = "barrier" /\ \A r \in Others : pc'[r] = pc[r]
      /\ ready'[Master] = S /\ \A r \in Others : ready'[r] = ready[r]
  BY <1>1, <1>2, <1>3, Settings DEF TypeOK
<1>6. TypeOK'
  <2>1. store' \in [table : Tables, reg : [Names -> 0 .. MaxBorn],
                    new : SUBSET Names, ready : SUBSET Slots]
    BY <1>1, <1>2, <1>4 DEF TypeOK
  <2> QED
    BY <1>1, <1>2, <1>3, <1>4, <2>1 DEF TypeOK, PCs
<1>7. PhaseInv' /\ MasterInv'
  BY <1>1, <1>2, <1>3, <1>5 DEF PhaseInv, MasterInv
<1>8. ASSUME ~reused'
      PROVE  FollowInv'
  <2>1. FollowInv
    BY <1>3, <1>8 DEF IInv
  <2>2. ASSUME NEW r \in Others
        PROVE  FollowerAt(r)'
    BY <1>1, <1>3, <1>5, <2>1 DEF FollowInv, FollowerAt, PhaseInv
  <2> QED
    BY <1>3, <2>1, <2>2 DEF FollowInv, Hooked
<1> QED
  BY <1>6, <1>7, <1>8 DEF IInv

(* The ranks come together. *)
LEMMA MeetIInv == ASSUME IInv, Barrier \/ \E r \in Others : Arrive(r) PROVE IInv'
<1>1. TypeOK /\ PhaseInv /\ MasterInv
  BY DEF IInv
<1>2. /\ UNCHANGED <<dir, born, table, reg, reused, synced, store, ready, adapter>>
      /\ pc' \in [Ranks -> PCs]
      /\ \/ /\ \A r \in Ranks : pc[r] = "barrier" /\ pc'[r] = "sync"
         \/ /\ pc'[Master] = pc[Master]
            /\ \A r \in Others : pc'[r] = pc[r] \/ (pc[r] = "run" /\ pc'[r] = "barrier")
  <2>1. CASE Barrier
    BY <2>1 DEF Barrier, PCs
  <2>2. ASSUME NEW r \in Others, Arrive(r)
        PROVE  /\ UNCHANGED <<dir, born, table, reg, reused, synced, store, ready, adapter>>
               /\ pc' \in [Ranks -> PCs] /\ pc'[Master] = pc[Master]
               /\ \A q \in Others : pc'[q] = pc[q] \/ (pc[q] = "run" /\ pc'[q] = "barrier")
    BY <1>1, <2>2, Settings DEF Arrive, Goto, TypeOK, PCs
  <2> QED
    BY <2>1, <2>2
<1>3. TypeOK'
  BY <1>1, <1>2 DEF TypeOK
<1>4. PhaseInv' /\ MasterInv'
  BY <1>1, <1>2, Settings DEF PhaseInv, MasterInv
<1>5. ASSUME ~reused'
      PROVE  FollowInv'
  <2>1. FollowInv
    BY <1>2, <1>5 DEF IInv
  <2>2. ASSUME NEW r \in Others
        PROVE  FollowerAt(r)'
    <3>1. CASE \A q \in Ranks : pc[q] = "barrier" /\ pc'[q] = "sync"
      <4>1. pc[r] = "barrier" /\ pc'[r] = "sync" /\ pc[Master] = "barrier"
        BY <3>1, Settings
      <4>2. /\ table[r] = synced /\ Injective(table[r])
            /\ store.table = table[Master] /\ store.new = New(table[Master], synced)
        BY <1>1, <2>1, <4>1 DEF FollowInv, FollowerAt, MasterInv
      <4> QED
        BY <1>2, <2>1, <4>1, <4>2 DEF FollowInv, FollowerAt
    <3>2. CASE pc'[r] = pc[r] \/ (pc[r] = "run" /\ pc'[r] = "barrier")
      BY <1>2, <2>1, <3>2 DEF FollowInv, FollowerAt
    <3> QED
      BY <1>2, <3>1, <3>2
  <2> QED
    BY <1>2, <2>1, <2>2 DEF FollowInv, Hooked
<1> QED
  BY <1>3, <1>4, <1>5 DEF IInv

LEMMA SyncMasterIInv == ASSUME IInv, SyncMaster PROVE IInv'
<1>1. /\ TypeOK /\ PhaseInv /\ MasterInv
      /\ table[Master] \in Tables /\ synced \in Tables /\ reg \in [Names -> 0 .. MaxBorn]
      /\ adapter[Master] \in [Slots -> Runs \cup {NoRun}]
  BY Settings DEF IInv, TypeOK
<1>2. /\ pc[Master] = "sync" /\ pc' = [pc EXCEPT ![Master] = "step"]
      /\ adapter' = [adapter EXCEPT ![Master] =
                       Hooks(adapter[Master], synced, table[Master], reg)]
      /\ synced' = table[Master]
      /\ UNCHANGED <<dir, born, table, reg, reused, store, ready>>
  BY DEF SyncMaster, Goto
<1>3. Hooks(adapter[Master], synced, table[Master], reg) \in [Slots -> Runs \cup {NoRun}]
  BY <1>1, HooksType
<1>4. /\ pc'[Master] = "step" /\ \A r \in Others : pc'[r] = pc[r]
      /\ adapter'[Master] = Hooks(adapter[Master], synced, table[Master], reg)
      /\ \A r \in Others : adapter'[r] = adapter[r]
  BY <1>1, <1>2, Settings DEF TypeOK
<1>5. TypeOK'
  BY <1>1, <1>2, <1>3 DEF TypeOK, PCs
<1>6. PhaseInv' /\ MasterInv'
  BY <1>1, <1>2, <1>4 DEF PhaseInv, MasterInv
<1>7. ASSUME ~reused'
      PROVE  FollowInv'
  <2>1. FollowInv
    BY <1>2, <1>7 DEF IInv
  <2>2. ASSUME NEW r \in Others
        PROVE  FollowerAt(r)'
    BY <1>1, <1>2, <1>4, <2>1 DEF FollowInv, FollowerAt, PhaseInv
  <2>3. \A n \in Known(table[Master]) : adapter'[Master][table[Master][n]] = <<n, reg[n]>>
    <3>1. Injective(synced) /\ Injective(table[Master]) /\ StayPut(table[Master], synced)
      BY <1>1, <2>1 DEF MasterInv, FollowInv
    <3>2. \A n \in Known(synced) : adapter[Master][synced[n]] = <<n, reg[n]>>
      BY <2>1, Settings DEF FollowInv, Hooked
    <3>3. \A n \in Known(table[Master]) :
            Hooks(adapter[Master], synced, table[Master], reg)[table[Master][n]] = <<n, reg[n]>>
      BY <1>1, <3>1, <3>2, HooksFresh
    <3> QED
      BY <1>4, <3>3
  <2>4. StayPut(table[Master], synced)'
    BY <1>2 DEF StayPut
  <2>5. ASSUME NEW r \in Ranks, NEW n \in Known(Hooked(r)')
        PROVE  adapter'[r][Hooked(r)'[n]] = <<n, reg'[n]>>
    <3>1. CASE r = Master
      BY <1>2, <2>3, <2>5, <3>1 DEF Hooked
    <3>2. CASE r \in Others
      <4>1. Hooked(r)' = table[r] /\ Hooked(r) = table[r] /\ adapter'[r] = adapter[r]
        BY <1>2, <1>4, <3>2, Settings DEF Hooked
      <4> QED
        BY <1>2, <2>1, <2>5, <4>1 DEF FollowInv
    <3> QED
      BY <3>1, <3>2, Settings
  <2> QED
    BY <2>2, <2>4, <2>5 DEF FollowInv, Known
<1> QED
  BY <1>5, <1>6, <1>7 DEF IInv

(* A rank that can follow arrives at the master's table. *)
LEMMA FollowerArrives ==
  ASSUME NEW mine \in Tables, store.table \in Tables, Injective(store.table),
         New(store.table, mine) = store.new, StayPut(store.table, mine)
  PROVE  CaughtUp(mine) = store.table /\ ~Taken(mine) /\ ~Missing(mine)
<1>1. CaughtUp(mine) = store.table
  <2>1. \A n \in Names : CaughtUp(mine)[n] = store.table[n]
    BY DEF CaughtUp, StayPut
  <2> QED
    BY <2>1 DEF CaughtUp, Tables
<1>2. ~Taken(mine)
  BY DEF Taken, StayPut, Injective, New
<1>3. ~Missing(mine)
  BY DEF Missing
<1> QED
  BY <1>1, <1>2, <1>3

LEMMA SyncOtherIInv ==
  ASSUME IInv, NEW q \in Others, SyncOther(q) \/ SyncRaises(q)
  PROVE  IInv'
<1>1. /\ TypeOK /\ PhaseInv /\ MasterInv /\ q # Master /\ q \in Ranks
      /\ table[q] \in Tables /\ store.table \in Tables /\ store.reg \in [Names -> 0 .. MaxBorn]
      /\ adapter[q] \in [Slots -> Runs \cup {NoRun}] /\ store.ready \in SUBSET Slots
  BY Settings DEF IInv, TypeOK
<1>2. /\ pc[q] = "sync" /\ pc[Master] \in {"sync", "step"}
      /\ UNCHANGED <<dir, born, reg, reused, synced, store>>
  <2>1. pc[Master] \in PCs /\ pc[q] = "sync"
    BY <1>1, Settings DEF TypeOK, SyncOther, SyncRaises
  <2> QED
    BY <1>1, <2>1 DEF SyncOther, SyncRaises, PhaseInv, PCs
<1>3. /\ store.table = table[Master] /\ store.reg = reg /\ store.ready = ready[Master]
      /\ Injective(store.table)
  BY <1>1, <1>2 DEF MasterInv
<1>4. Hooks(adapter[q], table[q], store.table, store.reg) \in [Slots -> Runs \cup {NoRun}]
  BY <1>1, HooksType
<1>5. CaughtUp(table[q]) \in Tables
  BY <1>1 DEF CaughtUp, Tables, Known
<1>6. \/ /\ SyncOther(q)
         /\ adapter' = [adapter EXCEPT ![q] = Hooks(adapter[q], table[q], store.table, store.reg)]
         /\ table' = [table EXCEPT ![q] = CaughtUp(table[q])]
         /\ ready' = [ready EXCEPT ![q] = store.ready]
         /\ pc' = [pc EXCEPT ![q] = "step"]
      \/ /\ SyncRaises(q) /\ UNCHANGED <<table, ready, adapter>>
         /\ pc' = [pc EXCEPT ![q] = "crashed"]
  BY DEF SyncOther, SyncRaises, Goto
<1>7. /\ table'[Master] = table[Master] /\ ready'[Master] = ready[Master]
      /\ pc'[Master] = pc[Master] /\ adapter'[Master] = adapter[Master]
      /\ pc'[q] \in {"step", "crashed"}
      /\ \A r \in Others : r # q => /\ table'[r] = table[r] /\ ready'[r] = ready[r]
                                    /\ pc'[r] = pc[r] /\ adapter'[r] = adapter[r]
  BY <1>1, <1>6, Settings DEF TypeOK
<1>8. TypeOK'
  <2>1. /\ table' \in [Ranks -> Tables] /\ ready' \in [Ranks -> SUBSET Slots]
        /\ adapter' \in [Ranks -> [Slots -> Runs \cup {NoRun}]]
    <3>1. /\ table \in [Ranks -> Tables] /\ ready \in [Ranks -> SUBSET Slots]
          /\ adapter \in [Ranks -> [Slots -> Runs \cup {NoRun}]]
      BY <1>1 DEF TypeOK
    <3> QED
      BY <1>1, <1>4, <1>5, <1>6, <3>1
  <2>2. pc' \in [Ranks -> PCs]
    BY <1>1, <1>6 DEF TypeOK, PCs
  <2> QED
    BY <1>1, <1>2, <2>1, <2>2 DEF TypeOK
<1>9. PhaseInv' /\ MasterInv'
  BY <1>1, <1>2, <1>7 DEF PhaseInv, MasterInv
<1>10. ASSUME ~reused'
       PROVE  FollowInv'
  <2>1. FollowInv /\ FollowerAt(q)
    BY <1>2, <1>10 DEF IInv, FollowInv
  <2>2. /\ CaughtUp(table[q]) = store.table /\ ~Taken(table[q]) /\ ~Missing(table[q])
        /\ Injective(table[q]) /\ StayPut(store.table, table[q])
    BY <1>1, <1>2, <1>3, <2>1, FollowerArrives DEF FollowerAt
  <2>3. SyncOther(q)
    BY <1>6, <2>2 DEF SyncRaises
  <2>4. /\ table'[q] = store.table /\ ready'[q] = store.ready /\ pc'[q] = "step"
        /\ adapter'[q] = Hooks(adapter[q], table[q], store.table, store.reg)
    BY <1>1, <2>2, <2>3 DEF SyncOther, Goto, TypeOK
  <2>5. \A n \in Known(store.table) : adapter'[q][store.table[n]] = <<n, reg[n]>>
    <3>1. \A n \in Known(table[q]) : adapter[q][table[q][n]] = <<n, store.reg[n]>>
      BY <1>1, <1>3, <2>1 DEF FollowInv, Hooked
    <3> QED
      <4>1. \A n \in Known(store.table) :
              Hooks(adapter[q], table[q], store.table, store.reg)[store.table[n]]
                = <<n, store.reg[n]>>
        BY <1>1, <1>3, <2>2, <3>1, HooksFresh
      <4> QED
        BY <1>3, <2>4, <4>1
  <2>6. ASSUME NEW r \in Others
        PROVE  FollowerAt(r)'
    <3>1. CASE r = q
      BY <1>2, <1>3, <2>4, <3>1 DEF FollowerAt
    <3>2. CASE r # q
      BY <1>2, <1>7, <2>1, <3>2 DEF FollowInv, FollowerAt
    <3> QED
      BY <3>1, <3>2
  <2>7. ASSUME NEW r \in Ranks, NEW n \in Known(Hooked(r)')
        PROVE  adapter'[r][Hooked(r)'[n]] = <<n, reg'[n]>>
    <3>1. CASE r = q
      <4>1. Hooked(r)' = store.table
        BY <1>1, <2>4, <3>1 DEF Hooked
      <4> QED
        BY <1>2, <2>5, <2>7, <3>1, <4>1
    <3>2. CASE r # q
      <4>1. Hooked(r)' = Hooked(r) /\ adapter'[r] = adapter[r]
        BY <1>2, <1>7, <3>2, Settings DEF Hooked
      <4> QED
        BY <1>2, <2>1, <2>7, <4>1 DEF FollowInv
    <3> QED
      BY <3>1, <3>2
  <2>8. StayPut(table[Master], synced)'
    BY <1>2, <1>7, <2>1 DEF FollowInv
  <2> QED
    BY <2>6, <2>7, <2>8 DEF FollowInv, Known
<1> QED
  BY <1>8, <1>9, <1>10 DEF IInv

LEMMA TrainIInv == ASSUME IInv, Train PROVE IInv'
<1>1. TypeOK /\ PhaseInv /\ MasterInv
  BY DEF IInv
<1>2. /\ \A r \in Ranks : pc[r] = "step" /\ pc'[r] = "run"
      /\ pc' \in [Ranks -> PCs] /\ pc[Master] = "step" /\ pc'[Master] = "run"
      /\ ready' = [ready EXCEPT ![Master] = {}]
      /\ UNCHANGED <<dir, born, table, reg, reused, synced, store, adapter>>
  BY Settings DEF Train, PCs
<1>3. TypeOK'
  BY <1>1, <1>2 DEF TypeOK
<1>4. PhaseInv' /\ MasterInv'
  BY <1>1, <1>2, Settings DEF PhaseInv, MasterInv
<1>5. ASSUME ~reused'
      PROVE  FollowInv'
  <2>1. FollowInv
    BY <1>2, <1>5 DEF IInv
  <2>2. ASSUME NEW r \in Others
        PROVE  FollowerAt(r)'
    <3>1. pc[r] = "step" /\ pc'[r] = "run"
      BY <1>2, Settings
    <3>2. table[r] = store.table /\ store.table = table[Master] /\ synced = table[Master]
          /\ Injective(table[r])
      BY <1>1, <1>2, <2>1, <3>1 DEF FollowInv, FollowerAt, MasterInv
    <3> QED
      BY <1>2, <3>1, <3>2 DEF FollowerAt
  <2> QED
    BY <1>2, <2>1, <2>2 DEF FollowInv, Hooked
<1> QED
  BY <1>3, <1>4, <1>5 DEF IInv

---------------------------------------------------------------------------
LEMMA StepIInv == IInv /\ [Next]_vars => IInv'
<1> SUFFICES ASSUME IInv, [Next]_vars PROVE IInv'
  OBVIOUS
<1>1. CASE UNCHANGED vars
  BY <1>1 DEF vars, IInv, TypeOK, PhaseInv, MasterInv, FollowInv, FollowerAt, Hooked
<1>2. CASE Next
  BY <1>2, WorldIInv, DiscoverIInv, AnnounceIInv, MeetIInv, SyncMasterIInv, SyncOtherIInv,
     TrainIInv DEF Next
<1> QED
  BY <1>1, <1>2

LEMMA Invariance == Spec => []IInv
  BY InitIInv, StepIInv, PTL DEF Spec

(* Tables, stores, flags and adapters of all ranks are well typed. *)
THEOREM TypeCorrect == Spec => []TypeOK
<1>1. IInv => TypeOK
  BY DEF IInv
<1> QED
  BY <1>1, Invariance, PTL

(* However directories come and go, as long as no name comes back between two
   synchronisations no rank raises a KeyError, and all ranks that go into the
   collectives have the master's table and its flags. *)
THEOREM RanksStayTogether == Spec => []RanksFollow
<1>1. ASSUME IInv
      PROVE  RanksFollow
  <2>1. SUFFICES ASSUME FollowInv, MasterInv
                 PROVE  /\ \A r \in Others : pc[r] # "crashed"
                        /\ (\A r \in Ranks : pc[r] = "step") =>
                              \A r \in Others : table[r] = table[Master] /\ ready[r] = ready[Master]
    BY <1>1 DEF IInv, RanksFollow
  <2>2. \A r \in Others : FollowerAt(r)
    BY <2>1 DEF FollowInv
  <2>3. (\A r \in Ranks : pc[r] = "step") =>
          \A r \in Others : table[r] = table[Master] /\ ready[r] = ready[Master]
    BY <2>1, <2>2, Settings DEF FollowerAt, MasterInv
  <2> QED
    BY <2>2, <2>3 DEF FollowerAt
<1> QED
  BY <1>1, Invariance, PTL

(* Under the same condition every rank trains, in each slot, what its creation
   hooks set up for the directory that the master registered there. *)
THEOREM AdaptersAreFresh == Spec => []AdapterFresh
<1>1. ASSUME IInv
      PROVE  AdapterFresh
  <2>1. SUFFICES ASSUME FollowInv, NEW r \in Ranks, NEW n \in Names,
                        pc[r] = "step", table[r][n] # NoSlot
                 PROVE  adapter[r][table[r][n]] = <<n, store.reg[n]>>
    BY <1>1 DEF IInv, AdapterFresh
  <2>2. PhaseInv /\ MasterInv
    BY <1>1 DEF IInv
  <2>3. pc[Master] \in {"sync", "step"} /\ Hooked(r) = table[r]
    <3>1. CASE r = Master
      BY <2>1, <2>2, <3>1 DEF MasterInv, Hooked
    <3>2. CASE r \in Others
      <4>1. TypeOK
        BY <1>1 DEF IInv
      <4>2. pc[Master] \in PCs
        BY <4>1, Settings DEF TypeOK
      <4> QED
        BY <2>1, <2>2, <3>2, <4>2, Settings DEF PhaseInv, Hooked, PCs
    <3> QED
      BY <3>1, <3>2, Settings
  <2>4. store.reg = reg
    BY <2>2, <2>3 DEF MasterInv
  <2>5. adapter[r][table[r][n]] = <<n, reg[n]>>
    BY <2>1, <2>3 DEF FollowInv, Known
  <2> QED
    BY <2>4, <2>5
<1> QED
  BY <1>1, Invariance, PTL
=============================================================================
