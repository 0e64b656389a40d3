------------------------- MODULE TenantPackerProofs -------------------------
(***************************************************************************)
(* What the packer, the trainer and the optimizers of TenantPacker know      *)
(* about a run belongs together, for any number of runs, slots and ranks,    *)
(* any batches and any token budget.                                        *)
(*                                                                         *)
(* A buffer holds batches in the order they were received, from the step    *)
(* the packer is at to the last one received.  So when it has been emptied  *)
(* up to a later step, every sample of the completed one has been packed;   *)
(* and the optimizer is behind the packer by the one step that is ready.    *)
(* That is the first invariant.                                             *)
(*                                                                         *)
(* The second one follows every sample.  Of a run that has not gone, those  *)
(* of the steps that were received and not yet made are in the buffer, on    *)
(* their way to the ranks or in .grad, and the latter are of one step.  For *)
(* that, the micro batches a pack makes must have the samples it took and no *)
(* others: sorting, first fit, padding and dealing out lose and add none.   *)
(* The recursions that do this are followed to the end by an induction over *)
(* the places of a sequence, which the least element of a set of numbers    *)
(* gives.                                                                   *)
(***************************************************************************)
EXTENDS TenantPacker, FiniteSetTheorems, SequenceTheorems, WellFoundedInduction, TLAPS

Seats ==
    [run : Runs \cup {NoRun}, progress : 0 .. MaxBatches, ready : BOOLEAN,
     received : 0 .. MaxBatches, buffer : Seq(Samples)]

(* The parts of TypeOK that the packing of micro batches has no part in.    *)
SeatTypeOK ==
    /\ dir \in [Runs -> {"none", "live", "evicted", "gone"}]
    /\ outbox \in [Runs -> Seq(BatchKinds)]
    /\ \A r \in Runs : Len(outbox[r]) <= MaxBatches
    /\ seat \in [Slots -> Seats]
    /\ adapter \in [Slots -> [run : Runs \cup {NoRun}, steps : 0 .. MaxBatches]]
    /\ pc \in {"top", "pack", "polled", "sync", "step"}

(* The samples of a buffer: of the run, of steps not completed, in order.   *)
BufferOK(x) ==
    /\ \A k \in DOMAIN x.buffer :
         /\ x.buffer[k].run = x.run
         /\ x.progress <= x.buffer[k].step /\ x.buffer[k].step < x.received
    /\ \A j, k \in DOMAIN x.buffer : j < k => x.buffer[j].step <= x.buffer[k].step

SeatOK(x) ==
    /\ x \in Seats
    /\ x.run = NoRun => x = Vacant
    /\ x.progress <= x.received
    /\ BufferOK(x)

(* The optimizer's steps and the packer's: one that is ready is still to be *)
(* made; an adapter that is not the run's yet has none.                     *)
Pending(x) == IF x.ready THEN 1 ELSE 0

Behind(a, x) == IF a.run = x.run THEN x.progress = a.steps + Pending(x)
                                 ELSE x.progress = Pending(x)

CountInv ==
    \A s \in Slots :
        /\ pc \in {"pack", "polled"} => ~seat[s].ready
        /\ pc \in {"pack", "polled", "sync"} => Behind(adapter[s], seat[s])
        /\ pc \in {"step", "top"} => adapter[s].run = seat[s].run
        /\ pc = "step" => seat[s].progress = adapter[s].steps + Pending(seat[s])
        /\ pc = "top" => seat[s].progress = adapter[s].steps
        /\ adapter[s].run = NoRun => adapter[s].steps = 0

(* A run that was discovered has a directory or had one, and an adapter that *)
(* is left over is of a run that does not come back.                        *)
PastInv ==
    \A s \in Slots :
        /\ seat[s].run # NoRun => dir[seat[s].run] # "none"
        /\ adapter[s].run \notin {NoRun, seat[s].run} =>
             dir[adapter[s].run] \in {"evicted", "gone"}

IInv == SeatTypeOK /\ (\A s \in Slots : SeatOK(seat[s])) /\ CountInv /\ PastInv

-----------------------------------------------------------------------------
(* A nonempty set of naturals has a least element, and Min returns it.      *)
LEMMA MinOfNats == ASSUME NEW S, S \subseteq Nat, S # {}
                   PROVE  Min(S) \in S /\ \A y \in S : Min(S) <= y
<1>1. PICK m \in S : \A y \in S : ~(<<y, m>> \in OpToRel(<, Nat))
  BY WFMin, NatLessThanWellFounded
<1>2. \A y \in S : m <= y
  <2>1. \A y \in S : ~(y < m)
    BY <1>1 DEF OpToRel
  <2> QED
    BY <2>1
<1> QED
  BY <1>2 DEF Min

(* A set with 0 that has k when it has k - 1 has every number up to N.      *)
LEMMA Induction ==
  ASSUME NEW N \in Nat, NEW T, 0 \in T, \A k \in 1 .. N : k - 1 \in T => k \in T
  PROVE  0 .. N \subseteq T
<1> DEFINE bad == {k \in 0 .. N : k \notin T}
<1>1. SUFFICES ASSUME bad # {} PROVE FALSE
  OBVIOUS
<1>2. Min(bad) \in bad /\ \A y \in bad : Min(bad) <= y
  <2>1. bad \subseteq Nat
    OBVIOUS
  <2> HIDE DEF bad
  <2> QED
    BY <1>1, <2>1, MinOfNats
<1> HIDE DEF bad
<1>3. Min(bad) \in 1 .. N /\ Min(bad) \notin T
  BY <1>2 DEF bad
<1>4. Min(bad) - 1 \notin bad
  BY <1>2, <1>3
<1>5. Min(bad) - 1 \in T
  BY <1>3, <1>4 DEF bad
<1> QED
  BY <1>3, <1>5

(* The values of a recursion that starts with base, and that there are some. *)
Steps(N, S) == [1 .. N -> [S -> S]]

Iterates(f, N, S, base, step) ==
    f \in [0 .. N -> S] /\ f[0] = base /\ \A n \in 1 .. N : f[n] = step[n][f[n - 1]]

LEMMA Recursion ==
  ASSUME NEW N \in Nat, NEW S, NEW base \in S, NEW step \in Steps(N, S)
  PROVE  \E f : Iterates(f, N, S, base, step)
<1> DEFINE T == {m \in 0 .. N : \E f : Iterates(f, m, S, base, step)}
<1>1. 0 \in T
  <2> DEFINE g == [n \in 0 .. 0 |-> base]
  <2>1. Iterates(g, 0, S, base, step) /\ 0 \in 0 .. N
    BY DEF Iterates
  <2> HIDE DEF g
  <2> QED
    BY <2>1
<1>2. ASSUME NEW k \in 1 .. N, k - 1 \in T PROVE k \in T
  <2>1. PICK f : Iterates(f, k - 1, S, base, step)
    BY <1>2
  <2>2. f[k - 1] \in S /\ step[k] \in [S -> S] /\ k \in 0 .. N
    BY <2>1 DEF Iterates, Steps
  <2>3. step[k][f[k - 1]] \in S
    BY <2>2
  <2> DEFINE g == [n \in 0 .. k |-> IF n = k THEN step[k][f[k - 1]] ELSE f[n]]
  <2>4. g \in [0 .. k -> S]
    BY <2>1, <2>3 DEF Iterates
  <2>5. g[0] = base /\ g[k] = step[k][f[k - 1]] /\ \A n \in 0 .. (k - 1) : g[n] = f[n]
    BY <2>1 DEF Iterates
  <2> HIDE DEF g
  <2>6. Iterates(g, k, S, base, step)
    BY <2>1, <2>4, <2>5, SMTT(30) DEF Iterates
  <2> QED
    BY <2>2, <2>6
<1>3. N \in T
  <2> HIDE DEF T
  <2>1. 0 .. N \subseteq T
    BY <1>1, <1>2, Induction
  <2> QED
    BY <2>1
<1> QED
  BY <1>3

-----------------------------------------------------------------------------
(* The length of a micro batch is a sum over its samples.                   *)
LEMMA TotalSums ==
  ASSUME NEW s \in Seq(Samples)
  PROVE  \E f \in [0 .. Len(s) -> Nat] :
            /\ f[0] = 0 /\ \A n \in 1 .. Len(s) : f[n] = f[n - 1] + s[n].size
            /\ Total(s) = f[Len(s)]
<1> DEFINE N == Len(s)
           sum == CHOOSE f : f = [n \in 0 .. N |-> IF n = 0 THEN 0 ELSE f[n - 1] + s[n].size]
           step == [n \in 1 .. N |-> [t \in Nat |-> t + s[n].size]]
<1>1. N \in Nat /\ \A n \in 1 .. N : s[n].size \in Nat
  <2>1. N \in Nat /\ \A n \in 1 .. N : s[n] \in Samples
    BY LenProperties, ElementOfSeq
  <2> QED
    BY <2>1, PackerAssumption DEF Samples
<1> HIDE DEF N
<1>2. step \in Steps(N, Nat)
  BY <1>1 DEF Steps
<1>3. PICK g : Iterates(g, N, Nat, 0, step)
  <2> HIDE DEF step
  <2> QED
    BY <1>1, <1>2, Recursion
<1>4. \A n \in 1 .. N : g[n] = g[n - 1] + s[n].size
  <2> TAKE n \in 1 .. N
  <2>1. g[n - 1] \in Nat
    BY <1>1, <1>3 DEF Iterates
  <2> QED
    BY <1>3, <2>1 DEF Iterates
<1> HIDE DEF step
<1>5. g = [n \in 0 .. N |-> IF n = 0 THEN 0 ELSE g[n - 1] + s[n].size]
  BY <1>1, <1>3, <1>4 DEF Iterates
<1>6. sum = [n \in 0 .. N |-> IF n = 0 THEN 0 ELSE sum[n - 1] + s[n].size]
  BY <1>5
<1>7. Total(s) = sum[N]
  BY DEF Total, N
<1> HIDE DEF sum
<1>8. sum[0] = 0 /\ \A n \in 1 .. N : sum[n] = sum[n - 1] + s[n].size
  BY <1>1, <1>6
<1>9. \A n \in 0 .. N : sum[n] \in Nat
  <2> DEFINE T == {n \in 0 .. N : sum[n] \in Nat}
  <2>1. 0 \in T
    BY <1>1, <1>8
  <2>2. ASSUME NEW k \in 1 .. N, k - 1 \in T PROVE k \in T
    <3>1. k \in 0 .. N /\ sum[k - 1] \in Nat /\ s[k].size \in Nat
      BY <1>1, <2>2
    <3>2. sum[k] = sum[k - 1] + s[k].size
      BY <1>8
    <3> QED
      BY <3>1, <3>2
  <2>3. 0 .. N \subseteq T
    <3> HIDE DEF T
    <3> QED
      BY <1>1, <2>1, <2>2, Induction
  <2> QED
    BY <2>3
<1>10. sum \in [0 .. N -> Nat]
  BY <1>6, <1>9
<1> QED
  BY <1>7, <1>8, <1>10 DEF N

LEMMA TotalOfAppend ==
  ASSUME NEW s \in Seq(Samples), NEW x \in Samples
  PROVE  /\ Total(s) \in Nat
         /\ Total(Append(s, x)) = Total(s) + x.size
<1> DEFINE t == Append(s, x)
<1>1. /\ Len(s) \in Nat /\ t \in Seq(Samples) /\ Len(t) = Len(s) + 1
      /\ \A n \in 1 .. Len(s) : t[n] = s[n]
      /\ t[Len(s) + 1] = x
  BY LenProperties, AppendProperties
<1> HIDE DEF t
<1>2. PICK f \in [0 .. Len(s) -> Nat] :
         /\ f[0] = 0 /\ \A n \in 1 .. Len(s) : f[n] = f[n - 1] + s[n].size
         /\ Total(s) = f[Len(s)]
  BY TotalSums
<1>3. PICK g \in [0 .. Len(t) -> Nat] :
         /\ g[0] = 0 /\ \A n \in 1 .. Len(t) : g[n] = g[n - 1] + t[n].size
         /\ Total(t) = g[Len(t)]
  BY <1>1, TotalSums
<1>4. \A n \in 0 .. Len(s) : g[n] = f[n]
  <2> DEFINE T == {n \in 0 .. Len(s) : g[n] = f[n]}
  <2>1. 0 \in T /\ \A k \in 1 .. Len(s) : k - 1 \in T => k \in T
    BY <1>1, <1>2, <1>3
  <2>2. 0 .. Len(s) \subseteq T
    <3> HIDE DEF T
    <3> QED
      BY <1>1, <2>1, Induction
  <2> QED
    BY <2>2
<1>5. g[Len(s) + 1] = g[Len(s) + 1 - 1] + x.size /\ Len(s) + 1 - 1 = Len(s)
  BY <1>1, <1>3
<1> QED
  BY <1>1, <1>2, <1>3, <1>4, <1>5 DEF t

LEMMA TotalOfFew ==
  /\ Total(<< >>) = 0
  /\ \A x \in Samples : Total(<<x>>) = x.size
<1>1. Total(<< >>) = 0
  BY TotalSums, EmptySeq
<1>2. ASSUME NEW x \in Samples PROVE Total(<<x>>) = x.size
  <2>1. << >> \in Seq(Samples) /\ Append(<< >>, x) = <<x>>
    BY EmptySeq
  <2>2. Total(<<x>>) = 0 + x.size
    BY <1>1, <2>1, TotalOfAppend
  <2> QED
    BY <2>2, PackerAssumption DEF Samples
<1> QED
  BY <1>1, <1>2

(* Sorting leaves out no sample: the places are a permutation, because a    *)
(* sample has a later place than those that come before it.                 *)
LEMMA SortedRange ==
  ASSUME NEW s \in Seq(Samples)
  PROVE  /\ Sorted(s) \in Seq(Samples) /\ Len(Sorted(s)) = Len(s)
         /\ Range(Sorted(s)) = Range(s)
<1> DEFINE N == Len(s)
           before(j, k) == \/ s[j].size > s[k].size
                           \/ s[j].size = s[k].size /\ j < k
           ahead(k) == {j \in DOMAIN s : before(j, k)}
           place(k) == Cardinality(ahead(k)) + 1
           at(p) == CHOOSE k \in DOMAIN s : place(k) = p
<1>1. N \in Nat /\ DOMAIN s = 1 .. N /\ \A n \in 1 .. N : s[n] \in Samples /\ s[n].size \in Nat
  <2>1. N \in Nat /\ DOMAIN s = 1 .. N /\ \A n \in 1 .. N : s[n] \in Samples
    BY LenProperties, ElementOfSeq
  <2> QED
    BY <2>1, PackerAssumption DEF Samples
<1>2. Sorted(s) = [p \in 1 .. N |-> s[at(p)]]
  BY <1>1 DEF Sorted
<1> HIDE DEF N
<1>3. IsFiniteSet(1 .. N) /\ Cardinality(1 .. N) = N
  BY <1>1, FS_Interval
<1>4. ASSUME NEW k \in 1 .. N
      PROVE  /\ IsFiniteSet(ahead(k)) /\ Cardinality(ahead(k)) \in Nat
             /\ place(k) \in 1 .. N
  <2>1. ahead(k) \subseteq (1 .. N) \ {k}
    BY <1>1
  <2> HIDE DEF ahead
  <2>2. IsFiniteSet((1 .. N) \ {k}) /\ Cardinality((1 .. N) \ {k}) = N - 1
    BY <1>3, FS_RemoveElement
  <2>3. IsFiniteSet(ahead(k)) /\ Cardinality(ahead(k)) <= N - 1
    BY <2>1, <2>2, FS_Subset
  <2>4. Cardinality(ahead(k)) \in Nat
    BY <2>3, FS_CardinalityType
  <2> QED
    BY <1>1, <2>3, <2>4
<1>5. ASSUME NEW j \in 1 .. N, NEW k \in 1 .. N, before(j, k) PROVE place(j) < place(k)
  <2>1. ahead(j) \cup {j} \subseteq ahead(k) /\ j \notin ahead(j)
    BY <1>1, <1>5
  <2>2. /\ IsFiniteSet(ahead(j)) /\ Cardinality(ahead(j)) \in Nat
        /\ IsFiniteSet(ahead(k)) /\ Cardinality(ahead(k)) \in Nat
    BY <1>4
  <2> HIDE DEF ahead
  <2>3. Cardinality(ahead(j) \cup {j}) = Cardinality(ahead(j)) + 1
    BY <2>1, <2>2, FS_AddElement
  <2>4. Cardinality(ahead(j) \cup {j}) <= Cardinality(ahead(k))
    BY <2>1, <2>2, FS_Subset
  <2> QED
    BY <2>2, <2>3, <2>4
<1>6. ASSUME NEW j \in 1 .. N, NEW k \in 1 .. N, j # k PROVE place(j) # place(k)
  <2>1. before(j, k) \/ before(k, j)
    BY <1>1, <1>6
  <2>2. place(j) \in Nat /\ place(k) \in Nat
    <3>1. place(j) \in 1 .. N /\ place(k) \in 1 .. N
      BY <1>4
    <3> HIDE DEF place
    <3> QED
      BY <3>1
  <2> HIDE DEF before, place
  <2> QED
    BY <1>5, <2>1, <2>2
<1> HIDE DEF place
<1>7. ASSUME NEW p \in 1 .. N PROVE at(p) \in 1 .. N /\ place(at(p)) = p
  <2>1. \E k \in 1 .. N : place(k) = p
    <3>1. SUFFICES ASSUME \A k \in 1 .. N : place(k) # p PROVE FALSE
      OBVIOUS
    <3> DEFINE f == [k \in 1 .. N |-> place(k)]
    <3>2. f \in [1 .. N -> (1 .. N) \ {p}]
      BY <1>4, <3>1
    <3>3. IsFiniteSet((1 .. N) \ {p}) /\ Cardinality((1 .. N) \ {p}) < Cardinality(1 .. N)
      <4>1. /\ IsFiniteSet((1 .. N) \ {p})
            /\ Cardinality((1 .. N) \ {p}) = Cardinality(1 .. N) - 1
        BY <1>3, FS_RemoveElement
      <4> QED
        BY <1>1, <1>3, <4>1
    <3>4. \E j, k \in 1 .. N : j # k /\ f[j] = f[k]
      <4> HIDE DEF f
      <4> QED
        BY <1>3, <3>2, <3>3, FS_PigeonHole
    <3> QED
      BY <1>6, <3>4
  <2> QED
    BY <1>1, <2>1
<1>8. \A k \in 1 .. N : place(k) \in 1 .. N /\ at(place(k)) = k
  <2> TAKE k \in 1 .. N
  <2>1. place(k) \in 1 .. N /\ at(place(k)) \in 1 .. N /\ place(at(place(k))) = place(k)
    BY <1>4, <1>7
  <2> HIDE DEF at
  <2> QED
    BY <1>6, <2>1
<1> HIDE DEF at
<1>9. Sorted(s) \in Seq(Samples) /\ Len(Sorted(s)) = N
  <2>1. Sorted(s) \in [1 .. N -> Samples]
    BY <1>1, <1>2, <1>7
  <2> QED
    BY <1>1, <2>1
<1>10. Range(Sorted(s)) = {Sorted(s)[p] : p \in 1 .. N} /\ Range(s) = {s[k] : k \in 1 .. N}
  BY <1>9, RangeEquality DEF N
<1>11. \A p \in 1 .. N : Sorted(s)[p] = s[at(p)]
  BY <1>2
<1>12. Range(Sorted(s)) = Range(s)
  <2> DEFINE q == Sorted(s)
  <2> HIDE DEF before, ahead, place, q, N
  <2>1. \A p \in 1 .. N : \E k \in 1 .. N : q[p] = s[k]
    BY <1>7, <1>11 DEF q
  <2>2. \A k \in 1 .. N : \E p \in 1 .. N : q[p] = s[k]
    <3> TAKE k \in 1 .. N
    <3>1. place(k) \in 1 .. N /\ q[place(k)] = s[at(place(k))] /\ at(place(k)) = k
      BY <1>8, <1>11 DEF q
    <3> QED
      BY <3>1
  <2>3. Range(q) = {q[p] : p \in 1 .. N} /\ Range(s) = {s[k] : k \in 1 .. N}
    BY <1>10 DEF q
  <2>4. Range(q) \subseteq Range(s) /\ Range(s) \subseteq Range(q)
    BY <2>1, <2>2, <2>3
  <2> QED
    BY <2>4 DEF q
<1> QED
  BY <1>9, <1>12 DEF N

-----------------------------------------------------------------------------
(* The micro batches of one run: none longer than the sequence, none that   *)
(* mixes forms.  A layout lists those of images and those of texts apart.   *)
BinsOf(r, forms) ==
    {b \in MicroBatches :
        /\ b.run = r /\ b.form \in forms /\ Total(b.samples) <= SeqLen
        /\ \A x \in Range(b.samples) : x.run = r /\ x.form = b.form}

Texts == {"rl", "sft"}
Layouts(r) == [image : Seq(BinsOf(r, {"image"})), text : Seq(BinsOf(r, Texts))]

Content(bs) == UNION {Range(b.samples) : b \in Range(bs)}

LEMMA RangeOfAppend ==
  ASSUME NEW S, NEW s \in Seq(S), NEW e \in S
  PROVE  Range(Append(s, e)) = Range(s) \cup {e}
<1> DEFINE t == Append(s, e)
<1>1. /\ Len(s) \in Nat /\ t \in Seq(S) /\ Len(t) = Len(s) + 1
      /\ \A i \in 1 .. Len(s) : t[i] = s[i]
      /\ t[Len(s) + 1] = e
  BY LenProperties, AppendProperties
<1> HIDE DEF t
<1>2. Range(t) = {t[i] : i \in 1 .. Len(t)} /\ Range(s) = {s[i] : i \in 1 .. Len(s)}
  BY <1>1, RangeEquality
<1>3. 1 .. Len(t) = (1 .. Len(s)) \cup {Len(s) + 1}
  BY <1>1
<1>4. Range(t) = Range(s) \cup {e}
  BY <1>1, <1>2, <1>3
<1> QED
  BY <1>4 DEF t

LEMMA AloneOK ==
  ASSUME NEW x \in Samples, NEW forms, x.form \in forms
  PROVE  Alone(x) \in BinsOf(x.run, forms) /\ Range(Alone(x).samples) = {x}
<1>1. x.run \in Runs /\ x.form \in Forms /\ x.size \in Nat /\ x.size <= SeqLen
  BY PackerAssumption DEF Samples
<1>2. <<x>> \in Seq(Samples) /\ Range(<<x>>) = {x} /\ Total(<<x>>) = x.size
  BY TotalOfFew DEF Range
<1>3. /\ Alone(x) \in MicroBatches /\ Alone(x).run = x.run /\ Alone(x).form = x.form
      /\ Alone(x).samples = <<x>>
  BY <1>1, <1>2 DEF Alone, MicroBatches
<1> QED
  BY <1>1, <1>2, <1>3 DEF BinsOf

LEMMA ContentOfAppend ==
  ASSUME NEW B, NEW bs \in Seq(B), NEW b \in B
  PROVE  Content(Append(bs, b)) = Content(bs) \cup Range(b.samples)
<1>1. Range(Append(bs, b)) = Range(bs) \cup {b}
  BY RangeOfAppend
<1> QED
  BY <1>1 DEF Content

(* A text is added to the first micro batch it fits into, or has its own.   *)
LEMMA FilledOK ==
  ASSUME NEW x \in Samples, x.form \in Texts, NEW bs \in Seq(BinsOf(x.run, Texts))
  PROVE  /\ Filled(bs, x) \in Seq(BinsOf(x.run, Texts))
         /\ Content(Filled(bs, x)) = Content(bs) \cup {x}
<1> DEFINE B == BinsOf(x.run, Texts)
           k == Min(Bins(bs, x))
           b == bs[k]
           c == [b EXCEPT !.samples = Append(b.samples, x)]
           cs == Filled(bs, x)
<1>1. CASE Bins(bs, x) = {}
  <2>1. Alone(x) \in B /\ Range(Alone(x).samples) = {x} /\ cs = Append(bs, Alone(x))
    BY <1>1, AloneOK DEF Filled
  <2> QED
    BY <2>1, AppendProperties, ContentOfAppend
<1>2. CASE Bins(bs, x) # {}
  <2>1. Len(bs) \in Nat /\ DOMAIN bs = 1 .. Len(bs) /\ bs \in [1 .. Len(bs) -> B]
    BY LenProperties
  <2>2. k \in Bins(bs, x)
    <3>1. Bins(bs, x) \subseteq Nat
      BY <2>1 DEF Bins
    <3> QED
      BY <1>2, <3>1, MinOfNats
  <2> HIDE DEF k
  <2>3. cs = [bs EXCEPT ![k] = c]
    BY <1>2 DEF Filled, k
  <2>4. k \in 1 .. Len(bs) /\ b.form = x.form /\ Total(b.samples) + x.size <= SeqLen /\ b \in B
    BY <2>1, <2>2 DEF Bins
  <2> HIDE DEF b
  <2>5. /\ b \in MicroBatches /\ b.run = x.run /\ b.samples \in Seq(Samples)
        /\ \A z \in Range(b.samples) : z.run = x.run /\ z.form = b.form
    BY <2>4 DEF BinsOf, MicroBatches
  <2>6. /\ Append(b.samples, x) \in Seq(Samples)
        /\ Total(Append(b.samples, x)) = Total(b.samples) + x.size
        /\ Range(Append(b.samples, x)) = Range(b.samples) \cup {x}
    BY <2>5, TotalOfAppend, AppendProperties, RangeOfAppend
  <2>7. c \in MicroBatches /\ c.run = b.run /\ c.form = b.form /\ c.samples = Append(b.samples, x)
    BY <2>5, <2>6 DEF MicroBatches
  <2> HIDE DEF c
  <2>8. c \in B
    BY <2>4, <2>5, <2>6, <2>7 DEF BinsOf
  <2> HIDE DEF B
  <2>9. cs \in [1 .. Len(bs) -> B] /\ \A j \in 1 .. Len(bs) : cs[j] = IF j = k THEN c ELSE bs[j]
    BY <2>1, <2>3, <2>4, <2>8
  <2> HIDE DEF cs
  <2>10. cs \in Seq(B) /\ DOMAIN cs = 1 .. Len(bs)
    BY <2>1, <2>9
  <2>11. Range(c.samples) = Range(bs[k].samples) \cup {x}
    BY <2>6, <2>7 DEF b
  <2>12. Content(cs) = Content(bs) \cup {x}
    <3>1. \A y : y \in Content(cs) <=> \E j \in 1 .. Len(bs) : y \in Range(cs[j].samples)
      BY <2>10 DEF Content, Range
    <3>2. \A y : y \in Content(bs) <=> \E j \in 1 .. Len(bs) : y \in Range(bs[j].samples)
      BY <2>1 DEF Content, Range
    <3>3. \A y : y \in Content(cs) <=> y \in Content(bs) \/ y = x
      BY <2>4, <2>9, <2>11, <3>1, <3>2
    <3> QED
      BY <3>3
  <2> QED
    BY <2>10, <2>12 DEF B, cs
<1> QED
  BY <1>1, <1>2

LEMMA PlacedOK ==
  ASSUME NEW x \in Samples, NEW bins \in Layouts(x.run)
  PROVE  /\ Placed(bins, x) \in Layouts(x.run)
         /\ Content(Placed(bins, x).image) \cup Content(Placed(bins, x).text)
              = Content(bins.image) \cup Content(bins.text) \cup {x}
<1> DEFINE r == x.run
           p == Placed(bins, x)
<1>1. /\ bins.image \in Seq(BinsOf(r, {"image"})) /\ bins.text \in Seq(BinsOf(r, Texts))
      /\ \A t \in Seq(BinsOf(r, Texts)) :
           /\ [bins EXCEPT !.text = t] \in Layouts(r)
           /\ [bins EXCEPT !.text = t].image = bins.image /\ [bins EXCEPT !.text = t].text = t
      /\ \A t \in Seq(BinsOf(r, {"image"})) :
           /\ [bins EXCEPT !.image = t] \in Layouts(r)
           /\ [bins EXCEPT !.image = t].text = bins.text /\ [bins EXCEPT !.image = t].image = t
  BY DEF Layouts
<1>2. CASE x.form = "image"
  <2>1. Alone(x) \in BinsOf(r, {"image"}) /\ Range(Alone(x).samples) = {x}
    BY <1>2, AloneOK
  <2>2. /\ Append(bins.image, Alone(x)) \in Seq(BinsOf(r, {"image"}))
        /\ Content(Append(bins.image, Alone(x))) = Content(bins.image) \cup {x}
    BY <1>1, <2>1, AppendProperties, ContentOfAppend
  <2>3. p = [bins EXCEPT !.image = Append(bins.image, Alone(x))]
    BY <1>2 DEF Placed
  <2> QED
    BY <1>1, <2>2, <2>3
<1>3. CASE x.form # "image"
  <2>1. x.form \in Texts
    BY <1>3 DEF Samples, Forms, Texts
  <2>2. p = [bins EXCEPT !.text = Filled(bins.text, x)]
    BY <1>3 DEF Placed
  <2>3. /\ Filled(bins.text, x) \in Seq(BinsOf(r, Texts))
        /\ Content(Filled(bins.text, x)) = Content(bins.text) \cup {x}
    BY <1>1, <2>1, FilledOK
  <2> QED
    BY <1>1, <2>2, <2>3
<1> QED
  BY <1>2, <1>3

(* First fit keeps every sample and makes micro batches of its run only.    *)
LEMMA FirstFitOK ==
  ASSUME NEW s \in Seq(Samples), NEW r, \A x \in Range(s) : x.run = r
  PROVE  /\ FirstFit[s] \in Layouts(r)
         /\ Content(FirstFit[s].image) \cup Content(FirstFit[s].text) = Range(s)
<1> DEFINE N == Len(s)
           o == Sorted(s)
           none == [image |-> << >>, text |-> << >>]
           bins == CHOOSE f : f = [n \in 0 .. N |-> IF n = 0 THEN none ELSE Placed(f[n - 1], o[n])]
           step == [n \in 1 .. N |-> [b \in Layouts(r) |-> Placed(b, o[n])]]
           All(b) == Content(b.image) \cup Content(b.text)
<1>1. FirstFit[s] = bins[N]
  BY DEF FirstFit
<1>2. N \in Nat /\ o \in Seq(Samples) /\ Len(o) = N /\ Range(o) = Range(s)
  BY LenProperties, SortedRange
<1> HIDE DEF N, o
<1>3. /\ Range(o) = {o[n] : n \in 1 .. N}
      /\ \A n \in 1 .. N : o[n] \in Samples /\ o[n].run = r
  <2>1. Range(o) = {o[n] : n \in 1 .. N} /\ \A n \in 1 .. N : o[n] \in Samples
    BY <1>2, RangeEquality, ElementOfSeq
  <2> QED
    BY <1>2, <2>1
<1>4. none \in Layouts(r) /\ All(none) = {}
  <2>1. << >> \in Seq(BinsOf(r, {"image"})) /\ << >> \in Seq(BinsOf(r, Texts))
    BY EmptySeq
  <2>2. Range(<< >>) = {}
    BY DEF Range
  <2> QED
    BY <2>1, <2>2 DEF Layouts, Content
<1>5. \A n \in 1 .. N, b \in Layouts(r) :
        Placed(b, o[n]) \in Layouts(r) /\ All(Placed(b, o[n])) = All(b) \cup {o[n]}
  <2> TAKE n \in 1 .. N, b \in Layouts(r)
  <2>1. o[n] \in Samples /\ b \in Layouts(o[n].run)
    BY <1>3
  <2> QED
    BY <1>3, <2>1, PlacedOK
<1> HIDE DEF none, All
<1>6. step \in Steps(N, Layouts(r))
  BY <1>5 DEF Steps
<1>7. PICK g : Iterates(g, N, Layouts(r), none, step)
  <2> HIDE DEF step
  <2> QED
    BY <1>2, <1>4, <1>6, Recursion
<1>8. \A n \in 1 .. N : g[n] = Placed(g[n - 1], o[n])
  <2> TAKE n \in 1 .. N
  <2>1. g[n - 1] \in Layouts(r)
    BY <1>2, <1>7 DEF Iterates
  <2> QED
    BY <1>7, <2>1 DEF Iterates
<1> HIDE DEF step
<1>9. g = [n \in 0 .. N |-> IF n = 0 THEN none ELSE Placed(g[n - 1], o[n])]
  BY <1>2, <1>7, <1>8 DEF Iterates
<1>10. bins = [n \in 0 .. N |-> IF n = 0 THEN none ELSE Placed(bins[n - 1], o[n])]
  BY <1>9
<1> HIDE DEF bins
<1>11. bins[0] = none /\ \A n \in 1 .. N : bins[n] = Placed(bins[n - 1], o[n])
  BY <1>2, <1>10
<1> DEFINE T == {n \in 0 .. N : /\ bins[n] \in Layouts(r)
                               /\ All(bins[n]) = {o[k] : k \in 1 .. n}}
<1>12. 0 \in T
  BY <1>2, <1>4, <1>11
<1>13. ASSUME NEW k \in 1 .. N, k - 1 \in T PROVE k \in T
  <2>1. /\ k \in 0 .. N /\ bins[k - 1] \in Layouts(r)
        /\ All(bins[k - 1]) = {o[j] : j \in 1 .. k - 1}
    BY <1>13
  <2>2. bins[k] = Placed(bins[k - 1], o[k])
    BY <1>11
  <2>3. bins[k] \in Layouts(r) /\ All(bins[k]) = All(bins[k - 1]) \cup {o[k]}
    BY <1>5, <2>1, <2>2
  <2>4. 1 .. k = (1 .. k - 1) \cup {k}
    BY <1>2
  <2>5. {o[j] : j \in 1 .. k} = {o[j] : j \in 1 .. k - 1} \cup {o[k]}
    BY <2>4
  <2> QED
    BY <2>1, <2>3, <2>5
<1>14. N \in T
  <2> HIDE DEF T
  <2>1. 0 .. N \subseteq T
    BY <1>2, <1>12, <1>13, Induction
  <2> QED
    BY <1>2, <2>1
<1> QED
  BY <1>1, <1>2, <1>3, <1>14 DEF All

(* Padding makes whole rows and adds no sample.                             *)
LEMMA PadGroupOK ==
  ASSUME NEW B, NEW bs \in Seq(B),
         \A b \in B : [b EXCEPT !.samples = << >>] \in B /\ [b EXCEPT !.samples = << >>].samples = << >>
  PROVE  /\ PadGroup(bs) \in Seq(B) /\ Content(PadGroup(bs)) = Content(bs)
         /\ \E q \in Nat : Len(PadGroup(bs)) = q * DpSize
<1>1. CASE bs = << >>
  <2>1. PadGroup(bs) = bs /\ Len(bs) = 0 * DpSize
    BY <1>1, EmptySeq, PackerAssumption DEF PadGroup
  <2> QED
    BY <2>1
<1>2. CASE bs # << >>
  <2> DEFINE L == Len(bs)
             P == (DpSize - 1) - ((L - 1) % DpSize)
             q == ((L - 1) \div DpSize) + 1
             dummy == [bs[1] EXCEPT !.samples = << >>]
             pad == [k \in 1 .. P |-> dummy]
  <2>1. L \in Nat \ {0} /\ DOMAIN bs = 1 .. L
    BY <1>2, EmptySeq, LenProperties
  <2>2. bs[1] \in B
    BY <2>1, ElementOfSeq
  <2>3. PadGroup(bs) = bs \o pad
    BY <1>2 DEF PadGroup
  <2> HIDE DEF L
  <2>4. P \in Nat /\ q \in Nat /\ L + P = q * DpSize
    <3>1. L - 1 \in Nat /\ DpSize \in Nat \ {0}
      BY <2>1, PackerAssumption
    <3> DEFINE e == (L - 1) \div DpSize
               f == (L - 1) % DpSize
    <3>2. L - 1 = DpSize * e + f /\ f \in 0 .. DpSize - 1 /\ e \in Nat
      BY <3>1
    <3>3. P = (DpSize - 1) - f /\ q = e + 1
      OBVIOUS
    <3> HIDE DEF e, f, P, q
    <3>4. DpSize * e + f + 1 + ((DpSize - 1) - f) = (e + 1) * DpSize
      BY <3>1, <3>2
    <3>5. L = DpSize * e + f + 1
      <4> DEFINE m == DpSize * e
      <4>1. m \in Int /\ L - 1 = m + f
        BY <3>1, <3>2
      <4> HIDE DEF m
      <4>2. L = m + f + 1
        BY <2>1, <3>2, <4>1
      <4> QED
        BY <4>2 DEF m
    <3>6. P \in Nat /\ q \in Nat
      BY <3>1, <3>2, <3>3
    <3>7. L + P = (e + 1) * DpSize
      BY <3>3, <3>4, <3>5
    <3> QED
      BY <3>3, <3>6, <3>7
  <2>5. dummy \in B /\ dummy.samples = << >>
    BY <2>2
  <2> HIDE DEF P, q, dummy
  <2>6. pad \in Seq(B) /\ Len(pad) = P /\ DOMAIN pad = 1 .. P /\ \A k \in 1 .. P : pad[k] = dummy
    <3>1. pad \in [1 .. P -> B]
      BY <2>5
    <3> QED
      BY <2>4, <3>1
  <2> HIDE DEF pad
  <2> DEFINE t == bs \o pad
  <2>7. /\ t \in Seq(B) /\ Len(t) = L + P /\ DOMAIN t = 1 .. L + P
        /\ \A k \in 1 .. L : t[k] = bs[k]
        /\ \A k \in 1 .. L + P : k > L => t[k] = dummy
    <3>1. /\ t \in Seq(B) /\ Len(t) = L + P
          /\ \A k \in 1 .. L + P : t[k] = IF k <= L THEN bs[k] ELSE pad[k - L]
      BY <2>6, ConcatProperties DEF L
    <3> HIDE DEF t
    <3>2. DOMAIN t = 1 .. L + P
      BY <3>1, LenProperties
    <3>3. \A k \in 1 .. L + P : k > L => k - L \in 1 .. P /\ ~(k <= L)
      BY <2>1, <2>4
    <3>4. \A k \in 1 .. L : k \in 1 .. L + P /\ k <= L
      BY <2>1, <2>4
    <3> QED
      BY <2>6, <3>1, <3>2, <3>3, <3>4
  <2> HIDE DEF t
  <2>8. Content(t) = Content(bs)
    <3>1. \A y : y \in Content(t) <=> \E j \in 1 .. L + P : y \in Range(t[j].samples)
      BY <2>7 DEF Content, Range
    <3>2. \A y : y \in Content(bs) <=> \E j \in 1 .. L : y \in Range(bs[j].samples)
      BY <2>1 DEF Content, Range
    <3>3. \A y : y \notin Range(dummy.samples)
      BY <2>5 DEF Range
    <3>4. \A j \in 1 .. L + P : j \in 1 .. L \/ j > L
      BY <2>1, <2>4
    <3>5. \A j \in 1 .. L : j \in 1 .. L + P
      BY <2>1, <2>4
    <3>6. \A y : y \in Content(t) <=> y \in Content(bs)
      BY <2>7, <3>1, <3>2, <3>3, <3>4, <3>5
    <3> QED
      BY <3>6
  <2> QED
    BY <2>3, <2>4, <2>7, <2>8 DEF t
<1> QED
  BY <1>1, <1>2

(* Whole rows are dealt out, and nothing is left over.                      *)
DealsOut(rows, bs, q) ==
    /\ DOMAIN rows = 1 .. q
    /\ \A k \in 1 .. q :
         /\ Len(rows[k]) = DpSize
         /\ \A w \in Ranks : /\ (k - 1) * DpSize + w \in 1 .. Len(bs)
                             /\ rows[k][w] = bs[(k - 1) * DpSize + w]
    /\ \A j \in 1 .. Len(bs) : \E k \in 1 .. q, w \in Ranks : j = (k - 1) * DpSize + w

LEMMA DealtOK ==
  ASSUME NEW B, NEW bs \in Seq(B), NEW q \in Nat, Len(bs) = q * DpSize
  PROVE  Dealt(bs) \in Seq(Seq(B)) /\ DealsOut(Dealt(bs), bs, q)
<1>1. DpSize \in Nat \ {0} /\ q * DpSize \in Nat /\ (q * DpSize) \div DpSize = q
  BY PackerAssumption
<1>2. Dealt(bs) = [k \in 1 .. q |-> SubSeq(bs, (k - 1) * DpSize + 1, k * DpSize)]
  BY <1>1 DEF Dealt
<1>3. ASSUME NEW k \in 1 .. q
      PROVE  /\ \A w \in Ranks : (k - 1) * DpSize + w \in 1 .. q * DpSize
             /\ (k - 1) * DpSize \in Nat /\ k * DpSize \in Nat
             /\ k * DpSize - ((k - 1) * DpSize + 1) + 1 = DpSize
             /\ (k - 1) * DpSize + 1 <= k * DpSize
  <2>1. \A a, d \in Nat : (a - 1) * d = a * d - d
    OBVIOUS
  <2>2. \A a, b, d \in Nat : a <= b => a * d <= b * d
    OBVIOUS
  <2>3. k * DpSize \in Nat /\ k * DpSize <= q * DpSize /\ (k - 1) * DpSize = k * DpSize - DpSize
    BY <1>1, <2>1, <2>2
  <2>4. (k - 1) * DpSize \in Nat
    BY <1>1
  <2> QED
    BY <1>1, <2>3, <2>4 DEF Ranks
<1>4. ASSUME NEW k \in 1 .. q
      PROVE  /\ Dealt(bs)[k] \in Seq(B) /\ Len(Dealt(bs)[k]) = DpSize
             /\ \A w \in Ranks : Dealt(bs)[k][w] = bs[(k - 1) * DpSize + w]
  <2> DEFINE m == (k - 1) * DpSize
             a == m + 1
             z == k * DpSize
  <2>1. a \in Int /\ z \in Int /\ z - a + 1 = DpSize /\ a <= z /\ a - 1 = m
    <3>1. m \in Nat /\ z \in Nat /\ z - (m + 1) + 1 = DpSize /\ m + 1 <= z
      BY <1>3
    <3> HIDE DEF m, z
    <3> QED
      BY <3>1
  <2>2. \A i \in a .. z : bs[i] \in B
    <3>1. a \in Nat /\ 1 <= a /\ z <= Len(bs)
      <4>1. a \in 1 .. q * DpSize /\ (k - 1) * DpSize + DpSize \in 1 .. q * DpSize
        BY <1>1, <1>3 DEF Ranks
      <4> QED
        BY <1>1, <2>1, <4>1
    <3> HIDE DEF a, z
    <3>2. \A i \in a .. z : i \in 1 .. Len(bs)
      BY <1>1, <2>1, <3>1
    <3> QED
      BY <3>2, ElementOfSeq
  <2> HIDE DEF a, z
  <2>3. /\ SubSeq(bs, a, z) \in Seq(B) /\ Len(SubSeq(bs, a, z)) = DpSize
        /\ \A w \in 1 .. DpSize : SubSeq(bs, a, z)[w] = bs[a + w - 1]
    <3>1. /\ SubSeq(bs, a, z) \in Seq(B)
          /\ Len(SubSeq(bs, a, z)) = IF a <= z THEN z - a + 1 ELSE 0
          /\ \A w \in 1 .. z - a + 1 : SubSeq(bs, a, z)[w] = bs[a + w - 1]
      BY <2>1, <2>2, SubSeqProperties
    <3> QED
      BY <2>1, <3>1
  <2>4. Dealt(bs)[k] = SubSeq(bs, a, z)
    BY <1>2 DEF a, z
  <2>5. \A w \in Ranks : a + w - 1 = (k - 1) * DpSize + w
    BY <1>1, <2>1 DEF Ranks
  <2> QED
    BY <2>3, <2>4, <2>5 DEF Ranks
<1>5. Dealt(bs) \in Seq(Seq(B)) /\ DOMAIN Dealt(bs) = 1 .. q
  <2>1. Dealt(bs) \in [1 .. q -> Seq(B)]
    BY <1>2, <1>4
  <2> QED
    BY <2>1
<1>6. ASSUME NEW j \in 1 .. q * DpSize
      PROVE  \E k \in 1 .. q, w \in Ranks : j = (k - 1) * DpSize + w
  <2> DEFINE e == (j - 1) \div DpSize
             f == (j - 1) % DpSize
  <2>1. j - 1 \in Nat /\ j - 1 < q * DpSize
    BY <1>1
  <2>2. j - 1 = DpSize * e + f /\ f \in 0 .. DpSize - 1 /\ e \in Nat
    BY <1>1, <2>1
  <2> HIDE DEF e, f
  <2>3. e < q
    <3>1. SUFFICES ASSUME q <= e PROVE FALSE
      BY <2>2
    <3>2. \A a, b, d \in Nat : a <= b => a * d <= d * b
      OBVIOUS
    <3>3. q * DpSize <= DpSize * e
      BY <1>1, <2>2, <3>1, <3>2
    <3>4. DpSize * e \in Nat
      BY <1>1, <2>2
    <3> QED
      BY <1>1, <2>1, <2>2, <3>3, <3>4
  <2>4. e + 1 \in 1 .. q /\ f + 1 \in Ranks
    BY <1>1, <2>2, <2>3 DEF Ranks
  <2>5. j = ((e + 1) - 1) * DpSize + (f + 1)
    <3>1. \A a, d, b, c \in Int : a - 1 = d * b + c => a = ((b + 1) - 1) * d + (c + 1)
      OBVIOUS
    <3> QED
      BY <1>1, <2>2, <3>1
  <2> QED
    BY <2>4, <2>5
<1> QED
  BY <1>3, <1>4, <1>5, <1>6 DEF DealsOut

(* A row is what the ranks do at the same micro step: of one run and of one *)
(* modality.                                                                *)
Rows ==
    {row \in Seq(MicroBatches) :
        /\ Len(row) = DpSize
        /\ \A w \in Ranks :
             /\ row[w].run = row[1].run
             /\ (row[w].form = "image") <=> (row[1].form = "image")
             /\ Total(row[w].samples) <= SeqLen
             /\ \A x \in Range(row[w].samples) : x.run = row[w].run /\ x.form = row[w].form}

LEMMA BinsOfPad ==
  ASSUME NEW r, NEW forms, NEW b \in BinsOf(r, forms)
  PROVE  /\ [b EXCEPT !.samples = << >>] \in BinsOf(r, forms)
         /\ [b EXCEPT !.samples = << >>].samples = << >>
<1> DEFINE c == [b EXCEPT !.samples = << >>]
<1>1. << >> \in Seq(Samples) /\ Range(<< >>) = {} /\ Total(<< >>) <= SeqLen
  BY EmptySeq, TotalOfFew, PackerAssumption DEF Range
<1>2. b \in MicroBatches /\ b.run = r /\ b.form \in forms
  BY DEF BinsOf
<1>3. c \in MicroBatches /\ c.run = b.run /\ c.form = b.form /\ c.samples = << >>
  BY <1>1, <1>2 DEF MicroBatches
<1> HIDE DEF c
<1>4. c \in BinsOf(r, forms)
  BY <1>1, <1>2, <1>3 DEF BinsOf
<1> QED
  BY <1>3, <1>4 DEF c

(* prepare_batch: aligned rows with the samples of the run and no others.   *)
LEMMA PreparedOK ==
  ASSUME NEW s \in Seq(Samples), NEW r, \A x \in Range(s) : x.run = r
  PROVE  /\ Prepared(s) \in Seq(Rows)
         /\ \A x : x \in Range(s) <=>
              \E k \in DOMAIN Prepared(s), w \in Ranks : x \in Range(Prepared(s)[k][w].samples)
<1> DEFINE I == BinsOf(r, {"image"})
           T == BinsOf(r, Texts)
           B == BinsOf(r, Forms)
           img == PadGroup(FirstFit[s].image)
           txt == PadGroup(FirstFit[s].text)
           o == img \o txt
           p == Prepared(s)
<1>1. /\ FirstFit[s].image \in Seq(I) /\ FirstFit[s].text \in Seq(T)
      /\ Content(FirstFit[s].image) \cup Content(FirstFit[s].text) = Range(s)
  BY FirstFitOK DEF Layouts
<1>2. I \subseteq B /\ T \subseteq B
  BY DEF BinsOf, Texts, Forms
<1>3. /\ \A b \in I : /\ [b EXCEPT !.samples = << >>] \in I
                      /\ [b EXCEPT !.samples = << >>].samples = << >>
      /\ \A b \in T : /\ [b EXCEPT !.samples = << >>] \in T
                      /\ [b EXCEPT !.samples = << >>].samples = << >>
  BY BinsOfPad
<1>4. /\ \A b \in B : /\ b \in MicroBatches /\ b.run = r /\ Total(b.samples) <= SeqLen
                      /\ \A x \in Range(b.samples) : x.run = b.run /\ x.form = b.form
      /\ \A b \in I : b.form = "image"
      /\ \A b \in T : b.form # "image"
  BY DEF BinsOf, Texts
<1> HIDE DEF I, T, B
<1>5. img \in Seq(I) /\ Content(img) = Content(FirstFit[s].image)
  BY <1>1, <1>3, PadGroupOK
<1>6. txt \in Seq(T) /\ Content(txt) = Content(FirstFit[s].text)
  BY <1>1, <1>3, PadGroupOK
<1>7. PICK qi \in Nat : Len(img) = qi * DpSize
  BY <1>1, <1>3, PadGroupOK
<1>8. PICK qt \in Nat : Len(txt) = qt * DpSize
  BY <1>1, <1>3, PadGroupOK
<1>9. p = Dealt(o)
  BY DEF Prepared
<1> HIDE DEF img, txt, p
<1>10. img \in Seq(B) /\ txt \in Seq(B) /\ Len(img) \in Nat /\ Len(txt) \in Nat
  BY <1>2, <1>5, <1>6, SeqMonotonic, LenProperties
<1>11. /\ o \in Seq(B) /\ Len(o) = Len(img) + Len(txt)
       /\ \A j \in 1 .. Len(o) : o[j] = IF j <= Len(img) THEN img[j] ELSE txt[j - Len(img)]
  BY <1>10, ConcatProperties
<1>12. Content(o) = Range(s)
  <2>1. Range(o) = Range(img) \cup Range(txt)
    BY <1>10, RangeConcatenation
  <2>2. Content(o) = Content(img) \cup Content(txt)
    BY <2>1 DEF Content
  <2> QED
    BY <1>1, <1>5, <1>6, <2>2
<1> HIDE DEF o
<1>13. \A j \in 1 .. Len(o) : o[j] \in B /\ (o[j].form = "image" <=> j <= Len(img))
  <2> TAKE j \in 1 .. Len(o)
  <2>1. o[j] \in B
    BY <1>11, ElementOfSeq
  <2>2. CASE j <= Len(img)
    <3>1. j \in 1 .. Len(img)
      BY <1>10, <2>2
    <3>2. o[j] \in I
      BY <1>5, <1>11, <2>2, <3>1, ElementOfSeq
    <3> QED
      BY <1>4, <2>1, <2>2, <3>2
  <2>3. CASE ~(j <= Len(img))
    <3>1. j - Len(img) \in 1 .. Len(txt)
      BY <1>10, <1>11, <2>3
    <3>2. o[j] \in T
      BY <1>6, <1>11, <2>3, <3>1, ElementOfSeq
    <3> QED
      BY <1>4, <2>1, <2>3, <3>2
  <2> QED
    BY <2>2, <2>3
<1> DEFINE q == qi + qt
<1>14. q \in Nat /\ Len(o) = q * DpSize
  <2>1. \A a, b, d \in Nat : a * d + b * d = (a + b) * d
    OBVIOUS
  <2> QED
    BY <1>7, <1>8, <1>11, <2>1, PackerAssumption
<1> HIDE DEF q
<1>15. p \in Seq(Seq(B)) /\ DealsOut(p, o, q)
  BY <1>9, <1>11, <1>14, DealtOK
<1>16. ASSUME NEW k \in 1 .. q, NEW w \in Ranks
       PROVE  (k - 1) * DpSize + w <= Len(img) <=> k <= qi
  <2>1. DpSize \in Nat \ {0} /\ w \in Nat /\ 1 <= w /\ w <= DpSize /\ k \in Nat /\ 1 <= k
    BY <1>14, PackerAssumption DEF Ranks
  <2>2. \A a, b, d \in Nat : a <= b => a * d <= b * d
    OBVIOUS
  <2>3. \A a, d \in Nat : (a - 1) * d = a * d - d /\ (a + 1) * d = a * d + d /\ a * d \in Nat
    OBVIOUS
  <2>4. k <= qi => k * DpSize <= qi * DpSize
    BY <2>1, <2>2
  <2>5. qi + 1 <= k => (qi + 1) * DpSize <= k * DpSize
    BY <2>1, <2>2
  <2>6. /\ (k - 1) * DpSize = k * DpSize - DpSize /\ (qi + 1) * DpSize = qi * DpSize + DpSize
        /\ k * DpSize \in Nat /\ qi * DpSize \in Nat
    BY <2>1, <2>3
  <2>7. k <= qi \/ qi + 1 <= k
    BY <2>1
  <2> QED
    BY <1>7, <2>1, <2>4, <2>5, <2>6, <2>7
<1>17. \A k \in 1 .. q : p[k] \in Rows
  <2> TAKE k \in 1 .. q
  <2>1. p[k] \in Seq(MicroBatches) /\ Len(p[k]) = DpSize
    <3>1. p[k] \in Seq(B)
      BY <1>14, <1>15 DEF DealsOut
    <3> QED
      BY <1>4, <1>15, <3>1, SeqMonotonic DEF DealsOut
  <2>2. \A w \in Ranks : p[k][w] \in B /\ (p[k][w].form = "image" <=> k <= qi)
    <3> TAKE w \in Ranks
    <3> DEFINE j == (k - 1) * DpSize + w
    <3>1. j \in 1 .. Len(o) /\ p[k][w] = o[j] /\ (j <= Len(img) <=> k <= qi)
      BY <1>15, <1>16 DEF DealsOut
    <3> HIDE DEF j
    <3> QED
      BY <1>13, <3>1
  <2>3. 1 \in Ranks
    BY PackerAssumption DEF Ranks
  <2> QED
    BY <1>4, <2>1, <2>2, <2>3 DEF Rows
<1>18. p \in Seq(Rows)
  <2>1. p \in [1 .. q -> Rows]
    BY <1>15, <1>17, LenProperties DEF DealsOut
  <2> QED
    BY <1>14, <2>1
<1>19. ASSUME NEW x
       PROVE  x \in Range(s) <=> \E k \in 1 .. q, w \in Ranks : x \in Range(p[k][w].samples)
  <2>1. x \in Range(s) <=> \E j \in 1 .. Len(o) : x \in Range(o[j].samples)
    <3>1. Range(o) = {o[j] : j \in 1 .. Len(o)}
      BY <1>11, RangeEquality
    <3> QED
      BY <1>12, <3>1 DEF Content
  <2>2. ASSUME NEW j \in 1 .. Len(o), x \in Range(o[j].samples)
        PROVE  \E k \in 1 .. q, w \in Ranks : x \in Range(p[k][w].samples)
    <3>1. PICK k \in 1 .. q, w \in Ranks : j = (k - 1) * DpSize + w
      BY <1>15 DEF DealsOut
    <3>2. p[k][w] = o[j]
      BY <1>15, <3>1 DEF DealsOut
    <3> QED
      BY <2>2, <3>2
  <2>3. ASSUME NEW k \in 1 .. q, NEW w \in Ranks, x \in Range(p[k][w].samples)
        PROVE  \E j \in 1 .. Len(o) : x \in Range(o[j].samples)
    BY <1>15, <2>3 DEF DealsOut
  <2> QED
    BY <2>1, <2>2, <2>3
<1> QED
  BY <1>15, <1>18, <1>19 DEF p, DealsOut

(* Joining sequences: nothing is added and nothing lost. *)
LEMMA FlattenOK ==
  ASSUME NEW X, NEW N \in Nat \ {0}, NEW ss \in [1 .. N -> Seq(X)]
  PROVE  /\ FlattenSeq(ss) \in Seq(X)
         /\ \A x : x \in Range(FlattenSeq(ss)) <=> \E k \in 1 .. N : x \in Range(ss[k])
<1> DEFINE flat == CHOOSE f : f = [i \in 1 .. N |-> IF i = 1 THEN ss[i] ELSE f[i - 1] \o ss[i]]
           step == [i \in 1 .. N |-> [t \in Seq(X) |-> IF i = 1 THEN ss[i] ELSE t \o ss[i]]]
<1>1. Len(ss) = N
  OBVIOUS
<1>2. FlattenSeq(ss) = flat[N]
  BY <1>1 DEF FlattenSeq
<1>3. step \in Steps(N, Seq(X)) /\ << >> \in Seq(X)
  <2>1. \A i \in 1 .. N, t \in Seq(X) : ss[i] \in Seq(X) /\ t \o ss[i] \in Seq(X)
    BY ConcatProperties
  <2> QED
    BY <2>1, EmptySeq DEF Steps
<1>4. PICK g : Iterates(g, N, Seq(X), << >>, step)
  <2> HIDE DEF step
  <2> QED
    BY <1>3, Recursion
<1>5. \A i \in 1 .. N : g[i] = IF i = 1 THEN ss[i] ELSE g[i - 1] \o ss[i]
  <2> TAKE i \in 1 .. N
  <2>1. g[i - 1] \in Seq(X)
    BY <1>4 DEF Iterates
  <2> QED
    BY <1>4, <2>1 DEF Iterates
<1> DEFINE h == [i \in 1 .. N |-> g[i]]
<1>6. h = [i \in 1 .. N |-> IF i = 1 THEN ss[i] ELSE h[i - 1] \o ss[i]]
  <2>1. \A i \in 1 .. N : i # 1 => i - 1 \in 1 .. N
    OBVIOUS
  <2> HIDE DEF step
  <2> QED
    BY <1>5, <2>1
<1> HIDE DEF h, step
<1>7. flat = [i \in 1 .. N |-> IF i = 1 THEN ss[i] ELSE flat[i - 1] \o ss[i]]
  BY <1>6
<1> HIDE DEF flat
<1>8. flat[1] = ss[1] /\ \A i \in 1 .. N : i # 1 => flat[i] = flat[i - 1] \o ss[i]
  <2>1. 1 \in 1 .. N
    OBVIOUS
  <2>2. \A i \in 1 .. N : flat[i] = IF i = 1 THEN ss[i] ELSE flat[i - 1] \o ss[i]
    BY ONLY <1>7
  <2> QED
    BY <2>1, <2>2
<1> DEFINE T == {n \in 0 .. N : n # 0 =>
                   /\ flat[n] \in Seq(X)
                   /\ \A x : x \in Range(flat[n]) <=> \E k \in 1 .. n : x \in Range(ss[k])}
<1>9. 0 \in T
  OBVIOUS
<1>10. ASSUME NEW n \in 1 .. N, n - 1 \in T PROVE n \in T
  <2>1. n \in 0 .. N /\ n # 0 /\ ss[n] \in Seq(X)
    OBVIOUS
  <2>2. CASE n = 1
    <3>1. flat[1] = ss[1] /\ \A k : k \in 1 .. 1 <=> k = 1
      BY <1>8
    <3> QED
      BY <2>1, <2>2, <3>1
  <2>3. CASE n # 1
    <3>1. /\ flat[n - 1] \in Seq(X)
          /\ \A x : x \in Range(flat[n - 1]) <=> \E k \in 1 .. (n - 1) : x \in Range(ss[k])
      BY <1>10, <2>3
    <3>2. flat[n] = flat[n - 1] \o ss[n]
      BY <1>8, <2>3
    <3>3. flat[n] \in Seq(X) /\ Range(flat[n]) = Range(flat[n - 1]) \cup Range(ss[n])
      BY <2>1, <3>1, <3>2, ConcatProperties, RangeConcatenation
    <3>4. \A k : k \in 1 .. n <=> k \in 1 .. (n - 1) \/ k = n
      OBVIOUS
    <3> QED
      BY <2>1, <3>1, <3>3, <3>4
  <2> QED
    BY <2>2, <2>3
<1>11. N \in T
  <2> HIDE DEF T
  <2>1. 0 .. N \subseteq T
    BY <1>9, <1>10, Induction
  <2> QED
    BY <2>1
<1> QED
  BY <1>2, <1>11

-----------------------------------------------------------------------------
(* What _get_batch buffers of a batch precedes its first invalid sample.    *)
LEMMA ValidSamples ==
  ASSUME NEW batch \in BatchKinds
  PROVE  /\ Valid(batch) \in Nat /\ Valid(batch) <= Len(batch)
         /\ \A i \in 1 .. Valid(batch) : /\ batch[i].size \in 1 .. SeqLen
                                         /\ batch[i].form \in Forms
<1> DEFINE bad == {i \in DOMAIN batch : batch[i].size = 0}
<1>1. /\ batch \in Seq([size : 0 .. SeqLen, form : Forms])
      /\ Len(batch) \in Nat /\ DOMAIN batch = 1 .. Len(batch)
  BY PackerAssumption, LenProperties DEF Forms
<1>2. \A i \in 1 .. Len(batch) : batch[i].size \in 0 .. SeqLen /\ batch[i].form \in Forms
  <2>1. \A i \in 1 .. Len(batch) : batch[i] \in [size : 0 .. SeqLen, form : Forms]
    BY <1>1, ElementOfSeq
  <2> QED
    BY <2>1
<1>3. CASE bad = {}
  BY <1>1, <1>2, <1>3, PackerAssumption DEF Valid
<1>4. CASE bad # {}
  <2>1. Min(bad) \in bad /\ \A y \in bad : Min(bad) <= y
    <3>1. bad \subseteq Nat
      BY <1>1
    <3> HIDE DEF bad
    <3> QED
      BY <1>4, <3>1, MinOfNats
  <2>2. Valid(batch) = Min(bad) - 1
    BY <1>4 DEF Valid
  <2> HIDE DEF bad
  <2>3. Min(bad) \in 1 .. Len(batch)
    BY <1>1, <2>1 DEF bad
  <2>4. Valid(batch) \in Nat /\ Valid(batch) <= Len(batch)
    BY <1>1, <2>2, <2>3
  <2>5. \A i \in 1 .. Valid(batch) : i \notin bad /\ i \in 1 .. Len(batch)
    BY <1>1, <2>1, <2>2, <2>3
  <2>6. \A i \in 1 .. Valid(batch) : batch[i].size # 0
    BY <1>1, <2>5 DEF bad
  <2> QED
    BY <1>2, <2>4, <2>5, <2>6, PackerAssumption
<1> QED
  BY <1>3, <1>4

(* A slot that has just been given to r.                                    *)
Newcomer(r) == [run |-> r, progress |-> 0, ready |-> FALSE, received |-> 0, buffer |-> << >>]

LEMMA NewcomerOK ==
  ASSUME NEW r \in Runs \cup {NoRun}
  PROVE  /\ SeatOK(Newcomer(r))
         /\ [Vacant EXCEPT !.run = r] = Newcomer(r) /\ Vacant = Newcomer(NoRun)
<1>1. << >> \in Seq(Samples) /\ DOMAIN << >> = {}
  BY EmptySeq
<1>2. 0 \in 0 .. MaxBatches /\ 0 <= 0
  BY PackerAssumption
<1>3. Newcomer(r) \in Seats /\ BufferOK(Newcomer(r))
  BY <1>1, <1>2 DEF Seats, BufferOK, Newcomer
<1>4. SeatOK(Newcomer(r))
  BY <1>2, <1>3 DEF SeatOK, Newcomer, Vacant
<1>5. ASSUME NEW x, x = [Vacant EXCEPT !.run = r]
      PROVE  x = [run |-> r, progress |-> 0, ready |-> FALSE, received |-> 0, buffer |-> << >>]
  BY <1>5 DEF Vacant
<1>6. Vacant = Newcomer(NoRun)
  BY DEF Vacant, Newcomer
<1> QED
  BY <1>4, <1>5, <1>6 DEF Newcomer

(* Receiving a batch appends samples of the next step.                      *)
LEMMA ReceivedOK ==
  ASSUME SeatTypeOK, NEW x, SeatOK(x)
  PROVE  /\ SeatOK(Received(x))
         /\ Received(x).run = x.run /\ Received(x).progress = x.progress
         /\ Received(x).ready = x.ready
         /\ Receivable(x) =>
              /\ Received(x).received = x.received + 1
              /\ Range(Received(x).buffer) =
                   Range(x.buffer) \cup {Sample(x.run, x.received, i) :
                                           i \in 1 .. Valid(outbox[x.run][x.received + 1])}
<1>1. CASE ~Receivable(x)
  BY <1>1 DEF Received
<1>2. CASE Receivable(x)
  <2> DEFINE n == x.received
             batch == outbox[x.run][n + 1]
             got == [i \in 1 .. Valid(batch) |-> Sample(x.run, n, i)]
             y == Received(x)
  <2>1. /\ x \in Seats /\ x.run \in Runs /\ n \in Nat /\ n < Len(outbox[x.run])
        /\ n + 1 \in 1 .. Len(outbox[x.run]) /\ n + 1 \in 0 .. MaxBatches
        /\ n \in 0 .. MaxBatches /\ outbox[x.run] \in Seq(BatchKinds)
    <3>1. x \in Seats /\ x.run \in Runs /\ n \in 0 .. MaxBatches /\ n < Len(outbox[x.run])
      BY <1>2 DEF SeatOK, Seats, Receivable
    <3>2. /\ outbox[x.run] \in Seq(BatchKinds) /\ Len(outbox[x.run]) <= MaxBatches
          /\ Len(outbox[x.run]) \in Nat
      BY <3>1, LenProperties DEF SeatTypeOK
    <3> QED
      BY <3>1, <3>2, PackerAssumption
  <2>2. batch \in BatchKinds
    BY <2>1, ElementOfSeq
  <2>3. /\ y = [x EXCEPT !.received = n + 1, !.buffer = x.buffer \o got]
    BY <1>2 DEF Received
  <2>4. Valid(batch) \in Nat /\ Valid(batch) <= Len(batch)
    BY <2>2, ValidSamples
  <2>5. /\ got \in Seq(Samples) /\ Len(got) = Valid(batch)
        /\ \A i \in 1 .. Len(got) : got[i].run = x.run /\ got[i].step = n
    <3>1. \A i \in 1 .. Valid(batch) :
            /\ Sample(x.run, n, i) \in Samples
            /\ Sample(x.run, n, i).run = x.run /\ Sample(x.run, n, i).step = n
      <4> TAKE i \in 1 .. Valid(batch)
      <4>1. batch[i].size \in 1 .. SeqLen /\ batch[i].form \in Forms /\ i \in Nat
        BY <2>2, <2>4, ValidSamples
      <4> QED
        BY <2>1, <4>1 DEF Sample, Samples
    <3>2. got \in [1 .. Valid(batch) -> Samples]
      BY <3>1
    <3>3. got \in Seq(Samples) /\ Len(got) = Valid(batch)
      BY <2>4, <3>2
    <3> QED
      BY <3>1, <3>3
  <2> HIDE DEF got, batch, n
  <2>6. /\ y.run = x.run /\ y.progress = x.progress /\ y.ready = x.ready
        /\ y.received = n + 1 /\ y.buffer = x.buffer \o got
    BY <2>1, <2>3 DEF Seats
  <2> HIDE DEF y
  <2>7. /\ x.buffer \in Seq(Samples) /\ Len(x.buffer) \in Nat /\ Len(got) \in Nat
        /\ DOMAIN x.buffer = 1 .. Len(x.buffer)
    BY <2>1, <2>5, LenProperties DEF Seats
  <2>8. /\ y.buffer \in Seq(Samples) /\ DOMAIN y.buffer = 1 .. (Len(x.buffer) + Len(got))
        /\ \A k \in 1 .. (Len(x.buffer) + Len(got)) :
             y.buffer[k] = IF k <= Len(x.buffer) THEN x.buffer[k] ELSE got[k - Len(x.buffer)]
    BY <2>5, <2>6, <2>7, ConcatProperties, LenProperties
  <2>9. \A k \in DOMAIN y.buffer :
          \/ k \in DOMAIN x.buffer /\ y.buffer[k] = x.buffer[k]
          \/ k > Len(x.buffer) /\ y.buffer[k].run = x.run /\ y.buffer[k].step = n
    <3> TAKE k \in DOMAIN y.buffer
    <3>1. CASE k <= Len(x.buffer)
      BY <2>7, <2>8, <3>1
    <3>2. CASE ~(k <= Len(x.buffer))
      <4>1. k - Len(x.buffer) \in 1 .. Len(got) /\ k > Len(x.buffer)
        BY <2>7, <2>8, <3>2
      <4> QED
        BY <2>5, <2>8, <3>2, <4>1
    <3> QED
      BY <3>1, <3>2
  <2>10. \A k \in DOMAIN x.buffer : x.buffer[k].step \in Nat /\ x.buffer[k].step < n
    <3>1. \A k \in DOMAIN x.buffer : x.buffer[k] \in Samples
      BY <2>7, ElementOfSeq
    <3>2. \A k \in DOMAIN x.buffer : x.buffer[k].step \in Nat
      BY <3>1, PackerAssumption DEF Samples
    <3> QED
      BY <3>2 DEF SeatOK, BufferOK, n
  <2>11. x.progress \in Nat /\ x.progress <= n
    BY <2>1 DEF SeatOK, Seats, n
  <2>12. BufferOK(y)
    <3>1. ASSUME NEW k \in DOMAIN y.buffer
          PROVE  /\ y.buffer[k].run = y.run
                 /\ y.progress <= y.buffer[k].step /\ y.buffer[k].step < y.received
      BY <2>1, <2>6, <2>9, <2>10, <2>11 DEF SeatOK, BufferOK
    <3>2. ASSUME NEW j \in DOMAIN y.buffer, NEW k \in DOMAIN y.buffer, j < k
          PROVE  y.buffer[j].step <= y.buffer[k].step
      <4>1. CASE k \in DOMAIN x.buffer
        <5>1. j \in DOMAIN x.buffer
          BY <2>7, <2>8, <3>2, <4>1
        <5> QED
          BY <2>7, <2>8, <3>2, <4>1, <5>1 DEF SeatOK, BufferOK
      <4>2. CASE k \notin DOMAIN x.buffer
        BY <2>1, <2>9, <2>10, <4>2
      <4> QED
        BY <4>1, <4>2
    <3> QED
      BY <3>1, <3>2 DEF BufferOK
  <2>13. y \in Seats
    <3>1. x.buffer \o got \in Seq(Samples)
      BY <2>6, <2>8
    <3>2. \A m \in 0 .. MaxBatches, b \in Seq(Samples) :
            [x EXCEPT !.received = m, !.buffer = b] \in Seats
      BY <2>1 DEF Seats
    <3> QED
      BY <2>1, <2>3, <3>1, <3>2 DEF n
  <2>14. y.progress <= y.received /\ y.run # NoRun
    BY <2>1, <2>6, <2>11, PackerAssumption
  <2>15. Range(y.buffer) = Range(x.buffer) \cup Range(got)
    BY <2>5, <2>6, <2>7, RangeConcatenation
  <2>16. Range(got) = {Sample(x.run, n, i) : i \in 1 .. Valid(batch)}
    <3>1. \A i \in 1 .. Valid(batch) : got[i] = Sample(x.run, n, i)
      BY DEF got
    <3>2. Range(got) = {got[i] : i \in 1 .. Valid(batch)}
      BY <2>5, RangeEquality
    <3> QED
      BY <3>1, <3>2
  <2> QED
    BY <2>6, <2>12, <2>13, <2>14, <2>15, <2>16 DEF SeatOK, y, n, batch
<1> QED
  BY <1>1, <1>2

(* What a discovery may do to a slot: nothing, or free it of a run that is   *)
(* not live and perhaps give it to one that is.                             *)
Rediscovered(old, new, d) ==
    \/ new = old
    \/ /\ old.run = NoRun \/ d[old.run] # "live"
       /\ new = Vacant \/ \E r \in Runs : d[r] = "live" /\ new = Newcomer(r)

(* No run sits in two slots.                                                *)
Apart(t) == \A s, z \in Slots : t[s].run = t[z].run /\ t[s].run # NoRun => s = z

LEMMA DiscoveredOK ==
  ASSUME NEW T, \A s \in Slots : SeatOK(T[s]), NEW d, NEW t \in Discovered(T, d)
  PROVE  /\ t = [s \in Slots |-> t[s]]
         /\ \A s \in Slots : Rediscovered(T[s], t[s], d) /\ SeatOK(t[s])
         /\ \A s \in Slots : t[s].run # NoRun => d[t[s].run] = "live"
         /\ Apart(T) => Apart(t)
<1> DEFINE live == {r \in Runs : d[r] = "live"}
           kept == [s \in Slots |-> IF T[s].run # NoRun /\ d[T[s].run] # "live"
                                    THEN Forget(T[s]) ELSE T[s]]
           free == {s \in Slots : kept[s].run = NoRun}
<1>1. PICK f \in [free -> (live \ Known(kept)) \cup {NoRun}] :
        /\ t = [s \in Slots |-> IF s \in free THEN [kept[s] EXCEPT !.run = f[s]] ELSE kept[s]]
        /\ \A s1, s2 \in free : f[s1] = f[s2] /\ f[s1] # NoRun => s1 = s2
  BY DEF Discovered, Placements
<1>2. \A s \in Slots :
        \/ kept[s] = T[s]
        \/ kept[s] = Vacant /\ T[s].run # NoRun /\ d[T[s].run] # "live"
  BY DEF Forget
<1>3. \A s \in Slots : kept[s].run # NoRun => kept[s] = T[s] /\ d[T[s].run] = "live"
  BY DEF Forget, Vacant
<1>4. \A s \in Slots : kept[s].run # NoRun => kept[s].run \in Known(kept)
  BY DEF Known
<1> HIDE DEF kept
<1>5. ASSUME NEW s \in free
      PROVE  /\ t[s] = Newcomer(f[s]) /\ SeatOK(t[s]) /\ t[s].run = f[s]
             /\ Vacant = Newcomer(NoRun) /\ f[s] \in (live \ Known(kept)) \cup {NoRun}
  <2>1. kept[s] = Vacant
    BY <1>2 DEF SeatOK
  <2>2. t[s] = [Vacant EXCEPT !.run = f[s]] /\ f[s] \in (live \ Known(kept)) \cup {NoRun}
    BY <1>1, <2>1
  <2> QED
    BY <2>2, NewcomerOK DEF Newcomer
<1>6. ASSUME NEW s \in Slots, s \notin free
      PROVE  t[s] = T[s] /\ t[s].run # NoRun /\ t[s].run \in Known(kept) /\ d[t[s].run] = "live"
  BY <1>1, <1>3, <1>4, <1>6
<1>7. ASSUME NEW s \in Slots
      PROVE  /\ Rediscovered(T[s], t[s], d) /\ SeatOK(t[s])
             /\ t[s].run # NoRun => d[t[s].run] = "live"
  <2>1. CASE s \in free
    <3>1. T[s].run = NoRun \/ d[T[s].run] # "live"
      BY <1>2, <2>1
    <3> QED
      BY <1>5, <2>1, <3>1 DEF Rediscovered
  <2>2. CASE s \notin free
    BY <1>6, <2>2 DEF Rediscovered
  <2> QED
    BY <2>1, <2>2
<1>8. ASSUME Apart(T), NEW s \in Slots, NEW z \in Slots, t[s].run = t[z].run, t[s].run # NoRun
      PROVE  s = z
  <2>1. CASE s \in free /\ z \in free
    BY <1>1, <1>5, <1>8, <2>1
  <2>2. CASE s \notin free /\ z \notin free
    BY <1>6, <1>8, <2>2 DEF Apart
  <2>3. CASE (s \in free) # (z \in free)
    BY <1>5, <1>6, <1>8, <2>3
  <2> QED
    BY <2>1, <2>2, <2>3
<1> QED
  BY <1>1, <1>7, <1>8 DEF Apart

(* What can be packed of a run is the head of its buffer, of the step it is *)
(* at, and is not empty if the run counts.                                  *)
LEMMA CurrentOK ==
  ASSUME NEW x, SeatOK(x)
  PROVE  \E c \in Nat :
           /\ c <= Len(x.buffer) /\ DOMAIN Current(x) = 1 .. c
           /\ \A k \in 1 .. c : x.buffer[k].step <= x.progress
           /\ Workable(x) => 1 <= c
<1> DEFINE b == x.buffer
           heads == {k \in DOMAIN b : \A j \in 1 .. k : b[j].step <= x.progress}
           c == Cardinality(heads)
<1>1. b \in Seq(Samples) /\ Len(b) \in Nat /\ DOMAIN b = 1 .. Len(b)
  BY LenProperties DEF SeatOK, Seats
<1>2. heads \subseteq 1 .. Len(b)
  BY <1>1
<1>3. IsFiniteSet(heads) /\ c \in Nat /\ c <= Len(b)
  <2>1. IsFiniteSet(1 .. Len(b)) /\ Cardinality(1 .. Len(b)) = Len(b)
    BY <1>1, FS_Interval
  <2> HIDE DEF heads
  <2>2. IsFiniteSet(heads) /\ c <= Len(b)
    BY <1>2, <2>1, FS_Subset
  <2> QED
    BY <2>2, FS_CardinalityType
<1>4. Current(x) = SubSeq(b, 1, c)
  BY DEF Current
<1>5. \A k \in 1 .. c : b[k].step <= x.progress
  <2>1. SUFFICES ASSUME NEW k \in 1 .. c, ~(b[k].step <= x.progress) PROVE FALSE
    OBVIOUS
  <2>2. heads \subseteq 1 .. (k - 1)
    <3>1. ASSUME NEW h \in heads PROVE h \in 1 .. (k - 1)
      <4>1. h \in 1 .. Len(b) /\ (k \in 1 .. h => b[k].step <= x.progress)
        BY <1>2
      <4> HIDE DEF heads, b, c
      <4> QED
        BY <1>1, <1>3, <2>1, <4>1
    <3> QED
      BY <3>1
  <2>3. IsFiniteSet(1 .. (k - 1)) /\ Cardinality(1 .. (k - 1)) = k - 1 /\ k \in Nat
    <3> HIDE DEF c
    <3>1. k \in Nat /\ k - 1 \in Nat /\ (1 > k - 1 => k - 1 = 0)
      BY <1>3
    <3> QED
      BY <3>1, FS_Interval
  <2>4. c <= k - 1
    <3> HIDE DEF heads
    <3> QED
      BY <2>2, <2>3, FS_Subset
  <2> QED
    <3> HIDE DEF c
    <3> QED
      BY <1>3, <2>3, <2>4
<1>6. Workable(x) => 1 <= c
  <2>1. SUFFICES ASSUME Workable(x) PROVE c # 0
    <3> HIDE DEF c
    <3> QED
      BY <1>3
  <2>2. 1 \in heads
    <3>1. 1 \in DOMAIN b
      BY <1>1, <2>1, EmptySeq DEF Workable
    <3> QED
      BY <2>1, <3>1 DEF Workable
  <2> HIDE DEF heads
  <2> QED
    BY <1>3, <2>2, FS_EmptySet
<1> HIDE DEF c, b, heads
<1>7. DOMAIN Current(x) = 1 .. c
  <2>1. \A i \in 1 .. c : b[i] \in Samples
    BY <1>1, <1>3, ElementOfSeq
  <2>2. Current(x) \in Seq(Samples) /\ Len(Current(x)) = c
    BY <1>3, <1>4, <2>1, SubSeqProperties
  <2> QED
    BY <2>2, LenProperties
<1> QED
  BY <1>3, <1>5, <1>6, <1>7 DEF b

(* A pack takes a number of samples of a run, and only of the step it is at. *)
LEMMA TakenOK ==
  ASSUME NEW s \in Slots, SeatOK(seat[s]), NEW S
  PROVE  /\ Taken(S, s) \in Nat /\ (Taken(S, s) > 0 => seat[s].buffer # << >>)
         /\ Taken(S, s) <= Len(seat[s].buffer)
         /\ \A k \in 1 .. Taken(S, s) : seat[s].buffer[k].step <= seat[s].progress
<1> DEFINE of == {k \in DOMAIN Current(seat[s]) : <<s, k>> \in S}
           L == Len(seat[s].buffer)
<1>1. PICK c \in Nat :
        /\ c <= L /\ DOMAIN Current(seat[s]) = 1 .. c
        /\ \A k \in 1 .. c : seat[s].buffer[k].step <= seat[s].progress
  BY CurrentOK
<1>2. L \in Nat /\ (L > 0 => seat[s].buffer # << >>)
  BY LenProperties, EmptySeq DEF SeatOK, Seats
<1>3. of \subseteq 1 .. c
  BY <1>1
<1> HIDE DEF of, L
<1>4. Taken(S, s) = Cardinality(of)
  BY DEF Taken, of
<1>5. Taken(S, s) \in Nat /\ Taken(S, s) <= c
  <2>1. IsFiniteSet(1 .. c) /\ Cardinality(1 .. c) = c
    BY FS_Interval
  <2>2. IsFiniteSet(of) /\ Cardinality(of) <= c
    BY <1>3, <2>1, FS_Subset
  <2> QED
    BY <1>4, <2>2, FS_CardinalityType
<1> QED
  BY <1>1, <1>2, <1>5 DEF L

(* Taking samples off the head of a buffer and completing the step when      *)
(* none of it is left.                                                      *)
Relieved(x, m) ==
    LET y == [x EXCEPT !.buffer = SubSeq(@, m + 1, Len(@))]
    IN  IF m > 0 THEN Progressed(y) ELSE y

LEMMA PackedOK ==
  ASSUME NEW x, SeatOK(x), ~x.ready, NEW m \in Nat, m > 0 => x.buffer # << >>
  PROVE  LET z == Relieved(x, m)
         IN  /\ SeatOK(z) /\ z.run = x.run /\ z.progress = x.progress + Pending(z)
             /\ z.received = x.received /\ z.buffer = SubSeq(x.buffer, m + 1, Len(x.buffer))
<1> DEFINE z == Relieved(x, m)
           Goal == SeatOK(z) /\ z.run = x.run /\ z.progress = x.progress + Pending(z)
           b == x.buffer
           c == SubSeq(b, m + 1, Len(b))
           y == [x EXCEPT !.buffer = c]
<1>1. /\ x \in Seats /\ b \in Seq(Samples) /\ Len(b) \in Nat /\ DOMAIN b = 1 .. Len(b)
      /\ x.progress \in Nat /\ x.received \in 0 .. MaxBatches /\ x.progress <= x.received
  BY PackerAssumption, LenProperties DEF SeatOK, Seats
<1>2. z = IF m > 0 THEN Progressed(y) ELSE y
  BY DEF Relieved
<1> HIDE DEF z
<1>5. z.received = x.received /\ z.buffer = SubSeq(x.buffer, m + 1, Len(x.buffer))
  <2>1. /\ y.received = x.received /\ y.buffer = SubSeq(x.buffer, m + 1, Len(x.buffer))
        /\ \A n : [y EXCEPT !.progress = n, !.ready = TRUE].received = y.received
        /\ \A n : [y EXCEPT !.progress = n, !.ready = TRUE].buffer = y.buffer
    BY <1>1 DEF Seats
  <2> HIDE DEF y
  <2> QED
    BY <1>2, <2>1 DEF Progressed
<1>3. ASSUME m = 0 PROVE Goal
  <2>1. c = b
    BY <1>1, <1>3, SubSeqFull
  <2>2. z = x
    <3>1. [x EXCEPT !.buffer = b] = x
      BY <1>1 DEF Seats
    <3> QED
      BY <1>2, <1>3, <2>1, <3>1
  <2> HIDE DEF b, c, y
  <2>3. x.progress + 0 = x.progress
    BY <1>1
  <2> QED
    BY <2>2, <2>3 DEF Pending
<1>4. ASSUME m > 0 PROVE Goal
  <2>1. \A k \in 1 .. Len(b) : b[k] \in Samples /\ b[k].step \in Nat
    <3>1. \A k \in 1 .. Len(b) : b[k] \in Samples
      BY <1>1, ElementOfSeq
    <3> HIDE DEF b
    <3> QED
      BY <3>1, PackerAssumption DEF Samples
  <2>2. /\ c \in Seq(Samples) /\ DOMAIN c = 1 .. Len(c)
        /\ \A k \in 1 .. Len(c) : k + m \in 1 .. Len(b) /\ c[k] = b[k + m]
    <3>1. \A k \in m + 1 .. Len(b) : b[k] \in Samples
      BY <1>1, <2>1
    <3>2. /\ c \in Seq(Samples) /\ Len(c) = IF m + 1 <= Len(b) THEN Len(b) - (m + 1) + 1 ELSE 0
          /\ \A k \in 1 .. Len(b) - (m + 1) + 1 : c[k] = b[m + 1 + k - 1]
      BY <1>1, <3>1, SubSeqProperties
    <3> HIDE DEF b, c
    <3>5. \A l \in Nat, i \in Nat : IF i + 1 <= l THEN l - (i + 1) + 1 = l - i /\ l - i \in Nat ELSE l - i <= 0
      OBVIOUS
    <3>3. Len(c) = 0 \/ (Len(c) = Len(b) - m /\ Len(c) \in Nat)
      <4>1. Len(c) = IF m + 1 <= Len(b) THEN Len(b) - (m + 1) + 1 ELSE 0
        BY <3>2
      <4>2. IF m + 1 <= Len(b) THEN Len(b) - (m + 1) + 1 = Len(b) - m /\ Len(b) - m \in Nat
                               ELSE TRUE
        BY <1>1, <3>5
      <4> QED
        BY <4>1, <4>2
    <3>4. \A k \in 1 .. Len(c) : k + m \in 1 .. Len(b) /\ c[k] = b[k + m]
      <4> TAKE k \in 1 .. Len(c)
      <4>1. k \in Nat /\ k \in 1 .. Len(b) - (m + 1) + 1
        <5>1. \A l \in Nat, i \in Nat, n \in Nat : n = l - i => l - (i + 1) + 1 = n
          OBVIOUS
        <5>2. Len(c) = Len(b) - m /\ Len(c) \in Nat /\ k \in Nat
          BY <3>3
        <5>3. Len(b) - (m + 1) + 1 = Len(c)
          BY <1>1, <5>1, <5>2
        <5> QED
          BY <5>2, <5>3
      <4>2. k + m \in Nat /\ k + m <= Len(b) /\ 1 <= k + m /\ m + 1 + k - 1 = k + m
        <5>1. \A l \in Nat, j \in Nat : j \in 1 .. l - (m + 1) + 1 =>
                j + m \in Nat /\ j + m <= l /\ 1 <= j + m /\ m + 1 + j - 1 = j + m
          BY SMTT(30)
        <5> QED
          BY <1>1, <4>1, <5>1
      <4>3. c[k] = b[m + 1 + k - 1]
        BY <3>2, <4>1
      <4>4. c[k] = b[k + m]
        BY <4>2, <4>3
      <4>5. k + m \in 1 .. Len(b)
        BY <1>1, <4>2
      <4> QED
        BY <4>4, <4>5
    <3> QED
      BY <3>2, <3>4, LenProperties
  <2>3. x.progress < x.received /\ x.progress + 1 \in 0 .. MaxBatches /\ x.run # NoRun
    <3>1. 1 \in DOMAIN b
      BY <1>1, <1>4
    <3>2. x.progress < x.received
      BY <1>1, <2>1, <3>1 DEF SeatOK, BufferOK
    <3>3. x.run # NoRun
      BY <1>1, <3>1 DEF SeatOK, Vacant
    <3> QED
      BY <1>1, <3>2, <3>3, PackerAssumption
  <2> HIDE DEF b, c
  <2>4. /\ y \in Seats /\ y.run = x.run /\ y.progress = x.progress /\ y.ready = x.ready
        /\ y.received = x.received /\ y.buffer = c
    BY <1>1, <2>2 DEF Seats
  <2>5. /\ \A k \in DOMAIN c : /\ c[k].run = x.run /\ c[k].step \in Nat
                               /\ x.progress <= c[k].step /\ c[k].step < x.received
        /\ \A j, k \in DOMAIN c : j < k => c[j].step <= c[k].step
    <3>1. ASSUME NEW k \in DOMAIN c
          PROVE  /\ c[k].run = x.run /\ c[k].step \in Nat
                 /\ x.progress <= c[k].step /\ c[k].step < x.received
      BY <1>1, <2>1, <2>2 DEF SeatOK, BufferOK, b
    <3>2. ASSUME NEW j \in DOMAIN c, NEW k \in DOMAIN c, j < k
          PROVE  c[j].step <= c[k].step
      <4>1. j + m < k + m /\ j + m \in DOMAIN b /\ k + m \in DOMAIN b
        BY <1>1, <2>2, <3>2
      <4> QED
        BY <2>2, <4>1 DEF SeatOK, BufferOK, b
    <3> QED
      BY <3>1, <3>2
  <2> HIDE DEF y
  <2>6. ASSUME ~Completed(y) PROVE Goal
    <3>1. z = y
      BY <1>2, <1>4, <2>6 DEF Progressed
    <3> QED
      <4>1. BufferOK(z)
        BY <2>4, <2>5, <3>1 DEF BufferOK
      <4>2. z.progress = x.progress + Pending(z)
        BY <1>1, <2>4, <3>1 DEF Pending
      <4> QED
        BY <1>1, <2>3, <2>4, <3>1, <4>1, <4>2 DEF SeatOK
  <2>7. ASSUME Completed(y) PROVE Goal
    <3>1. z = [y EXCEPT !.progress = y.progress + 1, !.ready = TRUE]
      BY <1>2, <1>4, <2>7 DEF Progressed
    <3>2. /\ z \in Seats /\ z.run = x.run /\ z.progress = x.progress + 1 /\ z.ready
          /\ z.received = x.received /\ z.buffer = c
      BY <2>3, <2>4, <3>1 DEF Seats
    <3>3. \A k \in DOMAIN c : x.progress + 1 <= c[k].step
      <4> TAKE k \in DOMAIN c
      <4>1. c # << >> /\ 1 \in DOMAIN c /\ k \in Nat /\ (k = 1 \/ 1 < k)
        BY <2>2
      <4>2. c[1].step > x.progress
        BY <2>4, <2>7, <4>1 DEF Completed
      <4>3. c[1].step <= c[k].step /\ c[1].step \in Nat /\ c[k].step \in Nat
        BY <2>5, <4>1
      <4> QED
        BY <1>1, <4>2, <4>3
    <3>4. BufferOK(z)
      BY <2>5, <3>2, <3>3 DEF BufferOK
    <3>5. z.progress <= z.received
      BY <1>1, <2>3, <3>2
    <3> QED
      BY <1>1, <2>3, <3>2, <3>4, <3>5 DEF SeatOK, Pending
  <2> QED
    BY <2>6, <2>7
<1>6. Goal
  <2> HIDE DEF Goal
  <2>1. m = 0 \/ m > 0
    OBVIOUS
  <2> QED
    BY <1>3, <1>4, <2>1
<1> QED
  BY <1>5, <1>6 DEF z

-----------------------------------------------------------------------------
(* What the invariant says of one slot while batches are received.          *)
Waiting(a, x, d) ==
    /\ SeatOK(x) /\ ~x.ready /\ Behind(a, x)
    /\ a.run = NoRun => a.steps = 0
    /\ x.run # NoRun => d[x.run] # "none"
    /\ a.run \notin {NoRun, x.run} => d[a.run] \in {"evicted", "gone"}

(* A run that is placed in a slot is not the one whose adapter is left there. *)
LEMMA WaitingRediscovered ==
  ASSUME NEW d \in [Runs -> {"none", "live", "evicted", "gone"}],
         NEW a \in [run : Runs \cup {NoRun}, steps : 0 .. MaxBatches],
         NEW x, Waiting(a, x, d), NEW y, Rediscovered(x, y, d), SeatOK(y)
  PROVE  Waiting(a, y, d)
<1>1. CASE y = x
  BY <1>1
<1>2. CASE y # x
  <2>1. x.run = NoRun \/ d[x.run] # "live"
    BY <1>2 DEF Rediscovered
  <2>2. PICK r \in Runs \cup {NoRun} : y = Newcomer(r) /\ (r = NoRun \/ d[r] = "live")
    BY <1>2, NewcomerOK DEF Rediscovered
  <2>3. y.run = r /\ y.progress = 0 /\ ~y.ready
    BY <2>2 DEF Newcomer
  <2>4. x.run \in Runs \cup {NoRun} /\ a.run \in Runs \cup {NoRun} /\ a.steps \in Nat
    BY PackerAssumption DEF Waiting, SeatOK, Seats
  <2>5. a.run \notin {NoRun, r} => d[a.run] \in {"evicted", "gone"}
    BY <2>1, <2>4 DEF Waiting
  <2>6. a.run = r => a.steps = 0
    BY <2>1, <2>2, <2>4 DEF Waiting
  <2>7. Behind(a, y)
    BY <2>3, <2>4, <2>6 DEF Behind, Pending
  <2> QED
    BY <2>2, <2>3, <2>5, <2>7 DEF Waiting
<1> QED
  BY <1>1, <1>2

(* Discover, receive, evict, discover again. *)
LEMMA GetBatchStep == ASSUME IInv, GetBatch PROVE IInv'
<1> USE DEF IInv
<1>1. /\ pc \in {"pack", "polled"} /\ pc' = "polled"
      /\ UNCHANGED <<outbox, stable, position, packed, adapter, grad>>
  BY DEF GetBatch, trainVars
<1>2. PICK t \in Discovered(seat, dir) :
        /\ dir' = [r \in Runs |-> IF r \in Evicted(t) THEN "evicted" ELSE dir[r]]
        /\ seat' \in Discovered([s \in Slots |-> Received(t[s])], dir')
  BY DEF GetBatch
<1> DEFINE u == [s \in Slots |-> Received(t[s])]
<1>3. \A s \in Slots : Rediscovered(seat[s], t[s], dir) /\ SeatOK(t[s])
  BY <1>2, DiscoveredOK
<1>4. \A s \in Slots : /\ SeatOK(u[s]) /\ u[s].run = t[s].run /\ u[s].ready = t[s].ready
                        /\ u[s].progress = t[s].progress
  BY <1>3, ReceivedOK
<1>5. /\ seat' = [s \in Slots |-> seat'[s]]
      /\ \A s \in Slots : Rediscovered(u[s], seat'[s], dir') /\ SeatOK(seat'[s])
  <2> HIDE DEF u
  <2>1. seat' \in Discovered(u, dir')
    BY <1>2 DEF u
  <2> QED
    BY <1>4, <2>1, DiscoveredOK
<1> HIDE DEF u
<1>6. /\ dir \in [Runs -> {"none", "live", "evicted", "gone"}]
      /\ dir' \in [Runs -> {"none", "live", "evicted", "gone"}]
      /\ \A r \in Runs : dir'[r] = dir[r] \/ dir'[r] = "evicted"
  BY <1>2 DEF SeatTypeOK
<1>7. ASSUME NEW s \in Slots PROVE Waiting(adapter[s], seat'[s], dir')
  <2>1. adapter[s] \in [run : Runs \cup {NoRun}, steps : 0 .. MaxBatches]
    BY DEF SeatTypeOK
  <2>2. Waiting(adapter[s], seat[s], dir)
    BY <1>1 DEF Waiting, CountInv, PastInv
  <2>3. Waiting(adapter[s], t[s], dir)
    BY <1>3, <1>6, <2>1, <2>2, WaitingRediscovered
  <2>4. Waiting(adapter[s], u[s], dir)
    BY <1>4, <2>3 DEF Waiting, Behind, Pending
  <2>5. u[s].run \in Runs \cup {NoRun}
    BY <2>4 DEF Waiting, SeatOK, Seats
  <2>6. Waiting(adapter[s], u[s], dir')
    BY <1>6, <2>1, <2>4, <2>5 DEF Waiting
  <2> QED
    BY <1>5, <1>6, <2>1, <2>6, WaitingRediscovered
<1>8. SeatTypeOK'
  <2>1. \A s \in Slots : seat'[s] \in Seats
    BY <1>5 DEF SeatOK
  <2> QED
    BY <1>1, <1>5, <1>6, <2>1 DEF SeatTypeOK
<1>9. (\A s \in Slots : SeatOK(seat[s]))'
  BY <1>5
<1>10. CountInv' /\ PastInv'
  BY <1>1, <1>7 DEF CountInv, PastInv, Waiting
<1> QED
  BY <1>8, <1>9, <1>10

(* Buffers are shortened, and a step that is completed becomes ready. *)
LEMMA PackStep == ASSUME IInv, Pack PROVE IInv'
<1> USE DEF IInv
<1>1. /\ pc = "polled" /\ pc' = "sync"
      /\ UNCHANGED <<dir, outbox, stable, adapter, grad>>
  BY DEF Pack, envVars, trainVars
<1>2. PICK S : seat' = [s \in Slots |->
        LET x == [seat[s] EXCEPT !.buffer = SubSeq(@, Taken(S, s) + 1, Len(@))]
        IN  IF Taken(S, s) > 0 THEN Progressed(x) ELSE x]
  BY DEF Pack
<1>3. ASSUME NEW s \in Slots
      PROVE  /\ SeatOK(seat'[s]) /\ seat'[s].run = seat[s].run
             /\ seat'[s].progress = seat[s].progress + Pending(seat'[s])
  <2>1. SeatOK(seat[s]) /\ ~seat[s].ready
    BY <1>1 DEF CountInv
  <2>2. Taken(S, s) \in Nat /\ (Taken(S, s) > 0 => seat[s].buffer # << >>)
    BY <2>1, TakenOK
  <2>3. seat'[s] = Relieved(seat[s], Taken(S, s))
    BY <1>2 DEF Relieved
  <2> QED
    BY <2>1, <2>2, <2>3, PackedOK
<1>4. SeatTypeOK'
  <2>1. seat' \in [Slots -> Seats]
    BY <1>2, <1>3 DEF SeatOK
  <2> QED
    BY <1>1, <2>1 DEF SeatTypeOK
<1>5. CountInv'
  <2> SUFFICES ASSUME NEW s \in Slots
               PROVE  Behind(adapter[s], seat'[s])
    BY <1>1 DEF CountInv
  <2>1. adapter[s].steps \in Nat /\ seat[s].progress \in Nat /\ Pending(seat'[s]) \in Nat
    BY PackerAssumption DEF SeatTypeOK, Seats, Pending
  <2>2. Behind(adapter[s], seat[s]) /\ ~seat[s].ready
    BY <1>1 DEF CountInv
  <2> QED
    BY <1>3, <2>1, <2>2 DEF Behind, Pending
<1>6. PastInv'
  BY <1>1, <1>3 DEF PastInv
<1> QED
  BY <1>3, <1>4, <1>5, <1>6

(* A run that is new gets an adapter of its own before the first gradient. *)
LEMMA BackwardStep == ASSUME IInv, Backward PROVE IInv'
<1> USE DEF IInv
<1>1. /\ pc = "sync" /\ pc' = "step" /\ UNCHANGED <<dir, outbox, stable, seat, position>>
      /\ adapter' = [s \in Slots |-> Hooked(s)]
  BY DEF Backward, envVars
<1>2. ASSUME NEW s \in Slots
      PROVE  /\ adapter'[s] \in [run : Runs \cup {NoRun}, steps : 0 .. MaxBatches]
             /\ adapter'[s].run = seat[s].run
             /\ seat[s].progress = adapter'[s].steps + Pending(seat[s])
             /\ seat[s].run = NoRun => adapter'[s].steps = 0
  <2>1. /\ adapter[s] \in [run : Runs \cup {NoRun}, steps : 0 .. MaxBatches]
        /\ seat[s].run \in Runs \cup {NoRun} /\ seat[s].progress \in Nat
        /\ Behind(adapter[s], seat[s]) /\ 0 \in 0 .. MaxBatches
        /\ adapter[s].run = NoRun => adapter[s].steps = 0
    BY <1>1, PackerAssumption DEF SeatTypeOK, Seats, CountInv
  <2>2. CASE seat[s].run = adapter[s].run
    BY <1>1, <2>1, <2>2 DEF Hooked, Behind
  <2>3. CASE seat[s].run # adapter[s].run
    <3>1. adapter'[s] = [run |-> seat[s].run, steps |-> 0]
      BY <1>1, <2>3 DEF Hooked
    <3> QED
      BY <2>1, <2>3, <3>1 DEF Behind, Pending
  <2> QED
    BY <2>2, <2>3
<1>3. SeatTypeOK'
  BY <1>1, <1>2 DEF SeatTypeOK
<1>4. CountInv' /\ PastInv'
  BY <1>1, <1>2 DEF CountInv, PastInv, Pending
<1> QED
  BY <1>1, <1>3, <1>4

(* The optimizers of the runs that are ready catch up. *)
LEMMA StepTaken == ASSUME IInv, OptimizerStep PROVE IInv'
<1> USE DEF IInv
<1>1. /\ pc = "step" /\ pc' = "top" /\ UNCHANGED <<dir, outbox, stable, seat, position, packed>>
      /\ adapter' = [s \in Slots |-> IF s \in Ready THEN [adapter[s] EXCEPT !.steps = @ + 1]
                                                     ELSE adapter[s]]
  BY DEF OptimizerStep, StepSet, envVars
<1>2. ASSUME NEW s \in Slots
      PROVE  /\ adapter'[s] \in [run : Runs \cup {NoRun}, steps : 0 .. MaxBatches]
             /\ adapter'[s].run = seat[s].run
             /\ seat[s].progress = adapter'[s].steps
             /\ seat[s].run = NoRun => adapter'[s].steps = 0
  <2>1. /\ adapter[s] \in [run : Runs \cup {NoRun}, steps : 0 .. MaxBatches]
        /\ seat[s].progress \in 0 .. MaxBatches
        /\ adapter[s].run = seat[s].run
        /\ seat[s].progress = adapter[s].steps + Pending(seat[s])
        /\ seat[s].run = NoRun => adapter[s].steps = 0 /\ ~seat[s].ready
    BY <1>1 DEF SeatTypeOK, Seats, CountInv, SeatOK, Vacant
  <2>2. CASE s \in Ready
    <3>1. adapter'[s] = [adapter[s] EXCEPT !.steps = @ + 1] /\ seat[s].ready
      BY <1>1, <2>2 DEF Ready
    <3> QED
      BY <2>1, <3>1 DEF Pending
  <2>3. CASE s \notin Ready
    <3>1. adapter'[s] = adapter[s] /\ ~seat[s].ready
      BY <1>1, <2>3 DEF Ready
    <3>2. adapter[s].steps + 0 = adapter[s].steps
      BY <2>1
    <3> QED
      BY <2>1, <3>1, <3>2 DEF Pending
  <2> QED
    BY <2>2, <2>3
<1>3. SeatTypeOK'
  BY <1>1, <1>2 DEF SeatTypeOK
<1>4. CountInv' /\ PastInv'
  BY <1>1, <1>2 DEF CountInv, PastInv
<1> QED
  BY <1>1, <1>3, <1>4

(* What is ready goes out, and the flags are cleared. *)
LEMMA BroadcastStep == ASSUME IInv, Broadcast PROVE IInv'
<1> USE DEF IInv
<1>1. /\ pc = "top" /\ pc' = "pack" /\ UNCHANGED <<dir, outbox, position, packed, adapter, grad>>
      /\ seat' = [s \in Slots |-> [seat[s] EXCEPT !.ready = FALSE]]
  BY DEF Broadcast, ClearFlag, envVars, trainVars
<1>2. ASSUME NEW s \in Slots
      PROVE  /\ seat'[s] \in Seats /\ ~seat'[s].ready
             /\ seat'[s].run = seat[s].run /\ seat'[s].progress = seat[s].progress
             /\ seat'[s].received = seat[s].received /\ seat'[s].buffer = seat[s].buffer
  BY <1>1 DEF SeatTypeOK, Seats
<1>3. ASSUME NEW s \in Slots PROVE SeatOK(seat'[s])
  <2>1. seat'[s].run = NoRun => seat'[s] = Vacant
    <3>1. SUFFICES ASSUME seat[s].run = NoRun PROVE seat'[s] = Vacant
      BY <1>2
    <3>2. seat[s] = Vacant /\ seat[s] \in Seats
      BY <3>1 DEF SeatOK
    <3>3. ~seat[s].ready
      BY <3>2 DEF Vacant
    <3>4. [seat[s] EXCEPT !.ready = FALSE] = seat[s]
      BY <3>2, <3>3 DEF Seats
    <3> QED
      BY <1>1, <3>2, <3>4
  <2> QED
    BY <1>2, <2>1 DEF SeatOK, BufferOK
<1>4. SeatTypeOK'
  BY <1>1, <1>2 DEF SeatTypeOK
<1>5. CountInv'
  <2> SUFFICES ASSUME NEW s \in Slots PROVE Behind(adapter[s], seat'[s])
    BY <1>1, <1>2 DEF CountInv
  <2>1. adapter[s].run = seat[s].run /\ seat[s].progress = adapter[s].steps
        /\ adapter[s].steps \in Nat
    BY <1>1 DEF SeatTypeOK, CountInv
  <2>2. adapter[s].steps + 0 = adapter[s].steps
    BY <2>1
  <2> QED
    BY <1>2, <2>1, <2>2 DEF Behind, Pending
<1>6. PastInv'
  BY <1>1, <1>2 DEF PastInv
<1> QED
  BY <1>3, <1>4, <1>5, <1>6

(* Directories and outboxes change; what is gone stays gone. *)
LEMMA EnvStep == ASSUME IInv, Env PROVE IInv'
<1> USE DEF IInv
<1> DEFINE Effect ==
      /\ UNCHANGED <<seat, position, packed, adapter, grad, pc>>
      /\ dir' \in [Runs -> {"none", "live", "evicted", "gone"}]
      /\ outbox' \in [Runs -> Seq(BatchKinds)] /\ \A r \in Runs : Len(outbox'[r]) <= MaxBatches
      /\ \A r \in Runs : /\ dir[r] # "none" => dir'[r] # "none"
                         /\ dir[r] \in {"evicted", "gone"} => dir'[r] \in {"evicted", "gone"}
<1>1. Effect
  <2>1. PICK r \in Runs : Create(r) \/ Delete(r) \/ \E b \in BatchKinds : Send(r, b)
    BY DEF Env
  <2>2. CASE Create(r)
    BY <2>2 DEF Create, SeatTypeOK, trainVars
  <2>3. CASE Delete(r)
    <3>1. << >> \in Seq(BatchKinds) /\ Len(<< >>) = 0
      BY EmptySeq
    <3> QED
      BY <2>3, <3>1, PackerAssumption DEF Delete, SeatTypeOK, trainVars
  <2>4. ASSUME NEW b \in BatchKinds, Send(r, b) PROVE Effect
    <3>1. /\ Append(outbox[r], b) \in Seq(BatchKinds)
          /\ Len(Append(outbox[r], b)) = Len(outbox[r]) + 1
          /\ Len(outbox[r]) \in Nat /\ Len(outbox[r]) < MaxBatches
      BY <2>4, AppendProperties, LenProperties DEF Send, SeatTypeOK
    <3>2. Len(Append(outbox[r], b)) <= MaxBatches
      BY <3>1, PackerAssumption
    <3> QED
      BY <2>4, <3>1, <3>2 DEF Send, SeatTypeOK, trainVars
  <2> HIDE DEF Effect
  <2> QED
    BY <2>1, <2>2, <2>3, <2>4
<1>2. SeatTypeOK' /\ CountInv'
  BY <1>1 DEF SeatTypeOK, CountInv
<1>3. PastInv'
  <2>1. \A s \in Slots : seat[s].run \in Runs \cup {NoRun} /\ adapter[s].run \in Runs \cup {NoRun}
    BY DEF SeatTypeOK, Seats
  <2> QED
    BY <1>1, <2>1 DEF PastInv
<1> QED
  BY <1>1, <1>2, <1>3

(* The inductive invariant: seats, buffers, step counts and past runs. *)
THEOREM Invariance == Spec => []IInv
<1>1. Init => IInv
  <2> SUFFICES ASSUME Init PROVE IInv
    OBVIOUS
  <2>1. /\ \A s \in Slots : seat[s] = Vacant /\ adapter[s] = [run |-> NoRun, steps |-> 0]
        /\ seat = [s \in Slots |-> Vacant]
        /\ adapter = [s \in Slots |-> [run |-> NoRun, steps |-> 0]]
        /\ \A r \in Runs : dir[r] = "none" /\ outbox[r] = << >>
    BY DEF Init
  <2>2. /\ SeatOK(Vacant) /\ Vacant \in Seats /\ Vacant.run = NoRun
        /\ Vacant.progress = 0 /\ ~Vacant.ready
    BY NewcomerOK DEF SeatOK, Vacant
  <2>3. << >> \in Seq(BatchKinds) /\ Len(<< >>) = 0 /\ 0 \in 0 .. MaxBatches /\ 0 <= MaxBatches
    BY EmptySeq, PackerAssumption
  <2>4. SeatTypeOK
    BY <2>1, <2>2, <2>3 DEF Init, SeatTypeOK
  <2>5. CountInv /\ PastInv
    BY <2>1, <2>2 DEF Init, CountInv, PastInv
  <2> QED
    BY <2>1, <2>2, <2>4, <2>5 DEF IInv
<1>2. IInv /\ [Next]_vars => IInv'
  <2> SUFFICES ASSUME IInv, [Next]_vars PROVE IInv'
    OBVIOUS
  <2>1. CASE Env
    BY <2>1, EnvStep
  <2>2. CASE GetBatch
    BY <2>2, GetBatchStep
  <2>3. CASE Pack
    BY <2>3, PackStep
  <2>4. CASE Backward
    BY <2>4, BackwardStep
  <2>5. CASE OptimizerStep
    BY <2>5, StepTaken
  <2>6. CASE Broadcast
    BY <2>6, BroadcastStep
  <2>7. CASE UNCHANGED vars
    BY <2>7 DEF vars, envVars, trainVars, IInv, SeatTypeOK, CountInv, PastInv
  <2> QED
    BY <2>1, <2>2, <2>3, <2>4, <2>5, <2>6, <2>7 DEF Next, Trainer
<1> QED
  BY <1>1, <1>2, PTL DEF Spec

(* Whatever runs come and go while batches are received, a slot's buffer    *)
(* holds samples of the run in it and of steps it has not completed.        *)
THEOREM BufferIsOwn == Spec => []BufferOwn
<1>1. IInv => BufferOwn
  <2> SUFFICES ASSUME IInv, NEW s \in Slots, NEW k \in DOMAIN seat[s].buffer
               PROVE  /\ seat[s].buffer[k].run = seat[s].run
                      /\ seat[s].buffer[k].step >= seat[s].progress
    BY DEF BufferOwn
  <2>1. seat[s] \in Seats /\ BufferOK(seat[s])
    BY DEF IInv, SeatOK
  <2>2. seat[s].buffer[k] \in Samples
    BY <2>1, LenProperties, ElementOfSeq DEF Seats
  <2>3. seat[s].buffer[k].step \in Nat /\ seat[s].progress \in Nat
    <3>1. seat[s].buffer[k].step \in Nat
      BY <2>2, PackerAssumption DEF Samples
    <3>2. seat[s].progress \in 0 .. MaxBatches
      BY <2>1 DEF Seats
    <3> QED
      BY <3>1, <3>2, PackerAssumption
  <2> QED
    BY <2>1, <2>3 DEF BufferOK
<1> QED
  BY <1>1, Invariance, PTL

(* An adapter goes out as the step that counts its own optimizer steps.     *)
THEOREM BroadcastStepsCounted == Spec => []StepsCounted
<1>1. IInv => StepsCounted
  <2> SUFFICES ASSUME IInv, pc = "top", NEW s \in Ready
               PROVE  adapter[s] = [run |-> seat[s].run, steps |-> seat[s].progress]
    BY DEF StepsCounted
  <2>1. /\ adapter[s] \in [run : Runs \cup {NoRun}, steps : 0 .. MaxBatches]
        /\ adapter[s].run = seat[s].run /\ adapter[s].steps = seat[s].progress
    BY DEF IInv, SeatTypeOK, CountInv, Ready
  <2> QED
    BY <2>1
<1> QED
  BY <1>1, Invariance, PTL

-----------------------------------------------------------------------------
(* The places that samples of a run have in its batches, and those of the   *)
(* batches of the steps from one on and before another.                     *)
Places(S, r) == {<<x.step, x.i>> : x \in {y \in S : y.run = r}}

Due(batches, from, to) == UNION {{n} \X DOMAIN batches[n + 1] : n \in from .. to - 1}

(* Of the steps from one on that were received, every sample is in the      *)
(* buffer or has been trained on, and what was trained on is of that step.  *)
Whole(x, done, batches, at) ==
    /\ x.received <= Len(batches)
    /\ Places(Range(x.buffer), x.run) \cup done = Due(batches, at, x.received)
    /\ \A p \in done : p[1] = at

(* The step a run's gradient is for: not the next one before the optimizer   *)
(* has made it.                                                             *)
At(s) == IF pc \in {"sync", "step"} THEN seat[s].progress - Pending(seat[s]) ELSE seat[s].progress

Done(s) == Places(grad[s] \cup Trained, seat[s].run)

WholeInv ==
    \A s \in Slots :
        seat[s].run # NoRun /\ dir[seat[s].run] # "gone" =>
            Whole(seat[s], Done(s), outbox[seat[s].run], At(s))

(* A gradient that is left in a slot is of a run that does not come back.   *)
LeftoverInv ==
    \A s \in Slots : \A g \in grad[s] :
        g.run # seat[s].run => dir[g.run] \in {"evicted", "gone"}

PackInv ==
    /\ \E rows \in Seq(Rows) : packed = [w \in Ranks |-> [k \in DOMAIN rows |-> rows[k][w]]]
    /\ pc # "sync" => Trained = {}
    /\ stable \in [Runs -> 0 .. MaxBatches] /\ position \in Slots
    /\ \A s \in Slots : grad[s] \subseteq Grads

BatchInv == PackInv /\ Apart(seat) /\ LeftoverInv /\ WholeInv

(* One more batch is due when it has been received.                         *)
LEMMA DueOfNext ==
  ASSUME NEW batches, NEW at \in Nat, NEW n \in Nat, at <= n
  PROVE  Due(batches, at, n + 1) = Due(batches, at, n) \cup ({n} \X DOMAIN batches[n + 1])
<1>1. at .. (n + 1) - 1 = (at .. n - 1) \cup {n}
  OBVIOUS
<1> QED
  BY <1>1 DEF Due

(* The first batch that is due and the others.                              *)
LEMMA DueOfFirst ==
  ASSUME NEW batches, NEW at \in Nat, NEW n \in Nat, at < n
  PROVE  /\ Due(batches, at, n) = ({at} \X DOMAIN batches[at + 1]) \cup Due(batches, at + 1, n)
         /\ \A p \in Due(batches, at + 1, n) : p[1] \in Nat /\ p[1] > at
<1>1. at .. n - 1 = {at} \cup (at + 1 .. n - 1)
  OBVIOUS
<1>2. \A k \in at + 1 .. n - 1 : k \in Nat /\ k > at
  OBVIOUS
<1> QED
  BY <1>1, <1>2 DEF Due

(* Only batches before the last one received are due.                       *)
LEMMA DueOfSame ==
  ASSUME NEW b, NEW c, NEW at, NEW n, \A k \in at .. n - 1 : b[k + 1] = c[k + 1]
  PROVE  Due(b, at, n) = Due(c, at, n)
BY DEF Due

LEMMA PlacesOfBoth ==
  ASSUME NEW S, NEW T, NEW r
  PROVE  Places(S \cup T, r) = Places(S, r) \cup Places(T, r)
BY DEF Places

(* A sequence is the part up to a place and the part after it.              *)
LEMMA RangeOfParts ==
  ASSUME NEW S, NEW s \in Seq(S), NEW m \in Nat, m <= Len(s)
  PROVE  Range(s) = Range(SubSeq(s, 1, m)) \cup Range(SubSeq(s, m + 1, Len(s)))
<1>1. Len(s) \in Nat /\ SubSeq(s, 1, Len(s)) = s
  BY LenProperties, SubSeqFull
<1> DEFINE n == Len(s)
           a == SubSeq(s, 1, m)
           b == SubSeq(s, m + 1, n)
<1> HIDE DEF n
<1>2. \A i \in 1 .. n : s[i] \in S
  BY ElementOfSeq DEF n
<1>3. a \in Seq(S) /\ b \in Seq(S)
  <2>1. \A i \in 1 .. m : s[i] \in S
    BY <1>1, <1>2 DEF n
  <2>2. \A i \in m + 1 .. n : s[i] \in S
    BY <1>1, <1>2 DEF n
  <2> QED
    BY <1>1, <2>1, <2>2, SubSeqProperties DEF n
<1>4. a \o b = s
  <2>1. 1 \in 1 .. n + 1 /\ m \in 1 - 1 .. n /\ n \in m .. n /\ n \in Int /\ m \in Int
    BY <1>1 DEF n
  <2>2. a \o b = SubSeq(s, 1, n)
    BY <2>1, ConcatAdjacentSubSeq DEF n
  <2> QED
    BY <1>1, <2>2 DEF n
<1> HIDE DEF a, b
<1> QED
  BY <1>3, <1>4, RangeConcatenation, ZenonT(40) DEF a, b, n

(* A run that is new to a slot has nothing due and left nothing there.      *)
LEMMA WholeNewcomer ==
  ASSUME NEW r \in Runs \cup {NoRun}, NEW batches, Len(batches) \in Nat
  PROVE  Whole(Newcomer(r), {}, batches, 0)
<1>1. Range(Newcomer(r).buffer) = {} /\ Newcomer(r).received = 0
  BY DEF Newcomer, Range
<1>2. Due(batches, 0, 0) = {}
  <2>1. 0 .. 0 - 1 = {}
    OBVIOUS
  <2> QED
    BY <2>1 DEF Due
<1> QED
  BY <1>1, <1>2 DEF Whole, Places

(* A pack moves samples of the step at hand from the buffer to the trainer. *)
LEMMA WholeRelieved ==
  ASSUME NEW x, SeatOK(x), ~x.ready, NEW m \in Nat, m <= Len(x.buffer),
         m > 0 => x.buffer # << >>,
         \A k \in 1 .. m : x.buffer[k].step <= x.progress,
         NEW batches, NEW done, Whole(x, done, batches, x.progress)
  PROVE  Whole(Relieved(x, m), done \cup Places(Range(SubSeq(x.buffer, 1, m)), x.run),
               batches, x.progress)
<1> DEFINE z == Relieved(x, m)
           head == SubSeq(x.buffer, 1, m)
           tail == SubSeq(x.buffer, m + 1, Len(x.buffer))
<1>1. z.run = x.run /\ z.received = x.received /\ z.buffer = tail
  BY PackedOK
<1>2. /\ x.buffer \in Seq(Samples) /\ Len(x.buffer) \in Nat /\ x.progress \in Nat
      /\ DOMAIN x.buffer = 1 .. Len(x.buffer)
  BY PackerAssumption, LenProperties DEF SeatOK, Seats
<1> HIDE DEF z
<1>3. Range(x.buffer) = Range(head) \cup Range(tail)
  BY <1>2, RangeOfParts
<1>4. \A y \in Range(head) : y.step = x.progress
  <2>1. \A k \in 1 .. m : x.buffer[k] \in Samples /\ x.buffer[k].step = x.progress
    <3> TAKE k \in 1 .. m
    <3>1. k \in 1 .. Len(x.buffer)
      BY <1>2
    <3>2. x.buffer[k] \in Samples
      BY <1>2, <3>1, ElementOfSeq
    <3>3. x.buffer[k].step \in Nat
      BY <3>2, PackerAssumption DEF Samples
    <3>4. x.progress <= x.buffer[k].step /\ x.buffer[k].step <= x.progress
      BY <1>2, <3>1 DEF SeatOK, BufferOK
    <3> QED
      BY <1>2, <3>2, <3>3, <3>4
  <2>2. /\ head \in Seq(Samples) /\ Len(head) = m
        /\ \A k \in 1 .. m : head[k] = x.buffer[k]
    <3> DEFINE b == x.buffer
    <3>1. \A k \in 1 .. m : b[k] \in Samples
      BY <2>1
    <3> HIDE DEF b
    <3>2. /\ SubSeq(b, 1, m) \in Seq(Samples)
          /\ Len(SubSeq(b, 1, m)) = IF 1 <= m THEN m - 1 + 1 ELSE 0
          /\ \A i \in 1 .. m - 1 + 1 : SubSeq(b, 1, m)[i] = b[1 + i - 1]
      BY <3>1, SubSeqProperties
    <3>3. m - 1 + 1 = m /\ (~(1 <= m) => m = 0) /\ \A i \in 1 .. m : 1 + i - 1 = i
      OBVIOUS
    <3> QED
      BY <3>2, <3>3 DEF b
  <2> HIDE DEF head
  <2>3. Range(head) = {head[k] : k \in 1 .. m}
    BY <2>2, RangeEquality
  <2> QED
    BY <2>1, <2>2, <2>3
<1> HIDE DEF head, tail
<1>5. \A p \in Places(Range(head), x.run) : p[1] = x.progress
  BY <1>4 DEF Places
<1>6. Places(Range(x.buffer), x.run) = Places(Range(head), x.run) \cup Places(Range(tail), x.run)
  BY <1>3, PlacesOfBoth
<1>7. Whole(z, done \cup Places(Range(head), x.run), batches, x.progress)
  BY <1>1, <1>5, <1>6 DEF Whole
<1> QED
  BY <1>7 DEF z, head

(* When the step is made its batch has been trained on and nothing else has. *)
LEMMA WholeStepped ==
  ASSUME NEW x, SeatOK(x), NEW n \in Nat, x.progress = n + 1,
         NEW batches, NEW done, Whole(x, done, batches, n)
  PROVE  /\ done = {n} \X DOMAIN batches[n + 1]
         /\ Whole(x, {}, batches, n + 1)
<1> DEFINE B == Places(Range(x.buffer), x.run)
<1>1. n < x.received /\ x.received \in Nat
  BY PackerAssumption DEF SeatOK, Seats
<1>2. \A p \in B : p[1] \in Nat /\ p[1] > n
  <2>1. /\ x.buffer \in Seq(Samples) /\ Range(x.buffer) = {x.buffer[k] : k \in 1 .. Len(x.buffer)}
        /\ DOMAIN x.buffer = 1 .. Len(x.buffer)
    BY RangeEquality, LenProperties DEF SeatOK, Seats
  <2>2. \A k \in 1 .. Len(x.buffer) : x.buffer[k].step \in Nat /\ x.buffer[k].step > n
    <3> TAKE k \in 1 .. Len(x.buffer)
    <3>1. x.buffer[k] \in Samples
      BY <2>1, ElementOfSeq
    <3>2. x.buffer[k].step \in Nat
      BY <3>1, PackerAssumption DEF Samples
    <3>3. n + 1 <= x.buffer[k].step
      BY <2>1 DEF SeatOK, BufferOK
    <3> QED
      BY <3>2, <3>3
  <2> QED
    BY <2>1, <2>2 DEF Places
<1> HIDE DEF B
<1>3. /\ B \cup done = ({n} \X DOMAIN batches[n + 1]) \cup Due(batches, n + 1, x.received)
      /\ \A p \in Due(batches, n + 1, x.received) : p[1] \in Nat /\ p[1] > n
      /\ \A p \in done : p[1] = n
  BY <1>1, DueOfFirst DEF Whole, B
<1>4. \A p \in {n} \X DOMAIN batches[n + 1] : p[1] = n
  OBVIOUS
<1> DEFINE D == {n} \X DOMAIN batches[n + 1]
           L == Due(batches, n + 1, x.received)
<1> HIDE DEF D, L
<1>5. done = D /\ B = L
  <2>1. \A p \in B \cup L : p[1] \in Nat /\ p[1] > n
    BY <1>2, <1>3 DEF L
  <2>2. \A p \in done \cup D : p[1] = n
    BY <1>3, <1>4 DEF D
  <2>3. B \cup done = D \cup L
    BY <1>3 DEF D, L
  <2>4. \A p : ~(p \in B \cup L /\ p \in done \cup D)
    BY <2>1, <2>2
  <2> QED
    BY <2>3, <2>4
<1> QED
  BY <1>5 DEF Whole, B, D, L

(* A batch that does not evict its run is buffered as a whole.              *)
LEMMA WholeReceived ==
  ASSUME SeatTypeOK, NEW x, SeatOK(x), Receivable(x),
         Valid(outbox[x.run][x.received + 1]) = Len(outbox[x.run][x.received + 1]),
         NEW done, Whole(x, done, outbox[x.run], x.progress)
  PROVE  Whole(Received(x), done, outbox[x.run], x.progress)
<1> DEFINE n == x.received
           batches == outbox[x.run]
           got == {Sample(x.run, n, i) : i \in 1 .. Valid(batches[n + 1])}
           y == Received(x)
<1>1. /\ y.run = x.run /\ y.received = n + 1 /\ Range(y.buffer) = Range(x.buffer) \cup got
  BY ReceivedOK
<1>2. /\ x.run \in Runs /\ n \in Nat /\ x.progress \in Nat /\ x.progress <= n
      /\ batches \in Seq(BatchKinds) /\ Len(batches) \in Nat /\ n + 1 \in 1 .. Len(batches)
  <2>1. x.run \in Runs /\ n \in Nat /\ n < Len(batches) /\ x.progress \in Nat /\ x.progress <= n
    BY PackerAssumption DEF Receivable, SeatOK, Seats
  <2>2. batches \in Seq(BatchKinds)
    BY <2>1 DEF SeatTypeOK
  <2> HIDE DEF batches, n
  <2> QED
    BY <2>1, <2>2, LenProperties
<1>3. DOMAIN batches[n + 1] = 1 .. Valid(batches[n + 1])
  <2>1. batches[n + 1] \in BatchKinds
    BY <1>2, ElementOfSeq
  <2>2. batches[n + 1] \in Seq([size : 0 .. SeqLen, form : {"rl", "sft", "image"}])
    BY <2>1, PackerAssumption
  <2> QED
    BY <2>2, LenProperties
<1>4. Places(got, x.run) = {n} \X DOMAIN batches[n + 1]
  <2>1. \A i : /\ Sample(x.run, n, i).run = x.run /\ Sample(x.run, n, i).step = n
               /\ Sample(x.run, n, i).i = i
    BY DEF Sample
  <2>2. Places(got, x.run) = {<<n, i>> : i \in 1 .. Valid(batches[n + 1])}
    <3> DEFINE V == 1 .. Valid(batches[n + 1])
    <3> HIDE DEF V, n
    <3>1. {Sample(x.run, n, i) : i \in V} = {z \in {Sample(x.run, n, i) : i \in V} : z.run = x.run}
      BY <2>1
    <3>2. {<<z.step, z.i>> : z \in {Sample(x.run, n, i) : i \in V}} = {<<n, i>> : i \in V}
      BY <2>1
    <3> QED
      BY <3>1, <3>2 DEF Places, V
  <2> QED
    BY <1>3, <2>2
<1> HIDE DEF y, got
<1>5. Places(Range(y.buffer), y.run) = Places(Range(x.buffer), x.run) \cup ({n} \X DOMAIN batches[n + 1])
  BY <1>1, <1>4, PlacesOfBoth
<1>6. Due(batches, x.progress, n + 1) =
        Due(batches, x.progress, n) \cup ({n} \X DOMAIN batches[n + 1])
  <2> HIDE DEF n, batches
  <2> QED
    BY <1>2, DueOfNext, SMTT(30)
<1>7. /\ Places(Range(x.buffer), x.run) \cup done = Due(batches, x.progress, n)
      /\ \A p \in done : p[1] = x.progress
  BY DEF Whole
<1>8. y.received <= Len(batches)
  BY <1>1, <1>2
<1>9. Places(Range(y.buffer), y.run) \cup done = Due(batches, x.progress, y.received)
  <2> HIDE DEF n, batches
  <2> QED
    BY <1>1, <1>5, <1>6, <1>7
<1> QED
  BY <1>7, <1>8, <1>9 DEF Whole, y

(* What the invariant says of one slot while batches are received.          *)
Gathered(x, gs, d) ==
    /\ \A g \in gs : g.run # x.run => d[g.run] \in {"evicted", "gone"}
    /\ x.run # NoRun /\ d[x.run] = "live" =>
         Whole(x, Places(gs, x.run), outbox[x.run], x.progress)

LEMMA GatheredRediscovered ==
  ASSUME SeatTypeOK, NEW d \in [Runs -> {"none", "live", "evicted", "gone"}],
         NEW gs, gs \subseteq Grads, NEW x, x.run # NoRun => d[x.run] # "none",
         x.run \in Runs \cup {NoRun},
         Gathered(x, gs, d), NEW y, Rediscovered(x, y, d)
  PROVE  Gathered(y, gs, d)
<1>1. CASE y = x
  BY <1>1
<1>2. CASE y # x
  <2>1. x.run = NoRun \/ d[x.run] # "live"
    BY <1>2 DEF Rediscovered
  <2>2. PICK r \in Runs \cup {NoRun} : y = Newcomer(r) /\ (r = NoRun \/ d[r] = "live")
    BY <1>2, NewcomerOK DEF Rediscovered
  <2>3. y.run = r /\ y.progress = 0
    BY <2>2 DEF Newcomer
  <2>4. \A g \in gs : g.run \in Runs /\ g.run # NoRun
    BY PackerAssumption DEF Grads
  <2>5. \A g \in gs : d[g.run] \in {"evicted", "gone"}
    <3> TAKE g \in gs
    <3>1. CASE g.run # x.run
      BY <3>1 DEF Gathered
    <3>2. CASE g.run = x.run
      BY <2>1, <2>4, <3>2
    <3> QED
      BY <3>1, <3>2
  <2>6. CASE r # NoRun
    <3>1. Places(gs, r) = {}
      BY <2>2, <2>5, <2>6 DEF Places
    <3>2. Len(outbox[r]) \in Nat
      BY <2>6, LenProperties DEF SeatTypeOK
    <3>3. Whole(y, Places(gs, r), outbox[r], 0)
      BY <2>2, <3>1, <3>2, WholeNewcomer
    <3> QED
      BY <2>3, <2>5, <3>3 DEF Gathered
  <2> QED
    BY <2>3, <2>5, <2>6 DEF Gathered
<1> QED
  BY <1>1, <1>2

(* A run whose batch was not buffered as a whole is not live any more.      *)
LEMMA GatheredReceived ==
  ASSUME SeatTypeOK, NEW t, NEW s \in Slots, SeatOK(t[s]),
         NEW gs, gs \subseteq Grads, Gathered(t[s], gs, dir),
         NEW d, d = [r \in Runs |-> IF r \in Evicted(t) THEN "evicted" ELSE dir[r]]
  PROVE  Gathered(Received(t[s]), gs, d)
<1> DEFINE x == t[s]
           y == Received(x)
<1>1. x.run \in Runs \cup {NoRun} /\ y.run = x.run /\ y.progress = x.progress
  BY ReceivedOK DEF SeatOK, Seats
<1>2. \A r \in Runs : d[r] = IF r \in Evicted(t) THEN "evicted" ELSE dir[r]
  OBVIOUS
<1>3. \A g \in gs : g.run # y.run => d[g.run] \in {"evicted", "gone"}
  <2> TAKE g \in gs
  <2>1. g.run \in Runs
    BY DEF Grads
  <2> QED
    BY <1>1, <1>2, <2>1 DEF Gathered
<1>4. ASSUME x.run # NoRun, d[x.run] = "live"
      PROVE  Whole(y, Places(gs, x.run), outbox[x.run], x.progress)
  <2>1. x.run \in Runs /\ dir[x.run] = "live" /\ x.run \notin Evicted(t)
    BY <1>1, <1>2, <1>4
  <2>2. Whole(x, Places(gs, x.run), outbox[x.run], x.progress)
    BY <1>4, <2>1 DEF Gathered
  <2>3. CASE ~Receivable(x)
    BY <2>2, <2>3 DEF Received
  <2>4. CASE Receivable(x)
    <3> DEFINE batch == outbox[x.run][x.received + 1]
    <3>1. ~(batch = << >> \/ Valid(batch) < Len(batch))
      BY <2>1, <2>4 DEF Evicted
    <3>2. batch \in BatchKinds
      <4>1. x.received \in Nat /\ x.received < Len(outbox[x.run])
        BY <2>4, PackerAssumption DEF Receivable, SeatOK, Seats
      <4>2. outbox[x.run] \in Seq(BatchKinds) /\ Len(outbox[x.run]) \in Nat
        BY <2>1, LenProperties DEF SeatTypeOK
      <4> QED
        BY <4>1, <4>2, ElementOfSeq
    <3>3. Len(batch) \in Nat
      <4>1. batch \in Seq([size : 0 .. SeqLen, form : {"rl", "sft", "image"}])
        BY <3>2, PackerAssumption
      <4> HIDE DEF batch
      <4> QED
        BY <4>1, LenProperties
    <3>4. Valid(batch) \in Nat /\ Valid(batch) <= Len(batch)
      <4> HIDE DEF batch
      <4> QED
        BY <3>2, ValidSamples
    <3>5. Valid(batch) = Len(batch)
      <4> HIDE DEF batch
      <4> QED
        BY <3>1, <3>3, <3>4
    <3> QED
      BY <2>2, <2>4, <3>5, WholeReceived
  <2> QED
    BY <2>3, <2>4
<1> HIDE DEF x, y
<1>5. Gathered(y, gs, d)
  BY <1>1, <1>3, <1>4 DEF Gathered
<1> QED
  BY <1>5 DEF x, y

(* An empty selection has no tokens.                                        *)
LEMMA TokensOfNone == Tokens({}) = 0
<1> DEFINE it == CHOOSE g : g = [T \in SUBSET {} |-> IF T = {} THEN 0
                   ELSE LET x == CHOOSE x \in T : TRUE
                        IN  seat[x[1]].buffer[x[2]].size + g[T \ {x}]]
           h == [T \in SUBSET {} |-> 0]
<1>1. Tokens({}) = it[{}]
  BY DEF Tokens, MapThenSumSet, MapThenFoldSet
<1>2. h = [T \in SUBSET {} |-> IF T = {} THEN 0
             ELSE LET x == CHOOSE x \in T : TRUE
                  IN  seat[x[1]].buffer[x[2]].size + h[T \ {x}]]
  OBVIOUS
<1>3. it = [T \in SUBSET {} |-> IF T = {} THEN 0
              ELSE LET x == CHOOSE x \in T : TRUE
                   IN  seat[x[1]].buffer[x[2]].size + it[T \ {x}]]
  BY <1>2
<1>4. it[{}] = 0
  BY <1>3
<1> QED
  BY <1>1, <1>4

(* A nonempty set of numbers up to N has a greatest one, and Max returns it. *)
LEMMA MaxOfFew ==
  ASSUME NEW N \in Nat, NEW S, S \subseteq 0 .. N, S # {}
  PROVE  Max(S) \in S
<1> DEFINE R == {N - y : y \in S}
<1>1. R \subseteq Nat /\ R # {}
  <2>1. \A y \in S : N - y \in Nat
    <3>1. \A y \in 0 .. N : N - y \in Nat
      OBVIOUS
    <3> QED
      BY <3>1
  <2>2. PICK y \in S : TRUE
    OBVIOUS
  <2>3. N - y \in R
    BY <2>2
  <2> QED
    BY <2>1, <2>3
<1>2. Min(R) \in R /\ \A z \in R : Min(R) <= z
  <2> HIDE DEF R
  <2> QED
    BY <1>1, MinOfNats
<1>3. PICK m \in S : Min(R) = N - m
  BY <1>2
<1>4. \A y \in S : m >= y
  <2> TAKE y \in S
  <2>1. N - m <= N - y
    BY <1>2, <1>3
  <2>2. m \in Nat /\ y \in Nat
    OBVIOUS
  <2> QED
    BY <2>1, <2>2
<1> QED
  BY <1>4 DEF Max

(* There is a turn that was the last one, so the position stays a slot.     *)
LEMMA NextPositionOK ==
  ASSUME position \in Slots, \A s \in Slots : SeatOK(seat[s]), Counted # {}
  PROVE  NextPosition(Offered, Fitting(Offered)) \in Slots
<1> DEFINE Q == Offered
           S == Fitting(Q)
           turns == {Turn(o[1]) : o \in S}
           more == IF Tokens(S) < Budget THEN Q \ S ELSE {}
           last == IF more = {} THEN Max(turns) ELSE Min({Turn(o[1]) : o \in more})
<1>1. NumSlots \in Nat \ {0} /\ position \in Nat
  BY PackerAssumption DEF Slots
<1>2. \A s \in Slots : Turn(s) \in 0 .. NumSlots - 1
  <2> TAKE s \in Slots
  <2>1. s + NumSlots - position \in Int
    BY <1>1 DEF Slots
  <2>2. \A a \in Int, d \in Nat \ {0} : a % d \in 0 .. d - 1
    OBVIOUS
  <2> QED
    BY <1>1, <2>1, <2>2 DEF Turn
<1>3. S \subseteq Q /\ \A o \in Q : o[1] \in Slots
  BY DEF Fitting, Offered
<1>4. Q # {}
  <2>1. PICK s \in Slots : Workable(seat[s])
    BY DEF Counted
  <2>2. 1 \in DOMAIN Current(seat[s])
    BY <2>1, CurrentOK
  <2>3. <<s, 1>> \in Offered
    BY <2>2 DEF Offered
  <2> QED
    BY <2>3
<1> HIDE DEF Q, S
<1>5. last \in 0 .. NumSlots - 1
  <2>1. CASE more # {}
    <3> DEFINE T == {Turn(o[1]) : o \in more}
    <3>1. T \subseteq 0 .. NumSlots - 1 /\ T # {}
      BY <1>2, <1>3, <2>1
    <3> HIDE DEF T
    <3>2. Min(T) \in T
      <4>1. T \subseteq Nat
        BY <1>1, <3>1
      <4> QED
        BY <3>1, <4>1, MinOfNats
    <3> QED
      BY <2>1, <3>1, <3>2 DEF T
  <2>2. CASE more = {}
    <3>1. S # {}
      <4>1. SUFFICES ASSUME S = {} PROVE FALSE
        OBVIOUS
      <4>2. 0 < Budget
        BY PackerAssumption DEF Budget
      <4> QED
        BY <1>4, <2>2, <4>1, <4>2, TokensOfNone
    <3>2. turns \subseteq 0 .. NumSlots - 1 /\ turns # {}
      BY <1>2, <1>3, <3>1
    <3> HIDE DEF turns
    <3>3. Max(turns) \in turns
      <4>1. NumSlots - 1 \in Nat
        BY <1>1
      <4> QED
        BY <3>2, <4>1, MaxOfFew
    <3> QED
      BY <2>2, <3>2, <3>3
  <2> QED
    BY <2>1, <2>2
<1>6. NextPosition(Q, S) = (position + last + 1) % NumSlots
  BY DEF NextPosition
<1> HIDE DEF last
<1>7. (position + last + 1) % NumSlots \in 0 .. NumSlots - 1
  <2>1. position + last + 1 \in Int
    BY <1>1, <1>5
  <2>2. \A a \in Int, d \in Nat \ {0} : a % d \in 0 .. d - 1
    OBVIOUS
  <2> QED
    BY <1>1, <2>1, <2>2
<1> QED
  BY <1>6, <1>7 DEF Q, S, Slots

(* The samples in micro batches p.                                          *)
TrainedIn(p) == UNION {Range(b.samples) : b \in UNION {Range(p[w]) : w \in Ranks}}

(* By rank or by row, the samples are the same.                             *)
LEMMA TrainedRows ==
  ASSUME NEW rows \in Seq(Rows), NEW p, p = [w \in Ranks |-> [k \in DOMAIN rows |-> rows[k][w]]]
  PROVE  /\ \A x : x \in TrainedIn(p) <=>
               \E row \in Range(rows), w \in Ranks : x \in Range(row[w].samples)
         /\ TrainedIn(p) \subseteq Samples
<1>1. \A w \in Ranks : Range(p[w]) = {rows[k][w] : k \in DOMAIN rows}
  BY DEF Range
<1>2. Range(rows) = {rows[k] : k \in DOMAIN rows}
  BY DEF Range
<1>3. \A x : x \in TrainedIn(p) <=>
        \E row \in Range(rows), w \in Ranks : x \in Range(row[w].samples)
  <2>1. \A x : x \in TrainedIn(p) <=> \E w \in Ranks : \E b \in Range(p[w]) : x \in Range(b.samples)
    BY DEF TrainedIn
  <2>2. \A x : \A w \in Ranks :
          (\E b \in Range(p[w]) : x \in Range(b.samples))
            <=> \E row \in Range(rows) : x \in Range(row[w].samples)
    <3> TAKE x
    <3> TAKE w \in Ranks
    <3>1. \A b : b \in Range(p[w]) <=> \E row \in Range(rows) : b = row[w]
      <4> DEFINE D == DOMAIN rows
                 P == Range(p[w])
                 R == Range(rows)
      <4>1. \A b : b \in P <=> \E k \in D : b = rows[k][w]
        BY <1>1
      <4>2. \A row : row \in R <=> \E k \in D : row = rows[k]
        BY <1>2
      <4> HIDE DEF P, R, D
      <4>3. \A b : b \in P <=> \E row \in R : b = row[w]
        BY <4>1, <4>2, Zenon
      <4> QED
        BY <4>3 DEF P, R
    <3> QED
      BY <3>1, Zenon
  <2> QED
    BY <2>1, <2>2
<1>4. ASSUME NEW row \in Range(rows), NEW w \in Ranks PROVE Range(row[w].samples) \subseteq Samples
  <2>1. row \in Rows
    BY RangeOfSeq
  <2>2. row \in Seq(MicroBatches) /\ w \in 1 .. Len(row)
    BY <2>1 DEF Rows, Ranks
  <2>3. row[w] \in MicroBatches
    BY <2>2, ElementOfSeq
  <2>4. row[w].samples \in Seq(Samples)
    BY <2>3 DEF MicroBatches
  <2> QED
    BY <2>4, RangeOfSeq
<1> QED
  BY <1>3, <1>4

(* What a pack takes of the buffer of slot s.                               *)
FrontOf(S, s) == SubSeq(seat[s].buffer, 1, Taken(S, s))

LEMMA FrontOfOK ==
  ASSUME NEW s \in Slots, SeatOK(seat[s]), NEW S
  PROVE  FrontOf(S, s) \in Seq(Samples) /\ \A x \in Range(FrontOf(S, s)) : x.run = seat[s].run
<1> DEFINE b == seat[s].buffer
           m == Taken(S, s)
           f == SubSeq(b, 1, m)
<1>1. m \in Nat /\ m <= Len(b)
  BY TakenOK
<1>2. b \in Seq(Samples) /\ Len(b) \in Nat /\ DOMAIN b = 1 .. Len(b)
  BY LenProperties DEF SeatOK, Seats
<1>3. \A k \in 1 .. Len(b) : b[k].run = seat[s].run
  BY <1>2 DEF SeatOK, BufferOK
<1>4. Range(b) = {b[k] : k \in 1 .. Len(b)}
  BY <1>2, RangeEquality
<1> HIDE DEF b, m
<1>5. f \in Seq(Samples)
  <2>1. \A k \in 1 .. m : b[k] \in Samples
    BY <1>1, <1>2, ElementOfSeq
  <2> QED
    BY <1>1, <2>1, SubSeqProperties
<1>6. Range(f) \subseteq Range(b)
  BY <1>1, <1>2, RangeOfParts
<1> HIDE DEF f
<1>7. \A x \in Range(f) : x.run = seat[s].run
  BY <1>3, <1>4, <1>6
<1> QED
  BY <1>5, <1>7 DEF FrontOf, f, b, m

(* The micro batches of a pack, which are those of the slots in turn.       *)
RowsOf(S) == FlattenSeq([k \in 1 .. NumSlots |-> Prepared(FrontOf(S, k - 1))])

(* They are rows, and of each run they have what was taken of it.           *)
LEMMA RowsOfOK ==
  ASSUME \A s \in Slots : SeatOK(seat[s]), Apart(seat), NEW S,
         NEW p, p = [w \in Ranks |-> [k \in DOMAIN RowsOf(S) |-> RowsOf(S)[k][w]]]
  PROVE  /\ RowsOf(S) \in Seq(Rows)
         /\ \A s \in Slots : seat[s].run # NoRun =>
              {x \in TrainedIn(p) : x.run = seat[s].run} = Range(FrontOf(S, s))
<1> DEFINE grid == [k \in 1 .. NumSlots |-> Prepared(FrontOf(S, k - 1))]
           rows == RowsOf(S)
<1>1. NumSlots \in Nat \ {0}
  BY PackerAssumption
<1>2. /\ \A k \in 1 .. NumSlots : k - 1 \in Slots
      /\ \A s \in Slots : s + 1 \in 1 .. NumSlots /\ (s + 1) - 1 = s
  BY <1>1 DEF Slots
<1>3. ASSUME NEW k \in 1 .. NumSlots
      PROVE  /\ grid[k] \in Seq(Rows)
             /\ \A x : x \in Range(FrontOf(S, k - 1)) <=>
                  \E row \in Range(grid[k]), w \in Ranks : x \in Range(row[w].samples)
  <2> DEFINE f == FrontOf(S, k - 1)
             r == seat[k - 1].run
             g == Prepared(f)
  <2>1. f \in Seq(Samples) /\ \A x \in Range(f) : x.run = r
    BY <1>2, FrontOfOK
  <2> HIDE DEF f, r
  <2>2. /\ g \in Seq(Rows)
        /\ \A x : x \in Range(f) <=> \E i \in DOMAIN g, w \in Ranks : x \in Range(g[i][w].samples)
    BY <2>1, PreparedOK
  <2> HIDE DEF g
  <2>3. Range(g) = {g[i] : i \in DOMAIN g}
    BY DEF Range
  <2>4. \A x : x \in Range(f) <=> \E row \in Range(g), w \in Ranks : x \in Range(row[w].samples)
    BY <2>2, <2>3
  <2>5. grid[k] = g
    BY DEF g, f
  <2> QED
    BY <2>2, <2>4, <2>5 DEF f
<1>4. grid \in [1 .. NumSlots -> Seq(Rows)]
  BY <1>3
<1>5. rows = FlattenSeq(grid)
  BY DEF RowsOf
<1> HIDE DEF grid, rows
<1>6. /\ rows \in Seq(Rows)
      /\ \A y : y \in Range(rows) <=> \E k \in 1 .. NumSlots : y \in Range(grid[k])
  BY <1>1, <1>4, <1>5, FlattenOK
<1>7. p = [w \in Ranks |-> [k \in DOMAIN rows |-> rows[k][w]]]
  BY DEF rows
<1>8. \A x : x \in TrainedIn(p) <=>
        \E row \in Range(rows), w \in Ranks : x \in Range(row[w].samples)
  BY <1>6, <1>7, TrainedRows
<1>9. \A x : x \in TrainedIn(p) <=> \E k \in 1 .. NumSlots : x \in Range(FrontOf(S, k - 1))
  BY <1>3, <1>6, <1>8
<1>10. \A x : x \in TrainedIn(p) <=> \E s \in Slots : x \in Range(FrontOf(S, s))
  <2>1. ASSUME NEW x, x \in TrainedIn(p) PROVE \E s \in Slots : x \in Range(FrontOf(S, s))
    BY <1>2, <1>9, <2>1
  <2>2. ASSUME NEW x, NEW s \in Slots, x \in Range(FrontOf(S, s)) PROVE x \in TrainedIn(p)
    <3>1. x \in Range(FrontOf(S, (s + 1) - 1))
      BY <1>2, <2>2
    <3> QED
      BY <1>2, <1>9, <3>1
  <2> QED
    BY <2>1, <2>2
<1>11. ASSUME NEW s \in Slots, seat[s].run # NoRun
       PROVE  {x \in TrainedIn(p) : x.run = seat[s].run} = Range(FrontOf(S, s))
  <2>1. \A z \in Slots : \A x \in Range(FrontOf(S, z)) : x.run = seat[z].run
    BY FrontOfOK
  <2>2. \A z \in Slots : seat[z].run = seat[s].run => z = s
    BY <1>11 DEF Apart
  <2> QED
    BY <1>10, <2>1, <2>2
<1> QED
  BY <1>6, <1>11 DEF rows

-----------------------------------------------------------------------------
(* What is taken of a run moves from its buffer into the micro batches.     *)
LEMMA PackBatches == ASSUME IInv, BatchInv, Pack PROVE BatchInv'
<1> USE DEF IInv, BatchInv
<1>1. /\ pc = "polled" /\ pc' = "sync" /\ Counted # {}
      /\ UNCHANGED <<dir, outbox, stable, adapter, grad>>
  BY DEF Pack, envVars, trainVars
<1> DEFINE grid(S) == [k \in 1 .. NumSlots |->
                        Prepared(SubSeq(seat[k - 1].buffer, 1, Taken(S, k - 1)))]
           Sent(rows) == packed' = [w \in Ranks |-> [k \in DOMAIN rows |-> rows[k][w]]]
           Moved(S) == seat' = [s \in Slots |->
               LET x == [seat[s] EXCEPT !.buffer = SubSeq(@, Taken(S, s) + 1, Len(@))]
               IN  IF Taken(S, s) > 0 THEN Progressed(x) ELSE x]
<1>9. \E Q \in {Offered} : \E S \in {Fitting(Q)} :
        /\ \E g \in {grid(S)} : \E rows \in {FlattenSeq(g)} : Sent(rows)
        /\ position' = NextPosition(Q, S)
        /\ Moved(S)
  BY DEF Pack
<1>2. PICK S : /\ S = Fitting(Offered)
               /\ Sent(FlattenSeq(grid(S)))
               /\ position' = NextPosition(Offered, S)
               /\ Moved(S)
  <2> HIDE DEF grid, Sent, Moved
  <2> QED
    BY <1>9
<1>3. packed' = [w \in Ranks |-> [k \in DOMAIN RowsOf(S) |-> RowsOf(S)[k][w]]]
  BY <1>2 DEF RowsOf, FrontOf
<1>4. /\ RowsOf(S) \in Seq(Rows)
      /\ \A s \in Slots : seat[s].run # NoRun =>
           {x \in Trained' : x.run = seat[s].run} = Range(FrontOf(S, s))
  <2>1. Trained' = TrainedIn(packed')
    BY DEF Trained, TrainedIn
  <2> QED
    BY <1>3, <2>1, RowsOfOK
<1>5. ASSUME NEW s \in Slots
      PROVE  /\ seat'[s] = Relieved(seat[s], Taken(S, s))
             /\ seat'[s].run = seat[s].run
             /\ seat'[s].progress - Pending(seat'[s]) = seat[s].progress
  <2>1. seat'[s] = Relieved(seat[s], Taken(S, s))
    BY <1>2 DEF Relieved
  <2>2. SeatOK(seat[s]) /\ ~seat[s].ready /\ seat[s].progress \in Nat
    BY <1>1, PackerAssumption DEF CountInv, SeatOK, Seats
  <2>3. seat'[s].run = seat[s].run /\ seat'[s].progress = seat[s].progress + Pending(seat'[s])
    BY <2>1, <2>2, TakenOK, PackedOK
  <2>4. Pending(seat'[s]) \in Nat
    BY DEF Pending
  <2> QED
    BY <2>1, <2>2, <2>3, <2>4
<1>6. PackInv'
  <2>1. position' \in Slots
    BY <1>1, <1>2, NextPositionOK DEF PackInv
  <2> QED
    BY <1>1, <1>3, <1>4, <2>1 DEF PackInv
<1>7. Apart(seat)' /\ LeftoverInv'
  BY <1>1, <1>5 DEF Apart, LeftoverInv
<1>8. WholeInv'
  <2> SUFFICES ASSUME NEW s \in Slots, seat[s].run # NoRun, dir[seat[s].run] # "gone"
               PROVE  Whole(seat'[s], Done(s)', outbox[seat[s].run], seat[s].progress)
    BY <1>1, <1>5 DEF WholeInv, At
  <2>1. Whole(seat[s], Places(grad[s], seat[s].run), outbox[seat[s].run], seat[s].progress)
    BY <1>1 DEF WholeInv, PackInv, At, Done
  <2>2. Done(s)' = Places(grad[s], seat[s].run) \cup Places(Range(FrontOf(S, s)), seat[s].run)
    <3>1. Places(Trained', seat[s].run) = Places(Range(FrontOf(S, s)), seat[s].run)
      <4>1. {x \in Trained' : x.run = seat[s].run}
              = {x \in Range(FrontOf(S, s)) : x.run = seat[s].run}
        BY <1>4
      <4> QED
        BY <4>1 DEF Places
    <3>2. Done(s)' = Places(grad[s] \cup Trained', seat[s].run)
      BY <1>1, <1>5 DEF Done
    <3> QED
      BY <3>1, <3>2, PlacesOfBoth
  <2>3. SeatOK(seat[s]) /\ ~seat[s].ready
    BY <1>1 DEF CountInv
  <2>4. /\ Taken(S, s) \in Nat /\ Taken(S, s) <= Len(seat[s].buffer)
        /\ Taken(S, s) > 0 => seat[s].buffer # << >>
        /\ \A k \in 1 .. Taken(S, s) : seat[s].buffer[k].step <= seat[s].progress
    BY <2>3, TakenOK
  <2> QED
    BY <1>5, <2>1, <2>2, <2>3, <2>4, WholeRelieved DEF FrontOf
<1> QED
  BY <1>6, <1>7, <1>8

(* While no micro batches are under way what has been trained on is in .grad. *)
LEMMA GatheredOfInv ==
  ASSUME IInv, BatchInv, pc # "sync", pc # "step", NEW s \in Slots
  PROVE  Gathered(seat[s], grad[s], dir) /\ grad[s] \subseteq Grads
<1>1. Trained = {} /\ grad[s] \subseteq Grads
  BY DEF BatchInv, PackInv
<1>2. seat[s].run # NoRun /\ dir[seat[s].run] = "live" =>
        Whole(seat[s], Places(grad[s], seat[s].run), outbox[seat[s].run], seat[s].progress)
  BY <1>1 DEF BatchInv, WholeInv, Done, At
<1> QED
  BY <1>1, <1>2 DEF BatchInv, LeftoverInv, Gathered

LEMMA GetBatchBatches == ASSUME IInv, BatchInv, GetBatch PROVE BatchInv'
<1>1. /\ pc \in {"pack", "polled"} /\ pc' = "polled"
      /\ UNCHANGED <<outbox, stable, position, packed, adapter, grad>>
  BY DEF GetBatch, trainVars
<1>2. PICK t \in Discovered(seat, dir) :
        /\ dir' = [r \in Runs |-> IF r \in Evicted(t) THEN "evicted" ELSE dir[r]]
        /\ seat' \in Discovered([s \in Slots |-> Received(t[s])], dir')
  BY DEF GetBatch
<1> DEFINE u == [s \in Slots |-> Received(t[s])]
<1>3. SeatTypeOK /\ (\A s \in Slots : SeatOK(seat[s])) /\ PastInv /\ Apart(seat)
  BY DEF IInv, BatchInv
<1>4. /\ \A s \in Slots : Rediscovered(seat[s], t[s], dir) /\ SeatOK(t[s])
      /\ \A s \in Slots : t[s].run # NoRun => dir[t[s].run] = "live"
      /\ Apart(t)
  BY <1>2, <1>3, DiscoveredOK
<1>5. \A s \in Slots : SeatOK(u[s]) /\ u[s].run = t[s].run
  BY <1>3, <1>4, ReceivedOK
<1>6. Apart(u)
  <2> HIDE DEF u
  <2> QED
    BY <1>4, <1>5 DEF Apart
<1>7. /\ \A s \in Slots : Rediscovered(u[s], seat'[s], dir') /\ SeatOK(seat'[s])
      /\ \A s \in Slots : seat'[s].run # NoRun => dir'[seat'[s].run] = "live"
      /\ Apart(seat')
  <2> HIDE DEF u
  <2>1. seat' \in Discovered(u, dir')
    BY <1>2 DEF u
  <2> QED
    BY <1>5, <1>6, <2>1, DiscoveredOK
<1>8. /\ dir \in [Runs -> {"none", "live", "evicted", "gone"}]
      /\ dir' \in [Runs -> {"none", "live", "evicted", "gone"}]
      /\ \A r \in Runs : dir'[r] = dir[r] \/ dir'[r] = "evicted"
  BY <1>2, <1>3 DEF SeatTypeOK
<1>9. ASSUME NEW s \in Slots PROVE Gathered(seat'[s], grad[s], dir')
  <2>1. Gathered(seat[s], grad[s], dir) /\ grad[s] \subseteq Grads
    BY <1>1, GatheredOfInv
  <2>2. /\ seat[s].run \in Runs \cup {NoRun} /\ t[s].run \in Runs \cup {NoRun}
        /\ seat[s].run # NoRun => dir[seat[s].run] # "none"
    BY <1>3, <1>4 DEF SeatOK, Seats, PastInv
  <2>3. Gathered(t[s], grad[s], dir)
    BY <1>3, <1>4, <1>8, <2>1, <2>2, GatheredRediscovered
  <2>4. Gathered(u[s], grad[s], dir')
    <3>1. Gathered(Received(t[s]), grad[s], dir')
      BY <1>2, <1>3, <1>4, <2>1, <2>3, GatheredReceived
    <3> QED
      BY <3>1
  <2>5. u[s].run \in Runs \cup {NoRun} /\ (u[s].run # NoRun => dir'[u[s].run] # "none")
    <3> HIDE DEF u
    <3> QED
      BY <1>4, <1>5, <1>8, <2>2
  <2> HIDE DEF u
  <2> QED
    BY <1>3, <1>7, <1>8, <2>1, <2>4, <2>5, GatheredRediscovered
<1>10. Trained' = {} /\ PackInv'
  <2>1. Trained = {}
    BY <1>1 DEF BatchInv, PackInv
  <2>2. Trained' = Trained
    BY <1>1 DEF Trained
  <2> QED
    BY <1>1, <2>1, <2>2 DEF BatchInv, PackInv
<1>11. LeftoverInv'
  BY <1>1, <1>9 DEF LeftoverInv, Gathered
<1>12. WholeInv'
  <2> SUFFICES ASSUME NEW s \in Slots, seat'[s].run # NoRun
               PROVE  Whole(seat'[s], Done(s)', outbox[seat'[s].run], seat'[s].progress)
    BY <1>1 DEF WholeInv, At
  <2>1. Done(s)' = Places(grad[s], seat'[s].run)
    BY <1>1, <1>10 DEF Done
  <2>2. dir'[seat'[s].run] = "live"
    BY <1>7
  <2> QED
    BY <1>9, <2>1, <2>2 DEF Gathered
<1> QED
  BY <1>7, <1>10, <1>11, <1>12 DEF BatchInv

(* A gradient stays that of its sample when it is scaled.                   *)
LEMMA Rescaled ==
  ASSUME NEW g \in Grads, NEW h, h = [g EXCEPT !.times = Min({@ + 1, 2})]
  PROVE  h \in Grads /\ h.run = g.run /\ h.step = g.step /\ h.i = g.i
<1>1. /\ g.run \in Runs /\ g.step \in 0 .. MaxBatches /\ g.i \in Nat /\ g.times \in {0, 1, 2}
      /\ g = [run |-> g.run, step |-> g.step, i |-> g.i, times |-> g.times]
  BY DEF Grads
<1>2. Min({g.times + 1, 2}) \in {0, 1, 2}
  <2> DEFINE T == {g.times + 1, 2}
  <2>1. T \subseteq Nat /\ T # {} /\ 2 \in T /\ \A y \in T : y >= 1
    BY <1>1
  <2> HIDE DEF T
  <2>2. Min(T) \in T /\ Min(T) <= 2
    BY <2>1, MinOfNats
  <2>3. Min(T) \in {0, 1, 2}
    BY <2>1, <2>2
  <2> QED
    BY <2>3 DEF T
<1>3. \A n \in {0, 1, 2} : LET f == [g EXCEPT !.times = n]
        IN  f \in Grads /\ f.run = g.run /\ f.step = g.step /\ f.i = g.i
  BY DEF Grads
<1> QED
  BY <1>2, <1>3

(* What is packed is added to the gradients of its run, under its place.     *)
LEMMA AccumulatedOK ==
  ASSUME NEW s \in Slots, grad[s] \subseteq Grads, Trained \subseteq Samples
  PROVE  /\ Accumulated(s) \subseteq Grads
         /\ Places(Accumulated(s), seat[s].run) = Places(grad[s] \cup Trained, seat[s].run)
         /\ \A g \in Accumulated(s) : g.run # seat[s].run => \E h \in grad[s] : g.run = h.run
<1> DEFINE r == seat[s].run
           sent == {y \in Trained : y.run = r}
           grown(x) == [run |-> x.run, step |-> x.step, i |-> x.i, times |-> 0]
           new == {grown(x) : x \in sent}
           scaled(g) == [g EXCEPT !.times = Min({@ + 1, 2})]
           all == grad[s] \cup new
<1>1. Accumulated(s) = {scaled(g) : g \in all}
  BY DEF Accumulated
<1>2. ASSUME NEW x \in sent
      PROVE  grown(x) \in Grads /\ grown(x).run = r /\ grown(x).step = x.step /\ grown(x).i = x.i
  BY DEF Samples, Grads
<1>3. all \subseteq Grads
  BY <1>2
<1>4. ASSUME NEW g \in all
      PROVE  /\ scaled(g) \in Grads /\ scaled(g).run = g.run
             /\ scaled(g).step = g.step /\ scaled(g).i = g.i
  <2>1. g \in Grads
    BY <1>3
  <2> DEFINE h == scaled(g)
  <2>2. h = [g EXCEPT !.times = Min({@ + 1, 2})]
    OBVIOUS
  <2> HIDE DEF h, all
  <2>3. h \in Grads /\ h.run = g.run /\ h.step = g.step /\ h.i = g.i
    BY <2>1, <2>2, Rescaled
  <2> QED
    BY <2>3 DEF h
<1> HIDE DEF scaled
<1>5. Places(Accumulated(s), r) = Places(all, r)
  <2> HIDE DEF all, r
  <2> QED
    BY <1>1, <1>4 DEF Places
<1>6. Places(new, r) = Places(Trained, r)
  <2>1. \A x \in sent : grown(x).run = r /\ grown(x).step = x.step /\ grown(x).i = x.i
    BY <1>2
  <2> HIDE DEF grown, r
  <2>2. {z \in new : z.run = r} = new
    BY <2>1
  <2>3. {<<z.step, z.i>> : z \in new} = {<<x.step, x.i>> : x \in sent}
    BY <2>1
  <2> QED
    BY <2>2, <2>3 DEF Places
<1>7. Places(all, r) = Places(grad[s] \cup Trained, r)
  <2>1. Places(grad[s] \cup new, r) = Places(grad[s], r) \cup Places(new, r)
    BY PlacesOfBoth
  <2>2. Places(grad[s] \cup Trained, r) = Places(grad[s], r) \cup Places(Trained, r)
    BY PlacesOfBoth
  <2> HIDE DEF new, r
  <2> QED
    BY <1>6, <2>1, <2>2
<1>8. \A g \in Accumulated(s) : g.run # r => \E h \in grad[s] : g.run = h.run
  <2>1. \A g \in new : g.run = r
    BY <1>2
  <2> HIDE DEF new, r
  <2> QED
    BY <1>1, <1>4, <2>1
<1>9. Accumulated(s) \subseteq Grads
  <2> HIDE DEF all
  <2> QED
    BY <1>1, <1>4
<1> QED
  BY <1>5, <1>7, <1>8, <1>9

(* No micro batches: no rows.                                               *)
LEMMA NothingPacked ==
  ASSUME NEW p, p = [w \in Ranks |-> << >>]
  PROVE  /\ \E rows \in Seq(Rows) : p = [w \in Ranks |-> [k \in DOMAIN rows |-> rows[k][w]]]
         /\ TrainedIn(p) = {}
<1>1. << >> \in Seq(Rows) /\ DOMAIN << >> = {}
  BY EmptySeq
<1>2. \A w \in Ranks : [k \in DOMAIN << >> |-> << >>[k][w]] = << >>
  BY <1>1
<1>3. p = [w \in Ranks |-> [k \in DOMAIN << >> |-> << >>[k][w]]]
  BY <1>2
<1>4. \A w \in Ranks : Range(p[w]) = {}
  BY <1>1 DEF Range
<1>5. TrainedIn(p) = {}
  BY <1>4 DEF TrainedIn
<1>6. \E rows \in Seq(Rows) : p = [w \in Ranks |-> [k \in DOMAIN rows |-> rows[k][w]]]
  <2> WITNESS << >> \in Seq(Rows)
  <2> QED
    BY <1>3
<1> QED
  BY <1>5, <1>6

LEMMA BackwardBatches == ASSUME IInv, BatchInv, Backward PROVE BatchInv'
<1> USE DEF BatchInv
<1>1. /\ pc = "sync" /\ pc' = "step" /\ UNCHANGED <<dir, outbox, stable, seat, position>>
      /\ grad' = [s \in Slots |-> Accumulated(s)] /\ packed' = [w \in Ranks |-> << >>]
  BY DEF Backward, envVars
<1>2. /\ \E rows \in Seq(Rows) : packed' = [w \in Ranks |-> [k \in DOMAIN rows |-> rows[k][w]]]
      /\ TrainedIn(packed') = {}
  BY <1>1, NothingPacked
<1>3. Trained' = {}
  BY <1>2 DEF Trained, TrainedIn
<1>4. Trained \subseteq Samples
  <2>1. PICK rows \in Seq(Rows) : packed = [w \in Ranks |-> [k \in DOMAIN rows |-> rows[k][w]]]
    BY DEF PackInv
  <2>2. TrainedIn(packed) \subseteq Samples
    BY <2>1, TrainedRows
  <2> QED
    BY <2>2 DEF Trained, TrainedIn
<1>5. ASSUME NEW s \in Slots
      PROVE  /\ grad'[s] \subseteq Grads
             /\ Places(grad'[s], seat[s].run) = Done(s)
             /\ \A g \in grad'[s] : g.run # seat[s].run => \E h \in grad[s] : g.run = h.run
  <2>1. grad[s] \subseteq Grads /\ grad'[s] = Accumulated(s)
    BY <1>1 DEF PackInv
  <2> QED
    BY <1>4, <2>1, AccumulatedOK DEF Done
<1>6. PackInv'
  BY <1>1, <1>2, <1>3, <1>5 DEF PackInv
<1>7. Apart(seat)'
  BY <1>1 DEF Apart
<1>8. LeftoverInv'
  <2> SUFFICES ASSUME NEW s \in Slots, NEW g \in grad'[s], g.run # seat[s].run
               PROVE  dir[g.run] \in {"evicted", "gone"}
    BY <1>1 DEF LeftoverInv
  <2>1. PICK h \in grad[s] : g.run = h.run
    BY <1>5
  <2> QED
    BY <2>1 DEF LeftoverInv
<1>9. \A s \in Slots : Done(s)' = Done(s) /\ At(s)' = At(s)
  BY <1>1, <1>3, <1>5 DEF Done, At
<1>10. WholeInv'
  BY <1>1, <1>9 DEF WholeInv
<1> QED
  BY <1>6, <1>7, <1>8, <1>10

(* The gradient of a whole batch is used up; those of the others stay.      *)
LEMMA StepTakenBatches == ASSUME IInv, BatchInv, OptimizerStep PROVE BatchInv'
<1> USE DEF BatchInv
<1>1. /\ pc = "step" /\ pc' = "top" /\ UNCHANGED <<dir, outbox, stable, seat, position, packed>>
      /\ grad' = [s \in Slots |-> ZeroGrad(s)]
  BY DEF OptimizerStep, envVars
<1>2. Trained = {} /\ Trained' = {}
  <2>1. Trained' = Trained
    BY <1>1 DEF Trained
  <2> QED
    BY <1>1, <2>1 DEF PackInv
<1>3. \A s \in Slots : grad'[s] = IF seat[s].ready THEN {} ELSE grad[s]
  BY <1>1 DEF ZeroGrad, Ready
<1>4. PackInv' /\ Apart(seat)' /\ LeftoverInv'
  <2>1. PackInv'
    BY <1>1, <1>2, <1>3 DEF PackInv
  <2>2. Apart(seat)' /\ LeftoverInv'
    BY <1>1, <1>3 DEF Apart, LeftoverInv
  <2> QED
    BY <2>1, <2>2
<1>5. WholeInv'
  <2> SUFFICES ASSUME NEW s \in Slots, seat[s].run # NoRun, dir[seat[s].run] # "gone"
               PROVE  Whole(seat[s], Done(s)', outbox[seat[s].run], seat[s].progress)
    BY <1>1 DEF WholeInv, At
  <2>1. Whole(seat[s], Places(grad[s], seat[s].run), outbox[seat[s].run],
              seat[s].progress - Pending(seat[s]))
    BY <1>1, <1>2 DEF WholeInv, At, Done
  <2>2. Done(s)' = Places(grad'[s], seat[s].run)
    BY <1>1, <1>2 DEF Done
  <2>3. /\ SeatOK(seat[s]) /\ seat[s].progress \in Nat
        /\ adapter[s].steps \in Nat /\ seat[s].progress = adapter[s].steps + Pending(seat[s])
    BY <1>1, PackerAssumption DEF IInv, SeatTypeOK, Seats, CountInv
  <2>4. CASE seat[s].ready
    <3>1. seat[s].progress = adapter[s].steps + 1 /\ seat[s].progress - 1 = adapter[s].steps
      BY <2>3, <2>4 DEF Pending
    <3>2. Whole(seat[s], {}, outbox[seat[s].run], adapter[s].steps + 1)
      BY <2>1, <2>3, <2>4, <3>1, WholeStepped DEF Pending
    <3>3. Done(s)' = {}
      BY <1>3, <2>2, <2>4 DEF Places
    <3> QED
      BY <3>1, <3>2, <3>3
  <2>5. CASE ~seat[s].ready
    <3>1. seat[s].progress - Pending(seat[s]) = seat[s].progress
      BY <2>3, <2>5 DEF Pending
    <3> QED
      BY <1>3, <2>1, <2>2, <2>5, <3>1
  <2> QED
    BY <2>4, <2>5
<1> QED
  BY <1>4, <1>5

LEMMA BroadcastBatches == ASSUME IInv, BatchInv, Broadcast PROVE BatchInv'
<1> USE DEF BatchInv
<1>1. /\ pc = "top" /\ pc' = "pack" /\ UNCHANGED <<dir, outbox, position, packed, adapter, grad>>
      /\ seat' = [s \in Slots |-> [seat[s] EXCEPT !.ready = FALSE]]
      /\ stable' = [r \in Runs |->
            IF \E s \in Ready : seat[s].run = r /\ dir[r] # "gone"
            THEN seat[CHOOSE s \in Ready : seat[s].run = r].progress ELSE stable[r]]
  BY DEF Broadcast, ClearFlag, envVars, trainVars
<1>2. ASSUME NEW s \in Slots
      PROVE  /\ seat'[s].run = seat[s].run /\ seat'[s].progress = seat[s].progress
             /\ seat'[s].received = seat[s].received /\ seat'[s].buffer = seat[s].buffer
  BY <1>1 DEF IInv, SeatTypeOK, Seats
<1>3. Trained = {} /\ Trained' = {}
  <2>1. Trained' = Trained
    BY <1>1 DEF Trained
  <2> QED
    BY <1>1, <2>1 DEF PackInv
<1>4. stable' \in [Runs -> 0 .. MaxBatches]
  <2>1. \A s \in Ready : seat[s].progress \in 0 .. MaxBatches
    BY DEF Ready, IInv, SeatTypeOK, Seats
  <2>2. ASSUME NEW r \in Runs, \E s \in Ready : seat[s].run = r /\ dir[r] # "gone"
        PROVE  (CHOOSE s \in Ready : seat[s].run = r) \in Ready
    BY <2>2
  <2> QED
    BY <1>1, <2>1, <2>2 DEF PackInv
<1>5. PackInv'
  BY <1>1, <1>3, <1>4 DEF PackInv
<1>6. Apart(seat)' /\ LeftoverInv'
  BY <1>1, <1>2, SMTT(30) DEF Apart, LeftoverInv
<1>7. WholeInv'
  <2> SUFFICES ASSUME NEW s \in Slots, seat[s].run # NoRun, dir[seat[s].run] # "gone"
               PROVE  Whole(seat'[s], Done(s)', outbox[seat[s].run], seat[s].progress)
    BY <1>1, <1>2 DEF WholeInv, At
  <2>1. Whole(seat[s], Done(s), outbox[seat[s].run], seat[s].progress)
    BY <1>1 DEF WholeInv, At
  <2>2. Done(s)' = Done(s)
    BY <1>1, <1>2, <1>3 DEF Done
  <2> QED
    BY <1>2, <2>1, <2>2 DEF Whole
<1> QED
  BY <1>5, <1>6, <1>7

(* A run that has not gone keeps its batches and may write more of them.    *)
LEMMA EnvBatches == ASSUME IInv, BatchInv, Env PROVE BatchInv'
<1> DEFINE Grown(r) == \/ outbox'[r] = outbox[r]
                       \/ \E b \in BatchKinds : outbox'[r] = Append(outbox[r], b)
           Effect ==
             /\ UNCHANGED <<seat, position, packed, adapter, grad, pc>>
             /\ stable' \in [Runs -> 0 .. MaxBatches]
             /\ \A r \in Runs :
                  /\ dir[r] \in {"evicted", "gone"} => dir'[r] \in {"evicted", "gone"}
                  /\ dir'[r] # "gone" => dir[r] # "gone" /\ Grown(r)
<1>1. Effect
  <2>1. PICK r \in Runs : Create(r) \/ Delete(r) \/ \E b \in BatchKinds : Send(r, b)
    BY DEF Env
  <2>2. /\ dir \in [Runs -> {"none", "live", "evicted", "gone"}] /\ outbox \in [Runs -> Seq(BatchKinds)]
        /\ stable \in [Runs -> 0 .. MaxBatches]
    BY DEF IInv, SeatTypeOK, BatchInv, PackInv
  <2>3. CASE Create(r)
    BY <2>2, <2>3 DEF Create, trainVars
  <2>4. CASE Delete(r)
    <3>1. 0 \in 0 .. MaxBatches
      BY PackerAssumption
    <3> QED
      BY <2>2, <2>4, <3>1 DEF Delete, trainVars
  <2>5. ASSUME NEW b \in BatchKinds, Send(r, b) PROVE Effect
    BY <2>2, <2>5 DEF Send, trainVars
  <2> HIDE DEF Effect
  <2> QED
    BY <2>1, <2>3, <2>4, <2>5
<1>2. Trained' = Trained
  BY <1>1 DEF Trained
<1>3. PackInv' /\ Apart(seat)'
  <2> HIDE DEF Grown
  <2> QED
    BY <1>1, <1>2 DEF BatchInv, PackInv, Apart
<1>4. \A s \in Slots : seat[s].run \in Runs \cup {NoRun} /\ \A g \in grad[s] : g.run \in Runs
  BY DEF IInv, SeatTypeOK, Seats, BatchInv, PackInv, Grads
<1>5. LeftoverInv'
  <2> HIDE DEF Grown
  <2> QED
    BY <1>1, <1>4 DEF BatchInv, LeftoverInv
<1>6. WholeInv'
  <2>6. seat' = seat /\ \A s \in Slots : Done(s)' = Done(s) /\ At(s)' = At(s)
    BY <1>1, <1>2 DEF Done, At
  <2> SUFFICES ASSUME NEW s \in Slots, seat[s].run # NoRun, dir'[seat[s].run] # "gone"
               PROVE  Whole(seat[s], Done(s), outbox'[seat[s].run], At(s))
    BY <2>6 DEF WholeInv
  <2> DEFINE r == seat[s].run
             old == outbox[r]
  <2>1. r \in Runs
    BY <1>4
  <2>2. dir[r] # "gone" /\ Grown(r)
    BY <1>1, <2>1
  <2>3. Whole(seat[s], Done(s), old, At(s))
    BY <2>2 DEF BatchInv, WholeInv
  <2>4. CASE outbox'[r] = old
    BY <2>3, <2>4
  <2>5. ASSUME NEW b \in BatchKinds, outbox'[r] = Append(old, b)
        PROVE  Whole(seat[s], Done(s), outbox'[r], At(s))
    <3> DEFINE new == Append(old, b)
               n == seat[s].received
               at == At(s)
    <3>1. old \in Seq(BatchKinds)
      BY <2>1 DEF IInv, SeatTypeOK
    <3> HIDE DEF old
    <3>2. /\ Len(old) \in Nat /\ Len(new) = Len(old) + 1
          /\ \A i \in 1 .. Len(old) : new[i] = old[i]
      BY <3>1, LenProperties, AppendProperties
    <3>3. n \in Nat /\ n <= Len(old) /\ at \in Nat
      <4>1. seat[s] \in Seats /\ n <= Len(old)
        BY <2>3 DEF IInv, SeatTypeOK, Whole
      <4>2. seat[s].progress \in Nat /\ n \in Nat /\ adapter[s].steps \in Nat
        BY <4>1, PackerAssumption DEF Seats, IInv, SeatTypeOK
      <4>3. seat[s].ready /\ pc \in {"sync", "step"} => seat[s].progress >= 1
        <5>1. SUFFICES ASSUME seat[s].ready, pc \in {"sync", "step"} PROVE seat[s].progress >= 1
          OBVIOUS
        <5>2. seat[s].progress = adapter[s].steps + 1 \/ seat[s].progress = 1
          BY <5>1 DEF IInv, CountInv, Behind, Pending
        <5> QED
          BY <4>2, <5>2
      <4> QED
        BY <4>1, <4>2, <4>3 DEF At, Pending
    <3> HIDE DEF new, n, at
    <3>4. \A k \in at .. n - 1 : old[k + 1] = new[k + 1]
      BY <3>2, <3>3
    <3>5. Due(old, at, n) = Due(new, at, n)
      BY <3>4, DueOfSame
    <3>6. n <= Len(new)
      BY <3>2, <3>3
    <3>7. Whole(seat[s], Done(s), new, at)
      BY <2>3, <3>5, <3>6 DEF Whole, n, at
    <3> QED
      BY <2>5, <3>7 DEF new, at
  <2> QED
    BY <2>2, <2>4, <2>5
<1> QED
  BY <1>3, <1>5, <1>6 DEF BatchInv

(* Of every run that has not gone the trainer has, in the buffer, on its way *)
(* or in .grad, each sample it received since the last step once and nothing *)
(* else; and no two slots are for the same run.                             *)
THEOREM BatchInvariance == Spec => []BatchInv
<1>1. Init => BatchInv
  <2> SUFFICES ASSUME Init PROVE BatchInv
    OBVIOUS
  <2>1. /\ \A s \in Slots : seat[s].run = NoRun /\ grad[s] = {}
        /\ stable = [r \in Runs |-> 0] /\ position = 0 /\ packed = [w \in Ranks |-> << >>]
    BY DEF Init, Vacant
  <2>2. /\ \E rows \in Seq(Rows) : packed = [w \in Ranks |-> [k \in DOMAIN rows |-> rows[k][w]]]
        /\ TrainedIn(packed) = {}
    BY <2>1, NothingPacked
  <2>3. Trained = {}
    BY <2>2 DEF Trained, TrainedIn
  <2>4. 0 \in 0 .. MaxBatches /\ 0 \in Slots
    BY PackerAssumption DEF Slots
  <2>5. PackInv
    BY <2>1, <2>2, <2>3, <2>4 DEF PackInv
  <2> QED
    BY <2>1, <2>5 DEF BatchInv, Apart, LeftoverInv, WholeInv
<1>2. IInv /\ BatchInv /\ [Next]_vars => BatchInv'
  <2> SUFFICES ASSUME IInv, BatchInv, [Next]_vars PROVE BatchInv'
    OBVIOUS
  <2>1. CASE Env
    BY <2>1, EnvBatches
  <2>2. CASE GetBatch
    BY <2>2, GetBatchBatches
  <2>3. CASE Pack
    BY <2>3, PackBatches
  <2>4. CASE Backward
    BY <2>4, BackwardBatches
  <2>5. CASE OptimizerStep
    BY <2>5, StepTakenBatches
  <2>6. CASE Broadcast
    BY <2>6, BroadcastBatches
  <2>7. CASE UNCHANGED vars
    <3>1. UNCHANGED <<dir, outbox, stable, seat, position, packed, adapter, grad, pc>>
      BY <2>7 DEF vars, envVars, trainVars
    <3>2. Trained' = Trained
      BY <3>1 DEF Trained
    <3>3. PackInv' /\ Apart(seat)' /\ LeftoverInv'
      BY <3>1, <3>2 DEF BatchInv, PackInv, Apart, LeftoverInv
    <3>4. WholeInv'
      BY <3>1, <3>2 DEF BatchInv, WholeInv, Done, At
    <3> QED
      BY <3>3, <3>4 DEF BatchInv
  <2> QED
    BY <2>1, <2>2, <2>3, <2>4, <2>5, <2>6, <2>7 DEF Next, Trainer
<1> QED
  BY <1>1, <1>2, Invariance, PTL DEF Spec

(* Every variable has its type: no count of steps or batches exceeds its     *)
(* bound, what is packed is micro batches of samples, .grad their gradients. *)
THEOREM TypeCorrect == Spec => []TypeOK
<1>1. IInv /\ BatchInv => TypeOK
  <2> SUFFICES ASSUME IInv, BatchInv PROVE TypeOK
    OBVIOUS
  <2>1. PICK rows \in Seq(Rows) : packed = [w \in Ranks |-> [k \in DOMAIN rows |-> rows[k][w]]]
    BY DEF BatchInv, PackInv
  <2>2. packed \in [Ranks -> Seq(MicroBatches)]
    <3>1. ASSUME NEW w \in Ranks PROVE packed[w] \in Seq(MicroBatches)
      <4>1. DOMAIN rows = 1 .. Len(rows) /\ Len(rows) \in Nat
        BY LenProperties
      <4>2. \A k \in 1 .. Len(rows) : rows[k][w] \in MicroBatches
        <5> TAKE k \in 1 .. Len(rows)
        <5>1. rows[k] \in Rows
          BY ElementOfSeq
        <5>2. rows[k] \in Seq(MicroBatches) /\ w \in 1 .. Len(rows[k])
          BY <5>1 DEF Rows, Ranks
        <5> QED
          BY <5>2, ElementOfSeq
      <4>3. packed[w] \in [1 .. Len(rows) -> MicroBatches]
        BY <2>1, <4>1, <4>2
      <4> QED
        BY <4>1, <4>3
    <3> QED
      BY <2>1, <3>1
  <2>3. /\ dir \in [Runs -> {"none", "live", "evicted", "gone"}]
        /\ \A r \in Runs : outbox[r] \in Seq(BatchKinds) /\ Len(outbox[r]) <= MaxBatches
        /\ \A s \in Slots : seat[s] \in Seats
        /\ adapter \in [Slots -> [run : Runs \cup {NoRun}, steps : 0 .. MaxBatches]]
        /\ pc \in {"top", "pack", "polled", "sync", "step"}
    BY DEF IInv, SeatTypeOK
  <2>4. \A s \in Slots :
          /\ seat[s].run \in Runs \cup {NoRun} /\ seat[s].ready \in BOOLEAN
          /\ seat[s].progress \in 0 .. MaxBatches /\ seat[s].received \in 0 .. MaxBatches
          /\ seat[s].buffer \in Seq(Samples)
    BY <2>3 DEF Seats
  <2>5. /\ stable \in [Runs -> 0 .. MaxBatches] /\ position \in Slots
        /\ \A s \in Slots : grad[s] \subseteq Grads
    BY DEF BatchInv, PackInv
  <2> QED
    BY <2>2, <2>3, <2>4, <2>5 DEF TypeOK
<1> QED
  BY <1>1, Invariance, BatchInvariance, PTL

(* Whatever runs, lengths and forms share a pack, the ranks have as many     *)
(* micro batches, and at every place of the same run and modality.          *)
THEOREM RanksAreAligned == Spec => []RanksAligned
<1>1. BatchInv => RanksAligned
  <2> SUFFICES ASSUME BatchInv PROVE RanksAligned
    OBVIOUS
  <2>1. PICK rows \in Seq(Rows) : packed = [w \in Ranks |-> [k \in DOMAIN rows |-> rows[k][w]]]
    BY DEF BatchInv, PackInv
  <2>2. DOMAIN rows = 1 .. Len(rows) /\ Len(rows) \in Nat /\ 1 \in Ranks
    BY LenProperties, PackerAssumption DEF Ranks
  <2>3. \A w \in Ranks : packed[w] = [k \in 1 .. Len(rows) |-> rows[k][w]]
    BY <2>1, <2>2
  <2>4. ASSUME NEW w \in Ranks
        PROVE  Len(packed[w]) = Len(rows) /\ DOMAIN packed[w] = 1 .. Len(rows)
    <3> DEFINE n == Len(rows)
               b == packed[w]
    <3>1. n \in Nat /\ b = [k \in 1 .. n |-> rows[k][w]]
      BY <2>2, <2>3
    <3> HIDE DEF n, b
    <3>2. DOMAIN b = 1 .. n /\ Len(b) = n
      BY <3>1
    <3> QED
      BY <3>2 DEF n, b
  <2>5. \A k \in 1 .. Len(rows) : rows[k] \in Rows
    BY ElementOfSeq
  <2>6. ASSUME NEW w \in Ranks, NEW k \in 1 .. Len(rows)
        PROVE  /\ packed[w][k].run = packed[1][k].run
               /\ (packed[w][k].form = "image") <=> (packed[1][k].form = "image")
               /\ Total(packed[w][k].samples) <= SeqLen
               /\ \A x \in Range(packed[w][k].samples) :
                    x.run = packed[w][k].run /\ x.form = packed[w][k].form
    <3>1. packed[w][k] = rows[k][w] /\ packed[1][k] = rows[k][1]
      BY <2>2, <2>3, ZenonT(40)
    <3> QED
      BY <2>5, <3>1 DEF Rows
  <2> QED
    BY <2>2, <2>4, <2>6 DEF RanksAligned
<1> QED
  BY <1>1, BatchInvariance, PTL

(* Of its run's samples an optimizer steps on exactly one whole batch,       *)
(* however the batch was spread over packs and whatever runs shared them;   *)
(* what else is in the slot's gradient was left by a run that was evicted or *)
(* deleted (the code does not clear it).                                     *)
THEOREM EveryStepIsABatch == Spec => []StepIsBatch
<1>1. IInv /\ BatchInv /\ StepsCounted => StepIsBatch
  <2>. SUFFICES ASSUME IInv, BatchInv, pc = "step", NEW s \in Ready
                PROVE  /\ dir[seat[s].run] # "gone" =>
                            Places(grad[s], seat[s].run)
                              = {<<seat[s].progress - 1, i>> :
                                   i \in DOMAIN outbox[seat[s].run][(seat[s].progress - 1) + 1]}
                       /\ \A g \in grad[s] :
                            g.run # seat[s].run => dir[g.run] \in {"evicted", "gone"}
    BY DEF StepIsBatch, Places
  <2>0. \A g \in grad[s] : g.run # seat[s].run => dir[g.run] \in {"evicted", "gone"}
    BY DEF BatchInv, LeftoverInv, Ready
  <2>. SUFFICES ASSUME dir[seat[s].run] # "gone"
                PROVE  Places(grad[s], seat[s].run)
                         = {<<seat[s].progress - 1, i>> :
                              i \in DOMAIN outbox[seat[s].run][(seat[s].progress - 1) + 1]}
    BY <2>0
  <2> DEFINE r == seat[s].run
             n == adapter[s].steps
  <2>1. s \in Slots /\ seat[s].ready /\ SeatOK(seat[s]) /\ r # NoRun
    BY DEF IInv, SeatOK, Vacant, Ready
  <2>2. n \in Nat /\ seat[s].progress = n + 1
    BY <2>1, PackerAssumption DEF IInv, SeatTypeOK, CountInv, Pending
  <2>3. seat[s].progress - 1 = n
    BY <2>2
  <2>4. Whole(seat[s], Places(grad[s], r), outbox[r], n)
    <3>1. Trained = {}
      BY DEF BatchInv, PackInv
    <3>2. At(s) = n
      BY <2>1, <2>3 DEF At, Pending
    <3> QED
      BY <2>1, <3>1, <3>2 DEF BatchInv, WholeInv, Done
  <2>5. Places(grad[s], r) = {n} \X DOMAIN outbox[r][n + 1]
    BY <2>1, <2>2, <2>4, WholeStepped
  <2> QED
    BY <2>3, <2>5
<1> QED
  BY <1>1, Invariance, BatchInvariance, BroadcastStepsCounted, PTL
=============================================================================
