------------------------ MODULE StringMerging_proof ------------------------
(***************************************************************************)
(* Proof that string merging never ends early: for any number of buckets,   *)
(* groups and reservations, when the scope ends without an error every      *)
(* group has been processed, every bucket has finished and the pool is full *)
(* again.                                                                   *)
(***************************************************************************)
EXTENDS StringMerging, FiniteSetTheorems, TLAPS

Threads == Buckets \cup {Main}

\* Groups leave the queue in order.
Taken == Len(groups) - Len(unprocessed)
QueueInv ==
    /\ Len(unprocessed) <= Len(groups)
    /\ \A i \in 1 .. Len(unprocessed) : unprocessed[i] = Taken + i
    /\ \A g \in Groups : gpc[g] = "queued" <=> g > Taken

\* How many buckets a group has been handed to.
HandInv ==
    \A g \in Groups : /\ gpc[g] = "handing" => handed[g] < NumBuckets
                      /\ gpc[g] = "done" => handed[g] = NumBuckets
                      /\ gpc[g] \in {"queued", "failed"} => handed[g] = 0

\* A bucket is parked in the slot of the group it waits for, and nowhere else;
\* the Vecs it has yet to take are in their slots.
Filled(g, b) == IF b < handed[g] THEN "Strings" ELSE "Empty"
SlotInv ==
    /\ \A b \in Buckets : next[b] = Len(groups) + 1 <=> pc[b] = "finished"
    /\ \A g \in Groups, b \in Buckets :
        /\ g < next[b] => slot[g][b] = "Empty" /\ b < handed[g]
        /\ g > next[b] => slot[g][b] = Filled(g, b)
        /\ g = next[b] => CASE pc[b] = "parked" -> slot[g][b] = "Waiting" /\ ~(b < handed[g])
                            [] pc[b] = "ready" -> slot[g][b] = Filled(g, b)
                            [] OTHER -> slot[g][b] = "Empty" /\ b < handed[g]

\* Where the Vecs are that are not in the pool.
OutInv ==
    \A g \in Groups, b \in Buckets :
        <<g, b>> \in out <=> /\ gpc[g] # "queued"
                             /\ \/ g > next[b]
                                \/ g = next[b] /\ pc[b] \notin {"load", "cas"}

\* Every Vec is available, reserved or out.
PoolInv == IsFiniteSet(out) /\ available + NumBuckets * spawned + Cardinality(out) = Capacity

\* While groups are left and a reservation is possible, some thread is about
\* to make it and will not lose the race.
WakeInv ==
    unprocessed # << >> /\ available >= NumBuckets =>
        \E x \in Threads : pc[x] = "load" \/ (pc[x] = "cas" /\ seen[x] = available)

ThreadInv ==
    /\ pc[Main] \in {"load", "cas", "finished"}
    /\ \A x \in Threads : pc[x] = "cas" => seen[x] >= NumBuckets
    /\ ~errors => /\ \A g \in Groups : gpc[g] # "failed"
                  /\ \A b \in Buckets : pc[b] # "dropped"

IInv == /\ TypeOK /\ QueueInv /\ HandInv /\ SlotInv /\ OutInv /\ PoolInv /\ WakeInv /\ ThreadInv
        /\ result # "panic"

-----------------------------------------------------------------------------
(* Arithmetic of the pool. *)

\* The constants are positive numbers.
LEMMA Constants_ ==
    /\ NumBuckets \in Nat \ {0} /\ Parallelism \in Nat \ {0} /\ Capacity \in Nat
    /\ Main \notin Buckets /\ Capacity >= NumBuckets
<1>1. NumBuckets \in Nat \ {0} /\ Parallelism \in Nat \ {0}
  BY MergeAssumption
<1>2. \A m, n \in Nat \ {0} : m * n \in Nat /\ m * n >= m
  OBVIOUS
<1> QED
  BY <1>1, <1>2 DEF Capacity, Main, Buckets

\* One more, and one fewer, input task.
LEMMA OneMore ==
    ASSUME NEW n \in Nat PROVE NumBuckets * (n + 1) = NumBuckets * n + NumBuckets
BY MergeAssumption

\* The Vecs of one group are as many as there are buckets.
LEMMA GroupVecs ==
    ASSUME NEW g PROVE IsFiniteSet({g} \X Buckets) /\ Cardinality({g} \X Buckets) = NumBuckets
<1>1. IsFiniteSet(Buckets) /\ Cardinality(Buckets) = NumBuckets
  BY Constants_, FS_Interval DEF Buckets
<1>2. IsFiniteSet({g}) /\ Cardinality({g}) = 1
  BY FS_Singleton
<1> QED
  BY <1>1, <1>2, FS_Product, Constants_

-----------------------------------------------------------------------------
(* Leaving the loop of try_spawn_input_processing. *)

\* What the invariant says about the group a bucket is at.
LEMMA LoopEndsPreserves ==
    ASSUME IInv, NEW x \in Threads, pc[x] \in {"load", "cas"}, LoopEnds(x),
           UNCHANGED <<secs, groups, unprocessed, gpc, handed, slot, out, errors, result>>
    PROVE  /\ pc' \in [Threads -> {"parked", "ready", "merge", "load", "cas", "finished", "dropped"}]
           /\ next' \in [Buckets -> 1 .. Len(groups) + 1]
           /\ SlotInv' /\ OutInv'
           /\ pc'[x] \in {"ready", "finished"} /\ \A y \in Threads \ {x} : pc'[y] = pc[y]
<1> USE DEF Threads, Groups
<1>0. /\ pc \in [Threads -> {"parked", "ready", "merge", "load", "cas", "finished", "dropped"}]
      /\ next \in [Buckets -> 1 .. Len(groups) + 1] /\ Len(groups) \in Nat \ {0}
      /\ SlotInv /\ OutInv /\ Main \notin Buckets
  BY Constants_ DEF IInv, TypeOK
<1>1. CASE x = Main
  <2>1. next' = next /\ pc' = [pc EXCEPT ![x] = "finished"]
    BY <1>1 DEF LoopEnds
  <2>2. \A b \in Buckets : pc'[b] = pc[b] /\ next'[b] = next[b]
    BY <1>0, <1>1, <2>1
  <2>3. SlotInv'
    BY <1>0, <2>2 DEF SlotInv, Filled
  <2>4. OutInv'
    BY <1>0, <2>2 DEF OutInv
  <2> QED
    BY <1>0, <2>1, <2>3, <2>4
<1>2. CASE x \in Buckets
  <2>1. /\ next' = [next EXCEPT ![x] = @ + 1]
        /\ pc' = [pc EXCEPT ![x] = IF next[x] = Len(groups) THEN "finished" ELSE "ready"]
    BY <1>0, <1>2 DEF LoopEnds
  <2>2. next[x] \in 1 .. Len(groups)
    BY <1>0, <1>2 DEF SlotInv
  <2>3. /\ next'[x] = next[x] + 1
        /\ pc'[x] = IF next[x] = Len(groups) THEN "finished" ELSE "ready"
        /\ \A b \in Buckets \ {x} : pc'[b] = pc[b] /\ next'[b] = next[b]
    BY <1>0, <1>2, <2>1
  <2>4. SlotInv'
    <3>1. \A b \in Buckets : next'[b] = Len(groups) + 1 <=> pc'[b] = "finished"
      BY <1>0, <1>2, <2>2, <2>3 DEF SlotInv
    <3>2. ASSUME NEW g \in Groups, NEW b \in Buckets
          PROVE  /\ g < next'[b] => slot[g][b] = "Empty" /\ b < handed[g]
                 /\ g > next'[b] => slot[g][b] = Filled(g, b)
                 /\ g = next'[b] => CASE pc'[b] = "parked" -> slot[g][b] = "Waiting" /\ ~(b < handed[g])
                                      [] pc'[b] = "ready" -> slot[g][b] = Filled(g, b)
                                      [] OTHER -> slot[g][b] = "Empty" /\ b < handed[g]
      <4>1. CASE b # x
        BY <1>0, <2>3, <4>1 DEF SlotInv
      <4>2. CASE b = x
        <5>1. /\ g < next[x] => slot[g][x] = "Empty" /\ x < handed[g]
              /\ g > next[x] => slot[g][x] = Filled(g, x)
              /\ g = next[x] => slot[g][x] = "Empty" /\ x < handed[g]
          BY <1>0, <1>2 DEF SlotInv
        <5> QED
          BY <1>0, <1>2, <2>2, <2>3, <4>2, <5>1
      <4> QED
        BY <4>1, <4>2
    <3> QED
      BY <3>1, <3>2 DEF SlotInv, Filled
  <2>5. ASSUME NEW g \in Groups, NEW b \in Buckets
        PROVE  <<g, b>> \in out <=> /\ gpc[g] # "queued"
                                    /\ \/ g > next'[b]
                                       \/ g = next'[b] /\ pc'[b] \notin {"load", "cas"}
    <3>1. <<g, b>> \in out <=> /\ gpc[g] # "queued"
                               /\ \/ g > next[b]
                                  \/ g = next[b] /\ pc[b] \notin {"load", "cas"}
      BY <1>0 DEF OutInv
    <3>2. CASE b # x
      BY <2>3, <3>1, <3>2
    <3>3. CASE b = x
      BY <1>0, <1>2, <2>2, <2>3, <3>1, <3>3
    <3> QED
      BY <3>2, <3>3
  <2>6. OutInv'
    BY <2>5 DEF OutInv
  <2> QED
    BY <1>0, <1>2, <2>1, <2>2, <2>3, <2>4, <2>6
<1> QED
  BY <1>1, <1>2

\* A plain load of available.
LEMMA ReserveLoadPreserves ==
    ASSUME IInv, NEW x \in Threads, ReserveLoad(x) PROVE IInv'
<1> USE DEF Threads
<1>0. /\ TypeOK /\ available \in Nat /\ pc[x] = "load" /\ NumBuckets \in Nat
      /\ seen' = [seen EXCEPT ![x] = available]
      /\ UNCHANGED <<secs, groups, unprocessed, spawned, gpc, handed, slot, out, available, data,
                     errors, result>>
      /\ Len(groups) \in Nat
  BY Constants_ DEF IInv, TypeOK, ReserveLoad
<1>1. CASE available < NumBuckets
  <2>1. LoopEnds(x)
    BY <1>0, <1>1 DEF ReserveLoad
  <2>2. /\ pc' \in [Threads -> {"parked", "ready", "merge", "load", "cas", "finished", "dropped"}]
        /\ next' \in [Buckets -> 1 .. Len(groups) + 1]
        /\ SlotInv' /\ OutInv'
        /\ pc'[x] \in {"ready", "finished"} /\ \A y \in Threads \ {x} : pc'[y] = pc[y]
    BY <1>0, <2>1, LoopEndsPreserves
  <2>3. TypeOK'
    BY <1>0, <2>2 DEF TypeOK, Groups
  <2>4. QueueInv' /\ HandInv' /\ PoolInv' /\ (result # "panic")'
    BY <1>0 DEF IInv, QueueInv, HandInv, PoolInv, Groups, Taken
  <2>5. WakeInv'
    BY <1>0, <1>1 DEF WakeInv
  <2>6. ThreadInv'
    <3>1. pc'[Main] \in {"load", "cas", "finished"}
      BY <1>0, <2>1, <2>2 DEF IInv, ThreadInv, LoopEnds, TypeOK
    <3>2. \A y \in Threads : pc'[y] = "cas" => seen'[y] >= NumBuckets
      BY <1>0, <2>2 DEF IInv, ThreadInv, TypeOK
    <3> QED
      BY <1>0, <2>2, <3>1, <3>2 DEF IInv, ThreadInv, Groups
  <2> QED
    BY <2>2, <2>3, <2>4, <2>5, <2>6 DEF IInv
<1>2. CASE ~(available < NumBuckets)
  <2>1. pc' = [pc EXCEPT ![x] = "cas"] /\ UNCHANGED next
    BY <1>2 DEF ReserveLoad
  <2>2. /\ pc'[x] = "cas" /\ seen'[x] = available
        /\ \A y \in Threads \ {x} : pc'[y] = pc[y] /\ seen'[y] = seen[y]
    BY <1>0, <2>1 DEF TypeOK
  <2>3. TypeOK'
    BY <1>0, <2>1 DEF TypeOK, Groups
  <2>4. QueueInv' /\ HandInv' /\ PoolInv' /\ (result # "panic")'
    BY <1>0 DEF IInv, QueueInv, HandInv, PoolInv, Groups, Taken
  <2>5. SlotInv'
    BY <1>0, <2>1, <2>2 DEF IInv, SlotInv, Filled, Groups
  <2>6. OutInv'
    BY <1>0, <2>1, <2>2 DEF IInv, OutInv, Groups
  <2>7. WakeInv'
    BY <1>0, <2>2 DEF WakeInv
  <2>8. ThreadInv'
    BY <1>0, <1>2, <2>2 DEF IInv, ThreadInv, Groups
  <2> QED
    BY <2>3, <2>4, <2>5, <2>6, <2>7, <2>8 DEF IInv
<1> QED
  BY <1>1, <1>2

\* compare_exchange on available.
LEMMA ReserveExchangePreserves ==
    ASSUME IInv, NEW x \in Threads, ReserveExchange(x) PROVE IInv'
<1> USE DEF Threads
<1>0. /\ TypeOK /\ available \in Nat /\ spawned \in Nat /\ pc[x] = "cas" /\ NumBuckets \in Nat
      /\ Len(groups) \in Nat /\ seen[x] \in Nat /\ seen[x] >= NumBuckets
      /\ UNCHANGED <<secs, groups, unprocessed, gpc, handed, slot, seen, out, data, errors, result>>
  BY Constants_ DEF IInv, TypeOK, ThreadInv, ReserveExchange
<1>1. QueueInv' /\ HandInv' /\ (result # "panic")'
  BY <1>0 DEF IInv, QueueInv, HandInv, Groups, Taken
<1>2. CASE available = seen[x]
  <2>1. /\ available' = seen[x] - NumBuckets /\ spawned' = spawned + 1
        /\ pc' = [pc EXCEPT ![x] = "load"] /\ UNCHANGED next
    BY <1>2 DEF ReserveExchange
  <2>2. pc'[x] = "load" /\ \A y \in Threads \ {x} : pc'[y] = pc[y]
    BY <1>0, <2>1 DEF TypeOK
  <2>3. TypeOK'
    <3>1. available' \in Nat /\ spawned' \in Nat /\ Groups' = Groups
      BY <1>0, <2>1 DEF Groups
    <3>2. pc' \in [Threads -> {"parked", "ready", "merge", "load", "cas", "finished", "dropped"}]
      BY <1>0, <2>1 DEF TypeOK
    <3> QED
      BY <1>0, <2>1, <3>1, <3>2 DEF TypeOK
  <2>4. SlotInv'
    BY <1>0, <2>1, <2>2 DEF IInv, SlotInv, Filled, Groups
  <2>5. OutInv'
    BY <1>0, <2>1, <2>2 DEF IInv, OutInv, Groups
  <2>6. PoolInv'
    <3>1. NumBuckets * spawned' = NumBuckets * spawned + NumBuckets
      BY <1>0, <2>1, OneMore
    <3>2. NumBuckets * spawned \in Nat
      BY <1>0
    <3>3. Cardinality(out) \in Nat
      BY FS_CardinalityType DEF IInv, PoolInv
    <3> QED
      BY <1>0, <1>2, <2>1, <3>1, <3>2, <3>3 DEF IInv, PoolInv, Capacity
  <2>7. WakeInv'
    BY <2>2 DEF WakeInv
  <2>8. ThreadInv'
    BY <1>0, <2>2 DEF IInv, ThreadInv, Groups
  <2> QED
    BY <1>1, <2>3, <2>4, <2>5, <2>6, <2>7, <2>8 DEF IInv
<1>3. CASE available # seen[x]
  <2>1. LoopEnds(x) /\ UNCHANGED <<available, spawned>>
    BY <1>3 DEF ReserveExchange
  <2>2. /\ pc' \in [Threads -> {"parked", "ready", "merge", "load", "cas", "finished", "dropped"}]
        /\ next' \in [Buckets -> 1 .. Len(groups) + 1]
        /\ SlotInv' /\ OutInv'
        /\ pc'[x] \in {"ready", "finished"} /\ \A y \in Threads \ {x} : pc'[y] = pc[y]
    BY <1>0, <2>1, LoopEndsPreserves
  <2>3. TypeOK'
    BY <1>0, <2>1, <2>2 DEF TypeOK, Groups
  <2>4. PoolInv'
    BY <1>0, <2>1 DEF IInv, PoolInv
  <2>5. WakeInv'
    BY <1>0, <1>3, <2>1, <2>2 DEF IInv, WakeInv
  <2>6. ThreadInv'
    <3>1. pc'[Main] \in {"load", "cas", "finished"}
      BY <1>0, <2>1, <2>2 DEF IInv, ThreadInv, LoopEnds, TypeOK
    <3>2. \A y \in Threads : pc'[y] = "cas" => seen'[y] >= NumBuckets
      BY <1>0, <2>2 DEF IInv, ThreadInv, TypeOK
    <3> QED
      BY <1>0, <2>2, <3>1, <3>2 DEF IInv, ThreadInv, Groups
  <2> QED
    BY <1>1, <2>2, <2>3, <2>4, <2>5, <2>6 DEF IInv
<1> QED
  BY <1>2, <1>3

-----------------------------------------------------------------------------
(* Input tasks. *)

\* A task that finds the queue empty.
LEMMA TaskUnreservesPreserves ==
    ASSUME IInv, TaskUnreserves PROVE IInv'
<1>0. /\ TypeOK /\ available \in Nat /\ spawned \in Nat \ {0} /\ NumBuckets \in Nat
      /\ unprocessed = << >> /\ spawned' = spawned - 1 /\ available' = available + NumBuckets
      /\ UNCHANGED <<secs, groups, unprocessed, gpc, handed, slot, pc, seen, next, out, data,
                     errors, result>>
  BY Constants_ DEF IInv, TypeOK, TaskUnreserves
<1>1. QueueInv' /\ HandInv' /\ (result # "panic")'
  BY <1>0 DEF IInv, QueueInv, HandInv, Groups, Taken
<1>2. SlotInv' /\ OutInv' /\ ThreadInv'
  BY <1>0 DEF IInv, SlotInv, Filled, OutInv, ThreadInv, Groups
<1>3. TypeOK'
  BY <1>0 DEF TypeOK, Groups
<1>4. PoolInv'
  <2>1. NumBuckets * spawned = NumBuckets * spawned' + NumBuckets
    BY <1>0, OneMore
  <2>2. NumBuckets * spawned' \in Nat
    BY <1>0
  <2>3. Cardinality(out) \in Nat
    BY FS_CardinalityType DEF IInv, PoolInv
  <2> QED
    BY <1>0, <2>1, <2>2, <2>3 DEF IInv, PoolInv, Capacity
<1>5. WakeInv'
  BY <1>0 DEF WakeInv
<1> QED
  BY <1>1, <1>2, <1>3, <1>4, <1>5 DEF IInv

\* A task that takes a group from the queue and splits it.
LEMMA TaskSplitsPreserves ==
    ASSUME IInv, TaskSplits PROVE IInv'
<1> SUFFICES ASSUME NEW g, g = Head(unprocessed) PROVE IInv'
  OBVIOUS
<1>0. /\ TypeOK /\ available \in Nat /\ spawned \in Nat \ {0} /\ NumBuckets \in Nat \ {0}
      /\ unprocessed \in Seq(Groups) /\ unprocessed # << >> /\ Len(groups) \in Nat
      /\ QueueInv /\ HandInv /\ SlotInv /\ OutInv
      /\ gpc \in [Groups -> {"queued", "handing", "done", "failed"}]
      /\ handed \in [Groups -> 0 .. NumBuckets] /\ next \in [Buckets -> 1 .. Len(groups) + 1]
  <2>1. spawned > 0 /\ unprocessed # << >>
    BY DEF TaskSplits
  <2>2. TypeOK /\ QueueInv /\ HandInv /\ SlotInv /\ OutInv
    BY DEF IInv
  <2> QED
    <3>1. /\ available \in Nat /\ spawned \in Nat /\ unprocessed \in Seq(Groups) /\ Len(groups) \in Nat
          /\ gpc \in [Groups -> {"queued", "handing", "done", "failed"}]
          /\ handed \in [Groups -> 0 .. NumBuckets] /\ next \in [Buckets -> 1 .. Len(groups) + 1]
      BY <2>2 DEF TypeOK
    <3>2. spawned \in Nat \ {0} /\ NumBuckets \in Nat \ {0}
      BY <2>1, <3>1, Constants_
    <3> QED
      BY <2>1, <2>2, <3>1, <3>2
<1>1. /\ out' = out \cup ({g} \X Buckets)
      /\ gpc' = [gpc EXCEPT ![g] = IF groups[g].fails THEN "failed" ELSE "handing"]
      /\ errors' = (errors \/ groups[g].fails)
      /\ unprocessed' = Tail(unprocessed) /\ spawned' = spawned - 1
      /\ UNCHANGED <<secs, groups, handed, slot, pc, seen, next, available, merged, spill, result>>
  BY DEF TaskSplits
<1>2. /\ g \in Groups /\ g = Taken + 1 /\ gpc[g] = "queued" /\ handed[g] = 0
      /\ Len(unprocessed) \in Nat \ {0}
  BY <1>0 DEF QueueInv, HandInv, Groups, Taken
<1>3. /\ gpc' \in [Groups -> {"queued", "handing", "done", "failed"}]
      /\ gpc'[g] \in {"handing", "failed"} /\ (gpc'[g] = "failed" => errors')
      /\ \A h \in Groups \ {g} : gpc'[h] = gpc[h]
  BY <1>0, <1>1, <1>2
<1>4. TypeOK'
  <2>1. unprocessed' \in Seq(Groups)
    BY <1>0, <1>1
  <2>2. out' \subseteq Groups \X Buckets
    BY <1>0, <1>1, <1>2 DEF TypeOK
  <2>3. errors' \in BOOLEAN
    BY <1>1
  <2> QED
    <3>1. Groups' = Groups /\ spawned' \in Nat
      BY <1>0, <1>1 DEF Groups
    <3> QED
      BY <1>0, <1>1, <1>3, <2>1, <2>2, <2>3, <3>1 DEF TypeOK
<1>5. QueueInv'
  <2>1. /\ Len(unprocessed') = Len(unprocessed) - 1
        /\ \A i \in 1 .. Len(unprocessed') : unprocessed'[i] = unprocessed[i + 1]
    BY <1>0, <1>1, <1>2
  <2>2. Taken' = Taken + 1
    BY <1>0, <1>1, <1>2, <2>1 DEF Taken
  <2>3. ASSUME NEW i \in 1 .. Len(unprocessed') PROVE unprocessed'[i] = Taken' + i
    <3>1. i \in Nat /\ i + 1 \in 1 .. Len(unprocessed) /\ Taken \in Int
      BY <1>0, <1>2, <2>1 DEF Taken
    <3>2. unprocessed[i + 1] = Taken + (i + 1)
      BY <1>0, <3>1 DEF QueueInv
    <3>3. Taken + (i + 1) = (Taken + 1) + i
      BY <3>1
    <3> QED
      BY <2>1, <2>2, <3>2, <3>3
  <2>4. ASSUME NEW h \in Groups PROVE gpc'[h] = "queued" <=> h > Taken'
    <3>1. h \in Int /\ Taken \in Int
      BY <1>0 DEF Groups, Taken
    <3>2. CASE h = g
      BY <1>2, <1>3, <2>2, <3>1, <3>2
    <3>3. CASE h # g
      <4>1. gpc'[h] = gpc[h] /\ (gpc[h] = "queued" <=> h > Taken)
        BY <1>0, <1>3, <3>3 DEF QueueInv
      <4> QED
        BY <1>2, <2>2, <3>1, <3>3, <4>1
    <3> QED
      BY <3>2, <3>3
  <2> QED
    <3>1. Groups' = Groups /\ Len(groups') = Len(groups)
      BY <1>1 DEF Groups
    <3>2. Len(unprocessed') <= Len(groups)
      BY <1>0, <1>2, <2>1 DEF QueueInv
    <3> QED
      BY <2>3, <2>4, <3>1, <3>2 DEF QueueInv
<1>6. HandInv'
  <2>1. Groups' = Groups /\ handed' = handed
    BY <1>1 DEF Groups
  <2>2. ASSUME NEW h \in Groups
        PROVE  /\ gpc'[h] = "handing" => handed[h] < NumBuckets
               /\ gpc'[h] = "done" => handed[h] = NumBuckets
               /\ gpc'[h] \in {"queued", "failed"} => handed[h] = 0
    <3>1. CASE h = g
      BY <1>0, <1>2, <1>3, <3>1
    <3>2. CASE h # g
      BY <1>0, <1>3, <3>2 DEF HandInv
    <3> QED
      BY <3>1, <3>2
  <2> QED
    BY <2>1, <2>2 DEF HandInv
<1>7. SlotInv'
  BY <1>0, <1>1 DEF SlotInv, Filled, Groups
<1>8. \A b \in Buckets : <<g, b>> \notin out
  BY <1>0, <1>2 DEF OutInv
<1>9. OutInv'
  <2>1. \A b \in Buckets : g > next[b] \/ (g = next[b] /\ pc[b] \notin {"load", "cas"})
    <3> SUFFICES ASSUME NEW b \in Buckets
                 PROVE  g > next[b] \/ (g = next[b] /\ pc[b] \notin {"load", "cas"})
      OBVIOUS
    <3>1. ~(b < handed[g]) /\ next[b] \in Nat /\ g \in Nat
      BY <1>0, <1>2 DEF Buckets, Groups
    <3>2. ~(g < next[b])
      BY <1>0, <1>2, <3>1 DEF SlotInv
    <3>3. g = next[b] => pc[b] \notin {"load", "cas"}
      BY <1>0, <1>2, <3>1 DEF SlotInv
    <3> QED
      BY <3>1, <3>2, <3>3
  <2>2. \A h \in Groups, b \in Buckets : <<h, b>> \in out' <=> <<h, b>> \in out \/ h = g
    BY <1>1
  <2>3. ASSUME NEW h \in Groups, NEW b \in Buckets
        PROVE  <<h, b>> \in out' <=> /\ gpc'[h] # "queued"
                                     /\ \/ h > next[b]
                                        \/ h = next[b] /\ pc[b] \notin {"load", "cas"}
    <3>1. CASE h = g
      BY <1>3, <2>1, <2>2, <3>1
    <3>2. CASE h # g
      BY <1>0, <1>3, <2>2, <3>2 DEF OutInv
    <3> QED
      BY <3>1, <3>2
  <2> QED
    BY <1>1, <2>3 DEF OutInv, Groups
<1>10. PoolInv'
  <2>1. IsFiniteSet(out) /\ Cardinality(out) \in Nat
    BY FS_CardinalityType DEF IInv, PoolInv
  <2>2. IsFiniteSet({g} \X Buckets) /\ Cardinality({g} \X Buckets) = NumBuckets
    BY GroupVecs
  <2>3. out \cap ({g} \X Buckets) = {}
    BY <1>8
  <2>4. IsFiniteSet(out') /\ Cardinality(out') = Cardinality(out) + NumBuckets
    <3>1. /\ IsFiniteSet(out \cup ({g} \X Buckets))
          /\ Cardinality(out \cup ({g} \X Buckets))
                 = Cardinality(out) + Cardinality({g} \X Buckets) - Cardinality(out \cap ({g} \X Buckets))
      BY <2>1, <2>2, FS_Union
    <3>2. Cardinality(out \cap ({g} \X Buckets)) = 0
      BY <2>3, FS_EmptySet
    <3> QED
      <4>1. out' = out \cup ({g} \X Buckets) /\ NumBuckets \in Nat
        BY <1>0, <1>1
      <4>2. Cardinality(out) + NumBuckets - 0 = Cardinality(out) + NumBuckets
        BY <2>1, <4>1
      <4> QED
        BY <2>2, <3>1, <3>2, <4>1, <4>2
  <2>5. NumBuckets * spawned = NumBuckets * spawned' + NumBuckets
    BY <1>0, <1>1, OneMore
  <2>6. NumBuckets * spawned' \in Nat
    BY <1>0, <1>1
  <2> QED
    BY <1>0, <1>1, <2>1, <2>4, <2>5, <2>6 DEF IInv, PoolInv, Capacity
<1>11. WakeInv'
  BY <1>0, <1>1 DEF IInv, WakeInv
<1>12. ThreadInv'
  BY <1>1, <1>3 DEF IInv, ThreadInv, Groups
<1> QED
  BY <1>1, <1>4, <1>5, <1>6, <1>7, <1>9, <1>10, <1>11, <1>12 DEF IInv

\* A task that fills the slot of the next bucket and wakes who waits there.
LEMMA HandOverPreserves ==
    ASSUME IInv, NEW g \in Groups, HandOver(g) PROVE IInv'
<1> SUFFICES ASSUME NEW c, c = handed[g] PROVE IInv'
  OBVIOUS
<1> USE DEF Threads
<1>0. /\ TypeOK /\ QueueInv /\ HandInv /\ SlotInv /\ OutInv /\ gpc[g] = "handing"
      /\ Len(groups) \in Nat /\ NumBuckets \in Nat \ {0}
  BY Constants_ DEF IInv, TypeOK, HandOver
<1>1. /\ slot' = [slot EXCEPT ![g][c] = "Strings"]
      /\ pc' = IF slot[g][c] = "Waiting" THEN [pc EXCEPT ![c] = "ready"] ELSE pc
      /\ handed' = [handed EXCEPT ![g] = @ + 1]
      /\ gpc' = IF c + 1 = NumBuckets THEN [gpc EXCEPT ![g] = "done"] ELSE gpc
      /\ UNCHANGED <<secs, groups, unprocessed, spawned, seen, next, out, available, data, errors, result>>
  BY DEF HandOver, Wake, NextBucket
<1>2. /\ c \in Buckets /\ c \in Nat /\ c + 1 \in 0 .. NumBuckets /\ Groups' = Groups
  <2>1. handed[g] \in 0 .. NumBuckets /\ handed[g] < NumBuckets
    BY <1>0 DEF HandInv, TypeOK
  <2>2. Groups' = Groups
    BY <1>1 DEF Groups
  <2> QED
    BY <1>0, <2>1, <2>2 DEF Buckets
<1>3. /\ handed'[g] = c + 1 /\ \A h \in Groups \ {g} : handed'[h] = handed[h]
      /\ handed' \in [Groups -> 0 .. NumBuckets]
  BY <1>0, <1>1, <1>2 DEF TypeOK
<1>4. /\ gpc' \in [Groups -> {"queued", "handing", "done", "failed"}]
      /\ gpc'[g] = IF c + 1 = NumBuckets THEN "done" ELSE "handing"
      /\ \A h \in Groups \ {g} : gpc'[h] = gpc[h]
  BY <1>0, <1>1 DEF TypeOK
<1>5. /\ slot' \in [Groups -> [Buckets -> {"Empty", "Waiting", "Strings"}]]
      /\ slot'[g][c] = "Strings"
      /\ \A h \in Groups, b \in Buckets : h # g \/ b # c => slot'[h][b] = slot[h][b]
  BY <1>0, <1>1, <1>2 DEF TypeOK
<1>6. /\ pc' \in [Threads -> {"parked", "ready", "merge", "load", "cas", "finished", "dropped"}]
      /\ \A y \in Threads \ {c} : pc'[y] = pc[y]
      /\ pc'[c] = IF slot[g][c] = "Waiting" THEN "ready" ELSE pc[c]
  BY <1>0, <1>1, <1>2 DEF TypeOK
<1>7. TypeOK'
  BY <1>0, <1>1, <1>2, <1>3, <1>4, <1>5, <1>6 DEF TypeOK
<1>8. QueueInv'
  BY <1>0, <1>1, <1>2, <1>4 DEF QueueInv, Taken
<1>9. HandInv'
  BY <1>0, <1>1, <1>2, <1>3, <1>4 DEF HandInv
<1>10. /\ \A b \in Buckets : next[b] \in Nat /\ handed[g] \in Nat
       /\ ~(g < next[c])
       /\ g > next[c] => slot[g][c] = "Empty"
       /\ g = next[c] => \/ pc[c] = "parked" /\ slot[g][c] = "Waiting"
                         \/ pc[c] = "ready" /\ slot[g][c] = "Empty"
  BY <1>0, <1>2 DEF SlotInv, Filled, TypeOK
<1>110. slot[g][c] = "Waiting" => pc[c] = "parked"
  <2>1. c \in Buckets /\ g \in Int /\ next[c] \in Int
    BY <1>0, <1>2, <1>10 DEF Groups
  <2>2. g < next[c] \/ g = next[c] \/ g > next[c]
    BY <2>1
  <2> QED
    BY <1>10, <2>2
<1>11. SlotInv'
  <2>1. \A b \in Buckets : next'[b] = Len(groups') + 1 <=> pc'[b] = "finished"
    BY <1>0, <1>1, <1>2, <1>6, <1>110 DEF SlotInv
  <2>2. ASSUME NEW h \in Groups, NEW b \in Buckets
        PROVE  /\ h < next[b] => slot'[h][b] = "Empty" /\ b < handed'[h]
               /\ h > next[b] => slot'[h][b] = IF b < handed'[h] THEN "Strings" ELSE "Empty"
               /\ h = next[b] => CASE pc'[b] = "parked" -> slot'[h][b] = "Waiting" /\ ~(b < handed'[h])
                                   [] pc'[b] = "ready" -> slot'[h][b] = IF b < handed'[h] THEN "Strings" ELSE "Empty"
                                   [] OTHER -> slot'[h][b] = "Empty" /\ b < handed'[h]
    <3>0. /\ h < next[b] => slot[h][b] = "Empty" /\ b < handed[h]
          /\ h > next[b] => slot[h][b] = IF b < handed[h] THEN "Strings" ELSE "Empty"
          /\ h = next[b] => CASE pc[b] = "parked" -> slot[h][b] = "Waiting" /\ ~(b < handed[h])
                              [] pc[b] = "ready" -> slot[h][b] = IF b < handed[h] THEN "Strings" ELSE "Empty"
                              [] OTHER -> slot[h][b] = "Empty" /\ b < handed[h]
      BY <1>0 DEF SlotInv, Filled
    <3>1. CASE b # c
      <4>1. slot'[h][b] = slot[h][b] /\ pc'[b] = pc[b]
        BY <1>5, <1>6, <3>1
      <4>2. b < handed'[h] <=> b < handed[h]
        <5>1. b \in Nat /\ (b < c + 1 <=> b < c)
          BY <1>0, <1>2, <3>1 DEF Buckets
        <5>2. CASE h = g
          BY <1>3, <5>1, <5>2
        <5>3. CASE h # g
          BY <1>3, <5>3
        <5> QED
          BY <5>2, <5>3
      <4> QED
        BY <3>0, <4>1, <4>2
    <3>2. CASE b = c /\ h = g
      BY <1>2, <1>3, <1>5, <1>6, <1>10, <3>2 DEF Groups
    <3>3. CASE b = c /\ h # g
      <4>1. slot'[h][b] = slot[h][b] /\ handed'[h] = handed[h]
        BY <1>3, <1>5, <3>3
      <4>2. h = next[b] => pc'[b] = pc[b]
        BY <1>0, <1>6, <1>10, <3>3 DEF Groups, TypeOK
      <4> QED
        BY <3>0, <4>1, <4>2
    <3> QED
      BY <3>1, <3>2, <3>3
  <2> QED
    <3>1. Groups' = Groups /\ next' = next
      BY <1>1, <1>2
    <3> QED
      BY <2>1, <2>2, <3>1 DEF SlotInv, Filled
<1>12. OutInv'
  <2>1. ASSUME NEW h \in Groups, NEW b \in Buckets
        PROVE  /\ gpc'[h] # "queued" <=> gpc[h] # "queued"
               /\ pc'[b] \in {"load", "cas"} <=> pc[b] \in {"load", "cas"}
    BY <1>0, <1>4, <1>6, <1>110
  <2> QED
    <3>1. Groups' = Groups /\ next' = next /\ out' = out
      BY <1>1, <1>2
    <3> QED
      BY <1>0, <2>1, <3>1 DEF OutInv
<1>13. PoolInv'
  BY <1>1 DEF IInv, PoolInv
<1>14. slot[g][c] = "Waiting" => pc[c] = "parked"
  BY <1>10, <1>2 DEF Groups
<1>15. WakeInv'
  <2>1. \A x \in Threads : pc[x] \in {"load", "cas"} => pc'[x] = pc[x]
    BY <1>6, <1>14
  <2> QED
    BY <1>1, <2>1 DEF IInv, WakeInv
<1>16. ThreadInv'
  <2>1. c # Main
    BY <1>2, Constants_
  <2>2. pc'[Main] = pc[Main]
    BY <1>6, <2>1
  <2> QED
    BY <1>0, <1>1, <1>2, <1>4, <1>6, <2>2 DEF IInv, ThreadInv
<1> QED
  BY <1>1, <1>7, <1>8, <1>9, <1>11, <1>12, <1>13, <1>15, <1>16 DEF IInv

-----------------------------------------------------------------------------
(* Buckets. *)

\* A bucket that locks the slot of its next group.
LEMMA LockSlotPreserves ==
    ASSUME IInv, NEW c \in Buckets, LockSlot(c) PROVE IInv'
<1> SUFFICES ASSUME NEW g, g = next[c] PROVE IInv'
  OBVIOUS
<1> USE DEF Threads
<1>0. /\ TypeOK /\ QueueInv /\ HandInv /\ SlotInv /\ OutInv /\ pc[c] = "ready"
      /\ Len(groups) \in Nat /\ NumBuckets \in Nat \ {0}
  BY Constants_ DEF IInv, TypeOK, LockSlot
<1>1. /\ slot' = [slot EXCEPT ![g][c] = IF slot[g][c] = "Strings" THEN "Empty" ELSE "Waiting"]
      /\ pc' = [pc EXCEPT ![c] = IF slot[g][c] = "Strings" THEN "merge" ELSE "parked"]
      /\ UNCHANGED <<secs, groups, unprocessed, spawned, gpc, handed, seen, next, out, available, data, errors, result>>
  BY DEF LockSlot
<1>2. g \in Groups /\ Groups' = Groups
  BY <1>0, <1>1 DEF SlotInv, TypeOK, Groups
<1>3. slot[g][c] = IF c < handed[g] THEN "Strings" ELSE "Empty"
  BY <1>0, <1>2 DEF SlotInv, Filled
<1>4. /\ slot' \in [Groups -> [Buckets -> {"Empty", "Waiting", "Strings"}]]
      /\ slot'[g][c] = IF c < handed[g] THEN "Empty" ELSE "Waiting"
      /\ \A h \in Groups, b \in Buckets : h # g \/ b # c => slot'[h][b] = slot[h][b]
  BY <1>0, <1>1, <1>2, <1>3 DEF TypeOK
<1>5. /\ pc' \in [Threads -> {"parked", "ready", "merge", "load", "cas", "finished", "dropped"}]
      /\ \A y \in Threads \ {c} : pc'[y] = pc[y]
      /\ pc'[c] = IF c < handed[g] THEN "merge" ELSE "parked"
  BY <1>0, <1>1, <1>3 DEF TypeOK
<1>6. TypeOK'
  BY <1>0, <1>1, <1>2, <1>4, <1>5 DEF TypeOK
<1>7. QueueInv' /\ HandInv' /\ PoolInv'
  BY <1>1, <1>2 DEF IInv, QueueInv, Taken, HandInv, PoolInv
<1>8. SlotInv'
  <2>1. \A b \in Buckets : next[b] = Len(groups) + 1 <=> pc'[b] = "finished"
    BY <1>0, <1>5 DEF SlotInv
  <2>2. ASSUME NEW h \in Groups, NEW b \in Buckets
        PROVE  /\ h < next[b] => slot'[h][b] = "Empty" /\ b < handed[h]
               /\ h > next[b] => slot'[h][b] = Filled(h, b)
               /\ h = next[b] => CASE pc'[b] = "parked" -> slot'[h][b] = "Waiting" /\ ~(b < handed[h])
                                   [] pc'[b] = "ready" -> slot'[h][b] = Filled(h, b)
                                   [] OTHER -> slot'[h][b] = "Empty" /\ b < handed[h]
    <3>1. CASE b # c
      BY <1>0, <1>4, <1>5, <3>1 DEF SlotInv
    <3>2. CASE b = c /\ h = g
      BY <1>2, <1>4, <1>5, <3>2 DEF Groups
    <3>3. CASE b = c /\ h # g
      <4>1. slot'[h][b] = slot[h][b] /\ h # next[b]
        BY <1>4, <3>3
      <4> QED
        BY <1>0, <4>1 DEF SlotInv
    <3> QED
      BY <3>1, <3>2, <3>3
  <2> QED
    <3>1. Groups' = Groups /\ next' = next /\ handed' = handed /\ groups' = groups
      BY <1>1, <1>2
    <3> QED
      BY <2>1, <2>2, <3>1 DEF SlotInv, Filled
<1>9. OutInv'
  <2>1. \A b \in Buckets : pc'[b] \in {"load", "cas"} <=> pc[b] \in {"load", "cas"}
    BY <1>0, <1>5
  <2> QED
    BY <1>0, <1>1, <1>2, <2>1 DEF OutInv
<1>10. WakeInv'
  <2>1. \A x \in Threads : pc[x] \in {"load", "cas"} => pc'[x] = pc[x]
    BY <1>0, <1>5
  <2> QED
    BY <1>1, <2>1 DEF IInv, WakeInv
<1>11. ThreadInv'
  <2>1. pc'[Main] = pc[Main]
    BY <1>5, Constants_
  <2> QED
    BY <1>0, <1>1, <1>2, <1>5, <2>1 DEF IInv, ThreadInv
<1> QED
  BY <1>1, <1>6, <1>7, <1>8, <1>9, <1>10, <1>11 DEF IInv

\* A bucket that merges the strings it took and gives their Vec back.
LEMMA MergeStringsPreserves ==
    ASSUME IInv, NEW c \in Buckets, MergeStrings(c) PROVE IInv'
<1> SUFFICES ASSUME NEW g, g = next[c] PROVE IInv'
  OBVIOUS
<1> USE DEF Threads
<1>0. /\ TypeOK /\ QueueInv /\ HandInv /\ SlotInv /\ OutInv /\ PoolInv /\ WakeInv /\ pc[c] = "merge"
      /\ Len(groups) \in Nat /\ NumBuckets \in Nat \ {0}
  BY Constants_ DEF IInv, TypeOK, MergeStrings
<1>1. /\ UNCHANGED <<secs, groups, unprocessed, spawned, gpc, handed, slot, seen, next, result>>
      /\ \/ pc' = [pc EXCEPT ![c] = "dropped"] /\ errors' = TRUE /\ UNCHANGED <<out, available>>
         \/ /\ pc' = [pc EXCEPT ![c] = "load"] /\ UNCHANGED errors
            /\ out' = out \ {<<g, c>>} /\ available' = available + 1
  BY DEF MergeStrings, data
<1>2. g \in Groups /\ Groups' = Groups
  BY <1>0, <1>1 DEF SlotInv, TypeOK, Groups
<1>3. /\ pc' \in [Threads -> {"parked", "ready", "merge", "load", "cas", "finished", "dropped"}]
      /\ \A y \in Threads \ {c} : pc'[y] = pc[y]
      /\ pc'[c] \in {"dropped", "load"}
  BY <1>0, <1>1 DEF TypeOK
<1>4. TypeOK'
  <2>1. available' \in Nat /\ out' \subseteq Groups \X Buckets /\ errors' \in BOOLEAN
    <3>1. available \in Nat /\ out \subseteq Groups \X Buckets /\ errors \in BOOLEAN
      BY <1>0 DEF TypeOK
    <3>2. errors' \in BOOLEAN
      BY <1>1, <3>1
    <3>3. available' \in Nat
      BY <1>1, <3>1
    <3>4. out' \subseteq out
      BY <1>1
    <3> QED
      BY <3>1, <3>2, <3>3, <3>4
  <2> QED
    BY <1>0, <1>1, <1>2, <1>3, <2>1 DEF TypeOK
<1>5. QueueInv' /\ HandInv'
  BY <1>0, <1>1, <1>2 DEF QueueInv, Taken, HandInv
<1>6. SlotInv'
  <2>1. \A b \in Buckets : next[b] = Len(groups) + 1 <=> pc'[b] = "finished"
    BY <1>0, <1>3 DEF SlotInv
  <2>2. ASSUME NEW h \in Groups, NEW b \in Buckets
        PROVE  /\ h < next[b] => slot[h][b] = "Empty" /\ b < handed[h]
               /\ h > next[b] => slot[h][b] = Filled(h, b)
               /\ h = next[b] => CASE pc'[b] = "parked" -> slot[h][b] = "Waiting" /\ ~(b < handed[h])
                                   [] pc'[b] = "ready" -> slot[h][b] = Filled(h, b)
                                   [] OTHER -> slot[h][b] = "Empty" /\ b < handed[h]
    <3>1. CASE b # c
      BY <1>0, <1>3, <3>1 DEF SlotInv
    <3>2. CASE b = c
      BY <1>0, <1>3, <3>2 DEF SlotInv
    <3> QED
      BY <3>1, <3>2
  <2> QED
    BY <1>1, <1>2, <2>1, <2>2 DEF SlotInv, Filled
<1>7. <<g, c>> \in out
  <2>1. c < handed[g] /\ c \in Nat
    BY <1>0, <1>2 DEF SlotInv, Buckets
  <2>2. gpc[g] # "queued"
    BY <1>0, <1>2, <2>1 DEF HandInv
  <2> QED
    BY <1>0, <1>2, <2>2 DEF OutInv
<1>8. CASE pc'[c] = "dropped"
  <2>1. errors' = TRUE /\ UNCHANGED <<out, available>>
    BY <1>0, <1>1, <1>8 DEF TypeOK
  <2>2. OutInv'
    <3>1. \A b \in Buckets : pc'[b] \in {"load", "cas"} <=> pc[b] \in {"load", "cas"}
      BY <1>0, <1>3, <1>8
    <3> QED
      BY <1>0, <1>1, <1>2, <2>1, <3>1 DEF OutInv
  <2>3. PoolInv' /\ WakeInv'
    <3>1. \A x \in Threads : pc[x] \in {"load", "cas"} => pc'[x] = pc[x]
      BY <1>0, <1>3
    <3> QED
      BY <1>0, <1>1, <2>1, <3>1 DEF PoolInv, WakeInv
  <2>4. ThreadInv'
    <3>1. pc'[Main] = pc[Main]
      BY <1>3, Constants_
    <3> QED
      BY <1>1, <1>2, <1>3, <1>8, <2>1, <3>1 DEF IInv, ThreadInv
  <2> QED
    BY <1>1, <1>4, <1>5, <1>6, <2>2, <2>3, <2>4 DEF IInv
<1>9. CASE pc'[c] = "load"
  <2>1. UNCHANGED errors /\ out' = out \ {<<g, c>>} /\ available' = available + 1
    BY <1>0, <1>1, <1>9 DEF TypeOK
  <2>2. ASSUME NEW h \in Groups, NEW b \in Buckets
        PROVE  <<h, b>> \in out' <=> /\ gpc[h] # "queued"
                                     /\ \/ h > next[b]
                                        \/ h = next[b] /\ pc'[b] \notin {"load", "cas"}
    <3>1. <<h, b>> \in out <=> /\ gpc[h] # "queued"
                               /\ \/ h > next[b]
                                  \/ h = next[b] /\ pc[b] \notin {"load", "cas"}
      BY <1>0 DEF OutInv
    <3>2. <<h, b>> \in out' <=> <<h, b>> \in out /\ ~(h = g /\ b = c)
      BY <2>1
    <3>3. CASE b # c
      BY <1>3, <3>1, <3>2, <3>3
    <3>4. CASE b = c
      <4>1. g = next[c] /\ g \in Nat /\ h \in Nat /\ next[b] = g
        BY <1>0, <1>2, <3>4 DEF Groups
      <4>2. h = g => ~(h > next[b])
        BY <4>1
      <4>3. CASE h = g
        BY <1>9, <3>2, <3>4, <4>1, <4>2, <4>3
      <4>4. CASE h # g
        BY <3>1, <3>2, <4>1, <4>4
      <4> QED
        BY <4>3, <4>4
    <3> QED
      BY <3>3, <3>4
  <2>3. OutInv'
    BY <1>1, <1>2, <2>2 DEF OutInv
  <2>4. PoolInv'
    <3>1. /\ IsFiniteSet(out') /\ Cardinality(out') = Cardinality(out) - 1
          /\ Cardinality(out) \in Nat
      BY <1>0, <1>7, <2>1, FS_RemoveElement, FS_CardinalityType DEF PoolInv
    <3>2. NumBuckets * spawned \in Nat /\ available \in Nat
      BY <1>0 DEF TypeOK
    <3> QED
      BY <1>0, <1>1, <2>1, <3>1, <3>2 DEF PoolInv, Capacity
  <2>5. WakeInv'
    BY <1>9 DEF WakeInv
  <2>6. ThreadInv'
    <3>1. pc'[Main] = pc[Main]
      BY <1>3, Constants_
    <3> QED
      BY <1>1, <1>2, <1>3, <1>9, <2>1, <3>1 DEF IInv, ThreadInv
  <2> QED
    BY <1>1, <1>4, <1>5, <1>6, <2>3, <2>4, <2>5, <2>6 DEF IInv
<1> QED
  BY <1>3, <1>8, <1>9

-----------------------------------------------------------------------------
(* The end of the scope. *)

\* When the scope ends without an error, nothing is left: a Vec that were
\* still out would belong to a bucket that waits for a group still in the
\* queue, and the queue is in order; with every Vec back, a group left in the
\* queue would need a thread that has yet to reserve for it.
LEMMA ScopeEnds ==
    ASSUME IInv, ScopeDone, ~errors
    PROVE  /\ \A b \in Buckets : pc[b] = "finished"
           /\ \A g \in Groups : gpc[g] = "done"
           /\ available = Capacity
<1> USE DEF Threads
<1>0. /\ TypeOK /\ QueueInv /\ HandInv /\ SlotInv /\ OutInv /\ PoolInv /\ WakeInv /\ ThreadInv
      /\ Len(groups) \in Nat /\ NumBuckets \in Nat \ {0} /\ Capacity \in Nat /\ Capacity >= NumBuckets
      /\ available \in Nat /\ Len(unprocessed) \in Nat
  BY Constants_ DEF IInv, TypeOK
<1>1. /\ spawned = 0
      /\ \A g \in Groups : gpc[g] \in {"queued", "done"}
      /\ \A x \in Threads : pc[x] \in {"parked", "finished"}
  <2>1. \A g \in Groups : gpc[g] \in {"queued", "done"}
    BY <1>0 DEF ScopeDone, ThreadInv, TypeOK
  <2>2. \A b \in Buckets : pc[b] \in {"parked", "finished"}
    BY <1>0 DEF ScopeDone, ThreadInv
  <2>3. pc[Main] \in {"parked", "finished"}
    BY <1>0 DEF ScopeDone, ThreadInv
  <2> QED
    BY <2>1, <2>2, <2>3 DEF ScopeDone
<1>2. ASSUME NEW b \in Buckets, pc[b] = "parked"
      PROVE  next[b] \in Groups /\ gpc[next[b]] = "queued"
  <2>1. next[b] \in Groups
    BY <1>0, <1>2 DEF SlotInv, TypeOK, Groups
  <2>2. ~(b < handed[next[b]])
    BY <1>0, <1>2, <2>1 DEF SlotInv
  <2>3. handed[next[b]] # NumBuckets
    BY <1>0, <2>2 DEF Buckets
  <2> QED
    BY <1>0, <1>1, <2>1, <2>3 DEF HandInv
<1>3. out = {}
  <2> SUFFICES ASSUME NEW g \in Groups, NEW b \in Buckets, <<g, b>> \in out PROVE FALSE
    BY <1>0 DEF TypeOK
  <2>1. gpc[g] # "queued" /\ (g > next[b] \/ g = next[b])
    BY <1>0 DEF OutInv
  <2>2. next[b] \in Nat /\ g \in Nat /\ g <= Len(groups)
    BY <1>0 DEF TypeOK, Groups
  <2>3. pc[b] = "parked"
    BY <1>0, <1>1, <2>1, <2>2 DEF SlotInv
  <2>4. next[b] \in Groups /\ gpc[next[b]] = "queued"
    BY <1>2, <2>3
  <2>5. next[b] > Taken /\ ~(g > Taken) /\ Taken \in Int
    BY <1>0, <2>1, <2>4 DEF QueueInv, Taken
  <2> QED
    BY <2>1, <2>2, <2>5
<1>4. available = Capacity
  <2>1. Cardinality(out) = 0
    BY <1>3, FS_EmptySet
  <2>2. NumBuckets * spawned = 0
    BY <1>0, <1>1
  <2> QED
    BY <1>0, <2>1, <2>2 DEF PoolInv
<1>5. unprocessed = << >>
  BY <1>0, <1>1, <1>4 DEF WakeInv
<1>6. \A g \in Groups : gpc[g] = "done"
  <2>1. Taken = Len(groups)
    BY <1>0, <1>5 DEF Taken
  <2> QED
    BY <1>0, <1>1, <2>1 DEF QueueInv, Groups
<1> QED
  BY <1>1, <1>2, <1>4, <1>6

\* add_input_sections does not panic on its way out.
LEMMA FinishPreserves ==
    ASSUME IInv, Finish PROVE IInv'
<1>1. UNCHANGED <<secs, groups, unprocessed, spawned, gpc, handed, slot, pc, seen, next, out,
                  available, data, errors>>
  BY DEF Finish
<1>2. result' \in {"Ok", "Err"}
  <2>1. CASE errors
    BY <2>1 DEF Finish
  <2>2. CASE ~errors
    BY <2>2, ScopeEnds DEF Finish
  <2> QED
    BY <2>1, <2>2
<1>3. TypeOK'
  BY <1>1, <1>2 DEF IInv, TypeOK, Groups
<1>4. QueueInv' /\ HandInv' /\ SlotInv' /\ OutInv'
  BY <1>1 DEF IInv, QueueInv, Taken, HandInv, SlotInv, Filled, OutInv, Groups
<1>5. PoolInv' /\ WakeInv' /\ ThreadInv'
  BY <1>1 DEF IInv, PoolInv, WakeInv, ThreadInv, Groups
<1> QED
  BY <1>2, <1>3, <1>4, <1>5 DEF IInv

\* A step that changes nothing.
LEMMA StutterPreserves ==
    ASSUME IInv, UNCHANGED vars PROVE IInv'
<1>1. UNCHANGED <<secs, groups, unprocessed, spawned, gpc, handed, slot, pc, seen, next, out,
                  available, errors, result>>
  BY DEF vars
<1>2. TypeOK'
  BY <1>1 DEF IInv, TypeOK, Groups
<1>3. QueueInv' /\ HandInv' /\ SlotInv' /\ OutInv'
  BY <1>1 DEF IInv, QueueInv, Taken, HandInv, SlotInv, Filled, OutInv, Groups
<1>4. PoolInv' /\ WakeInv' /\ ThreadInv'
  BY <1>1 DEF IInv, PoolInv, WakeInv, ThreadInv, Groups
<1> QED
  BY <1>1, <1>2, <1>3, <1>4 DEF IInv

\* create_split_resources establishes the invariant: every bucket waits in
\* the slots of the first group.
LEMMA InitInv ==
    ASSUME Init PROVE IInv
<1>0. /\ Len(groups) \in Nat \ {0} /\ secs \in Inputs
      /\ NumBuckets \in Nat \ {0} /\ Capacity \in Nat /\ Main \notin Buckets
  BY MergeAssumption, Constants_ DEF Init
<1>1. unprocessed \in Seq(Groups) /\ Len(unprocessed) = Len(groups) /\ \A g \in Groups : unprocessed[g] = g
  BY <1>0 DEF Init, Groups
<1>2. /\ spawned = 0 /\ gpc = [g \in Groups |-> "queued"] /\ handed = [g \in Groups |-> 0]
      /\ slot = [g \in Groups |-> [b \in Buckets |-> IF g = 1 THEN "Waiting" ELSE "Empty"]]
      /\ pc = [x \in Buckets \cup {Main} |-> IF x = Main THEN "load" ELSE "parked"]
      /\ seen = [x \in Buckets \cup {Main} |-> 0] /\ next = [b \in Buckets |-> 1]
      /\ out = {} /\ available = Capacity /\ errors = FALSE /\ result = "none"
  BY DEF Init
<1>3. TypeOK
  <2>1. /\ gpc \in [Groups -> {"queued", "handing", "done", "failed"}]
        /\ handed \in [Groups -> 0 .. NumBuckets]
        /\ next \in [Buckets -> 1 .. Len(groups) + 1]
    BY <1>0, <1>2
  <2>2. slot \in [Groups -> [Buckets -> {"Empty", "Waiting", "Strings"}]]
    BY <1>2
  <2>3. /\ pc \in [Buckets \cup {Main} -> {"parked", "ready", "merge", "load", "cas", "finished", "dropped"}]
        /\ seen \in [Buckets \cup {Main} -> Nat]
    BY <1>2
  <2> QED
    BY <1>0, <1>1, <1>2, <2>1, <2>2, <2>3 DEF TypeOK
<1>4. QueueInv
  BY <1>0, <1>1, <1>2 DEF QueueInv, Taken, Groups
<1>5. HandInv
  BY <1>0, <1>2 DEF HandInv
<1>6. SlotInv
  <2>1. \A b \in Buckets : pc[b] = "parked" /\ next[b] = 1
    BY <1>0, <1>2
  <2>2. \A g \in Groups, b \in Buckets : ~(b < handed[g]) /\ slot[g][b] = IF g = 1 THEN "Waiting" ELSE "Empty"
    BY <1>0, <1>2 DEF Buckets
  <2> QED
    BY <1>0, <2>1, <2>2 DEF SlotInv, Filled, Groups
<1>7. OutInv
  BY <1>2 DEF OutInv
<1>8. PoolInv
  BY <1>0, <1>2, FS_EmptySet DEF PoolInv
<1>9. WakeInv /\ ThreadInv
  BY <1>0, <1>2 DEF WakeInv, ThreadInv, Threads
<1> QED
  BY <1>2, <1>3, <1>4, <1>5, <1>6, <1>7, <1>8, <1>9 DEF IInv

\* The inductive invariant of string merging: where every group, bucket and
\* Vec is, and that a group left in the queue has a thread to reserve for it.
THEOREM Invariance == Spec => []IInv
<1>1. Init => IInv
  BY InitInv
<1>2. IInv /\ [Next]_vars => IInv'
  <2> SUFFICES ASSUME IInv, [Next]_vars PROVE IInv'
    OBVIOUS
  <2>1. ASSUME NEW x \in Buckets \cup {Main}, Thread(x) PROVE IInv'
    BY <2>1, ReserveLoadPreserves, ReserveExchangePreserves, LockSlotPreserves,
       MergeStringsPreserves DEF Thread, Threads
  <2>2. CASE InputTask
    BY <2>2, TaskUnreservesPreserves, TaskSplitsPreserves DEF InputTask
  <2>3. ASSUME NEW g \in Groups, HandOver(g) PROVE IInv'
    BY <2>3, HandOverPreserves
  <2>4. CASE Finish
    BY <2>4, FinishPreserves
  <2>5. CASE Returned
    BY <2>5, StutterPreserves DEF Returned
  <2>6. CASE UNCHANGED vars
    BY <2>6, StutterPreserves
  <2> QED
    BY <2>1, <2>2, <2>3, <2>4, <2>5, <2>6 DEF Next
<1> QED
  BY <1>1, <1>2, PTL DEF Spec

\* Type correctness; in particular try_reserve never takes the pool below 0.
THEOREM TypeCorrect == Spec => []TypeOK
<1>1. IInv => TypeOK
  BY DEF IInv
<1> QED
  BY <1>1, Invariance, PTL

\* The scope of add_input_sections ends without an error only when every group
\* was split, every bucket has finished, and every Vec is back in the pool, so
\* the assertion of merge_strings on the pool never fires.
THEOREM NothingIsStranded == Spec => []NothingStranded
<1>1. IInv => NothingStranded
  BY DEF IInv, NothingStranded
<1> QED
  BY <1>1, Invariance, PTL

\* Reservations and returns balance at every moment: the Vecs available,
\* reserved for a spawned task and held by a group are all the Vecs there are.
THEOREM PoolIsConserved == Spec => []PoolInv
<1>1. IInv => PoolInv
  BY DEF IInv
<1> QED
  BY <1>1, Invariance, PTL
=============================================================================
