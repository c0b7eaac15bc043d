-------------------------- MODULE VectorIndexProofs --------------------------
(***************************************************************************)
(* Theorems about the files of the vertex id index: a task that nobody     *)
(* disturbed has vectors and properties that belong together, and leaves   *)
(* files that do, for any number of vertices, tasks, rebuilds and crashes; *)
(* nobody, disturbed or not, stores a vertex twice.                        *)
(*                                                                         *)
(* IndexInv follows the files into a task's memory and back: what a task   *)
(* has read of them is still true while it is alone.  StoreInv says which  *)
(* vertices a sequence names, however the tasks interleave.                *)
(***************************************************************************)
EXTENDS VectorIndex, FiniteSetTheorems, TLAPS

\* The functions have a value for every task; which one does not matter.
Shaped ==
  /\ pc \in [Task -> Stages]
  /\ rows = [t \in Task |-> rows[t]]
  /\ props = [t \in Task |-> props[t]]
  /\ alone \in [Task -> BOOLEAN]

\* What the stage of an undisturbed task says of its copy and of the files.
Known(t) ==
  /\ pc[t] = "readIndex" => indexFile = propFile
  /\ pc[t] = "readProps" => indexFile = propFile /\ rows[t] = propFile
  /\ pc[t] = "loaded" => /\ indexFile = propFile
                         /\ rows[t] = props[t]
                         /\ \/ propFile = Missing /\ props[t] = <<>>
                            \/ Readable(propFile) /\ props[t] = propFile
  /\ pc[t] \in {"embed"} \cup Saving => rows[t] = props[t]
  /\ pc[t] \in {"saveProps", "propsOpen"} => indexFile = rows[t]

IndexInv ==
  /\ Shaped
  /\ \A t \in Task : pc[t] \in {"idle", "load"} => rows[t] = <<>> /\ props[t] = <<>>
  /\ \A t \in Task : alone[t] => Known(t)
-----------------------------------------------------------------------------

LEMMA ShapedStep ==
  ASSUME IndexInv, [Next]_vars
  PROVE  Shaped'
<1>1. /\ pc \in [Task -> Stages] /\ rows = [t \in Task |-> rows[t]]
      /\ props = [t \in Task |-> props[t]] /\ alone \in [Task -> BOOLEAN]
  BY DEF IndexInv, Shaped
<1>2. \/ pc' = pc
      \/ \E t \in Task, s \in Stages : pc' = [pc EXCEPT ![t] = s]
      \/ pc' = [t \in Task |-> "idle"]
  BY DEF Next, Load, Rebuild, Save, Exists, ReadIndex, ReadProps, ReadFails, Fetch, NothingAdded,
         Diff, Embed, EmbedFails, OpenIndex, WriteIndex, OpenProps, WriteProps, StartQuery, Search,
         CleanIndex, CleanProps, Crash, Goto, Ends, vars, Stages, Saving
<1>3. \/ alone' = alone
      \/ \E t \in Task : alone' = [alone EXCEPT ![t] = Settled]
      \/ \E others : Disturb(others)
  BY DEF Next, Load, Rebuild, Save, Exists, ReadIndex, ReadProps, ReadFails, Fetch, NothingAdded,
         Diff, Embed, EmbedFails, OpenIndex, WriteIndex, OpenProps, WriteProps, StartQuery, Search,
         CleanIndex, CleanProps, Crash, vars
<1>4. \/ rows' = rows
      \/ \E t \in Task : \E s : rows' = [rows EXCEPT ![t] = s]
      \/ rows' = [t \in Task |-> <<>>]
  BY DEF Next, Load, Rebuild, Save, Exists, ReadIndex, ReadProps, ReadFails, Fetch, NothingAdded,
         Diff, Embed, EmbedFails, OpenIndex, WriteIndex, OpenProps, WriteProps, StartQuery, Search,
         CleanIndex, CleanProps, Crash, Ends, RemoveVids, AddVids, vars, memory
<1>5. \/ props' = props
      \/ \E t \in Task : \E s : props' = [props EXCEPT ![t] = s]
      \/ props' = [t \in Task |-> <<>>]
  BY DEF Next, Load, Rebuild, Save, Exists, ReadIndex, ReadProps, ReadFails, Fetch, NothingAdded,
         Diff, Embed, EmbedFails, OpenIndex, WriteIndex, OpenProps, WriteProps, StartQuery, Search,
         CleanIndex, CleanProps, Crash, Ends, RemoveVids, AddVids, vars, memory
<1>6. pc' \in [Task -> Stages]
  BY <1>1, <1>2 DEF Stages
<1>7. alone' \in [Task -> BOOLEAN]
  BY <1>1, <1>3 DEF Disturb, Settled
<1>8. rows' = [t \in Task |-> rows'[t]] /\ props' = [t \in Task |-> props'[t]]
  BY <1>1, <1>4, <1>5
<1>9. QED
  BY <1>6, <1>7, <1>8 DEF Shaped

\* A task's own step.
TaskStep(t) == Load(t) \/ Rebuild(t) \/ Save(t) \/ StartQuery(t) \/ Search(t)

LEMMA OwnStep ==
  ASSUME IndexInv, NEW t \in Task, TaskStep(t)
  PROVE  /\ pc'[t] \in {"idle", "load"} => rows'[t] = <<>> /\ props'[t] = <<>>
         /\ alone'[t] => Known(t)'
<1>1. /\ pc \in [Task -> Stages] /\ DOMAIN rows = Task /\ DOMAIN props = Task
      /\ alone \in [Task -> BOOLEAN]
  BY DEF IndexInv, Shaped
<1>2. /\ pc[t] \in {"idle", "load"} => rows[t] = <<>> /\ props[t] = <<>>
      /\ alone[t] => Known(t)
  BY DEF IndexInv
<1>3. ASSUME Ends(t)
      PROVE  pc'[t] = "idle" /\ rows'[t] = <<>> /\ props'[t] = <<>>
  BY <1>1, <1>3 DEF Ends, Goto
<1>4. CASE Ends(t)
  BY <1>3, <1>4 DEF Known, Saving
<1>5. CASE Fetch(t) \/ StartQuery(t)
  BY <1>1, <1>2, <1>5 DEF Fetch, StartQuery, Goto, memory, Known, Saving
<1>6. CASE Exists(t)
  <2>1. /\ pc[t] = "load" /\ UNCHANGED <<indexFile, propFile, rows, props>>
        /\ alone'[t] => indexFile = propFile
        /\ pc'[t] = IF Missing \in {indexFile, propFile} THEN "loaded" ELSE "readIndex"
    BY <1>1, <1>6 DEF Exists, Goto, Settled, files, memory
  <2>2. QED
    BY <1>2, <2>1 DEF Known, Saving
<1>7. CASE ReadIndex(t)
  <2>1. /\ pc[t] = "readIndex" /\ pc'[t] = "readProps" /\ rows'[t] = indexFile
        /\ UNCHANGED <<indexFile, propFile, alone>>
    BY <1>1, <1>7 DEF ReadIndex, Goto, files
  <2>2. QED
    BY <1>2, <2>1 DEF Known, Saving
<1>8. CASE ReadProps(t)
  <2>1. /\ pc[t] = "readProps" /\ pc'[t] = "loaded" /\ props'[t] = propFile /\ Readable(propFile)
        /\ UNCHANGED <<indexFile, propFile, alone, rows>>
    BY <1>1, <1>8 DEF ReadProps, Goto, files
  <2>2. QED
    BY <1>2, <2>1 DEF Known, Saving, Readable
<1>9. CASE Diff(t)
  <2>1. /\ pc[t] = "loaded" /\ pc'[t] = "embed" /\ UNCHANGED <<indexFile, propFile, alone>>
    BY <1>1, <1>9 DEF Diff, Goto, files
  <2>2. PICK at : rows'[t] = Without(rows[t], at) /\ props'[t] = Without(props[t], at)
    BY <1>1, <1>9 DEF Diff, RemoveVids
  <2>3. QED
    BY <1>2, <2>1, <2>2 DEF Known, Saving
<1>10. CASE Embed(t)
  <2>1. /\ pc[t] = "embed" /\ pc'[t] = "saveIndex" /\ UNCHANGED <<indexFile, propFile, alone>>
    BY <1>1, <1>10 DEF Embed, Goto, files
  <2>2. PICK vids : rows'[t] = rows[t] \o vids /\ props'[t] = props[t] \o vids
    BY <1>1, <1>10 DEF Embed, AddVids
  <2>3. QED
    BY <1>2, <2>1, <2>2 DEF Known, Saving
<1>11. ASSUME Disturb(Task \ {t})
       PROVE  alone'[t] = alone[t]
  BY <1>1, <1>11 DEF Disturb
<1>12. CASE OpenIndex(t)
  <2>1. pc[t] = "saveIndex" /\ pc'[t] = "indexOpen" /\ UNCHANGED <<rows, props>>
    BY <1>1, <1>12 DEF OpenIndex, Goto, memory
  <2>2. QED
    BY <1>2, <1>11, <1>12, <2>1 DEF OpenIndex, Known, Saving
<1>13. CASE WriteIndex(t)
  <2>1. pc[t] = "indexOpen" /\ pc'[t] = "saveProps" /\ UNCHANGED <<rows, props>>
        /\ indexFile' = rows[t]
    BY <1>1, <1>13 DEF WriteIndex, Goto, memory
  <2>2. QED
    BY <1>2, <1>11, <1>13, <2>1 DEF WriteIndex, Known, Saving
<1>14. CASE OpenProps(t)
  <2>1. pc[t] = "saveProps" /\ pc'[t] = "propsOpen" /\ UNCHANGED <<rows, props, indexFile>>
    BY <1>1, <1>14 DEF OpenProps, Goto, memory
  <2>2. QED
    BY <1>2, <1>11, <1>14, <2>1 DEF OpenProps, Known, Saving
<1>15. QED
  BY <1>4, <1>5, <1>6, <1>7, <1>8, <1>9, <1>10, <1>12, <1>13, <1>14
     DEF TaskStep, Load, Rebuild, Save, ReadFails, Search, NothingAdded, EmbedFails, WriteProps

\* A task's step leaves the memory of every other task alone, and its files
\* too, or the other one is disturbed.
LEMMA OthersKept ==
  ASSUME IndexInv, NEW t \in Task, NEW u \in Task \ {t}, TaskStep(t)
  PROVE  /\ pc'[u] = pc[u] /\ rows'[u] = rows[u] /\ props'[u] = props[u]
         /\ alone'[u] => alone[u] /\ UNCHANGED files
<1>1. /\ pc \in [Task -> Stages] /\ DOMAIN rows = Task /\ DOMAIN props = Task
      /\ alone \in [Task -> BOOLEAN]
  BY DEF IndexInv, Shaped
<1>2. pc'[u] = pc[u]
  BY <1>1 DEF TaskStep, Load, Rebuild, Save, Exists, ReadIndex, ReadProps, ReadFails, Fetch,
              NothingAdded, Diff, Embed, EmbedFails, OpenIndex, WriteIndex, OpenProps, WriteProps,
              StartQuery, Search, Goto, Ends
<1>3. rows'[u] = rows[u] /\ props'[u] = props[u]
  BY <1>1 DEF TaskStep, Load, Rebuild, Save, Exists, ReadIndex, ReadProps, ReadFails, Fetch,
              NothingAdded, Diff, Embed, EmbedFails, OpenIndex, WriteIndex, OpenProps, WriteProps,
              StartQuery, Search, Ends, RemoveVids, AddVids, memory
<1>4. alone'[u] => alone[u] /\ UNCHANGED files
  BY <1>1 DEF TaskStep, Load, Rebuild, Save, Exists, ReadIndex, ReadProps, ReadFails, Fetch,
              NothingAdded, Diff, Embed, EmbedFails, OpenIndex, WriteIndex, OpenProps, WriteProps,
              StartQuery, Search, Disturb
<1>5. QED
  BY <1>2, <1>3, <1>4

LEMMA IndexStep ==
  ASSUME IndexInv, [Next]_vars
  PROVE  IndexInv'
<1>1. Shaped'
  BY ShapedStep
<1>2. /\ \A t \in Task : pc[t] \in {"idle", "load"} => rows[t] = <<>> /\ props[t] = <<>>
      /\ \A t \in Task : alone[t] => Known(t)
      /\ alone \in [Task -> BOOLEAN]
  BY DEF IndexInv, Shaped
<1>3. ASSUME NEW t \in Task, TaskStep(t)
      PROVE  IndexInv'
  <2>1. ASSUME NEW u \in Task
        PROVE  /\ pc'[u] \in {"idle", "load"} => rows'[u] = <<>> /\ props'[u] = <<>>
               /\ alone'[u] => Known(u)'
    <3>1. CASE u = t
      BY <1>3, <3>1, OwnStep
    <3>2. CASE u # t
      <4>1. /\ pc'[u] = pc[u] /\ rows'[u] = rows[u] /\ props'[u] = props[u]
            /\ alone'[u] => alone[u] /\ UNCHANGED files
        BY <1>3, <3>2, OthersKept
      <4>2. QED
        BY <1>2, <4>1 DEF Known, files, Readable
    <3>3. QED
      BY <3>1, <3>2
  <2>2. QED
    BY <1>1, <2>1 DEF IndexInv
<1>4. CASE CleanIndex \/ CleanProps
  <2>1. /\ UNCHANGED <<pc, rows, props>> /\ \A t \in Task : ~alone'[t]
    BY <1>2, <1>4 DEF CleanIndex, CleanProps, Disturb, memory
  <2>2. QED
    BY <1>1, <1>2, <2>1 DEF IndexInv
<1>5. CASE Crash
  <2>1. \A t \in Task : ~alone'[t] /\ rows'[t] = <<>> /\ props'[t] = <<>>
    BY <1>2, <1>5 DEF Crash, Disturb
  <2>2. QED
    BY <1>1, <2>1 DEF IndexInv
<1>6. CASE UNCHANGED vars
  BY <1>1, <1>2, <1>6 DEF IndexInv, Known, Readable, vars, files, memory
<1>7. QED
  BY <1>3, <1>4, <1>5, <1>6 DEF Next, TaskStep

LEMMA IndexInvariant == Spec => []IndexInv
<1>1. Init => IndexInv
  BY DEF Init, IndexInv, Shaped, Known, Stages, Saving
<1>2. IndexInv /\ [Next]_vars => IndexInv'
  BY IndexStep
<1>3. QED
  BY <1>1, <1>2, PTL DEF Spec

\* Vectors and properties of an undisturbed task belong together, for any
\* number of tasks, rebuilds and crashes.
THEOREM UndisturbedMatches == Spec => []MatchedUnlessDisturbed
<1>1. IndexInv => MatchedUnlessDisturbed
  BY DEF IndexInv, Known, MatchedUnlessDisturbed
<1>2. QED
  BY <1>1, IndexInvariant, PTL

-----------------------------------------------------------------------------
(***************************************************************************)
(* Removal by position, and what the index stores.                         *)
(***************************************************************************)

\* A finite set of positions is counted by Nth, from the smallest on.
LEMMA NthCounts ==
  ASSUME NEW at \in SUBSET Nat, IsFiniteSet(at)
  PROVE  /\ Cardinality(at) \in Nat
         /\ \A n \in 1 .. Cardinality(at) : Nth(at, n) \in at
         /\ \A m, n \in 1 .. Cardinality(at) : m < n => Nth(at, m) < Nth(at, n)
         /\ \A i \in at : \E n \in 1 .. Cardinality(at) : Nth(at, n) = i
<1> DEFINE Upto(i) == {j \in at : j <= i}
           rank == [i \in at |-> Cardinality(Upto(i))]
           N == Cardinality(at)
<1>1. N \in Nat /\ IsFiniteSet(1 .. N) /\ Cardinality(1 .. N) = N
  BY FS_CardinalityType, FS_Interval
<1>2. ASSUME NEW i \in at
      PROVE  IsFiniteSet(Upto(i)) /\ rank[i] \in 1 .. N
  <2>1. Upto(i) \in SUBSET at /\ i \in Upto(i)
    OBVIOUS
  <2>2. IsFiniteSet(Upto(i)) /\ Cardinality(Upto(i)) <= N
    BY <2>1, FS_Subset
  <2>3. Cardinality(Upto(i)) \in Nat /\ Cardinality(Upto(i)) # 0
    BY <2>1, <2>2, FS_CardinalityType, FS_EmptySet
  <2>4. QED
    BY <1>1, <2>2, <2>3
<1>3. ASSUME NEW i \in at, NEW k \in at, i < k
      PROVE  rank[i] < rank[k]
  <2>1. Upto(i) \in SUBSET Upto(k) /\ k \in Upto(k) /\ k \notin Upto(i)
    <3>1. i \in Nat /\ k \in Nat /\ \A j \in at : j \in Nat
      OBVIOUS
    <3>2. \A j \in at : j <= i => j <= k
      BY <1>3, <3>1
    <3>3. k <= k /\ ~ (k <= i)
      BY <1>3, <3>1
    <3>4. QED
      BY <3>2, <3>3
  <2>2. Cardinality(Upto(i)) <= Cardinality(Upto(k)) /\ Cardinality(Upto(i)) # Cardinality(Upto(k))
    BY <1>2, <2>1, FS_Subset
  <2>3. QED
    BY <1>2, <2>2
<1>4. rank \in Injection(at, 1 .. N)
  <2>1. \A i, k \in at : rank[i] = rank[k] => i = k
    BY <1>2, <1>3
  <2>2. QED
    BY <1>2, <2>1 DEF Injection, IsInjective
<1>5. rank \in Surjection(at, 1 .. N)
  BY <1>1, <1>4, FS_Injection
<1>6. ASSUME NEW n \in 1 .. N
      PROVE  Nth(at, n) \in at /\ rank[Nth(at, n)] = n
  <2>1. \E i \in at : Cardinality(Upto(i)) = n
    BY <1>5 DEF Surjection
  <2>2. QED
    BY <2>1 DEF Nth
<1> HIDE DEF rank
<1>7. \A m, n \in 1 .. N : m < n => Nth(at, m) < Nth(at, n)
  <2>1. ASSUME NEW m \in 1 .. N, NEW n \in 1 .. N, m < n, ~ (Nth(at, m) < Nth(at, n))
        PROVE  FALSE
    <3>1. Nth(at, m) \in Nat /\ Nth(at, n) \in Nat
      BY <1>6
    <3>2. Nth(at, n) < Nth(at, m) \/ Nth(at, n) = Nth(at, m)
      BY <2>1, <3>1
    <3>3. rank[Nth(at, n)] = n /\ rank[Nth(at, m)] = m
      BY <1>6
    <3>4. CASE Nth(at, n) < Nth(at, m)
      <4>1. rank[Nth(at, n)] < rank[Nth(at, m)]
        BY <1>3, <1>6, <3>4
      <4>2. QED
        BY <1>1, <2>1, <3>3, <4>1
    <3>5. CASE Nth(at, n) = Nth(at, m)
      BY <2>1, <3>3, <3>5
    <3>6. QED
      BY <3>2, <3>4, <3>5
  <2>2. QED
    BY <2>1
<1>8. \A i \in at : \E n \in 1 .. N : Nth(at, n) = i
  <2>1. ASSUME NEW i \in at
        PROVE  Nth(at, rank[i]) = i
    <3>1. rank[i] \in 1 .. N
      BY <1>2
    <3>2. Nth(at, rank[i]) \in at /\ rank[Nth(at, rank[i])] = rank[i]
      BY <1>6, <3>1
    <3>3. QED
      BY <1>4, <3>2 DEF Injection, IsInjective
  <2>2. QED
    BY <1>2, <2>1
<1>9. QED
  BY <1>1, <1>6, <1>7, <1>8

\* What remains of a sequence holds exactly the values at the other positions,
\* and holds none twice that the sequence did not.
LEMMA WithoutKeeps ==
  ASSUME NEW S, NEW s \in Seq(S), NEW at
  PROVE  /\ Without(s, at) \in Seq(S)
         /\ ToSet(Without(s, at)) = {s[i] : i \in DOMAIN s \ at}
         /\ IsInjective(s) => IsInjective(Without(s, at))
<1> DEFINE kept == DOMAIN s \ at
           N == Cardinality(kept)
           w == [n \in 1 .. N |-> s[Nth(kept, n)]]
<1>1. DOMAIN s = 1 .. Len(s) /\ Len(s) \in Nat /\ \A i \in DOMAIN s : s[i] \in S
  OBVIOUS
<1>2. kept \in SUBSET Nat /\ IsFiniteSet(kept)
  <2>1. kept \in SUBSET (1 .. Len(s)) /\ IsFiniteSet(1 .. Len(s))
    BY <1>1, FS_Interval
  <2>2. QED
    BY <1>1, <2>1, FS_Subset
<1>3. /\ N \in Nat
      /\ \A n \in 1 .. N : Nth(kept, n) \in kept
      /\ \A m, n \in 1 .. N : m < n => Nth(kept, m) < Nth(kept, n)
      /\ \A i \in kept : \E n \in 1 .. N : Nth(kept, n) = i
  BY <1>2, NthCounts
<1> HIDE DEF kept, N
<1>4. Without(s, at) = w
  BY DEF Without, kept, N
<1>5. kept \subseteq DOMAIN s
  BY DEF kept
<1>6. w \in [1 .. N -> S]
  BY <1>1, <1>3, <1>5
<1>7. w \in Seq(S)
  BY <1>3, <1>6
<1>8. ToSet(w) = {s[i] : i \in kept}
  BY <1>3 DEF ToSet
<1>9. ASSUME IsInjective(s)
      PROVE  IsInjective(w)
  <2>1. \A m, n \in 1 .. N : w[m] = w[n] => Nth(kept, m) = Nth(kept, n)
    BY <1>3, <1>5, <1>9 DEF IsInjective
  <2>2. ASSUME NEW m \in 1 .. N, NEW n \in 1 .. N, Nth(kept, m) = Nth(kept, n)
        PROVE  m = n
    <3>1. Nth(kept, m) \in Nat /\ m \in Nat /\ n \in Nat
      <4>1. \A j \in kept : j \in Nat
        BY <1>2
      <4>2. QED
        BY <1>3, <4>1
    <3>2. ~ (m < n) /\ ~ (n < m)
      BY <1>3, <2>2, <3>1
    <3>3. QED
      BY <3>1, <3>2
  <2>3. QED
    BY <2>1, <2>2 DEF IsInjective
<1>10. QED
  BY <1>4, <1>7, <1>8, <1>9 DEF kept

\* Appending what is not there yet.
LEMMA AppendKeeps ==
  ASSUME NEW S, NEW s \in Seq(S), NEW e \in Seq(S)
  PROVE  /\ s \o e \in Seq(S)
         /\ ToSet(s \o e) = ToSet(s) \cup ToSet(e)
         /\ IsInjective(s) /\ IsInjective(e) /\ ToSet(s) \cap ToSet(e) = {}
              => IsInjective(s \o e)
<1>1. /\ s \o e \in Seq(S) /\ Len(s) \in Nat /\ Len(e) \in Nat
      /\ DOMAIN s = 1 .. Len(s) /\ DOMAIN e = 1 .. Len(e)
      /\ DOMAIN (s \o e) = 1 .. Len(s) + Len(e)
      /\ \A i \in 1 .. Len(s) + Len(e) :
           (s \o e)[i] = IF i <= Len(s) THEN s[i] ELSE e[i - Len(s)]
  OBVIOUS
<1>2. ToSet(s \o e) = ToSet(s) \cup ToSet(e)
  <2>1. ASSUME NEW i \in 1 .. Len(s) + Len(e)
        PROVE  (s \o e)[i] \in ToSet(s) \cup ToSet(e)
    <3>1. CASE i <= Len(s)
      BY <1>1, <3>1 DEF ToSet
    <3>2. CASE ~ (i <= Len(s))
      <4>1. i - Len(s) \in 1 .. Len(e) /\ (s \o e)[i] = e[i - Len(s)]
        BY <1>1, <3>2
      <4>2. QED
        BY <1>1, <4>1 DEF ToSet
    <3>3. QED
      BY <3>1, <3>2
  <2>2. ASSUME NEW i \in 1 .. Len(s)
        PROVE  s[i] \in ToSet(s \o e)
    <3>1. i \in 1 .. Len(s) + Len(e) /\ (s \o e)[i] = s[i]
      BY <1>1
    <3>2. QED
      BY <1>1, <3>1 DEF ToSet
  <2>3. ASSUME NEW i \in 1 .. Len(e)
        PROVE  e[i] \in ToSet(s \o e)
    <3>1. Len(s) + i \in 1 .. Len(s) + Len(e) /\ (s \o e)[Len(s) + i] = e[i]
      BY <1>1
    <3>2. QED
      BY <1>1, <3>1 DEF ToSet
  <2>4. QED
    BY <1>1, <2>1, <2>2, <2>3 DEF ToSet
<1>3. ASSUME IsInjective(s), IsInjective(e), ToSet(s) \cap ToSet(e) = {},
             NEW i \in 1 .. Len(s) + Len(e), NEW j \in 1 .. Len(s) + Len(e),
             (s \o e)[i] = (s \o e)[j]
      PROVE  i = j
  <2>1. \A a \in 1 .. Len(s), b \in 1 .. Len(e) : s[a] # e[b]
    BY <1>1, <1>3 DEF ToSet
  <2>2. CASE i <= Len(s) /\ j <= Len(s)
    BY <1>1, <1>3, <2>2 DEF IsInjective
  <2>3. CASE i > Len(s) /\ j > Len(s)
    <3>1. i - Len(s) \in DOMAIN e /\ j - Len(s) \in DOMAIN e /\ e[i - Len(s)] = e[j - Len(s)]
      BY <1>1, <1>3, <2>3
    <3>2. QED
      BY <1>1, <1>3, <3>1 DEF IsInjective
  <2>4. CASE i <= Len(s) /\ j > Len(s)
    BY <1>1, <1>3, <2>1, <2>4
  <2>5. CASE i > Len(s) /\ j <= Len(s)
    BY <1>1, <1>3, <2>1, <2>5
  <2>6. QED
    BY <1>1, <2>2, <2>3, <2>4, <2>5
<1>4. QED
  BY <1>1, <1>2, <1>3 DEF IsInjective

\* The orders in which a finite set may be added.
LEMMA EnumerationKeeps ==
  ASSUME NEW S, IsFiniteSet(S), NEW e \in SetToSeqs(S)
  PROVE  e \in Seq(S) /\ ToSet(e) = S /\ IsInjective(e)
<1> DEFINE N == Cardinality(S)
<1>1. N \in Nat /\ IsFiniteSet(1 .. N) /\ Cardinality(1 .. N) = N
  BY FS_CardinalityType, FS_Interval
<1>2. e \in [1 .. N -> S] /\ \A i, j \in 1 .. N : i # j => e[i] # e[j]
  BY DEF SetToSeqs
<1> HIDE DEF N
<1>3. IsInjective(e)
  BY <1>2 DEF IsInjective
<1>4. e \in Surjection(1 .. N, S)
  BY <1>1, <1>2, <1>3, FS_Injection DEF Injection, N
<1>5. ToSet(e) = S
  BY <1>2, <1>4 DEF ToSet, Surjection
<1>6. QED
  BY <1>1, <1>2, <1>3, <1>5

\* What a rebuild stores beside TypeOK and NoDuplicates: from Diff on its
\* properties name vertices it has fetched, and from Embed on all of them.
Covers(t) ==
  /\ pc[t] = "embed" => ToSet(props[t]) \subseteq present[t]
  /\ pc[t] \in Saving => ToSet(props[t]) = present[t]

StoreInv ==
  /\ TypeOK
  /\ NoDuplicates
  /\ \A t \in Task : IsFiniteSet(present[t]) /\ Covers(t)

LEMMA DiffStores ==
  ASSUME StoreInv, NEW t \in Task, Diff(t)
  PROVE  /\ props' = [props EXCEPT ![t] = props'[t]] /\ props'[t] \in Seq(Vid)
         /\ rows' = [rows EXCEPT ![t] = rows'[t]] /\ rows'[t] \in Seq(Vid)
         /\ IsInjective(props'[t]) /\ ToSet(props'[t]) \subseteq present[t]
<1> DEFINE at == {i \in DOMAIN props[t] : props[t][i] \in Past(t) \ present[t]}
<1>1. /\ props \in [Task -> Seq(Vid)] /\ rows \in [Task -> Seq(Vid)]
      /\ IsInjective(props[t])
  BY DEF StoreInv, TypeOK, NoDuplicates
<1>2. /\ props' = [props EXCEPT ![t] = Without(props[t], at)]
      /\ rows' = [rows EXCEPT ![t] = Without(rows[t], at)]
  BY DEF Diff, RemoveVids
<1>3. \A i \in DOMAIN props[t] \ at : props[t][i] \in present[t]
  BY DEF Past, ToSet
<1> HIDE DEF at
<1>4. /\ Without(props[t], at) \in Seq(Vid) /\ Without(rows[t], at) \in Seq(Vid)
      /\ ToSet(Without(props[t], at)) = {props[t][i] : i \in DOMAIN props[t] \ at}
      /\ IsInjective(Without(props[t], at))
  BY <1>1, WithoutKeeps
<1>5. props'[t] = Without(props[t], at) /\ rows'[t] = Without(rows[t], at)
  BY <1>1, <1>2
<1>6. ToSet(Without(props[t], at)) \subseteq present[t]
  BY <1>3, <1>4
<1>7. QED
  BY <1>2, <1>4, <1>5, <1>6

LEMMA EmbedStores ==
  ASSUME StoreInv, NEW t \in Task, Embed(t)
  PROVE  /\ props' = [props EXCEPT ![t] = props'[t]] /\ props'[t] \in Seq(Vid)
         /\ rows' = [rows EXCEPT ![t] = rows'[t]] /\ rows'[t] \in Seq(Vid)
         /\ IsInjective(props'[t]) /\ ToSet(props'[t]) = present[t]
<1>1. /\ props \in [Task -> Seq(Vid)] /\ rows \in [Task -> Seq(Vid)]
      /\ present \in [Task -> SUBSET Vid] /\ IsFiniteSet(present[t])
      /\ IsInjective(props[t]) /\ ToSet(props[t]) \subseteq present[t]
  BY DEF StoreInv, TypeOK, NoDuplicates, Covers, Embed
<1>2. PICK vids \in SetToSeqs(Added(t)) : AddVids(t, vids)
  BY DEF Embed
<1>3. Added(t) \in SUBSET present[t] /\ IsFiniteSet(Added(t))
  BY <1>1, FS_Subset DEF Added
<1>4. vids \in Seq(Added(t)) /\ ToSet(vids) = Added(t) /\ IsInjective(vids)
  BY <1>2, <1>3, EnumerationKeeps
<1>5. vids \in Seq(Vid)
  BY <1>1, <1>3, <1>4
<1>6. /\ props[t] \o vids \in Seq(Vid) /\ rows[t] \o vids \in Seq(Vid)
      /\ ToSet(props[t] \o vids) = ToSet(props[t]) \cup Added(t)
      /\ ToSet(props[t]) \cap Added(t) = {} => IsInjective(props[t] \o vids)
  BY <1>1, <1>4, <1>5, AppendKeeps
<1>7. ToSet(props[t]) \cap Added(t) = {} /\ ToSet(props[t]) \cup Added(t) = present[t]
  BY <1>1 DEF Added, Past
<1>8. /\ props' = [props EXCEPT ![t] = props[t] \o vids]
      /\ rows' = [rows EXCEPT ![t] = rows[t] \o vids]
  BY <1>2 DEF AddVids
<1>9. props'[t] = props[t] \o vids /\ rows'[t] = rows[t] \o vids
  BY <1>1, <1>8
<1>10. QED
  BY <1>6, <1>7, <1>8, <1>9

LEMMA EmptyStores ==
  \A S : <<>> \in Seq(S) /\ IsInjective(<<>>) /\ ToSet(<<>>) = {}
BY DEF IsInjective, ToSet

LEMMA StoreStep ==
  ASSUME StoreInv, [Next]_vars
  PROVE  StoreInv'
<1> USE VectorAssumption, EmptyStores
<1>1. /\ indexFile \in Seq(Vid) \cup {Missing, Partial} /\ propFile \in Seq(Vid) \cup {Missing, Partial}
      /\ pc \in [Task -> Stages] /\ cleaning \in BOOLEAN
      /\ rows \in [Task -> Seq(Vid)] /\ props \in [Task -> Seq(Vid)]
      /\ present \in [Task -> SUBSET Vid] /\ alone \in [Task -> BOOLEAN]
      /\ rebuilds \in 0 .. MaxRebuilds /\ crashes \in 0 .. MaxCrashes
      /\ Readable(propFile) => propFile \in Seq(Vid) /\ IsInjective(propFile)
      /\ Readable(indexFile) => indexFile \in Seq(Vid)
      /\ \A t \in Task : IsInjective(props[t]) /\ IsFiniteSet(present[t]) /\ Covers(t)
  BY DEF StoreInv, TypeOK, NoDuplicates, Readable
<1>2. IsFiniteSet({})
  BY FS_EmptySet
<1>3. ASSUME NEW t \in Task, Ends(t), UNCHANGED <<files, cleaning, rebuilds, crashes>>,
             alone' = alone
      PROVE  StoreInv'
  BY <1>1, <1>2, <1>3 DEF StoreInv, TypeOK, NoDuplicates, Covers, Ends, Goto, files, Readable, Saving, Stages
<1>4. ASSUME NEW t \in Task, Fetch(t)
      PROVE  StoreInv'
  <2>1. rebuilds' \in 0 .. MaxRebuilds
    BY <1>1, <1>4 DEF Fetch
  <2>2. QED
    BY <1>1, <1>4, <2>1 DEF StoreInv, TypeOK, NoDuplicates, Covers, Fetch, Goto, files, Readable, Saving, Stages
<1>5. ASSUME NEW t \in Task, StartQuery(t) \/ Exists(t)
      PROVE  StoreInv'
  BY <1>1, <1>5 DEF StoreInv, TypeOK, NoDuplicates, Covers, StartQuery, Exists, Settled, Goto,
                    files, memory, Readable, Saving, Stages
<1>6. ASSUME NEW t \in Task, ReadIndex(t) \/ ReadProps(t)
      PROVE  StoreInv'
  <2>1. CASE ReadIndex(t)
    <3>1. /\ pc' = [pc EXCEPT ![t] = "readProps"] /\ rows' = [rows EXCEPT ![t] = indexFile]
          /\ indexFile \in Seq(Vid)
          /\ UNCHANGED <<indexFile, propFile, cleaning, props, present, alone, rebuilds, crashes>>
      BY <1>1, <2>1 DEF ReadIndex, Goto, files
    <3>2. QED
      BY <1>1, <3>1 DEF StoreInv, TypeOK, NoDuplicates, Covers, Readable, Saving, Stages
  <2>2. CASE ReadProps(t)
    <3>1. /\ pc' = [pc EXCEPT ![t] = "loaded"] /\ props' = [props EXCEPT ![t] = propFile]
          /\ propFile \in Seq(Vid) /\ IsInjective(propFile)
          /\ UNCHANGED <<indexFile, propFile, cleaning, rows, present, alone, rebuilds, crashes>>
      BY <1>1, <2>2 DEF ReadProps, Goto, files
    <3>2. QED
      BY <1>1, <3>1 DEF StoreInv, TypeOK, NoDuplicates, Covers, Readable, Saving, Stages
  <2>3. QED
    BY <1>6, <2>1, <2>2
<1>7. ASSUME NEW t \in Task, Diff(t)
      PROVE  StoreInv'
  <2>1. /\ props' = [props EXCEPT ![t] = props'[t]] /\ props'[t] \in Seq(Vid)
        /\ rows' = [rows EXCEPT ![t] = rows'[t]] /\ rows'[t] \in Seq(Vid)
        /\ IsInjective(props'[t]) /\ ToSet(props'[t]) \subseteq present[t]
    BY <1>7, DiffStores
  <2>2. pc' = [pc EXCEPT ![t] = "embed"] /\ UNCHANGED <<files, cleaning, present, alone, rebuilds, crashes>>
    BY <1>7 DEF Diff, Goto
  <2>3. QED
    BY <1>1, <2>1, <2>2 DEF StoreInv, TypeOK, NoDuplicates, Covers, files, Readable, Saving, Stages
<1>8. ASSUME NEW t \in Task, Embed(t)
      PROVE  StoreInv'
  <2>1. /\ props' = [props EXCEPT ![t] = props'[t]] /\ props'[t] \in Seq(Vid)
        /\ rows' = [rows EXCEPT ![t] = rows'[t]] /\ rows'[t] \in Seq(Vid)
        /\ IsInjective(props'[t]) /\ ToSet(props'[t]) = present[t]
    BY <1>8, EmbedStores
  <2>2. pc' = [pc EXCEPT ![t] = "saveIndex"] /\ UNCHANGED <<files, cleaning, present, alone, rebuilds, crashes>>
    BY <1>8 DEF Embed, Goto
  <2>3. QED
    BY <1>1, <2>1, <2>2 DEF StoreInv, TypeOK, NoDuplicates, Covers, files, Readable, Saving, Stages
<1>9. ASSUME NEW t \in Task, OpenIndex(t) \/ WriteIndex(t) \/ OpenProps(t)
      PROVE  StoreInv'
  <2>1. /\ UNCHANGED <<cleaning, rows, props, present, rebuilds, crashes>>
        /\ alone' \in [Task -> BOOLEAN]
    BY <1>1, <1>9 DEF StoreInv, TypeOK, OpenIndex, WriteIndex, OpenProps, Disturb, memory
  <2>2. /\ pc[t] \in Saving
        /\ \E stage \in Saving : pc' = [pc EXCEPT ![t] = stage]
    BY <1>9 DEF OpenIndex, WriteIndex, OpenProps, Goto, Saving
  <2>3. /\ indexFile' \in {indexFile, Partial, rows[t]}
        /\ propFile' \in {propFile, Partial}
    BY <1>9 DEF OpenIndex, WriteIndex, OpenProps
  <2>4. TypeOK'
    BY <1>1, <2>1, <2>2, <2>3 DEF StoreInv, TypeOK, Saving, Stages
  <2>5. NoDuplicates'
    BY <1>1, <2>1, <2>3 DEF StoreInv, NoDuplicates, Readable
  <2>6. \A q \in Task : IsFiniteSet(present'[q]) /\ Covers(q)'
    BY <1>1, <2>1, <2>2 DEF StoreInv, TypeOK, Covers, Saving
  <2>7. QED
    BY <2>4, <2>5, <2>6 DEF StoreInv
<1>10. ASSUME NEW t \in Task, WriteProps(t)
       PROVE  StoreInv'
  BY <1>1, <1>2, <1>10 DEF StoreInv, TypeOK, NoDuplicates, Covers, WriteProps, Ends, Disturb, Goto,
                           Readable, Saving, Stages
<1>11. CASE CleanIndex \/ CleanProps
  BY <1>1, <1>11 DEF StoreInv, TypeOK, NoDuplicates, Covers, CleanIndex, CleanProps, Disturb, memory,
                     Readable
<1>12. CASE Crash
  <2>1. crashes' \in 0 .. MaxCrashes
    BY <1>1, <1>12 DEF Crash
  <2>2. QED
    BY <1>1, <1>2, <1>12, <2>1 DEF StoreInv, TypeOK, NoDuplicates, Covers, Crash, Disturb, files,
                                   Readable, Saving, Stages
<1>13. CASE UNCHANGED vars
  BY <1>1, <1>13 DEF StoreInv, TypeOK, NoDuplicates, Covers, vars, files, memory, Readable
<1>14. QED
  BY <1>3, <1>4, <1>5, <1>6, <1>7, <1>8, <1>9, <1>10, <1>11, <1>12, <1>13
     DEF Next, Load, Rebuild, Save, ReadFails, Search, NothingAdded, EmbedFails

LEMMA StoreInvariant == Spec => []StoreInv
<1>1. Init => StoreInv
  <2>1. Init => TypeOK
    <3>1. <<>> \in Seq(Vid) /\ 0 \in 0 .. MaxRebuilds /\ 0 \in 0 .. MaxCrashes
      BY VectorAssumption
    <3>2. QED
      BY <3>1 DEF Init, TypeOK, Stages
  <2>2. Init => NoDuplicates
    BY EmptyStores DEF Init, NoDuplicates, Readable
  <2>3. Init => \A t \in Task : IsFiniteSet(present[t]) /\ Covers(t)
    BY FS_EmptySet DEF Init, Covers, Saving
  <2>4. QED
    BY <2>1, <2>2, <2>3 DEF StoreInv
<1>2. StoreInv /\ [Next]_vars => StoreInv'
  BY StoreStep
<1>3. QED
  BY <1>1, <1>2, PTL DEF Spec

\* Every file is missing, half-written or a sequence of vertex ids, and every
\* copy a sequence of them.
THEOREM IndexTypeCorrect == Spec => []TypeOK
<1>1. StoreInv => TypeOK
  BY DEF StoreInv
<1>2. QED
  BY <1>1, StoreInvariant, PTL

\* No interleaving of rebuilds, cleans and crashes brings a vertex into the
\* properties twice, for any number of vertices.
THEOREM VerticesNotRepeated == Spec => []NoDuplicates
<1>1. StoreInv => NoDuplicates
  BY DEF StoreInv
<1>2. QED
  BY <1>1, StoreInvariant, PTL

\* An undisturbed rebuild leaves files that match; if it saved, the
\* properties file names exactly the vertices it fetched, and if it found
\* nothing to add, at least these.
THEOREM RebuildsRight == Spec => RebuildRight
<1>1. ASSUME IndexInv, NEW t \in Rebuilder, NothingAdded(t), alone[t]
      PROVE  indexFile = propFile /\ present[t] \subseteq Stored
  <2>1. Known(t) /\ pc[t] = "loaded" /\ present[t] \subseteq ToSet(props[t])
    BY <1>1 DEF IndexInv, NothingAdded, Added, Past, Task
  <2>2. ToSet(<<>>) = {}
    BY DEF ToSet
  <2>3. QED
    BY <2>1, <2>2 DEF Known, Stored
<1>2. ASSUME IndexInv, StoreInv, NEW t \in Rebuilder, WriteProps(t), alone[t]
      PROVE  indexFile' = propFile' /\ Stored' = present[t]
  <2>1. t \in Task /\ pc[t] = "propsOpen" /\ propFile' = props[t] /\ indexFile' = indexFile
    BY <1>2 DEF WriteProps, Task
  <2>2. indexFile' = propFile'
    BY <1>2, <2>1 DEF IndexInv, Known, Saving
  <2>3. props[t] \in Seq(Vid) /\ ToSet(props[t]) = present[t]
    BY <1>2, <2>1 DEF StoreInv, TypeOK, Covers, Saving
  <2>4. Readable(propFile)'
    BY <2>1, <2>3, VectorAssumption DEF Readable
  <2>5. QED
    BY <2>1, <2>2, <2>3, <2>4 DEF Stored
<1>3. IndexInv /\ StoreInv =>
        [\A t \in Rebuilder :
           /\ NothingAdded(t) /\ alone[t] => indexFile = propFile /\ present[t] \subseteq Stored
           /\ WriteProps(t) /\ alone[t] => indexFile' = propFile' /\ Stored' = present[t]]_vars
  BY <1>1, <1>2
<1>4. QED
  BY <1>3, IndexInvariant, StoreInvariant, PTL DEF RebuildRight
==============================================================================
