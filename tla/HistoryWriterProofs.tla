------------------------ MODULE HistoryWriterProofs ------------------------
(***************************************************************************)
(* Safety of the history writer for every queue, batch and fault bound and *)
(* every assignment of sizes and times: the inductive invariant IInv, the  *)
(* properties that follow from it, and the step simulation that shows the  *)
(* writer to implement HistoryLog.                                         *)
(***************************************************************************)
EXTENDS HistoryWriter, TLAPS, FiniteSets, WellFoundedInduction, FiniteSetTheorems

\* The sum of f over S, as the counters of the queue use it.
Total(f, S) == FoldFunctionOnSet(LAMBDA x, y : x + y, 0, f, S)

\* The last tick that is reported as committed.
Reported == base + committed

\* The ticks in hand and in the queue are the ones admitted since, in order.
IOpen ==
    /\ \A i \in 1..Len(held) : held[i] = Reported + i
    /\ \A i \in 1..Len(queue) : queue[i] = Reported + Len(held) + i
    /\ pending = Len(held) + Len(queue) /\ accepted = committed + pending
    /\ pending <= QueueTicks /\ Newest <= MaxTick
    /\ measuring = (Reported + 1)..Newest /\ bytes = Total(Size, measuring)

\* The log holds the ticks of this process up to w.
WrittenTo(w) ==
    \A t \in Ticks : t > base => (t \in Range(log) <=> t <= w)

\* Ticks are logged in the order of their admission, and one that is logged
\* without being reported keeps its receipt.
ILog ==
    /\ \A i, j \in 1..Len(log) : i < j => log[i] < log[j]
    /\ \A i \in 1..Len(log) : log[i] > Reported => i \in receipts /\ i > ackSeq
    /\ ackSeq <= Len(log)
    /\ \E w \in Reported..(Reported + Len(held)) : WrittenTo(w)

\* What the run goroutine knows between its steps.
IRun ==
    /\ pc \in {"wait", "try", "flight", "retry"} => held # <<>>
    /\ result.err # "none" => pc = "flight" /\ result.n \in 1..Len(held) /\ result.n <= CommitTicks
    /\ result.err = "ok" => result.seq \in 1..Len(log) /\ log[result.seq] = Reported + result.n

\* What was promised, to FlushHistory's callers and by StopHistory.
IPromise ==
    /\ promised \subseteq Range(log)
    /\ closer # "open" => stopping
    /\ closer = "closed" => pending = 0

\* The boundary of the archiver.
ICut == cut <= before /\ \A t \in measuring : Time[t] >= cut

Safe == IOpen /\ ILog /\ IRun /\ IPromise /\ ICut

IInv == TypeOK /\ Safe

USE DEF status, admission, runner, flushing, ending, disk, observed

-----------------------------------------------------------------------------
(* Sums over finite sets.  The induction is on the least counterexample,   *)
(* which needs no operator as a parameter.                                 *)

\* Every set of numbers that is not empty has a least member.
LEMMA NatMin ==
    ASSUME NEW T \in SUBSET Nat, T # {}
    PROVE  \E n \in T : \A m \in T : n <= m
  <1> DEFINE R == OpToRel(<, Nat)
  <1>1. IsWellFoundedOn(R, Nat)
    BY NatLessThanWellFounded
  <1>2. \A x, y \in Nat : x < y => <<x, y>> \in R
    BY DEF OpToRel
  <1> HIDE DEF R
  <1>3. PICK x \in T : \A y \in T : ~ (<<y, x>> \in R)
    BY <1>1, WFMin
  <1>4. \A y \in T : ~ (y < x)
    BY <1>2, <1>3
  <1>5. \A y \in T : x <= y
    BY <1>4
  <1> QED
    BY <1>5

Picked(s) == CHOOSE x \in s : TRUE

\* g adds f up over every subset of S, one picked member after the other.
Adds(g, f, S) ==
    \A s \in SUBSET S : g[s] = IF s = {} THEN 0 ELSE f[Picked(s)] + g[s \ {Picked(s)}]

\* A set that is not empty has its picked member, and is larger by it.
LEMMA PickedFacts ==
    ASSUME NEW s, IsFiniteSet(s), s # {}
    PROVE  /\ Picked(s) \in s /\ IsFiniteSet(s \ {Picked(s)})
           /\ Cardinality(s) \in Nat /\ Cardinality(s \ {Picked(s)}) \in Nat
           /\ Cardinality(s \ {Picked(s)}) = Cardinality(s) - 1
  <1>1. Picked(s) \in s
    BY DEF Picked
  <1> QED
    BY <1>1, FS_RemoveElement, FS_CardinalityType

\* Such a function exists for every finite set.
LEMMA AddsExists ==
    ASSUME NEW S, IsFiniteSet(S), NEW f, \A x \in S : f[x] \in Nat
    PROVE  \E g \in [SUBSET S -> Nat] : Adds(g, f, S)
  <1> DEFINE Small(n) == {s \in SUBSET S : Cardinality(s) <= n}
             Upto(g, n) == \A s \in Small(n) :
                             g[s] = IF s = {} THEN 0 ELSE f[Picked(s)] + g[s \ {Picked(s)}]
             Bad == {n \in Nat : ~ \E g \in [Small(n) -> Nat] : Upto(g, n)}
  <1>1. \A s \in SUBSET S : IsFiniteSet(s) /\ Cardinality(s) \in Nat
    BY FS_Subset, FS_CardinalityType
  <1>2. ASSUME NEW n \in Nat, NEW s \in Small(n), s # {}
        PROVE  /\ Picked(s) \in S /\ f[Picked(s)] \in Nat
               /\ s \ {Picked(s)} \in SUBSET S /\ n > 0 /\ s \ {Picked(s)} \in Small(n - 1)
    <2>1. Picked(s) \in s /\ Cardinality(s \ {Picked(s)}) = Cardinality(s) - 1
            /\ Cardinality(s) <= n /\ Cardinality(s) \in Nat
            /\ Cardinality(s \ {Picked(s)}) \in Nat
      BY <1>1, <1>2, PickedFacts
    <2> QED
      BY <2>1
  <1>3. Bad = {}
    <2> SUFFICES ASSUME Bad # {} PROVE FALSE
      OBVIOUS
    <2>1. PICK n \in Bad : \A m \in Bad : n <= m
      <3>1. Bad \in SUBSET Nat
        OBVIOUS
      <3> HIDE DEF Bad
      <3> QED
        BY <3>1, NatMin
    <2>2. CASE n = 0
      <3> DEFINE g == [s \in Small(0) |-> 0]
      <3>1. g \in [Small(0) -> Nat]
        OBVIOUS
      <3>2. ASSUME NEW s \in Small(0) PROVE s = {}
        <4>1. Cardinality(s) = 0 /\ IsFiniteSet(s)
          BY <1>1
        <4> QED
          BY <4>1, FS_EmptySet
      <3>3. Upto(g, 0)
        BY <3>2
      <3> QED
        BY <2>1, <2>2, <3>1, <3>3
    <2>3. CASE n # 0
      <3>1. n - 1 \in Nat /\ n - 1 \notin Bad
        <4>1. n \in Nat /\ \A m \in Bad : n <= m
          BY <2>1
        <4> HIDE DEF Bad
        <4> QED
          BY <4>1, <2>3
      <3>2. PICK g \in [Small(n - 1) -> Nat] : Upto(g, n - 1)
        BY <3>1
      <3> DEFINE h == [s \in Small(n) |-> IF s \in Small(n - 1) THEN g[s]
                                          ELSE f[Picked(s)] + g[s \ {Picked(s)}]]
      <3>3. {} \in Small(n - 1)
        BY <3>1, <1>1, FS_EmptySet
      <3>4. Small(n - 1) \subseteq Small(n)
        BY <3>1, <1>1
      <3>5. ASSUME NEW s \in Small(n)
            PROVE  h[s] \in Nat
        <4>1. CASE s \in Small(n - 1)
          BY <4>1, <3>2
        <4>2. CASE s \notin Small(n - 1)
          <5>1. n \in Nat /\ s # {}
            BY <4>2, <2>1, <3>3
          <5>2. f[Picked(s)] \in Nat /\ s \ {Picked(s)} \in Small(n - 1)
            BY <5>1, <1>2
          <5>3. g[s \ {Picked(s)}] \in Nat
            BY <5>2, <3>2
          <5> QED
            BY <4>2, <5>2, <5>3
        <4> QED
          BY <4>1, <4>2
      <3>6. ASSUME NEW s \in Small(n)
            PROVE  h[s] = IF s = {} THEN 0 ELSE f[Picked(s)] + h[s \ {Picked(s)}]
        <4>1. CASE s = {}
          BY <4>1, <3>2, <3>3
        <4>2. CASE s # {}
          <5>1. s \ {Picked(s)} \in Small(n - 1) /\ s \ {Picked(s)} \in Small(n)
            BY <4>2, <1>2, <3>4
          <5>2. h[s \ {Picked(s)}] = g[s \ {Picked(s)}]
            BY <5>1
          <5>3. h[s] = f[Picked(s)] + g[s \ {Picked(s)}]
            BY <4>2, <3>2
          <5> QED
            BY <5>2, <5>3, <4>2
        <4> QED
          BY <4>1, <4>2
      <3>7. h \in [Small(n) -> Nat]
        BY <3>5
      <3> HIDE DEF h
      <3>8. Upto(h, n)
        BY <3>6
      <3> QED
        BY <2>1, <3>7, <3>8
    <2> QED
      BY <2>2, <2>3
  <1>4. Cardinality(S) \in Nat /\ Small(Cardinality(S)) = SUBSET S
    BY FS_CardinalityType, FS_Subset
  <1>5. PICK g \in [Small(Cardinality(S)) -> Nat] : Upto(g, Cardinality(S))
    BY <1>3, <1>4
  <1> QED
    BY <1>4, <1>5 DEF Adds

\* Two such functions agree where both are defined.
LEMMA AddsUnique ==
    ASSUME NEW f, NEW S, NEW T, NEW g, NEW h, Adds(g, f, S), Adds(h, f, T),
           NEW s \in SUBSET S, s \in SUBSET T, IsFiniteSet(s)
    PROVE  g[s] = h[s]
  <1> DEFINE Bad == {r \in SUBSET s : g[r] # h[r]}
             Sizes == {Cardinality(r) : r \in Bad}
  <1>1. \A r \in SUBSET s : IsFiniteSet(r) /\ Cardinality(r) \in Nat
    BY FS_Subset, FS_CardinalityType
  <1> SUFFICES ASSUME Bad # {} PROVE FALSE
    OBVIOUS
  <1>2. Sizes \in SUBSET Nat /\ Sizes # {}
    BY <1>1
  <1>3. PICK n \in Sizes : \A m \in Sizes : n <= m
    <2> HIDE DEF Sizes
    <2> QED
      BY <1>2, NatMin
  <1>4. PICK r \in Bad : n = Cardinality(r)
    OBVIOUS
  <1>5. r # {}
    BY <1>4 DEF Adds
  <1>6. /\ Cardinality(r \ {Picked(r)}) < Cardinality(r) /\ r \ {Picked(r)} \in SUBSET s
    BY <1>1, <1>5, PickedFacts
  <1>7. r \ {Picked(r)} \notin Bad
    <2>1. Cardinality(r \ {Picked(r)}) \notin Sizes
      BY <1>1, <1>2, <1>3, <1>4, <1>6
    <2> QED
      BY <2>1
  <1>8. g[r \ {Picked(r)}] = h[r \ {Picked(r)}]
    BY <1>6, <1>7
  <1>9. g[r] = f[Picked(r)] + g[r \ {Picked(r)}] /\ h[r] = f[Picked(r)] + h[r \ {Picked(r)}]
    BY <1>5 DEF Adds
  <1> QED
    BY <1>4, <1>8, <1>9

\* The sum is what the picked member adds to the sum of the others.
LEMMA TotalRec ==
    ASSUME NEW S, IsFiniteSet(S), NEW f, \A x \in S : f[x] \in Nat
    PROVE  /\ Total(f, S) \in Nat
           /\ Total(f, S) = IF S = {} THEN 0 ELSE f[Picked(S)] + Total(f, S \ {Picked(S)})
  <1> DEFINE It(T) == CHOOSE g : g = [s \in SUBSET T |->
                        IF s = {} THEN 0 ELSE f[Picked(s)] + g[s \ {Picked(s)}]]
  <1>1. \A T : Total(f, T) = It(T)[T]
    BY DEF Total, FoldFunctionOnSet, MapThenFoldSet, Picked
  <1>2. ASSUME NEW T \in SUBSET S PROVE Adds(It(T), f, T) /\ It(T)[T] \in Nat
    <2>1. IsFiniteSet(T)
      BY FS_Subset
    <2>2. PICK g \in [SUBSET T -> Nat] : Adds(g, f, T)
      BY <2>1, AddsExists
    <2>3. g = [s \in SUBSET T |-> IF s = {} THEN 0 ELSE f[Picked(s)] + g[s \ {Picked(s)}]]
      BY <2>2 DEF Adds
    <2>4. It(T) = [s \in SUBSET T |->
                     IF s = {} THEN 0 ELSE f[Picked(s)] + It(T)[s \ {Picked(s)}]]
      BY <2>3
    <2> HIDE DEF It
    <2>5. Adds(It(T), f, T)
      BY <2>4 DEF Adds
    <2>6. It(T)[T] = g[T]
      BY <2>1, <2>2, <2>5, AddsUnique
    <2> QED
      BY <2>2, <2>5, <2>6
  <1> HIDE DEF It
  <1>3. Total(f, S) \in Nat
    BY <1>1, <1>2
  <1>4. CASE S = {}
    BY <1>1, <1>2, <1>3, <1>4 DEF Adds
  <1>5. CASE S # {}
    <2> DEFINE T == S \ {Picked(S)}
    <2>1. It(S)[S] = f[Picked(S)] + It(S)[T]
      BY <1>2, <1>5 DEF Adds
    <2>2. T \in SUBSET S /\ T \in SUBSET T /\ IsFiniteSet(T)
      BY FS_Subset
    <2>3. It(S)[T] = It(T)[T]
      BY <1>2, <2>2, AddsUnique
    <2> QED
      BY <1>1, <1>3, <1>5, <2>1, <2>3
  <1> QED
    BY <1>3, <1>4, <1>5

\* A new member adds its value, whichever is picked first.
LEMMA TotalAdd ==
    ASSUME NEW U, IsFiniteSet(U), NEW f, \A x \in U : f[x] \in Nat,
           NEW S \in SUBSET U, NEW x \in U \ S
    PROVE  Total(f, S \cup {x}) = Total(f, S) + f[x]
  <1> DEFINE Bad == {s \in SUBSET U : \E y \in U \ s : Total(f, s \cup {y}) # Total(f, s) + f[y]}
             Sizes == {Cardinality(s) : s \in Bad}
  <1>1. \A s \in SUBSET U : IsFiniteSet(s) /\ Cardinality(s) \in Nat
    BY FS_Subset, FS_CardinalityType
  <1> SUFFICES ASSUME Bad # {} PROVE FALSE
    OBVIOUS
  <1>2. Sizes \in SUBSET Nat /\ Sizes # {}
    BY <1>1
  <1>3. PICK n \in Sizes : \A m \in Sizes : n <= m
    <2> HIDE DEF Sizes
    <2> QED
      BY <1>2, NatMin
  <1>4. PICK s \in Bad : n = Cardinality(s)
    OBVIOUS
  <1>5. PICK y \in U \ s : Total(f, s \cup {y}) # Total(f, s) + f[y]
    BY <1>4
  <1>6. s \in SUBSET U /\ s \cup {y} \in SUBSET U /\ s \cup {y} # {}
    BY <1>4, <1>5
  <1> DEFINE c == Picked(s \cup {y})
  <1>7. c \in s \cup {y} /\ Total(f, s \cup {y}) = f[c] + Total(f, (s \cup {y}) \ {c})
    BY <1>1, <1>6, TotalRec, PickedFacts
  <1>8. \A r \in SUBSET U : Total(f, r) \in Nat
    BY <1>1, TotalRec
  <1> HIDE DEF c
  <1>9. CASE c = y
    <2>1. (s \cup {y}) \ {c} = s
      BY <1>5, <1>9
    <2> QED
      BY <2>1, <1>5, <1>6, <1>7, <1>8, <1>9
  <1>10. CASE c # y
    <2> DEFINE r == s \ {c}
    <2>1. c \in s /\ r \in SUBSET U /\ (s \cup {y}) \ {c} = r \cup {y} /\ s = r \cup {c}
          /\ c \in U \ r /\ y \in U \ r
      BY <1>5, <1>6, <1>7, <1>10
    <2>2. Cardinality(r) < Cardinality(s)
      BY <1>1, <1>6, <2>1, FS_RemoveElement
    <2>3. r \notin Bad
      <3>1. Cardinality(r) \notin Sizes
        <4>1. Cardinality(r) \in Nat /\ Cardinality(s) \in Nat
          BY <1>1, <1>6, <2>1
        <4> HIDE DEF Sizes, Bad, r
        <4> QED
          BY <4>1, <1>3, <1>4, <2>2
      <3> QED
        BY <3>1
    <2> HIDE DEF r
    <2>4. Total(f, r \cup {y}) = Total(f, r) + f[y] /\ Total(f, r \cup {c}) = Total(f, r) + f[c]
      BY <2>1, <2>3
    <2>5. /\ Total(f, s \cup {y}) = f[c] + Total(f, r \cup {y}) /\ Total(f, s) = Total(f, r \cup {c})
          /\ f[c] \in Nat /\ f[y] \in Nat /\ Total(f, r) \in Nat
      BY <1>7, <1>8, <2>1
    <2> QED
      BY <1>5, <2>4, <2>5
  <1> QED
    BY <1>9, <1>10

\* The sum over two disjoint sets is the sum of their sums.
LEMMA TotalUnion ==
    ASSUME NEW U, IsFiniteSet(U), NEW f, \A x \in U : f[x] \in Nat,
           NEW S \in SUBSET U, NEW T \in SUBSET U, S \cap T = {}
    PROVE  Total(f, S \cup T) = Total(f, S) + Total(f, T)
  <1> DEFINE Bad == {s \in SUBSET T : Total(f, S \cup s) # Total(f, S) + Total(f, s)}
             Sizes == {Cardinality(s) : s \in Bad}
  <1>1. \A s \in SUBSET U : IsFiniteSet(s) /\ Cardinality(s) \in Nat /\ Total(f, s) \in Nat
    BY FS_Subset, FS_CardinalityType, TotalRec
  <1> SUFFICES ASSUME Bad # {} PROVE FALSE
    OBVIOUS
  <1>2. Sizes \in SUBSET Nat /\ Sizes # {}
    BY <1>1
  <1>3. PICK n \in Sizes : \A m \in Sizes : n <= m
    <2> HIDE DEF Sizes
    <2> QED
      BY <1>2, NatMin
  <1>4. PICK s \in Bad : n = Cardinality(s)
    OBVIOUS
  <1>5. s \in SUBSET U /\ s \in SUBSET T /\ Total(f, S \cup s) # Total(f, S) + Total(f, s)
    BY <1>4
  <1>6. s # {}
    <2>1. Total(f, {}) = 0
      BY FS_EmptySet, TotalRec
    <2>2. S \cup {} = S /\ Total(f, S) \in Nat
      BY <1>1
    <2>3. Total(f, S) = Total(f, S) + 0
      BY <2>2
    <2> HIDE DEF Bad
    <2> QED
      BY <1>5, <2>1, <2>2, <2>3
  <1> DEFINE c == Picked(s)
             r == s \ {c}
  <1>7. c \in s /\ Cardinality(r) < Cardinality(s)
    BY <1>1, <1>5, <1>6, PickedFacts
  <1> HIDE DEF c
  <1>8. /\ c \in U /\ r \in SUBSET U /\ S \cup r \in SUBSET U /\ r \in SUBSET T
        /\ c \in U \ r /\ c \in U \ (S \cup r) /\ s = r \cup {c} /\ S \cup s = (S \cup r) \cup {c}
    BY <1>5, <1>7
  <1>9. r \notin Bad
    <2>1. Cardinality(r) \notin Sizes
      <3>1. Cardinality(r) \in Nat /\ Cardinality(s) \in Nat
        BY <1>1, <1>5, <1>8
      <3> HIDE DEF Sizes, Bad, r
      <3> QED
        BY <3>1, <1>3, <1>4, <1>7
    <2> QED
      BY <2>1
  <1> HIDE DEF r
  <1>10. Total(f, S \cup r) = Total(f, S) + Total(f, r)
    BY <1>8, <1>9
  <1>11. Total(f, s) = Total(f, r) + f[c] /\ Total(f, S \cup s) = Total(f, S \cup r) + f[c]
    BY <1>8, TotalAdd
  <1>12. Total(f, S) \in Nat /\ Total(f, r) \in Nat /\ f[c] \in Nat
    BY <1>1, <1>8
  <1> QED
    BY <1>5, <1>10, <1>11, <1>12

-----------------------------------------------------------------------------
(* Sequences of ticks *)

\* When the members to leave out are the first d, the rest stays.
LEMMA WithoutPrefix ==
    ASSUME NEW A, NEW q \in Seq(A), NEW B, NEW d \in 0..Len(q),
           \A i \in 1..Len(q) : q[i] \in B <=> i <= d
    PROVE  Without(q, B) = SubSeq(q, d + 1, Len(q))
  <1> DEFINE K == CHOOSE k : k = [i \in 0..Len(q) |->
                    IF i = 0 THEN <<>>
                    ELSE IF q[i] \in B THEN k[i - 1] ELSE Append(k[i - 1], q[i])]
             G == [i \in 0..Len(q) |-> SubSeq(q, d + 1, i)]
  <1>1. Without(q, B) = K[Len(q)]
    BY DEF Without
  <1>2. Len(q) \in Nat
    OBVIOUS
  <1>3. ASSUME NEW i \in 0..Len(q)
        PROVE  G[i] = IF i = 0 THEN <<>>
                      ELSE IF q[i] \in B THEN G[i - 1] ELSE Append(G[i - 1], q[i])
    <2>1. CASE i <= d
      <3>1. SubSeq(q, d + 1, i) = <<>>
        BY <2>1, <1>2
      <3>2. i # 0 => SubSeq(q, d + 1, i - 1) = <<>> /\ i - 1 \in 0..Len(q)
        BY <2>1, <1>2
      <3> QED
        BY <2>1, <3>1, <3>2, <1>2
    <2>2. CASE i > d
      <3>1. i \in 1..Len(q) /\ i - 1 \in 0..Len(q) /\ i # 0 /\ q[i] \notin B
        BY <2>2, <1>2
      <3>2. SubSeq(q, d + 1, i) = Append(SubSeq(q, d + 1, i - 1), q[i])
        BY <2>2, <3>1, <1>2
      <3> QED
        BY <3>1, <3>2
    <2>3. i <= d \/ i > d
      BY <1>2
    <2> HIDE DEF G
    <2> QED
      BY <2>1, <2>2, <2>3
  <1>4. G = [i \in 0..Len(q) |-> IF i = 0 THEN <<>>
               ELSE IF q[i] \in B THEN G[i - 1] ELSE Append(G[i - 1], q[i])]
    <2>1. G = [i \in 0..Len(q) |-> G[i]]
      OBVIOUS
    <2> HIDE DEF G
    <2> QED
      BY <1>3, <2>1
  <1>5. K = [i \in 0..Len(q) |-> IF i = 0 THEN <<>>
               ELSE IF q[i] \in B THEN K[i - 1] ELSE Append(K[i - 1], q[i])]
    <2> HIDE DEF G
    <2> QED
      BY <1>4
  <1> HIDE DEF K
  <1>6. ASSUME NEW i \in 0..Len(q)
        PROVE  K[i] = IF i = 0 THEN <<>>
                      ELSE IF q[i] \in B THEN K[i - 1] ELSE Append(K[i - 1], q[i])
    BY <1>5
  <1>7. G[Len(q)] = SubSeq(q, d + 1, Len(q))
    BY <1>2
  <1> HIDE DEF G
  <1>8. \A i \in 0..Len(q) : K[i] = G[i]
    <2> DEFINE Bad == {i \in 0..Len(q) : K[i] # G[i]}
    <2> SUFFICES ASSUME Bad # {} PROVE FALSE
      OBVIOUS
    <2>1. Bad \in SUBSET Nat
      BY <1>2
    <2>2. PICK n \in Bad : \A m \in Bad : n <= m
      <3> HIDE DEF Bad
      <3> QED
        BY <2>1, NatMin
    <2>3. n \in 0..Len(q) /\ K[n] # G[n]
      BY <2>2
    <2>4. n # 0
      BY <2>3, <1>3, <1>6
    <2>5. n - 1 \in 0..Len(q) /\ n - 1 \notin Bad
      <3>1. n - 1 \in 0..Len(q) /\ ~ (n <= n - 1)
        BY <2>3, <2>4, <1>2
      <3> HIDE DEF Bad
      <3> QED
        BY <3>1, <2>2
    <2>6. K[n - 1] = G[n - 1]
      BY <2>5
    <2> QED
      BY <2>3, <2>4, <2>6, <1>3, <1>6
  <1> QED
    BY <1>1, <1>2, <1>7, <1>8

-----------------------------------------------------------------------------
(* Types *)

Flags == {stopping, elapsed, final, flushToken, ctxDone} \subseteq BOOLEAN

\* The flags stay Boolean.
LEMMA FlagsStep == Flags /\ [Next]_vars => Flags'
  <1> SUFFICES ASSUME Flags, [Next]_vars PROVE Flags'
    OBVIOUS
  <1> USE DEF Flags
  <1>1. CASE \E t \in Ticks : EnqueueTelemetryTick(t)
    BY <1>1, Zenon DEF EnqueueTelemetryTick
  <1>2. CASE \E c \in {Time[t] : t \in Ticks} : ReserveAggregateCutoff(c)
    BY <1>2, Zenon DEF ReserveAggregateCutoff
  <1>3. CASE Receive \/ Wait
    BY <1>3, Zenon DEF Receive, Take, Wait
  <1>4. CASE CommitDue
    BY <1>4, Zenon DEF CommitDue, EnterCommitHeld, Drain, Take
  <1>5. CASE TimerFires
    BY <1>5, Zenon DEF TimerFires, EnterCommitHeld
  <1>6. CASE FlushToken
    BY <1>6, Zenon DEF FlushToken, EnterCommitHeld, Drain, Take
  <1>7. CASE QueueClosed
    BY <1>7, Zenon DEF QueueClosed, EnterCommitHeld
  <1>8. CASE ContextDone
    BY <1>8, Zenon DEF ContextDone, Return
  <1>9. CASE Begin
    BY <1>9, Zenon DEF Begin
  <1>10. CASE \E err \in {"ok", "unknown", "interrupted", "failed"} : RecordHistoryBatches(err)
    BY <1>10, Zenon DEF RecordHistoryBatches, Write
  <1>11. CASE Settled
    BY <1>11, Zenon DEF Settled
  <1>12. CASE Unsettled
    BY <1>12, Zenon DEF Unsettled
  <1>13. CASE RetryTimer
    BY <1>13, Zenon DEF RetryTimer
  <1>14. CASE IntervalElapses
    BY <1>14, Zenon DEF IntervalElapses
  <1>15. CASE \E f \in Flushers : FlushHistory(f) \/ FlushAsks(f) \/ FlushReturns(f) \/ FlushGivesUp(f)
    BY <1>15, Zenon DEF FlushHistory, FlushAsks, FlushReturns, FlushGivesUp, RequestFlush
  <1>16. CASE StopAdmission \/ CloseAsks \/ CloseBudget \/ Closed
    BY <1>16, Zenon DEF StopAdmission, CloseAsks, CloseBudget, Closed, RequestFlush
  <1>17. CASE Restart
    BY <1>17, Zenon DEF Restart
  <1>18. CASE UNCHANGED vars
    BY <1>18, Zenon DEF vars
  <1> QED
    BY <1>1, <1>2, <1>3, <1>4, <1>5, <1>6, <1>7, <1>8, <1>9, <1>10, <1>11, <1>12, <1>13, <1>14, <1>15, <1>16, <1>17, <1>18 DEF Next, Run, Callers, Outcomes

-----------------------------------------------------------------------------
(* What the steps need of the types and of the ticks in the writer *)

TypeFacts ==
    /\ base \in Nat /\ accepted \in Nat /\ committed \in Nat /\ pending \in Nat /\ bytes \in Nat
    /\ before \in Nat /\ ackSeq \in Nat /\ cut \in Nat /\ maxAttempt \in Nat /\ maxAttempt > 0
    /\ queue \in Seq(Ticks) /\ held \in Seq(Ticks) /\ log \in Seq(Ticks)
    /\ Len(queue) \in Nat /\ Len(held) \in Nat /\ Len(log) \in Nat
    /\ MaxTick \in Nat /\ CommitTicks \in Nat /\ CommitTicks > 0 /\ QueueTicks \in Nat
    /\ maxAttempt <= CommitTicks

\* The types, one variable at a time.
LEMMA TypeOKFacts == ASSUME TypeOK PROVE TypeFacts
  <1>1. MaxTick \in Nat /\ CommitTicks \in Nat /\ CommitTicks > 0 /\ QueueTicks \in Nat
    BY HistoryAssumption
  <1>2. /\ base \in Nat /\ accepted \in Nat /\ committed \in Nat /\ pending \in Nat
        /\ bytes \in Nat /\ before \in Nat /\ ackSeq \in Nat /\ cut \in Nat
    BY DEF TypeOK
  <1>3. maxAttempt \in Nat /\ maxAttempt > 0 /\ maxAttempt <= CommitTicks
    BY <1>1 DEF TypeOK
  <1>4. /\ queue \in Seq(Ticks) /\ held \in Seq(Ticks) /\ log \in Seq(Ticks)
        /\ Len(queue) \in Nat /\ Len(held) \in Nat /\ Len(log) \in Nat
    BY DEF TypeOK
  <1> QED
    BY <1>1, <1>2, <1>3, <1>4 DEF TypeFacts

\* The larger and the smaller of two numbers.
LEMMA MaxMinFacts ==
    ASSUME NEW a \in Int, NEW b \in Int
    PROVE  /\ Max({a, b}) = IF a >= b THEN a ELSE b
           /\ Min({a, b}) = IF a <= b THEN a ELSE b
  BY DEF Max, Min

\* The ticks of the model are finitely many, and each has a size and a time.
LEMMA TicksFacts ==
    /\ IsFiniteSet(Ticks)
    /\ \A t \in Ticks : t \in Nat /\ t > 0 /\ Size[t] \in Nat /\ Time[t] \in Nat
  <1>1. 1 \in Int /\ MaxTick \in Int /\ MaxTick \in Nat
    BY HistoryAssumption
  <1>2. IsFiniteSet(1..MaxTick)
    BY <1>1, FS_Interval
  <1>3. ASSUME NEW t \in Ticks PROVE Size[t] \in Nat /\ Time[t] \in Nat
    BY HistoryAssumption DEF Ticks
  <1> QED
    BY <1>1, <1>2, <1>3 DEF Ticks

\* The ticks from a + 1 to b, in order.
Between(a, b) == [i \in 1..(b - a) |-> a + i]

\* What is in a sequence.
LEMMA RangeFacts ==
    ASSUME NEW A, NEW q \in Seq(A), NEW t
    PROVE  t \in Range(q) <=> \E i \in 1..Len(q) : q[i] = t
  BY DEF Range

\* What a concatenation holds.
LEMMA ConcatFacts ==
    ASSUME NEW A, NEW p \in Seq(A), NEW q \in Seq(A)
    PROVE  /\ p \o q \in Seq(A) /\ Len(p \o q) = Len(p) + Len(q) /\ DOMAIN (p \o q) = 1..Len(p \o q)
           /\ \A i \in 1..Len(p) : (p \o q)[i] = p[i]
           /\ \A i \in 1..Len(q) : (p \o q)[Len(p) + i] = q[i]
  OBVIOUS

\* What is in hand and what is queued are the open ticks, one after the other.
LEMMA OpenIs ==
    ASSUME NEW h \in Seq(Ticks), NEW q \in Seq(Ticks), NEW a \in Nat,
           \A i \in 1..Len(h) : h[i] = a + i,
           \A i \in 1..Len(q) : q[i] = a + Len(h) + i
    PROVE  /\ h \o q \in Seq(Ticks) /\ Len(h \o q) = Len(h) + Len(q)
           /\ \A i \in 1..Len(h \o q) : (h \o q)[i] = a + i
           /\ Range(h \o q) = (a + 1)..(a + Len(h) + Len(q))
  <1> DEFINE o == h \o q
  <1>1. /\ Len(h) \in Nat /\ Len(q) \in Nat /\ o \in Seq(Ticks) /\ Len(o) = Len(h) + Len(q)
        /\ \A i \in 1..Len(h) : o[i] = h[i]
        /\ \A i \in 1..Len(q) : o[Len(h) + i] = q[i]
        /\ DOMAIN o = 1..Len(o)
    OBVIOUS
  <1> HIDE DEF o
  <1>2. ASSUME NEW i \in 1..Len(o) PROVE o[i] = a + i
    <2>1. CASE i <= Len(h)
      BY <2>1, <1>1
    <2>2. CASE i > Len(h)
      <3>1. i - Len(h) \in 1..Len(q) /\ i = Len(h) + (i - Len(h))
        BY <2>2, <1>1
      <3>2. o[Len(h) + (i - Len(h))] = a + Len(h) + (i - Len(h))
        BY <3>1, <1>1
      <3> QED
        BY <3>1, <3>2, <1>1
    <2> QED
      BY <2>1, <2>2, <1>1
  <1>3. Range(o) = {o[i] : i \in 1..Len(o)}
    BY <1>1 DEF Range
  <1>4. ASSUME NEW t \in (a + 1)..(a + Len(h) + Len(q)) PROVE t \in Range(o)
    <2>1. t - a \in 1..Len(o) /\ a + (t - a) = t
      BY <1>1
    <2>2. o[t - a] = t
      BY <2>1, <1>2
    <2> QED
      BY <2>1, <2>2, <1>3
  <1>5. ASSUME NEW t \in Range(o) PROVE t \in (a + 1)..(a + Len(h) + Len(q))
    BY <1>1, <1>2, <1>3
  <1>6. Range(o) = (a + 1)..(a + Len(h) + Len(q))
    BY <1>4, <1>5
  <1> QED
    BY <1>1, <1>2, <1>6 DEF o

\* The open ticks that are not in the log, when the log holds those up to w.
LEMMA WaitingIs ==
    ASSUME NEW o \in Seq(Ticks), NEW B, NEW a \in Nat, NEW w \in a..(a + Len(o)),
           \A i \in 1..Len(o) : o[i] = a + i,
           \A i \in 1..Len(o) : o[i] \in B <=> o[i] <= w
    PROVE  Without(o, B) = Between(w, a + Len(o))
  <1> DEFINE d == w - a
  <1>1. Len(o) \in Nat /\ d \in 0..Len(o) /\ w = a + d
    OBVIOUS
  <1>2. \A i \in 1..Len(o) : o[i] \in B <=> i <= d
    BY <1>1
  <1>3. Without(o, B) = SubSeq(o, d + 1, Len(o))
    BY <1>1, <1>2, WithoutPrefix
  <1> HIDE DEF d
  <1>4. SubSeq(o, d + 1, Len(o)) = [i \in 1..(Len(o) - d) |-> o[d + i]]
    BY <1>1
  <1>5. \A i \in 1..(Len(o) - d) : o[d + i] = w + i
    BY <1>1
  <1>6. Len(o) - d = (a + Len(o)) - w
    BY <1>1
  <1>7. Between(w, a + Len(o)) = [i \in 1..(Len(o) - d) |-> w + i]
    BY <1>6 DEF Between
  <1> QED
    BY <1>3, <1>4, <1>5, <1>7

\* Moving n ticks from the queue to the hand leaves the open ticks as they are.
LEMMA TakeFacts ==
    ASSUME IInv, NEW n \in 0..Len(queue), Take(n),
           UNCHANGED <<status, measuring, disk, ackSeq>>
    PROVE  /\ held' \in Seq(Ticks) /\ queue' \in Seq(Ticks) /\ Len(held') = Len(held) + n
           /\ IOpen' /\ ILog'
  <1>1. TypeFacts
    BY TypeOKFacts DEF IInv
  <1> USE DEF TypeFacts
  <1>2. /\ held' = held \o SubSeq(queue, 1, n) /\ queue' = SubSeq(queue, n + 1, Len(queue))
    BY DEF Take
  <1>3. /\ held' \in Seq(Ticks) /\ queue' \in Seq(Ticks)
        /\ Len(held') = Len(held) + n /\ Len(queue') = Len(queue) - n
        /\ \A i \in 1..Len(held) : held'[i] = held[i]
        /\ \A i \in 1..n : held'[Len(held) + i] = queue[i]
        /\ \A i \in 1..(Len(queue) - n) : queue'[i] = queue[n + i]
    BY <1>1, <1>2
  <1>4. Reported' = Reported /\ Newest' = Newest /\ Reported \in Nat
    BY <1>1 DEF Reported, Newest
  <1>5. /\ \A i \in 1..Len(held) : held[i] = Reported + i
        /\ \A i \in 1..Len(queue) : queue[i] = Reported + Len(held) + i
        /\ pending = Len(held) + Len(queue) /\ accepted = committed + pending
    BY DEF IInv, Safe, IOpen
  <1>6. ASSUME NEW i \in 1..Len(held') PROVE held'[i] = Reported + i
    <2>1. CASE i <= Len(held)
      BY <2>1, <1>1, <1>3, <1>5
    <2>2. CASE i > Len(held)
      <3>1. i - Len(held) \in 1..n /\ i - Len(held) \in 1..Len(queue) /\ i = Len(held) + (i - Len(held))
        BY <2>2, <1>1, <1>3
      <3>2. held'[i] = Reported + Len(held) + (i - Len(held))
        BY <3>1, <1>3, <1>5
      <3> QED
        BY <3>1, <3>2, <1>1, <1>4
    <2> QED
      BY <2>1, <2>2, <1>1, <1>3
  <1>7. ASSUME NEW i \in 1..Len(queue') PROVE queue'[i] = Reported + Len(held') + i
    <2>1. n + i \in 1..Len(queue) /\ queue'[i] = queue[n + i]
      <3>1. n \in Nat /\ i \in Nat /\ 1 <= i /\ i <= Len(queue) - n
        BY <1>1, <1>3
      <3> QED
        BY <3>1, <1>1, <1>3
    <2> QED
      BY <2>1, <1>1, <1>3, <1>4, <1>5
  <1>8. IOpen'
    <2>1. pending' = Len(held') + Len(queue')
      BY <1>1, <1>3, <1>5
    <2> QED
      BY <2>1, <1>4, <1>6, <1>7 DEF IInv, Safe, IOpen
  <1>9. ILog'
    <2>1. PICK w \in Reported..(Reported + Len(held)) : WrittenTo(w)
      BY DEF IInv, Safe, ILog
    <2>2. w \in Reported'..(Reported' + Len(held'))
      BY <2>1, <1>1, <1>3, <1>4
    <2>3. WrittenTo(w)'
      BY <2>1 DEF WrittenTo
    <2>4. \E v \in Reported'..(Reported' + Len(held')) : WrittenTo(v)'
      BY <2>2, <2>3
    <2> QED
      BY <2>4, <1>4 DEF IInv, Safe, ILog
  <1> QED
    BY <1>3, <1>8, <1>9

\* drainQueue takes no more than there is.
LEMMA DrainFacts ==
    ASSUME IInv, Drain
    PROVE  \E n \in 0..Len(queue) : Take(n)
  <1>1. TypeFacts
    BY TypeOKFacts DEF IInv
  <1> DEFINE m == Max({0, CommitTicks - Len(held)})
             n == Min({Len(queue), m})
  <1>2. m \in Nat
    BY <1>1, MaxMinFacts DEF TypeFacts
  <1> HIDE DEF m
  <1>3. n \in 0..Len(queue)
    <2>1. Len(queue) \in Nat
      BY <1>1 DEF TypeFacts
    <2>2. n = IF Len(queue) <= m THEN Len(queue) ELSE m
      <3>1. Len(queue) \in Int /\ m \in Int
        BY <1>2, <2>1
      <3> QED
        BY <3>1, MaxMinFacts, Zenon
    <2> HIDE DEF n
    <2> QED
      BY <1>2, <2>1, <2>2
  <1>4. Take(n)
    BY DEF Drain, m
  <1> QED
    BY <1>3, <1>4

\* A commit tries a prefix of the ticks in hand.
LEMMA AttemptFacts ==
    ASSUME IInv, pc = "flight"
    PROVE  /\ Attempt \in Seq(Ticks) /\ Len(Attempt) \in 1..Len(held) /\ Len(Attempt) <= CommitTicks
           /\ \A i \in 1..Len(Attempt) : Attempt[i] = Reported + i
  <1>1. TypeFacts
    BY TypeOKFacts DEF IInv
  <1> USE DEF TypeFacts
  <1>2. held # <<>> /\ \A i \in 1..Len(held) : held[i] = Reported + i
    BY DEF IInv, Safe, IRun, IOpen
  <1>3. Len(held) > 0
    BY <1>1, <1>2
  <1> DEFINE n == Min({Len(held), maxAttempt})
  <1>4. n \in 1..Len(held) /\ n <= CommitTicks
    <2>1. Len(held) \in Int /\ maxAttempt \in Int
      BY <1>1
    <2>2. n = IF Len(held) <= maxAttempt THEN Len(held) ELSE maxAttempt
      BY <2>1, MaxMinFacts, Zenon
    <2> HIDE DEF n
    <2> QED
      BY <2>2, <1>1, <1>3
  <1>5. Attempt = SubSeq(held, 1, n)
    BY DEF Attempt
  <1> HIDE DEF n
  <1>6. /\ SubSeq(held, 1, n) \in Seq(Ticks) /\ Len(SubSeq(held, 1, n)) = n
        /\ \A i \in 1..n : SubSeq(held, 1, n)[i] = held[i]
    BY <1>1, <1>4
  <1> QED
    BY <1>1, <1>2, <1>4, <1>5, <1>6

\* The log holds no tick past the written ones.
LEMMA LogBound ==
    ASSUME IInv, NEW w \in Reported..(Reported + Len(held)), WrittenTo(w)
    PROVE  w \in Nat /\ w <= Newest /\ \A i \in 1..Len(log) : log[i] \in Ticks /\ log[i] <= w
  <1>1. TypeFacts
    BY TypeOKFacts DEF IInv
  <1> USE DEF TypeFacts, Reported, Newest
  <1>2. w \in Nat /\ w >= base
    BY <1>1
  <1>3. w <= Newest
    BY <1>1 DEF IInv, Safe, IOpen
  <1>4. ASSUME NEW i \in 1..Len(log) PROVE log[i] \in Ticks /\ log[i] <= w
    <2>1. log[i] \in Ticks /\ log[i] \in Range(log)
      BY <1>1 DEF Range
    <2>2. log[i] > base => log[i] <= w
      BY <2>1 DEF WrittenTo
    <2>3. log[i] \in Nat
      BY <2>1, <1>1 DEF Ticks
    <2> QED
      BY <2>1, <2>2, <2>3, <1>1, <1>2
  <1> QED
    BY <1>2, <1>3, <1>4

\* One transaction: nothing is written, or the ticks of the batch that the log
\* lacks, and their receipts.
Wrote(w, v, n) ==
    /\ log' = log \o Between(w, v)
    /\ receipts' = (receipts \cup (Len(log) + 1)..(Len(log) + Len(Between(w, v)))) \ (1..ackSeq)
    /\ result'.seq \in 1..Len(log') /\ log'[result'.seq] = Reported + n

\* recordHistoryBatches, in these terms.
LEMMA RecordFacts ==
    ASSUME IInv, NEW err \in {"ok", "unknown", "interrupted", "failed"}, RecordHistoryBatches(err),
           NEW w \in Reported..(Reported + Len(held)), WrittenTo(w)
    PROVE  \E n \in 1..Len(held), v \in Nat :
             /\ n <= CommitTicks /\ v = IF Reported + n > w THEN Reported + n ELSE w
             /\ result'.n = n /\ result'.err \in {"ok", "interrupted", "failed"} /\ result'.seq \in Nat
             /\ result' \in [err : {"none", "ok", "interrupted", "failed"}, n : Nat, seq : Nat]
             /\ \/ UNCHANGED disk /\ result'.err # "ok"
                \/ Wrote(w, v, n)
  <1> DEFINE n == Len(Attempt)
             v == IF Reported + n > w THEN Reported + n ELSE w
             new == Without(Attempt, Received)
             t == Attempt[n]
             rows == log \o new
             seq == SequenceOf(t, rows)
             bad == ackSeq > 0 /\ ackSeq >= seq
  <1>1. TypeFacts
    BY TypeOKFacts DEF IInv
  <1> USE DEF TypeFacts
  <1>2. /\ Attempt \in Seq(Ticks) /\ n \in 1..Len(held) /\ n <= CommitTicks
        /\ \A i \in 1..n : Attempt[i] = Reported + i
    BY AttemptFacts DEF RecordHistoryBatches
  <1>3. Reported \in Nat /\ n \in Nat /\ w \in Nat /\ v \in Nat /\ base <= Reported
    BY <1>1, <1>2 DEF Reported
  <1>4. \A i \in 1..Len(log) : log[i] \in Ticks /\ log[i] <= w
    BY LogBound
  <1>5. ASSUME NEW i \in 1..n PROVE Attempt[i] \in Received <=> Attempt[i] <= w
    <2>1. Attempt[i] \in Ticks /\ Attempt[i] = Reported + i /\ i >= 1
      BY <1>2, <1>3
    <2>2. Attempt[i] > base /\ Attempt[i] > Reported
      BY <2>1, <1>1, <1>3
    <2>3. Attempt[i] \in Range(log) <=> Attempt[i] <= w
      BY <2>1, <2>2 DEF WrittenTo
    <2>4. receipts \subseteq 1..Len(log)
      BY DEF IInv, TypeOK
    <2>5. Attempt[i] \in Received => Attempt[i] \in Range(log)
      BY <2>4, <1>1 DEF Received, Range
    <2>6. ASSUME Attempt[i] \in Range(log) PROVE Attempt[i] \in Received
      <3>1. PICK k \in 1..Len(log) : log[k] = Attempt[i]
        BY <2>6, <1>1 DEF Range
      <3>2. k \in receipts
        BY <3>1, <2>2 DEF IInv, Safe, ILog
      <3> QED
        BY <3>1, <3>2 DEF Received
    <2> QED
      BY <2>3, <2>5, <2>6
  <1>6. new = Between(w, v)
    <2>1. CASE Reported + n > w
      <3>1. w \in Reported..(Reported + n)
        BY <2>1, <1>3
      <3>2. new = Between(w, Reported + n)
        BY <3>1, <1>2, <1>3, <1>5, WaitingIs
      <3> QED
        BY <3>2, <2>1
    <2>2. CASE ~ (Reported + n > w)
      <3>1. Reported + n \in Reported..(Reported + n) /\ Reported + n <= w
        BY <2>2, <1>3
      <3>2. ASSUME NEW i \in 1..n PROVE Attempt[i] \in Received <=> Attempt[i] <= Reported + n
        <4>1. Attempt[i] = Reported + i
          BY <1>2
        <4>2. Attempt[i] <= w /\ Attempt[i] <= Reported + n
          BY <4>1, <3>1, <1>3
        <4> QED
          BY <4>2, <1>5
      <3>3. new = Between(Reported + n, Reported + n)
        BY <3>1, <3>2, <1>2, <1>3, WaitingIs
      <3>4. Between(Reported + n, Reported + n) = Between(w, w)
        <4>1. 1..((Reported + n) - (Reported + n)) = {} /\ 1..(w - w) = {}
          BY <1>3
        <4> QED
          BY <4>1 DEF Between
      <3> QED
        BY <3>3, <3>4, <2>2
    <2> QED
      BY <2>1, <2>2
  <1>7. Between(w, v) \in Seq(Nat) /\ Len(Between(w, v)) = v - w
        /\ \A i \in 1..(v - w) : Between(w, v)[i] = w + i
    <2>1. v - w \in Nat
      BY <1>3
    <2> QED
      BY <2>1, <1>3 DEF Between
  <1> HIDE DEF new
  <1>8. /\ rows = log \o Between(w, v) /\ Len(rows) = Len(log) + (v - w) /\ DOMAIN rows = 1..Len(rows)
        /\ \A i \in 1..Len(log) : rows[i] = log[i]
        /\ \A i \in 1..(v - w) : rows[Len(log) + i] = w + i
        /\ Len(rows) \in Nat /\ v - w \in Nat
    <2>1. v - w \in Nat /\ log \in Seq(Nat)
      BY <1>1, <1>3 DEF Ticks
    <2> DEFINE b == Between(w, v)
    <2>2. b \in Seq(Nat) /\ Len(b) = v - w /\ \A i \in 1..(v - w) : b[i] = w + i
      BY <1>7
    <2>3. rows = log \o b
      BY <1>6
    <2> HIDE DEF b, v, rows
    <2>4. /\ Len(log \o b) = Len(log) + Len(b) /\ DOMAIN (log \o b) = 1..Len(log \o b)
          /\ \A i \in 1..Len(log) : (log \o b)[i] = log[i]
          /\ \A i \in 1..Len(b) : (log \o b)[Len(log) + i] = b[i]
      <3>1. log \in Seq(Nat) /\ b \in Seq(Nat)
        BY <2>1, <2>2
      <3>2. Len(log \o b) = Len(log) + Len(b)
        BY <3>1, ConcatFacts
      <3>3. DOMAIN (log \o b) = 1..Len(log \o b)
        BY <3>1, ConcatFacts
      <3>4. \A i \in 1..Len(log) : (log \o b)[i] = log[i]
        BY <3>1, ConcatFacts
      <3>5. \A i \in 1..Len(b) : (log \o b)[Len(log) + i] = b[i]
        BY <3>1, ConcatFacts
      <3> QED
        BY <3>2, <3>3, <3>4, <3>5
    <2>5. Len(rows) \in Nat
      BY <2>1, <2>2, <2>3, <2>4, <1>1
    <2> QED
      BY <2>1, <2>2, <2>3, <2>4, <2>5 DEF b
  <1>9. t = Reported + n /\ t \in Ticks
    BY <1>2, <1>3
  <1>10. \E k \in 1..Len(rows) : rows[k] = t
    <2>1. CASE Reported + n > w
      <3>1. v = Reported + n /\ v - w \in 1..(v - w)
        BY <2>1, <1>3
      <3>2. rows[Len(log) + (v - w)] = w + (v - w) /\ Len(log) + (v - w) \in 1..Len(rows)
        BY <3>1, <1>1, <1>8, SMTT(30)
      <3>3. w + (v - w) = v
        BY <1>3
      <3> QED
        BY <3>1, <3>2, <3>3, <1>9
    <2>2. CASE ~ (Reported + n > w)
      <3>1. t \in Range(log)
        <4>1. t <= w /\ t > base
          BY <2>2, <1>1, <1>2, <1>3, <1>9
        <4> QED
          BY <4>1, <1>9 DEF WrittenTo
      <3>2. PICK k \in 1..Len(log) : log[k] = t
        BY <3>1, <1>1, RangeFacts
      <3> QED
        BY <3>2, <1>1, <1>8
    <2> QED
      BY <2>1, <2>2
  <1>11. seq \in 1..Len(rows) /\ rows[seq] = t
    BY <1>8, <1>10 DEF SequenceOf
  <1>12. /\ IF err \in {"ok", "unknown"} /\ ~ bad THEN Write(new, seq) ELSE UNCHANGED disk
         /\ result' = [err |-> IF bad THEN "failed"
                               ELSE IF err = "unknown" THEN "interrupted" ELSE err,
                       n |-> n, seq |-> seq]
    BY DEF RecordHistoryBatches, new
  <1>13. seq \in Nat
    BY <1>8, <1>11
  <1> HIDE DEF rows, seq, bad, n, v, t
  <1>14. /\ result'.n = n /\ result'.seq = seq /\ result'.err \in {"ok", "interrupted", "failed"}
         /\ result' \in [err : {"none", "ok", "interrupted", "failed"}, n : Nat, seq : Nat]
         /\ bad => result'.err = "failed"
         /\ err \in {"interrupted", "failed"} => result'.err # "ok"
    BY <1>3, <1>12, <1>13
  <1>15. CASE err \in {"ok", "unknown"} /\ ~ bad
    <2>1. log' = rows
      BY <1>12, <1>15 DEF Write, rows
    <2>2. receipts' = (receipts \cup (Len(log) + 1)..(Len(log) + Len(Between(w, v)))) \ (1..ackSeq)
      BY <1>6, <1>12, <1>15 DEF Write
    <2>3. Wrote(w, v, n)
      BY <2>1, <2>2, <1>8, <1>9, <1>11, <1>14 DEF Wrote
    <2> QED
      BY <2>3, <1>2, <1>3, <1>13, <1>14 DEF v
  <1>16. CASE ~ (err \in {"ok", "unknown"} /\ ~ bad)
    <2>1. UNCHANGED disk /\ result'.err # "ok"
      BY <1>12, <1>14, <1>16
    <2> QED
      BY <2>1, <1>2, <1>3, <1>13, <1>14 DEF v
  <1> QED
    BY <1>15, <1>16

\* A commit that is reported takes its ticks out of the hand and of the counters.
LEMMA SettledFacts ==
    ASSUME IInv, Settled
    PROVE  /\ result.n \in 1..Len(held) /\ result.seq \in 1..Len(log)
           /\ held' \in Seq(Ticks) /\ pending' \in Nat /\ bytes' \in Nat
           /\ Reported' = Reported + result.n /\ Len(held') = Len(held) - result.n
           /\ IOpen' /\ ILog'
  <1> DEFINE n == result.n
             old == (Reported + 1)..(Reported + n)
             rest == (Reported + n + 1)..Newest
  <1>1. TypeFacts
    BY TypeOKFacts DEF IInv
  <1> USE DEF TypeFacts
  <1>2. /\ n \in 1..Len(held) /\ result.seq \in 1..Len(log) /\ log[result.seq] = Reported + n
    BY DEF Settled, IInv, Safe, IRun
  <1>3. /\ \A i \in 1..Len(held) : held[i] = Reported + i
        /\ \A i \in 1..Len(queue) : queue[i] = Reported + Len(held) + i
        /\ pending = Len(held) + Len(queue) /\ accepted = committed + pending
        /\ pending <= QueueTicks /\ Newest <= MaxTick
        /\ measuring = (Reported + 1)..Newest /\ bytes = Total(Size, measuring)
    BY DEF IInv, Safe, IOpen
  <1>4. /\ committed' = committed + n /\ pending' = pending - n
        /\ bytes' = bytes - AttemptBytes(n) /\ measuring' = measuring \ Done(n)
        /\ ackSeq' = result.seq /\ held' = SubSeq(held, n + 1, Len(held))
        /\ UNCHANGED <<base, accepted, queue, log, receipts>>
    BY DEF Settled
  <1> HIDE DEF n
  <1>5. Reported \in Nat /\ n \in Nat /\ Newest \in Nat /\ Newest = Reported + pending
        /\ Reported' = Reported + n /\ Newest' = Newest /\ base <= Reported
    <2>1. n \in Nat
      BY <1>1, <1>2
    <2>2. Reported \in Nat /\ Newest \in Nat /\ base <= Reported
      BY <1>1 DEF Reported, Newest
    <2>3. Newest = Reported + pending
      BY <1>1, <1>3 DEF Reported, Newest
    <2>4. Reported' = Reported + n
      BY <2>1, <1>1, <1>4 DEF Reported
    <2>5. Newest' = Newest
      BY <1>4 DEF Newest
    <2> QED
      BY <2>1, <2>2, <2>3, <2>4, <2>5
  <1>6. /\ held' \in Seq(Ticks) /\ Len(held') = Len(held) - n
        /\ \A i \in 1..Len(held') : held'[i] = held[n + i] /\ n + i \in 1..Len(held)
    <2>1. n \in Nat /\ n >= 1 /\ n <= Len(held)
      BY <1>1, <1>2
    <2>2. held' \in Seq(Ticks) /\ Len(held') = Len(held) - n
      BY <2>1, <1>1, <1>4
    <2>3. ASSUME NEW i \in 1..Len(held') PROVE held'[i] = held[n + i] /\ n + i \in 1..Len(held)
      <3>1. i \in Nat /\ i >= 1 /\ i <= Len(held) - n
        BY <2>1, <2>2, <1>1
      <3>2. n + i \in 1..Len(held)
        BY <2>1, <3>1, <1>1
      <3>3. held'[i] = held[n + i]
        BY <2>1, <3>1, <1>1, <1>4
      <3> QED
        BY <3>2, <3>3
    <2> QED
      BY <2>2, <2>3
  <1>7. Done(n) = old
    <2>1. ASSUME NEW t \in old PROVE t \in Done(n)
      <3>1. t - Reported \in 1..n /\ t - Reported \in 1..Len(held) /\ Reported + (t - Reported) = t
        BY <1>1, <1>2, <1>5
      <3>2. held[t - Reported] = t
        BY <3>1, <1>3
      <3> QED
        BY <3>1, <3>2 DEF Done
    <2>2. ASSUME NEW t \in Done(n) PROVE t \in old
      <3>1. PICK i \in 1..n : t = held[i]
        BY DEF Done
      <3>2. i \in 1..Len(held)
        BY <1>1, <1>2
      <3> QED
        BY <3>1, <3>2, <1>3, <1>5
    <2> QED
      BY <2>1, <2>2
  <1>8. /\ old \subseteq Ticks /\ rest \subseteq Ticks /\ old \cap rest = {}
        /\ measuring = old \cup rest /\ measuring \ old = rest
    <2>1. n <= pending /\ MaxTick \in Nat
      BY <1>1, <1>2, <1>3
    <2>a. measuring = (Reported + 1)..Newest /\ Newest <= MaxTick /\ pending \in Nat
      BY <1>1, <1>3
    <2>2. \A t \in old : t \in Nat /\ t >= 1 /\ t <= MaxTick
      BY <2>1, <2>a, <1>5
    <2>3. \A t \in rest : t \in Nat /\ t >= 1 /\ t <= MaxTick
      BY <2>1, <2>a, <1>5
    <2>4. \A t \in Nat : t \in measuring <=> (t \in old \/ t \in rest)
      BY <2>1, <2>a, <1>5
    <2>5. \A t : ~ (t \in old /\ t \in rest)
      BY <1>5
    <2>6. measuring \subseteq Nat
      BY <1>3, <1>5
    <2>7. old \subseteq Ticks /\ rest \subseteq Ticks
      BY <2>1, <2>2, <2>3 DEF Ticks
    <2> HIDE DEF old, rest
    <2> QED
      BY <2>2, <2>3, <2>4, <2>5, <2>6, <2>7
  <1>9. /\ Total(Size, measuring) = Total(Size, old) + Total(Size, rest)
        /\ Total(Size, old) \in Nat /\ Total(Size, rest) \in Nat
    <2>1. IsFiniteSet(Ticks) /\ \A x \in Ticks : Size[x] \in Nat
      BY TicksFacts
    <2>2. IsFiniteSet(old) /\ IsFiniteSet(rest)
      BY <2>1, <1>8, FS_Subset
    <2> HIDE DEF old, rest
    <2>3. Total(Size, old) \in Nat /\ Total(Size, rest) \in Nat
      BY <2>1, <2>2, <1>8, TotalRec
    <2>4. Total(Size, old \cup rest) = Total(Size, old) + Total(Size, rest)
      BY <2>1, <1>8, TotalUnion
    <2> QED
      BY <2>3, <2>4, <1>8
  <1>10. AttemptBytes(n) = Total(Size, old)
    BY <1>7 DEF AttemptBytes, Total
  <1>11. measuring' = rest /\ bytes' = Total(Size, measuring') /\ bytes' \in Nat
    <2> HIDE DEF old, rest
    <2>1. measuring' = rest
      BY <1>4, <1>7, <1>8
    <2>2. bytes' = Total(Size, rest)
      BY <1>3, <1>4, <1>9, <1>10
    <2> QED
      BY <2>1, <2>2, <1>9
  <1>12. pending' \in Nat /\ pending' = Len(held') + Len(queue') /\ accepted' = committed' + pending'
         /\ pending' <= QueueTicks
    <2>1. n \in Nat /\ n >= 1 /\ n <= Len(held) /\ n <= pending
      BY <1>1, <1>2, <1>3
    <2>2. pending' \in Nat /\ pending' = pending - n
      BY <2>1, <1>1, <1>4
    <2>3. pending' = Len(held') + Len(queue')
      <3>1. Len(queue') = Len(queue) /\ Len(held') = Len(held) - n
        BY <1>4, <1>6
      <3>2. pending = Len(held) + Len(queue) /\ Len(held) \in Nat /\ Len(queue) \in Nat
        BY <1>1, <1>3
      <3> QED
        BY <2>1, <2>2, <3>1, <3>2
    <2>4. accepted' = committed' + pending' /\ pending' <= QueueTicks
      BY <2>1, <2>2, <1>1, <1>3, <1>4
    <2> QED
      BY <2>2, <2>3, <2>4
  <1>13. ASSUME NEW i \in 1..Len(held') PROVE held'[i] = Reported' + i
    <2>1. i \in Nat
      BY <1>1, <1>5, <1>6
    <2>2. held'[i] = Reported + (n + i)
      BY <1>3, <1>6
    <2> QED
      BY <2>1, <2>2, <1>5
  <1>14. ASSUME NEW i \in 1..Len(queue') PROVE queue'[i] = Reported' + Len(held') + i
    <2>1. i \in Nat /\ i \in 1..Len(queue) /\ queue'[i] = queue[i]
      BY <1>1, <1>4
    <2>2. queue'[i] = Reported + Len(held) + i
      BY <2>1, <1>3
    <2>3. Len(held') = Len(held) - n /\ Len(held) \in Nat
      BY <1>1, <1>6
    <2> QED
      BY <2>1, <2>2, <2>3, <1>5
  <1>15. IOpen'
    BY <1>3, <1>5, <1>11, <1>12, <1>13, <1>14 DEF IOpen
  <1>16. ILog'
    <2>1. PICK w \in Reported..(Reported + Len(held)) : WrittenTo(w)
      BY DEF IInv, Safe, ILog
    <2>2. Reported + n <= w
      BY <1>2, <2>1, LogBound
    <2>3. w \in Reported'..(Reported' + Len(held')) /\ WrittenTo(w)'
      <3>1. WrittenTo(w)'
        BY <2>1, <1>4 DEF WrittenTo
      <3> QED
        BY <3>1, <2>1, <2>2, <1>1, <1>5, <1>6
    <2>4. \A j, k \in 1..Len(log) : j < k => log[j] < log[k]
      BY DEF IInv, Safe, ILog
    <2>5. ASSUME NEW k \in 1..Len(log), log[k] > Reported + n
          PROVE  k \in receipts /\ k > result.seq
      <3>1. log[k] \in Nat
        BY <1>1 DEF Ticks
      <3>2. k \in receipts
        <4>1. log[k] > Reported
          BY <2>5, <3>1, <1>5
        <4> QED
          BY <4>1 DEF IInv, Safe, ILog
      <3>3. ~ (k < result.seq)
        BY <2>4, <2>5, <3>1, <1>2, <1>5
      <3>4. k # result.seq
        BY <2>5, <1>2, <1>5
      <3> QED
        BY <3>2, <3>3, <3>4, <1>1, <1>2
    <2>6. ackSeq' <= Len(log')
      BY <1>1, <1>2, <1>4
    <2> QED
      BY <2>3, <2>4, <2>5, <2>6, <1>4, <1>5 DEF ILog
  <1> QED
    BY <1>2, <1>5, <1>6, <1>11, <1>12, <1>15, <1>16 DEF n

\* The next tick joins the end of the queue, and the counters.
LEMMA EnqueueFacts ==
    ASSUME IInv, NEW t \in Ticks, EnqueueTelemetryTick(t)
    PROVE  /\ queue' \in Seq(Ticks) /\ bytes' \in Nat
           /\ IOpen' /\ ILog' /\ ICut'
  <1>1. TypeFacts
    BY TypeOKFacts DEF IInv
  <1> USE DEF TypeFacts
  <1>2. /\ t = Newest + 1 /\ pending < QueueTicks /\ Time[t] >= before
        /\ accepted' = accepted + 1 /\ pending' = pending + 1 /\ bytes' = bytes + Size[t]
        /\ measuring' = measuring \cup {t} /\ queue' = Append(queue, t)
        /\ UNCHANGED <<base, committed, held, before, cut, log, receipts, ackSeq>>
    BY DEF EnqueueTelemetryTick
  <1>3. /\ \A i \in 1..Len(held) : held[i] = Reported + i
        /\ \A i \in 1..Len(queue) : queue[i] = Reported + Len(held) + i
        /\ pending = Len(held) + Len(queue) /\ accepted = committed + pending
        /\ measuring = (Reported + 1)..Newest /\ bytes = Total(Size, measuring)
    BY DEF IInv, Safe, IOpen
  <1>4. t \in Nat /\ t <= MaxTick /\ Size[t] \in Nat /\ Time[t] \in Nat
    BY <1>1, TicksFacts DEF Ticks
  <1>5. Reported' = Reported /\ Newest' = t /\ Reported \in Nat /\ Newest \in Nat
        /\ Newest = Reported + pending
    <2>1. Reported \in Nat /\ Newest \in Nat /\ Reported' = Reported
      BY <1>1, <1>2 DEF Reported, Newest
    <2>2. Newest = Reported + pending
      BY <1>1, <1>3 DEF Reported, Newest
    <2>3. Newest' = t
      BY <1>1, <1>2 DEF Newest
    <2> QED
      BY <2>1, <2>2, <2>3
  <1>6. /\ queue' \in Seq(Ticks) /\ Len(queue') = Len(queue) + 1
        /\ \A i \in 1..Len(queue) : queue'[i] = queue[i]
        /\ queue'[Len(queue) + 1] = t
    BY <1>1, <1>2
  <1>7. ASSUME NEW i \in 1..Len(queue') PROVE queue'[i] = Reported + Len(held) + i
    <2>1. CASE i \in 1..Len(queue)
      BY <2>1, <1>3, <1>6
    <2>2. CASE i = Len(queue) + 1
      <3>1. queue'[i] = t
        BY <2>2, <1>6
      <3>2. t = Reported + Len(held) + (Len(queue) + 1)
        BY <1>1, <1>2, <1>3, <1>5
      <3> QED
        BY <3>1, <3>2, <2>2
    <2> QED
      BY <2>1, <2>2, <1>1, <1>6
  <1>8. measuring' = (Reported + 1)..t /\ t \notin measuring /\ measuring \subseteq Ticks
    <2>1. t = Newest + 1 /\ Newest \in Nat /\ Reported \in Nat /\ Newest >= Reported
      BY <1>1, <1>2, <1>5
    <2>2. measuring' = (Reported + 1)..Newest \cup {t}
      BY <1>2, <1>3
    <2>3. \A x : x \in (Reported + 1)..Newest \cup {t} <=> x \in (Reported + 1)..t
      BY <2>1, <1>4
    <2>4. t \notin measuring
      BY <2>1, <1>3
    <2>5. measuring \subseteq Ticks
      BY DEF IInv, TypeOK
    <2> QED
      BY <2>2, <2>3, <2>4, <2>5
  <1>9. bytes' = Total(Size, measuring') /\ bytes' \in Nat
    <2>1. IsFiniteSet(Ticks) /\ \A x \in Ticks : Size[x] \in Nat
      BY TicksFacts
    <2>2. Total(Size, measuring \cup {t}) = Total(Size, measuring) + Size[t]
      BY <2>1, <1>8, TotalAdd
    <2>3. bytes' = Total(Size, measuring')
      BY <2>2, <1>2, <1>3
    <2>4. bytes' \in Nat
      BY <1>1, <1>2, <1>4
    <2> QED
      BY <2>3, <2>4
  <1>10. IOpen'
    <2>1. \A i \in 1..Len(held') : held'[i] = Reported' + i
      BY <1>2, <1>3, <1>5
    <2>2. \A i \in 1..Len(queue') : queue'[i] = Reported' + Len(held') + i
      BY <1>2, <1>5, <1>7
    <2>3. pending' = Len(held') + Len(queue')
      <3>1. Len(held') = Len(held)
        BY <1>2
      <3> QED
        BY <3>1, <1>1, <1>2, <1>3, <1>6
    <2>4. accepted' = committed' + pending' /\ pending' <= QueueTicks
      BY <1>1, <1>2, <1>3
    <2>5. Newest' <= MaxTick /\ measuring' = (Reported' + 1)..Newest'
      BY <1>4, <1>5, <1>8
    <2> QED
      BY <2>1, <2>2, <2>3, <2>4, <2>5, <1>9 DEF IOpen
  <1>11. ILog'
    BY <1>2, <1>5 DEF IInv, Safe, ILog, WrittenTo
  <1>12. ICut'
    <2>1. cut <= before /\ \A x \in measuring : Time[x] >= cut
      BY DEF IInv, Safe, ICut
    <2>2. Time[t] >= cut
      BY <2>1, <1>1, <1>2, <1>4
    <2> QED
      BY <2>1, <2>2, <1>2 DEF ICut
  <1> QED
    BY <1>6, <1>9, <1>10, <1>11, <1>12

\* The smallest member of a set of numbers.
LEMMA LeastFacts ==
    ASSUME NEW S \in SUBSET Nat, S # {}
    PROVE  Min(S) \in S /\ \A x \in S : Min(S) <= x
  <1>1. PICK n \in S : \A m \in S : n <= m
    BY NatMin
  <1>2. n \in S /\ \A m \in S : n <= m
    BY <1>1
  <1> QED
    BY <1>2 DEF Min

\* A boundary is reserved no later than the oldest tick that waits.
LEMMA ReserveFacts ==
    ASSUME IInv, NEW c \in {Time[t] : t \in Ticks}, ReserveAggregateCutoff(c)
    PROVE  before' \in Nat /\ cut' \in Nat /\ ICut'
  <1> DEFINE S == {c} \cup {Time[t] : t \in measuring}
             m == Min(S)
  <1>1. before \in Nat /\ cut \in Nat /\ measuring \subseteq Ticks
    BY DEF IInv, TypeOK
  <1>2. S \subseteq Nat /\ S # {}
    BY <1>1, TicksFacts
  <1>3. before' = Max({before, m}) /\ cut' = Max({cut, m}) /\ measuring' = measuring
    BY DEF ReserveAggregateCutoff
  <1>4. \A t \in measuring : Time[t] \in S /\ Time[t] \in Nat
    BY <1>1, TicksFacts
  <1> HIDE DEF S
  <1>5. m \in Nat /\ \A x \in S : m <= x
    BY <1>2, LeastFacts
  <1> HIDE DEF m
  <1>6. before' = IF before >= m THEN before ELSE m
    <2>1. before \in Int /\ m \in Int
      BY <1>1, <1>5
    <2> QED
      BY <2>1, <1>3, MaxMinFacts, Zenon
  <1>7. cut' = IF cut >= m THEN cut ELSE m
    <2>1. cut \in Int /\ m \in Int
      BY <1>1, <1>5
    <2> QED
      BY <2>1, <1>3, MaxMinFacts, Zenon
  <1>8. cut <= before /\ \A t \in measuring : Time[t] >= cut
    BY DEF IInv, Safe, ICut
  <1>9. cut' <= before'
    BY <1>1, <1>5, <1>6, <1>7, <1>8
  <1>10. ASSUME NEW t \in measuring PROVE Time[t] >= cut'
    BY <1>1, <1>4, <1>5, <1>7, <1>8
  <1> QED
    BY <1>1, <1>3, <1>5, <1>6, <1>7, <1>9, <1>10 DEF ICut

-----------------------------------------------------------------------------
(* The invariant, one step at a time *)

\* The ticks of the log that the batch w, v adds to it.
LEMMA WroteFacts ==
    ASSUME IInv, NEW w \in Reported..(Reported + Len(held)), WrittenTo(w),
           NEW n \in 1..Len(held), NEW v \in Nat,
           v = IF Reported + n > w THEN Reported + n ELSE w, Wrote(w, v, n),
           UNCHANGED <<status, held, queue, measuring, ackSeq>>
    PROVE  /\ log' \in Seq(Ticks) /\ receipts' \subseteq 1..Len(log')
           /\ Range(log) \subseteq Range(log') /\ ILog'
           /\ v \in Reported'..(Reported' + Len(held')) /\ WrittenTo(v)'
  <1> DEFINE b == Between(w, v)
  <1>1. TypeFacts
    BY TypeOKFacts DEF IInv
  <1> USE DEF TypeFacts
  <1>2. Reported \in Nat /\ w \in Nat /\ n \in Nat /\ w <= v /\ v <= Reported + Len(held)
        /\ base <= Reported /\ Reported <= w /\ n <= Len(held)
    BY <1>1 DEF Reported
  <1>3. v <= MaxTick
    <2>1. Newest <= MaxTick /\ pending = Len(held) + Len(queue) /\ accepted = committed + pending
      BY DEF IInv, Safe, IOpen
    <2> QED
      BY <2>1, <1>1, <1>2 DEF Newest, Reported
  <1>4. b \in Seq(Ticks) /\ Len(b) = v - w /\ \A i \in 1..(v - w) : b[i] = w + i
    <2>1. v - w \in Nat
      BY <1>2
    <2>2. ASSUME NEW i \in 1..(v - w) PROVE w + i \in Ticks
      BY <2>1, <1>1, <1>2, <1>3 DEF Ticks
    <2> QED
      BY <2>1, <2>2 DEF Between
  <1>5. /\ log' = log \o b
        /\ receipts' = (receipts \cup (Len(log) + 1)..(Len(log) + Len(b))) \ (1..ackSeq)
    BY DEF Wrote
  <1> HIDE DEF b
  <1>6. /\ log' \in Seq(Ticks) /\ Len(log') = Len(log) + (v - w) /\ v - w \in Nat
        /\ \A i \in 1..Len(log) : log'[i] = log[i]
        /\ \A i \in 1..(v - w) : log'[Len(log) + i] = w + i
    <2>1. v - w \in Nat
      BY <1>2
    <2>2. log \in Seq(Ticks) /\ b \in Seq(Ticks) /\ log' = log \o b /\ Len(b) = v - w
      BY <1>1, <1>4, <1>5
    <2>3. log' \in Seq(Ticks) /\ Len(log') = Len(log) + Len(b)
      BY <2>2, ConcatFacts
    <2>4. \A i \in 1..Len(log) : log'[i] = log[i]
      BY <2>2, ConcatFacts
    <2>5. \A i \in 1..Len(b) : log'[Len(log) + i] = b[i]
      <3>1. log \in Seq(Ticks) /\ b \in Seq(Ticks)
        BY <2>2
      <3>2. \A i \in 1..Len(b) : (log \o b)[Len(log) + i] = b[i]
        BY <3>1
      <3> QED
        BY <3>2, <2>2
    <2>6. \A i \in 1..(v - w) : log'[Len(log) + i] = w + i
      BY <2>2, <2>5, <1>4
    <2> QED
      BY <2>1, <2>2, <2>3, <2>4, <2>6
  <1>7. Len(log') \in Nat /\ Len(log) <= Len(log')
    BY <1>1, <1>6
  <1>8. \A i \in 1..Len(log) : log[i] \in Ticks /\ log[i] <= w
    BY LogBound
  \* A row is one of before, or one of the batch.
  <1>9. ASSUME NEW i \in 1..Len(log')
        PROVE  \/ i \in 1..Len(log) /\ log'[i] = log[i] /\ log[i] \in Nat /\ log[i] <= w
               \/ /\ i - Len(log) \in 1..(v - w) /\ log'[i] = w + (i - Len(log))
                  /\ i > Len(log) /\ i \in Nat /\ log'[i] \in Nat /\ log'[i] > w /\ log'[i] <= v
    <2>1. CASE i \in 1..Len(log)
      BY <2>1, <1>6, <1>8, TicksFacts
    <2>2. CASE i \notin 1..Len(log)
      <3>1. i - Len(log) \in 1..(v - w) /\ i > Len(log) /\ i \in Nat /\ i = Len(log) + (i - Len(log))
        BY <2>2, <1>1, <1>6, <1>7
      <3>2. log'[i] = w + (i - Len(log))
        BY <3>1, <1>6
      <3> QED
        BY <3>1, <3>2, <1>2, <1>6
    <2> QED
      BY <2>1, <2>2
  <1>10. receipts' \subseteq 1..Len(log')
    <2>1. receipts \subseteq 1..Len(log)
      BY DEF IInv, TypeOK
    <2>2. ASSUME NEW x \in receipts' PROVE x \in 1..Len(log')
      <3>1. x \in receipts \/ x \in (Len(log) + 1)..(Len(log) + Len(b))
        BY <1>5
      <3>2. CASE x \in receipts
        BY <3>2, <2>1, <1>1, <1>7
      <3>3. CASE x \in (Len(log) + 1)..(Len(log) + Len(b))
        BY <3>3, <1>1, <1>4, <1>6
      <3> QED
        BY <3>1, <3>2, <3>3
    <2> QED
      BY <2>2
  <1>11. Range(log) \subseteq Range(log')
    <2>1. ASSUME NEW t \in Range(log) PROVE t \in Range(log')
      <3>1. PICK i \in 1..Len(log) : log[i] = t
        BY <1>1, RangeFacts
      <3>2. i \in 1..Len(log') /\ log'[i] = t
        BY <3>1, <1>1, <1>6, <1>7
      <3> QED
        BY <3>2, <1>6, RangeFacts
    <2> QED
      BY <2>1
  <1>12. Reported' = Reported /\ base' = base /\ ackSeq' = ackSeq /\ Len(held') = Len(held)
    BY DEF Reported
  <1>13. ASSUME NEW i \in 1..Len(log'), NEW j \in 1..Len(log'), i < j
         PROVE  log'[i] < log'[j]
    <2>1. CASE j \in 1..Len(log)
      <3>1. i \in 1..Len(log)
        BY <2>1, <1>1, <1>7, <1>13
      <3>2. log[i] < log[j]
        BY <2>1, <3>1, <1>13 DEF IInv, Safe, ILog
      <3> QED
        BY <2>1, <3>1, <3>2, <1>6
    <2>2. CASE j \notin 1..Len(log)
      <3>1. log'[j] = w + (j - Len(log)) /\ log'[j] > w /\ log'[j] \in Nat /\ j \in Nat
        BY <2>2, <1>9
      <3>2. CASE i \in 1..Len(log)
        <4>1. log'[i] = log[i] /\ log[i] \in Nat /\ log[i] <= w
          BY <3>2, <1>6, <1>8, TicksFacts
        <4> QED
          BY <3>1, <4>1, <1>2
      <3>3. CASE i \notin 1..Len(log)
        <4>1. log'[i] = w + (i - Len(log)) /\ i \in Nat
          BY <3>3, <1>9
        <4> QED
          BY <3>1, <4>1, <1>1, <1>2, <1>13
      <3> QED
        BY <3>2, <3>3
    <2> QED
      BY <2>1, <2>2
  <1>14. ackSeq <= Len(log)
    BY DEF IInv, Safe, ILog
  <1>15. ASSUME NEW i \in 1..Len(log'), log'[i] > Reported
         PROVE  i \in receipts' /\ i > ackSeq
    <2>1. CASE i \in 1..Len(log)
      <3>1. log[i] > Reported
        BY <2>1, <1>6, <1>15
      <3>2. i \in receipts /\ i > ackSeq
        BY <2>1, <3>1 DEF IInv, Safe, ILog
      <3> QED
        BY <3>2, <2>1, <1>1, <1>5
    <2>2. CASE i \notin 1..Len(log)
      <3>1. i > Len(log) /\ i \in Nat /\ i - Len(log) \in 1..(v - w)
        BY <2>2, <1>9
      <3>2. i \in (Len(log) + 1)..(Len(log) + Len(b)) /\ i > ackSeq
        BY <3>1, <1>1, <1>4, <1>6, <1>14
      <3>3. i \notin 1..ackSeq
        BY <3>2, <3>1, <1>1
      <3> QED
        BY <3>2, <3>3, <1>5
    <2> QED
      BY <2>1, <2>2
  <1>16. ASSUME NEW t \in Ticks, t > base PROVE t \in Range(log') <=> t <= v
    <2>1. t \in Nat
      BY TicksFacts
    <2>2. t \in Range(log) <=> t <= w
      BY <1>16 DEF WrittenTo
    <2>3. ASSUME t \in Range(log') PROVE t <= v
      <3>1. PICK i \in 1..Len(log') : log'[i] = t
        BY <2>3, <1>6, RangeFacts
      <3> QED
        BY <3>1, <1>2, <1>9, <2>1
    <2>4. ASSUME t <= v PROVE t \in Range(log')
      <3>1. CASE t <= w
        BY <3>1, <2>2, <1>11
      <3>2. CASE t > w
        <4>1. t - w \in 1..(v - w) /\ w + (t - w) = t
          BY <3>2, <2>1, <2>4, <1>2
        <4>2. Len(log) + (t - w) \in 1..Len(log')
          BY <4>1, <1>1, <1>2, <1>6, SMTT(30)
        <4>3. log'[Len(log) + (t - w)] = w + (t - w)
          BY <4>1, <1>6
        <4> QED
          BY <4>1, <4>2, <4>3, <1>6, RangeFacts
      <3> QED
        BY <3>1, <3>2, <2>1, <1>2
    <2> QED
      BY <2>3, <2>4
  <1>17. WrittenTo(v)'
    BY <1>12, <1>16 DEF WrittenTo
  <1>18. v \in Reported'..(Reported' + Len(held'))
    BY <1>2, <1>12
  <1>19. ILog'
    <2>1. ackSeq' <= Len(log')
      BY <1>1, <1>7, <1>12, <1>14
    <2>2. \E x \in Reported'..(Reported' + Len(held')) : WrittenTo(x)'
      BY <1>17, <1>18
    <2> QED
      BY <2>1, <2>2, <1>12, <1>13, <1>15 DEF ILog
  <1> QED
    BY <1>6, <1>10, <1>11, <1>17, <1>18, <1>19

\* The types of all variables but the flags.
Shape ==
    /\ {base, accepted, committed, pending, bytes, before, ackSeq, flushTarget, cut,
        fails, epoch} \subseteq Nat
    /\ queue \in Seq(Ticks) /\ held \in Seq(Ticks) /\ log \in Seq(Ticks)
    /\ measuring \subseteq Ticks /\ promised \subseteq Ticks
    /\ receipts \subseteq 1..Len(log)
    /\ pc \in {"idle", "wait", "try", "flight", "retry", "done"}
    /\ maxAttempt \in 1..CommitTicks
    /\ result \in [err : {"none", "ok", "interrupted", "failed"}, n : Nat, seq : Nat]
    /\ flush \in [Flushers -> [pc : {"none", "asks", "waits"}, want : Nat]]
    /\ closer \in {"open", "stops", "waits", "closed", "failed"}

\* The type invariant is the shape and the flags.
LEMMA TypeParts == (TypeOK <=> Shape /\ Flags) /\ (TypeOK' <=> Shape' /\ Flags')
  BY Zenon DEF TypeOK, Shape, Flags

\* The shape, one variable at a time.
LEMMA ShapeFacts ==
    ASSUME IInv
    PROVE  /\ base \in Nat /\ accepted \in Nat /\ committed \in Nat /\ pending \in Nat
           /\ bytes \in Nat /\ before \in Nat /\ ackSeq \in Nat /\ flushTarget \in Nat
           /\ cut \in Nat /\ fails \in Nat /\ epoch \in Nat
           /\ queue \in Seq(Ticks) /\ held \in Seq(Ticks) /\ log \in Seq(Ticks)
           /\ measuring \subseteq Ticks /\ promised \subseteq Ticks
           /\ receipts \subseteq 1..Len(log)
           /\ pc \in {"idle", "wait", "try", "flight", "retry", "done"}
           /\ maxAttempt \in 1..CommitTicks
           /\ result \in [err : {"none", "ok", "interrupted", "failed"}, n : Nat, seq : Nat]
           /\ flush \in [Flushers -> [pc : {"none", "asks", "waits"}, want : Nat]]
           /\ closer \in {"open", "stops", "waits", "closed", "failed"}
  <1>1. Shape
    BY TypeParts DEF IInv
  <1> QED
    BY <1>1 DEF Shape

\* The places in the admission order are numbers.
LEMMA NumberFacts ==
    ASSUME IInv
    PROVE  Newest \in Nat /\ Reported \in Nat /\ Len(held) \in Nat
  <1>1. TypeFacts
    BY TypeOKFacts DEF IInv
  <1> QED
    BY <1>1 DEF TypeFacts, Reported, Newest

\* A step that moves no tick keeps what is said of the ticks.
LEMMA QuietFacts ==
    ASSUME IInv, UNCHANGED <<status, queue, held, measuring, before, cut, ackSeq, disk>>
    PROVE  IOpen' /\ ILog' /\ ICut' /\ Reported' = Reported
  <1>1. Reported' = Reported /\ Newest' = Newest
    BY DEF Reported, Newest
  <1>2. IOpen' /\ ICut'
    BY <1>1 DEF IInv, Safe, IOpen, ICut
  <1>3. ILog'
    BY <1>1 DEF IInv, Safe, ILog, WrittenTo
  <1> QED
    BY <1>1, <1>2, <1>3

\* The steps of the run goroutine that move no tick.
LEMMA RunnerStep ==
    ASSUME IInv,
           Wait \/ TimerFires \/ QueueClosed \/ ContextDone \/ Begin \/ Unsettled \/ RetryTimer
             \/ IntervalElapses
    PROVE  Shape' /\ Safe'
  <1>1. UNCHANGED <<status, queue, held, measuring, before, cut, ackSeq, disk>>
    BY DEF Wait, TimerFires, QueueClosed, ContextDone, Return, Begin, Unsettled, RetryTimer,
           IntervalElapses, EnterCommitHeld
  <1>2. UNCHANGED <<flushTarget, fails, epoch, promised, flush, closer, stopping>>
    BY DEF Wait, TimerFires, QueueClosed, ContextDone, Return, Begin, Unsettled, RetryTimer,
           IntervalElapses, EnterCommitHeld
  <1>3. IOpen' /\ ILog' /\ ICut' /\ Reported' = Reported
    BY <1>1, QuietFacts
  <1>4. IPromise'
    <2>1. IPromise
      BY DEF IInv, Safe
    <2> QED
      BY <2>1, <1>1, <1>2, Zenon DEF IPromise
  <1>5. CommitTicks \in Nat /\ CommitTicks > 0
    BY HistoryAssumption
  <1>6. /\ pc \in {"idle", "wait", "try", "flight", "retry", "done"} /\ maxAttempt \in 1..CommitTicks
        /\ result \in [err : {"none", "ok", "interrupted", "failed"}, n : Nat, seq : Nat]
    BY ShapeFacts
  <1>7. /\ pc \in {"wait", "try", "flight", "retry"} => held # <<>>
        /\ result.err # "none" => pc = "flight" /\ result.n \in 1..Len(held) /\ result.n <= CommitTicks
        /\ result.err = "ok" => result.seq \in 1..Len(log) /\ log[result.seq] = Reported + result.n
    BY DEF IInv, Safe, IRun
  <1>8. /\ pc' \in {"idle", "wait", "try", "flight", "retry", "done"}
        /\ pc' \in {"wait", "try", "flight", "retry"} => held # <<>>
        /\ \/ result' = result /\ (pc' = pc \/ result.err = "none")
           \/ result' = NoResult
        /\ maxAttempt' \in 1..CommitTicks
    <2>1. CASE TimerFires
      BY <2>1, <1>5, <1>6, <1>7 DEF TimerFires, EnterCommitHeld
    <2>2. CASE QueueClosed
      <3>1. CASE held = <<>>
        <4>1. pc # "flight" /\ pc' = "done" /\ maxAttempt' = maxAttempt /\ result' = result
          BY <2>2, <3>1 DEF QueueClosed, Blocked
        <4> QED
          BY <4>1, <1>6, <1>7
      <3>2. CASE held # <<>>
        <4>1. pc # "flight" /\ pc' = "try" /\ maxAttempt' = CommitTicks /\ result' = result
          BY <2>2, <3>2 DEF QueueClosed, EnterCommitHeld, Blocked
        <4> QED
          BY <4>1, <3>2, <1>5, <1>6, <1>7
      <3> QED
        BY <3>1, <3>2
    <2>3. CASE ContextDone
      <3>1. pc # "flight" /\ pc' = "done" /\ maxAttempt' = maxAttempt /\ result' = result
        BY <2>3 DEF ContextDone, Return, Blocked
      <3> QED
        BY <3>1, <1>6, <1>7
    <2>4. CASE Begin
      BY <2>4, <1>6, <1>7 DEF Begin
    <2>5. CASE Unsettled
      <3>1. pc = "flight" /\ held # <<>> /\ result' = NoResult /\ result.n \in Nat
              /\ result.n <= CommitTicks
        BY <2>5, <1>6, <1>7 DEF Unsettled
      <3>2. CASE result.err = "interrupted" /\ result.n > 1
        <4>1. maxAttempt' = Max({1, result.n \div 2}) /\ pc' = "try"
          BY <2>5, <3>2 DEF Unsettled
        <4>2. result.n \div 2 \in Nat /\ result.n \div 2 <= result.n
          BY <3>1
        <4>3. Max({1, result.n \div 2}) = IF 1 >= result.n \div 2 THEN 1 ELSE result.n \div 2
          <5>1. 1 \in Int /\ result.n \div 2 \in Int
            BY <4>2
          <5> QED
            BY <5>1, MaxMinFacts, Zenon
        <4>4. maxAttempt' \in 1..CommitTicks
          <5> DEFINE k == result.n \div 2
          <5>1. maxAttempt' = IF 1 >= k THEN 1 ELSE k
            BY <4>1, <4>3
          <5>2. k \in Nat /\ k <= result.n
            BY <4>2
          <5> HIDE DEF k
          <5> QED
            BY <5>1, <5>2, <3>1, <1>5
        <4> QED
          BY <3>1, <4>1, <4>4
      <3>3. CASE ~ (result.err = "interrupted" /\ result.n > 1)
        BY <2>5, <3>1, <3>3, <1>6 DEF Unsettled
      <3> QED
        BY <3>2, <3>3
    <2>6. CASE RetryTimer
      BY <2>6, <1>6, <1>7 DEF RetryTimer
    <2>7. CASE IntervalElapses
      BY <2>7, <1>6, <1>7 DEF IntervalElapses
    <2>8. CASE Wait
      BY <2>8, <1>6, <1>7 DEF Wait
    <2> QED
      BY <2>1, <2>2, <2>3, <2>4, <2>5, <2>6, <2>7, <2>8
  <1>9. IRun'
    <2>1. CASE result' = NoResult
      BY <2>1, <1>1, <1>8 DEF IRun, NoResult
    <2>2. CASE result' = result /\ (pc' = pc \/ result.err = "none")
      BY <2>2, <1>1, <1>3, <1>6, <1>7, <1>8 DEF IRun
    <2> QED
      BY <2>1, <2>2, <1>8
  <1>10. result' \in [err : {"none", "ok", "interrupted", "failed"}, n : Nat, seq : Nat]
    BY <1>6, <1>8 DEF NoResult
  <1>11. Shape'
    BY <1>1, <1>2, <1>8, <1>10, ShapeFacts DEF Shape
  <1> QED
    BY <1>3, <1>4, <1>9, <1>11 DEF Safe

\* The steps of FlushHistory and StopHistory.
LEMMA CallersStep ==
    ASSUME IInv,
           \/ \E f \in Flushers : FlushHistory(f) \/ FlushAsks(f) \/ FlushReturns(f) \/ FlushGivesUp(f)
           \/ StopAdmission \/ CloseAsks \/ CloseBudget \/ Closed
    PROVE  Shape' /\ Safe'
  <1> USE DEF FlushHistory, FlushAsks, FlushReturns, FlushGivesUp, StopAdmission, CloseAsks,
              CloseBudget, Closed, RequestFlush
  <1>1. UNCHANGED <<status, queue, held, measuring, before, cut, ackSeq, disk>>
    OBVIOUS
  <1>2. UNCHANGED <<pc, maxAttempt, result, fails, epoch>>
    OBVIOUS
  <1>3. IOpen' /\ ILog' /\ ICut' /\ Reported' = Reported
    BY <1>1, QuietFacts
  <1>4. IRun'
    BY <1>1, <1>2, <1>3 DEF IInv, Safe, IRun
  <1>5. flush' \in [Flushers -> [pc : {"none", "asks", "waits"}, want : Nat]]
    <2>1. /\ flush \in [Flushers -> [pc : {"none", "asks", "waits"}, want : Nat]]
          /\ accepted \in Nat
      BY ShapeFacts
    <2> DEFINE Call == [pc : {"none", "asks", "waits"}, want : Nat]
    <2>2. ASSUME NEW f \in Flushers
          PROVE  /\ flush[f] \in Call /\ NoFlush \in Call
                 /\ [pc |-> "asks", want |-> accepted] \in Call
                 /\ [flush[f] EXCEPT !.pc = "waits"] \in Call
      BY <2>1 DEF NoFlush
    <2>3. flush' = flush
            \/ \E f \in Flushers :
                 \/ flush' = [flush EXCEPT ![f] = NoFlush]
                 \/ flush' = [flush EXCEPT ![f] = [pc |-> "asks", want |-> accepted]]
                 \/ flush' = [flush EXCEPT ![f] = [flush[f] EXCEPT !.pc = "waits"]]
      OBVIOUS
    <2>4. flush \in [Flushers -> Call]
      BY <2>1
    <2> HIDE DEF Call
    <2>5. flush' \in [Flushers -> Call]
      BY <2>2, <2>3, <2>4, ZenonT(40)
    <2> QED
      BY <2>5 DEF Call
  <1>6. flushTarget' \in Nat
    <2>1. /\ flush \in [Flushers -> [pc : {"none", "asks", "waits"}, want : Nat]]
          /\ accepted \in Nat /\ flushTarget \in Nat
      BY ShapeFacts
    <2>2. ASSUME NEW x \in Nat PROVE Max({flushTarget, x}) \in Nat
      BY <2>1, MaxMinFacts
    <2>3. flushTarget' = flushTarget
            \/ (\E f \in Flushers : flushTarget' = Max({flushTarget, flush[f].want}))
            \/ flushTarget' = Max({flushTarget, accepted})
      OBVIOUS
    <2>4. ASSUME NEW f \in Flushers PROVE Max({flushTarget, flush[f].want}) \in Nat
      <3>1. flush[f].want \in Nat
        BY <2>1
      <3> QED
        BY <2>2, <3>1, Zenon
    <2>5. Max({flushTarget, accepted}) \in Nat
      BY <2>1, <2>2, Zenon
    <2> QED
      BY <2>1, <2>3, <2>4, <2>5, Zenon
  <1>7. closer' \in {"open", "stops", "waits", "closed", "failed"}
    BY ShapeFacts
  <1>8. promised' \subseteq Range(log) /\ promised' \subseteq Ticks
    <2>1. promised \subseteq Range(log) /\ promised \subseteq Ticks
      BY ShapeFacts DEF IInv, Safe, IPromise
    <2>2. ASSUME NEW f \in Flushers, FlushReturns(f)
          PROVE  (base + 1)..(base + flush[f].want) \subseteq Range(log) \cap Ticks
      <3>1. PICK w \in Reported..(Reported + Len(held)) : WrittenTo(w)
        BY DEF IInv, Safe, ILog
      <3>2. w \in Nat /\ w <= Newest /\ Newest <= MaxTick /\ Reported <= w /\ Newest \in Nat
        <4>1. w \in Nat /\ w <= Newest
          BY <3>1, LogBound
        <4>2. Newest <= MaxTick
          BY DEF IInv, Safe, IOpen
        <4>3. Newest \in Nat /\ Reported \in Nat /\ Len(held) \in Nat
          BY NumberFacts
        <4> QED
          BY <4>1, <4>2, <4>3, <3>1
      <3>3. flush[f].want \in Nat /\ committed >= flush[f].want
        BY <2>2, ShapeFacts
      <3>4. base \in Nat /\ committed \in Nat /\ MaxTick \in Nat
        BY ShapeFacts, HistoryAssumption
      <3> DEFINE k == flush[f].want
      <3>5. k \in Nat /\ committed >= k
        BY <3>3
      <3> HIDE DEF k
      <3>6. ASSUME NEW x \in (base + 1)..(base + k) PROVE x \in Ticks /\ x > base /\ x <= w
        BY <3>2, <3>4, <3>5 DEF Ticks, Reported
      <3>7. (base + 1)..(base + k) \subseteq Range(log) \cap Ticks
        BY <3>1, <3>6 DEF WrittenTo
      <3> QED
        BY <3>7 DEF k
    <2>3. promised' = promised
            \/ \E f \in Flushers : FlushReturns(f)
                 /\ promised' = promised \cup (base + 1)..(base + flush[f].want)
      OBVIOUS
    <2> QED
      BY <2>1, <2>2, <2>3
  <1>9. IPromise'
    <2>1. promised' \subseteq Range(log')
      BY <1>1, <1>8
    <2>2. (closer # "open" => stopping) /\ (closer = "closed" => pending = 0)
      BY DEF IInv, Safe, IPromise
    <2>3. closer' # "open" => stopping'
      BY <2>2, Zenon
    <2>4. closer' = "closed" => pending' = 0
      BY <2>2
    <2> QED
      BY <2>1, <2>3, <2>4 DEF IPromise
  <1>10. Shape'
    BY <1>1, <1>2, <1>5, <1>6, <1>7, <1>8, ShapeFacts DEF Shape
  <1> QED
    BY <1>3, <1>4, <1>9, <1>10 DEF Safe

\* The steps that take ticks from the queue.
LEMMA TakeStep ==
    ASSUME IInv, Receive \/ CommitDue \/ FlushToken
    PROVE  Shape' /\ Safe'
  <1>1. TypeFacts
    BY TypeOKFacts DEF IInv
  <1> USE DEF TypeFacts
  <1>2. UNCHANGED <<status, measuring, before, cut, ackSeq, disk>>
    BY DEF Receive, CommitDue, FlushToken, EnterCommitHeld
  <1>3. UNCHANGED <<flushTarget, fails, epoch, promised, flush, closer, stopping, result>>
    BY DEF Receive, CommitDue, FlushToken, EnterCommitHeld
  <1>4. \E n \in 0..Len(queue) : Take(n)
    <2>1. CASE Receive
      <3>1. 1 \in 0..Len(queue)
        <4>1. queue # <<>>
          BY <2>1 DEF Receive
        <4> QED
          BY <4>1, <1>1
      <3>2. Take(1)
        BY <2>1 DEF Receive
      <3> QED
        BY <3>1, <3>2
    <2>2. CASE CommitDue \/ FlushToken
      BY <2>2, DrainFacts DEF CommitDue, FlushToken
    <2> QED
      BY <2>1, <2>2
  <1>5. PICK n \in 0..Len(queue) : Take(n)
    BY <1>4
  <1>6. /\ held' \in Seq(Ticks) /\ queue' \in Seq(Ticks) /\ Len(held') = Len(held) + n
        /\ IOpen' /\ ILog'
    BY <1>2, <1>5, TakeFacts
  <1>7. ICut'
    BY <1>2 DEF IInv, Safe, ICut
  <1>8. IPromise'
    <2>1. IPromise
      BY DEF IInv, Safe
    <2> QED
      BY <2>1, <1>2, <1>3, Zenon DEF IPromise
  <1>9. pc \in {"idle", "wait"} /\ (pc' = "idle" \/ (pc' = "try" /\ held # <<>>))
    <2>1. ShouldCommit => held # <<>>
      BY Zenon DEF ShouldCommit
    <2>2. CASE Receive
      <3>1. pc \in {"idle", "wait"}
        BY <2>2 DEF Receive, Blocked
      <3>2. pc' = "idle"
        BY <2>2 DEF Receive
      <3> QED
        BY <3>1, <3>2
    <2>3. CASE CommitDue
      BY <2>1, <2>3 DEF CommitDue, EnterCommitHeld
    <2>4. CASE FlushToken
      <3>1. pc = "wait" /\ pc' = "try"
        BY <2>4 DEF FlushToken, EnterCommitHeld
      <3> QED
        BY <3>1 DEF IInv, Safe, IRun
    <2> QED
      BY <2>2, <2>3, <2>4
  <1>10. held # <<>> => held' # <<>>
    BY <1>1, <1>6
  <1>11. maxAttempt' \in 1..CommitTicks
    <2>1. CommitTicks \in 1..CommitTicks
      BY <1>1
    <2>2. maxAttempt \in 1..CommitTicks
      BY ShapeFacts
    <2>3. maxAttempt' = maxAttempt \/ maxAttempt' = CommitTicks
      BY Zenon DEF Receive, CommitDue, FlushToken, EnterCommitHeld
    <2> QED
      BY <2>1, <2>2, <2>3, Zenon
  <1>12. IRun'
    BY <1>3, <1>9, <1>10 DEF IInv, Safe, IRun
  <1>13. Shape'
    BY <1>2, <1>3, <1>6, <1>9, <1>11, ShapeFacts DEF Shape
  <1> QED
    BY <1>6, <1>7, <1>8, <1>12, <1>13 DEF Safe

\* The step that ends a transaction.
LEMMA RecordStep ==
    ASSUME IInv, NEW err \in {"ok", "unknown", "interrupted", "failed"}, RecordHistoryBatches(err)
    PROVE  Shape' /\ Safe'
  <1>1. TypeFacts
    BY TypeOKFacts DEF IInv
  <1> USE DEF TypeFacts
  <1>2. pc = "flight" /\ UNCHANGED <<status, queue, held, measuring, before, cut, ackSeq>>
    BY DEF RecordHistoryBatches
  <1>3. UNCHANGED <<pc, maxAttempt, flushTarget, flush, closer, stopping, epoch, promised>>
    BY DEF RecordHistoryBatches
  <1>4. fails' \in Nat
    BY ShapeFacts, SMTT(30) DEF RecordHistoryBatches
  <1>5. PICK w \in Reported..(Reported + Len(held)) : WrittenTo(w)
    BY DEF IInv, Safe, ILog
  <1>6. PICK n \in 1..Len(held), v \in Nat :
             /\ n <= CommitTicks /\ v = IF Reported + n > w THEN Reported + n ELSE w
             /\ result'.n = n /\ result'.err \in {"ok", "interrupted", "failed"} /\ result'.seq \in Nat
             /\ result' \in [err : {"none", "ok", "interrupted", "failed"}, n : Nat, seq : Nat]
             /\ \/ UNCHANGED disk /\ result'.err # "ok"
                \/ Wrote(w, v, n)
    BY <1>5, RecordFacts
  <1>7. Reported' = Reported /\ Newest' = Newest
    BY <1>2 DEF Reported, Newest
  <1>8. IOpen' /\ ICut'
    BY <1>2, <1>7 DEF IInv, Safe, IOpen, ICut
  <1>9. held' # <<>> /\ result'.n \in 1..Len(held') /\ result'.n <= CommitTicks
    BY <1>2, <1>6 DEF IInv, Safe, IRun
  <1>10. (closer' # "open" => stopping') /\ (closer' = "closed" => pending' = 0)
    BY <1>2, <1>3, Zenon DEF IInv, Safe, IPromise
  <1>11. promised \subseteq Range(log)
    BY DEF IInv, Safe, IPromise
  <1>12. CASE UNCHANGED disk /\ result'.err # "ok"
    <2>1. ILog'
      BY <1>2, <1>12, QuietFacts
    <2>2. IRun'
      BY <1>2, <1>3, <1>9, <1>12 DEF IRun
    <2>3. promised' \subseteq Range(log')
      BY <1>3, <1>11, <1>12
    <2>4. IPromise'
      BY <1>10, <2>3, Zenon DEF IPromise
    <2>5. Shape'
      BY <1>2, <1>3, <1>4, <1>6, <1>12, ShapeFacts DEF Shape
    <2> QED
      BY <2>1, <2>2, <2>4, <2>5, <1>8 DEF Safe
  <1>13. CASE Wrote(w, v, n)
    <2>1. /\ log' \in Seq(Ticks) /\ receipts' \subseteq 1..Len(log')
          /\ Range(log) \subseteq Range(log') /\ ILog'
      BY <1>2, <1>5, <1>6, <1>13, WroteFacts
    <2>2. IRun'
      <3>1. result'.seq \in 1..Len(log') /\ log'[result'.seq] = Reported' + result'.n
        BY <1>6, <1>7, <1>13 DEF Wrote
      <3> QED
        BY <3>1, <1>2, <1>3, <1>9 DEF IRun
    <2>3. promised' \subseteq Range(log')
      BY <1>3, <1>11, <2>1
    <2>4. IPromise'
      BY <1>10, <2>3, Zenon DEF IPromise
    <2>5. Shape'
      BY <1>2, <1>3, <1>4, <1>6, <2>1, ShapeFacts DEF Shape
    <2> QED
      BY <2>1, <2>2, <2>4, <2>5, <1>8 DEF Safe
  <1> QED
    BY <1>6, <1>12, <1>13

\* The step that reports a commit.
LEMMA SettledStep ==
    ASSUME IInv, Settled
    PROVE  Shape' /\ Safe'
  <1>1. TypeFacts
    BY TypeOKFacts DEF IInv
  <1> USE DEF TypeFacts
  <1>2. /\ result.n \in 1..Len(held) /\ result.seq \in 1..Len(log)
        /\ held' \in Seq(Ticks) /\ pending' \in Nat /\ bytes' \in Nat
        /\ Reported' = Reported + result.n /\ Len(held') = Len(held) - result.n
        /\ IOpen' /\ ILog'
    BY SettledFacts
  <1>3. /\ UNCHANGED <<base, accepted, queue, before, cut, disk, flushTarget, flush, closer,
                       stopping, promised, fails, epoch>>
        /\ result' = NoResult /\ maxAttempt' = CommitTicks /\ ackSeq' = result.seq
        /\ committed' = committed + result.n /\ measuring' \subseteq measuring
    BY DEF Settled
  <1>4. pc' \in {"idle", "try", "done"} /\ (pc' = "try" => held' # <<>>)
    <2>1. pc' = IF held' # <<>> THEN "try" ELSE IF final THEN "done" ELSE "idle"
      BY DEF Settled
    <2> QED
      BY <2>1, Zenon
  <1>5. ICut'
    BY <1>3 DEF IInv, Safe, ICut
  <1>6. IRun'
    BY <1>3, <1>4 DEF IRun, NoResult
  <1>7. IPromise'
    <2>1. pending # 0
      <3>1. pending = Len(held) + Len(queue)
        BY DEF IInv, Safe, IOpen
      <3> QED
        BY <3>1, <1>1, <1>2
    <2>2. IPromise
      BY DEF IInv, Safe
    <2>3. closer' # "closed" /\ UNCHANGED <<closer, stopping, promised, log>>
      BY <2>1, <2>2, <1>3 DEF IPromise
    <2> QED
      BY <2>2, <2>3, Zenon DEF IPromise
  <1>8. Shape'
    <2>1. committed' \in Nat /\ ackSeq' \in Nat /\ maxAttempt' \in 1..CommitTicks
      BY <1>1, <1>2, <1>3, SMTT(30)
    <2>2. result' \in [err : {"none", "ok", "interrupted", "failed"}, n : Nat, seq : Nat]
      BY <1>3 DEF NoResult
    <2> QED
      BY <2>1, <2>2, <1>2, <1>3, <1>4, ShapeFacts DEF Shape
  <1> QED
    BY <1>2, <1>5, <1>6, <1>7, <1>8 DEF Safe

\* Nothing is summed up in an empty queue.
LEMMA TotalEmpty == Total(Size, {}) = 0
  BY TotalRec, FS_EmptySet

\* A restart keeps the disk, and every tick of it is one of before.
LEMMA RestartStep ==
    ASSUME IInv, Restart
    PROVE  Shape' /\ Safe'
  <1>1. TypeFacts
    BY TypeOKFacts DEF IInv
  <1> USE DEF TypeFacts
  <1>2. /\ base' = Newest /\ accepted' = 0 /\ committed' = 0 /\ pending' = 0 /\ bytes' = 0
        /\ queue' = <<>> /\ measuring' = {} /\ before' = 0 /\ held' = <<>> /\ pc' = "idle"
        /\ maxAttempt' = CommitTicks /\ ackSeq' = 0 /\ result' = NoResult /\ flushTarget' = 0
        /\ flush' = [f \in Flushers |-> NoFlush] /\ closer' = "open" /\ cut' = 0
        /\ epoch' = epoch + 1 /\ UNCHANGED <<log, receipts, promised, fails>>
    BY DEF Restart
  <1>3. Newest \in Nat /\ Reported' = Newest /\ Newest' = Newest
    BY <1>1, <1>2 DEF Newest, Reported
  <1>4. PICK w \in Reported..(Reported + Len(held)) : WrittenTo(w)
    BY DEF IInv, Safe, ILog
  <1>5. w \in Nat /\ w <= Newest /\ \A i \in 1..Len(log) : log[i] \in Ticks /\ log[i] <= w
    BY <1>4, LogBound
  <1>6. \A i \in 1..Len(log) : log[i] \in Nat /\ log[i] <= Newest
    BY <1>3, <1>5, TicksFacts
  <1>7. IOpen'
    <2>1. Newest <= MaxTick /\ 0 <= QueueTicks
      BY <1>1 DEF IInv, Safe, IOpen
    <2>2. Len(held') = 0 /\ Len(queue') = 0
      BY <1>2
    <2>3. measuring' = (Reported' + 1)..Newest'
      BY <1>2, <1>3
    <2>4. bytes' = Total(Size, measuring')
      BY <1>2, TotalEmpty
    <2>5. pending' = Len(held') + Len(queue') /\ accepted' = committed' + pending'
      BY <1>2, <2>2
    <2> QED
      BY <2>1, <2>2, <2>3, <2>4, <2>5, <1>2, <1>3 DEF IOpen
  <1>8. ILog'
    <2>1. \A i, j \in 1..Len(log') : i < j => log'[i] < log'[j]
      BY <1>2 DEF IInv, Safe, ILog
    <2>2. \A i \in 1..Len(log') : ~ (log'[i] > Reported')
      BY <1>2, <1>3, <1>6
    <2>3. Newest \in Reported'..(Reported' + Len(held'))
      BY <1>2, <1>3
    <2>4. WrittenTo(Newest)'
      <3>1. ASSUME NEW t \in Ticks, t > Newest PROVE (t \notin Range(log)) /\ ~ (t <= Newest)
        <4>1. t \in Nat
          BY TicksFacts
        <4>2. \A i \in 1..Len(log) : log[i] # t
          BY <4>1, <3>1, <1>3, <1>6
        <4> QED
          BY <4>1, <4>2, <3>1, <1>1, <1>3, RangeFacts
      <3> QED
        BY <3>1, <1>2, <1>3 DEF WrittenTo
    <2>5. ackSeq' <= Len(log')
      BY <1>1, <1>2
    <2>6. \E x \in Reported'..(Reported' + Len(held')) : WrittenTo(x)'
      BY <2>3, <2>4, <1>3
    <2> QED
      BY <2>1, <2>2, <2>5, <2>6 DEF ILog
  <1>9. IRun' /\ IPromise' /\ ICut'
    BY <1>2 DEF IInv, Safe, IRun, IPromise, ICut, NoResult
  <1>10. Shape'
    <2>1. result' \in [err : {"none", "ok", "interrupted", "failed"}, n : Nat, seq : Nat]
      BY <1>2 DEF NoResult
    <2>2. flush' \in [Flushers -> [pc : {"none", "asks", "waits"}, want : Nat]]
      BY <1>2 DEF NoFlush
    <2>3. queue' \in Seq(Ticks) /\ held' \in Seq(Ticks) /\ maxAttempt' \in 1..CommitTicks
      BY <1>1, <1>2
    <2>4. epoch' \in Nat /\ base' \in Nat
      BY <1>2, <1>3, ShapeFacts, SMTT(30)
    <2>5. /\ accepted' \in Nat /\ committed' \in Nat /\ pending' \in Nat /\ bytes' \in Nat
          /\ before' \in Nat /\ ackSeq' \in Nat /\ flushTarget' \in Nat /\ cut' \in Nat
          /\ fails' \in Nat /\ measuring' \subseteq Ticks /\ promised' \subseteq Ticks
      BY <1>2, ShapeFacts
    <2>6. /\ log' \in Seq(Ticks) /\ receipts' \subseteq 1..Len(log')
          /\ pc' = "idle" /\ closer' = "open"
      BY <1>2, ShapeFacts
    <2> QED
      BY <2>1, <2>2, <2>3, <2>4, <2>5, <2>6 DEF Shape
  <1> QED
    BY <1>7, <1>8, <1>9, <1>10 DEF Safe

\* The steps of the control loop and of the archiver.
LEMMA AdmissionStep ==
    ASSUME IInv,
           \/ \E t \in Ticks : EnqueueTelemetryTick(t)
           \/ \E c \in {Time[t] : t \in Ticks} : ReserveAggregateCutoff(c)
    PROVE  Shape' /\ Safe'
  <1>1. TypeFacts
    BY TypeOKFacts DEF IInv
  <1> USE DEF TypeFacts
  <1>2. CASE \E t \in Ticks : EnqueueTelemetryTick(t)
    <2>1. PICK t \in Ticks : EnqueueTelemetryTick(t)
      BY <1>2
    <2>2. queue' \in Seq(Ticks) /\ bytes' \in Nat /\ IOpen' /\ ILog' /\ ICut'
      BY <2>1, EnqueueFacts
    <2>3. /\ accepted' = accepted + 1 /\ pending' = pending + 1
          /\ measuring' = measuring \cup {t}
          /\ UNCHANGED <<base, committed, before, held, pc, maxAttempt, ackSeq, result, flushTarget,
                         flush, closer, disk, cut, promised, fails, epoch>>
      BY <2>1 DEF EnqueueTelemetryTick
    <2>4. ~ stopping /\ stopping' = stopping
      BY <2>1 DEF EnqueueTelemetryTick
    <2>5. IPromise'
      <3>1. IPromise
        BY DEF IInv, Safe
      <3>2. closer = "open"
        BY <2>4, <3>1, Zenon DEF IPromise
      <3> QED
        BY <3>1, <3>2, <2>3 DEF IPromise
    <2>6. IRun'
      BY <2>3 DEF IInv, Safe, IRun, Reported
    <2>7. Shape'
      <3>1. accepted' \in Nat /\ pending' \in Nat /\ measuring' \subseteq Ticks
        BY <1>1, <2>1, <2>3, ShapeFacts
      <3> QED
        BY <3>1, <2>2, <2>3, ShapeFacts DEF Shape
    <2> QED
      BY <2>2, <2>5, <2>6, <2>7 DEF Safe
  <1>3. CASE \E c \in {Time[t] : t \in Ticks} : ReserveAggregateCutoff(c)
    <2>1. PICK c \in {Time[t] : t \in Ticks} : ReserveAggregateCutoff(c)
      BY <1>3
    <2>2. before' \in Nat /\ cut' \in Nat /\ ICut'
      BY <2>1, ReserveFacts
    <2>3. UNCHANGED <<status, stopping, queue, measuring, held, pc, maxAttempt, ackSeq, result,
                      flushTarget, flush, closer, disk, promised, fails, epoch>>
      BY <2>1 DEF ReserveAggregateCutoff
    <2>4. Reported' = Reported /\ Newest' = Newest
      BY <2>3 DEF Reported, Newest
    <2>5. IOpen' /\ ILog'
      BY <2>3, <2>4 DEF IInv, Safe, IOpen, ILog, WrittenTo
    <2>6. IRun'
      BY <2>3, <2>4 DEF IInv, Safe, IRun
    <2>7. IPromise'
      <3>1. IPromise
        BY DEF IInv, Safe
      <3> QED
        BY <3>1, <2>3, Zenon DEF IPromise
    <2>8. Shape'
      BY <2>2, <2>3, ShapeFacts DEF Shape
    <2> QED
      BY <2>2, <2>5, <2>6, <2>7, <2>8 DEF Safe
  <1> QED
    BY <1>2, <1>3

-----------------------------------------------------------------------------
(* The theorems *)

\* The writer starts in the invariant.
LEMMA InitIInv == Init => IInv
  <1> SUFFICES ASSUME Init PROVE IInv
    OBVIOUS
  <1>1. MaxTick \in Nat /\ CommitTicks \in Nat /\ CommitTicks > 0 /\ QueueTicks \in Nat
    BY HistoryAssumption
  <1>2. /\ base = 0 /\ accepted = 0 /\ committed = 0 /\ pending = 0 /\ bytes = 0
        /\ queue = <<>> /\ measuring = {} /\ before = 0 /\ held = <<>> /\ pc = "idle"
        /\ maxAttempt = CommitTicks /\ ackSeq = 0 /\ result = NoResult /\ flushTarget = 0
        /\ flush = [f \in Flushers |-> NoFlush] /\ closer = "open" /\ cut = 0
        /\ log = <<>> /\ receipts = {} /\ promised = {} /\ fails = 0 /\ epoch = 0
    BY DEF Init, Fresh
  <1>3. Flags
    BY Zenon DEF Init, Fresh, Flags
  <1>4. Shape
    BY <1>1, <1>2 DEF Shape, NoResult, NoFlush
  <1>5. Reported = 0 /\ Newest = 0 /\ Len(held) = 0 /\ Len(queue) = 0 /\ Len(log) = 0
    BY <1>2 DEF Reported, Newest
  <1>6. IOpen
    <2>1. measuring = (Reported + 1)..Newest /\ bytes = Total(Size, measuring)
      BY <1>2, <1>5, TotalEmpty
    <2> QED
      BY <2>1, <1>1, <1>2, <1>5 DEF IOpen
  <1>7. ILog
    <2>1. WrittenTo(0)
      <3>1. Range(log) = {}
        BY <1>2 DEF Range
      <3>2. \A t \in Ticks : t \in Nat /\ t > 0
        BY TicksFacts
      <3> QED
        BY <3>1, <3>2, <1>2 DEF WrittenTo
    <2>2. 0 \in Reported..(Reported + Len(held))
      BY <1>5
    <2>3. \E w \in Reported..(Reported + Len(held)) : WrittenTo(w)
      BY <2>1, <2>2
    <2> QED
      BY <2>3, <1>2, <1>5 DEF ILog
  <1>8. IRun /\ IPromise /\ ICut
    BY <1>2 DEF IRun, IPromise, ICut, NoResult
  <1> QED
    BY <1>3, <1>4, <1>6, <1>7, <1>8, TypeParts DEF IInv, Safe

\* Every step keeps the invariant.
LEMMA StepIInv == IInv /\ [Next]_vars => IInv'
  <1> SUFFICES ASSUME IInv, [Next]_vars PROVE IInv'
    OBVIOUS
  <1>1. Flags'
    <2>1. Flags
      BY TypeParts DEF IInv
    <2> QED
      BY <2>1, FlagsStep
  <1>2. Shape' /\ Safe'
    <2>1. CASE \/ \E t \in Ticks : EnqueueTelemetryTick(t)
               \/ \E c \in {Time[t] : t \in Ticks} : ReserveAggregateCutoff(c)
      BY <2>1, AdmissionStep
    <2>2. CASE Receive \/ CommitDue \/ FlushToken
      BY <2>2, TakeStep
    <2>3. CASE Wait \/ TimerFires \/ QueueClosed \/ ContextDone \/ Begin \/ Unsettled \/ RetryTimer
                 \/ IntervalElapses
      BY <2>3, RunnerStep
    <2>4. CASE \E err \in {"ok", "unknown", "interrupted", "failed"} : RecordHistoryBatches(err)
      BY <2>4, RecordStep
    <2>5. CASE Settled
      BY <2>5, SettledStep
    <2>6. CASE \/ \E f \in Flushers : FlushHistory(f) \/ FlushAsks(f) \/ FlushReturns(f) \/ FlushGivesUp(f)
               \/ StopAdmission \/ CloseAsks \/ CloseBudget \/ Closed
      BY <2>6, CallersStep
    <2>7. CASE Restart
      BY <2>7, RestartStep
    <2>8. CASE UNCHANGED vars
      <3>1. UNCHANGED <<status, queue, held, measuring, before, cut, ackSeq, disk>>
        BY <2>8 DEF vars
      <3>2. UNCHANGED <<flushTarget, fails, epoch, promised, flush, closer, stopping, result, pc,
                        maxAttempt>>
        BY <2>8 DEF vars
      <3>3. IOpen' /\ ILog' /\ ICut' /\ Reported' = Reported
        BY <3>1, QuietFacts
      <3>4. IRun'
        BY <3>1, <3>2, <3>3 DEF IInv, Safe, IRun
      <3>5. IPromise'
        <4>1. IPromise
          BY DEF IInv, Safe
        <4> QED
          BY <4>1, <3>1, <3>2, Zenon DEF IPromise
      <3>6. Shape'
        BY <3>1, <3>2, ShapeFacts DEF Shape
      <3> QED
        BY <3>3, <3>4, <3>5, <3>6 DEF Safe
    <2> QED
      BY <2>1, <2>2, <2>3, <2>4, <2>5, <2>6, <2>7, <2>8 DEF Next, Run, Callers, Outcomes
  <1> QED
    BY <1>1, <1>2, TypeParts DEF IInv

(***************************************************************************)
(* The inductive invariant: the ticks in the writer are consecutive, the   *)
(* log of this process is a prefix of the admitted ones that ends among    *)
(* the ticks in hand, and what is logged unreported has its receipt.       *)
(***************************************************************************)
THEOREM Invariance == Spec => []IInv
  BY InitIInv, StepIInv, PTL DEF Spec

(***************************************************************************)
(* The counters that EnqueueTelemetryTick decides by are those of the      *)
(* ticks in the queue and in hand, whatever was halved, repeated or        *)
(* interrupted, and the send under the lock never waits.                   *)
(***************************************************************************)
THEOREM QueueSafe == Spec => []QueueIsConsistent
  <1>1. IInv => QueueIsConsistent
    <2> SUFFICES ASSUME IInv PROVE RoomIsAccounted
      BY DEF IInv, QueueIsConsistent
    <2>1. TypeFacts
      BY TypeOKFacts DEF IInv
    <2> USE DEF TypeFacts
    <2>2. /\ \A i \in 1..Len(held) : held[i] = Reported + i
          /\ \A i \in 1..Len(queue) : queue[i] = Reported + Len(held) + i
          /\ pending = Len(held) + Len(queue) /\ accepted = committed + pending
          /\ pending <= QueueTicks
          /\ measuring = (Reported + 1)..Newest /\ bytes = Total(Size, measuring)
      BY DEF IInv, Safe, IOpen
    <2>3. Reported \in Nat /\ Newest = Reported + Len(held) + Len(queue)
      BY <2>1, <2>2 DEF Reported, Newest
    <2>4. /\ Len(Open) = Len(held) + Len(queue)
          /\ Range(Open) = (Reported + 1)..(Reported + Len(held) + Len(queue))
      <3>1. held \in Seq(Ticks) /\ queue \in Seq(Ticks) /\ Reported \in Nat
        BY <2>1, <2>3
      <3> QED
        BY <3>1, <2>2, OpenIs DEF Open
    <2>5. bytes = Total(Size, Range(Open))
      BY <2>2, <2>3, <2>4
    <2>6. Len(queue) <= QueueTicks
      BY <2>1, <2>2
    <2> QED
      BY <2>2, <2>4, <2>5, <2>6 DEF RoomIsAccounted, Total
  <1> QED
    BY <1>1, Invariance, PTL

(***************************************************************************)
(* FlushHistory and StopHistory report success only for ticks that are on  *)
(* disk, across restarts and commits with an unknown outcome.              *)
(***************************************************************************)
THEOREM AcknowledgedSafe == Spec => []AcknowledgedIsDurable
  <1>1. IInv => AcknowledgedIsDurable
    <2> SUFFICES ASSUME IInv PROVE AcknowledgedIsDurable
      OBVIOUS
    <2>1. TypeFacts
      BY TypeOKFacts DEF IInv
    <2> USE DEF TypeFacts
    <2>2. FlushedIsDurable
      BY DEF IInv, Safe, IPromise, FlushedIsDurable
    <2>3. ASSUME closer = "closed" PROVE (base + 1)..Newest \subseteq Range(log)
      <3>1. pending = 0 /\ accepted = committed + pending /\ Newest <= MaxTick
        BY <2>3 DEF IInv, Safe, IPromise, IOpen
      <3>2. Newest = Reported /\ Newest \in Nat
        BY <2>1, <3>1 DEF Newest, Reported
      <3>3. PICK w \in Reported..(Reported + Len(held)) : WrittenTo(w)
        BY DEF IInv, Safe, ILog
      <3>4. ASSUME NEW t \in (base + 1)..Newest PROVE t \in Ticks /\ t > base /\ t <= w
        BY <2>1, <3>1, <3>2, <3>3 DEF Ticks
      <3> QED
        BY <3>3, <3>4 DEF WrittenTo
    <2> QED
      BY <2>2, <2>3 DEF AcknowledgedIsDurable, CleanCloseIsComplete
  <1> QED
    BY <1>1, Invariance, PTL

(***************************************************************************)
(* The boundary that ReserveAggregateCutoff hands to the archiver never    *)
(* passes a tick that is accepted and not yet reported as written.         *)
(***************************************************************************)
THEOREM ArchiveSafe == Spec => []ArchiveWaitsForTicks
  <1>1. IInv => ArchiveWaitsForTicks
    <2> SUFFICES ASSUME IInv PROVE ArchiveWaitsForTicks
      OBVIOUS
    <2>1. TypeFacts
      BY TypeOKFacts DEF IInv
    <2> USE DEF TypeFacts
    <2>2. /\ \A i \in 1..Len(held) : held[i] = Reported + i
          /\ \A i \in 1..Len(queue) : queue[i] = Reported + Len(held) + i
          /\ pending = Len(held) + Len(queue) /\ accepted = committed + pending
          /\ measuring = (Reported + 1)..Newest
      BY DEF IInv, Safe, IOpen
    <2>3. Reported \in Nat /\ Newest = Reported + Len(held) + Len(queue)
      BY <2>1, <2>2 DEF Reported, Newest
    <2>4. /\ Len(Open) = Len(held) + Len(queue)
          /\ Range(Open) = (Reported + 1)..(Reported + Len(held) + Len(queue))
      <3>1. held \in Seq(Ticks) /\ queue \in Seq(Ticks) /\ Reported \in Nat
        BY <2>1, <2>3
      <3> QED
        BY <3>1, <2>2, OpenIs DEF Open
    <2>5. Range(Open) = measuring
      BY <2>2, <2>3, <2>4
    <2> QED
      BY <2>5 DEF IInv, Safe, ICut, ArchiveWaitsForTicks
  <1> QED
    BY <1>1, Invariance, PTL

-----------------------------------------------------------------------------
(* The refinement *)

\* The ticks that wait, from the state of the writer.
LEMMA WaitingValue ==
    ASSUME NEW h \in Seq(Ticks), NEW q \in Seq(Ticks), NEW a \in Nat, NEW b \in Nat, b <= a,
           NEW w \in a..(a + Len(h)), NEW L, a + Len(h) + Len(q) <= MaxTick,
           \A i \in 1..Len(h) : h[i] = a + i,
           \A i \in 1..Len(q) : q[i] = a + Len(h) + i,
           \A t \in Ticks : t > b => (t \in L <=> t <= w)
    PROVE  Without(h \o q, L) = Between(w, a + Len(h) + Len(q))
  <1> DEFINE o == h \o q
  <1>1. /\ o \in Seq(Ticks) /\ Len(o) = Len(h) + Len(q)
        /\ \A i \in 1..Len(o) : o[i] = a + i
    BY OpenIs
  <1>2. Len(h) \in Nat /\ Len(q) \in Nat /\ w \in Nat
    OBVIOUS
  <1> HIDE DEF o
  <1>3. ASSUME NEW i \in 1..Len(o) PROVE o[i] \in L <=> o[i] <= w
    <2>1. o[i] \in Ticks /\ o[i] > b
      BY <1>1, <1>2
    <2> QED
      BY <2>1
  <1>4. w \in a..(a + Len(o))
    BY <1>1, <1>2
  <1>5. Without(o, L) = Between(w, a + Len(o))
    BY <1>1, <1>3, <1>4, WaitingIs
  <1>6. a + Len(o) = a + Len(h) + Len(q)
    BY <1>1, <1>2
  <1> QED
    BY <1>5, <1>6 DEF o

\* The value that HistoryLog's waiting has in the writer.
Waiting == Without(Open, Range(log))

\* How far this process has written: w splits its ticks into log and waiting.
Split(w) ==
    /\ w \in Nat /\ base <= w /\ w <= Newest /\ Newest \in Nat /\ Newest <= MaxTick
    /\ WrittenTo(w) /\ Waiting = Between(w, Newest)

\* There is such a place, and only one.
LEMMA SplitFacts ==
    ASSUME IInv
    PROVE  \A w \in Reported..(Reported + Len(held)) : WrittenTo(w) => Split(w)
  <1>1. TypeFacts
    BY TypeOKFacts DEF IInv
  <1> USE DEF TypeFacts
  <1>2. /\ \A i \in 1..Len(held) : held[i] = Reported + i
        /\ \A i \in 1..Len(queue) : queue[i] = Reported + Len(held) + i
        /\ pending = Len(held) + Len(queue) /\ accepted = committed + pending /\ Newest <= MaxTick
    BY DEF IInv, Safe, IOpen
  <1>3. Reported \in Nat /\ Newest \in Nat /\ base <= Reported
    BY <1>1 DEF Reported, Newest
  <1>4. Newest = Reported + Len(held) + Len(queue)
    BY <1>1, <1>2 DEF Reported, Newest
  <1> SUFFICES ASSUME NEW w \in Reported..(Reported + Len(held)), WrittenTo(w) PROVE Split(w)
    OBVIOUS
  <1>5. w \in Nat /\ w <= Newest /\ base <= w
    BY <1>1, <1>3, <1>4
  <1>6. Without(held \o queue, Range(log)) = Between(w, Reported + Len(held) + Len(queue))
    <2>1. \A t \in Ticks : t > base => (t \in Range(log) <=> t <= w)
      BY DEF WrittenTo
    <2>2. Reported + Len(held) + Len(queue) <= MaxTick
      BY <1>2, <1>4
    <2>3. held \in Seq(Ticks) /\ queue \in Seq(Ticks) /\ base \in Nat
      BY <1>1
    <2> QED
      BY <2>1, <2>2, <2>3, <1>2, <1>3, WaitingValue, SMTT(30)
  <1> QED
    BY <1>2, <1>3, <1>4, <1>5, <1>6 DEF Split, Waiting, Open

LocatedAt == \E w \in Nat : Split(w)

\* It can be found in every state of the invariant.
LEMMA Located == IInv => LocatedAt
  <1> SUFFICES ASSUME IInv PROVE LocatedAt
    OBVIOUS
  <1>1. PICK w \in Reported..(Reported + Len(held)) : WrittenTo(w)
    BY DEF IInv, Safe, ILog
  <1>2. Split(w)
    BY <1>1, SplitFacts
  <1> QED
    BY <1>2 DEF LocatedAt, Split

\* The same of the state after a step.
LEMMA LocatedNext == IInv' => LocatedAt'
  BY Located, PTL

\* Two places that divide the ticks above b alike are the same.
LEMMA OnePlace ==
    ASSUME NEW b \in Nat, NEW w \in Nat, NEW v \in Nat, b <= w, b <= v, w <= MaxTick, v <= MaxTick,
           \A t \in Ticks : t > b => (t <= w <=> t <= v)
    PROVE  w = v
  <1>1. MaxTick \in Nat
    BY HistoryAssumption
  <1>2. CASE w < v
    <2>1. w + 1 \in Ticks /\ w + 1 > b /\ w + 1 <= v /\ ~ (w + 1 <= w)
      BY <1>1, <1>2 DEF Ticks
    <2> QED
      BY <2>1
  <1>3. CASE v < w
    <2>1. v + 1 \in Ticks /\ v + 1 > b /\ v + 1 <= w /\ ~ (v + 1 <= v)
      BY <1>1, <1>3 DEF Ticks
    <2> QED
      BY <2>1
  <1> QED
    BY <1>2, <1>3

\* What a stretch of ticks is made of.
LEMMA BetweenFacts ==
    ASSUME NEW a \in Nat, NEW b \in Nat, a <= b
    PROVE  /\ Between(a, b) \in Seq(Nat) /\ Len(Between(a, b)) = b - a
           /\ \A i \in 1..(b - a) : Between(a, b)[i] = a + i
           /\ Append(Between(a, b), b + 1) = Between(a, b + 1)
           /\ Between(a, a) = <<>>
  <1> DEFINE s == Between(a, b)
  <1>1. b - a \in Nat
    OBVIOUS
  <1>2. s \in Seq(Nat) /\ Len(s) = b - a /\ \A i \in 1..(b - a) : s[i] = a + i
    BY <1>1 DEF Between
  <1> HIDE DEF s
  <1>3. Append(s, b + 1) = Between(a, b + 1)
    <2> DEFINE r == Append(s, b + 1)
    <2>1. r \in Seq(Nat) /\ Len(r) = (b - a) + 1
      BY <1>1, <1>2
    <2>2. ASSUME NEW i \in 1..((b - a) + 1) PROVE r[i] = a + i
      <3>1. CASE i \in 1..(b - a)
        BY <3>1, <1>2
      <3>2. CASE i = (b - a) + 1
        <4>1. r[i] = b + 1
          BY <3>2, <1>2
        <4>2. b + 1 = a + ((b - a) + 1)
          OBVIOUS
        <4> QED
          BY <4>1, <4>2, <3>2
      <3>3. i \in 1..(b - a) \/ i = (b - a) + 1
        BY <1>1
      <3> QED
        BY <3>1, <3>2, <3>3
    <2>3. (b - a) + 1 = (b + 1) - a
      OBVIOUS
    <2> HIDE DEF r
    <2>4. r = [i \in 1..((b - a) + 1) |-> r[i]]
      BY <2>1
    <2>5. r = [i \in 1..((b - a) + 1) |-> a + i]
      BY <2>2, <2>4
    <2> QED
      BY <2>3, <2>5 DEF Between, r
  <1>4. Between(a, a) = <<>>
    <2>1. 1..(a - a) = {}
      OBVIOUS
    <2> QED
      BY <2>1 DEF Between
  <1> QED
    BY <1>2, <1>3, <1>4 DEF s

\* A stretch of ticks cut in two.
LEMMA CutFacts ==
    ASSUME NEW a \in Nat, NEW m \in Nat, NEW b \in Nat, a <= m, m <= b
    PROVE  /\ SubSeq(Between(a, b), 1, m - a) = Between(a, m)
           /\ SubSeq(Between(a, b), (m - a) + 1, b - a) = Between(m, b)
  <1> DEFINE s == Between(a, b)
  <1>1. b - a \in Nat /\ m - a \in Nat /\ b - m \in Nat
    OBVIOUS
  <1>2. s \in Seq(Nat) /\ Len(s) = b - a /\ \A i \in 1..(b - a) : s[i] = a + i
    BY <1>1 DEF Between
  <1> HIDE DEF s
  <1>3. SubSeq(s, 1, m - a) = Between(a, m)
    <2>1. SubSeq(s, 1, m - a) = [i \in 1..(m - a) |-> s[i]]
      BY <1>1, <1>2
    <2>2. \A i \in 1..(m - a) : s[i] = a + i
      BY <1>1, <1>2
    <2> QED
      BY <2>1, <2>2 DEF Between
  <1>4. SubSeq(s, (m - a) + 1, b - a) = Between(m, b)
    <2>1. SubSeq(s, (m - a) + 1, b - a) = [i \in 1..(b - m) |-> s[(m - a) + i]]
      BY <1>1, <1>2
    <2>2. ASSUME NEW i \in 1..(b - m) PROVE s[(m - a) + i] = m + i
      <3>1. (m - a) + i \in 1..(b - a) /\ a + ((m - a) + i) = m + i
        BY <1>1
      <3> QED
        BY <3>1, <1>2
    <2> QED
      BY <2>1, <2>2 DEF Between
  <1> QED
    BY <1>3, <1>4 DEF s

\* A step that leaves the log and the admitted ticks alone leaves the waiting
\* ones alone, and a tick that is admitted joins their end.
LEMMA WaitingSteady ==
    ASSUME IInv, IInv', UNCHANGED <<base, log>>, NEW w \in Nat, Split(w)
    PROVE  Waiting' = Between(w, Newest')
  <1>1. PICK v \in Nat : Split(v)'
    BY LocatedNext DEF LocatedAt
  <1>2. base \in Nat
    BY ShapeFacts
  <1>3. /\ base <= w /\ w <= MaxTick
        /\ \A t \in Ticks : t > base => (t \in Range(log) <=> t <= w)
    <2>1. w <= Newest /\ Newest <= MaxTick /\ Newest \in Nat /\ base <= w /\ WrittenTo(w)
      BY DEF Split
    <2> QED
      BY <2>1, HistoryAssumption DEF WrittenTo
  <1>4. /\ base <= v /\ v <= MaxTick
        /\ \A t \in Ticks : t > base => (t \in Range(log) <=> t <= v)
    <2>1. v <= Newest' /\ Newest' <= MaxTick /\ Newest' \in Nat /\ base' <= v /\ WrittenTo(v)'
      BY <1>1 DEF Split
    <2> QED
      BY <2>1, HistoryAssumption DEF WrittenTo
  <1>5. w = v
    BY <1>2, <1>3, <1>4, OnePlace
  <1> QED
    BY <1>1, <1>5 DEF Split

\* A step of the writer is a step of HistoryLog or leaves it alone.
LEMMA Simulation ==
    ASSUME IInv, IInv', [Next]_vars
    PROVE  \/ \E t \in Ticks : Exact!Accept(t)
           \/ \E n \in 1..Len(Waiting) : Exact!Commit(n)
           \/ Exact!Restart
           \/ UNCHANGED <<log, Waiting, epoch>>
  <1>1. TypeFacts
    BY TypeOKFacts DEF IInv
  <1> USE DEF TypeFacts
  <1>2. PICK w \in Reported..(Reported + Len(held)) : WrittenTo(w)
    BY DEF IInv, Safe, ILog
  <1>3. Split(w)
    BY <1>2, SplitFacts
  <1>4. /\ w \in Nat /\ base <= w /\ w <= Newest /\ Newest \in Nat /\ Newest <= MaxTick
        /\ Waiting = Between(w, Newest)
    BY <1>3 DEF Split
  <1>5. /\ Waiting \in Seq(Nat) /\ Len(Waiting) = Newest - w
        /\ \A i \in 1..(Newest - w) : Waiting[i] = w + i
    BY <1>4, BetweenFacts
  <1>6. ASSUME UNCHANGED <<base, accepted, log, epoch>> PROVE UNCHANGED <<log, Waiting, epoch>>
    <2>1. Waiting' = Between(w, Newest')
      BY <1>3, <1>4, <1>6, WaitingSteady
    <2>2. Newest' = Newest
      BY <1>6 DEF Newest
    <2> QED
      BY <2>1, <2>2, <1>4, <1>6
  <1>7. ASSUME NEW t \in Ticks, EnqueueTelemetryTick(t) PROVE Exact!Accept(t)
    <2>1. t = Newest + 1 /\ Newest' = t /\ UNCHANGED <<base, log, epoch>>
      BY <1>1, <1>7 DEF EnqueueTelemetryTick, Newest
    <2>2. Waiting' = Append(Waiting, t)
      <3>1. Waiting' = Between(w, Newest + 1)
        BY <2>1, <1>3, <1>4, WaitingSteady
      <3>2. Append(Between(w, Newest), Newest + 1) = Between(w, Newest + 1)
        BY <1>4, BetweenFacts
      <3> QED
        BY <3>1, <3>2, <2>1, <1>4
    <2>3. \A i \in 1..Len(log) : log[i] # t
      <3>1. \A i \in 1..Len(log) : log[i] \in Nat /\ log[i] <= w
        BY <1>2, LogBound, TicksFacts
      <3> QED
        BY <3>1, <2>1, <1>4
    <2>4. \A i \in 1..Len(Waiting) : Waiting[i] # t
      BY <2>1, <1>4, <1>5
    <2> QED
      BY <2>1, <2>2, <2>3, <2>4 DEF Exact!Accept, Waiting
  <1>8. ASSUME NEW err \in {"ok", "unknown", "interrupted", "failed"}, RecordHistoryBatches(err)
        PROVE  (\E n \in 1..Len(Waiting) : Exact!Commit(n)) \/ UNCHANGED <<log, Waiting, epoch>>
    <2>1. UNCHANGED <<status, held, queue, measuring, ackSeq, epoch>>
      BY <1>8 DEF RecordHistoryBatches
    <2>2. Reported' = Reported /\ Newest' = Newest
      BY <2>1 DEF Reported, Newest
    <2>3. PICK n \in 1..Len(held), v \in Nat :
               /\ v = IF Reported + n > w THEN Reported + n ELSE w
               /\ UNCHANGED disk \/ Wrote(w, v, n)
      BY <1>2, <1>8, RecordFacts
    <2>4. CASE UNCHANGED disk
      BY <2>1, <2>4, <1>6
    <2>5. CASE Wrote(w, v, n)
      <3>1. v \in Reported'..(Reported' + Len(held')) /\ WrittenTo(v)'
        BY <1>2, <2>1, <2>3, <2>5, WroteFacts
      <3>2. PICK u \in Nat : Split(u)'
        BY LocatedNext DEF LocatedAt
      <3>3. u = v /\ v <= Newest
        <4>1. /\ u \in Nat /\ base <= u /\ u <= Newest /\ WrittenTo(u)'
          BY <3>2, <2>1, <2>2 DEF Split
        <4>2. v >= base /\ v <= Newest
          <5>1. Reported \in Nat /\ base <= Reported /\ Reported <= v /\ v <= Reported + Len(held)
            BY <3>1, <2>1, <2>2, <1>1 DEF Reported
          <5>2. Reported + Len(held) <= Newest
            <6>1. pending = Len(held) + Len(queue) /\ accepted = committed + pending
              BY DEF IInv, Safe, IOpen
            <6> QED
              BY <6>1, <1>1 DEF Reported, Newest
          <5> QED
            BY <5>1, <5>2, <1>1, <1>4
        <4>3. \A t \in Ticks : t > base => (t <= u <=> t <= v)
          BY <3>1, <4>1, <2>1 DEF WrittenTo
        <4>4. u <= MaxTick /\ v <= MaxTick
          BY <4>1, <4>2, <1>1, <1>4
        <4> QED
          BY <4>1, <4>2, <4>3, <4>4, <1>1, OnePlace
      <3>4. Waiting' = Between(v, Newest)
        BY <3>2, <3>3, <2>2 DEF Split
      <3>5. w <= v /\ log' = log \o Between(w, v)
        BY <2>3, <2>5, <1>1, <1>4 DEF Wrote, Reported
      <3>6. /\ SubSeq(Waiting, 1, v - w) = Between(w, v)
            /\ SubSeq(Waiting, (v - w) + 1, Len(Waiting)) = Between(v, Newest)
        <4>1. w \in Nat /\ v \in Nat /\ Newest \in Nat /\ w <= v /\ v <= Newest
          BY <3>3, <3>5, <1>4
        <4>2. /\ SubSeq(Between(w, Newest), 1, v - w) = Between(w, v)
              /\ SubSeq(Between(w, Newest), (v - w) + 1, Newest - w) = Between(v, Newest)
          BY <4>1, CutFacts
        <4> QED
          BY <4>2, <1>4, <1>5
      <3>7. CASE v = w
        <4>1. log' = log \o <<>>
          BY <3>5, <3>7, <1>4, BetweenFacts
        <4>2. log \o <<>> = log
          BY <1>1
        <4> QED
          BY <4>1, <4>2, <3>4, <3>7, <1>4, <2>1
      <3>8. CASE v # w
        <4>1. v - w \in 1..Len(Waiting)
          BY <3>3, <3>5, <3>8, <1>4, <1>5
        <4>2. Exact!Commit(v - w)
          BY <3>4, <3>5, <3>6, <2>1 DEF Exact!Commit, Waiting
        <4> QED
          BY <4>1, <4>2
      <3> QED
        BY <3>7, <3>8
    <2> QED
      BY <2>3, <2>4, <2>5
  <1>9. ASSUME Restart PROVE Exact!Restart
    <2>1. /\ epoch' = epoch + 1 /\ log' = log /\ base' = Newest /\ accepted' = 0
      BY <1>9 DEF Restart
    <2>2. PICK u \in Nat : Split(u)'
      BY LocatedNext DEF LocatedAt
    <2>3. Newest' = Newest /\ base' = Newest
      BY <2>1, <1>4 DEF Newest
    <2>4. u = Newest /\ Waiting' = Between(u, Newest)
      BY <2>2, <2>3, <1>4 DEF Split
    <2>5. Waiting' = <<>>
      <3>1. Newest \in Nat /\ Newest <= Newest
        BY <1>4
      <3>2. Between(Newest, Newest) = <<>>
        BY <3>1, BetweenFacts
      <3> QED
        BY <3>2, <2>4
    <2> QED
      BY <2>1, <2>5 DEF Exact!Restart, Waiting
  <1>10. CASE \E t \in Ticks : EnqueueTelemetryTick(t)
    BY <1>7, <1>10
  <1>11. CASE \E err \in {"ok", "unknown", "interrupted", "failed"} : RecordHistoryBatches(err)
    BY <1>8, <1>11
  <1>12. CASE Restart
    BY <1>9, <1>12
  <1>13. CASE \E c \in {Time[t] : t \in Ticks} : ReserveAggregateCutoff(c)
    <2>1. UNCHANGED <<base, accepted, log, epoch>>
      BY <1>13 DEF ReserveAggregateCutoff
    <2> QED
      BY <2>1, <1>6
  <1>14. CASE Receive \/ Wait \/ CommitDue \/ FlushToken \/ TimerFires \/ QueueClosed \/ ContextDone
                \/ Begin \/ Settled \/ Unsettled \/ RetryTimer \/ IntervalElapses
    <2>1. UNCHANGED <<base, accepted, log, epoch>>
      BY <1>14 DEF Receive, Wait, CommitDue, FlushToken, TimerFires, QueueClosed, ContextDone, Return,
                   Begin, Settled, Unsettled, RetryTimer, IntervalElapses, EnterCommitHeld
    <2> QED
      BY <2>1, <1>6
  <1>15. CASE \/ \E f \in Flushers : FlushHistory(f) \/ FlushAsks(f) \/ FlushReturns(f) \/ FlushGivesUp(f)
              \/ StopAdmission \/ CloseAsks \/ CloseBudget \/ Closed
    <2>1. UNCHANGED <<base, accepted, log, epoch>>
      BY <1>15 DEF FlushHistory, FlushAsks, FlushReturns, FlushGivesUp, StopAdmission, CloseAsks,
                   CloseBudget, Closed
    <2> QED
      BY <2>1, <1>6
  <1>16. CASE UNCHANGED vars
    <2>1. UNCHANGED <<base, accepted, log, epoch>>
      BY <1>16 DEF vars
    <2> QED
      BY <2>1, <1>6
  <1> QED
    BY <1>10, <1>11, <1>12, <1>13, <1>14, <1>15, <1>16 DEF Next, Run, Callers, Outcomes

(***************************************************************************)
(* The writer implements HistoryLog: an accepted tick reaches the log      *)
(* exactly once and in the order of admission, although a commit may be    *)
(* halved, fail, or be durable and reported as interrupted, and only a     *)
(* restart loses a tick.                                                   *)
(***************************************************************************)
THEOREM ImplementsLog == Spec => ExactlyOnce
  <1>1. Init => Exact!Init
    <2> SUFFICES ASSUME Init PROVE Exact!Init
      OBVIOUS
    <2>1. held = <<>> /\ queue = <<>> /\ log = <<>> /\ epoch = 0 /\ base = 0 /\ accepted = 0
      BY DEF Init, Fresh
    <2>2. IInv
      BY InitIInv
    <2>3. PICK w \in Nat : Split(w)
      BY <2>2, Located DEF LocatedAt
    <2>4. w = 0 /\ Waiting = Between(0, 0)
      BY <2>1, <2>3 DEF Split, Newest
    <2>5. Waiting = <<>>
      BY <2>4, BetweenFacts
    <2> QED
      BY <2>1, <2>5 DEF Exact!Init, Waiting
  <1>2. IInv /\ IInv' /\ [Next]_vars => [Exact!Next]_(Exact!logVars)
    <2> SUFFICES ASSUME IInv, IInv', [Next]_vars PROVE [Exact!Next]_(Exact!logVars)
      OBVIOUS
    <2> QED
      BY Simulation DEF Exact!Next, Exact!logVars, Waiting
  <1> QED
    BY <1>1, <1>2, Invariance, PTL DEF Spec, ExactlyOnce, Exact!Spec

=============================================================================
