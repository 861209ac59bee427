----------------------------- MODULE MapProofs -----------------------------
(***************************************************************************)
(* Proofs about the two components that keep a map in memory.              *)
(*                                                                         *)
(* The example service, for any number of threads, ids, slots and pages:   *)
(* the map and the list of FooDao hold what has been put, and a response   *)
(* to a List that is encoded without the lock is a run of entries.  Links  *)
(* are followed by recursive functions (WalkTo of LinkedList, FlattenSeq), *)
(* about which the proofs argue by induction up to a bound.                *)
(*                                                                         *)
(* Mon's object service map, for init files of any size and any number of  *)
(* crashes: what cmmFillBSets places and Mon serves is whole, the two      *)
(* indexes agree, and the bsets are dealt out evenly.                      *)
(***************************************************************************)
EXTENDS Foo, ClusterMapMon, FunctionTheorems, FiniteSetTheorems, SequenceTheorems,
        WellFoundedInduction, TLAPS

-----------------------------------------------------------------------------
(* Induction.  The theorems of the library that have no operator for a parameter are enough: *)
(* a set of numbers has a least one because a smaller number has a smaller interval.          *)

\* Among any numbers there is a least one.
LEMMA Least ==
  ASSUME NEW T \in SUBSET Nat, T # {}
  PROVE  \E n \in T : \A m \in T : n <= m
<1> DEFINE X == {0..n : n \in T}
<1>1. X \subseteq FiniteSubsetsOf(Nat)
  <2>1. \A n \in T : IsFiniteSet(0..n) /\ 0..n \subseteq Nat
    BY FS_Interval
  <2>2. QED BY <2>1 DEF FiniteSubsetsOf
<1>2. X # {}
  OBVIOUS
<1>3. IsWellFoundedOn(StrictSubsetOrdering(Nat), FiniteSubsetsOf(Nat))
  BY FS_StrictSubsetOrderingWellFounded
<1>4. \E x \in X : \A y \in X : ~(<<y, x>> \in StrictSubsetOrdering(Nat))
  <2> HIDE DEF X
  <2>1. QED BY <1>1, <1>2, <1>3, WFMin
<1>5. PICK n \in T : \A y \in X : ~(<<y, 0..n>> \in StrictSubsetOrdering(Nat))
  BY <1>4
<1>6. ASSUME NEW m \in T, ~(n <= m) PROVE FALSE
  <2>1. 0..m \subseteq 0..n /\ 0..m # 0..n /\ 0..m \in SUBSET Nat /\ 0..n \in SUBSET Nat
    <3>1. n \in 0..n /\ n \notin 0..m /\ m < n
      BY <1>6
    <3>2. QED BY <3>1
  <2>2. <<0..m, 0..n>> \in StrictSubsetOrdering(Nat)
    BY <2>1 DEF StrictSubsetOrdering
  <2>3. QED BY <1>5, <2>2
<1>7. QED BY <1>6

\* Induction up to a bound.
LEMMA UpTo ==
  ASSUME NEW b \in Nat, NEW S, 0 \in S, \A n \in 0..b : n < b /\ n \in S => n + 1 \in S
  PROVE  \A n \in 0..b : n \in S
<1> DEFINE T == {n \in 0..b : n \notin S}
<1>1. SUFFICES ASSUME T # {} PROVE FALSE
  OBVIOUS
<1>2. PICK n \in T : \A m \in T : n <= m
  <2>1. T \in SUBSET Nat
    OBVIOUS
  <2> HIDE DEF T
  <2>2. QED BY <1>1, <2>1, Least
<1>3. n \in 0..b /\ n \notin S /\ n # 0
  BY <1>2
<1>4. n - 1 \in 0..b /\ n - 1 < b /\ n - 1 \notin T /\ n - 1 + 1 = n
  BY <1>2, <1>3
<1>5. QED BY <1>3, <1>4

-----------------------------------------------------------------------------
(* Joining sequences *)

\* What the recursive function of FlattenSeq satisfies.
Joins(f, ss) == \A k \in 1..Len(ss) : f[k] = IF k = 1 THEN ss[k] ELSE f[k - 1] \o ss[k]

\* There is such a function.
LEMMA JoinsExist ==
  ASSUME NEW S, NEW ss \in Seq(Seq(S))
  PROVE  \E f \in [1..Len(ss) -> Seq(S)] : Joins(f, ss)
<1> DEFINE P == {n \in 0..Len(ss) : \E f \in [1..n -> Seq(S)] :
                    \A k \in 1..n : f[k] = IF k = 1 THEN ss[k] ELSE f[k - 1] \o ss[k]}
<1>1. Len(ss) \in Nat /\ \A k \in 1..Len(ss) : ss[k] \in Seq(S)
  BY ElementOfSeq, LenProperties
<1>2. 0 \in P
  <2> DEFINE f == [k \in 1..0 |-> <<>>]
  <2>1. \A k \in 1..0 : FALSE
    OBVIOUS
  <2>2. f \in [1..0 -> Seq(S)]
    BY <2>1
  <2>3. \A k \in 1..0 : f[k] = IF k = 1 THEN ss[k] ELSE f[k - 1] \o ss[k]
    BY <2>1
  <2>4. 0 \in 0..Len(ss)
    BY <1>1
  <2> HIDE DEF f
  <2>5. QED BY <2>2, <2>3, <2>4
<1>3. ASSUME NEW n \in 0..Len(ss), n < Len(ss), n \in P PROVE n + 1 \in P
  <2>1. PICK f \in [1..n -> Seq(S)] :
           \A k \in 1..n : f[k] = IF k = 1 THEN ss[k] ELSE f[k - 1] \o ss[k]
    BY <1>3
  <2> DEFINE last == IF n = 0 THEN ss[1] ELSE f[n] \o ss[n + 1]
             g == [k \in 1..(n + 1) |-> IF k <= n THEN f[k] ELSE last]
  <2>2. last \in Seq(S)
    <3>1. CASE n = 0
      BY <1>1, <1>3, <3>1
    <3>2. CASE n # 0
      <4>1. f[n] \in Seq(S) /\ ss[n + 1] \in Seq(S)
        BY <1>1, <1>3, <3>2
      <4>2. QED BY <3>2, <4>1
    <3>3. QED BY <3>1, <3>2
  <2>3. g \in [1..(n + 1) -> Seq(S)]
    BY <2>2
  <2>4. ASSUME NEW k \in 1..(n + 1) PROVE g[k] = IF k = 1 THEN ss[k] ELSE g[k - 1] \o ss[k]
    <3>1. CASE k <= n
      <4>1. k \in 1..n /\ g[k] = f[k]
        BY <3>1
      <4>2. k # 1 => k - 1 \in 1..n /\ g[k - 1] = f[k - 1]
        BY <3>1
      <4>3. QED BY <2>1, <4>1, <4>2
    <3>2. CASE k = n + 1
      <4>1. g[k] = last
        BY <3>2
      <4>2. CASE n = 0
        BY <3>2, <4>1, <4>2
      <4>3. CASE n # 0
        <5>1. k # 1 /\ k - 1 = n /\ n \in 1..n /\ n \in 1..(n + 1)
          BY <3>2, <4>3
        <5>2. g[n] = f[n]
          BY <5>1
        <5>3. QED BY <3>2, <4>1, <4>3, <5>1, <5>2
      <4>4. QED BY <4>2, <4>3
    <3>3. QED BY <3>1, <3>2
  <2>5. n + 1 \in 0..Len(ss)
    BY <1>1, <1>3
  <2> HIDE DEF g
  <2>6. QED BY <2>3, <2>4, <2>5
<1> HIDE DEF P
<1>4. Len(ss) \in 0..Len(ss)
  BY <1>1
<1>5. Len(ss) \in P
  BY ONLY <1>1, <1>2, <1>3, <1>4, UpTo
<1>6. QED BY <1>5 DEF P, Joins

\* FlattenSeq is the last value of any such function.
LEMMA FlattenIs ==
  ASSUME NEW S, NEW ss \in Seq(Seq(S)), Len(ss) # 0,
         NEW f \in [1..Len(ss) -> Seq(S)], Joins(f, ss)
  PROVE  FlattenSeq(ss) = f[Len(ss)]
<1> DEFINE flatten[k \in 1..Len(ss)] == IF k = 1 THEN ss[k] ELSE flatten[k - 1] \o ss[k]
<1>1. Len(ss) \in Nat
  BY LenProperties
<1>2. flatten = CHOOSE g : g = [k \in 1..Len(ss) |-> IF k = 1 THEN ss[k] ELSE g[k - 1] \o ss[k]]
  BY DEF flatten
<1>3. FlattenSeq(ss) = flatten[Len(ss)]
  BY DEF FlattenSeq
<1> HIDE DEF flatten
<1>4. f = [k \in 1..Len(ss) |-> IF k = 1 THEN ss[k] ELSE f[k - 1] \o ss[k]]
  BY DEF Joins
<1>5. flatten = [k \in 1..Len(ss) |-> IF k = 1 THEN ss[k] ELSE flatten[k - 1] \o ss[k]]
  BY <1>2, <1>4
<1>6. \A k \in 1..Len(ss) : flatten[k] = IF k = 1 THEN ss[k] ELSE flatten[k - 1] \o ss[k]
  BY <1>5
<1> DEFINE P == {n \in 0..Len(ss) : n # 0 => flatten[n] = f[n]}
<1>7. 0 \in P
  BY <1>1
<1>8. ASSUME NEW n \in 0..Len(ss), n < Len(ss), n \in P PROVE n + 1 \in P
  <2>1. n + 1 \in 1..Len(ss) /\ n + 1 - 1 = n /\ (n + 1 = 1 <=> n = 0)
    BY <1>1, <1>8
  <2>2. flatten[n + 1] = IF n = 0 THEN ss[n + 1] ELSE flatten[n] \o ss[n + 1]
    BY <1>6, <2>1
  <2>3. f[n + 1] = IF n = 0 THEN ss[n + 1] ELSE f[n] \o ss[n + 1]
    <3> DEFINE l == n + 1
    <3>1. l \in 1..Len(ss) /\ l - 1 = n /\ (l = 1 <=> n = 0)
      BY <2>1
    <3> HIDE DEF l
    <3>2. f[l] = IF l = 1 THEN ss[l] ELSE f[l - 1] \o ss[l]
      BY <3>1 DEF Joins
    <3>3. f[l] = IF n = 0 THEN ss[l] ELSE f[n] \o ss[l]
      BY <3>1, <3>2
    <3>4. QED BY <3>3 DEF l
  <2>4. flatten[n + 1] = f[n + 1]
    BY <1>8, <2>2, <2>3
  <2>5. QED BY <1>1, <2>1, <2>4
<1> HIDE DEF P
<1>9. Len(ss) \in 0..Len(ss)
  BY <1>1
<1>10. Len(ss) \in P
  BY ONLY <1>1, <1>7, <1>8, <1>9, UpTo
<1>11. QED BY <1>3, <1>10 DEF P

\* Nothing joined is nothing; one sequence more is joined at the end.
LEMMA FlattenEmpty == FlattenSeq(<<>>) = <<>>
  BY DEF FlattenSeq

\* Joining one sequence more puts it behind what has been joined.
LEMMA FlattenAppend ==
  ASSUME NEW S, NEW ss \in Seq(Seq(S)), NEW t \in Seq(S)
  PROVE  FlattenSeq(ss) \in Seq(S) /\ FlattenSeq(Append(ss, t)) = FlattenSeq(ss) \o t
<1> DEFINE n == Len(ss)
           tt == Append(ss, t)
<1>1. n \in Nat /\ \A k \in 1..n : ss[k] \in Seq(S)
  BY ElementOfSeq, LenProperties
<1>2. /\ tt \in Seq(Seq(S)) /\ Len(tt) = n + 1 /\ tt[n + 1] = t
      /\ \A k \in 1..n : tt[k] = ss[k]
  BY AppendProperties
<1>3. PICK f \in [1..(n + 1) -> Seq(S)] : Joins(f, tt)
  BY <1>2, JoinsExist
<1>4. FlattenSeq(tt) = f[n + 1]
  <2>1. f \in [1..Len(tt) -> Seq(S)] /\ Len(tt) # 0
    BY <1>1, <1>2
  <2> HIDE DEF tt
  <2>2. FlattenSeq(tt) = f[Len(tt)]
    BY <1>2, <1>3, <2>1, FlattenIs
  <2>3. QED BY <1>2, <2>2
<1>5. \A k \in 1..(n + 1) : f[k] = IF k = 1 THEN tt[k] ELSE f[k - 1] \o tt[k]
  BY <1>2, <1>3 DEF Joins
<1>6. CASE n = 0
  <2>1. ss = <<>>
    BY <1>6, EmptySeq
  <2>2. FlattenSeq(ss) = <<>>
    BY <2>1, FlattenEmpty
  <2>3. f[1] = t
    BY <1>2, <1>5, <1>6
  <2>4. <<>> \o t = t
    BY ConcatEmptySeq
  <2>5. QED BY <1>4, <1>6, <2>2, <2>3, <2>4
<1>7. CASE n # 0
  <2> DEFINE g == [k \in 1..n |-> f[k]]
  <2>1. g \in [1..n -> Seq(S)] /\ \A k \in 1..n : g[k] = f[k]
    BY <1>1
  <2>2. Joins(g, ss)
    <3>1. ASSUME NEW k \in 1..n PROVE g[k] = IF k = 1 THEN ss[k] ELSE g[k - 1] \o ss[k]
      <4>1. k \in 1..(n + 1) /\ (k # 1 => k - 1 \in 1..n)
        BY <1>1
      <4>2. f[k] = IF k = 1 THEN ss[k] ELSE f[k - 1] \o ss[k]
        BY <1>2, <1>5, <4>1
      <4>3. QED BY <2>1, <4>1, <4>2
    <3>2. QED BY <3>1 DEF Joins
  <2> HIDE DEF g
  <2>3. FlattenSeq(ss) = g[n]
    BY <1>7, <2>1, <2>2, FlattenIs
  <2>4. n \in 1..n /\ n + 1 \in 1..(n + 1) /\ n + 1 # 1 /\ n + 1 - 1 = n
    BY <1>1, <1>7
  <2>5. f[n + 1] = f[n] \o t
    <3> DEFINE l == n + 1
    <3>1. l \in 1..(n + 1) /\ l # 1 /\ l - 1 = n /\ tt[l] = t
      BY <1>2, <2>4
    <3> HIDE DEF l, n, tt
    <3>2. f[l] = IF l = 1 THEN tt[l] ELSE f[l - 1] \o tt[l]
      BY <1>5, <3>1
    <3>3. f[l] = f[n] \o t
      BY <3>1, <3>2
    <3>4. QED BY <3>3 DEF l
  <2>6. QED BY <1>4, <2>1, <2>3, <2>4, <2>5
<1>8. QED BY <1>6, <1>7

-----------------------------------------------------------------------------
(* Walks *)

\* One step of a walk; f is a walk of n steps.
Onward(m, head, e) == IF e \in {head, Null} THEN e ELSE m.next[e]
IsWalk(m, head, f, n) ==
    f = [k \in 0..n |-> IF k = 0 THEN m.next[head]
                        ELSE IF f[k - 1] \in {head, Null} THEN f[k - 1]
                        ELSE m.next[f[k - 1]]]

\* What that says, step by step.
LEMMA WalkMeans ==
  ASSUME NEW m, NEW head, NEW n \in Nat, NEW f, IsWalk(m, head, f, n)
  PROVE  /\ f[0] = m.next[head]
         /\ \A k \in 0..n : k < n => f[k + 1] = Onward(m, head, f[k])
<1>1. f[0] = m.next[head]
  BY DEF IsWalk
<1>2. ASSUME NEW k \in 0..n, k < n PROVE f[k + 1] = Onward(m, head, f[k])
  <2> DEFINE l == k + 1
  <2>1. l \in 0..n /\ l # 0 /\ l - 1 = k
    BY <1>2
  <2> HIDE DEF l
  <2>2. f[l] = IF l = 0 THEN m.next[head]
               ELSE IF f[l - 1] \in {head, Null} THEN f[l - 1] ELSE m.next[f[l - 1]]
    BY <2>1 DEF IsWalk
  <2>3. f[l] = Onward(m, head, f[k])
    BY <2>1, <2>2 DEF Onward
  <2>4. QED BY <2>3 DEF l
<1>3. QED BY <1>1, <1>2

\* A function that goes on as a walk does is one.
LEMMA WalkFrom ==
  ASSUME NEW m, NEW head, NEW n \in Nat, NEW S, NEW f \in [0..n -> S], f[0] = m.next[head],
         \A k \in 0..n : k < n => f[k + 1] = Onward(m, head, f[k])
  PROVE  IsWalk(m, head, f, n)
<1>1. ASSUME NEW k \in 0..n
      PROVE  f[k] = IF k = 0 THEN m.next[head]
                    ELSE IF f[k - 1] \in {head, Null} THEN f[k - 1] ELSE m.next[f[k - 1]]
  <2>1. CASE k = 0
    BY <2>1
  <2>2. CASE k # 0
    <3> DEFINE l == k - 1
    <3>1. l \in 0..n /\ l < n /\ l + 1 = k
      BY <2>2
    <3> HIDE DEF l
    <3>2. f[l + 1] = Onward(m, head, f[l])
      BY <3>1
    <3>3. f[k] = Onward(m, head, f[l])
      BY <3>1, <3>2
    <3>4. f[k] = IF f[l] \in {head, Null} THEN f[l] ELSE m.next[f[l]]
      BY <3>3 DEF Onward
    <3>5. QED BY <2>2, <3>4 DEF l
  <2>3. QED BY <2>1, <2>2
<1>2. QED BY <1>1 DEF IsWalk

\* Two walks of the same list meet the same elements.
LEMMA WalksAgree ==
  ASSUME NEW m, NEW head, NEW n \in Nat, NEW f, IsWalk(m, head, f, n),
         NEW p \in Nat, n <= p, NEW g, IsWalk(m, head, g, p)
  PROVE  f[n] = g[n]
<1> DEFINE P == {k \in 0..n : f[k] = g[k]}
<1>f. f[0] = m.next[head] /\ \A k \in 0..n : k < n => f[k + 1] = Onward(m, head, f[k])
  BY WalkMeans
<1>g. g[0] = m.next[head] /\ \A k \in 0..p : k < p => g[k + 1] = Onward(m, head, g[k])
  BY WalkMeans
<1>1. 0 \in P
  BY <1>f, <1>g
<1>2. ASSUME NEW k \in 0..n, k < n, k \in P PROVE k + 1 \in P
  <2>1. k \in 0..p /\ k < p /\ k + 1 \in 0..n
    BY <1>2
  <2>2. f[k + 1] = Onward(m, head, f[k])
    BY <1>f, <1>2
  <2>3. g[k + 1] = Onward(m, head, g[k])
    BY <1>g, <2>1
  <2>4. QED BY <1>2, <2>1, <2>2, <2>3
<1>3. n \in 0..n
  OBVIOUS
<1> HIDE DEF P
<1>4. n \in P
  BY ONLY <1>1, <1>2, <1>3, UpTo
<1>5. QED BY <1>4 DEF P

\* From every head there is a walk of every length.
LEMMA WalkExists ==
  ASSUME NEW m, NEW head, NEW n \in Nat
  PROVE  \E f : IsWalk(m, head, f, n)
<1> DEFINE P == {k \in 0..n : \E S : \E f \in [0..k -> S] : f[0] = m.next[head] /\
                    \A l \in 0..k : l < k => f[l + 1] = Onward(m, head, f[l])}
<1>1. 0 \in P
  <2> DEFINE S == {m.next[head]}
             g == [l \in 0..0 |-> m.next[head]]
  <2>1. g \in [0..0 -> S] /\ g[0] = m.next[head]
    OBVIOUS
  <2>2. 0 \in 0..n /\ \A l \in 0..0 : ~(l < 0)
    OBVIOUS
  <2> HIDE DEF g, S
  <2>3. \E f \in [0..0 -> S] : f[0] = m.next[head] /\
                    \A l \in 0..0 : l < 0 => f[l + 1] = Onward(m, head, f[l])
    BY <2>1, <2>2
  <2>4. QED BY <2>2, <2>3
<1>2. ASSUME NEW k \in 0..n, k < n, k \in P PROVE k + 1 \in P
  <2>1. PICK S : \E f \in [0..k -> S] : f[0] = m.next[head] /\
                    \A l \in 0..k : l < k => f[l + 1] = Onward(m, head, f[l])
    BY <1>2
  <2>2. PICK f \in [0..k -> S] : f[0] = m.next[head] /\
                    \A l \in 0..k : l < k => f[l + 1] = Onward(m, head, f[l])
    BY <2>1
  <2> DEFINE e == Onward(m, head, f[k])
             g == [l \in 0..(k + 1) |-> IF l = k + 1 THEN e ELSE f[l]]
  <2>3. g \in [0..(k + 1) -> S \cup {e}]
    <3> HIDE DEF e
    <3>1. ASSUME NEW l \in 0..(k + 1), l # k + 1 PROVE f[l] \in S
      BY <3>1
    <3>2. QED BY <3>1
  <2>4. /\ \A l \in 0..k : g[l] = f[l]
        /\ g[k + 1] = e
    BY <1>2
  <2> HIDE DEF g
  <2>5. g[0] = m.next[head]
    BY <1>2, <2>2, <2>4
  <2>6. ASSUME NEW l \in 0..(k + 1), l < k + 1 PROVE g[l + 1] = Onward(m, head, g[l])
    <3>1. l \in 0..k /\ g[l] = f[l]
      BY <2>4, <2>6
    <3>2. CASE l = k
      BY <2>4, <3>1, <3>2
    <3>3. CASE l # k
      <4>1. l + 1 \in 0..k /\ l < k
        BY <3>1, <3>3
      <4>2. g[l + 1] = f[l + 1]
        BY <2>4, <4>1
      <4>3. QED BY <2>2, <3>1, <4>1, <4>2
    <3>4. QED BY <3>2, <3>3
  <2>7. k + 1 \in 0..n
    BY <1>2
  <2>8. QED BY <2>3, <2>5, <2>6, <2>7
<1>3. n \in 0..n
  OBVIOUS
<1> HIDE DEF P
<1>4. n \in P
  BY ONLY <1>1, <1>2, <1>3, UpTo
<1>5. PICK S : \E f \in [0..n -> S] : f[0] = m.next[head] /\
                    \A l \in 0..n : l < n => f[l + 1] = Onward(m, head, f[l])
  BY <1>4 DEF P
<1>6. PICK f \in [0..n -> S] : f[0] = m.next[head] /\
                    \A l \in 0..n : l < n => f[l + 1] = Onward(m, head, f[l])
  BY <1>5
<1>7. IsWalk(m, head, f, n)
  BY <1>6, WalkFrom
<1>8. QED BY <1>7

\* So a walk goes on from where it is.
LEMMA WalkIs ==
  ASSUME NEW m, NEW head, NEW n \in Nat, NEW f, IsWalk(m, head, f, n)
  PROVE  WalkTo(m, head, n) = f[n]
<1> DEFINE at[k \in 0..n] == IF k = 0 THEN m.next[head]
                             ELSE IF at[k - 1] \in {head, Null} THEN at[k - 1]
                             ELSE m.next[at[k - 1]]
<1>1. at = CHOOSE g : g = [k \in 0..n |-> IF k = 0 THEN m.next[head]
                             ELSE IF g[k - 1] \in {head, Null} THEN g[k - 1]
                             ELSE m.next[g[k - 1]]]
  BY DEF at
<1>2. WalkTo(m, head, n) = at[n]
  BY DEF WalkTo
<1> HIDE DEF at
<1>3. IsWalk(m, head, at, n)
  BY <1>1 DEF IsWalk
<1>4. QED BY <1>2, <1>3, WalksAgree

\* How WalkTo goes on: the walk of listForEachEntry, turn by turn.
LEMMA WalkStep ==
  ASSUME NEW m, NEW head, NEW n \in Nat
  PROVE  /\ WalkTo(m, head, 0) = m.next[head]
         /\ WalkTo(m, head, n + 1) = Onward(m, head, WalkTo(m, head, n))
<1>1. PICK f : IsWalk(m, head, f, 0)
  BY WalkExists
<1>2. PICK g : IsWalk(m, head, g, n)
  BY WalkExists
<1>3. PICK h : IsWalk(m, head, h, n + 1)
  BY WalkExists
<1>4. WalkTo(m, head, 0) = f[0] /\ WalkTo(m, head, n) = g[n]
  BY <1>1, <1>2, WalkIs
<1>5. WalkTo(m, head, n + 1) = h[n + 1]
  <2> DEFINE l == n + 1
  <2>1. l \in Nat /\ IsWalk(m, head, h, l)
    BY <1>3
  <2> HIDE DEF l
  <2>2. WalkTo(m, head, l) = h[l]
    BY <2>1, WalkIs
  <2>3. QED BY <2>2 DEF l
<1>6. f[0] = m.next[head]
  BY <1>1, WalkMeans
<1>7. h[n + 1] = Onward(m, head, h[n])
  <2> DEFINE b == n + 1
  <2>1. b \in Nat /\ n \in 0..b /\ n < b /\ IsWalk(m, head, h, b)
    BY <1>3
  <2> HIDE DEF b
  <2>2. /\ h[0] = m.next[head]
        /\ \A k \in 0..b : k < b => h[k + 1] = Onward(m, head, h[k])
    BY ONLY <2>1, WalkMeans
  <2>3. QED BY <2>1, <2>2
<1>8. g[n] = h[n]
  <2> DEFINE b == n + 1
  <2>1. b \in Nat /\ n <= b /\ IsWalk(m, head, h, b)
    BY <1>3
  <2> HIDE DEF b
  <2>2. QED BY <1>2, <2>1, WalksAgree
<1>9. QED BY <1>4, <1>5, <1>6, <1>7, <1>8

-----------------------------------------------------------------------------
(* Lists that are linked in both directions *)

\* The k-th element behind a head, or the head itself: before the first and behind the last.
At(head, q, k) == IF k \in 1..Len(q) THEN q[k] ELSE head

\* Linked, with the elements of the list counted from its head.
LEMMA LinkedMeans ==
  ASSUME NEW S, NEW q \in Seq(S), NEW m, NEW head
  PROVE  Linked(m, head, q) <=>
            \A k \in 0..Len(q) : /\ m.next[At(head, q, k)] = At(head, q, k + 1)
                                 /\ m.prev[At(head, q, k + 1)] = At(head, q, k)
<1> DEFINE U == S \cup {head}
           l == Len(q)
           r == <<head>> \o q
           all == r \o <<head>>
<1>1. l \in Nat /\ q \in Seq(U) /\ <<head>> \in Seq(U) /\ Len(<<head>>) = 1 /\ <<head>>[1] = head
  <2>1. q \in Seq(U)
    <3>1. \A k \in 1..Len(q) : q[k] \in U
      BY ElementOfSeq
    <3>2. QED BY <3>1, SeqDef, LenProperties
  <2>2. QED BY <2>1, LenProperties
<1>2. /\ r \in Seq(U) /\ Len(r) = 1 + l
      /\ \A k \in 1..(1 + l) : r[k] = IF k <= 1 THEN <<head>>[k] ELSE q[k - 1]
  <2> DEFINE o == <<head>>
  <2>1. o \in Seq(U) /\ Len(o) = 1 /\ o[1] = head
    BY <1>1
  <2> HIDE DEF o, U
  <2>2. r = o \o q
    BY DEF o
  <2> HIDE DEF r
  <2>3. /\ r \in Seq(U) /\ Len(r) = Len(o) + Len(q)
        /\ \A k \in 1..(Len(o) + Len(q)) : r[k] = IF k <= Len(o) THEN o[k] ELSE q[k - Len(o)]
    BY <1>1, <2>1, <2>2, ConcatProperties
  <2>4. QED BY <2>1, <2>3 DEF o
<1> HIDE DEF r
<1>3. /\ Len(all) = 2 + l
      /\ \A k \in 1..(2 + l) : all[k] = IF k <= 1 + l THEN r[k] ELSE <<head>>[k - (1 + l)]
  <2> DEFINE o == <<head>>
  <2>1. o \in Seq(U) /\ Len(o) = 1 /\ o[1] = head
    BY <1>1
  <2> HIDE DEF o, U
  <2>2. all = r \o o
    BY DEF o
  <2> HIDE DEF all
  <2>3. /\ Len(all) = Len(r) + Len(o)
        /\ \A k \in 1..(Len(r) + Len(o)) : all[k] = IF k <= Len(r) THEN r[k] ELSE o[k - Len(r)]
    BY <1>2, <2>1, <2>2, ConcatProperties
  <2>4. QED BY <1>1, <1>2, <2>1, <2>3 DEF o
<1> HIDE DEF all
<1>4. ASSUME NEW k \in 0..(l + 1) PROVE all[k + 1] = At(head, q, k)
  <2>1. CASE k = 0
    <3>1. 1 \in 1..(2 + l) /\ 1 <= 1 + l /\ 1 \in 1..(1 + l)
      BY <1>1
    <3>2. all[1] = r[1] /\ r[1] = head
      BY <1>1, <1>2, <1>3, <3>1
    <3>3. QED BY <2>1, <3>2 DEF At
  <2>2. CASE k \in 1..l
    <3> DEFINE p == k + 1
    <3>1. p \in 1..(2 + l) /\ p <= 1 + l /\ p \in 1..(1 + l) /\ ~(p <= 1) /\ p - 1 = k
      BY <1>1, <2>2
    <3> HIDE DEF p
    <3>2. all[p] = r[p] /\ r[p] = q[k]
      BY <1>2, <1>3, <3>1
    <3>3. QED BY <2>2, <3>2 DEF At, p
  <2>3. CASE k = l + 1
    <3> DEFINE p == k + 1
    <3>1. p \in 1..(2 + l) /\ ~(p <= 1 + l) /\ p - (1 + l) = 1 /\ k \notin 1..l
      BY <1>1, <2>3
    <3> HIDE DEF p
    <3>2. all[p] = head
      BY <1>1, <1>3, <3>1
    <3>3. QED BY <3>1, <3>2 DEF At, p
  <2>4. QED BY <1>1, <2>1, <2>2, <2>3
<1>5. Linked(m, head, q) <=>
         \A k \in 1..(l + 1) : m.next[all[k]] = all[k + 1] /\ m.prev[all[k + 1]] = all[k]
  BY DEF Linked, all, r
<1> HIDE DEF l
<1>6. ASSUME NEW k \in 0..l
      PROVE  k + 1 \in 1..(l + 1) /\ all[k + 1] = At(head, q, k) /\ all[k + 1 + 1] = At(head, q, k + 1)
  <2>1. k \in 0..(l + 1) /\ k + 1 \in 0..(l + 1) /\ k + 1 \in 1..(l + 1)
    BY <1>1
  <2>2. all[k + 1] = At(head, q, k)
    BY <1>4, <2>1
  <2> DEFINE p == k + 1
  <2>3. all[p + 1] = At(head, q, p)
    <3> HIDE DEF p
    <3>1. p \in 0..(l + 1)
      BY <2>1 DEF p
    <3>2. QED BY <1>4, <3>1
  <2>4. QED BY <2>1, <2>2, <2>3
<1>7. ASSUME Linked(m, head, q), NEW k \in 0..l
      PROVE  m.next[At(head, q, k)] = At(head, q, k + 1) /\ m.prev[At(head, q, k + 1)] = At(head, q, k)
  <2> DEFINE p == k + 1
  <2>1. p \in 1..(l + 1) /\ all[p] = At(head, q, k) /\ all[p + 1] = At(head, q, k + 1)
    BY <1>6
  <2> HIDE DEF p
  <2>2. m.next[all[p]] = all[p + 1] /\ m.prev[all[p + 1]] = all[p]
    BY <1>5, <1>7, <2>1
  <2>3. QED BY <2>1, <2>2
<1>8. ASSUME \A k \in 0..l : /\ m.next[At(head, q, k)] = At(head, q, k + 1)
                             /\ m.prev[At(head, q, k + 1)] = At(head, q, k),
             NEW p \in 1..(l + 1)
      PROVE  m.next[all[p]] = all[p + 1] /\ m.prev[all[p + 1]] = all[p]
  <2> DEFINE k == p - 1
  <2>1. k \in 0..l /\ k + 1 = p
    BY <1>1
  <2> HIDE DEF k
  <2>2. all[p] = At(head, q, k) /\ all[p + 1] = At(head, q, k + 1)
    BY <1>6, <2>1
  <2>3. QED BY <1>8, <2>1, <2>2
<1>9. QED BY <1>5, <1>7, <1>8 DEF l

\* A walk of such a list meets its elements in their order, and stays at the head.
LEMMA Walk ==
  ASSUME NEW S, NEW q \in Seq(S), NEW m, NEW head, head \notin S, Null \notin S, Linked(m, head, q),
         NEW n \in Nat
  PROVE  WalkTo(m, head, n) = IF n < Len(q) THEN q[n + 1] ELSE head
<1> DEFINE l == Len(q)
           P == {k \in 0..n : WalkTo(m, head, k) = IF k < l THEN q[k + 1] ELSE head}
<1>1. l \in Nat /\ \A k \in 1..l : q[k] \in S
  BY ElementOfSeq, LenProperties
<1>2. \A k \in 0..l : m.next[At(head, q, k)] = At(head, q, k + 1)
  BY LinkedMeans
<1> HIDE DEF l
<1>3. 0 \in P
  <2>1. 0 \in 0..l /\ At(head, q, 0) = head
    BY <1>1 DEF At
  <2>2. m.next[head] = At(head, q, 0 + 1)
    BY <1>2, <2>1
  <2>3. At(head, q, 0 + 1) = IF 0 < l THEN q[0 + 1] ELSE head
    BY <1>1 DEF At, l
  <2>4. WalkTo(m, head, 0) = m.next[head]
    BY WalkStep
  <2>5. QED BY <2>2, <2>3, <2>4
<1>4. ASSUME NEW k \in 0..n, k < n, k \in P PROVE k + 1 \in P
  <2>1. k \in Nat /\ k + 1 \in 0..n
    BY <1>4
  <2>2. WalkTo(m, head, k + 1) = Onward(m, head, WalkTo(m, head, k))
    BY <2>1, WalkStep
  <2>3. CASE k < l
    <3> DEFINE p == k + 1
    <3>1. p \in 1..l /\ p \in 0..l /\ q[p] \in S /\ WalkTo(m, head, k) = q[p]
      BY <1>1, <1>4, <2>1, <2>3
    <3>2. At(head, q, p + 1) = IF p < l THEN q[p + 1] ELSE head
      BY <1>1, <3>1 DEF At, l
    <3> HIDE DEF p
    <3>3. At(head, q, p) = q[p]
      BY <3>1 DEF At, l
    <3>4. m.next[q[p]] = At(head, q, p + 1)
      BY <1>2, <3>1, <3>3
    <3>5. q[p] \notin {head, Null}
      BY <3>1
    <3>6. Onward(m, head, q[p]) = At(head, q, p + 1)
      BY <3>4, <3>5 DEF Onward
    <3>7. WalkTo(m, head, p) = IF p < l THEN q[p + 1] ELSE head
      BY <2>2, <3>1, <3>2, <3>6 DEF p
    <3>8. QED BY <2>1, <3>7 DEF p
  <2>4. CASE ~(k < l)
    <3>1. WalkTo(m, head, k) = head /\ ~(k + 1 < l)
      BY <1>1, <1>4, <2>1, <2>4
    <3>2. WalkTo(m, head, k + 1) = head
      BY <2>2, <3>1 DEF Onward
    <3>3. QED BY <2>1, <3>1, <3>2
  <2>5. QED BY <2>3, <2>4
<1>5. n \in 0..n
  OBVIOUS
<1> HIDE DEF P
<1>6. n \in P
  BY ONLY <1>3, <1>4, <1>5, UpTo
<1>7. QED BY <1>6 DEF P, l

\* A list is what the links of its own elements say.
LEMMA LinkedFrame ==
  ASSUME NEW S, NEW q \in Seq(S), NEW m, NEW head, Linked(m, head, q), NEW r,
         \A e \in S \cup {head} : r.next[e] = m.next[e] /\ r.prev[e] = m.prev[e]
  PROVE  Linked(r, head, q)
<1>1. Len(q) \in Nat /\ \A k \in 1..Len(q) : q[k] \in S
  BY ElementOfSeq, LenProperties
<1>2. \A k : At(head, q, k) \in S \cup {head}
  BY <1>1 DEF At
<1>3. \A k \in 0..Len(q) : /\ m.next[At(head, q, k)] = At(head, q, k + 1)
                           /\ m.prev[At(head, q, k + 1)] = At(head, q, k)
  BY LinkedMeans
<1>4. \A k \in 0..Len(q) : /\ r.next[At(head, q, k)] = At(head, q, k + 1)
                           /\ r.prev[At(head, q, k + 1)] = At(head, q, k)
  BY <1>2, <1>3
<1>5. QED BY <1>4, LinkedMeans

-----------------------------------------------------------------------------
(* Links *)

Memory == [next : [Elements -> Elements \cup {Null}], prev : [Elements -> Elements \cup {Null}]]

\* The stores of __listAdd.
LEMMA AttachStores ==
  ASSUME NEW m \in Memory, NEW e \in Elements, NEW p \in Elements, NEW n \in Elements
  PROVE  /\ Attach(m, e, p, n) \in Memory
         /\ \A x \in Elements :
               /\ Attach(m, e, p, n).next[x] = IF x = e THEN n ELSE m.next[x]
               /\ Attach(m, e, p, n).prev[x] = IF x = e THEN p ELSE IF x = n THEN e ELSE m.prev[x]
<1>1. /\ m = [next |-> m.next, prev |-> m.prev]
      /\ m.next \in [Elements -> Elements \cup {Null}] /\ m.prev \in [Elements -> Elements \cup {Null}]
  BY DEF Memory
<1>2. Attach(m, e, p, n) = [next |-> [m.next EXCEPT ![e] = n],
                            prev |-> [[m.prev EXCEPT ![n] = e] EXCEPT ![e] = p]]
  <2> DEFINE u == [m EXCEPT !.prev[n] = e]
             v == [u EXCEPT !.next[e] = n]
             w == [v EXCEPT !.prev[e] = p]
  <2>1. Attach(m, e, p, n) = w
    BY DEF Attach
  <2>2. u = [next |-> m.next, prev |-> [m.prev EXCEPT ![n] = e]]
    BY <1>1
  <2> HIDE DEF u
  <2>3. v = [next |-> [m.next EXCEPT ![e] = n], prev |-> [m.prev EXCEPT ![n] = e]]
    BY <2>2
  <2> HIDE DEF v
  <2>4. QED BY <2>1, <2>3
<1>3. QED BY <1>1, <1>2 DEF Memory

\* The last store of __listAdd: one next changes.
LEMMA PublishStores ==
  ASSUME NEW m \in Memory, NEW e \in Elements, NEW p \in Elements
  PROVE  /\ Publish(m, e, p) \in Memory
         /\ Publish(m, e, p).prev = m.prev
         /\ \A x \in Elements : Publish(m, e, p).next[x] = IF x = p THEN e ELSE m.next[x]
<1>1. /\ m = [next |-> m.next, prev |-> m.prev]
      /\ m.next \in [Elements -> Elements \cup {Null}] /\ m.prev \in [Elements -> Elements \cup {Null}]
  BY DEF Memory
<1>2. Publish(m, e, p) = [next |-> [m.next EXCEPT ![p] = e], prev |-> m.prev]
  BY <1>1 DEF Publish
<1>3. QED BY <1>1, <1>2 DEF Memory

\* listAddTail puts a new element behind the last one and leaves other lists alone.
LEMMA AddTail ==
  ASSUME NEW S \in SUBSET Elements, NEW q \in Seq(S), NEW m \in Memory, NEW head \in Elements \ S,
         NEW e \in Elements \ (S \cup {head}), Linked(m, head, q), IsInjective(q)
  PROVE  /\ ListAddTail(m, e, head) \in Memory
         /\ Linked(ListAddTail(m, e, head), head, Append(q, e))
         /\ \A x \in Elements \ (S \cup {head, e}) :
               /\ ListAddTail(m, e, head).next[x] = m.next[x]
               /\ ListAddTail(m, e, head).prev[x] = m.prev[x]
<1> DEFINE l == Len(q)
           p == m.prev[head]
           a == Attach(m, e, p, head)
           r == ListAddTail(m, e, head)
<1>1. l \in Nat /\ \A k \in 1..l : q[k] \in S
  BY ElementOfSeq, LenProperties
<1>2. \A k \in 0..l : /\ m.next[At(head, q, k)] = At(head, q, k + 1)
                      /\ m.prev[At(head, q, k + 1)] = At(head, q, k)
  BY LinkedMeans
<1>3. p = At(head, q, l) /\ p \in S \cup {head}
  <2>1. l \in 0..l /\ At(head, q, l + 1) = head
    BY <1>1 DEF At
  <2>2. p = At(head, q, l)
    BY <1>2, <2>1
  <2>3. QED BY <1>1, <2>2 DEF At
<1>4. p \in Elements
  BY <1>3
<1>5. r = Publish(a, e, p)
  BY DEF ListAddTail
<1> HIDE DEF p
<1>6. /\ a \in Memory
      /\ \A x \in Elements : /\ a.next[x] = IF x = e THEN head ELSE m.next[x]
                             /\ a.prev[x] = IF x = e THEN p ELSE IF x = head THEN e ELSE m.prev[x]
  BY <1>4, AttachStores
<1> HIDE DEF a
<1>7. /\ r \in Memory
      /\ \A x \in Elements : /\ r.next[x] = IF x = p THEN e ELSE IF x = e THEN head ELSE m.next[x]
                             /\ r.prev[x] = IF x = e THEN p ELSE IF x = head THEN e ELSE m.prev[x]
  <2>a. e \in Elements /\ a \in Memory
    BY <1>6
  <2>1. /\ r \in Memory /\ r.prev = a.prev
        /\ \A x \in Elements : r.next[x] = IF x = p THEN e ELSE a.next[x]
    <3>1. /\ Publish(a, e, p) \in Memory
          /\ Publish(a, e, p).prev = a.prev
          /\ \A x \in Elements : Publish(a, e, p).next[x] = IF x = p THEN e ELSE a.next[x]
      BY <1>4, <2>a, PublishStores
    <3> HIDE DEF r
    <3>2. QED BY <1>5, <3>1
  <2>2. QED BY <1>6, <2>1
<1> HIDE DEF r
<1>8. \A x \in Elements \ (S \cup {head, e}) : r.next[x] = m.next[x] /\ r.prev[x] = m.prev[x]
  BY <1>3, <1>7
<1> DEFINE w == Append(q, e)
<1>9. w \in Seq(S \cup {e}) /\ Len(w) = l + 1 /\ w[l + 1] = e /\ \A k \in 1..l : w[k] = q[k]
  <2>1. q \in Seq(S \cup {e})
    BY <1>1, SeqDef, LenProperties
  <2>2. QED BY <2>1, AppendProperties
<1> HIDE DEF w
<1>10. /\ \A k \in 0..l : At(head, w, k) = At(head, q, k) /\ At(head, q, k) \in S \cup {head}
       /\ At(head, w, l + 1) = e /\ At(head, w, l + 1 + 1) = head
  <2>1. ASSUME NEW k \in 0..l PROVE At(head, w, k) = At(head, q, k) /\ At(head, q, k) \in S \cup {head}
    BY <1>1, <1>9 DEF At
  <2>2. At(head, w, l + 1) = e
    <3> DEFINE k == l + 1
    <3>1. k \in 1..Len(w) /\ w[k] = e
      BY <1>1, <1>9
    <3> HIDE DEF k
    <3>2. QED BY <3>1 DEF At, k
  <2>3. At(head, w, l + 1 + 1) = head
    BY <1>1, <1>9 DEF At
  <2>4. QED BY <2>1, <2>2, <2>3
<1>11. ASSUME NEW k \in 0..l, k < l PROVE At(head, q, k) # p
  <2>1. q[l] \in S /\ At(head, q, l) = q[l] /\ l \in DOMAIN q
    BY <1>1, <1>11, LenProperties DEF At
  <2>2. CASE k = 0
    BY <1>3, <2>1, <2>2 DEF At
  <2>3. CASE k # 0
    <3>1. k \in 1..l /\ k \in DOMAIN q /\ At(head, q, k) = q[k] /\ k # l
      BY <1>1, <1>11, <2>3, LenProperties DEF At
    <3>2. q[k] # q[l]
      BY <2>1, <3>1 DEF IsInjective
    <3>3. QED BY <1>3, <2>1, <3>1, <3>2
  <2>4. QED BY <2>2, <2>3
<1> HIDE DEF l
<1>12. ASSUME NEW k \in 0..l
       PROVE  r.next[At(head, w, k)] = At(head, w, k + 1) /\ r.prev[At(head, w, k + 1)] = At(head, w, k)
  <2>1. CASE k < l
    <3> DEFINE x == At(head, q, k)
               y == At(head, q, k + 1)
    <3>1. k + 1 \in 0..l
      BY <1>1, <2>1
    <3>2. At(head, w, k) = x /\ At(head, w, k + 1) = y /\ x \in S \cup {head}
      BY <1>10, <3>1
    <3>3. y \in S
      <4>1. k + 1 \in 1..l
        BY <1>1, <2>1
      <4>2. QED BY <1>1, <4>1 DEF At, l
    <3>4. m.next[x] = y /\ m.prev[y] = x
      BY <1>2
    <3>5. x # p
      BY <1>11, <2>1
    <3> HIDE DEF x, y
    <3>6. r.next[x] = y
      BY <1>7, <3>2, <3>4, <3>5
    <3>7. r.prev[y] = x
      BY <1>7, <3>3, <3>4
    <3>8. QED BY <3>2, <3>6, <3>7
  <2>2. CASE k = l
    <3>1. At(head, w, k) = p /\ At(head, w, k + 1) = e
      BY <1>3, <1>10, <2>2
    <3>2. r.next[p] = e /\ r.prev[e] = p
      BY <1>4, <1>7
    <3>3. QED BY <3>1, <3>2
  <2>3. QED BY <1>1, <2>1, <2>2
<1>13. r.next[At(head, w, l + 1)] = At(head, w, l + 1 + 1) /\ r.prev[At(head, w, l + 1 + 1)] = At(head, w, l + 1)
  <2>1. e # p /\ e # head
    BY <1>3
  <2>2. r.next[e] = head /\ r.prev[head] = e
    BY <1>7, <2>1
  <2>3. QED BY <1>10, <2>2
<1>14. Linked(r, head, w)
  <2>1. ASSUME NEW k \in 0..Len(w)
        PROVE  r.next[At(head, w, k)] = At(head, w, k + 1) /\ r.prev[At(head, w, k + 1)] = At(head, w, k)
    <3>1. k \in 0..l \/ k = l + 1
      BY <1>1, <1>9
    <3>2. QED BY <1>12, <1>13, <3>1
  <2>2. QED BY <1>9, <2>1, LinkedMeans
<1>15. QED BY <1>7, <1>8, <1>14 DEF r, w

-----------------------------------------------------------------------------
(* Sequences that hold each value once *)

\* A value that is not there yet can be appended to a sequence without repetition.
LEMMA OnceAppend ==
  ASSUME NEW S, NEW q \in Seq(S), IsInjective(q), NEW e \in S, e \notin Range(q)
  PROVE  IsInjective(Append(q, e)) /\ Range(Append(q, e)) = Range(q) \cup {e}
<1> DEFINE l == Len(q)
           w == Append(q, e)
<1>1. /\ l \in Nat /\ DOMAIN q = 1..l
      /\ DOMAIN w = 1..(l + 1) /\ w[l + 1] = e /\ \A k \in 1..l : w[k] = q[k]
  <2>1. w \in Seq(S) /\ Len(w) = l + 1 /\ w[l + 1] = e /\ \A k \in 1..l : w[k] = q[k]
    BY AppendProperties
  <2> HIDE DEF w
  <2>2. QED BY <2>1, LenProperties
<1> HIDE DEF l, w
<1>2. \A k \in 1..(l + 1) : k \in 1..l \/ k = l + 1
  BY <1>1
<1>3. \A k \in 1..l : k \in 1..(l + 1) /\ q[k] \in Range(q)
  BY <1>1 DEF Range
<1>4. ASSUME NEW a \in 1..(l + 1), NEW b \in 1..(l + 1), w[a] = w[b] PROVE a = b
  <2>1. CASE a \in 1..l /\ b \in 1..l
    BY <1>1, <1>4, <2>1 DEF IsInjective
  <2>2. CASE a = l + 1 /\ b \in 1..l
    BY <1>1, <1>3, <1>4, <2>2
  <2>3. CASE a \in 1..l /\ b = l + 1
    BY <1>1, <1>3, <1>4, <2>3
  <2>4. QED BY <1>2, <1>4, <2>1, <2>2, <2>3
<1>5. IsInjective(w)
  BY <1>1, <1>4 DEF IsInjective
<1>6. l + 1 \in 1..(l + 1)
  BY <1>1
<1>7. Range(w) = Range(q) \cup {e}
  BY <1>1, <1>2, <1>3, <1>6 DEF Range
<1>8. QED BY <1>5, <1>7 DEF w

\* Two sequences without repetition that share nothing can be joined.
LEMMA OnceConcat ==
  ASSUME NEW S, NEW q \in Seq(S), IsInjective(q), NEW r \in Seq(S), IsInjective(r),
         Range(q) \cap Range(r) = {}
  PROVE  IsInjective(q \o r) /\ Range(q \o r) = Range(q) \cup Range(r)
<1> DEFINE l == Len(q)
           p == Len(r)
           w == q \o r
<1>1. /\ l \in Nat /\ DOMAIN q = 1..l /\ p \in Nat /\ DOMAIN r = 1..p
      /\ DOMAIN w = 1..(l + p) /\ \A k \in 1..(l + p) : w[k] = IF k <= l THEN q[k] ELSE r[k - l]
  <2>1. /\ w \in Seq(S) /\ Len(w) = l + p
        /\ \A k \in 1..(l + p) : w[k] = IF k <= l THEN q[k] ELSE r[k - l]
    BY ConcatProperties
  <2> HIDE DEF w
  <2>2. QED BY <2>1, LenProperties
<1> HIDE DEF l, p, w
<1>2. ASSUME NEW k \in 1..(l + p)
      PROVE  \/ k <= l /\ k \in DOMAIN q /\ w[k] = q[k] /\ w[k] \in Range(q)
             \/ ~(k <= l) /\ k - l \in DOMAIN r /\ w[k] = r[k - l] /\ w[k] \in Range(r)
  <2>1. CASE k <= l
    <3>1. k \in DOMAIN q /\ w[k] = q[k]
      BY <1>1, <2>1
    <3>2. QED BY <2>1, <3>1 DEF Range
  <2>2. CASE ~(k <= l)
    <3>1. k - l \in DOMAIN r /\ w[k] = r[k - l]
      BY <1>1, <2>2
    <3>2. QED BY <2>2, <3>1 DEF Range
  <2>3. QED BY <2>1, <2>2
<1>3. ASSUME NEW a \in 1..(l + p), NEW b \in 1..(l + p), w[a] = w[b] PROVE a = b
  <2>1. CASE a <= l /\ b <= l
    BY <1>2, <1>3, <2>1 DEF IsInjective
  <2>2. CASE ~(a <= l) /\ ~(b <= l)
    <3>1. a - l = b - l
      BY <1>2, <1>3, <2>2 DEF IsInjective
    <3>2. QED BY <1>1, <3>1
  <2>3. QED BY <1>2, <1>3, <2>1, <2>2
<1>4. IsInjective(w)
  BY <1>1, <1>3 DEF IsInjective
<1>5. ASSUME NEW x \in Range(q) PROVE x \in Range(w)
  <2>1. PICK k \in 1..l : x = q[k]
    BY <1>1 DEF Range
  <2>2. k \in 1..(l + p) /\ k <= l
    BY <1>1
  <2>3. w[k] = x
    BY <1>1, <2>1, <2>2
  <2>4. QED BY <1>1, <2>2, <2>3 DEF Range
<1>6. ASSUME NEW x \in Range(r) PROVE x \in Range(w)
  <2>1. PICK k \in 1..p : x = r[k]
    BY <1>1 DEF Range
  <2> DEFINE b == k + l
  <2>2. b \in 1..(l + p) /\ ~(b <= l) /\ b - l = k
    BY <1>1
  <2> HIDE DEF b
  <2>3. w[b] = x
    BY <1>1, <2>1, <2>2
  <2>4. QED BY <1>1, <2>2, <2>3 DEF Range
<1>7. ASSUME NEW x \in Range(w) PROVE x \in Range(q) \cup Range(r)
  <2>1. PICK k \in 1..(l + p) : x = w[k]
    BY <1>1 DEF Range
  <2>2. QED BY <1>2, <2>1
<1>8. Range(w) = Range(q) \cup Range(r)
  BY <1>5, <1>6, <1>7
<1>9. QED BY <1>4, <1>8 DEF w

\* It is as long as it holds values.
LEMMA Counted ==
  ASSUME NEW S, NEW q \in Seq(S), IsInjective(q)
  PROVE  IsFiniteSet(Range(q)) /\ Cardinality(Range(q)) = Len(q)
<1>1. Len(q) \in Nat /\ DOMAIN q = 1..Len(q)
  BY LenProperties
<1>2. q \in [1..Len(q) -> Range(q)] /\ \A x \in Range(q) : \E k \in 1..Len(q) : q[k] = x
  <2>1. q = [k \in 1..Len(q) |-> q[k]]
    BY <1>1, LenProperties
  <2>2. \A k \in 1..Len(q) : q[k] \in Range(q)
    BY <1>1 DEF Range
  <2>3. \A x \in Range(q) : \E k \in 1..Len(q) : q[k] = x
    BY <1>1 DEF Range
  <2>4. QED BY <2>1, <2>2, <2>3
<1>3. q \in Bijection(1..Len(q), Range(q))
  BY <1>1, <1>2 DEF Bijection, Injection, Surjection
<1>4. ExistsBijection(1..Len(q), Range(q))
  BY <1>3 DEF ExistsBijection
<1>5. QED BY <1>1, <1>4, FS_CountingElements, FS_NatBijection

\* The empty sequence.
LEMMA OnceEmpty == IsInjective(<<>>) /\ Range(<<>>) = {} /\ \A S : <<>> \in Seq(S)
<1>1. DOMAIN <<>> = {} /\ \A S : <<>> \in Seq(S)
  <2>1. \A S : <<>> \in Seq(S) /\ Len(<<>>) = 0
    BY EmptySeq
  <2>2. QED BY <2>1
<1>2. QED BY <1>1 DEF IsInjective, Range

-----------------------------------------------------------------------------
(* The ids of a slot *)

Members(s) == {a \in Ids : FooHash(a) = s}
SlotNumbers == 0..(Slots - 1)

\* Every id has a slot.
LEMMA Hashed == ASSUME Parameters, NEW id \in Ids PROVE id \in Nat /\ FooHash(id) \in SlotNumbers
  BY DEF Parameters, FooHash, SlotNumbers

\* No id, none of the slot.
LEMMA OfSlotEmpty == ASSUME NEW s PROVE OfSlot(<<>>, s) = <<>>
<1> DEFINE ss == [k \in DOMAIN <<>> |-> IF FooHash(<<>>[k]) = s THEN <<<<>>[k]>> ELSE <<>>]
<1>1. DOMAIN <<>> = {}
  <2>1. <<>> \in Seq({}) /\ Len(<<>>) = 0
    BY EmptySeq
  <2>2. QED BY <2>1, LenProperties
<1>2. ss = <<>>
  <2>1. DOMAIN ss = 1..0
    BY <1>1
  <2>2. ss \in [1..0 -> {{}}]
    BY <1>1, <2>1
  <2> HIDE DEF ss
  <2>3. ss \in Seq({{}})
    BY <2>2, SeqDef
  <2>4. Len(ss) = 0
    BY <2>1, <2>3, LenProperties
  <2>5. QED BY <2>3, <2>4, EmptySeq
<1>3. QED BY <1>2, FlattenEmpty DEF OfSlot

\* An id that is added comes last in its slot, and in no other one.
LEMMA OfSlotAppend ==
  ASSUME NEW S, NEW ids \in Seq(S), NEW id \in S, NEW s
  PROVE  OfSlot(Append(ids, id), s) =
            IF FooHash(id) = s THEN Append(OfSlot(ids, s), id) ELSE OfSlot(ids, s)
<1> DEFINE One(e) == IF FooHash(e) = s THEN <<e>> ELSE <<>>
           l == Len(ids)
           w == Append(ids, id)
           ss == [k \in DOMAIN ids |-> One(ids[k])]
           tt == [k \in DOMAIN w |-> One(w[k])]
<1>1. \A e \in S : One(e) \in Seq(S)
  BY EmptySeq
<1>2. l \in Nat /\ DOMAIN ids = 1..l /\ \A k \in 1..l : ids[k] \in S
  BY ElementOfSeq, LenProperties
<1>3. DOMAIN w = 1..(l + 1) /\ w[l + 1] = id /\ \A k \in 1..l : w[k] = ids[k]
  <2>1. w \in Seq(S) /\ Len(w) = l + 1 /\ w[l + 1] = id /\ \A k \in 1..l : w[k] = ids[k]
    BY AppendProperties
  <2> HIDE DEF w
  <2>2. QED BY <2>1, LenProperties
<1>4. OfSlot(ids, s) = FlattenSeq(ss) /\ OfSlot(w, s) = FlattenSeq(tt)
  BY DEF OfSlot
<1>5. One(id) = IF FooHash(id) = s THEN <<id>> ELSE <<>>
  OBVIOUS
<1> HIDE DEF One, l, w
<1>6. ss \in Seq(Seq(S)) /\ Len(ss) = l /\ \A k \in 1..l : ss[k] = One(ids[k])
  <2>1. ss \in [1..l -> Seq(S)]
    BY <1>1, <1>2
  <2>2. ss \in Seq(Seq(S))
    BY <1>2, <2>1, SeqDef
  <2>3. DOMAIN ss = 1..l /\ \A k \in 1..l : ss[k] = One(ids[k])
    BY <1>2
  <2> HIDE DEF ss
  <2>4. QED BY <1>2, <2>2, <2>3, LenProperties
<1>7. tt \in Seq(Seq(S)) /\ Len(tt) = l + 1 /\ \A k \in 1..(l + 1) : tt[k] = One(w[k])
  <2>1. \A k \in 1..(l + 1) : k \in 1..l \/ k = l + 1
    BY <1>2
  <2>2. \A k \in 1..(l + 1) : w[k] \in S
    BY <1>2, <1>3, <2>1
  <2>3. tt \in [1..(l + 1) -> Seq(S)]
    BY <1>1, <1>3, <2>2
  <2>4. tt \in Seq(Seq(S))
    <3> HIDE DEF tt
    <3>1. QED BY <1>2, <2>3, SeqDef
  <2>5. DOMAIN tt = 1..(l + 1) /\ \A k \in 1..(l + 1) : tt[k] = One(w[k])
    BY <1>3
  <2> HIDE DEF tt
  <2>6. QED BY <1>2, <2>4, <2>5, LenProperties
<1> HIDE DEF ss, tt
<1>8. tt = Append(ss, One(id))
  <2> DEFINE u == Append(ss, One(id))
  <2>1. u \in Seq(Seq(S)) /\ Len(u) = l + 1 /\ u[l + 1] = One(id) /\ \A k \in 1..l : u[k] = ss[k]
    BY <1>1, <1>6, AppendProperties
  <2> HIDE DEF u
  <2>2. ASSUME NEW k \in 1..(l + 1) PROVE tt[k] = u[k]
    <3>1. k \in 1..l \/ k = l + 1
      BY <1>2
    <3>2. QED BY <1>3, <1>6, <1>7, <2>1, <3>1
  <2>3. tt = u
    BY <1>7, <2>1, <2>2, SeqEqual
  <2>4. QED BY <2>3 DEF u
<1>9. FlattenSeq(ss) \in Seq(S) /\ FlattenSeq(tt) = FlattenSeq(ss) \o One(id)
  BY <1>1, <1>6, <1>8, FlattenAppend
<1>10. CASE FooHash(id) = s
  BY <1>4, <1>5, <1>9, <1>10, AppendIsConcat DEF w
<1>11. CASE FooHash(id) # s
  BY <1>4, <1>5, <1>9, <1>11, ConcatEmptySeq DEF w
<1>12. QED BY <1>10, <1>11

\* What OfSlot gives: the ids with this hash, each once.
SlotSeqs(ids) ==
    \A s \in SlotNumbers : /\ OfSlot(ids, s) \in Seq(Members(s)) /\ IsInjective(OfSlot(ids, s))
                           /\ Len(OfSlot(ids, s)) <= Len(ids)
                           /\ Range(OfSlot(ids, s)) = Range(ids) \cap Members(s)

\* Nothing has been added.
LEMMA SlotSeqsEmpty == SlotSeqs(<<>>)
<1>1. Len(<<>>) <= Len(<<>>) /\ IsInjective(<<>>) /\ Range(<<>>) = {}
  BY OnceEmpty
<1>2. \A s : <<>> \in Seq(Members(s)) /\ OfSlot(<<>>, s) = <<>>
  BY OfSlotEmpty, OnceEmpty
<1>3. QED BY <1>1, <1>2 DEF SlotSeqs

\* An id that is new is added.
LEMMA SlotSeqsAppend ==
  ASSUME Parameters, NEW ids \in Seq(Ids), IsInjective(ids), SlotSeqs(ids), NEW id \in Ids \ Range(ids)
  PROVE  SlotSeqs(Append(ids, id))
<1> DEFINE w == Append(ids, id)
<1>1. Len(w) = Len(ids) + 1 /\ Len(ids) \in Nat
  BY AppendProperties, LenProperties
<1>2. Range(w) = Range(ids) \cup {id}
  BY OnceAppend
<1> HIDE DEF w
<1>3. SUFFICES ASSUME NEW s \in SlotNumbers
               PROVE  /\ OfSlot(w, s) \in Seq(Members(s)) /\ IsInjective(OfSlot(w, s))
                      /\ Len(OfSlot(w, s)) <= Len(w)
                      /\ Range(OfSlot(w, s)) = Range(w) \cap Members(s)
  BY DEF SlotSeqs, w
<1> DEFINE q == OfSlot(ids, s)
<1>4. /\ q \in Seq(Members(s)) /\ IsInjective(q) /\ Len(q) <= Len(ids)
      /\ Range(q) = Range(ids) \cap Members(s)
  BY DEF SlotSeqs
<1>5. OfSlot(w, s) = IF FooHash(id) = s THEN Append(q, id) ELSE q
  BY OfSlotAppend DEF w
<1> HIDE DEF q
<1>6. CASE FooHash(id) = s
  <2>1. id \in Members(s) /\ id \notin Range(q)
    BY <1>4, <1>6 DEF Members
  <2>2. Append(q, id) \in Seq(Members(s)) /\ Len(Append(q, id)) = Len(q) + 1 /\ Len(q) \in Nat
    BY <1>4, <2>1, AppendProperties, LenProperties
  <2>3. IsInjective(Append(q, id)) /\ Range(Append(q, id)) = Range(q) \cup {id}
    BY <1>4, <2>1, OnceAppend
  <2>4. QED BY <1>1, <1>2, <1>4, <1>5, <1>6, <2>1, <2>2, <2>3
<1>7. CASE FooHash(id) # s
  <2>1. id \notin Members(s)
    BY <1>7 DEF Members
  <2>2. Len(q) \in Nat
    BY <1>4, LenProperties
  <2>3. QED BY <1>1, <1>2, <1>4, <1>5, <1>7, <2>1, <2>2
<1>8. QED BY <1>6, <1>7

-----------------------------------------------------------------------------
(* The elements *)

\* Heads, entries and items are different elements, and Null is none of them.
LEMMA Apart ==
  ASSUME Parameters
  PROVE  /\ \A s \in SlotNumbers : Slot(s) \in Elements
         /\ List \in Elements /\ Null \notin Elements
         /\ \A a \in Ids : Foo(a) \in Elements /\ Item(a) \in Elements
         /\ \A a, k : /\ Foo(a) = Foo(k) => a = k
                      /\ Item(a) = Item(k) => a = k
                      /\ Slot(a) = Slot(k) => a = k
                      /\ Foo(a) # Item(k) /\ Foo(a) # Slot(k) /\ Item(a) # Slot(k)
         /\ \A a : List # Slot(a) /\ List # Foo(a) /\ List # Item(a)
         /\ \A a : Key(Item(a)) = a
<1>1. /\ \A s \in SlotNumbers : Slot(s) \in Elements
      /\ List \in Elements /\ Null \notin Elements
      /\ \A a \in Ids : Foo(a) \in Elements /\ Item(a) \in Elements
  BY DEF Parameters, Elements, SlotNumbers
<1>2. /\ \A a, k : /\ Foo(a) = Foo(k) => a = k
                   /\ Item(a) = Item(k) => a = k
                   /\ Slot(a) = Slot(k) => a = k
      /\ \A a : Key(Item(a)) = a
  BY DEF Foo, Item, Slot, Key
<1>3. /\ \A a, k : Foo(a) # Item(k) /\ Foo(a) # Slot(k) /\ Item(a) # Slot(k)
      /\ \A a : List # Slot(a) /\ List # Foo(a) /\ List # Item(a)
  BY DEF Foo, Item, Slot, List
<1>4. QED BY <1>1, <1>2, <1>3

\* The items of a sequence of ids.
ItemsOf(T) == {Item(a) : a \in T}

\* The items of a sequence of ids.
LEMMA ItemsAre ==
  ASSUME Parameters, NEW T \in SUBSET Ids, NEW q \in Seq(T)
  PROVE  /\ Items(q) \in Seq(ItemsOf(T)) /\ Len(Items(q)) = Len(q)
         /\ \A k \in 1..Len(q) : Items(q)[k] = Item(q[k])
         /\ IsInjective(q) => IsInjective(Items(q))
         /\ \A a \in T : Items(Append(q, a)) = Append(Items(q), Item(a))
<1> DEFINE l == Len(q)
           t == Items(q)
<1>1. l \in Nat /\ DOMAIN q = 1..l /\ \A k \in 1..l : q[k] \in T
  BY ElementOfSeq, LenProperties
<1> HIDE DEF l
<1>2. t \in [1..l -> ItemsOf(T)] /\ \A k \in 1..l : t[k] = Item(q[k])
  BY <1>1 DEF Items, ItemsOf
<1> HIDE DEF t
<1>3. t \in Seq(ItemsOf(T)) /\ DOMAIN t = 1..l
  BY <1>1, <1>2, SeqDef
<1>4. Len(t) = l
  BY <1>1, <1>3, LenProperties
<1>5. ASSUME IsInjective(q) PROVE IsInjective(t)
  BY <1>1, <1>2, <1>3, <1>5, Apart DEF IsInjective
<1>6. ASSUME NEW a \in T PROVE Items(Append(q, a)) = Append(t, Item(a))
  <2> DEFINE w == Append(q, a)
             u == Append(t, Item(a))
             v == Items(w)
  <2>1. w \in Seq(T) /\ Len(w) = l + 1 /\ w[l + 1] = a /\ \A k \in 1..l : w[k] = q[k]
    BY AppendProperties DEF l
  <2>2. Item(a) \in ItemsOf(T)
    BY DEF ItemsOf
  <2>3. /\ u \in Seq(ItemsOf(T)) /\ Len(u) = l + 1 /\ u[l + 1] = Item(a)
        /\ \A k \in 1..l : u[k] = t[k]
    BY <1>3, <1>4, <2>2, AppendProperties
  <2> HIDE DEF w, u
  <2>4. DOMAIN w = 1..(l + 1) /\ \A k \in 1..(l + 1) : w[k] \in T
    BY <1>1, <2>1, ElementOfSeq, LenProperties
  <2>5. v \in [1..(l + 1) -> ItemsOf(T)] /\ \A k \in 1..(l + 1) : v[k] = Item(w[k])
    BY <2>4 DEF Items, ItemsOf
  <2> HIDE DEF v
  <2>6. v \in Seq(ItemsOf(T)) /\ DOMAIN v = 1..(l + 1)
    BY <1>1, <2>5, SeqDef
  <2>7. Len(v) = l + 1
    BY <1>1, <2>6, LenProperties
  <2>8. ASSUME NEW k \in 1..(l + 1) PROVE v[k] = u[k]
    <3>1. k \in 1..l \/ k = l + 1
      BY <1>1
    <3>2. QED BY <1>2, <2>1, <2>3, <2>5, <3>1
  <2>9. v = u
    BY <2>3, <2>6, <2>7, <2>8, SeqEqual
  <2>10. QED BY <2>9 DEF u, v, w
<1>7. QED BY <1>2, <1>3, <1>4, <1>5, <1>6 DEF l, t

-----------------------------------------------------------------------------
(* What the operations of the map find *)

\* A slot of the map that holds the ids of q.
LEMMA SlotWalk ==
  ASSUME Parameters, NEW m, NEW s \in SlotNumbers, NEW q \in Seq(Ids), Linked(m, Slot(s), Items(q)),
         NEW n \in Nat
  PROVE  WalkTo(m, Slot(s), n) = IF n < Len(q) THEN Item(q[n + 1]) ELSE Slot(s)
<1>1. /\ Items(q) \in Seq(ItemsOf(Ids)) /\ Len(Items(q)) = Len(q)
      /\ \A k \in 1..Len(q) : Items(q)[k] = Item(q[k])
  BY ItemsAre
<1>2. Slot(s) \notin ItemsOf(Ids) /\ Null \notin ItemsOf(Ids)
  BY Apart DEF ItemsOf
<1>3. WalkTo(m, Slot(s), n) = IF n < Len(Items(q)) THEN Items(q)[n + 1] ELSE Slot(s)
  BY <1>1, <1>2, Walk
<1>4. n < Len(q) => n + 1 \in 1..Len(q)
  BY LenProperties
<1>5. QED BY <1>1, <1>3, <1>4

\* get finds the ids that the slot holds ...
LEMMA MapGetFinds ==
  ASSUME Parameters, NEW m, NEW id \in Ids, NEW q \in Seq(Ids),
         Linked(m, Slot(FooHash(id)), Items(q)), Len(q) <= Bound
  PROVE  MapGet(m, id) <=> id \in Range(q)
<1> DEFINE s == FooHash(id)
<1>1. s \in SlotNumbers
  BY Hashed
<1>2. Bound \in Nat /\ Len(q) \in Nat /\ DOMAIN q = 1..Len(q)
  BY FS_CardinalityType, LenProperties DEF Bound, Parameters
<1>3. \A n \in Nat : WalkTo(m, Slot(s), n) = IF n < Len(q) THEN Item(q[n + 1]) ELSE Slot(s)
  <2> HIDE DEF s
  <2>1. Linked(m, Slot(s), Items(q))
    BY DEF s
  <2>2. QED BY <1>1, <2>1, SlotWalk
<1>4. MapGet(m, id) <=> \E n \in 0..Bound : WalkTo(m, Slot(s), n) = Item(id)
  BY DEF MapGet
<1> HIDE DEF s
<1>5. ASSUME MapGet(m, id) PROVE id \in Range(q)
  <2>1. PICK n \in 0..Bound : WalkTo(m, Slot(s), n) = Item(id)
    BY <1>4, <1>5
  <2>2. n \in Nat /\ n < Len(q) /\ Item(q[n + 1]) = Item(id)
    <3>1. n \in Nat
      BY <1>2
    <3>2. WalkTo(m, Slot(s), n) = IF n < Len(q) THEN Item(q[n + 1]) ELSE Slot(s)
      BY <1>3, <3>1
    <3>3. Item(id) # Slot(s)
      BY Apart
    <3>4. QED BY <2>1, <3>1, <3>2, <3>3
  <2>3. q[n + 1] = id /\ n + 1 \in DOMAIN q
    BY <1>2, <2>2, Apart
  <2>4. QED BY <2>3 DEF Range
<1>6. ASSUME id \in Range(q) PROVE MapGet(m, id)
  <2>1. PICK k \in 1..Len(q) : q[k] = id
    BY <1>2, <1>6 DEF Range
  <2> DEFINE n == k - 1
  <2>2. n \in Nat /\ n \in 0..Bound /\ n < Len(q) /\ n + 1 = k
    BY <1>2, <2>1
  <2> HIDE DEF n
  <2>3. WalkTo(m, Slot(s), n) = Item(id)
    BY <1>3, <2>1, <2>2
  <2>4. QED BY <1>4, <2>2, <2>3
<1>7. QED BY <1>5, <1>6

\* ... and clear frees them in their order.
LEMMA SlotItemsAre ==
  ASSUME Parameters, NEW m, NEW s \in SlotNumbers, NEW q \in Seq(Ids),
         Linked(m, Slot(s), Items(q)), Len(q) <= Bound
  PROVE  SlotItems(m, s) = q
<1> DEFINE P(n) == /\ WalkTo(m, Slot(s), n) = Slot(s)
                   /\ \A k \in 0..(n - 1) : WalkTo(m, Slot(s), k) # Slot(s)
           length == CHOOSE n \in 0..Bound : P(n)
           l == Len(q)
<1>1. Bound \in Nat /\ l \in Nat /\ DOMAIN q = 1..l /\ q = [k \in 1..l |-> q[k]]
  BY FS_CardinalityType, LenProperties DEF Bound, Parameters
<1>2. \A n \in Nat : WalkTo(m, Slot(s), n) = IF n < l THEN Item(q[n + 1]) ELSE Slot(s)
  BY SlotWalk
<1>3. \A a : Item(a) # Slot(s)
  BY Apart
<1>4. SlotItems(m, s) = [n \in 1..length |-> Key(WalkTo(m, Slot(s), n - 1))]
  BY DEF SlotItems
<1> HIDE DEF l
<1>5. l \in 0..Bound /\ P(l)
  <2>1. l \in 0..Bound
    BY <1>1 DEF l
  <2>2. WalkTo(m, Slot(s), l) = Slot(s)
    <3>1. l \in Nat /\ ~(l < l)
      BY <1>1
    <3>2. WalkTo(m, Slot(s), l) = IF l < l THEN Item(q[l + 1]) ELSE Slot(s)
      BY <1>2, <3>1
    <3>3. QED BY <3>1, <3>2
  <2>3. ASSUME NEW k \in 0..(l - 1) PROVE WalkTo(m, Slot(s), k) # Slot(s)
    <3>1. k \in Nat /\ k < l
      BY <1>1
    <3>2. QED BY <1>2, <1>3, <3>1
  <2>4. QED BY <2>1, <2>2, <2>3
<1>6. ASSUME NEW n \in 0..Bound, P(n) PROVE n = l
  <2>1. ~(n < l)
    <3>1. n \in Nat
      BY <1>1
    <3>2. QED BY <1>2, <1>3, <1>6, <3>1
  <2>2. ~(l < n)
    <3>1. ASSUME l < n PROVE l \in 0..(n - 1)
      BY <1>1, <3>1
    <3>2. QED BY <1>5, <1>6, <3>1
  <2>3. QED BY <1>1, <2>1, <2>2
<1>7. length = l
  <2> HIDE DEF P
  <2>1. length \in 0..Bound /\ P(length)
    BY <1>5
  <2>2. QED BY <1>6, <2>1
<1> HIDE DEF length
<1>8. ASSUME NEW n \in 1..l PROVE Key(WalkTo(m, Slot(s), n - 1)) = q[n]
  <2> DEFINE k == n - 1
  <2>1. k \in Nat /\ k < l /\ k + 1 = n
    BY <1>1
  <2> HIDE DEF k
  <2>2. WalkTo(m, Slot(s), k) = Item(q[n])
    BY <1>2, <2>1
  <2>3. QED BY <2>2, Apart DEF k
<1>9. SlotItems(m, s) = [n \in 1..l |-> q[n]]
  BY <1>4, <1>7, <1>8
<1>10. QED BY <1>1, <1>9

\* So clear frees every id of the map once.
LEMMA MapClearFrees ==
  ASSUME Parameters, NEW m, NEW ids \in Seq(Ids), IsInjective(ids), Len(ids) <= Bound, SlotSeqs(ids),
         \A s \in SlotNumbers : Linked(m, Slot(s), Items(OfSlot(ids, s)))
  PROVE  Range(MapClear(m)) = Range(ids) /\ Len(MapClear(m)) = Len(ids)
<1> DEFINE Q(s) == OfSlot(ids, s)
           ss(n) == [k \in 1..n |-> Q(k - 1)]
           Below(n) == {a \in Range(ids) : FooHash(a) < n}
           P == {n \in 0..Slots : /\ FlattenSeq(ss(n)) \in Seq(Ids) /\ IsInjective(FlattenSeq(ss(n)))
                                  /\ Range(FlattenSeq(ss(n))) = Below(n)}
<1>1. Slots \in Nat \ {0} /\ Len(ids) \in Nat /\ Bound \in Nat
  BY FS_CardinalityType, LenProperties DEF Bound, Parameters
<1>2. ASSUME NEW a \in Range(ids) PROVE a \in Ids /\ FooHash(a) \in Nat /\ FooHash(a) < Slots
  <2>1. a \in Ids
    BY ElementOfSeq, LenProperties DEF Range
  <2>2. QED BY <1>1, <2>1, Hashed DEF SlotNumbers
<1>3. \A s \in SlotNumbers : /\ Q(s) \in Seq(Ids) /\ IsInjective(Q(s)) /\ Len(Q(s)) <= Len(ids)
                             /\ Range(Q(s)) = {a \in Range(ids) : FooHash(a) = s}
  <2>1. ASSUME NEW s \in SlotNumbers
        PROVE  /\ Q(s) \in Seq(Ids) /\ IsInjective(Q(s)) /\ Len(Q(s)) <= Len(ids)
               /\ Range(Q(s)) = {a \in Range(ids) : FooHash(a) = s}
    <3>1. /\ Q(s) \in Seq(Members(s)) /\ IsInjective(Q(s)) /\ Len(Q(s)) <= Len(ids)
          /\ Range(Q(s)) = Range(ids) \cap Members(s)
      BY DEF SlotSeqs
    <3>2. Members(s) \subseteq Ids
      BY DEF Members
    <3>3. Q(s) \in Seq(Ids)
      BY <3>1, <3>2, SeqMonotonic
    <3>4. QED BY <1>2, <3>1, <3>3 DEF Members
  <2>2. QED BY <2>1
<1>4. \A s \in SlotNumbers : SlotItems(m, s) = Q(s)
  <2>1. ASSUME NEW s \in SlotNumbers PROVE SlotItems(m, s) = Q(s)
    <3> HIDE DEF Q
    <3>1. Linked(m, Slot(s), Items(Q(s)))
      BY DEF Q
    <3>2. Q(s) \in Seq(Ids) /\ Len(Q(s)) <= Bound
      <4>1. Q(s) \in Seq(Ids) /\ Len(Q(s)) <= Len(ids)
        BY <1>3
      <4>2. Len(Q(s)) \in Nat
        BY <4>1, LenProperties
      <4>3. QED BY <1>1, <4>1, <4>2
    <3>3. QED BY <3>1, <3>2, SlotItemsAre
  <2>2. QED BY <2>1
<1> HIDE DEF Q
<1>5. ASSUME NEW n \in 0..Slots
      PROVE  /\ ss(n) \in Seq(Seq(Ids)) /\ Len(ss(n)) = n
             /\ \A k \in 1..n : ss(n)[k] = Q(k - 1)
  <2>1. ASSUME NEW k \in 1..n PROVE Q(k - 1) \in Seq(Ids)
    <3>1. k - 1 \in SlotNumbers
      BY <1>1 DEF SlotNumbers
    <3>2. QED BY <1>3, <3>1
  <2>2. ss(n) \in [1..n -> Seq(Ids)] /\ DOMAIN ss(n) = 1..n
    BY <2>1
  <2>3. n \in Nat
    BY <1>1
  <2>4. ss(n) \in Seq(Seq(Ids))
    <3> HIDE DEF ss
    <3>1. QED BY <2>2, <2>3, SeqDef
  <2>5. Len(ss(n)) = n
    <3> HIDE DEF ss
    <3>1. QED BY <2>2, <2>3, <2>4, LenProperties
  <2>6. QED BY <2>4, <2>5
<1>6. 0 \in P
  <2>1. 0 \in 0..Slots
    BY <1>1
  <2>2. ss(0) = <<>>
    <3> HIDE DEF ss
    <3>1. QED BY <1>5, <2>1, EmptySeq
  <2>3. Below(0) = {}
    BY <1>2
  <2> HIDE DEF Below, ss
  <2>4. QED BY <2>1, <2>2, <2>3, FlattenEmpty, OnceEmpty
<1>7. ASSUME NEW n \in 0..Slots, n < Slots, n \in P PROVE n + 1 \in P
  <2> DEFINE p == n + 1
             u == ss(p)
             t == ss(n)
             f == FlattenSeq(t)
  <2>1. p \in 0..Slots /\ n \in SlotNumbers /\ n \in Nat
    BY <1>1, <1>7 DEF SlotNumbers
  <2>2. /\ t \in Seq(Seq(Ids)) /\ Len(t) = n /\ \A k \in 1..n : t[k] = Q(k - 1)
    BY <1>5
  <2>3. /\ u \in Seq(Seq(Ids)) /\ Len(u) = p /\ \A k \in 1..p : u[k] = Q(k - 1)
    <3> HIDE DEF p, ss
    <3>1. QED BY <1>5, <2>1
  <2>4. f \in Seq(Ids) /\ IsInjective(f) /\ Range(f) = Below(n)
    BY <1>7
  <2> HIDE DEF f, t, u, ss
  <2>5. Q(n) \in Seq(Ids) /\ IsInjective(Q(n)) /\ Range(Q(n)) = {a \in Range(ids) : FooHash(a) = n}
    BY <1>3, <2>1
  <2>6. u = Append(t, Q(n))
    <3> DEFINE v == Append(t, Q(n))
    <3>1. v \in Seq(Seq(Ids)) /\ Len(v) = n + 1 /\ v[n + 1] = Q(n) /\ \A k \in 1..n : v[k] = t[k]
      BY <2>2, <2>5, AppendProperties
    <3> HIDE DEF v
    <3>2. ASSUME NEW k \in 1..p PROVE u[k] = v[k]
      <4>1. CASE k \in 1..n
        BY <2>2, <2>3, <3>1, <4>1
      <4>2. CASE k = n + 1
        <5>1. k - 1 = n
          BY <2>1, <4>2
        <5>2. QED BY <2>3, <3>1, <4>2, <5>1
      <4>3. QED BY <2>1, <4>1, <4>2
    <3>3. u = v
      BY <2>3, <3>1, <3>2, SeqEqual
    <3>4. QED BY <3>3 DEF v
  <2>7. FlattenSeq(u) = f \o Q(n)
    BY <2>2, <2>5, <2>6, FlattenAppend DEF f
  <2>8. Range(f) \cap Range(Q(n)) = {}
    BY <1>2, <2>1, <2>4, <2>5
  <2>9. IsInjective(f \o Q(n)) /\ Range(f \o Q(n)) = Range(f) \cup Range(Q(n)) /\ f \o Q(n) \in Seq(Ids)
    BY <2>4, <2>5, <2>8, OnceConcat, ConcatProperties
  <2>10. Range(f) \cup Range(Q(n)) = Below(p)
    <3>1. \A a \in Range(ids) : FooHash(a) < p <=> FooHash(a) < n \/ FooHash(a) = n
      BY <1>2, <2>1
    <3> HIDE DEF p
    <3>2. QED BY <2>4, <2>5, <3>1
  <2> HIDE DEF p, Below
  <2>11. p \in P
    BY <2>1, <2>7, <2>9, <2>10 DEF u
  <2>12. QED BY <2>11 DEF p
<1>8. Slots \in 0..Slots /\ Slots \in Nat
  BY <1>1
<1>9. MapClear(m) = FlattenSeq(ss(Slots))
  <2>1. ASSUME NEW n \in 1..Slots PROVE SlotItems(m, n - 1) = Q(n - 1)
    <3>1. n - 1 \in SlotNumbers
      BY <1>1 DEF SlotNumbers
    <3>2. QED BY <1>4, <3>1
  <2>2. [n \in 1..Slots |-> SlotItems(m, n - 1)] = [k \in 1..Slots |-> Q(k - 1)]
    BY <2>1
  <2>3. QED BY <2>2 DEF MapClear
<1> HIDE DEF P
<1>10. Slots \in P
  BY ONLY <1>6, <1>7, <1>8, UpTo
<1>11. Below(Slots) = Range(ids)
  BY <1>2
<1> HIDE DEF ss, Below
<1>12. MapClear(m) \in Seq(Ids) /\ IsInjective(MapClear(m)) /\ Range(MapClear(m)) = Range(ids)
  BY <1>9, <1>10, <1>11 DEF P
<1>13. Cardinality(Range(MapClear(m))) = Len(MapClear(m)) /\ Cardinality(Range(ids)) = Len(ids)
  <2>1. Cardinality(Range(MapClear(m))) = Len(MapClear(m))
    <3> DEFINE c == MapClear(m)
    <3>1. c \in Seq(Ids) /\ IsInjective(c)
      BY <1>12
    <3> HIDE DEF c
    <3>2. Cardinality(Range(c)) = Len(c)
      BY <3>1, Counted
    <3>3. QED BY <3>2 DEF c
  <2>2. QED BY <2>1, Counted
<1>14. QED BY <1>12, <1>13

-----------------------------------------------------------------------------
(* What the operations of the map do *)

\* The slots of the map hold ids, each slot those with its hash in the order of ids.
MapHolds(m, ids) == \A s \in SlotNumbers : Linked(m, Slot(s), Items(OfSlot(ids, s)))

\* Its links are those of the slots and of the items.
LEMMA MapFrame ==
  ASSUME Parameters, NEW ids, SlotSeqs(ids), NEW m, MapHolds(m, ids), NEW r,
         \A s \in SlotNumbers : r.next[Slot(s)] = m.next[Slot(s)] /\ r.prev[Slot(s)] = m.prev[Slot(s)],
         \A a \in Ids : r.next[Item(a)] = m.next[Item(a)] /\ r.prev[Item(a)] = m.prev[Item(a)]
  PROVE  MapHolds(r, ids)
<1>1. SUFFICES ASSUME NEW s \in SlotNumbers PROVE Linked(r, Slot(s), Items(OfSlot(ids, s)))
  BY DEF MapHolds
<1> DEFINE q == OfSlot(ids, s)
<1>2. q \in Seq(Members(s)) /\ Members(s) \in SUBSET Ids
  BY DEF SlotSeqs, Members
<1>3. Linked(m, Slot(s), Items(q))
  BY DEF MapHolds
<1> HIDE DEF q
<1>4. Items(q) \in Seq(ItemsOf(Members(s)))
  BY <1>2, ItemsAre
<1>5. \A e \in ItemsOf(Members(s)) \cup {Slot(s)} : r.next[e] = m.next[e] /\ r.prev[e] = m.prev[e]
  BY <1>2 DEF ItemsOf
<1>6. Linked(r, Slot(s), Items(q))
  BY <1>3, <1>4, <1>5, LinkedFrame
<1>7. QED BY <1>6 DEF q

\* put of a new key.
LEMMA MapPutDoes ==
  ASSUME Parameters, NEW m \in Memory, NEW ids \in Seq(Ids), SlotSeqs(ids), MapHolds(m, ids),
         NEW id \in Ids \ Range(ids)
  PROVE  /\ MapPut(m, id) \in Memory /\ MapHolds(MapPut(m, id), Append(ids, id))
         /\ MapPut(m, id).next[List] = m.next[List] /\ MapPut(m, id).prev[List] = m.prev[List]
         /\ \A a \in Ids : /\ MapPut(m, id).next[Foo(a)] = m.next[Foo(a)]
                           /\ MapPut(m, id).prev[Foo(a)] = m.prev[Foo(a)]
<1> DEFINE s == FooHash(id)
           q == OfSlot(ids, s)
           S == Members(s) \ {id}
           T == ItemsOf(S)
           r == MapPut(m, id)
<1>1. s \in SlotNumbers /\ S \in SUBSET Ids
  BY Hashed DEF Members
<1>2. /\ q \in Seq(Members(s)) /\ IsInjective(q) /\ Range(q) = Range(ids) \cap Members(s)
      /\ Linked(m, Slot(s), Items(q))
  <2> HIDE DEF s
  <2>1. QED BY <1>1 DEF SlotSeqs, MapHolds
<1>3. r = ListAddTail(m, Item(id), Slot(s))
  BY DEF MapPut
<1>4. id \in Members(s)
  BY DEF Members
<1>5. \A t : OfSlot(Append(ids, id), t) = IF s = t THEN Append(OfSlot(ids, t), id) ELSE OfSlot(ids, t)
  BY OfSlotAppend
<1> HIDE DEF r, s, q
<1>6. q \in Seq(S)
  <2>1. Len(q) \in Nat /\ DOMAIN q = 1..Len(q) /\ \A k \in 1..Len(q) : q[k] \in Members(s)
    BY <1>2, ElementOfSeq, LenProperties
  <2>2. \A k \in 1..Len(q) : q[k] \in Range(q)
    BY <2>1 DEF Range
  <2>3. \A k \in 1..Len(q) : q[k] \in S
    BY <1>2, <2>1, <2>2
  <2> HIDE DEF S
  <2>4. q = [k \in 1..Len(q) |-> q[k]]
    BY <1>2, LenProperties
  <2>5. q \in [1..Len(q) -> S]
    BY <2>3, <2>4
  <2>6. QED BY <2>1, <2>5, SeqDef
<1>7. /\ Items(q) \in Seq(T) /\ IsInjective(Items(q))
      /\ Items(Append(q, id)) = Append(Items(q), Item(id))
  <2>1. Items(Append(q, id)) = Append(Items(q), Item(id))
    <3>1. Members(s) \in SUBSET Ids
      BY DEF Members
    <3>2. QED BY <1>2, <1>4, <3>1, ItemsAre
  <2> HIDE DEF S
  <2>2. QED BY <1>1, <1>2, <1>6, <2>1, ItemsAre
<1>8. /\ T \in SUBSET Elements /\ Slot(s) \in Elements \ T
      /\ Item(id) \in Elements \ (T \cup {Slot(s)})
  BY <1>1, Apart DEF ItemsOf
<1>9. /\ r \in Memory /\ Linked(r, Slot(s), Items(Append(q, id)))
      /\ \A x \in Elements \ (T \cup {Slot(s), Item(id)}) : r.next[x] = m.next[x] /\ r.prev[x] = m.prev[x]
  <2> HIDE DEF T
  <2>1. QED BY <1>2, <1>3, <1>7, <1>8, AddTail
<1>10. ASSUME NEW t \in SlotNumbers PROVE Linked(r, Slot(t), Items(OfSlot(Append(ids, id), t)))
  <2>1. CASE t = s
    BY <1>5, <1>9, <2>1 DEF q
  <2>2. CASE t # s
    <3> DEFINE p == OfSlot(ids, t)
               U == ItemsOf(Members(t))
    <3>1. p \in Seq(Members(t)) /\ Members(t) \in SUBSET Ids /\ Linked(m, Slot(t), Items(p))
      BY DEF SlotSeqs, MapHolds, Members
    <3> HIDE DEF p
    <3>2. Items(p) \in Seq(U)
      BY <3>1, ItemsAre
    <3>3. \A e \in U \cup {Slot(t)} : e \in Elements /\ e \notin T /\ e \notin {Slot(s), Item(id)}
      <4>1. \A a \in Members(t) : a \notin Members(s) /\ a # id
        BY <1>4, <2>2 DEF Members
      <4>2. ASSUME NEW e \in U PROVE e \in Elements /\ e \notin T /\ e \notin {Slot(s), Item(id)}
        <5>1. PICK a \in Members(t) : e = Item(a)
          BY DEF ItemsOf
        <5>2. QED BY <3>1, <4>1, <5>1, Apart DEF ItemsOf
      <4>3. Slot(t) \in Elements /\ Slot(t) \notin T /\ Slot(t) \notin {Slot(s), Item(id)}
        BY <2>2, Apart DEF ItemsOf
      <4>4. QED BY <4>2, <4>3
    <3>4. \A e \in U \cup {Slot(t)} : r.next[e] = m.next[e] /\ r.prev[e] = m.prev[e]
      BY <1>9, <3>3
    <3> HIDE DEF U
    <3>5. Linked(r, Slot(t), Items(p))
      BY <3>1, <3>2, <3>4, LinkedFrame
    <3>6. QED BY <1>5, <2>2, <3>5 DEF p
  <2>3. QED BY <2>1, <2>2
<1>11. MapHolds(r, Append(ids, id))
  BY <1>10 DEF MapHolds
<1>12. /\ List \in Elements \ (T \cup {Slot(s), Item(id)})
       /\ \A a \in Ids : Foo(a) \in Elements \ (T \cup {Slot(s), Item(id)})
  BY Apart DEF ItemsOf
<1>13. QED BY <1>9, <1>11, <1>12 DEF r

\* initMapHashLinked and initListHead.
LEMMA InitLinks ==
  ASSUME Parameters
  PROVE  LET m == ListHeadInit(MapInit(Loose), List)
         IN  m \in Memory /\ MapHolds(m, <<>>) /\ m.next[List] = List /\ m.prev[List] = List
<1> DEFINE a == MapInit(Loose)
           m == ListHeadInit(a, List)
<1>1. /\ a \in Memory
      /\ \A s \in SlotNumbers : a.next[Slot(s)] = Slot(s) /\ a.prev[Slot(s)] = Slot(s)
  <2>1. \A e \in Elements : (IF e[1] = "slot" THEN e ELSE Null) \in Elements \cup {Null}
    OBVIOUS
  <2>2. a = [next |-> [e \in Elements |-> IF e[1] = "slot" THEN e ELSE Null],
             prev |-> [e \in Elements |-> IF e[1] = "slot" THEN e ELSE Null]]
    BY DEF MapInit, Loose
  <2>3. a \in Memory
    BY <2>1, <2>2 DEF Memory
  <2>4. \A s \in SlotNumbers : Slot(s) \in Elements /\ Slot(s)[1] = "slot"
    BY Apart DEF Slot
  <2>5. \A e \in Elements : /\ a.next[e] = IF e[1] = "slot" THEN e ELSE Null
                            /\ a.prev[e] = IF e[1] = "slot" THEN e ELSE Null
    BY <2>2
  <2> HIDE DEF a
  <2>6. QED BY <2>3, <2>4, <2>5
<1> HIDE DEF a
<1>2. /\ m \in Memory
      /\ \A x \in Elements : /\ m.next[x] = IF x = List THEN List ELSE a.next[x]
                             /\ m.prev[x] = IF x = List THEN List ELSE a.prev[x]
  <2>1. /\ a = [next |-> a.next, prev |-> a.prev] /\ List \in Elements
        /\ a.next \in [Elements -> Elements \cup {Null}] /\ a.prev \in [Elements -> Elements \cup {Null}]
    BY <1>1, Apart DEF Memory
  <2>2. m = [next |-> [a.next EXCEPT ![List] = List], prev |-> [a.prev EXCEPT ![List] = List]]
    <3> DEFINE u == [a EXCEPT !.next[List] = List]
               v == [u EXCEPT !.prev[List] = List]
    <3>1. m = v
      BY DEF ListHeadInit
    <3>2. u = [next |-> [a.next EXCEPT ![List] = List], prev |-> a.prev]
      BY <2>1
    <3> HIDE DEF u
    <3>3. QED BY <3>1, <3>2
  <2>3. QED BY <2>1, <2>2 DEF Memory
<1> HIDE DEF m
<1>3. ASSUME NEW s \in SlotNumbers PROVE Linked(m, Slot(s), Items(OfSlot(<<>>, s)))
  <2>1. m.next[Slot(s)] = Slot(s) /\ m.prev[Slot(s)] = Slot(s)
    BY <1>1, <1>2, Apart
  <2>2. OfSlot(<<>>, s) = <<>>
    BY OfSlotEmpty
  <2> DEFINE t == Items(<<>>)
  <2>3. t \in Seq(ItemsOf(Ids)) /\ Len(t) = 0
    <3>1. <<>> \in Seq(Ids) /\ Len(<<>>) = 0
      BY EmptySeq
    <3>2. QED BY <3>1, ItemsAre
  <2> HIDE DEF t
  <2>4. \A k : At(Slot(s), t, k) = Slot(s)
    BY <2>3 DEF At
  <2>5. Linked(m, Slot(s), t)
    <3> DEFINE h == Slot(s)
    <3>1. \A k \in 0..Len(t) : m.next[At(h, t, k)] = At(h, t, k + 1) /\ m.prev[At(h, t, k + 1)] = At(h, t, k)
      BY <2>1, <2>4
    <3> HIDE DEF h
    <3>2. Linked(m, h, t)
      BY <2>3, <3>1, LinkedMeans
    <3>3. QED BY <3>2 DEF h
  <2>6. QED BY <2>2, <2>5 DEF t
<1>4. MapHolds(m, <<>>)
  BY <1>3 DEF MapHolds
<1>5. m.next[List] = List /\ m.prev[List] = List
  BY <1>2, Apart
<1>6. QED BY <1>2, <1>4, <1>5 DEF m, a

-----------------------------------------------------------------------------
(* The inductive invariant *)

\* The ids of the map: those of the list, and the one that is being added.
Both == IF lock = NoOne THEN order ELSE Append(order, arg[lock])

\* The k-th entry of the list, or its head.
Entry(q, k) == IF k \in 1..Len(q) THEN Foo(q[k]) ELSE List

FooTypes ==
    /\ links \in Memory /\ map_size \in Nat /\ list_size \in Nat /\ lock \in Workers \cup {NoOne}
    /\ pc \in [Workers -> {"idle", "adding", "listing", "encoding"}]
    /\ arg \in [Workers -> Ids \cup Pages \cup {Null}]
    /\ cursor \in [Workers -> [head : Elements \cup {Null}, left : Nat] \cup {Null}]
    /\ page \in [Workers -> Seq(Elements)]
    /\ order \in Seq(Ids) /\ replaced \in SUBSET Ids
    /\ fate \in {"up", "null", "head", "end"}

\* The lock is held by whoever adds an id, one that is new.
Locking ==
    /\ \A w \in Workers : pc[w] = "adding" <=> lock = w
    /\ lock # NoOne => arg[lock] \in Ids \ Range(order)

FooSizes ==
    /\ IsInjective(order) /\ SlotSeqs(Both) /\ list_size = Len(order)
    /\ fate # "end" => map_size = Len(Both) /\ MapHolds(links, Both)

\* The links of the list, up to the entry that is not published yet.
ListLinks ==
    fate # "end" =>
       /\ links.next[List] = Entry(order, 1)
       /\ links.prev[List] = IF lock = NoOne THEN Entry(order, Len(order)) ELSE Foo(arg[lock])
       /\ lock # NoOne => /\ links.next[Foo(arg[lock])] = List
                          /\ links.prev[Foo(arg[lock])] = Entry(order, Len(order))
       /\ \A k \in 1..Len(order) : \/ links.next[Foo(order[k])] = Entry(order, k + 1)
                                   \/ links.next[Foo(order[k])] = Null /\ order[k] \in replaced

\* A worker that lists: how far it is, and what it has encoded.
Encoding(w) ==
    LET n == Offset(arg[w])
        p == Len(page[w])
    IN /\ cursor[w] \in [head : Elements \cup {Null}, left : Nat]
       /\ p + cursor[w].left <= Len(order) - n
       /\ \/ cursor[w].head = Null /\ p = 0 /\ replaced # {}
          \/ cursor[w].head = Entry(order, n + 1 + p) /\ n + 1 + p <= Len(order)
          \/ cursor[w].head = List /\ cursor[w].left = 0
       /\ \A k \in 1..p : \/ n + k + 1 <= Len(order) /\ page[w][k] = Entry(order, n + k + 1)
                          \/ page[w][k] = List /\ k = p /\ cursor[w].left = 0
ListingBy(w) ==
    /\ pc[w] # "encoding" => page[w] = <<>>
    /\ pc[w] \in {"listing", "encoding"} => arg[w] \in Pages /\ Offset(arg[w]) < Len(order)
    /\ pc[w] = "encoding" => Encoding(w)
Listing == \A w \in Workers : ListingBy(w)

Fates ==
    /\ fate = "null" => replaced # {}
    /\ fate = "end" => /\ \A w \in Workers : pc[w] = "idle"
                       /\ Len(freed) = list_size /\ Range(freed) = Range(order)
    /\ fate # "end" => freed = <<>>

FooIInv == FooTypes /\ Locking /\ FooSizes /\ ListLinks /\ Listing /\ Fates

-----------------------------------------------------------------------------
(* What it says *)

\* Who holds the lock is adding a new id; nobody else is.
LEMMA Threads ==
  ASSUME Parameters, FooIInv
  PROVE  /\ lock # NoOne => lock \in Workers /\ arg[lock] \in Ids \ Range(order) /\ pc[lock] = "adding"
         /\ \A w \in Workers : pc[w] # "adding" => lock # w
         /\ \A w \in Workers : pc[w] = "adding" => lock = w /\ lock # NoOne
         /\ fate = "end" => lock = NoOne
  BY DEF FooIInv, FooTypes, Locking, Fates, Parameters

\* The ids of the map are no more than there are, so that a walk of Bound steps is through.
LEMMA BothAre ==
  ASSUME Parameters, FooIInv
  PROVE  /\ Both \in Seq(Ids) /\ IsInjective(Both) /\ Len(Both) \in Nat /\ Len(Both) <= Bound
         /\ Range(order) \subseteq Ids /\ Cardinality(Range(order)) = Len(order) /\ Len(order) \in Nat
<1>1. order \in Seq(Ids) /\ IsInjective(order)
  BY DEF FooIInv, FooTypes, FooSizes
<1>2. Both \in Seq(Ids) /\ IsInjective(Both)
  <2>1. CASE lock = NoOne
    BY <1>1, <2>1 DEF Both
  <2>2. CASE lock # NoOne
    <3>1. arg[lock] \in Ids /\ arg[lock] \notin Range(order)
      BY <2>2, Threads
    <3>2. Append(order, arg[lock]) \in Seq(Ids) /\ IsInjective(Append(order, arg[lock]))
      BY <1>1, <3>1, OnceAppend, AppendProperties
    <3>3. QED BY <2>2, <3>2 DEF Both
  <2>3. QED BY <2>1, <2>2
<1>3. Len(Both) \in Nat /\ Len(Both) <= Bound
  <2> DEFINE b == Both
  <2>1. b \in Seq(Ids) /\ IsInjective(b)
    BY <1>2
  <2> HIDE DEF b
  <2>2. Cardinality(Range(b)) = Len(b) /\ Len(b) \in Nat
    BY <2>1, Counted, LenProperties
  <2>3. Range(b) \subseteq Ids
    BY <2>1, ElementOfSeq, LenProperties DEF Range
  <2>4. IsFiniteSet(Ids)
    BY DEF Parameters
  <2>5. Cardinality(Range(b)) <= Cardinality(Ids) /\ Cardinality(Ids) \in Nat
    BY <2>3, <2>4, FS_Subset, FS_CardinalityType
  <2>6. Len(b) <= Bound
    BY <2>2, <2>5 DEF Bound
  <2>7. QED BY <2>2, <2>6 DEF b
<1>4. Range(order) \subseteq Ids
  BY <1>1, ElementOfSeq, LenProperties DEF Range
<1>5. QED BY <1>1, <1>2, <1>3, <1>4, Counted, LenProperties

\* While nobody holds the lock, get finds what has been added.
LEMMA GetFinds ==
  ASSUME Parameters, FooIInv, lock = NoOne, fate = "up", NEW id \in Ids
  PROVE  MapGet(links, id) <=> id \in Range(order)
<1> DEFINE s == FooHash(id)
           q == OfSlot(order, s)
<1>1. s \in SlotNumbers /\ id \in Members(s)
  BY Hashed DEF Members
<1>2. Both = order
  BY DEF Both
<1>3. /\ q \in Seq(Members(s)) /\ Len(q) <= Len(order) /\ Range(q) = Range(order) \cap Members(s)
      /\ Linked(links, Slot(s), Items(q))
  <2> HIDE DEF s
  <2>1. QED BY <1>1, <1>2 DEF FooIInv, FooSizes, SlotSeqs, MapHolds
<1>4. q \in Seq(Ids)
  <2>1. Members(s) \subseteq Ids
    BY DEF Members
  <2> HIDE DEF q
  <2>2. QED BY <1>3, <2>1, SeqMonotonic
<1>5. Len(q) <= Bound
  <2>1. Len(order) \in Nat /\ Len(order) <= Bound
    BY <1>2, BothAre
  <2>2. Bound \in Nat
    BY FS_CardinalityType DEF Bound, Parameters
  <2>3. Len(q) \in Nat
    BY <1>4, LenProperties
  <2>4. QED BY <1>3, <2>1, <2>2, <2>3
<1> HIDE DEF q
<1>6. MapGet(links, id) <=> id \in Range(q)
  BY <1>3, <1>4, <1>5, MapGetFinds
<1>7. QED BY <1>1, <1>3, <1>6

\* Where a walk of the list is: at the next entry, or lost behind a replaced one.
LEMMA ListWalk ==
  ASSUME Parameters, FooIInv, fate = "up", NEW b \in Nat, b < Len(order)
  PROVE  \A n \in 0..b : \/ WalkTo(links, List, n) = Entry(order, n + 1)
                         \/ WalkTo(links, List, n) = Null /\ replaced # {}
<1> DEFINE at(n) == WalkTo(links, List, n)
           P == {n \in 0..b : at(n) = Entry(order, n + 1) \/ (at(n) = Null /\ replaced # {})}
<1>1. Len(order) \in Nat
  BY BothAre
<1>2. /\ links.next[List] = Entry(order, 1)
      /\ \A k \in 1..Len(order) : \/ links.next[Foo(order[k])] = Entry(order, k + 1)
                                  \/ links.next[Foo(order[k])] = Null /\ order[k] \in replaced
  BY DEF FooIInv, ListLinks
<1>3. 0 \in P
  <2>1. at(0) = links.next[List]
    BY WalkStep
  <2> HIDE DEF at
  <2>2. QED BY <1>2, <2>1
<1>4. ASSUME NEW n \in 0..b, n < b, n \in P PROVE n + 1 \in P
  <2>1. n \in Nat /\ n + 1 \in 0..b /\ n + 1 \in 1..Len(order)
    BY <1>1, <1>4
  <2>2. at(n + 1) = Onward(links, List, at(n))
    BY <2>1, WalkStep
  <2> HIDE DEF at
  <2>3. CASE at(n) = Null /\ replaced # {}
    <3>1. at(n + 1) = Null
      BY <2>2, <2>3 DEF Onward
    <3>2. QED BY <2>1, <2>3, <3>1
  <2>4. CASE at(n) = Entry(order, n + 1)
    <3> DEFINE k == n + 1
    <3>1. k \in 1..Len(order) /\ at(n) = Foo(order[k])
      BY <2>1, <2>4 DEF Entry
    <3>2. order[k] \in Ids
      BY <3>1, BothAre, ElementOfSeq DEF FooIInv, FooTypes
    <3>3. Foo(order[k]) \notin {List, Null}
      BY <3>2, Apart
    <3> HIDE DEF k
    <3>4. Onward(links, List, at(n)) = links.next[Foo(order[k])]
      BY <3>1, <3>3 DEF Onward
    <3>5. at(k) = Entry(order, k + 1) \/ (at(k) = Null /\ replaced # {})
      BY <1>2, <2>2, <3>1, <3>4 DEF k
    <3>6. QED BY <2>1, <3>5 DEF k
  <2>5. QED BY <1>4, <2>3, <2>4
<1>5. b \in Nat
  OBVIOUS
<1> HIDE DEF P
<1>6. \A n \in 0..b : n \in P
  BY ONLY <1>3, <1>4, <1>5, UpTo
<1>7. QED BY <1>6 DEF P

-----------------------------------------------------------------------------
(* What a step leaves *)

\* Entries that are added later do not disturb a worker that lists.
LEMMA ListingStays ==
  ASSUME Parameters, FooTypes, FooTypes', NEW w \in Workers, ListingBy(w),
         pc'[w] = pc[w], arg'[w] = arg[w], cursor'[w] = cursor[w], page'[w] = page[w],
         Len(order) <= Len(order'), \A k \in 1..Len(order) : order'[k] = order[k],
         replaced \subseteq replaced'
  PROVE  ListingBy(w)'
<1> DEFINE n == Offset(arg[w])
           p == Len(page[w])
           l == Len(order)
           m == Len(order')
           c == cursor[w]
<1>1. l \in Nat /\ m \in Nat /\ p \in Nat /\ l <= m
  BY LenProperties DEF FooTypes
<1>2. ASSUME pc[w] \in {"listing", "encoding"} PROVE n \in Nat /\ n < l /\ n < m
  <2>1. arg[w] \in Pages /\ n < l
    BY <1>2 DEF ListingBy
  <2>2. arg[w].page \in Nat /\ arg[w].page_size \in Nat
    BY <2>1 DEF Parameters
  <2>3. n \in Nat
    BY <2>2 DEF Offset
  <2> HIDE DEF n, l, m
  <2>4. QED BY <1>1, <2>1, <2>3
<1>3. ASSUME NEW k \in 1..l PROVE Entry(order', k) = Entry(order, k)
  <2>1. k \in 1..m
    BY <1>1
  <2>2. QED BY <2>1 DEF Entry
<1>4. /\ Offset(arg'[w]) = n /\ Len(page'[w]) = p /\ cursor'[w] = c
  OBVIOUS
<1>5. ASSUME pc[w] = "encoding" PROVE Encoding(w)'
  <2>1. /\ c \in [head : Elements \cup {Null}, left : Nat]
        /\ p + c.left <= l - n
        /\ \/ c.head = Null /\ p = 0 /\ replaced # {}
           \/ c.head = Entry(order, n + 1 + p) /\ n + 1 + p <= l
           \/ c.head = List /\ c.left = 0
        /\ \A k \in 1..p : \/ n + k + 1 <= l /\ page[w][k] = Entry(order, n + k + 1)
                           \/ page[w][k] = List /\ k = p /\ c.left = 0
    BY <1>5 DEF ListingBy, Encoding
  <2>2. n \in Nat /\ n < l
    BY <1>2, <1>5
  <2> HIDE DEF n, p, l, m, c
  <2>3. p + c.left <= m - n
    <3>1. c.left \in Nat
      BY <2>1
    <3>2. QED BY <1>1, <2>1, <2>2, <3>1
  <2>4. \/ c.head = Null /\ p = 0 /\ replaced' # {}
        \/ c.head = Entry(order', n + 1 + p) /\ n + 1 + p <= m
        \/ c.head = List /\ c.left = 0
    <3>1. CASE c.head = Entry(order, n + 1 + p) /\ n + 1 + p <= l
      <4> DEFINE k == n + 1 + p
      <4>1. k \in 1..l /\ k <= m
        BY <1>1, <2>2, <3>1
      <4> HIDE DEF k
      <4>2. Entry(order', k) = Entry(order, k)
        BY <1>3, <4>1
      <4>3. c.head = Entry(order', k) /\ k <= m
        BY <3>1, <4>1, <4>2 DEF k
      <4>4. QED BY <4>3 DEF k
    <3>2. QED BY <2>1, <3>1
  <2>5. ASSUME NEW k \in 1..p
        PROVE  \/ n + k + 1 <= m /\ page'[w][k] = Entry(order', n + k + 1)
               \/ page'[w][k] = List /\ k = p /\ c.left = 0
    <3>1. CASE n + k + 1 <= l /\ page[w][k] = Entry(order, n + k + 1)
      <4> DEFINE x == n + k + 1
      <4>1. x \in 1..l /\ x <= m
        BY <1>1, <2>2, <3>1
      <4> HIDE DEF x
      <4>2. Entry(order', x) = Entry(order, x)
        BY <1>3, <4>1
      <4>3. x <= m /\ page'[w][k] = Entry(order', x)
        BY <3>1, <4>1, <4>2 DEF x
      <4>4. QED BY <4>3 DEF x
    <3>2. QED BY <2>1, <3>1
  <2>6. QED BY <1>4, <2>1, <2>3, <2>4, <2>5 DEF Encoding, m
<1>6. pc'[w] # "encoding" => page'[w] = <<>>
  BY DEF ListingBy
<1>7. pc'[w] \in {"listing", "encoding"} => arg'[w] \in Pages /\ Offset(arg'[w]) < m
  BY <1>2, <1>4 DEF ListingBy
<1>8. QED BY <1>5, <1>6, <1>7 DEF ListingBy

\* A step of a worker that has nothing to do with the map or the list.
LEMMA DataStays ==
  ASSUME Parameters, FooIInv, UNCHANGED <<links, map_size, list_size, lock, order, replaced>>,
         lock # NoOne => arg'[lock] = arg[lock], fate = "up", fate' # "end"
  PROVE  FooSizes' /\ ListLinks'
<1>1. Both' = Both
  BY DEF Both
<1>2. \A k : Entry(order', k) = Entry(order, k)
  BY DEF Entry
<1>3. FooSizes'
  <2> DEFINE b == Both
  <2>1. SlotSeqs(Both)' <=> SlotSeqs(Both')
    BY DEF SlotSeqs
  <2>2. QED BY <1>1, <2>1 DEF FooIInv, FooSizes
<1>4. ListLinks'
  <2>1. lock # NoOne => Foo(arg'[lock]) = Foo(arg[lock])
    OBVIOUS
  <2>2. QED BY <1>2, <2>1 DEF FooIInv, ListLinks
<1>5. QED BY <1>3, <1>4

-----------------------------------------------------------------------------
(* The steps of a worker that lists *)

\* They concern nobody else.
LEMMA ListerStep ==
  ASSUME Parameters, FooIInv, FooTypes', NEW w \in Workers,
         UNCHANGED <<links, map_size, list_size, lock, order, replaced>>,
         \A v \in Workers \ {w} : /\ pc'[v] = pc[v] /\ arg'[v] = arg[v]
                                  /\ cursor'[v] = cursor[v] /\ page'[v] = page[v],
         pc[w] # "adding", pc'[w] # "adding", ListingBy(w)', UNCHANGED freed,
         fate = "up", fate' \in {"up", "null", "head"}, fate' = "null" => replaced # {}
  PROVE  FooIInv'
<1>1. FooTypes /\ Locking /\ FooSizes /\ Listing
  BY DEF FooIInv
<1>2. lock # w /\ (lock # NoOne => lock \in Workers \ {w})
  BY Threads
<1>3. Locking'
  BY <1>1, <1>2 DEF Locking
<1>4. FooSizes' /\ ListLinks'
  BY <1>2, DataStays
<1>5. ASSUME NEW v \in Workers, v # w PROVE ListingBy(v)'
  <2>1. /\ pc'[v] = pc[v] /\ arg'[v] = arg[v] /\ cursor'[v] = cursor[v] /\ page'[v] = page[v]
        /\ order' = order /\ replaced' = replaced /\ ListingBy(v)
    BY <1>1, <1>5 DEF Listing
  <2>2. Len(order) <= Len(order') /\ replaced \subseteq replaced' /\ \A k \in 1..Len(order) : order'[k] = order[k]
    BY <1>1, <2>1, LenProperties DEF FooTypes
  <2>3. QED BY <1>1, <2>1, <2>2, ListingStays
<1>6. Listing'
  BY <1>5 DEF Listing
<1>7. Fates'
  BY DEF FooIInv, Fates
<1>8. QED BY <1>3, <1>4, <1>6, <1>7 DEF FooIInv

\* ListBegin: the size that it has read is of the past, and the list has only grown.
LEMMA StepListBegin ==
  ASSUME Parameters, FooIInv, NEW w \in Workers, NEW p \in Pages, ListBegin(w, p)
  PROVE  FooIInv'
<1>1. /\ fate = "up" /\ pc[w] = "idle" /\ Offset(p) < list_size
      /\ arg' = [arg EXCEPT ![w] = p] /\ pc' = [pc EXCEPT ![w] = "listing"]
      /\ UNCHANGED <<links, map_size, list_size, lock, cursor, page, order, replaced, fate, freed>>
  BY DEF ListBegin
<1>2. FooTypes /\ Listing /\ list_size = Len(order)
  BY DEF FooIInv, FooSizes
<1>3. FooTypes'
  BY <1>1, <1>2 DEF FooTypes
<1>4. /\ pc'[w] = "listing" /\ arg'[w] = p
      /\ \A v \in Workers \ {w} : pc'[v] = pc[v] /\ arg'[v] = arg[v]
  BY <1>1, <1>2 DEF FooTypes
<1>5. page'[w] = <<>>
  BY <1>1, <1>2 DEF Listing, ListingBy
<1>6. ListingBy(w)'
  BY <1>1, <1>2, <1>4, <1>5 DEF ListingBy
<1>7. QED BY <1>1, <1>3, <1>4, <1>6, ListerStep

\* ListFoo: it comes to the first entry of the page, or into a Null that a replacement has left.
LEMMA StepListFoo ==
  ASSUME Parameters, FooIInv, NEW w \in Workers, ListFoo(w)
  PROVE  FooIInv'
<1> DEFINE p == arg[w]
           n == Offset(p)
           lost == \E k \in 0..(n - 1) : WalkTo(links, List, k) = Null
           c == [head |-> WalkTo(links, List, n), left |-> PageLength(p)]
<1>1. /\ fate = "up" /\ pc[w] = "listing" /\ lock = NoOne
      /\ UNCHANGED <<links, map_size, list_size, lock, arg, page, order, replaced, freed>>
  BY DEF ListFoo
<1>2. \/ lost /\ fate' = "null" /\ UNCHANGED <<cursor, pc>>
      \/ cursor' = [cursor EXCEPT ![w] = c] /\ pc' = [pc EXCEPT ![w] = "encoding"] /\ UNCHANGED fate
  BY DEF ListFoo
<1>3. FooTypes /\ Listing /\ list_size = Len(order) /\ Len(order) \in Nat
  BY BothAre DEF FooIInv, FooSizes
<1>4. p \in Pages /\ n < Len(order) /\ page[w] = <<>> /\ ListingBy(w)
  BY <1>1, <1>3 DEF Listing, ListingBy
<1>5. p.page \in Nat /\ p.page_size \in Nat
  BY <1>4 DEF Parameters
<1>6. n \in Nat
  BY <1>5 DEF Offset
<1>7. \A k \in 0..n : \/ WalkTo(links, List, k) = Entry(order, k + 1)
                      \/ WalkTo(links, List, k) = Null /\ replaced # {}
  BY <1>1, <1>4, <1>6, ListWalk
<1>8. ASSUME lost, fate' = "null", UNCHANGED <<cursor, pc>> PROVE FooIInv'
  <2> HIDE DEF p
  <2>1. replaced # {}
    <3>1. PICK k \in 0..(n - 1) : WalkTo(links, List, k) = Null
      BY <1>8
    <3>2. k \in 0..n /\ k + 1 \in 1..Len(order)
      BY <1>3, <1>4, <1>6
    <3>3. order[k + 1] \in Ids
      BY <1>3, <3>2, ElementOfSeq DEF FooTypes
    <3>4. Entry(order, k + 1) # Null
      BY <3>2, <3>3, Apart DEF Entry
    <3>5. QED BY <1>7, <3>1, <3>2, <3>4
  <2>2. FooTypes'
    BY <1>1, <1>3, <1>8 DEF FooTypes
  <2>3. ListingBy(w)'
    <3>1. Len(order) <= Len(order') /\ replaced \subseteq replaced' /\ \A k \in 1..Len(order) : order'[k] = order[k]
      BY <1>1, <1>3
    <3>2. pc'[w] = pc[w] /\ arg'[w] = arg[w] /\ cursor'[w] = cursor[w] /\ page'[w] = page[w]
      BY <1>1, <1>8
    <3>3. QED BY <1>3, <1>4, <2>2, <3>1, <3>2, ListingStays
  <2>4. pc[w] # "adding" /\ pc'[w] # "adding"
    BY <1>1, <1>8
  <2>5. \A v \in Workers \ {w} : /\ pc'[v] = pc[v] /\ arg'[v] = arg[v]
                                 /\ cursor'[v] = cursor[v] /\ page'[v] = page[v]
    BY <1>1, <1>8
  <2>6. QED BY <1>1, <1>8, <2>1, <2>2, <2>3, <2>4, <2>5, ListerStep
<1>9. ASSUME cursor' = [cursor EXCEPT ![w] = c], pc' = [pc EXCEPT ![w] = "encoding"], UNCHANGED fate
      PROVE  FooIInv'
  <2>1. PageLength(p) \in Nat /\ PageLength(p) <= Len(order) - n
    <3> HIDE DEF p, n
    <3>1. list_size - n \in Nat
      BY <1>3, <1>4, <1>6
    <3>2. PageLength(p) = IF list_size - n < p.page_size THEN list_size - n ELSE p.page_size
      BY DEF PageLength, Lesser, n
    <3>3. QED BY <1>3, <1>5, <3>1, <3>2
  <2>2. /\ c.head = WalkTo(links, List, n) /\ c.left = PageLength(p)
        /\ c = [head |-> c.head, left |-> c.left]
    OBVIOUS
  <2>3. n \in 0..n /\ n + 1 \in 1..Len(order)
    BY <1>3, <1>4, <1>6
  <2>4. order[n + 1] \in Ids
    BY <1>3, <2>3, ElementOfSeq DEF FooTypes
  <2>5. Entry(order, n + 1) \in Elements
    BY <2>3, <2>4, Apart DEF Entry
  <2>6. \/ c.head = Entry(order, n + 1)
        \/ c.head = Null /\ replaced # {}
    BY <1>7, <2>2, <2>3
  <2> HIDE DEF c
  <2>7. c \in [head : Elements \cup {Null}, left : Nat]
    BY <2>1, <2>2, <2>5, <2>6
  <2>8. FooTypes'
    <3>1. cursor' \in [Workers -> [head : Elements \cup {Null}, left : Nat] \cup {Null}]
      BY <1>3, <1>9, <2>7 DEF FooTypes
    <3>2. pc' \in [Workers -> {"idle", "adding", "listing", "encoding"}]
      BY <1>3, <1>9 DEF FooTypes
    <3>3. QED BY <1>1, <1>3, <1>9, <3>1, <3>2 DEF FooTypes
  <2>9. /\ cursor'[w] = c /\ pc'[w] = "encoding" /\ arg'[w] = p /\ page'[w] = <<>>
        /\ \A v \in Workers \ {w} : /\ pc'[v] = pc[v] /\ arg'[v] = arg[v]
                                    /\ cursor'[v] = cursor[v] /\ page'[v] = page[v]
    BY <1>1, <1>3, <1>4, <1>9 DEF FooTypes
  <2>10. Len(<<>>) = 0
    BY EmptySeq
  <2>11. Encoding(w)'
    <3>1. Offset(arg'[w]) = n /\ Len(page'[w]) = 0 /\ cursor'[w] = c /\ order' = order /\ replaced' = replaced
      BY <1>1, <2>9, <2>10
    <3> HIDE DEF n
    <3>2. 0 + c.left <= Len(order) - n
      BY <1>3, <1>6, <2>1, <2>2
    <3>3. n + 1 + 0 = n + 1 /\ n + 1 <= Len(order)
      BY <1>3, <1>4, <1>6
    <3>4. \/ c.head = Null /\ 0 = 0 /\ replaced # {}
          \/ c.head = Entry(order, n + 1 + 0) /\ n + 1 + 0 <= Len(order)
          \/ c.head = List /\ c.left = 0
      BY <2>6, <3>3
    <3>5. \A k \in 1..0 : FALSE
      OBVIOUS
    <3>6. QED BY <2>7, <3>1, <3>2, <3>4, <3>5 DEF Encoding
  <2>12. ListingBy(w)'
    BY <1>1, <1>4, <2>9, <2>11 DEF ListingBy
  <2>13. QED BY <1>1, <1>9, <2>8, <2>9, <2>12, ListerStep
<1>10. QED BY <1>2, <1>8, <1>9

\* The k-th entry is an entry of the list, or the head behind its end.
LEMMA EntryIs ==
  ASSUME Parameters, NEW q \in Seq(Ids), NEW k
  PROVE  /\ Entry(q, k) \in Elements /\ Entry(q, k) # Null
         /\ k \in 1..Len(q) => Entry(q, k) = Foo(q[k]) /\ q[k] \in Ids /\ q[k] \in Range(q) /\ Entry(q, k) # List
         /\ k \notin 1..Len(q) => Entry(q, k) = List
<1>1. CASE k \in 1..Len(q)
  <2>1. q[k] \in Ids /\ k \in DOMAIN q
    BY <1>1, ElementOfSeq, LenProperties
  <2>2. QED BY <1>1, <2>1, Apart DEF Entry, Range
<1>2. CASE k \notin 1..Len(q)
  BY <1>2, Apart DEF Entry
<1>3. QED BY <1>1, <1>2

\* What the encoder comes to.
LEMMA EncoderMeets ==
  ASSUME Parameters, FooIInv, NEW w \in Workers, pc[w] = "encoding", cursor[w].left > 0, fate = "up",
         NEW s, s = IF cursor[w].head = Null THEN Null ELSE links.next[cursor[w].head]
  PROVE  \/ s = Null /\ replaced # {}
         \/ /\ s = Entry(order, Offset(arg[w]) + 1 + Len(page[w]) + 1)
            /\ Offset(arg[w]) + 1 + Len(page[w]) <= Len(order)
<1> DEFINE n == Offset(arg[w])
           p == Len(page[w])
           h == cursor[w].head
           m == n + 1 + p
<1>1. ListingBy(w) /\ Encoding(w) /\ order \in Seq(Ids) /\ Len(order) \in Nat /\ p \in Nat
  BY BothAre, LenProperties DEF FooIInv, FooTypes, Listing, ListingBy
<1>2. n \in Nat /\ n < Len(order)
  <2>1. arg[w] \in Pages /\ n < Len(order)
    BY <1>1 DEF ListingBy
  <2>2. arg[w].page \in Nat /\ arg[w].page_size \in Nat
    BY <2>1 DEF Parameters
  <2>3. QED BY <2>1, <2>2 DEF Offset
<1>3. \A k \in 1..Len(order) : \/ links.next[Foo(order[k])] = Entry(order, k + 1)
                               \/ links.next[Foo(order[k])] = Null /\ order[k] \in replaced
  BY DEF FooIInv, ListLinks
<1>4. \/ h = Null /\ replaced # {}
      \/ h = Entry(order, m) /\ m <= Len(order)
      \/ h = List /\ cursor[w].left = 0
  BY <1>1 DEF Encoding
<1>5. CASE h = Null /\ replaced # {}
  BY <1>5
<1>6. CASE h = Entry(order, m) /\ m <= Len(order)
  <2>1. m \in 1..Len(order)
    BY <1>1, <1>2, <1>6
  <2> HIDE DEF m, h
  <2>2. h = Foo(order[m]) /\ h # Null
    BY <1>1, <1>6, <2>1, EntryIs
  <2>3. s = links.next[Foo(order[m])]
    BY <2>2 DEF h
  <2>4. s = Entry(order, m + 1) \/ (s = Null /\ order[m] \in replaced)
    BY <1>3, <2>1, <2>3
  <2>5. QED BY <1>6, <2>4 DEF m
<1>7. QED BY <1>4, <1>5, <1>6

\* Encode: the entry behind the last one, or the head, or the end of the process.
LEMMA StepEncode ==
  ASSUME Parameters, FooIInv, NEW w \in Workers, Encode(w)
  PROVE  FooIInv'
<1> DEFINE c == cursor[w]
           s == IF c.head = Null THEN Null ELSE links.next[c.head]
           n == Offset(arg[w])
           p == Len(page[w])
           l == Len(order)
<1>1. /\ fate = "up" /\ pc[w] = "encoding" /\ c.left > 0
      /\ UNCHANGED <<links, map_size, list_size, lock, pc, arg, order, replaced, freed>>
  BY DEF Encode
<1>2. \/ s = Null /\ fate' = "null" /\ UNCHANGED <<cursor, page>>
      \/ s = List /\ fate' = "head" /\ UNCHANGED <<cursor, page>>
      \/ /\ s # Null
         /\ page' = [page EXCEPT ![w] = Append(@, s)]
         /\ cursor' = [cursor EXCEPT ![w] = [head |-> s, left |-> @.left - 1]]
         /\ UNCHANGED fate
  BY DEF Encode
<1>3. FooTypes /\ ListingBy(w) /\ Encoding(w) /\ order \in Seq(Ids) /\ l \in Nat /\ p \in Nat
  BY <1>1, BothAre, LenProperties DEF FooIInv, FooTypes, Listing, ListingBy
<1>4. n \in Nat /\ n < l /\ arg[w] \in Pages
  <2>1. arg[w] \in Pages /\ n < l
    BY <1>1, <1>3 DEF ListingBy
  <2>2. arg[w].page \in Nat /\ arg[w].page_size \in Nat
    BY <2>1 DEF Parameters
  <2>3. QED BY <2>1, <2>2 DEF Offset
<1>5. \/ s = Null /\ replaced # {}
      \/ s = Entry(order, n + 1 + p + 1) /\ n + 1 + p <= l
  <2>1. s = IF c.head = Null THEN Null ELSE links.next[c.head]
    OBVIOUS
  <2> HIDE DEF s
  <2>2. QED BY <1>1, <2>1, EncoderMeets
<1> HIDE DEF s
<1>6. ASSUME fate' \in {"null", "head"}, fate' = "null" => s = Null, UNCHANGED <<cursor, page>> PROVE FooIInv'
  <2>1. FooTypes'
    BY <1>1, <1>3, <1>6 DEF FooTypes
  <2>2. fate' = "null" => replaced # {}
    <3>1. \A k : Entry(order, k) # Null
      BY <1>3, EntryIs
    <3>2. QED BY <1>5, <1>6, <3>1
  <2>3. ListingBy(w)'
    <3>1. Len(order) <= Len(order') /\ replaced \subseteq replaced' /\ \A k \in 1..Len(order) : order'[k] = order[k]
      BY <1>1, <1>3
    <3>2. pc'[w] = pc[w] /\ arg'[w] = arg[w] /\ cursor'[w] = cursor[w] /\ page'[w] = page[w]
      BY <1>1, <1>6
    <3>3. QED BY <1>3, <2>1, <3>1, <3>2, ListingStays
  <2>4. \A v \in Workers \ {w} : /\ pc'[v] = pc[v] /\ arg'[v] = arg[v]
                                 /\ cursor'[v] = cursor[v] /\ page'[v] = page[v]
    BY <1>1, <1>6
  <2>5. pc[w] # "adding" /\ pc'[w] # "adding"
    BY <1>1
  <2>6. QED BY <1>1, <1>6, <2>1, <2>2, <2>3, <2>4, <2>5, ListerStep
<1>7. ASSUME s # Null, page' = [page EXCEPT ![w] = Append(@, s)],
             cursor' = [cursor EXCEPT ![w] = [head |-> s, left |-> @.left - 1]], UNCHANGED fate
      PROVE  FooIInv'
  <2> DEFINE d == [head |-> s, left |-> c.left - 1]
             a == Append(page[w], s)
  <2>1. s = Entry(order, n + 1 + p + 1) /\ n + 1 + p <= l
    BY <1>5, <1>7
  <2>2. s \in Elements
    BY <1>3, <2>1, EntryIs
  <2>3. /\ c \in [head : Elements \cup {Null}, left : Nat] /\ p + c.left <= l - n
        /\ \A k \in 1..p : \/ n + k + 1 <= l /\ page[w][k] = Entry(order, n + k + 1)
                           \/ page[w][k] = List /\ k = p /\ c.left = 0
    BY <1>3 DEF Encoding
  <2>4. c.left \in Nat /\ c.left - 1 \in Nat
    BY <1>1, <2>3
  <2>5. d \in [head : Elements \cup {Null}, left : Nat] /\ d.head = s /\ d.left = c.left - 1
    BY <2>2, <2>4
  <2>6. page[w] \in Seq(Elements)
    BY <1>3 DEF FooTypes
  <2>7. a \in Seq(Elements) /\ Len(a) = p + 1 /\ a[p + 1] = s /\ \A k \in 1..p : a[k] = page[w][k]
    BY <2>2, <2>6, AppendProperties
  <2>8. /\ cursor' = [cursor EXCEPT ![w] = d] /\ page' = [page EXCEPT ![w] = a]
    BY <1>7
  <2> HIDE DEF d, a
  <2>9. FooTypes'
    <3>1. cursor' \in [Workers -> [head : Elements \cup {Null}, left : Nat] \cup {Null}]
      BY <1>3, <2>5, <2>8 DEF FooTypes
    <3>2. page' \in [Workers -> Seq(Elements)]
      BY <1>3, <2>7, <2>8 DEF FooTypes
    <3>3. QED BY <1>1, <1>3, <1>7, <3>1, <3>2 DEF FooTypes
  <2>10. /\ cursor'[w] = d /\ page'[w] = a /\ pc'[w] = "encoding" /\ arg'[w] = arg[w]
         /\ \A v \in Workers \ {w} : /\ pc'[v] = pc[v] /\ arg'[v] = arg[v]
                                     /\ cursor'[v] = cursor[v] /\ page'[v] = page[v]
    BY <1>1, <1>3, <2>8 DEF FooTypes
  <2>11. Encoding(w)'
    <3>1. /\ Offset(arg'[w]) = n /\ Len(page'[w]) = p + 1 /\ cursor'[w] = d /\ page'[w] = a
          /\ order' = order /\ replaced' = replaced
      BY <1>1, <2>7, <2>10
    <3> HIDE DEF n, p, l, c
    <3>2. p + 1 + d.left <= l - n
      BY <1>3, <1>4, <2>3, <2>4, <2>5
    <3>3. n + 1 + p + 1 = n + 1 + (p + 1) /\ n + 1 + (p + 1) \in Nat /\ n + (p + 1) + 1 = n + 1 + (p + 1)
      BY <1>3, <1>4
    <3>4. CASE n + 1 + p < l
      <4>1. n + 1 + (p + 1) <= l /\ s = Entry(order, n + 1 + (p + 1))
        BY <1>3, <1>4, <2>1, <3>3, <3>4
      <4>2. ASSUME NEW k \in 1..(p + 1)
            PROVE  n + k + 1 <= l /\ a[k] = Entry(order, n + k + 1)
        <5>1. CASE k \in 1..p
          <6>1. c.left # 0
            BY <1>1, <2>4
          <6>2. QED BY <2>3, <2>7, <5>1, <6>1
        <5>2. CASE k = p + 1
          BY <2>7, <3>3, <4>1, <5>2
        <5>3. QED BY <1>3, <5>1, <5>2
      <4>3. QED BY <2>5, <3>1, <3>2, <4>1, <4>2 DEF Encoding, l
    <3>5. CASE ~(n + 1 + p < l)
      <4>1. n + 1 + p = l /\ d.left = 0
        BY <1>3, <1>4, <2>1, <2>3, <2>4, <2>5, <3>5
      <4>2. s = List
        <5> DEFINE x == n + 1 + p + 1
        <5>1. x \notin 1..l
          BY <1>3, <4>1
        <5>2. s = Entry(order, x)
          BY <2>1
        <5> HIDE DEF x
        <5>3. QED BY <1>3, <5>1, <5>2, EntryIs DEF l
      <4>3. ASSUME NEW k \in 1..(p + 1)
            PROVE  \/ n + k + 1 <= l /\ a[k] = Entry(order, n + k + 1)
                   \/ a[k] = List /\ k = p + 1 /\ d.left = 0
        <5>1. CASE k \in 1..p
          <6>1. c.left # 0
            BY <1>1, <2>4
          <6>2. QED BY <2>3, <2>7, <5>1, <6>1
        <5>2. CASE k = p + 1
          BY <2>7, <4>1, <4>2, <5>2
        <5>3. QED BY <1>3, <5>1, <5>2
      <4>4. QED BY <2>5, <3>1, <3>2, <4>1, <4>2, <4>3 DEF Encoding, l
    <3>6. QED BY <3>4, <3>5
  <2>12. ListingBy(w)'
    <3>1. order' = order
      BY <1>1
    <3>2. QED BY <1>4, <2>10, <2>11, <3>1 DEF ListingBy
  <2>13. pc[w] # "adding" /\ pc'[w] # "adding" /\ fate' = "up"
    BY <1>1, <1>7
  <2>14. QED BY <1>1, <2>9, <2>10, <2>12, <2>13, ListerStep
<1>8. QED BY <1>2, <1>6, <1>7

\* EncodeDone: the worker is done with its page.
LEMMA StepEncodeDone ==
  ASSUME Parameters, FooIInv, NEW w \in Workers, EncodeDone(w)
  PROVE  FooIInv'
<1>1. /\ fate = "up" /\ pc[w] = "encoding"
      /\ pc' = [pc EXCEPT ![w] = "idle"] /\ arg' = [arg EXCEPT ![w] = Null]
      /\ cursor' = [cursor EXCEPT ![w] = Null] /\ page' = [page EXCEPT ![w] = <<>>]
      /\ UNCHANGED <<links, map_size, list_size, lock, order, replaced, fate, freed>>
  BY DEF EncodeDone
<1>2. FooTypes
  BY DEF FooIInv
<1>3. FooTypes'
  <2>1. <<>> \in Seq(Elements)
    BY EmptySeq
  <2>2. page' \in [Workers -> Seq(Elements)]
    BY <1>1, <1>2, <2>1 DEF FooTypes
  <2>3. QED BY <1>1, <1>2, <2>2 DEF FooTypes
<1>4. /\ pc'[w] = "idle" /\ page'[w] = <<>>
      /\ \A v \in Workers \ {w} : /\ pc'[v] = pc[v] /\ arg'[v] = arg[v]
                                  /\ cursor'[v] = cursor[v] /\ page'[v] = page[v]
  BY <1>1, <1>2 DEF FooTypes
<1>5. ListingBy(w)'
  BY <1>4 DEF ListingBy
<1>6. QED BY <1>1, <1>3, <1>4, <1>5, ListerStep

-----------------------------------------------------------------------------
(* The steps that put *)

\* They disturb nobody who lists.
LEMMA PutStep ==
  ASSUME Parameters, FooIInv, FooTypes', NEW w \in Workers,
         \A v \in Workers \ {w} : pc'[v] = pc[v] /\ arg'[v] = arg[v],
         UNCHANGED <<cursor, page>>,
         Len(order) <= Len(order'), \A k \in 1..Len(order) : order'[k] = order[k],
         replaced \subseteq replaced', fate = "up", fate' = "up", UNCHANGED freed,
         pc[w] \in {"idle", "adding"}, pc'[w] \in {"idle", "adding"},
         Locking', FooSizes', ListLinks'
  PROVE  FooIInv'
<1>1. FooTypes /\ Listing
  BY DEF FooIInv
<1>2. ASSUME NEW v \in Workers PROVE ListingBy(v)'
  <2>1. CASE v = w
    <3>1. page'[w] = <<>>
      BY <1>1 DEF Listing, ListingBy
    <3>2. QED BY <2>1, <3>1 DEF ListingBy
  <2>2. CASE v # w
    BY <1>1, <2>2, ListingStays DEF Listing
  <2>3. QED BY <2>1, <2>2
<1>3. Listing'
  BY <1>2 DEF Listing
<1>4. Fates'
  BY DEF FooIInv, Fates
<1>5. QED BY <1>3, <1>4 DEF FooIInv

\* A new id at the end.
LEMMA OrderAppend ==
  ASSUME Parameters, FooIInv, NEW id \in Ids \ Range(order)
  PROVE  /\ Append(order, id) \in Seq(Ids) /\ IsInjective(Append(order, id))
         /\ Range(Append(order, id)) = Range(order) \cup {id}
         /\ Len(Append(order, id)) = Len(order) + 1 /\ Append(order, id)[Len(order) + 1] = id
         /\ \A k \in 1..Len(order) : Append(order, id)[k] = order[k]
<1>1. order \in Seq(Ids) /\ IsInjective(order)
  BY DEF FooIInv, FooTypes, FooSizes
<1>2. IsInjective(Append(order, id)) /\ Range(Append(order, id)) = Range(order) \cup {id}
  BY <1>1, OnceAppend
<1>3. QED BY <1>1, <1>2, AppendProperties

\* PutAdd: the item is in its slot, and the entry is attached behind the last one, which does not
\* point to it yet.
LEMMA StepPutAdd ==
  ASSUME Parameters, FooIInv, NEW w \in Workers, NEW id \in Ids, PutAdd(w, id)
  PROVE  FooIInv'
<1> DEFINE m == MapPut(links, id)
           q == Append(order, id)
<1>1. /\ fate = "up" /\ pc[w] = "idle" /\ lock = NoOne /\ ~MapGet(links, id)
      /\ links' = Attach(m, Foo(id), m.prev[List], List)
      /\ map_size' = map_size + 1 /\ lock' = w
      /\ pc' = [pc EXCEPT ![w] = "adding"] /\ arg' = [arg EXCEPT ![w] = id]
      /\ UNCHANGED <<list_size, cursor, page, order, replaced, fate, freed>>
  BY DEF PutAdd, Put, Begins
<1>2. FooTypes /\ Locking /\ FooSizes /\ ListLinks
  BY DEF FooIInv
<1>3. id \notin Range(order)
  BY <1>1, GetFinds
<1>4. Both = order /\ order \in Seq(Ids) /\ Len(order) \in Nat
  BY <1>1, BothAre DEF FooIInv, FooTypes, Both
<1>5. MapHolds(links, order) /\ SlotSeqs(order) /\ map_size = Len(order) /\ IsInjective(order)
  BY <1>1, <1>2, <1>4 DEF FooSizes
<1>6. /\ m \in Memory /\ MapHolds(m, q)
      /\ m.next[List] = links.next[List] /\ m.prev[List] = links.prev[List]
      /\ \A a \in Ids : m.next[Foo(a)] = links.next[Foo(a)] /\ m.prev[Foo(a)] = links.prev[Foo(a)]
  BY <1>2, <1>3, <1>4, <1>5, MapPutDoes DEF FooTypes
<1>7. SlotSeqs(q)
  BY <1>3, <1>4, <1>5, SlotSeqsAppend
<1>8. Len(q) = Len(order) + 1
  BY <1>3, OrderAppend
<1> HIDE DEF m, q
<1>9. m.prev[List] = Entry(order, Len(order)) /\ m.prev[List] \in Elements
  BY <1>1, <1>2, <1>4, <1>6, EntryIs DEF ListLinks
<1>10. List \in Elements /\ Foo(id) \in Elements /\ Foo(id) # List
  BY Apart
<1>11. /\ links' \in Memory
       /\ \A x \in Elements : /\ links'.next[x] = IF x = Foo(id) THEN List ELSE m.next[x]
                              /\ links'.prev[x] = IF x = Foo(id) THEN m.prev[List]
                                                  ELSE IF x = List THEN Foo(id) ELSE m.prev[x]
  <2>1. /\ Attach(m, Foo(id), m.prev[List], List) \in Memory
        /\ \A x \in Elements :
              /\ Attach(m, Foo(id), m.prev[List], List).next[x] = IF x = Foo(id) THEN List ELSE m.next[x]
              /\ Attach(m, Foo(id), m.prev[List], List).prev[x] =
                    IF x = Foo(id) THEN m.prev[List] ELSE IF x = List THEN Foo(id) ELSE m.prev[x]
    BY <1>6, <1>9, <1>10, AttachStores
  <2>2. QED BY <1>1, <2>1
<1>12. /\ pc'[w] = "adding" /\ arg'[w] = id /\ w # NoOne
       /\ \A v \in Workers \ {w} : pc'[v] = pc[v] /\ arg'[v] = arg[v]
  BY <1>1, <1>2 DEF FooTypes, Parameters
<1>13. FooTypes'
  <2>1. map_size' \in Nat
    BY <1>1, <1>2 DEF FooTypes
  <2>2. arg' \in [Workers -> Ids \cup Pages \cup {Null}] /\ pc' \in [Workers -> {"idle", "adding", "listing", "encoding"}]
    BY <1>1, <1>2 DEF FooTypes
  <2>3. QED BY <1>1, <1>2, <1>11, <2>1, <2>2 DEF FooTypes
<1>14. Locking'
  <2>1. \A v \in Workers : pc[v] # "adding"
    BY <1>1, <1>2 DEF Locking, Parameters
  <2>2. QED BY <1>1, <1>3, <1>12, <2>1 DEF Locking
<1>15. Both' = q
  BY <1>1, <1>12 DEF Both, q
<1>16. MapHolds(links', q)
  <2>1. /\ \A s \in SlotNumbers : /\ links'.next[Slot(s)] = m.next[Slot(s)]
                                  /\ links'.prev[Slot(s)] = m.prev[Slot(s)]
        /\ \A a \in Ids : links'.next[Item(a)] = m.next[Item(a)] /\ links'.prev[Item(a)] = m.prev[Item(a)]
    BY <1>11, Apart
  <2>2. QED BY <1>6, <1>7, <2>1, MapFrame
<1>17. FooSizes'
  <2>1. SlotSeqs(Both)' <=> SlotSeqs(Both')
    BY DEF SlotSeqs
  <2>2. list_size' = Len(order') /\ map_size' = Len(q) /\ IsInjective(order')
    BY <1>1, <1>2, <1>5, <1>8 DEF FooSizes
  <2>3. QED BY <1>7, <1>15, <1>16, <2>1, <2>2 DEF FooSizes
<1>18. ListLinks'
  <2>1. links'.next[List] = Entry(order', 1)
    BY <1>1, <1>2, <1>6, <1>10, <1>11 DEF ListLinks
  <2>2. links'.prev[List] = Foo(arg'[lock'])
    BY <1>1, <1>10, <1>11, <1>12
  <2>3. links'.next[Foo(arg'[lock'])] = List /\ links'.prev[Foo(arg'[lock'])] = Entry(order', Len(order'))
    BY <1>1, <1>9, <1>10, <1>11, <1>12
  <2>4. ASSUME NEW k \in 1..Len(order)
        PROVE  \/ links'.next[Foo(order[k])] = Entry(order, k + 1)
               \/ links'.next[Foo(order[k])] = Null /\ order[k] \in replaced
    <3>1. order[k] \in Ids /\ order[k] # id
      BY <1>3, <1>4, EntryIs
    <3>2. links'.next[Foo(order[k])] = links.next[Foo(order[k])]
      BY <1>6, <1>11, <3>1, Apart
    <3>3. QED BY <1>1, <1>2, <3>2 DEF ListLinks
  <2>5. lock' # NoOne
    BY <1>1, <1>12
  <2>6. QED BY <1>1, <2>1, <2>2, <2>3, <2>4, <2>5 DEF ListLinks
<1>19. Len(order) <= Len(order') /\ \A k \in 1..Len(order) : order'[k] = order[k]
  BY <1>1, <1>4
<1>20. QED BY <1>1, <1>12, <1>13, <1>14, <1>17, <1>18, <1>19, PutStep

\* PutPublish: the last entry, or the head, points to the new one.
LEMMA StepPutPublish ==
  ASSUME Parameters, FooIInv, NEW w \in Workers, PutPublish(w)
  PROVE  FooIInv'
<1> DEFINE id == arg[w]
           e == links.prev[Foo(id)]
           l == Len(order)
<1>1. /\ fate = "up" /\ pc[w] = "adding"
      /\ links' = Publish(links, Foo(id), e)
      /\ list_size' = list_size + 1 /\ order' = Append(order, id) /\ lock' = NoOne
      /\ pc' = [pc EXCEPT ![w] = "idle"] /\ arg' = [arg EXCEPT ![w] = Null]
      /\ UNCHANGED <<map_size, cursor, page, replaced, fate, freed>>
  BY DEF PutPublish
<1>2. FooTypes /\ Locking /\ FooSizes /\ ListLinks
  BY DEF FooIInv
<1>3. lock = w /\ lock # NoOne /\ id \in Ids \ Range(order)
  BY <1>1, Threads
<1>4. order \in Seq(Ids) /\ l \in Nat
  BY BothAre DEF FooIInv, FooTypes
<1>5. /\ order' \in Seq(Ids) /\ IsInjective(order') /\ Range(order') = Range(order) \cup {id}
      /\ Len(order') = l + 1 /\ order'[l + 1] = id /\ \A k \in 1..l : order'[k] = order[k]
  <2>1. /\ Append(order, id) \in Seq(Ids) /\ IsInjective(Append(order, id))
        /\ Range(Append(order, id)) = Range(order) \cup {id}
        /\ Len(Append(order, id)) = l + 1 /\ Append(order, id)[l + 1] = id
        /\ \A k \in 1..l : Append(order, id)[k] = order[k]
    <3> HIDE DEF id
    <3>1. QED BY <1>3, OrderAppend
  <2>2. QED BY <1>1, <2>1
<1>6. e = Entry(order, l) /\ e \in Elements /\ e # Foo(id)
  <2>1. e = Entry(order, l)
    BY <1>1, <1>2, <1>3 DEF ListLinks
  <2>2. e \in Elements
    BY <1>4, <2>1, EntryIs
  <2>3. e # Foo(id)
    <3>1. CASE l \in 1..l
      <4>1. e = Foo(order[l]) /\ order[l] \in Range(order)
        BY <1>4, <2>1, <3>1, EntryIs
      <4>2. QED BY <1>3, <4>1, Apart
    <3>2. CASE l \notin 1..l
      <4>1. e = List
        BY <1>4, <2>1, <3>2, EntryIs
      <4>2. QED BY <4>1, Apart
    <3>3. QED BY <3>1, <3>2
  <2>4. QED BY <2>1, <2>2, <2>3
<1>7. List \in Elements /\ Foo(id) \in Elements /\ Foo(id) # List
  BY <1>3, Apart
<1> HIDE DEF e
<1>8. /\ links' \in Memory /\ links'.prev = links.prev
      /\ \A x \in Elements : links'.next[x] = IF x = e THEN Foo(id) ELSE links.next[x]
  <2>1. /\ Publish(links, Foo(id), e) \in Memory /\ Publish(links, Foo(id), e).prev = links.prev
        /\ \A x \in Elements : Publish(links, Foo(id), e).next[x] = IF x = e THEN Foo(id) ELSE links.next[x]
    <3>1. links \in Memory
      BY <1>2 DEF FooTypes
    <3> DEFINE f == Foo(id)
    <3>2. f \in Elements /\ e \in Elements
      BY <1>6, <1>7
    <3> HIDE DEF f
    <3>3. /\ Publish(links, f, e) \in Memory /\ Publish(links, f, e).prev = links.prev
          /\ \A x \in Elements : Publish(links, f, e).next[x] = IF x = e THEN f ELSE links.next[x]
      BY ONLY <3>1, <3>2, PublishStores
    <3>4. QED BY <3>3 DEF f
  <2>2. QED BY <1>1, <2>1
<1>9. /\ pc'[w] = "idle"
      /\ \A v \in Workers \ {w} : pc'[v] = pc[v] /\ arg'[v] = arg[v]
  BY <1>1, <1>2 DEF FooTypes
<1>10. FooTypes'
  <2>1. list_size' \in Nat
    BY <1>1, <1>2 DEF FooTypes
  <2>2. arg' \in [Workers -> Ids \cup Pages \cup {Null}] /\ pc' \in [Workers -> {"idle", "adding", "listing", "encoding"}]
    BY <1>1, <1>2 DEF FooTypes
  <2>3. QED BY <1>1, <1>2, <1>5, <1>8, <2>1, <2>2 DEF FooTypes
<1>11. Locking'
  <2>1. \A v \in Workers \ {w} : pc[v] # "adding"
    BY <1>2, <1>3 DEF Locking
  <2>2. QED BY <1>1, <1>9, <2>1 DEF Locking, Parameters
<1>12. Both = order' /\ Both' = order'
  BY <1>1, <1>3 DEF Both
<1>13. SlotSeqs(order') /\ map_size = Len(order') /\ MapHolds(links, order') /\ list_size = l
  BY <1>1, <1>2, <1>12 DEF FooSizes
<1>14. MapHolds(links', order')
  <2>1. \A s \in SlotNumbers : Slot(s) \in Elements /\ Slot(s) # e
    BY <1>4, <1>6, Apart DEF Entry
  <2>2. \A a \in Ids : Item(a) \in Elements /\ Item(a) # e
    BY <1>4, <1>6, Apart DEF Entry
  <2>3. QED BY <1>8, <1>13, <2>1, <2>2, MapFrame
<1>15. FooSizes'
  <2>1. SlotSeqs(Both)' <=> SlotSeqs(Both')
    BY DEF SlotSeqs
  <2>2. QED BY <1>1, <1>5, <1>12, <1>13, <1>14, <2>1 DEF FooSizes
<1> HIDE DEF id, l
<1>16. ListLinks'
  <2>1. Entry(order', l + 1) = Foo(id) /\ Entry(order', l + 1 + 1) = List
    <3>1. l + 1 \in 1..(l + 1) /\ l + 1 + 1 \notin 1..(l + 1)
      BY <1>4
    <3>2. QED BY <1>5, <3>1 DEF Entry
  <2>2. \A k \in 1..l : Entry(order', k) = Entry(order, k)
    <3>1. \A k \in 1..l : k \in 1..(l + 1)
      BY <1>4
    <3>2. QED BY <1>5, <3>1 DEF Entry, l
  <2>3. links'.next[List] = Entry(order', 1)
    <3>1. CASE l = 0
      <4>1. Entry(order, l) = List
        BY <3>1 DEF Entry, l
      <4>2. QED BY <1>6, <1>7, <1>8, <2>1, <3>1, <4>1
    <3>2. CASE l # 0
      <4>1. 1 \in 1..l /\ l \in 1..l /\ l \in 1..Len(order)
        BY <1>4, <3>2 DEF l
      <4>2. e # List
        BY <1>4, <1>6, <4>1, EntryIs
      <4>3. links'.next[List] = Entry(order, 1)
        BY <1>1, <1>2, <1>7, <1>8, <4>2 DEF ListLinks
      <4>4. QED BY <2>2, <4>1, <4>3
    <3>3. QED BY <3>1, <3>2
  <2>4. links'.prev[List] = Entry(order', l + 1)
    BY <1>1, <1>2, <1>3, <1>8, <2>1 DEF ListLinks, id
  <2>5. ASSUME NEW k \in 1..(l + 1)
        PROVE  \/ links'.next[Foo(order'[k])] = Entry(order', k + 1)
               \/ links'.next[Foo(order'[k])] = Null /\ order'[k] \in replaced
    <3>1. CASE k = l + 1
      <4>1. order'[k] = id /\ Entry(order', k + 1) = List
        BY <1>5, <2>1, <3>1
      <4>2. links.next[Foo(id)] = List
        BY <1>1, <1>2, <1>3 DEF ListLinks, id
      <4>3. QED BY <1>6, <1>7, <1>8, <4>1, <4>2
    <3>2. CASE k = l /\ l # 0
      <4>1. k \in 1..l /\ k \in 1..Len(order) /\ k + 1 = l + 1
        BY <1>4, <3>2 DEF l
      <4>2. order'[k] = order[k] /\ e = Foo(order[k])
        BY <1>4, <1>5, <1>6, <3>2, <4>1, EntryIs
      <4>3. links'.next[Foo(order'[k])] = Foo(id)
        BY <1>6, <1>8, <4>2
      <4>4. QED BY <2>1, <4>1, <4>3
    <3>3. CASE k < l
      <4>1. k \in 1..l /\ k + 1 \in 1..l /\ l \in 1..l
        BY <1>4, <3>3
      <4>2. /\ order'[k] = order[k] /\ order[k] \in Ids /\ e = Foo(order[l]) /\ order[k] # order[l]
            /\ Entry(order', k + 1) = Entry(order, k + 1)
        <5>1. order'[k] = order[k] /\ order[k] \in Ids /\ e = Foo(order[l])
          BY <1>4, <1>5, <1>6, <4>1, EntryIs DEF l
        <5>2. DOMAIN order = 1..l /\ k # l
          BY <1>4, <3>3, LenProperties DEF l
        <5>3. order[k] # order[l]
          BY <1>2, <4>1, <5>2 DEF FooSizes, IsInjective
        <5>4. QED BY <2>2, <4>1, <5>1, <5>3
      <4>3. links'.next[Foo(order[k])] = links.next[Foo(order[k])]
        BY <1>8, <4>2, Apart
      <4>4. \/ links.next[Foo(order[k])] = Entry(order, k + 1)
            \/ links.next[Foo(order[k])] = Null /\ order[k] \in replaced
        BY <1>1, <1>2, <4>1 DEF ListLinks, l
      <4>5. QED BY <4>2, <4>3, <4>4
    <3>4. QED BY <1>4, <3>1, <3>2, <3>3
  <2>6. lock' = NoOne /\ Len(order') = l + 1 /\ replaced' = replaced
    BY <1>1, <1>5
  <2>7. QED BY <2>3, <2>4, <2>5, <2>6 DEF ListLinks
<1>17. Len(order) <= Len(order') /\ \A k \in 1..Len(order) : order'[k] = order[k]
  BY <1>4, <1>5 DEF l
<1>18. QED BY <1>1, <1>9, <1>10, <1>11, <1>15, <1>16, <1>17, PutStep

\* PutReplace: the entry that is replaced points nowhere; the others are as they were.
LEMMA StepPutReplace ==
  ASSUME Parameters, FooIInv, NEW w \in Workers, NEW id \in Ids, PutReplace(w, id)
  PROVE  FooIInv'
<1> DEFINE e == Foo(id)
           u == [links EXCEPT !.next[e] = Null]
           v == [u EXCEPT !.prev[e] = Null]
<1>1. /\ fate = "up" /\ pc[w] = "idle" /\ lock = NoOne /\ MapGet(links, id)
      /\ links' = v /\ replaced' = replaced \cup {id}
      /\ UNCHANGED <<map_size, list_size, lock, pc, arg, cursor, page, order, fate, freed>>
  BY DEF PutReplace, Put, Begins, local
<1>2. FooTypes /\ Locking /\ FooSizes /\ ListLinks
  BY DEF FooIInv
<1>3. id \in Range(order)
  BY <1>1, GetFinds
<1>4. e \in Elements /\ List # e /\ (\A s : Slot(s) # e) /\ (\A a : Item(a) # e)
  BY Apart
<1> HIDE DEF e
<1>5. /\ links' \in Memory
      /\ \A x \in Elements : /\ links'.next[x] = IF x = e THEN Null ELSE links.next[x]
                             /\ links'.prev[x] = IF x = e THEN Null ELSE links.prev[x]
  <2>1. /\ links = [next |-> links.next, prev |-> links.prev]
        /\ links.next \in [Elements -> Elements \cup {Null}] /\ links.prev \in [Elements -> Elements \cup {Null}]
    BY <1>2 DEF FooTypes, Memory
  <2>2. u = [next |-> [links.next EXCEPT ![e] = Null], prev |-> links.prev]
    BY <2>1
  <2> HIDE DEF u
  <2>3. v = [next |-> [links.next EXCEPT ![e] = Null], prev |-> [links.prev EXCEPT ![e] = Null]]
    BY <2>2
  <2> HIDE DEF v
  <2>4. QED BY <1>1, <1>4, <2>1, <2>3 DEF Memory
<1> HIDE DEF u, v
<1>6. FooTypes'
  BY <1>1, <1>2, <1>5 DEF FooTypes
<1>7. Locking'
  BY <1>1, <1>2 DEF Locking
<1>8. Both = order /\ Both' = order
  BY <1>1 DEF Both
<1>9. FooSizes'
  <2>1. SlotSeqs(Both)' <=> SlotSeqs(Both')
    BY DEF SlotSeqs
  <2>2. SlotSeqs(order) /\ MapHolds(links, order)
    BY <1>1, <1>2, <1>8 DEF FooSizes
  <2>3. MapHolds(links', order)
    <3>1. /\ \A s \in SlotNumbers : /\ links'.next[Slot(s)] = links.next[Slot(s)]
                                    /\ links'.prev[Slot(s)] = links.prev[Slot(s)]
          /\ \A a \in Ids : /\ links'.next[Item(a)] = links.next[Item(a)]
                            /\ links'.prev[Item(a)] = links.prev[Item(a)]
      BY <1>4, <1>5, Apart
    <3>2. QED BY <2>2, <3>1, MapFrame
  <2>4. QED BY <1>1, <1>2, <1>8, <2>1, <2>2, <2>3 DEF FooSizes
<1>10. ListLinks'
  <2>1. links'.next[List] = Entry(order, 1) /\ links'.prev[List] = Entry(order, Len(order))
    BY <1>1, <1>2, <1>4, <1>5, Apart DEF ListLinks
  <2>2. ASSUME NEW k \in 1..Len(order)
        PROVE  \/ links'.next[Foo(order[k])] = Entry(order, k + 1)
               \/ links'.next[Foo(order[k])] = Null /\ order[k] \in replaced'
    <3>1. order[k] \in Ids /\ Foo(order[k]) \in Elements
      BY <1>2, EntryIs, Apart DEF FooTypes
    <3>2. CASE order[k] = id
      <4>1. Foo(order[k]) = e /\ order[k] \in replaced'
        BY <1>1, <3>2 DEF e
      <4>2. QED BY <1>4, <1>5, <4>1
    <3>3. CASE order[k] # id
      <4>1. Foo(order[k]) # e
        BY <3>3, Apart DEF e
      <4>2. links'.next[Foo(order[k])] = links.next[Foo(order[k])]
        BY <1>5, <3>1, <4>1
      <4>3. \/ links.next[Foo(order[k])] = Entry(order, k + 1)
            \/ links.next[Foo(order[k])] = Null /\ order[k] \in replaced
        BY <1>1, <1>2 DEF ListLinks
      <4>4. QED BY <1>1, <4>2, <4>3
    <3>4. QED BY <3>2, <3>3
  <2>3. order' = order /\ lock' = NoOne
    BY <1>1
  <2>4. QED BY <2>1, <2>2, <2>3 DEF ListLinks
<1>11. Len(order) <= Len(order') /\ (\A k \in 1..Len(order) : order'[k] = order[k]) /\ replaced \subseteq replaced'
  BY <1>1, BothAre
<1>12. QED BY <1>1, <1>6, <1>7, <1>9, <1>10, <1>11, PutStep

-----------------------------------------------------------------------------
(* Beginning and end *)

\* The heads after destroy.
LEMMA ClearStores == ASSUME Parameters, NEW m \in Memory PROVE ListHeadInit(MapInit(m), List) \in Memory
<1> DEFINE a == MapInit(m)
           u == [a EXCEPT !.next[List] = List]
           v == [u EXCEPT !.prev[List] = List]
<1>1. m.next \in [Elements -> Elements \cup {Null}] /\ m.prev \in [Elements -> Elements \cup {Null}]
  BY DEF Memory
<1>2. /\ a = [next |-> a.next, prev |-> a.prev]
      /\ a.next \in [Elements -> Elements \cup {Null}] /\ a.prev \in [Elements -> Elements \cup {Null}]
  BY <1>1 DEF MapInit
<1>3. ListHeadInit(a, List) = v
  BY DEF ListHeadInit
<1> HIDE DEF a
<1>4. u = [next |-> [a.next EXCEPT ![List] = List], prev |-> a.prev]
  BY <1>2
<1> HIDE DEF u
<1>5. v = [next |-> [a.next EXCEPT ![List] = List], prev |-> [a.prev EXCEPT ![List] = List]]
  BY <1>2, <1>4
<1> HIDE DEF v
<1>6. v \in Memory
  BY <1>2, <1>5, Apart DEF Memory
<1>7. QED BY <1>3, <1>6 DEF a

\* Destroy: with nobody at work, what it frees is what the slots hold, each entry once.
LEMMA StepDestroy ==
  ASSUME Parameters, FooIInv, Destroy
  PROVE  FooIInv'
<1>1. /\ fate = "up" /\ \A w \in Workers : pc[w] = "idle"
      /\ fate' = "end"
      /\ UNCHANGED <<list_size, lock, pc, arg, cursor, page, order, replaced>>
  BY DEF Destroy, local
<1>2. \/ /\ list_size > 0 /\ freed' = MapClear(links) /\ map_size' = 0
         /\ links' = ListHeadInit(MapInit(links), List)
      \/ ~(list_size > 0) /\ UNCHANGED <<freed, links, map_size>>
  BY DEF Destroy
<1>3. FooTypes /\ Locking /\ FooSizes /\ Listing /\ Fates
  BY DEF FooIInv
<1>4. lock = NoOne
  BY <1>1, Threads
<1>5. Both = order /\ Both' = order /\ order \in Seq(Ids) /\ Len(order) \in Nat /\ Len(order) <= Bound
  BY <1>1, <1>4, BothAre DEF Both
<1>6. FooTypes'
  <2>1. links' \in Memory /\ map_size' \in Nat
    BY <1>2, <1>3, ClearStores DEF FooTypes
  <2>2. QED BY <1>1, <1>3, <2>1 DEF FooTypes
<1>7. Locking'
  BY <1>1, <1>3 DEF Locking
<1>8. SlotSeqs(order) /\ IsInjective(order) /\ MapHolds(links, order) /\ list_size = Len(order)
  BY <1>1, <1>3, <1>5 DEF FooSizes
<1>9. FooSizes'
  <2>1. SlotSeqs(Both)' <=> SlotSeqs(Both')
    BY DEF SlotSeqs
  <2>2. QED BY <1>1, <1>5, <1>8, <2>1 DEF FooSizes
<1>10. ListLinks'
  BY <1>1 DEF ListLinks
<1>11. Listing'
  BY <1>1, <1>3 DEF Listing, ListingBy
<1>12. Len(freed') = list_size' /\ Range(freed') = Range(order')
  <2>1. CASE list_size > 0 /\ freed' = MapClear(links)
    <3>1. \A s \in SlotNumbers : Linked(links, Slot(s), Items(OfSlot(order, s)))
      BY <1>8 DEF MapHolds
    <3>2. Range(MapClear(links)) = Range(order) /\ Len(MapClear(links)) = Len(order)
      BY <1>5, <1>8, <3>1, MapClearFrees
    <3>3. QED BY <1>1, <1>8, <2>1, <3>2
  <2>2. CASE ~(list_size > 0) /\ UNCHANGED freed
    <3>1. freed' = <<>>
      BY <1>1, <1>3, <2>2 DEF Fates
    <3>2. order = <<>> /\ Len(order) = 0
      BY <1>5, <1>8, <2>2, EmptySeq
    <3>3. QED BY <1>1, <1>8, <3>1, <3>2
  <2>3. QED BY <1>2, <2>1, <2>2
<1>13. Fates'
  BY <1>1, <1>12 DEF Fates
<1>14. QED BY <1>6, <1>7, <1>9, <1>10, <1>11, <1>13 DEF FooIInv

\* initFooDao: empty slots and an empty list.
LEMMA Initially ==
  ASSUME Parameters, FooInit
  PROVE  FooIInv
<1>1. /\ links = ListHeadInit(MapInit(Loose), List)
      /\ map_size = 0 /\ list_size = 0 /\ lock = NoOne
      /\ pc = [w \in Workers |-> "idle"] /\ arg = [w \in Workers |-> Null]
      /\ cursor = [w \in Workers |-> Null] /\ page = [w \in Workers |-> <<>>]
      /\ order = <<>> /\ replaced = {} /\ fate = "up" /\ freed = <<>>
  BY DEF FooInit
<1>2. links \in Memory /\ MapHolds(links, <<>>) /\ links.next[List] = List /\ links.prev[List] = List
  BY <1>1, InitLinks
<1>3. /\ Len(<<>>) = 0 /\ IsInjective(<<>>) /\ SlotSeqs(<<>>)
      /\ <<>> \in Seq(Ids) /\ <<>> \in Seq(Elements)
  BY EmptySeq, OnceEmpty, SlotSeqsEmpty
<1>4. FooTypes
  BY <1>1, <1>2, <1>3 DEF FooTypes
<1>5. Locking
  BY <1>1 DEF Locking, Parameters
<1>6. Both = <<>>
  BY <1>1 DEF Both
<1>7. FooSizes
  BY <1>1, <1>2, <1>3, <1>6 DEF FooSizes
<1>8. ListLinks
  <2>1. \A k : k \notin 1..0
    BY <1>3
  <2>2. Entry(order, 1) = List /\ Entry(order, Len(order)) = List
    BY <1>1, <1>3 DEF Entry
  <2>3. QED BY <1>1, <1>2, <1>3, <2>2 DEF ListLinks
<1>9. Listing
  BY <1>1 DEF Listing, ListingBy
<1>10. Fates
  BY <1>1 DEF Fates
<1>11. QED BY <1>4, <1>5, <1>7, <1>8, <1>9, <1>10 DEF FooIInv

\* Every step keeps the invariant.
LEMMA Steps == ASSUME Parameters, FooIInv, [FooNext]_foo_vars PROVE FooIInv'
<1>1. CASE UNCHANGED foo_vars
  <2>1. UNCHANGED <<links, map_size, list_size, lock, pc, arg, cursor, page, order, replaced, fate, freed>>
    BY <1>1 DEF foo_vars, local
  <2>2. Both' = Both
    BY <2>1 DEF Both
  <2>3. FooSizes'
    <3>1. SlotSeqs(Both)' <=> SlotSeqs(Both')
      BY DEF SlotSeqs
    <3>2. QED BY <2>1, <2>2, <3>1 DEF FooIInv, FooSizes
  <2>4. FooTypes' /\ Locking' /\ ListLinks' /\ Fates'
    BY <2>1 DEF FooIInv, FooTypes, Locking, ListLinks, Fates
  <2>5. Listing'
    <3>1. FooTypes /\ Listing
      BY DEF FooIInv
    <3>2. Len(order) <= Len(order') /\ \A k \in 1..Len(order) : order'[k] = order[k]
      BY <2>1, BothAre
    <3>3. ASSUME NEW w \in Workers PROVE ListingBy(w)'
      BY <2>1, <2>4, <3>1, <3>2, ListingStays DEF Listing
    <3>4. QED BY <3>3 DEF Listing
  <2>6. QED BY <2>3, <2>4, <2>5 DEF FooIInv
<1>2. ASSUME NEW w \in Workers, NEW id \in Ids, PutAdd(w, id) \/ PutReplace(w, id) PROVE FooIInv'
  BY <1>2, StepPutAdd, StepPutReplace
<1>3. ASSUME NEW w \in Workers, NEW p \in Pages, ListBegin(w, p) PROVE FooIInv'
  BY <1>3, StepListBegin
<1>4. ASSUME NEW w \in Workers, PutPublish(w) \/ ListFoo(w) \/ Encode(w) \/ EncodeDone(w) PROVE FooIInv'
  BY <1>4, StepPutPublish, StepListFoo, StepEncode, StepEncodeDone
<1>5. CASE Destroy
  BY <1>5, StepDestroy
<1>6. QED BY <1>1, <1>2, <1>3, <1>4, <1>5 DEF FooNext

-----------------------------------------------------------------------------
(* The properties *)

\* Out of the invariant: the map.
LEMMA MapExactHolds == ASSUME Parameters, FooIInv PROVE MapExact
<1>1. Added = Range(order) /\ {freed[k] : k \in DOMAIN freed} = Range(freed)
  BY DEF Added, Range
<1>2. FooSizes /\ Fates
  BY DEF FooIInv
<1>3. ASSUME lock = NoOne, fate # "end"
      PROVE  /\ \A s \in 0..(Slots - 1) : Linked(links, Slot(s), Items(OfSlot(order, s)))
             /\ map_size = list_size
  BY <1>2, <1>3 DEF FooSizes, Both, MapHolds, SlotNumbers
<1>4. Cardinality(Added) = list_size
  BY <1>1, <1>2, BothAre DEF FooSizes
<1>5. fate = "end" => Len(freed) = list_size /\ {freed[k] : k \in DOMAIN freed} = Added
  BY <1>1, <1>2 DEF Fates
<1>6. QED BY <1>3, <1>4, <1>5 DEF MapExact

\* Out of the invariant: the list.
LEMMA ListExactHolds == ASSUME Parameters, FooIInv PROVE ListExact
<1> DEFINE n == Cardinality(Adding)
           tail == [k \in 1..n |-> CHOOSE id \in Adding : TRUE]
           all == order \o tail
           l == Len(order)
<1>1. order \in Seq(Ids) /\ l \in Nat /\ FooTypes /\ Locking /\ ListLinks
  BY BothAre DEF FooIInv, FooTypes
<1>2. fate # "end" => links.prev[List] = IF all = <<>> THEN List ELSE Foo(all[Len(all)])
  <2>1. CASE lock = NoOne
    <3>1. Adding = {}
      BY <1>1, <2>1 DEF Adding, Locking, Parameters
    <3>2. n = 0
      BY <3>1, FS_EmptySet
    <3>3. tail = <<>>
      <4>1. tail \in [1..0 -> {{}}] /\ DOMAIN tail = 1..0
        BY <3>2
      <4> HIDE DEF tail
      <4>2. tail \in Seq({{}})
        BY <4>1, SeqDef
      <4>3. Len(tail) = 0
        BY <4>1, <4>2, LenProperties
      <4>4. QED BY <4>2, <4>3, EmptySeq
    <3>4. all = order
      BY <1>1, <3>3, ConcatEmptySeq
    <3>5. fate # "end" => links.prev[List] = Entry(order, l)
      BY <1>1, <2>1 DEF ListLinks
    <3>6. Entry(order, l) = IF order = <<>> THEN List ELSE Foo(order[l])
      <4>1. order = <<>> <=> l = 0
        BY <1>1, EmptySeq
      <4> HIDE DEF l
      <4>2. l \in 1..l <=> l # 0
        BY <1>1
      <4>3. QED BY <4>1, <4>2 DEF Entry, l
    <3> HIDE DEF all
    <3>7. QED BY <3>4, <3>5, <3>6
  <2>2. CASE lock # NoOne
    <3>1. Adding = {arg[lock]} /\ arg[lock] \in Ids /\ lock \in Workers
      BY <1>1, <2>2, Threads DEF Adding, Locking
    <3>2. n = 1
      BY <3>1, FS_Singleton
    <3>3. (CHOOSE id \in Adding : TRUE) = arg[lock]
      BY <3>1
    <3>4. tail \in [1..1 -> Ids] /\ tail[1] = arg[lock] /\ DOMAIN tail = 1..1
      <4> HIDE DEF n
      <4>1. tail = [k \in 1..1 |-> arg[lock]]
        BY <3>2, <3>3
      <4>2. QED BY <3>1, <4>1
    <3> HIDE DEF tail
    <3>5. tail \in Seq(Ids)
      BY <3>4, SeqDef
    <3>6. Len(tail) = 1
      BY <3>4, <3>5, LenProperties
    <3>7. /\ all \in Seq(Ids) /\ Len(all) = l + 1
          /\ \A k \in 1..(l + 1) : all[k] = IF k <= l THEN order[k] ELSE tail[k - l]
      BY <1>1, <3>5, <3>6, ConcatProperties
    <3> HIDE DEF all
    <3>8. all[l + 1] = arg[lock] /\ all # <<>>
      <4> DEFINE k == l + 1
      <4>1. k \in 1..(l + 1) /\ ~(k <= l) /\ k - l = 1
        BY <1>1
      <4> HIDE DEF k, l
      <4>2. all[k] = arg[lock]
        BY <3>4, <3>7, <4>1
      <4>3. all # <<>>
        BY <1>1, <3>7, EmptySeq
      <4>4. QED BY <4>2, <4>3 DEF k
    <3>9. fate # "end" => links.prev[List] = Foo(arg[lock])
      BY <1>1, <2>2 DEF ListLinks
    <3>10. QED BY <3>7, <3>8, <3>9
  <2>3. QED BY <2>1, <2>2
<1> HIDE DEF all
<1>3. fate # "end" => links.next[List] = IF order = <<>> THEN List ELSE Foo(order[1])
  <2>1. order = <<>> <=> l = 0
    BY <1>1, EmptySeq
  <2>2. 1 \in 1..l <=> l # 0
    BY <1>1
  <2>3. QED BY <1>1, <2>1, <2>2 DEF ListLinks, Entry
<1>4. ASSUME fate # "end", NEW k \in DOMAIN order
      PROVE  \/ links.next[Foo(order[k])] = IF k < Len(order) THEN Foo(order[k + 1]) ELSE List
             \/ links.next[Foo(order[k])] = Null /\ order[k] \in replaced
  <2>1. k \in 1..Len(order)
    BY <1>1, LenProperties
  <2>2. k + 1 \in 1..Len(order) <=> k < Len(order)
    BY <1>1, <2>1
  <2>3. QED BY <1>1, <1>4, <2>1, <2>2 DEF ListLinks, Entry
<1>5. QED BY <1>2, <1>3, <1>4 DEF ListExact, all, tail, n

\* Out of the invariant: the pages.
LEMMA PageInOrderHolds == ASSUME Parameters, FooIInv PROVE PageInOrder
<1>1. FooTypes /\ Listing /\ Fates
  BY DEF FooIInv
<1>2. ASSUME NEW w \in Workers, NEW k \in DOMAIN page[w]
      PROVE  LET n == Offset(arg[w]) + k + 1
             IN \/ n <= Len(order) /\ page[w][k] = Foo(order[n])
                \/ page[w][k] = List /\ k = Len(page[w]) /\ cursor[w].left = 0
  <2> DEFINE n == Offset(arg[w]) + k + 1
  <2>1. page[w] \in Seq(Elements) /\ k \in 1..Len(page[w]) /\ order \in Seq(Ids) /\ Len(order) \in Nat
    BY <1>1, BothAre, LenProperties DEF FooTypes
  <2>2. pc[w] = "encoding"
    <3>1. page[w] # <<>>
      BY <1>2, OnceEmpty, EmptySeq
    <3>2. QED BY <1>1, <3>1 DEF Listing, ListingBy
  <2>3. /\ arg[w] \in Pages
        /\ \/ n <= Len(order) /\ page[w][k] = Entry(order, n)
           \/ page[w][k] = List /\ k = Len(page[w]) /\ cursor[w].left = 0
    BY <1>1, <2>1, <2>2 DEF Listing, ListingBy, Encoding
  <2>4. arg[w].page \in Nat /\ arg[w].page_size \in Nat
    BY <2>3 DEF Parameters
  <2>5. Offset(arg[w]) \in Nat
    BY <2>4 DEF Offset
  <2>6. n <= Len(order) => n \in 1..Len(order)
    <3> DEFINE a == Offset(arg[w])
    <3>1. a \in Nat /\ k \in Nat
      BY <2>1, <2>5
    <3> HIDE DEF a
    <3>2. a + k + 1 <= Len(order) => a + k + 1 \in 1..Len(order)
      BY <2>1, <3>1
    <3>3. QED BY <3>2 DEF a
  <2> HIDE DEF n
  <2>7. n <= Len(order) => Entry(order, n) = Foo(order[n])
    BY <2>6 DEF Entry
  <2>8. QED BY <2>3, <2>7 DEF n
<1>3. QED BY <1>1, <1>2 DEF PageInOrder, Fates

\* The inductive invariant of FooDao and its actions, in any number of threads, for any ids, slots
\* and pages: who holds the lock, the links of the map, those of the list up to the entry that is
\* not published yet, and how far each response has come (FooDao.c, MapHashLinked.c, LinkedList.h).
THEOREM Invariance == FooSpec => []FooIInv
<1>1. FooInit => FooIInv
  BY FooAssumption, Initially
<1>2. FooIInv /\ [FooNext]_foo_vars => FooIInv'
  BY FooAssumption, Steps
<1>3. QED BY <1>1, <1>2, PTL DEF FooSpec

\* For any number of threads, slots, ids and puts: each slot of the map is a well-formed list of the
\* ids with its hash in the order in which putFoo added them, the sizes agree, and the destroy of
\* FooDao frees each entry once.
THEOREM MapAgrees == FooSpec => []MapExact
<1>1. FooIInv => MapExact
  BY FooAssumption, MapExactHolds
<1>2. FooSpec => []FooIInv
  BY Invariance
<1>3. QED BY <1>1, <1>2, PTL

\* For any number of threads, ids and puts: each entry of the list of FooDao points to its follower,
\* or to nothing once putFoo has overwritten it; the head finds the first and the last one, so that
\* no replacement loses what has been added.
THEOREM ListAgrees == FooSpec => []ListExact
<1>1. FooIInv => ListExact
  BY FooAssumption, ListExactHolds
<1>2. FooSpec => []FooIInv
  BY Invariance
<1>3. QED BY <1>1, <1>2, PTL

\* For any number of threads, ids and pages: what FooResponseEncoderList encodes without the lock,
\* while other threads add and replace, is a run of consecutive entries, and at worst the list head
\* behind them; and it never runs into a Null unless something has been replaced.
THEOREM PagesAgree == FooSpec => []PageInOrder
<1>1. FooIInv => PageInOrder
  BY FooAssumption, PageInOrderHolds
<1>2. FooSpec => []FooIInv
  BY Invariance
<1>3. QED BY <1>1, <1>2, PTL

-----------------------------------------------------------------------------
(* Mon's object service map (ClusterMapMon.c) *)

If(P) == IF P THEN 1 ELSE 0

\* Numbers below n that leave k when divided by s, and the m numbers that follow a, modulo n.
Residues(n, s, k) == {l \in 0..n - 1 : l % s = k}
Round(n, a, m) == {(a + x) % n : x \in 0..m - 1}

\* The bsets a service is dealt, and those whose j-th replica has been placed.
Class(k) == Residues(size.bsets, size.services, k)
Share(k) == Cardinality(Class(k))
Visited == Round(size.bsets, j, i)

\* The two indexes of a map: they list the same pairs.
IsMap(ids, sets) == ids \in [Services -> Seq(BSets)] /\ sets \in [BSets -> Seq(Services)]
Agree(ids, sets) ==
    \A k \in Services, l \in BSets : Occurrences(l, ids[k]) = Occurrences(k, sets[l])

\* A map all of whose replicas are placed ...
IsWhole(ids, sets) ==
    /\ IsMap(ids, sets) /\ Agree(ids, sets)
    /\ \A l \in BSets : Len(sets[l]) = size.replicas
    /\ \A k \in Services : Len(ids[k]) = size.replicas * Share(k) /\ Len(ids[k]) <= Average

\* ... and one in the middle of the loops of cmmFillBSets.
Partial ==
    /\ IsMap(bset_ids, bset) /\ Agree(bset_ids, bset)
    /\ j = size.replicas => i = 0
    /\ \A l \in BSets : Len(bset[l]) = j + If(l \in Visited)
    /\ \A k \in Services : /\ Len(bset_ids[k]) = j * Share(k) + Cardinality(Class(k) \cap Visited)
                           /\ Len(bset_ids[k]) <= Average

MonTypes ==
    /\ size \in [bsets : 1..MaxBSets, replicas : 1..MaxReplicas, services : 1..MaxServices]
    /\ phase \in {"down", "filling", "filled", "writing", "up", "failed", "aborted"}
    /\ i \in BSets /\ j \in 0..size.replicas
    /\ file.kind \in {"none", "torn", "whole"}

MonIInv ==
    /\ MonTypes
    /\ phase = "filling" => Partial
    /\ phase \in {"filled", "writing", "up"} => IsWhole(bset_ids, bset)
    /\ phase = "aborted" => size.bsets % size.services # 0
    /\ file.kind = "whole" => IsWhole(file.bset_ids, file.bset)

-----------------------------------------------------------------------------
(* Remainders *)

\* A greater factor adds at least once the other.
LEMMA Less == ASSUME NEW b \in Nat, NEW p \in Nat, NEW q \in Nat, p < q PROVE b * p + b <= b * q
<1>1. PICK d \in Nat : q = p + 1 + d
  <2>1. q - p - 1 \in Nat /\ q = p + 1 + (q - p - 1)
    OBVIOUS
  <2>2. QED BY <2>1
<1>2. b * q = b * p + b + b * d
  BY <1>1
<1>3. b * d >= 0
  OBVIOUS
<1>4. QED BY <1>2, <1>3

\* What dividing leaves ...
LEMMA DivMod == ASSUME NEW a \in Nat, NEW b \in Nat \ {0}
  PROVE a = b * (a \div b) + (a % b) /\ a % b \in 0..b - 1 /\ a \div b \in Nat
  OBVIOUS

\* ... and that nothing else is left.
LEMMA ModIs ==
  ASSUME NEW b \in Nat \ {0}, NEW q \in Nat, NEW r \in 0..b - 1, NEW a \in Nat, a = b * q + r
  PROVE  a % b = r /\ a \div b = q
<1> DEFINE p == a \div b
           s == a % b
<1>1. /\ a = b * p + s /\ s \in 0..b - 1 /\ p \in Nat
  BY DivMod
<1> HIDE DEF p, s
<1>2. ~(p < q)
  <2> SUFFICES ASSUME p < q PROVE FALSE
    OBVIOUS
  <2>1. b * p + b <= b * q
    BY <1>1, Less
  <2>2. b * p \in Nat /\ b * q \in Nat
    BY <1>1
  <2>3. QED BY <1>1, <2>1, <2>2
<1>3. ~(q < p)
  <2> SUFFICES ASSUME q < p PROVE FALSE
    OBVIOUS
  <2>1. b * q + b <= b * p
    BY <1>1, Less
  <2>2. b * p \in Nat /\ b * q \in Nat
    BY <1>1
  <2>3. QED BY <1>1, <2>1, <2>2
<1>4. p = q /\ s = r
  BY <1>1, <1>2, <1>3
<1>5. QED BY <1>4 DEF p, s

\* The numbers that leave k are k plus a multiple.
LEMMA ResidueIs ==
  ASSUME NEW n \in Nat, NEW s \in Nat \ {0}, NEW k \in 0..s - 1
  PROVE  /\ Residues(n, s, k) = {l \in 0..n - 1 : \E q \in Nat : l = s * q + k}
         /\ IsFiniteSet(Residues(n, s, k)) /\ Cardinality(Residues(n, s, k)) \in Nat
<1>1. ASSUME NEW l \in 0..n - 1 PROVE l % s = k <=> \E q \in Nat : l = s * q + k
  <2>1. l = s * (l \div s) + (l % s) /\ l \div s \in Nat
    BY DivMod
  <2>2. ASSUME NEW q \in Nat, l = s * q + k PROVE l % s = k
    BY <2>2, ModIs
  <2>3. QED BY <2>1, <2>2
<1>2. IsFiniteSet(0..n - 1) /\ Residues(n, s, k) \in SUBSET (0..n - 1)
  BY FS_Interval DEF Residues
<1>3. QED BY <1>1, <1>2, FS_Subset, FS_CardinalityType DEF Residues

\* Every remainder is left equally often, but for one: moving by the difference is injective.
LEMMA ResiduesEven ==
  ASSUME NEW n \in Nat, NEW s \in Nat \ {0}, NEW k \in 0..s - 1, NEW m \in 0..s - 1
  PROVE  Cardinality(Residues(n, s, k)) <= Cardinality(Residues(n, s, m)) + 1
<1> DEFINE A == Residues(n, s, k)
           B == Residues(n, s, m)
<1>1. /\ A = {l \in 0..n - 1 : \E q \in Nat : l = s * q + k} /\ IsFiniteSet(A) /\ Cardinality(A) \in Nat
      /\ B = {l \in 0..n - 1 : \E q \in Nat : l = s * q + m} /\ IsFiniteSet(B) /\ Cardinality(B) \in Nat
  BY ResidueIs
<1> HIDE DEF A, B
<1>2. CASE m <= k
  <2> DEFINE f == [l \in A |-> l - (k - m)]
  <2>1. ASSUME NEW l \in A PROVE l - (k - m) \in B
    <3>1. PICK q \in Nat : l = s * q + k
      BY <1>1
    <3>2. s * q \in Nat
      OBVIOUS
    <3>3. l - (k - m) = s * q + m /\ l - (k - m) \in 0..n - 1
      BY <1>1, <1>2, <3>1, <3>2
    <3>4. QED BY <1>1, <3>3
  <2>2. \A x, y \in A : x - (k - m) = y - (k - m) => x = y
    BY <1>1
  <2>3. f \in Injection(A, B)
    BY <2>1, <2>2 DEF Injection, IsInjective
  <2>4. Cardinality(A) <= Cardinality(B)
    BY <1>1, <2>3, FS_Injection
  <2>5. QED BY <1>1, <2>4 DEF A, B
<1>3. CASE k < m
  <2> DEFINE f == [l \in A \ {k} |-> l - s + (m - k)]
  <2>1. ASSUME NEW l \in A \ {k} PROVE l - s + (m - k) \in B
    <3>1. PICK q \in Nat : l = s * q + k
      BY <1>1
    <3>2. q # 0
      BY <3>1
    <3>3. q - 1 \in Nat /\ s * q = s * (q - 1) + s
      BY <3>2
    <3>4. s * (q - 1) \in Nat
      BY <3>3
    <3>5. l - s + (m - k) = s * (q - 1) + m /\ l - s + (m - k) \in 0..n - 1
      BY <1>1, <1>3, <3>1, <3>3, <3>4
    <3>6. QED BY <1>1, <3>3, <3>5
  <2>2. \A x, y \in A \ {k} : x - s + (m - k) = y - s + (m - k) => x = y
    BY <1>1
  <2>3. f \in Injection(A \ {k}, B)
    BY <2>1, <2>2 DEF Injection, IsInjective
  <2>4. Cardinality(A \ {k}) <= Cardinality(B)
    BY <1>1, <2>3, FS_Injection
  <2>5. Cardinality(A \ {k}) = IF k \in A THEN Cardinality(A) - 1 ELSE Cardinality(A)
    BY <1>1, FS_RemoveElement
  <2>6. QED BY <1>1, <2>4, <2>5 DEF A, B
<1>4. QED BY <1>2, <1>3

\* Where nothing is left over, each remainder is left by the same share of the numbers.
LEMMA ResiduesExact ==
  ASSUME NEW n \in Nat, NEW s \in Nat \ {0}, NEW k \in 0..s - 1
  PROVE  n % s = 0 => Cardinality(Residues(n, s, k)) = n \div s
<1> DEFINE t == n \div s
           A == Residues(n, s, k)
<1>1. A = {l \in 0..n - 1 : \E q \in Nat : l = s * q + k}
  BY ResidueIs
<1> SUFFICES ASSUME n % s = 0 PROVE Cardinality(A) = t
  OBVIOUS
<1>2. n = s * t /\ t \in Nat
  <2>1. n = s * t + (n % s) /\ t \in Nat
    BY DivMod
  <2>2. s * t \in Nat
    BY <2>1
  <2> HIDE DEF t
  <2>3. QED BY <2>1, <2>2
<1> HIDE DEF t, A
<1>3. ASSUME NEW q \in 0..t - 1 PROVE s * q + k \in A
  <2>1. s * q + s <= n /\ s * q \in Nat
    BY <1>2, Less
  <2>2. QED BY <1>1, <2>1
<1>4. ASSUME NEW x \in 0..t - 1, NEW y \in 0..t - 1, s * x + k = s * y + k PROVE x = y
  <2>1. s * x \in Nat /\ s * y \in Nat
    OBVIOUS
  <2>2. s * x + k \in Nat
    BY <2>1
  <2>3. QED BY <1>4, <2>2, ModIs
<1>5. ASSUME NEW l \in A PROVE \E q \in 0..t - 1 : l = s * q + k
  <2>1. PICK q \in Nat : l = s * q + k
    BY <1>1
  <2>2. l \in 0..n - 1 /\ s * q \in Nat /\ s * t \in Nat
    BY <1>1, <1>2
  <2>3. ~(t < q)
    <3>1. t < q => s * t + s <= s * q
      BY <1>2, Less
    <3>2. QED BY <1>2, <2>1, <2>2, <3>1
  <2>4. q # t
    BY <1>2, <2>1, <2>2
  <2>5. QED BY <1>2, <2>1, <2>3, <2>4
<1> DEFINE f == [q \in 0..t - 1 |-> s * q + k]
<1>6. f \in Bijection(0..t - 1, A)
  <2>1. f \in Injection(0..t - 1, A)
    BY <1>3, <1>4 DEF Injection, IsInjective
  <2>2. f \in Surjection(0..t - 1, A)
    BY <1>3, <1>5 DEF Surjection
  <2>3. QED BY <2>1, <2>2 DEF Bijection
<1>7. IsFiniteSet(0..t - 1) /\ Cardinality(0..t - 1) = t
  BY <1>2, FS_Interval
<1>8. QED BY <1>6, <1>7, FS_Bijection DEF ExistsBijection

\* n numbers that follow each other meet every remainder once.
LEMMA Rounds ==
  ASSUME NEW n \in Nat \ {0}, NEW a \in Nat
  PROVE  /\ Round(n, a, 0) = {}
         /\ Round(n, a, n) = 0..n - 1
         /\ \A m \in 0..n - 1 : /\ (a + m) % n \in 0..n - 1
                                /\ Round(n, a, m + 1) = Round(n, a, m) \cup {(a + m) % n}
                                /\ (a + m) % n \notin Round(n, a, m)
<1> DEFINE q == a \div n
           r == a % n
<1>1. a = n * q + r /\ q \in Nat /\ r \in 0..n - 1
  BY DivMod
<1> HIDE DEF q, r
<1>2. n * q \in Nat /\ n * (q + 1) \in Nat /\ n * (q + 1) = n * q + n
  BY <1>1
<1>3. ASSUME NEW m \in 0..n - 1
      PROVE  (a + m) % n = IF r + m < n THEN r + m ELSE r + m - n
  <2>1. CASE r + m < n
    <3>1. a + m = n * q + (r + m) /\ r + m \in 0..n - 1
      BY <1>1, <1>2, <2>1
    <3>2. QED BY <1>1, <2>1, <3>1, ModIs
  <2>2. CASE ~(r + m < n)
    <3>1. a + m = n * (q + 1) + (r + m - n) /\ r + m - n \in 0..n - 1 /\ q + 1 \in Nat
      BY <1>1, <1>2, <2>2
    <3>2. QED BY <1>1, <2>2, <3>1, ModIs
  <2>3. QED BY <2>1, <2>2
<1>4. Round(n, a, 0) = {}
  BY DEF Round
<1>5. ASSUME NEW m \in 0..n - 1
      PROVE  /\ (a + m) % n \in 0..n - 1
             /\ Round(n, a, m + 1) = Round(n, a, m) \cup {(a + m) % n}
             /\ (a + m) % n \notin Round(n, a, m)
  <2>1. (a + m) % n \in 0..n - 1
    BY <1>1, <1>3
  <2>2. 0..(m + 1) - 1 = (0..m - 1) \cup {m}
    OBVIOUS
  <2>3. ASSUME NEW x \in 0..m - 1 PROVE (a + x) % n # (a + m) % n
    BY <1>1, <1>3
  <2>4. QED BY <2>1, <2>2, <2>3 DEF Round
<1>6. Round(n, a, n) = 0..n - 1
  <2>1. ASSUME NEW l \in 0..n - 1 PROVE \E x \in 0..n - 1 : l = (a + x) % n
    <3>1. CASE r <= l
      <4>1. l - r \in 0..n - 1 /\ (a + (l - r)) % n = l
        BY <1>1, <1>3, <3>1
      <4>2. QED BY <4>1
    <3>2. CASE l < r
      <4>1. l - r + n \in 0..n - 1 /\ (a + (l - r + n)) % n = l
        BY <1>1, <1>3, <3>2
      <4>2. QED BY <4>1
    <3>3. QED BY <1>1, <3>1, <3>2
  <2>2. \A x \in 0..n - 1 : (a + x) % n \in 0..n - 1
    BY <1>5
  <2>3. Round(n, a, n) = {(a + x) % n : x \in 0..n - 1}
    BY DEF Round
  <2>4. QED BY <2>1, <2>2, <2>3
<1>7. QED BY <1>4, <1>5, <1>6

\* A number that is divided evenly, and a product with it.
LEMMA Divides ==
  ASSUME NEW n \in Nat, NEW r \in Nat, NEW s \in Nat \ {0}
  PROVE  n % s = 0 => \E t \in Nat : /\ n \div s = t
                                     /\ (n * r) \div s = r * t
                                     /\ (r * t) * s = n * r
<1>1. PICK t \in Nat, v \in Nat : t = n \div s /\ v = n % s /\ n = s * t + v
  <2>1. n = s * (n \div s) + (n % s) /\ n \div s \in Nat /\ n % s \in Nat
    BY DivMod
  <2>2. QED BY <2>1
<1> SUFFICES ASSUME v = 0 PROVE (n * r) \div s = r * t /\ (r * t) * s = n * r
  BY <1>1
<1>2. n = s * t
  <2>1. s * t \in Nat
    OBVIOUS
  <2>2. n = s * t + v
    BY <1>1
  <2>3. QED BY <2>1, <2>2
<1>3. PICK u \in Nat : u = r * t
  <2>1. r * t \in Nat
    OBVIOUS
  <2>2. QED BY <2>1
<1>4. n * r = s * u
  <2>1. (s * t) * r = s * (r * t)
    OBVIOUS
  <2>2. QED BY <1>2, <1>3, <2>1
<1>5. u * s = s * u
  OBVIOUS
<1>6. (n * r) \div s = u
  <2>1. PICK w \in Nat : w = n * r
    <3>1. n * r \in Nat
      OBVIOUS
    <3>2. QED BY <3>1
  <2>2. s * u \in Nat
    OBVIOUS
  <2>3. w = s * u + 0 /\ 0 \in 0..s - 1
    BY <1>4, <2>1, <2>2
  <2>4. w \div s = u
    BY <2>3, ModIs
  <2>5. QED BY <2>1, <2>4
<1>7. QED BY <1>3, <1>4, <1>5, <1>6

\* The next index of a loop that starts again at n.
LEMMA NextIndex ==
  ASSUME NEW n \in Nat \ {0}, NEW m \in 0..n - 1
  PROVE  (m + 1) % n = IF m + 1 = n THEN 0 ELSE m + 1
<1>1. CASE m + 1 = n
  <2>1. m + 1 = n * 1 + 0 /\ 0 \in 0..n - 1
    BY <1>1
  <2>2. QED BY <1>1, <2>1, ModIs
<1>2. CASE m + 1 # n
  <2>1. m + 1 = n * 0 + (m + 1) /\ m + 1 \in 0..n - 1
    BY <1>2
  <2>2. QED BY <1>2, <2>1, ModIs
<1>3. QED BY <1>1, <1>2

-----------------------------------------------------------------------------
(* The sizes *)

\* What the init file says, as numbers.
LEMMA MonSizes ==
  ASSUME MonTypes
  PROVE  /\ size.bsets \in Nat \ {0} /\ size.replicas \in Nat \ {0} /\ size.services \in Nat \ {0}
         /\ i \in 0..size.bsets - 1 /\ j \in Nat /\ j <= size.replicas
         /\ BSets = 0..size.bsets - 1 /\ Services = 0..size.services - 1
  BY ClusterMapMonAssumption DEF MonTypes, BSets, Services

\* A service's share is a set of bsets; each bset is in one share.
LEMMA Shares ==
  ASSUME MonTypes
  PROVE  /\ \A k \in Services : /\ Class(k) \subseteq BSets /\ IsFiniteSet(Class(k)) /\ Share(k) \in Nat
                                /\ \A m \in Services : Share(k) <= Share(m) + 1
         /\ \A l \in BSets : l % size.services \in Services
         /\ \A l \in BSets, k \in Services : l \in Class(k) <=> k = l % size.services
<1> DEFINE n == size.bsets
           s == size.services
<1>1. n \in Nat /\ s \in Nat \ {0} /\ BSets = 0..n - 1 /\ Services = 0..s - 1
  BY MonSizes
<1> HIDE DEF n, s
<1>2. ASSUME NEW l \in 0..n - 1 PROVE l % s \in 0..s - 1
  BY <1>1, DivMod
<1>3. \A k \in 0..s - 1 : /\ Residues(n, s, k) \subseteq 0..n - 1
                          /\ IsFiniteSet(Residues(n, s, k)) /\ Cardinality(Residues(n, s, k)) \in Nat
                          /\ \A m \in 0..s - 1 :
                                Cardinality(Residues(n, s, k)) <= Cardinality(Residues(n, s, m)) + 1
                          /\ \A l \in 0..n - 1 : l \in Residues(n, s, k) <=> k = l % s
  <2>1. ASSUME NEW k \in 0..s - 1
        PROVE  IsFiniteSet(Residues(n, s, k)) /\ Cardinality(Residues(n, s, k)) \in Nat
    BY <1>1, ResidueIs
  <2>2. ASSUME NEW k \in 0..s - 1, NEW m \in 0..s - 1
        PROVE  Cardinality(Residues(n, s, k)) <= Cardinality(Residues(n, s, m)) + 1
    BY <1>1, ResiduesEven
  <2>3. ASSUME NEW k \in 0..s - 1
        PROVE  /\ Residues(n, s, k) \subseteq 0..n - 1
               /\ \A l \in 0..n - 1 : l \in Residues(n, s, k) <=> k = l % s
    BY DEF Residues
  <2>4. QED BY <2>1, <2>2, <2>3
<1>4. QED BY <1>1, <1>2, <1>3, Zenon DEF Class, Share, n, s

\* Average is a number, and the exact share where nothing is left over.
LEMMA AverageIs ==
  ASSUME MonTypes
  PROVE  /\ Average \in Nat
         /\ size.bsets % size.services = 0 =>
               \A k \in Services : Average = size.replicas * Share(k)
<1> DEFINE total == size.bsets * size.replicas
           share == total \div size.services
<1>1. total \in Nat /\ share \in Nat
  <2>1. total \in Nat
    BY MonSizes
  <2>2. QED BY <2>1, MonSizes, DivMod
<1>2. Average \in Nat
  BY <1>1 DEF Average
<1>3. ASSUME size.bsets % size.services = 0, NEW k \in Services
      PROVE  Average = size.replicas * Share(k)
  <2>1. PICK t \in Nat : /\ size.bsets \div size.services = t
                         /\ share = size.replicas * t
                         /\ (size.replicas * t) * size.services = total
    BY <1>3, MonSizes, Divides
  <2>2. Share(k) = t
    BY <1>3, <2>1, MonSizes, ResiduesExact DEF Share, Class
  <2>3. Average = share
    BY <2>1 DEF Average
  <2>4. QED BY <2>1, <2>2, <2>3
<1>4. QED BY <1>2, <1>3

\* An entry more in a list.
LEMMA Occurs ==
  ASSUME NEW T, NEW seq \in Seq(T), NEW y, NEW x
  PROVE  /\ Occurrences(x, seq) \in Nat
         /\ Occurrences(x, Append(seq, y)) = Occurrences(x, seq) + If(x = y)
<1> DEFINE Where(u) == {n \in DOMAIN u : u[n] = x}
<1>1. DOMAIN seq = 1..Len(seq) /\ Len(seq) \in Nat
  OBVIOUS
<1>2. IsFiniteSet(1..Len(seq)) /\ Where(seq) \subseteq 1..Len(seq)
  BY <1>1, FS_Interval
<1>3. IsFiniteSet(Where(seq)) /\ Cardinality(Where(seq)) \in Nat
  BY <1>2, FS_Subset, FS_CardinalityType
<1>4. /\ DOMAIN Append(seq, y) = 1..Len(seq) + 1
      /\ \A n \in 1..Len(seq) : Append(seq, y)[n] = seq[n]
      /\ Append(seq, y)[Len(seq) + 1] = y
  OBVIOUS
<1>5. Where(Append(seq, y)) = IF x = y THEN Where(seq) \cup {Len(seq) + 1} ELSE Where(seq)
  <2>1. 1..Len(seq) + 1 = 1..Len(seq) \cup {Len(seq) + 1}
    BY <1>1
  <2>2. Where(Append(seq, y)) = {n \in 1..Len(seq) : seq[n] = x} \cup {n \in {Len(seq) + 1} : y = x}
    BY <1>4, <2>1
  <2>3. QED BY <1>1, <2>2
<1>6. Len(seq) + 1 \notin Where(seq)
  BY <1>1
<1>7. Cardinality(Where(seq) \cup {Len(seq) + 1}) = Cardinality(Where(seq)) + 1
  BY <1>3, <1>6, FS_AddElement
<1>8. Occurrences(x, Append(seq, y)) = Occurrences(x, seq) + If(x = y)
  <2>1. Cardinality(Where(Append(seq, y))) = Cardinality(Where(seq)) + If(x = y)
    <3> HIDE DEF Where
    <3> QED BY <1>3, <1>5, <1>7 DEF If
  <2>2. QED BY <2>1 DEF Occurrences
<1>9. QED BY <1>3, <1>8 DEF Occurrences

-----------------------------------------------------------------------------
(* Steps *)

\* The sizes are those of the init file throughout.
LEMMA SameSize ==
  ASSUME size' = size
  PROVE  /\ BSets' = BSets /\ Services' = Services /\ Average' = Average
         /\ \A k : Class(k)' = Class(k) /\ Share(k)' = Share(k)
  BY DEF BSets, Services, Average, Class, Share

\* A whole map stays one, in memory and in the file.
LEMMA SameWhole ==
  ASSUME size' = size
  PROVE  /\ bset_ids' = bset_ids /\ bset' = bset /\ IsWhole(bset_ids, bset) => IsWhole(bset_ids, bset)'
         /\ file' = file /\ IsWhole(file.bset_ids, file.bset) => IsWhole(file.bset_ids, file.bset)'
  BY DEF IsWhole, IsMap, Agree, BSets, Services, Average, Class, Share

\* What a turn of the inner loop records.
LEMMA RecordStep ==
  ASSUME MonTypes, Partial, Record, NEW t, NEW p, t = Target, p = Place
  PROVE  /\ t \in BSets /\ p \in Services
         /\ IsMap(bset_ids', bset') /\ Agree(bset_ids', bset')
         /\ \A l \in BSets : Len(bset'[l]) = Len(bset[l]) + If(l = t)
         /\ \A k \in Services : Len(bset_ids'[k]) = Len(bset_ids[k]) + If(k = p)
<1>1. t \in BSets /\ p \in Services
  <2>1. t \in BSets
    BY MonSizes, Rounds DEF Target
  <2>2. QED BY <2>1, Shares DEF Place
<1>2. /\ bset_ids \in [Services -> Seq(BSets)] /\ bset \in [BSets -> Seq(Services)]
      /\ bset_ids' = [bset_ids EXCEPT ![p] = Append(bset_ids[p], t)]
      /\ bset' = [bset EXCEPT ![t] = Append(bset[t], p)]
  BY DEF Partial, IsMap, Record
<1>3. /\ \A k \in Services : bset_ids'[k] = IF k = p THEN Append(bset_ids[k], t) ELSE bset_ids[k]
      /\ \A l \in BSets : bset'[l] = IF l = t THEN Append(bset[l], p) ELSE bset[l]
  BY <1>2
<1>4. IsMap(bset_ids', bset')
  BY <1>1, <1>2 DEF IsMap
<1>5. Agree(bset_ids', bset')
  <2> SUFFICES ASSUME NEW k \in Services, NEW l \in BSets
               PROVE  Occurrences(l, bset_ids'[k]) = Occurrences(k, bset'[l])
    BY DEF Agree
  <2>1. Occurrences(l, bset_ids[k]) = Occurrences(k, bset[l])
    BY DEF Partial, Agree
  <2>2. /\ Occurrences(l, bset_ids[k]) \in Nat
        /\ Occurrences(l, Append(bset_ids[k], t)) = Occurrences(l, bset_ids[k]) + If(l = t)
        /\ Occurrences(k, Append(bset[l], p)) = Occurrences(k, bset[l]) + If(k = p)
    BY <1>2, Occurs
  <2>3. QED BY <1>3, <2>1, <2>2 DEF If
<1>6. QED BY <1>1, <1>2, <1>3, <1>4, <1>5 DEF If

\* How far the turn brings the loops: the bset is new in this round, and so for its service.
LEMMA VisitStep ==
  ASSUME MonTypes, NEW t, t = Target, NEW seen, seen = Visited \cup {t}
  PROVE  /\ t \notin Visited
         /\ seen = Round(size.bsets, j, i + 1) /\ seen \subseteq BSets
         /\ i + 1 = size.bsets => seen = BSets
         /\ \A k \in Services : /\ Cardinality(Class(k) \cap Visited) \in Nat
                                /\ Cardinality(Class(k) \cap seen)
                                      = Cardinality(Class(k) \cap Visited) + If(k = Place)
                                /\ Cardinality(Class(k) \cap seen) <= Share(k)
<1>1. /\ t \in BSets /\ t \notin Visited /\ seen = Round(size.bsets, j, i + 1)
      /\ Round(size.bsets, j, size.bsets) = BSets
  BY MonSizes, Rounds DEF Target, Visited
<1>2. Visited \subseteq BSets
  <2>1. ASSUME NEW x \in 0..i - 1 PROVE (j + x) % size.bsets \in BSets
    <3>1. x \in 0..size.bsets - 1
      BY MonSizes
    <3>2. QED BY <3>1, MonSizes, Rounds
  <2>2. QED BY <2>1 DEF Visited, Round
<1>3. ASSUME NEW k \in Services
      PROVE  /\ Cardinality(Class(k) \cap Visited) \in Nat
             /\ Cardinality(Class(k) \cap seen) = Cardinality(Class(k) \cap Visited) + If(k = Place)
             /\ Cardinality(Class(k) \cap seen) <= Share(k)
  <2>1. IsFiniteSet(Class(k)) /\ (t \in Class(k) <=> k = Place)
    BY <1>1, Shares DEF Place
  <2>2. /\ IsFiniteSet(Class(k) \cap Visited)
        /\ Cardinality(Class(k) \cap Visited) \in Nat
        /\ Cardinality(Class(k) \cap seen) <= Cardinality(Class(k))
    BY <2>1, FS_Subset, FS_CardinalityType
  <2>3. Cardinality((Class(k) \cap Visited) \cup {t}) = Cardinality(Class(k) \cap Visited) + 1
    BY <1>1, <2>2, FS_AddElement
  <2>4. Class(k) \cap seen = IF k = Place THEN (Class(k) \cap Visited) \cup {t} ELSE Class(k) \cap Visited
    BY <2>1
  <2>5. CASE k = Place
    BY <2>2, <2>3, <2>4, <2>5 DEF If, Share
  <2>6. CASE k # Place
    <3> DEFINE c == Cardinality(Class(k) \cap Visited)
    <3>1. c \in Nat /\ Cardinality(Class(k) \cap seen) = c
      BY <2>2, <2>4, <2>6
    <3> HIDE DEF c
    <3>2. Cardinality(Class(k) \cap seen) = c + If(k = Place)
      BY <2>6, <3>1 DEF If
    <3>3. QED BY <2>2, <3>2 DEF c, Share
  <2>7. QED BY <2>5, <2>6
<1>4. QED BY <1>1, <1>2, <1>3

\* A turn of the loops keeps the invariant, or the bsets cannot be dealt out evenly.
LEMMA FillStep ==
  ASSUME MonIInv, Fill
  PROVE  MonIInv'
<1> DEFINE seen == Visited \cup {Target}
<1>0. /\ MonTypes /\ Partial /\ Record /\ phase = "filling" /\ j < size.replicas
      /\ size' = size /\ file' = file
  BY DEF MonIInv, Fill
<1>1. /\ Target \in BSets /\ Place \in Services
      /\ IsMap(bset_ids', bset') /\ Agree(bset_ids', bset')
      /\ \A l \in BSets : Len(bset'[l]) = Len(bset[l]) + If(l = Target)
      /\ \A k \in Services : Len(bset_ids'[k]) = Len(bset_ids[k]) + If(k = Place)
  BY <1>0, RecordStep
<1>2. /\ Target \notin Visited
      /\ seen = Round(size.bsets, j, i + 1)
      /\ i + 1 = size.bsets => seen = BSets
      /\ \A k \in Services : /\ Cardinality(Class(k) \cap Visited) \in Nat
                             /\ Cardinality(Class(k) \cap seen)
                                   = Cardinality(Class(k) \cap Visited) + If(k = Place)
                             /\ Cardinality(Class(k) \cap seen) <= Share(k)
  BY <1>0, VisitStep
<1>3. \A k \in Services : /\ Class(k) \subseteq BSets /\ Share(k) \in Nat /\ j * Share(k) \in Nat
                          /\ Cardinality(Class(k) \cap seen) \in Nat
  <2>1. \A a, b \in Nat : a * b \in Nat
    OBVIOUS
  <2>2. \A k \in Services : Class(k) \subseteq BSets /\ Share(k) \in Nat /\ j \in Nat
    BY <1>0, Shares, MonSizes
  <2>3. ASSUME NEW k \in Services PROVE Cardinality(Class(k) \cap seen) \in Nat
    <3> DEFINE c == Cardinality(Class(k) \cap Visited)
    <3>1. c \in Nat /\ Cardinality(Class(k) \cap seen) = c + If(k = Place)
      BY <1>2
    <3> HIDE DEF c
    <3>2. QED BY <3>1 DEF If
  <2>4. QED BY <2>1, <2>2, <2>3
<1>a. /\ \A l \in BSets : Len(bset[l]) = j + If(l \in Visited)
      /\ \A k \in Services : Len(bset_ids[k]) = j * Share(k) + Cardinality(Class(k) \cap Visited)
      /\ \A k \in Services : Len(bset_ids[k]) <= Average
  BY <1>0 DEF Partial
<1>4. \A l \in BSets : Len(bset'[l]) = j + If(l \in seen)
  <2> SUFFICES ASSUME NEW l \in BSets PROVE Len(bset'[l]) = j + If(l \in seen)
    OBVIOUS
  <2>1. Len(bset'[l]) = j + If(l \in Visited) + If(l = Target) /\ j \in Nat
    BY <1>0, <1>1, <1>a, MonSizes
  <2>2. l \in seen <=> l \in Visited \/ l = Target
    OBVIOUS
  <2>3. ~(l \in Visited /\ l = Target)
    BY <1>2
  <2> HIDE DEF seen
  <2>4. QED BY <2>1, <2>2, <2>3 DEF If
<1>5. \A k \in Services : Len(bset_ids'[k]) = j * Share(k) + Cardinality(Class(k) \cap seen)
  <2> SUFFICES ASSUME NEW k \in Services
               PROVE  Len(bset_ids'[k]) = j * Share(k) + Cardinality(Class(k) \cap seen)
    OBVIOUS
  <2> DEFINE c == Cardinality(Class(k) \cap Visited)
             d == Cardinality(Class(k) \cap seen)
             q == j * Share(k)
  <2>1. c \in Nat /\ d = c + If(k = Place) /\ q \in Nat
    BY <1>2, <1>3
  <2>2. Len(bset_ids'[k]) = q + c + If(k = Place)
    BY <1>1, <1>a
  <2> HIDE DEF c, d, q
  <2>3. Len(bset_ids'[k]) = q + d
    BY <2>1, <2>2 DEF If
  <2>4. QED BY <2>3 DEF d, q
<1>6. file'.kind = "whole" => IsWhole(file.bset_ids, file.bset)'
  BY <1>0, SameWhole DEF MonIInv
<1> HIDE DEF seen
<1>7. CASE ~(Len(bset_ids'[Place]) <= Average)
  <2>1. phase' = "aborted" /\ i' = i /\ j' = j
    BY <1>7 DEF Fill
  <2>2. size.bsets % size.services # 0
    <3> SUFFICES ASSUME size.bsets % size.services = 0 PROVE FALSE
      OBVIOUS
    <3> DEFINE share == Share(Place)
    <3>1. Average = size.replicas * share /\ share \in Nat
      BY <1>0, <1>1, <1>3, AverageIs
    <3>2. Len(bset_ids'[Place]) <= j * share + share
      <4> DEFINE d == Cardinality(Class(Place) \cap seen)
                 q == j * share
      <4>1. d <= share /\ d \in Nat /\ share \in Nat /\ q \in Nat /\ Len(bset_ids'[Place]) = q + d
        BY <1>1, <1>2, <1>3, <1>5
      <4> HIDE DEF d, q, share
      <4>2. Len(bset_ids'[Place]) <= q + share
        BY <4>1
      <4>3. QED BY <4>2 DEF q
    <3>3. share * j + share <= share * size.replicas
      BY <1>0, <3>1, MonSizes, Less
    <3>4. share * j = j * share /\ share * size.replicas = size.replicas * share
      BY <1>0, <3>1, MonSizes
    <3>5. Len(bset_ids'[Place]) \in Nat /\ Average \in Nat /\ j * share \in Nat
      <4>1. j * share \in Nat
        BY <1>1, <1>3
      <4>2. Average \in Nat
        BY <1>0, AverageIs
      <4>3. bset_ids'[Place] \in Seq(BSets)
        BY <1>1 DEF IsMap
      <4>4. Len(bset_ids'[Place]) \in Nat
        BY <4>3
      <4>5. QED BY <4>1, <4>2, <4>4
    <3> HIDE DEF share
    <3>6. Len(bset_ids'[Place]) <= size.replicas * share
      <4> DEFINE q == j * share
                 a == size.replicas * share
      <4>1. Len(bset_ids'[Place]) <= q + share /\ q + share <= a /\ q \in Nat /\ a \in Nat
        BY <3>1, <3>2, <3>3, <3>4, <3>5
      <4> HIDE DEF q, a
      <4>2. Len(bset_ids'[Place]) <= a
        BY <3>1, <3>5, <4>1
      <4>3. QED BY <4>2 DEF a
    <3>7. QED BY <1>7, <3>1, <3>6
  <2>3. MonTypes'
    BY <1>0, <2>1, SameSize DEF MonTypes
  <2>4. QED BY <1>0, <1>6, <2>1, <2>2, <2>3 DEF MonIInv
<1>8. CASE Len(bset_ids'[Place]) <= Average
  <2>1. /\ phase' = phase /\ i' = (i + 1) % size.bsets
        /\ j' = IF i + 1 = size.bsets THEN j + 1 ELSE j
    BY <1>8 DEF Fill
  <2>2. /\ i' = IF i + 1 = size.bsets THEN 0 ELSE i + 1
        /\ i' \in BSets /\ j' \in 0..size.replicas
        /\ j' = size.replicas => i' = 0
    <3>1. i' = IF i + 1 = size.bsets THEN 0 ELSE i + 1
      BY <1>0, <2>1, MonSizes, NextIndex
    <3>2. QED BY <1>0, <2>1, <3>1, MonSizes
  <2>3. Visited' = IF i + 1 = size.bsets THEN {} ELSE seen
    <3>1. CASE i + 1 = size.bsets
      <4>1. Visited' = Round(size.bsets, j + 1, 0)
        BY <1>0, <2>1, <2>2, <3>1 DEF Visited
      <4>2. j + 1 \in Nat /\ size.bsets \in Nat \ {0}
        BY <1>0, MonSizes
      <4>3. Round(size.bsets, j + 1, 0) = {}
        BY <4>2, Rounds
      <4>4. QED BY <3>1, <4>1, <4>3
    <3>2. CASE i + 1 # size.bsets
      <4>1. Visited' = Round(size.bsets, j, i + 1)
        BY <1>0, <2>1, <2>2, <3>2 DEF Visited
      <4>2. QED BY <1>2, <3>2, <4>1
    <3>3. QED BY <3>1, <3>2
  <2>4. \A l \in BSets : Len(bset'[l]) = j' + If(l \in Visited')
    BY <1>0, <1>2, <1>4, <2>1, <2>3, MonSizes DEF If
  <2>5. \A k \in Services : Len(bset_ids'[k]) = j' * Share(k) + Cardinality(Class(k) \cap Visited')
    <3> SUFFICES ASSUME NEW k \in Services
                 PROVE  Len(bset_ids'[k]) = j' * Share(k) + Cardinality(Class(k) \cap Visited')
      OBVIOUS
    <3>1. CASE i + 1 # size.bsets
      BY <1>5, <2>1, <2>3, <3>1
    <3>2. CASE i + 1 = size.bsets
      <4>1. Class(k) \cap seen = Class(k) /\ Class(k) \cap Visited' = {}
        BY <1>2, <1>3, <2>3, <3>2
      <4>2. Cardinality(Class(k) \cap seen) = Share(k) /\ Cardinality(Class(k) \cap Visited') = 0
        BY <4>1, FS_EmptySet DEF Share
      <4>3. (j + 1) * Share(k) = j * Share(k) + Share(k)
        <5>1. \A a, b \in Nat : (a + 1) * b = a * b + b
          OBVIOUS
        <5>2. QED BY <1>0, <1>3, <5>1, MonSizes
      <4>4. QED BY <1>3, <1>5, <2>1, <3>2, <4>2, <4>3
    <3>3. QED BY <3>1, <3>2
  <2>6. \A k \in Services : Len(bset_ids'[k]) <= Average
    <3> SUFFICES ASSUME NEW k \in Services, k # Place PROVE Len(bset_ids'[k]) <= Average
      BY <1>8
    <3>1. Len(bset_ids'[k]) = Len(bset_ids[k]) + 0 /\ Len(bset_ids[k]) \in Nat
      BY <1>0, <1>1 DEF Partial, IsMap, If
    <3>2. QED BY <1>a, <3>1
  <2>7. Partial'
    BY <1>0, <1>1, <2>2, <2>4, <2>5, <2>6, SameSize DEF Partial, IsMap, Agree, If
  <2>8. MonTypes'
    BY <1>0, <2>1, <2>2, SameSize DEF MonTypes
  <2>9. QED BY <1>0, <1>6, <2>1, <2>7, <2>8 DEF MonIInv
<1>9. QED BY <1>7, <1>8

\* Nothing is placed at first.
LEMMA MonInit == Init => MonIInv
<1> SUFFICES ASSUME Init PROVE MonIInv
  OBVIOUS
<1>1. MonTypes
  <2>1. size.bsets \in Nat \ {0} /\ size.replicas \in Nat \ {0}
    BY ClusterMapMonAssumption DEF Init
  <2>2. QED BY <2>1 DEF Init, MonTypes, BSets
<1>2. QED BY <1>1 DEF Init, MonIInv

\* The other steps: no list changes but those that are made new or read back.
LEMMA MonSteps == MonIInv /\ [Next]_vars => MonIInv'
<1> SUFFICES ASSUME MonIInv, [Next]_vars PROVE MonIInv'
  OBVIOUS
<1>0. MonTypes /\ size' = size
  BY DEF MonIInv, Next, Starting, StartFromInit, InitRefused, Fill, FillDone, Truncate, Write,
         StartFromFile, Crash, vars
<1>1. BSets' = BSets /\ Services' = Services /\ 0 \in BSets /\ 0 \in 0..size.replicas
  BY <1>0, SameSize, MonSizes
<1>2. /\ bset_ids' = bset_ids /\ bset' = bset /\ IsWhole(bset_ids, bset) => IsWhole(bset_ids, bset)'
      /\ file' = file /\ IsWhole(file.bset_ids, file.bset) => IsWhole(file.bset_ids, file.bset)'
  BY <1>0, SameWhole
<1>3. CASE StartFromInit
  <2>1. phase' = "filling" /\ i' = 0 /\ j' = 0 /\ file' = file /\ file.kind = "none"
    BY <1>3 DEF StartFromInit
  <2>2. MonTypes'
    BY <1>0, <1>1, <2>1 DEF MonTypes
  <2>3. IsMap(bset_ids', bset') /\ Agree(bset_ids', bset')
    <3>1. bset_ids' = [k \in Services |-> <<>>] /\ bset' = [l \in BSets |-> <<>>]
      BY <1>3 DEF StartFromInit
    <3>2. IsMap(bset_ids', bset')
      BY <3>1 DEF IsMap
    <3>3. ASSUME NEW x PROVE Occurrences(x, <<>>) = 0
      <4>1. {n \in DOMAIN <<>> : <<>>[n] = x} = {}
        OBVIOUS
      <4>2. QED BY <4>1, FS_EmptySet DEF Occurrences
    <3>4. Agree(bset_ids', bset')
      BY <3>1, <3>3 DEF Agree
    <3>5. QED BY <3>2, <3>4
  <2>4. \A l \in BSets : bset'[l] = <<>>
    BY <1>3 DEF StartFromInit
  <2>5. \A k \in Services : bset_ids'[k] = <<>>
    BY <1>3 DEF StartFromInit
  <2>6. Visited' = {}
    BY <1>0, <2>1, MonSizes, Rounds DEF Visited
  <2>7. \A k \in Services : /\ 0 * Share(k) = 0 /\ Cardinality(Class(k) \cap Visited') = 0
                            /\ 0 <= Average
    BY <1>0, <2>6, Shares, AverageIs, FS_EmptySet
  <2>8. Partial'
    BY <1>0, <1>1, <2>1, <2>3, <2>4, <2>5, <2>6, <2>7, SameSize DEF Partial, IsMap, Agree, If
  <2>9. QED BY <2>1, <2>2, <2>8 DEF MonIInv
<1>4. CASE FillDone
  <2>1. phase = "filling" /\ phase' = "filled" /\ j = size.replicas
        /\ UNCHANGED <<size, i, j, bset_ids, bset, file>>
    BY <1>4 DEF FillDone
  <2>2. Partial /\ i = 0
    BY <2>1 DEF MonIInv, Partial
  <2>3. Visited = {}
    BY <1>0, <2>2, MonSizes, Rounds DEF Visited
  <2>4. IsWhole(bset_ids, bset)
    <3>1. \A k \in Services : Share(k) \in Nat /\ size.replicas * Share(k) \in Nat
      <4>1. \A a, b \in Nat : a * b \in Nat
        OBVIOUS
      <4>2. QED BY <1>0, <4>1, Shares, MonSizes
    <3>2. \A k \in Services : Cardinality(Class(k) \cap Visited) = 0
      BY <2>3, FS_EmptySet
    <3>3. \A k \in Services : Len(bset_ids[k]) = size.replicas * Share(k) /\ Len(bset_ids[k]) <= Average
      <4> SUFFICES ASSUME NEW k \in Services
                   PROVE  Len(bset_ids[k]) = size.replicas * Share(k) /\ Len(bset_ids[k]) <= Average
        OBVIOUS
      <4>1. /\ Len(bset_ids[k]) = size.replicas * Share(k) + Cardinality(Class(k) \cap Visited)
            /\ Len(bset_ids[k]) <= Average
        BY <2>1, <2>2 DEF Partial
      <4> DEFINE q == size.replicas * Share(k)
      <4>2. q \in Nat /\ Len(bset_ids[k]) = q + 0
        BY <3>1, <3>2, <4>1
      <4> HIDE DEF q
      <4>3. Len(bset_ids[k]) = q
        BY <4>2
      <4>4. QED BY <4>1, <4>3 DEF q
    <3>4. \A l \in BSets : Len(bset[l]) = size.replicas
      BY <1>0, <2>1, <2>2, <2>3, MonSizes DEF Partial, If
    <3>5. QED BY <2>2, <3>3, <3>4 DEF Partial, IsWhole
  <2>5. MonTypes'
    BY <1>0, <1>1, <2>1 DEF MonTypes
  <2>6. QED BY <1>2, <2>1, <2>4, <2>5 DEF MonIInv
<1>5. CASE Fill
  BY <1>5, FillStep
<1>6. CASE Truncate \/ Write
  <2>1. \/ phase = "filled" /\ phase' = "writing" /\ file'.kind = "torn"
        \/ phase = "writing" /\ phase' = "up" /\ file' = Dumped
    BY <1>6 DEF Truncate, Write
  <2>0. UNCHANGED <<i, j, bset_ids, bset>>
    BY <1>6 DEF Truncate, Write
  <2>2. IsWhole(bset_ids, bset) /\ IsWhole(bset_ids, bset)'
    BY <1>2, <2>0, <2>1 DEF MonIInv
  <2>3. MonTypes'
    BY <1>0, <1>1, <2>0, <2>1 DEF MonTypes, Dumped
  <2>4. file'.kind = "whole" => file'.bset_ids = bset_ids' /\ file'.bset = bset'
    BY <2>0, <2>1 DEF Dumped
  <2>5. file'.kind = "whole" => IsWhole(file.bset_ids, file.bset)'
    BY <2>2, <2>4 DEF IsWhole, IsMap, Agree
  <2>6. QED BY <2>1, <2>2, <2>3, <2>5 DEF MonIInv
<1>7. CASE InitRefused \/ Crash
  <2>1. phase' \in {"failed", "down"} /\ file' = file /\ i' \in BSets /\ j' \in 0..size.replicas
    BY <1>0, <1>1, <1>7 DEF InitRefused, Crash, MonTypes
  <2>2. MonTypes'
    BY <1>0, <1>1, <2>1 DEF MonTypes
  <2>3. QED BY <1>2, <2>1, <2>2 DEF MonIInv
<1>8. CASE StartFromFile
  <2>1. file' = file /\ i' = i /\ j' = j
    BY <1>8 DEF StartFromFile
  <2>2. \/ phase' = "failed"
        \/ /\ phase' = "up" /\ file.kind = "whole"
           /\ bset_ids' = file'.bset_ids /\ bset' = file'.bset
    BY <1>0, <1>8, <2>1 DEF StartFromFile, Load, MonTypes
  <2>3. MonTypes'
    BY <1>0, <1>1, <2>1, <2>2 DEF MonTypes
  <2>4. phase' = "up" => IsWhole(file.bset_ids, file.bset)'
    BY <1>2, <2>1, <2>2 DEF MonIInv
  <2>5. phase' = "up" => IsWhole(bset_ids, bset)'
    BY <2>2, <2>4 DEF IsWhole, IsMap, Agree
  <2>6. QED BY <1>2, <2>1, <2>2, <2>3, <2>5 DEF MonIInv
<1>9. CASE UNCHANGED vars
  <2>1. UNCHANGED <<phase, i, j, bset_ids, bset, file>>
    BY <1>9 DEF vars
  <2>2. MonTypes'
    BY <1>0, <1>1, <2>1 DEF MonTypes
  <2>3. phase = "filling" => Partial'
    BY <1>0, <2>1 DEF MonIInv, Partial, IsMap, Agree, BSets, Services, Average, Class, Share, Visited
  <2>4. file.kind = "whole" => IsWhole(file.bset_ids, file.bset)'
    BY <1>2, <2>1 DEF MonIInv
  <2>5. phase \in {"filled", "writing", "up"} => IsWhole(bset_ids, bset)'
    BY <1>2, <2>1 DEF MonIInv
  <2>6. phase = "aborted" => size'.bsets % size'.services # 0
    BY <1>0 DEF MonIInv
  <2>7. QED BY <2>1, <2>2, <2>3, <2>4, <2>5, <2>6 DEF MonIInv
<1>10. QED BY <1>3, <1>4, <1>5, <1>6, <1>7, <1>8, <1>9 DEF Next, Starting

\* The inductive invariant of Mon's map: what is placed so far, what is whole, in memory and
\* in the file, over crashes at every step (ClusterMapMon.c).
THEOREM MonInvariance == Spec => []MonIInv
<1>1. QED BY MonInit, MonSteps, PTL DEF Spec

-----------------------------------------------------------------------------
(* The properties *)

\* For init files of any size: the two indexes that cmmFillBSets fills agree after every turn of
\* its loops, in what is dumped, and in what is read back.
THEOREM TheIndexesAgree == Spec => []IndexesAgree
<1>1. MonIInv => IndexesAgree
  BY DEF MonIInv, Partial, IsWhole, Agree, IndexesAgree
<1>2. QED BY <1>1, MonInvariance, PTL

\* For init files of any size and any number of crashes: Mon serves no map that lacks a
\* replica, or that gives a service more entries than were allocated for it.
THEOREM MonServesWhole == Spec => []ServesWhole
<1>1. MonIInv => ServesWhole
  <2> SUFFICES ASSUME MonIInv, phase = "up" PROVE ServesWhole
    BY DEF ServesWhole
  <2>1. IsWhole(bset_ids, bset) /\ MonTypes
    BY DEF MonIInv
  <2>2. bset_ids \in [Services -> Seq(BSets)] /\ 0 \in Services
    BY <2>1, MonSizes DEF IsWhole, IsMap
  <2>3. bset_ids # NoMap
    <3>1. DOMAIN NoMap = {}
      BY DEF NoMap
    <3>2. DOMAIN bset_ids = Services
      BY <2>2
    <3>3. QED BY <2>2, <3>1, <3>2
  <2>4. QED BY <2>1, <2>3 DEF IsWhole, ServesWhole
<1>2. QED BY <1>1, MonInvariance, PTL

\* For init files of any size: the services' loads differ by the replicas of one bset at most,
\* and the assertion of cmmFillBSets fails only where the bsets cannot be dealt out evenly.
THEOREM DealtEvenly == Spec => []Balanced
<1>1. MonIInv => Balanced
  <2> SUFFICES ASSUME MonIInv PROVE Balanced
    OBVIOUS
  <2>1. ASSUME phase = "up", NEW k \in Services, NEW m \in Services
        PROVE  Len(bset_ids[k]) <= Len(bset_ids[m]) + size.replicas
    <3> DEFINE r == size.replicas
               a == Share(k)
               b == Share(m)
    <3>1. IsWhole(bset_ids, bset) /\ MonTypes
      BY <2>1 DEF MonIInv
    <3>2. Len(bset_ids[k]) = r * a /\ Len(bset_ids[m]) = r * b
      BY <3>1 DEF IsWhole
    <3>3. r \in Nat /\ a \in Nat /\ b \in Nat /\ a <= b + 1
      BY <3>1, Shares, MonSizes
    <3> HIDE DEF r, a, b
    <3>4. r * a \in Nat /\ r * b \in Nat /\ r * (b + 1) = r * b + r
      BY <3>3
    <3>5. r * a <= r * (b + 1)
      <4>1. a = b + 1 \/ a < b + 1
        BY <3>3
      <4>2. a < b + 1 => r * a + r <= r * (b + 1)
        BY <3>3, Less
      <4>3. QED BY <3>3, <3>4, <4>1, <4>2
    <3>6. r * a <= r * b + r
      BY <3>4, <3>5
    <3>7. QED BY <3>2, <3>6 DEF r
  <2>2. QED BY <2>1 DEF Balanced, MonIInv
<1>2. QED BY <1>1, MonInvariance, PTL
=============================================================================
