--------------------------- MODULE QueueTheorems ----------------------------
(***************************************************************************)
(* Facts about the queue operations: which elements a queue holds after    *)
(* the operation, and that it still holds each at most once.               *)
(***************************************************************************)
EXTENDS Queues, SequencesExt, SequenceTheorems, WellFoundedInduction, TLAPS

\* Every nonempty set of naturals has a least element.
LEMMA LeastNat ==
  ASSUME NEW T \in SUBSET Nat, T # {}
  PROVE  \E n \in T : \A m \in T : n <= m
<1>1. OpToRel(<, Nat) = {ss \in Nat \X Nat : ss[1] < ss[2]}
  BY DEF OpToRel
<1>2. PICK n \in T : \A m \in T : ~(<<m, n>> \in OpToRel(<, Nat))
  BY NatLessThanWellFounded, WFMin
<1>3. \A m \in T : ~(m < n)
  BY <1>1, <1>2
<1> QED BY <1>3

\* Induction up to a bound, with the property given as a set.
LEMMA BoundedInduction ==
  ASSUME NEW N \in Nat, NEW G, 0 \in G, \A n \in 1 .. N : n - 1 \in G => n \in G
  PROVE  \A n \in 0 .. N : n \in G
<1> DEFINE T == {n \in 0 .. N : n \notin G}
<1>1. SUFFICES ASSUME T # {} PROVE FALSE
  OBVIOUS
<1>2. T \in SUBSET Nat
  OBVIOUS
<1>3. PICK n \in T : \A m \in T : n <= m
  <2> HIDE DEF T
  <2> QED BY <1>1, <1>2, LeastNat
<1>4. n \in 1 .. N /\ n \notin G
  <2>1. n \in 0 .. N /\ n \notin G
    OBVIOUS
  <2> QED BY <2>1
<1>5. n - 1 \in 0 .. N /\ n - 1 \notin G
  BY <1>4
<1>6. n - 1 \in T
  BY <1>5
<1> HIDE DEF T
<1> QED BY <1>3, <1>4, <1>6

\* The two predicates on queues, by index.
LEMMA QueueByIndex ==
  ASSUME NEW S, NEW q \in Seq(S)
  PROVE  /\ Len(q) \in Nat
         /\ \A i \in 1 .. Len(q) : q[i] \in S
         /\ IsInjective(q) <=> \A i, j \in 1 .. Len(q) : q[i] = q[j] => i = j
         /\ \A x : x \in Range(q) <=> \E i \in 1 .. Len(q) : q[i] = x
<1>1. DOMAIN q = 1 .. Len(q) /\ Len(q) \in Nat /\ \A i \in 1 .. Len(q) : q[i] \in S
  OBVIOUS
<1>2. IsInjective(q) <=> \A i, j \in 1 .. Len(q) : q[i] = q[j] => i = j
  BY <1>1 DEF IsInjective
<1>3. \A x : x \in Range(q) <=> \E i \in 1 .. Len(q) : q[i] = x
  BY <1>1 DEF Range
<1> QED BY <1>1, <1>2, <1>3

\* Appending an element the queue does not hold.
LEMMA AppendFresh ==
  ASSUME NEW S, NEW q \in Seq(S), NEW e \in S, IsInjective(q), e \notin Range(q)
  PROVE  /\ Append(q, e) \in Seq(S)
         /\ IsInjective(Append(q, e))
         /\ Range(Append(q, e)) = Range(q) \cup {e}
<1> DEFINE r == Append(q, e)
<1>1. /\ r \in Seq(S)
      /\ Len(r) = Len(q) + 1
      /\ \A i \in 1 .. Len(q) : r[i] = q[i]
      /\ r[Len(q) + 1] = e
  BY AppendProperties
<1> HIDE DEF r
<1>2. IsInjective(r)
  BY <1>1, QueueByIndex
<1>3. \A x : x \in Range(r) <=> x \in Range(q) \/ x = e
  <2>1. ASSUME NEW x, x \in Range(r) PROVE x \in Range(q) \/ x = e
    BY <1>1, <2>1, QueueByIndex
  <2>2. ASSUME NEW x, x \in Range(q) PROVE x \in Range(r)
    <3>1. PICK i \in 1 .. Len(q) : q[i] = x
      BY <2>2, QueueByIndex
    <3>2. i \in 1 .. Len(r) /\ r[i] = x
      BY <3>1, <1>1, QueueByIndex
    <3> QED BY <3>2, <1>1, QueueByIndex
  <2>3. e \in Range(r)
    <3>1. Len(q) + 1 \in 1 .. Len(r)
      BY <1>1, QueueByIndex
    <3> QED BY <3>1, <1>1, QueueByIndex
  <2> QED BY <2>1, <2>2, <2>3
<1> QED BY <1>1, <1>2, <1>3 DEF r

\* Concatenating two queues that share no element.
LEMMA ConcatDisjoint ==
  ASSUME NEW S, NEW p \in Seq(S), NEW q \in Seq(S), IsInjective(p), IsInjective(q),
         Range(p) \cap Range(q) = {}
  PROVE  /\ p \o q \in Seq(S)
         /\ IsInjective(p \o q)
         /\ Range(p \o q) = Range(p) \cup Range(q)
<1> DEFINE r == p \o q
<1>1. /\ r \in Seq(S)
      /\ Len(r) = Len(p) + Len(q)
      /\ \A i \in 1 .. Len(p) + Len(q) : r[i] = IF i <= Len(p) THEN p[i] ELSE q[i - Len(p)]
  BY ConcatProperties
<1>2. Range(r) = Range(p) \cup Range(q)
  BY RangeConcatenation
<1> HIDE DEF r
<1>3. ASSUME NEW i \in 1 .. Len(r), NEW j \in 1 .. Len(r), r[i] = r[j]
      PROVE  i = j
  <2>1. \A a \in 1 .. Len(p), b \in 1 .. Len(q) : p[a] # q[b]
    BY QueueByIndex
  <2>2. CASE i <= Len(p) /\ j <= Len(p)
    BY <2>2, <1>1, <1>3, QueueByIndex
  <2>3. CASE i > Len(p) /\ j > Len(p)
    <3>1. i - Len(p) \in 1 .. Len(q) /\ j - Len(p) \in 1 .. Len(q)
      BY <2>3, <1>1, QueueByIndex
    <3>2. q[i - Len(p)] = q[j - Len(p)]
      BY <2>3, <1>1, <1>3, QueueByIndex
    <3>3. i - Len(p) = j - Len(p)
      BY <3>1, <3>2, QueueByIndex
    <3> QED BY <3>3, QueueByIndex
  <2>4. CASE i <= Len(p) /\ j > Len(p)
    <3>1. i \in 1 .. Len(p) /\ j - Len(p) \in 1 .. Len(q)
      BY <2>4, <1>1, QueueByIndex
    <3>2. p[i] = q[j - Len(p)]
      BY <2>4, <1>1, <1>3, QueueByIndex
    <3> QED BY <3>1, <3>2, <2>1
  <2>5. CASE i > Len(p) /\ j <= Len(p)
    <3>1. j \in 1 .. Len(p) /\ i - Len(p) \in 1 .. Len(q)
      BY <2>5, <1>1, QueueByIndex
    <3>2. p[j] = q[i - Len(p)]
      BY <2>5, <1>1, <1>3, QueueByIndex
    <3> QED BY <3>1, <3>2, <2>1
  <2> QED BY <2>2, <2>3, <2>4, <2>5, <1>1, QueueByIndex
<1>4. IsInjective(r)
  BY <1>1, <1>3, QueueByIndex
<1> QED BY <1>1, <1>2, <1>4 DEF r

\* Moving the head of a queue to its back.
LEMMA RotateQueue ==
  ASSUME NEW S, NEW q \in Seq(S), q # << >>, IsInjective(q)
  PROVE  /\ Append(Tail(q), Head(q)) \in Seq(S)
         /\ IsInjective(Append(Tail(q), Head(q)))
         /\ Range(Append(Tail(q), Head(q))) = Range(q)
         /\ Head(q) \in Range(q)
<1> DEFINE t == Tail(q)
           h == Head(q)
<1>1. /\ t \in Seq(S) /\ h \in S
      /\ Len(t) = Len(q) - 1
      /\ \A i \in 1 .. Len(t) : t[i] = q[i + 1]
      /\ h = q[1] /\ Len(q) >= 1
  <2>1. h = q[1] /\ Len(q) >= 1
    OBVIOUS
  <2> QED BY <2>1, HeadTailProperties
<1> HIDE DEF t, h
<1>2. IsInjective(t)
  <2>1. ASSUME NEW i \in 1 .. Len(t), NEW j \in 1 .. Len(t), t[i] = t[j] PROVE i = j
    <3>1. i + 1 \in 1 .. Len(q) /\ j + 1 \in 1 .. Len(q) /\ q[i + 1] = q[j + 1]
      BY <1>1, <2>1, QueueByIndex
    <3>2. i + 1 = j + 1
      BY <3>1, QueueByIndex
    <3> QED BY <3>2
  <2> QED BY <2>1, <1>1, QueueByIndex
<1>3. h \notin Range(t)
  <2>1. SUFFICES ASSUME NEW i \in 1 .. Len(t), t[i] = h PROVE FALSE
    BY <1>1, QueueByIndex
  <2>2. i + 1 \in 1 .. Len(q) /\ 1 \in 1 .. Len(q) /\ q[i + 1] = q[1]
    BY <1>1, <2>1, QueueByIndex
  <2>3. i + 1 = 1
    BY <2>2, QueueByIndex
  <2> QED BY <2>3
<1>4. \A x : x \in Range(q) <=> x \in Range(t) \/ x = h
  <2>1. ASSUME NEW x, x \in Range(q) PROVE x \in Range(t) \/ x = h
    <3>1. PICK i \in 1 .. Len(q) : q[i] = x
      BY <2>1, QueueByIndex
    <3>2. CASE i = 1
      BY <3>1, <3>2, <1>1
    <3>3. CASE i # 1
      <4>1. i - 1 \in 1 .. Len(t) /\ t[i - 1] = x
        BY <3>1, <3>3, <1>1, QueueByIndex
      <4> QED BY <4>1, <1>1, QueueByIndex
    <3> QED BY <3>2, <3>3
  <2>2. ASSUME NEW x, x \in Range(t) PROVE x \in Range(q)
    <3>1. PICK i \in 1 .. Len(t) : t[i] = x
      BY <2>2, <1>1, QueueByIndex
    <3>2. i + 1 \in 1 .. Len(q) /\ q[i + 1] = x
      BY <3>1, <1>1, QueueByIndex
    <3> QED BY <3>2, QueueByIndex
  <2>3. h \in Range(q)
    <3>1. 1 \in 1 .. Len(q) /\ q[1] = h
      BY <1>1, QueueByIndex
    <3> QED BY <3>1, QueueByIndex
  <2> QED BY <2>1, <2>2, <2>3
<1>5. /\ Append(t, h) \in Seq(S)
      /\ IsInjective(Append(t, h))
      /\ Range(Append(t, h)) = Range(t) \cup {h}
  BY <1>1, <1>2, <1>3, AppendFresh
<1> QED BY <1>4, <1>5 DEF t, h

\* Erasing one element, by index: those behind it move up one place.
LEMMA RemoveFirstByIndex ==
  ASSUME NEW S, NEW q \in Seq(S), NEW e, IsInjective(q),
         NEW k \in 1 .. Len(q), q[k] = e
  PROVE  /\ RemoveFirst(q, e) \in Seq(S)
         /\ Len(q) \in Nat /\ Len(RemoveFirst(q, e)) = Len(q) - 1
         /\ \A i \in 1 .. Len(q) - 1 :
              RemoveFirst(q, e)[i] = IF i < k THEN q[i] ELSE q[i + 1]
<1>2. {i \in 1 .. Len(q) : q[i] = e} = {k}
  BY QueueByIndex
<1>3. RemoveFirst(q, e) = RemoveAt(q, Min({k}))
  BY <1>2 DEF RemoveFirst, SelectInSeq
<1>4. Min({k}) = k
  BY DEF Min
<1> DEFINE a == SubSeq(q, 1, k - 1)
           b == SubSeq(q, k + 1, Len(q))
           r == a \o b
<1>5. RemoveFirst(q, e) = r
  BY <1>3, <1>4 DEF RemoveAt
<1>6. /\ a \in Seq(S) /\ Len(a) = k - 1
      /\ \A i \in 1 .. k - 1 : a[i] = q[i]
  BY SubSeqProperties, QueueByIndex
<1>7. /\ b \in Seq(S) /\ Len(b) = Len(q) - k
      /\ \A i \in 1 .. Len(q) - k : b[i] = q[k + i]
  BY SubSeqProperties, QueueByIndex
<1>8. /\ r \in Seq(S)
      /\ Len(r) = Len(a) + Len(b)
      /\ \A i \in 1 .. Len(a) + Len(b) : r[i] = IF i <= Len(a) THEN a[i] ELSE b[i - Len(a)]
  BY <1>6, <1>7, ConcatProperties
<1> HIDE DEF a, b
<1> HIDE DEF r
<1>9. Len(q) \in Nat /\ Len(r) = Len(q) - 1
  BY <1>6, <1>7, <1>8, QueueByIndex
<1>10. ASSUME NEW i \in 1 .. Len(q) - 1
       PROVE  r[i] = IF i < k THEN q[i] ELSE q[i + 1]
  <2>1. r[i] = IF i <= Len(a) THEN a[i] ELSE b[i - Len(a)]
    BY <1>6, <1>7, <1>8, <1>9
  <2>2. CASE i < k
    BY <2>1, <2>2, <1>6, <1>9
  <2>3. CASE ~(i < k)
    <3>1. i - Len(a) \in 1 .. Len(q) - k /\ k + (i - Len(a)) = i + 1
      BY <2>3, <1>6, <1>9
    <3>2. r[i] = b[i - Len(a)]
      BY <2>1, <2>3, <1>6, <1>9
    <3> QED BY <3>1, <3>2, <2>3, <1>7
  <2> QED BY <2>2, <2>3
<1> QED BY <1>5, <1>8, <1>9, <1>10

\* Erasing one element.
LEMMA RemoveFirstOnce ==
  ASSUME NEW S, NEW q \in Seq(S), NEW e, IsInjective(q)
  PROVE  /\ RemoveFirst(q, e) \in Seq(S)
         /\ IsInjective(RemoveFirst(q, e))
         /\ Range(RemoveFirst(q, e)) = Range(q) \ {e}
<1>1. CASE \E i \in 1 .. Len(q) : q[i] = e
  <2>1. PICK k \in 1 .. Len(q) : q[k] = e
    BY <1>1
  <2> DEFINE r == RemoveFirst(q, e)
  <2>8. r \in Seq(S)
    BY <2>1, RemoveFirstByIndex
  <2>9. /\ Len(q) \in Nat /\ Len(r) = Len(q) - 1
        /\ \A i \in 1 .. Len(q) - 1 : r[i] = IF i < k THEN q[i] ELSE q[i + 1]
    BY <2>1, RemoveFirstByIndex
  <2> HIDE DEF r
  <2>10. IsInjective(r)
    <3>1. ASSUME NEW i \in 1 .. Len(r), NEW j \in 1 .. Len(r), r[i] = r[j] PROVE i = j
      <4>1. /\ i \in 1 .. Len(q) /\ i + 1 \in 1 .. Len(q)
            /\ j \in 1 .. Len(q) /\ j + 1 \in 1 .. Len(q)
        BY <2>9
      <4>2. \A m, n \in 1 .. Len(q) : q[m] = q[n] => m = n
        BY QueueByIndex
      <4> QED BY <4>1, <4>2, <3>1, <2>9, SMTT(30)
    <3> QED BY <3>1, <2>8, QueueByIndex
  <2>11. ASSUME NEW x, x \in Range(r) PROVE x \in Range(q) \ {e}
    <3>1. PICK i \in 1 .. Len(r) : r[i] = x
      BY <2>8, <2>11, QueueByIndex
    <3>2. PICK j \in 1 .. Len(q) : j # k /\ q[j] = x
      BY <3>1, <2>9
    <3> QED BY <3>2, <2>1, QueueByIndex
  <2>12. ASSUME NEW x, x \in Range(q) \ {e} PROVE x \in Range(r)
    <3>1. PICK j \in 1 .. Len(q) : q[j] = x
      BY <2>12, QueueByIndex
    <3>2. PICK i \in 1 .. Len(r) : r[i] = x
      <4>1. CASE j < k
        BY <4>1, <3>1, <2>9
      <4>2. CASE j > k
        <5>1. j - 1 \in 1 .. Len(r) /\ r[j - 1] = x
          BY <4>2, <3>1, <2>9
        <5> QED BY <5>1
      <4> QED BY <4>1, <4>2, <3>1, <2>1, <2>12
    <3> QED BY <3>2, <2>8, QueueByIndex
  <2> QED BY <2>8, <2>10, <2>11, <2>12 DEF r
<1>2. CASE ~\E i \in 1 .. Len(q) : q[i] = e
  <2>1. RemoveFirst(q, e) = q
    BY <1>2 DEF RemoveFirst
  <2>2. e \notin Range(q)
    BY <1>2, QueueByIndex
  <2> QED BY <2>1, <2>2
<1> QED BY <1>1, <1>2

\* The recursive function inside FilterSeq exists and obeys its equations.
LEMMA FilterSeqFunction ==
  ASSUME NEW S, NEW q \in Seq(S), NEW keep
  PROVE  \E f : /\ FilterSeq(q, keep) = f[Len(q)]
                /\ f[0] = << >>
                /\ \A i \in 1 .. Len(q) :
                     f[i] = IF q[i] \in keep THEN Append(f[i - 1], q[i]) ELSE f[i - 1]
<1> DEFINE Body(g, i) == IF i = 0 THEN << >>
                         ELSE IF q[i] \in keep THEN Append(g[i - 1], q[i]) ELSE g[i - 1]
           Good(n) == \E g : g = [i \in 0 .. n |-> Body(g, i)]
<1>1. Len(q) \in Nat
  BY QueueByIndex
<1>2. Good(0)
  <2> DEFINE g == [i \in 0 .. 0 |-> << >>]
  <2>1. \A i \in 0 .. 0 : Body(g, i) = << >>
    OBVIOUS
  <2>2. g = [i \in 0 .. 0 |-> Body(g, i)]
    BY <2>1
  <2> QED BY <2>2
<1>3. ASSUME NEW n \in 1 .. Len(q), Good(n - 1) PROVE Good(n)
  <2>1. PICK g : g = [i \in 0 .. n - 1 |-> Body(g, i)]
    BY <1>3
  <2> DEFINE h == [i \in 0 .. n |-> IF i = n THEN Body(g, n) ELSE g[i]]
  <2>2. n \in Nat /\ n # 0 /\ n - 1 \in 0 .. n - 1
    BY <1>1
  <2>3. \A j \in 0 .. n - 1 : j \in 0 .. n /\ j # n
    BY <2>2
  <2>4. \A j \in 0 .. n - 1 : h[j] = g[j]
    BY <2>3
  <2>5. \A j \in 0 .. n - 1 : g[j] = Body(g, j)
    <3> HIDE DEF Body
    <3> QED BY <2>1
  <2>6. h[n] = Body(g, n)
    BY <2>2
  <2>7. h = [i \in 0 .. n |-> h[i]]
    OBVIOUS
  <2> HIDE DEF h
  <2>8. ASSUME NEW i \in 0 .. n PROVE h[i] = Body(h, i)
    <3>1. CASE i = 0
      <4>1. 0 \in 0 .. n - 1
        BY <2>2
      <4> QED BY <4>1, <3>1, <2>4, <2>5
    <3>2. CASE i # 0
      <4>1. i - 1 \in 0 .. n - 1 /\ (i = n \/ i \in 0 .. n - 1)
        BY <2>2, <3>2
      <4>2. h[i - 1] = g[i - 1]
        BY <4>1, <2>4
      <4>3. h[i] = Body(g, i)
        <5> HIDE DEF Body
        <5> QED BY <4>1, <2>4, <2>5, <2>6
      <4> QED BY <4>2, <4>3, <3>2
    <3> QED BY <3>1, <3>2
  <2>9. h = [i \in 0 .. n |-> Body(h, i)]
    <3> HIDE DEF Body
    <3> QED BY <2>7, <2>8
  <2> HIDE DEF Body
  <2> QED BY <2>9
<1>4. Good(Len(q))
  <2> DEFINE G == {n \in 0 .. Len(q) : Good(n)}
  <2> HIDE DEF Good
  <2>1. 0 \in G
    BY <1>1, <1>2
  <2>2. \A n \in 1 .. Len(q) : n - 1 \in G => n \in G
    BY <1>1, <1>3
  <2>3. \A n \in 0 .. Len(q) : n \in G
    <3> HIDE DEF G
    <3> QED BY <1>1, <2>1, <2>2, BoundedInduction
  <2> QED BY <2>3, <1>1
<1> DEFINE f == CHOOSE g : g = [i \in 0 .. Len(q) |-> Body(g, i)]
<1>5. f = [i \in 0 .. Len(q) |-> Body(f, i)]
  <2> HIDE DEF Body
  <2> QED BY <1>4
<1>6. FilterSeq(q, keep) = f[Len(q)]
  BY DEF FilterSeq
<1> HIDE DEF f
<1>7. \A i \in 0 .. Len(q) : f[i] = Body(f, i)
  <2> HIDE DEF Body
  <2> QED BY <1>5
<1>8. f[0] = << >>
  BY <1>7, <1>1
<1>9. ASSUME NEW i \in 1 .. Len(q)
      PROVE  f[i] = IF q[i] \in keep THEN Append(f[i - 1], q[i]) ELSE f[i - 1]
  <2>1. i \in 0 .. Len(q) /\ i # 0
    BY <1>1
  <2> QED BY <2>1, <1>7
<1> QED BY <1>6, <1>8, <1>9

\* Filtering keeps exactly the elements asked for, each once.
LEMMA FilterSeqOnce ==
  ASSUME NEW S, NEW q \in Seq(S), NEW keep, IsInjective(q)
  PROVE  /\ FilterSeq(q, keep) \in Seq(S)
         /\ IsInjective(FilterSeq(q, keep))
         /\ Range(FilterSeq(q, keep)) = Range(q) \cap keep
<1>1. PICK f : /\ FilterSeq(q, keep) = f[Len(q)]
               /\ f[0] = << >>
               /\ \A i \in 1 .. Len(q) :
                    f[i] = IF q[i] \in keep THEN Append(f[i - 1], q[i]) ELSE f[i - 1]
  BY FilterSeqFunction
<1> DEFINE Good(n) == /\ f[n] \in Seq(S)
                      /\ IsInjective(f[n])
                      /\ \A x : x \in Range(f[n]) <=> x \in keep /\ \E j \in 1 .. n : q[j] = x
<1>2. Len(q) \in Nat
  BY QueueByIndex
<1>3. Good(0)
  <2>1. << >> \in Seq(S) /\ IsInjective(<< >>) /\ Range(<< >>) = {}
    BY DEF IsInjective, Range
  <2> QED BY <2>1, <1>1
<1>4. ASSUME NEW n \in 1 .. Len(q), Good(n - 1) PROVE Good(n)
  <2>1. q[n] \in S /\ n \in Nat
    BY <1>2, QueueByIndex
  <2>2. \A x : (\E j \in 1 .. n : q[j] = x) <=> (\E j \in 1 .. n - 1 : q[j] = x) \/ x = q[n]
    BY <2>1
  <2>3. CASE q[n] \notin keep
    <3>1. f[n] = f[n - 1]
      BY <1>1, <2>3
    <3>2. \A x : x \in Range(f[n]) <=> x \in keep /\ \E j \in 1 .. n : q[j] = x
      BY <3>1, <2>2, <2>3, <1>4
    <3> QED BY <3>1, <3>2, <1>4
  <2>4. CASE q[n] \in keep
    <3>1. f[n] = Append(f[n - 1], q[n])
      BY <1>1, <2>4
    <3>2. q[n] \notin Range(f[n - 1])
      <4>1. SUFFICES ASSUME NEW j \in 1 .. n - 1, q[j] = q[n] PROVE FALSE
        BY <1>4
      <4>2. j \in 1 .. Len(q) /\ j # n
        BY <1>2
      <4> QED BY <4>1, <4>2, QueueByIndex
    <3>3. /\ f[n] \in Seq(S)
          /\ IsInjective(f[n])
          /\ Range(f[n]) = Range(f[n - 1]) \cup {q[n]}
      BY <3>1, <3>2, <1>4, <2>1, AppendFresh
    <3>4. \A x : x \in Range(f[n]) <=> x \in keep /\ \E j \in 1 .. n : q[j] = x
      BY <3>3, <2>2, <2>4, <1>4
    <3> QED BY <3>3, <3>4
  <2> QED BY <2>3, <2>4
<1>5. Good(Len(q))
  <2> DEFINE G == {n \in 0 .. Len(q) : Good(n)}
  <2> HIDE DEF Good
  <2>1. 0 \in G
    BY <1>2, <1>3
  <2>2. \A n \in 1 .. Len(q) : n - 1 \in G => n \in G
    BY <1>2, <1>4
  <2>3. \A n \in 0 .. Len(q) : n \in G
    <3> HIDE DEF G
    <3> QED BY <1>2, <2>1, <2>2, BoundedInduction
  <2> QED BY <2>3, <1>2
<1>6. \A x : x \in Range(f[Len(q)]) <=> x \in keep /\ x \in Range(q)
  BY <1>5, QueueByIndex
<1> QED BY <1>1, <1>5, <1>6
=============================================================================
