----------------------------- MODULE UnitProofs -----------------------------
(***************************************************************************)
(* What the functions of impawn.go do to a stakingUnit, for every length   *)
(* of an epoch and all amounts: each keeps the unit sound (SoundUnit) and  *)
(* changes what it holds by the amount it was called with.  Before that,   *)
(* the theory of sums that they need (a sum does not depend on the order   *)
(* in which it is taken) and of the blocks of an epoch.                    *)
(***************************************************************************)
EXTENDS Impawn, WellFoundedInduction, TLAPS

-----------------------------------------------------------------------------
(* Induction and sums                                                      *)
(* Sum is a fold over a CHOOSE; these lemmas make it usable.               *)

\* The empty set, the singletons and the intervals from 0 and 1 are finite.
LEMMA FiniteBase ==
  /\ IsFiniteSet({}) /\ \A x : IsFiniteSet({x})
  /\ \A n \in Nat : IsFiniteSet(0 .. n) /\ IsFiniteSet(1 .. n)
<1>1. IsFiniteSet({})
  <2>1. <<>> \in Seq({})
    OBVIOUS
  <2> QED BY <2>1, Zenon DEF IsFiniteSet
<1>2. ASSUME NEW x PROVE IsFiniteSet({x})
  <2>1. <<x>> \in Seq({x}) /\ \A s \in {x} : \E n \in 1 .. Len(<<x>>) : <<x>>[n] = s
    OBVIOUS
  <2> QED BY <2>1, Zenon DEF IsFiniteSet
<1>3. ASSUME NEW n \in Nat PROVE IsFiniteSet(1 .. n)
  <2> DEFINE q == [i \in 1 .. n |-> i]
  <2>1. q \in Seq(1 .. n) /\ \A s \in 1 .. n : \E m \in 1 .. Len(q) : q[m] = s
    OBVIOUS
  <2> QED BY <2>1, Zenon DEF IsFiniteSet
<1>4. ASSUME NEW n \in Nat PROVE IsFiniteSet(0 .. n)
  <2> DEFINE q == [i \in 1 .. n + 1 |-> i - 1]
  <2>1. q \in Seq(0 .. n) /\ Len(q) = n + 1
    OBVIOUS
  <2>2. ASSUME NEW s \in 0 .. n PROVE s + 1 \in 1 .. Len(q) /\ q[s + 1] = s
    BY <2>1
  <2> HIDE DEF q
  <2>3. \A s \in 0 .. n : \E m \in 1 .. Len(q) : q[m] = s
    BY <2>2
  <2> QED BY <2>1, <2>3, Zenon DEF IsFiniteSet
<1> QED BY <1>1, <1>2, <1>3, <1>4, Zenon

\* A part of a finite set is finite.
LEMMA FinitePart ==
  ASSUME NEW S, IsFiniteSet(S), NEW T \in SUBSET S
  PROVE  IsFiniteSet(T)
<1>1. PICK q \in Seq(S) : \A s \in S : \E n \in 1 .. Len(q) : q[n] = s
  BY DEF IsFiniteSet
<1>2. CASE T = {}
  BY <1>2, FiniteBase
<1>3. CASE T # {}
  <2>1. PICK t \in T : TRUE
    BY <1>3
  <2> DEFINE p == [i \in 1 .. Len(q) |-> IF q[i] \in T THEN q[i] ELSE t]
  <2>2. p \in Seq(T) /\ Len(p) = Len(q)
    OBVIOUS
  <2>3. \A s \in T : \E n \in 1 .. Len(p) : p[n] = s
    BY <1>1, <2>2, Zenon
  <2> QED BY <2>2, <2>3, Zenon DEF IsFiniteSet
<1> QED BY <1>2, <1>3

\* So is the union of two finite sets.
LEMMA FiniteUnion ==
  ASSUME NEW S, IsFiniteSet(S), NEW T, IsFiniteSet(T)
  PROVE  IsFiniteSet(S \cup T)
<1>1. PICK q \in Seq(S) : \A s \in S : \E n \in 1 .. Len(q) : q[n] = s
  BY DEF IsFiniteSet
<1>2. PICK p \in Seq(T) : \A s \in T : \E n \in 1 .. Len(p) : p[n] = s
  BY DEF IsFiniteSet
<1> DEFINE r == q \o p
<1>3. /\ r \in Seq(S \cup T) /\ Len(r) = Len(q) + Len(p)
      /\ \A n \in 1 .. Len(q) : r[n] = q[n]
      /\ \A n \in 1 .. Len(p) : r[Len(q) + n] = p[n]
  OBVIOUS
<1> HIDE DEF r
<1>4. ASSUME NEW s \in S PROVE \E n \in 1 .. Len(r) : r[n] = s
  <2>1. PICK n \in 1 .. Len(q) : q[n] = s
    BY <1>1
  <2>2. n \in 1 .. Len(r) /\ r[n] = s
    BY <1>3, <2>1
  <2> QED BY <2>2
<1>5. ASSUME NEW s \in T PROVE \E n \in 1 .. Len(r) : r[n] = s
  <2>1. PICK n \in 1 .. Len(p) : p[n] = s
    BY <1>2
  <2>2. Len(q) + n \in 1 .. Len(r) /\ r[Len(q) + n] = s
    BY <1>3, <2>1
  <2> QED BY <2>2
<1> QED BY <1>3, <1>4, <1>5, Zenon DEF IsFiniteSet

\* Induction over the subsets of a finite set, with a set of good subsets in
\* place of a predicate.
LEMMA SetInduction ==
  ASSUME NEW S, IsFiniteSet(S), NEW Good, {} \in Good,
         \A s \in SUBSET S : s # {} /\ (\A x \in s : s \ {x} \in Good) => s \in Good
  PROVE  S \in Good
<1> DEFINE Closed(G, s) ==
             /\ {} \in G
             /\ \A t \in SUBSET s : t # {} /\ (\A x \in t : t \ {x} \in G) => t \in G
           Strong(s) == \A G : Closed(G, s) => s \in G
<1>1. PICK q \in Seq(S) : \A s \in S : \E n \in 1 .. Len(q) : q[n] = s
  BY DEF IsFiniteSet
<1> DEFINE Q(n) == {q[i] : i \in 1 .. n}
           R == OpToRel(<, Nat)
           Bad == {n \in Nat : n <= Len(q) /\ ~Strong(Q(n))}
<1>2. Strong(Q(0))
  <2>1. Q(0) = {}
    OBVIOUS
  <2> QED BY <2>1, Zenon
<1>3. ASSUME NEW s, NEW x, Strong(s) PROVE Strong(s \cup {x})
  <2> SUFFICES ASSUME NEW G, Closed(G, s \cup {x}), x \notin s PROVE s \cup {x} \in G
    <3>1. x \in s => s \cup {x} = s
      OBVIOUS
    <3> QED BY <1>3, <3>1, Zenon
  <2> DEFINE H == {r \in SUBSET s : r \in G /\ r \cup {x} \in G}
  <2>1. {} \in H
    <3>1. {x} \ {x} = {} /\ {} \cup {x} = {x} /\ {x} \in SUBSET (s \cup {x})
      OBVIOUS
    <3> QED BY <3>1, Zenon
  <2>2. ASSUME NEW t \in SUBSET s, t # {}, \A y \in t : t \ {y} \in H PROVE t \in H
    <3>1. t \in G
      BY <2>2, Zenon
    <3>2. ASSUME NEW y \in t \cup {x} PROVE (t \cup {x}) \ {y} \in G
      <4>1. CASE y = x
        <5>1. (t \cup {x}) \ {y} = t
          BY <4>1
        <5> QED BY <3>1, <5>1, Zenon
      <4>2. CASE y # x
        <5>1. (t \cup {x}) \ {y} = (t \ {y}) \cup {x}
          BY <4>2
        <5> QED BY <2>2, <4>2, <5>1, Zenon
      <4> QED BY <4>1, <4>2
    <3>3. t \cup {x} \in G
      BY <3>2, Zenon
    <3> QED BY <3>1, <3>3
  <2>3. Closed(H, s)
    <3> HIDE DEF H
    <3> QED BY <2>1, <2>2
  <2>4. s \in H
    <3> HIDE DEF H, Closed
    <3> QED BY <1>3, <2>3
  <2> QED BY <2>4
<1>4. ASSUME Bad # {} PROVE FALSE
  <2>1. IsWellFoundedOn(R, Nat)
    BY NatLessThanWellFounded, Zenon
  <2>2. \A x, y \in Nat : y < x => <<y, x>> \in R
    BY DEF OpToRel
  <2>3. Bad \subseteq Nat
    OBVIOUS
  <2>4. \E n \in Bad : \A m \in Bad : <<m, n>> \notin R
    <3> HIDE DEF R, Bad
    <3> QED BY <1>4, <2>1, <2>3, WFMin, Zenon
  <2> HIDE DEF R, Strong
  <2>5. PICK n \in Bad : \A m \in Bad : <<m, n>> \notin R
    BY <2>4, Zenon
  <2>n. n \in Nat /\ n <= Len(q) /\ ~Strong(Q(n))
    OBVIOUS
  <2>m. n # 0
    <3> HIDE DEF Q
    <3> QED BY <1>2, <2>n, Zenon
  <2>6. n \in Nat /\ n <= Len(q) /\ n - 1 \in Nat /\ n - 1 < n /\ n - 1 <= Len(q)
    BY <2>n, <2>m
  <2>7. n - 1 \notin Bad
    BY <2>2, <2>5, <2>6, Zenon
  <2>8. Strong(Q(n - 1))
    <3> HIDE DEF Q
    <3> QED BY <2>6, <2>7
  <2>9. Q(n) = Q(n - 1) \cup {q[n]}
    BY <2>6
  <2> HIDE DEF Q
  <2>10. Strong(Q(n))
    BY <1>3, <2>8, <2>9, Zenon
  <2> QED BY <2>n, <2>10
<1>5. Strong(Q(Len(q)))
  <2>1. Len(q) \in Nat
    OBVIOUS
  <2>2. Len(q) \notin Bad
    <3> HIDE DEF Bad
    <3> QED BY <1>4
  <2> HIDE DEF Strong, Q
  <2> QED BY <2>1, <2>2
<1>6. Q(Len(q)) = S
  BY <1>1
<1> HIDE DEF Q
<1> QED BY <1>5, <1>6, Zenon

\* The element the fold takes.
Some(s) == CHOOSE x \in s : TRUE

\* The element that the sum takes first is one of the set.
LEMMA SomeMember == ASSUME NEW s, s # {} PROVE Some(s) \in s
BY DEF Some

\* What Sum, a fold, is: a solution of its recursion on the subsets of S.
LEMMA SumFold ==
  ASSUME NEW f, NEW S, IsFiniteSet(S)
  PROVE  Sum(f, S) = IF S = {} THEN 0 ELSE f[Some(S)] + Sum(f, S \ {Some(S)})
<1> DEFINE Body(g, s) == IF s = {} THEN 0 ELSE f[Some(s)] + g[s \ {Some(s)}]
           Sums(g, T) == g = [s \in SUBSET T |-> Body(g, s)]
<1>1. \A T : Sum(f, T) = (CHOOSE g : Sums(g, T))[T]
  BY DEF Sum, MapThenSumSet, MapThenFoldSet, Some
<1>2. ASSUME NEW T \in SUBSET S, NEW g, NEW h, Sums(g, T), Sums(h, T)
      PROVE  g[T] = h[T]
  <2> DEFINE Good == {s \in SUBSET T : g[s] = h[s]}
  <2>1. \A s \in SUBSET T : g[s] = Body(g, s) /\ h[s] = Body(h, s)
    BY <1>2, Zenon
  <2>2. {} \in Good
    BY <2>1
  <2>3. ASSUME NEW s \in SUBSET T, s # {}, \A x \in s : s \ {x} \in Good
        PROVE  s \in Good
    <3>1. g[s \ {Some(s)}] = h[s \ {Some(s)}]
      BY <2>3, SomeMember
    <3> QED BY <2>1, <2>3, <3>1, SMTT(60)
  <2>4. IsFiniteSet(T)
    BY FinitePart
  <2> HIDE DEF Good
  <2>5. T \in Good
    BY <2>2, <2>3, <2>4, SetInduction, Zenon
  <2> QED BY <2>5 DEF Good
<1>3. ASSUME NEW T \in SUBSET S, NEW g, Sums(g, T), NEW s \in SUBSET T
      PROVE  g[s] = Sum(f, s) /\ \E h : Sums(h, s)
  <2> DEFINE r == [t \in SUBSET s |-> g[t]]
             c == CHOOSE x : Sums(x, s)
  <2>1. \A t \in SUBSET s : g[t] = Body(g, t) /\ Body(g, t) = Body(r, t)
    BY <1>3, Zenon
  <2>2. Sums(r, s)
    BY <2>1, Zenon
  <2>3. s \in SUBSET S
    OBVIOUS
  <2> HIDE DEF Body
  <2>4. Sums(c, s)
    BY <2>2
  <2>5. r[s] = g[s]
    OBVIOUS
  <2> HIDE DEF c, r, Sums
  <2>6. c[s] = r[s]
    BY <1>2, <2>2, <2>3, <2>4
  <2>7. Sum(f, s) = c[s]
    BY <1>1 DEF c
  <2> QED BY <2>2, <2>5, <2>6, <2>7
<1> DEFINE Good == {T \in SUBSET S : \E g : Sums(g, T)}
<1>4. {} \in Good
  <2>1. Sums([s \in SUBSET {} |-> 0], {})
    OBVIOUS
  <2> HIDE DEF Sums
  <2> QED BY <2>1
<1>5. ASSUME NEW T \in SUBSET S, T # {}, \A x \in T : T \ {x} \in Good
      PROVE  T \in Good
  <2> DEFINE h == [s \in SUBSET T |-> IF s = {} THEN 0 ELSE f[Some(s)] + Sum(f, s \ {Some(s)})]
  <2>1. ASSUME NEW s \in SUBSET T, s # T PROVE h[s] = Sum(f, s)
    <3>1. PICK x \in T : s \in SUBSET (T \ {x})
      BY <2>1
    <3>u. PICK U \in SUBSET S : U = T \ {x}
      BY Zenon
    <3>2. PICK g : Sums(g, U)
      BY <1>5, <3>u, Zenon
    <3>3. s \in SUBSET U /\ s \ {Some(s)} \in SUBSET U
      BY <3>1, <3>u
    <3>4. g[s] = Body(g, s)
      BY <3>2, <3>3, Zenon
    <3> HIDE DEF Sums, Body, h
    <3>5. g[s] = Sum(f, s) /\ g[s \ {Some(s)}] = Sum(f, s \ {Some(s)})
      BY <1>3, <3>2, <3>3, Zenon
    <3> QED BY <3>4, <3>5 DEF Body, h
  <2>2. ASSUME NEW s \in SUBSET T, s # {} PROVE h[s \ {Some(s)}] = Sum(f, s \ {Some(s)})
    <3>1. s \ {Some(s)} \in SUBSET T /\ s \ {Some(s)} # T
      BY <2>2, SomeMember
    <3> HIDE DEF h
    <3> QED BY <2>1, <3>1
  <2>3. \A s \in SUBSET T : Body(h, s) = IF s = {} THEN 0 ELSE f[Some(s)] + Sum(f, s \ {Some(s)})
    <3> HIDE DEF h
    <3> QED BY <2>2, SMTT(60)
  <2>4. Sums(h, T)
    BY <2>3, Zenon
  <2> HIDE DEF Sums, h
  <2> QED BY <2>4
<1>6. S \in Good
  <2> HIDE DEF Good
  <2> QED BY <1>4, <1>5, SetInduction, Zenon
<1>7. PICK g : Sums(g, S)
  BY <1>6, Zenon
<1>8. g[S] = Body(g, S)
  BY <1>7, Zenon
<1> HIDE DEF Sums, Body
<1>9. g[S] = Sum(f, S) /\ g[S \ {Some(S)}] = Sum(f, S \ {Some(S)})
  BY <1>3, <1>7
<1> QED BY <1>8, <1>9 DEF Body

\* The sum over the empty set is 0.
LEMMA SumEmpty ==
  ASSUME NEW f PROVE Sum(f, {}) = 0
BY SumFold, FiniteBase, Zenon

\* The sum takes one element, then the others.
LEMMA SumSome ==
  ASSUME NEW f, NEW S, IsFiniteSet(S), S # {}
  PROVE  Sum(f, S) = f[Some(S)] + Sum(f, S \ {Some(S)})
BY SumFold

\* A sum of integers is an integer.
LEMMA SumType ==
  ASSUME NEW f, NEW S, IsFiniteSet(S), \A x \in S : f[x] \in Int
  PROVE  Sum(f, S) \in Int
<1> DEFINE Good == {s \in SUBSET S : Sum(f, s) \in Int}
<1>1. {} \in Good
  BY SumEmpty
<1>2. ASSUME NEW s \in SUBSET S, s # {}, \A x \in s : s \ {x} \in Good
      PROVE  s \in Good
  <2>1. Some(s) \in s
    BY <1>2, SomeMember
  <2>2. Sum(f, s) = f[Some(s)] + Sum(f, s \ {Some(s)})
    BY <1>2, FinitePart, SumSome
  <2> QED BY <1>2, <2>1, <2>2
<1> HIDE DEF Good
<1>3. S \in Good
  BY <1>1, <1>2, SetInduction, Zenon
<1> QED BY <1>3 DEF Good

\* The sum does not depend on the order: any element can be taken first.
LEMMA SumRemove ==
  ASSUME NEW f, NEW S, IsFiniteSet(S), \A x \in S : f[x] \in Int, NEW x \in S
  PROVE  Sum(f, S) = f[x] + Sum(f, S \ {x})
<1> DEFINE Good == {s \in SUBSET S : \A y \in s : Sum(f, s) = f[y] + Sum(f, s \ {y})}
<1>1. {} \in Good
  OBVIOUS
<1>2. ASSUME NEW s \in SUBSET S, s # {}, \A z \in s : s \ {z} \in Good
      PROVE  s \in Good
  <2> SUFFICES ASSUME NEW y \in s PROVE Sum(f, s) = f[y] + Sum(f, s \ {y})
    OBVIOUS
  <2> DEFINE c == Some(s)
  <2>1. c \in s
    BY SomeMember
  <2>2. Sum(f, s) = f[c] + Sum(f, s \ {c})
    BY FinitePart, SumSome
  <2> HIDE DEF c
  <2>3. CASE y = c
    BY <2>2, <2>3
  <2>4. CASE y # c
    <3>1. Sum(f, s \ {c}) = f[y] + Sum(f, (s \ {c}) \ {y})
      BY <1>2, <2>1, <2>4
    <3>2. Sum(f, s \ {y}) = f[c] + Sum(f, (s \ {y}) \ {c})
      BY <1>2, <2>1, <2>4
    <3>3. (s \ {y}) \ {c} = (s \ {c}) \ {y}
      OBVIOUS
    <3>4. Sum(f, (s \ {c}) \ {y}) \in Int /\ f[c] \in Int /\ f[y] \in Int
      <4>1. IsFiniteSet((s \ {c}) \ {y})
        BY FinitePart
      <4> QED BY <4>1, <2>1, SumType
    <3>5. Sum(f, s) = f[c] + (f[y] + Sum(f, (s \ {c}) \ {y}))
      BY <2>2, <3>1
    <3>6. Sum(f, s \ {y}) = f[c] + Sum(f, (s \ {c}) \ {y})
      BY <3>2, <3>3, Zenon
    <3> QED BY <3>4, <3>5, <3>6
  <2> QED BY <2>3, <2>4
<1> HIDE DEF Good
<1>3. S \in Good
  BY <1>1, <1>2, SetInduction, Zenon
<1> QED BY <1>3 DEF Good

\* One more element adds its value.
LEMMA SumAdd ==
  ASSUME NEW f, NEW S, IsFiniteSet(S), NEW x, x \notin S, \A y \in S \cup {x} : f[y] \in Int
  PROVE  Sum(f, S \cup {x}) = f[x] + Sum(f, S)
<1>1. IsFiniteSet(S \cup {x})
  BY FiniteUnion, FiniteBase, Zenon
<1>2. (S \cup {x}) \ {x} = S
  OBVIOUS
<1> QED BY <1>1, <1>2, SumRemove

\* The sum depends only on the values at the elements.
LEMMA SumSame ==
  ASSUME NEW f, NEW g, NEW S, IsFiniteSet(S), \A x \in S : f[x] = g[x]
  PROVE  Sum(f, S) = Sum(g, S)
<1> DEFINE Good == {s \in SUBSET S : Sum(f, s) = Sum(g, s)}
<1>1. {} \in Good
  BY SumEmpty
<1>2. ASSUME NEW s \in SUBSET S, s # {}, \A x \in s : s \ {x} \in Good
      PROVE  s \in Good
  <2>1. Some(s) \in s
    BY <1>2, SomeMember
  <2>2. /\ Sum(f, s) = f[Some(s)] + Sum(f, s \ {Some(s)})
        /\ Sum(g, s) = g[Some(s)] + Sum(g, s \ {Some(s)})
    BY <1>2, FinitePart, SumSome
  <2> QED BY <1>2, <2>1, <2>2
<1> HIDE DEF Good
<1>3. S \in Good
  BY <1>1, <1>2, SetInduction, Zenon
<1> QED BY <1>3 DEF Good

\* A sum of zeros is 0.
LEMMA SumZero ==
  ASSUME NEW f, NEW S, IsFiniteSet(S), \A x \in S : f[x] = 0
  PROVE  Sum(f, S) = 0
<1> DEFINE Good == {s \in SUBSET S : Sum(f, s) = 0}
<1>1. {} \in Good
  BY SumEmpty
<1>2. ASSUME NEW s \in SUBSET S, s # {}, \A x \in s : s \ {x} \in Good
      PROVE  s \in Good
  <2>1. Some(s) \in s
    BY <1>2, SomeMember
  <2>2. Sum(f, s) = f[Some(s)] + Sum(f, s \ {Some(s)})
    BY <1>2, FinitePart, SumSome
  <2> QED BY <1>2, <2>1, <2>2
<1> HIDE DEF Good
<1>3. S \in Good
  BY <1>1, <1>2, SetInduction, Zenon
<1> QED BY <1>3 DEF Good

\* A sum of naturals is a natural.
LEMMA SumNat ==
  ASSUME NEW f, NEW S, IsFiniteSet(S), \A x \in S : f[x] \in Nat
  PROVE  Sum(f, S) \in Nat
<1> DEFINE Good == {s \in SUBSET S : Sum(f, s) \in Nat}
<1>1. {} \in Good
  BY SumEmpty
<1>2. ASSUME NEW s \in SUBSET S, s # {}, \A x \in s : s \ {x} \in Good
      PROVE  s \in Good
  <2>1. Some(s) \in s
    BY <1>2, SomeMember
  <2>2. Sum(f, s) = f[Some(s)] + Sum(f, s \ {Some(s)})
    BY <1>2, FinitePart, SumSome
  <2> QED BY <1>2, <2>1, <2>2
<1> HIDE DEF Good
<1>3. S \in Good
  BY <1>1, <1>2, SetInduction, Zenon
<1> QED BY <1>3 DEF Good

\* The sum over a disjoint union is the sum of the sums.
LEMMA SumUnion ==
  ASSUME NEW f, NEW S, IsFiniteSet(S), NEW T, IsFiniteSet(T), S \cap T = {},
         \A x \in S \cup T : f[x] \in Int
  PROVE  Sum(f, S \cup T) = Sum(f, S) + Sum(f, T)
<1> DEFINE Good == {s \in SUBSET S : Sum(f, s \cup T) = Sum(f, s) + Sum(f, T)}
<1>0. Sum(f, T) \in Int
  BY SumType
<1>1. {} \in Good
  <2>1. {} \cup T = T
    OBVIOUS
  <2> QED BY <1>0, <2>1, SumEmpty
<1>2. ASSUME NEW s \in SUBSET S, s # {}, \A x \in s : s \ {x} \in Good
      PROVE  s \in Good
  <2>1. PICK c \in s : TRUE
    BY <1>2
  <2>2. IsFiniteSet(s) /\ IsFiniteSet(s \ {c}) /\ IsFiniteSet(s \cup T)
    BY FinitePart, FiniteUnion, Zenon
  <2>3. Sum(f, s) = f[c] + Sum(f, s \ {c})
    BY <2>2, SumRemove
  <2>4. (s \cup T) \ {c} = (s \ {c}) \cup T
    OBVIOUS
  <2>5. Sum(f, s \cup T) = f[c] + Sum(f, (s \ {c}) \cup T)
    BY <2>2, <2>4, SumRemove
  <2>6. Sum(f, s \ {c}) \in Int /\ f[c] \in Int
    BY <2>2, SumType
  <2>7. Sum(f, (s \ {c}) \cup T) = Sum(f, s \ {c}) + Sum(f, T)
    BY <1>2
  <2> QED BY <1>0, <2>3, <2>5, <2>6, <2>7
<1> HIDE DEF Good
<1>3. S \in Good
  BY <1>1, <1>2, SetInduction
<1> QED BY <1>3 DEF Good

-----------------------------------------------------------------------------
(* Epochs                                                                  *)

\* Quotient and remainder.
LEMMA Division ==
  ASSUME NEW a \in Int, NEW n \in Nat \ {0}
  PROVE  /\ a \div n \in Int /\ a % n \in 0 .. n - 1
         /\ a = n * (a \div n) + (a % n)
OBVIOUS

\* Multiplication by a natural is monotone.
LEMMA Times ==
  ASSUME NEW a \in Int, NEW b \in Int, a <= b, NEW n \in Nat
  PROVE  a * n <= b * n
OBVIOUS

\* GetEpochFromHeight (impawn.go) puts a block in the epoch whose blocks
\* enclose it.
LEMMA EpochBounds ==
  ASSUME NEW h \in Nat \ {0}
  PROVE  LET e == GetEpochFromHeight(h)
         IN  e \in Nat \ {0} /\ (e - 1) * NewEpochLength < h /\ h <= e * NewEpochLength
<1> DEFINE L == NewEpochLength
           past == h - L
           q == past \div L
           r == past % L
<1>1. L \in Nat \ {0}
  BY EpochAssumption
<1>e. EndHeight(FirstNewEpochID) = L
  BY <1>1 DEF EndHeight, FirstNewEpochID, DposForkPoint
<1>2. q \in Int /\ r \in 0 .. L - 1 /\ past = L * q + r
  <2>1. past \in Int
    BY <1>1
  <2> HIDE DEF L, past
  <2> QED BY <1>1, <2>1, Division
<1>3. CASE past <= 0
  BY <1>1, <1>3, <1>e DEF GetEpochFromHeight, FirstNewEpochID, DposForkPoint
<1>4. CASE past > 0 
  <2>1. q >= 0
    BY <1>1, <1>2, <1>4
  <2>2. CASE r = 0
    <3>1. GetEpochFromHeight(h) = 1 + q
      BY <1>1, <2>2, <1>4, <1>e DEF GetEpochFromHeight, FirstNewEpochID, DposForkPoint
    <3>2. h = (1 + q) * L
      BY <1>1, <1>2, <2>2
    <3>3. (1 + q) * L = q * L + L
      BY <1>1, <1>2
    <3> QED BY <1>1, <1>2, <2>1, <3>1, <3>2, <3>3
  <2>3. CASE r # 0
    <3>1. GetEpochFromHeight(h) = 2 + q
      BY <1>1, <1>2, <2>3, <1>4, <1>e DEF GetEpochFromHeight, FirstNewEpochID, DposForkPoint
    <3>2. h = (1 + q) * L + r /\ (2 + q) * L = (1 + q) * L + L
      BY <1>1, <1>2
    <3> QED BY <1>1, <1>2, <2>1, <2>3, <3>1, <3>2
  <2> QED BY <2>2, <2>3
<1> QED BY <1>1, <1>3, <1>4

\* Only that epoch encloses the block.
LEMMA EpochUnique ==
  ASSUME NEW h \in Nat \ {0}, NEW e \in Nat \ {0},
         (e - 1) * NewEpochLength < h, h <= e * NewEpochLength
  PROVE  GetEpochFromHeight(h) = e
<1> DEFINE L == NewEpochLength
           d == GetEpochFromHeight(h)
<1>1. L \in Nat \ {0}
  BY EpochAssumption
<1>2. d \in Nat \ {0} /\ (d - 1) * L < h /\ h <= d * L
  BY EpochBounds
<1> HIDE DEF d
<1>3. ASSUME d < e PROVE FALSE
  <2>1. d * L <= (e - 1) * L
    BY <1>1, <1>2, <1>3, Times
  <2> QED BY <1>1, <1>2, <2>1
<1>4. ASSUME e < d PROVE FALSE
  <2>1. e * L <= (d - 1) * L
    BY <1>1, <1>2, <1>4, Times
  <2> QED BY <1>1, <1>2, <2>1
<1>5. d = e
  <2> HIDE DEF L
  <2> QED BY <1>2, <1>3, <1>4
<1> QED BY <1>5 DEF d

\* The next block is of the same epoch or, after EndHeight, the BeginHeight
\* of the next one: finalizeValidators shifts exactly at the boundary.
LEMMA EpochNext ==
  ASSUME NEW h \in Nat \ {0}
  PROVE  LET e == GetEpochFromHeight(h)
         IN  /\ h <= EndHeight(e)
             /\ h # EndHeight(e) => GetEpochFromHeight(h + 1) = e
             /\ h = EndHeight(e) => /\ GetEpochFromHeight(h + 1) = e + 1
                                    /\ BeginHeight(e + 1) = h + 1
<1> DEFINE L == NewEpochLength
           e == GetEpochFromHeight(h)
<1>1. L \in Nat \ {0}
  BY EpochAssumption
<1>2. e \in Nat \ {0} /\ (e - 1) * L < h /\ h <= e * L
  BY EpochBounds
<1> HIDE DEF e
<1>3. e * L \in Nat /\ (e - 1) * L \in Nat /\ e * L = (e - 1) * L + L /\ (e + 1) * L = e * L + L
  BY <1>1, <1>2
<1>4. EndHeight(e) = e * L /\ BeginHeight(e + 1) = e * L + 1
  BY <1>1, <1>2, <1>3 DEF EndHeight, BeginHeight, FirstNewEpochID, DposForkPoint
<1>5. CASE h # EndHeight(e)
  <2>1. GetEpochFromHeight(h + 1) = e
    BY <1>1, <1>2, <1>3, <1>4, <1>5, EpochUnique
  <2> QED BY <1>2, <1>3, <1>4, <1>5, <2>1 DEF e
<1>6. CASE h = EndHeight(e)
  <2>1. GetEpochFromHeight(h + 1) = e + 1
    <3>1. (e + 1) - 1 = e
      BY <1>2
    <3> QED BY <1>1, <1>2, <1>3, <1>4, <1>6, <3>1, EpochUnique
  <2> QED BY <1>2, <1>3, <1>4, <1>6, <2>1 DEF e
<1> QED BY <1>5, <1>6

-----------------------------------------------------------------------------
(* Units                                                                   *)
(* A unit is sound in epoch e at height hh if its items are in the order of *)
(* their epochs, none later than e, and no more was cancelled in e than is staked. *)

\* The items of RedeemInof.
Items == [EpochID : Nat, Amount : Nat \ {0}, Redeemed : BOOLEAN]

\* The shape of a unit.
IsUnit(u, hh) ==
  /\ DOMAIN u.Value \in SUBSET (0 .. hh)
  /\ u \in [Value : [DOMAIN u.Value -> Nat], RedeemInof : Seq(Items)]

\* The items are in order, one for each epoch.
WellFormed(u, e, hh) ==
  /\ IsUnit(u, hh)
  /\ \A i \in DOMAIN u.RedeemInof : u.RedeemInof[i].EpochID <= e
  /\ \A i, j \in DOMAIN u.RedeemInof : i < j => u.RedeemInof[i].EpochID < u.RedeemInof[j].EpochID

\* merge will not panic.
SoundUnit(u, e, hh) == WellFormed(u, e, hh) /\ getRedeemItem(u, e) <= Staked(u)

\* The amounts of the items.
redeems(u) == [i \in DOMAIN u.RedeemInof |-> redeemAt(u, i)]

\* What belongs to the owner: the stake and what was cancelled in earlier epochs.
HoldsIn(u, e) ==
  Staked(u) + SumRedeem(u, {i \in DOMAIN u.RedeemInof : u.RedeemInof[i].EpochID # e})

\* The items of an epoch.
ItemAt(u, e) == {i \in DOMAIN u.RedeemInof : u.RedeemInof[i].EpochID = e}

\* How a unit is put together from its parts.
LEMMA UnitType ==
  ASSUME NEW hh \in Nat, NEW H \in SUBSET (0 .. hh), NEW F \in [H -> Nat], NEW R \in Seq(Items)
  PROVE  IsUnit([Value |-> F, RedeemInof |-> R], hh)
BY Zenon DEF IsUnit

\* What the stakes and the redemptions of a unit are.
LEMMA UnitFacts ==
  ASSUME NEW u, NEW e \in Nat, NEW hh \in Nat, WellFormed(u, e, hh)
  PROVE  /\ IsFiniteSet(DOMAIN u.Value) /\ DOMAIN u.Value \subseteq 0 .. hh
         /\ u.Value \in [DOMAIN u.Value -> Nat]
         /\ Staked(u) \in Nat
         /\ u.RedeemInof \in Seq(Items)
         /\ DOMAIN u.RedeemInof = 1 .. Len(u.RedeemInof)
         /\ IsFiniteSet(DOMAIN u.RedeemInof)
         /\ u = [Value |-> u.Value, RedeemInof |-> u.RedeemInof]
<1> DEFINE H == DOMAIN u.Value
<1>1. u.Value \in [H -> Nat] /\ H \in SUBSET (0 .. hh)
  BY DEF WellFormed, IsUnit
<1>a. IsFiniteSet(0 .. hh)
  BY FiniteBase
<1>b. IsFiniteSet(H)
  BY <1>1, <1>a, FinitePart
<1>2. DOMAIN u.Value = H /\ IsFiniteSet(H)
  BY <1>1, <1>b
<1>3. Staked(u) \in Nat
  BY <1>1, <1>2, SumNat DEF Staked
<1>4. u.RedeemInof \in Seq(Items)
  BY DEF WellFormed, IsUnit
<1>5. DOMAIN u.RedeemInof = 1 .. Len(u.RedeemInof) /\ Len(u.RedeemInof) \in Nat
  BY <1>4
<1>6. IsFiniteSet(DOMAIN u.RedeemInof)
  BY <1>5, FiniteBase
<1>7. u = [Value |-> u.Value, RedeemInof |-> u.RedeemInof]
  BY DEF WellFormed, IsUnit
<1> QED BY <1>1, <1>2, <1>3, <1>4, <1>5, <1>6, <1>7

\* At the current height getAllStaking counts every stake.
LEMMA AllStaking ==
  ASSUME NEW u, NEW e \in Nat, NEW hh \in Nat, WellFormed(u, e, hh)
  PROVE  getAllStaking(u, hh) = Staked(u)
<1>0. DOMAIN u.Value \subseteq 0 .. hh
  BY UnitFacts, Zenon
<1>1. {h \in DOMAIN u.Value : h <= hh} = DOMAIN u.Value
  BY <1>0
<1> QED BY <1>1 DEF getAllStaking, Staked

\* The least element of a singleton.
LEMMA MinOne ==
  ASSUME NEW x \in Int PROVE Min({x}) = x
BY DEF Min

\* There is at most one item of an epoch, the one getRedeemItem finds.
LEMMA OneItem ==
  ASSUME NEW u, NEW e \in Nat, NEW hh \in Nat, WellFormed(u, e, hh), NEW d \in Nat
  PROVE  \/ ItemAt(u, d) = {} /\ getRedeemItem(u, d) = 0
         \/ \E i \in DOMAIN u.RedeemInof :
               /\ ItemAt(u, d) = {i} /\ Min(ItemAt(u, d)) = i
               /\ getRedeemItem(u, d) = redeemAt(u, i)
<1>1. CASE ItemAt(u, d) = {}
  BY <1>1 DEF getRedeemItem, ItemAt
<1>2. CASE ItemAt(u, d) # {}
  <2>1. PICK i \in ItemAt(u, d) : TRUE
    BY <1>2
  <2>2. ASSUME NEW j \in ItemAt(u, d) PROVE j = i
    <3>1. i \in 1 .. Len(u.RedeemInof) /\ j \in 1 .. Len(u.RedeemInof)
      BY UnitFacts, Zenon DEF ItemAt
    <3>2. u.RedeemInof[i].EpochID = d /\ u.RedeemInof[j].EpochID = d
      BY DEF ItemAt
    <3>3. ~(i < j) /\ ~(j < i)
      BY <3>1, <3>2 DEF WellFormed, ItemAt
    <3> QED BY <3>1, <3>3
  <2>3. ItemAt(u, d) = {i}
    BY <2>2
  <2>a. DOMAIN u.RedeemInof = 1 .. Len(u.RedeemInof)
    BY UnitFacts
  <2>4. i \in Int
    BY <2>a DEF ItemAt
  <2>5. Min(ItemAt(u, d)) = i
    BY <2>3, <2>4, MinOne
  <2>6. getRedeemItem(u, d) = redeemAt(u, i)
    BY <2>3, <2>5 DEF getRedeemItem, ItemAt
  <2> QED BY <2>3, <2>5, <2>6, Zenon DEF ItemAt
<1> QED BY <1>1, <1>2

\* The amounts of the redemptions and their sums are naturals.
LEMMA RedeemType ==
  ASSUME NEW u, NEW e \in Nat, NEW hh \in Nat, WellFormed(u, e, hh)
  PROVE  /\ \A i \in DOMAIN u.RedeemInof :
              /\ u.RedeemInof[i] \in Items
              /\ redeemAt(u, i) \in Nat \ {0} /\ redeems(u)[i] = redeemAt(u, i)
         /\ \A S \in SUBSET DOMAIN u.RedeemInof :
              IsFiniteSet(S) /\ SumRedeem(u, S) = Sum(redeems(u), S) /\ SumRedeem(u, S) \in Nat
         /\ \A d \in Nat : getRedeemItem(u, d) \in Nat
         /\ HoldsIn(u, e) \in Nat
<1>0. u.RedeemInof \in Seq(Items)
  BY UnitFacts, Zenon
<1>1. \A i \in DOMAIN u.RedeemInof : u.RedeemInof[i] \in Items
  BY <1>0
<1>2. \A i \in DOMAIN u.RedeemInof : redeemAt(u, i) \in Nat \ {0} /\ redeems(u)[i] = redeemAt(u, i)
  BY <1>1 DEF redeemAt, redeems, Items
<1>3. ASSUME NEW S \in SUBSET DOMAIN u.RedeemInof
      PROVE  IsFiniteSet(S) /\ SumRedeem(u, S) = Sum(redeems(u), S) /\ SumRedeem(u, S) \in Nat
  <2>1. IsFiniteSet(S)
    BY UnitFacts, FinitePart, Zenon
  <2>2. SumRedeem(u, S) = Sum(redeems(u), S)
    BY DEF SumRedeem, redeems
  <2>3. Sum(redeems(u), S) \in Nat
    BY <1>2, <2>1, SumNat
  <2> QED BY <2>1, <2>2, <2>3
<1>4. ASSUME NEW d \in Nat PROVE getRedeemItem(u, d) \in Nat
  <2>1. \/ getRedeemItem(u, d) = 0
        \/ \E i \in DOMAIN u.RedeemInof : getRedeemItem(u, d) = redeemAt(u, i)
    BY OneItem, Zenon
  <2> QED BY <1>2, <2>1
<1>5. HoldsIn(u, e) \in Nat
  BY <1>3, UnitFacts DEF HoldsIn
<1> QED BY <1>1, <1>2, <1>3, <1>4, <1>5

\* A change of one value changes the sum by as much.
LEMMA SumUpdate ==
  ASSUME NEW f, NEW g, NEW S, IsFiniteSet(S), NEW x \in S, NEW v \in Int,
         \A y \in S : f[y] \in Int, g[x] = f[x] + v,
         \A y \in S \ {x} : g[y] = f[y]
  PROVE  Sum(g, S) = Sum(f, S) + v
<1>1. \A y \in S : g[y] \in Int
  OBVIOUS
<1>2. IsFiniteSet(S \ {x})
  BY FinitePart
<1>3. Sum(f, S) = f[x] + Sum(f, S \ {x}) /\ Sum(f, S \ {x}) \in Int
  BY <1>2, SumRemove, SumType
<1>4. Sum(g, S) = g[x] + Sum(g, S \ {x})
  BY <1>1, SumRemove
<1>5. Sum(g, S \ {x}) = Sum(f, S \ {x})
  BY <1>2, SumSame
<1> QED BY <1>3, <1>4, <1>5

\* The sum over one element is its value.
LEMMA SumOne ==
  ASSUME NEW f, NEW x, f[x] \in Int
  PROVE  Sum(f, {x}) = f[x]
<1>1. Sum(f, {} \cup {x}) = f[x] + Sum(f, {})
  BY SumAdd, FiniteBase
<1>2. {} \cup {x} = {x}
  OBVIOUS
<1> QED BY <1>1, <1>2, SumEmpty

\* A new unit is sound and holds the amount staked.
LEMMA NewUnit ==
  ASSUME NEW e \in Nat, NEW hh \in Nat, NEW v \in Nat
  PROVE  /\ SoundUnit(newUnit(hh, v), e, hh)
         /\ Staked(newUnit(hh, v)) = v
         /\ HoldsIn(newUnit(hh, v), e) = v
<1> DEFINE u == newUnit(hh, v)
<1>1. u.Value = [h \in {hh} |-> v] /\ u.RedeemInof = << >> /\ DOMAIN u.RedeemInof = {}
  BY DEF newUnit
<1>2. u.Value \in [{hh} -> Nat] /\ {hh} \in SUBSET (0 .. hh)
  BY <1>1
<1>3. Staked(u) = v
  BY <1>1, SumOne DEF Staked
<1>4. WellFormed(u, e, hh)
  <2>1. u = [Value |-> [h \in {hh} |-> v], RedeemInof |-> << >>]
    BY DEF newUnit
  <2>2. IsUnit(u, hh)
    <3>1. << >> \in Seq(Items) /\ [h \in {hh} |-> v] \in [{hh} -> Nat]
      OBVIOUS
    <3> QED BY <2>1, <3>1, <1>2, UnitType, Zenon
  <2> HIDE DEF u
  <2> QED BY <2>2, <1>1 DEF WellFormed
<1>5. getRedeemItem(u, e) = 0
  BY <1>1 DEF getRedeemItem
<1>6. SumRedeem(u, {}) = 0
  BY SumEmpty DEF SumRedeem
<1>7. HoldsIn(u, e) = v
  <2> HIDE DEF u
  <2>1. {i \in DOMAIN u.RedeemInof : u.RedeemInof[i].EpochID # e} = {}
    BY <1>1
  <2>2. HoldsIn(u, e) = v + 0
    BY <2>1, <1>3, <1>6, Zenon DEF HoldsIn
  <2> QED BY <2>2
<1> HIDE DEF u
<1>8. SoundUnit(u, e, hh)
  BY <1>3, <1>4, <1>5 DEF SoundUnit
<1> QED BY <1>3, <1>7, <1>8 DEF u

\* What is read of the redemptions depends on RedeemInof alone.
LEMMA SameItems ==
  ASSUME NEW u, NEW w, w.RedeemInof = u.RedeemInof, NEW e
  PROVE  /\ getRedeemItem(w, e) = getRedeemItem(u, e)
         /\ redeems(w) = redeems(u)
         /\ \A S : SumRedeem(w, S) = SumRedeem(u, S)
BY DEF getRedeemItem, redeems, SumRedeem, redeemAt

\* update, a further stake, keeps a unit sound and adds to it what is staked.
LEMMA Update ==
  ASSUME NEW e \in Nat, NEW hh \in Nat, NEW u, SoundUnit(u, e, hh), NEW v \in Nat
  PROVE  /\ SoundUnit(update(u, hh, v), e, hh)
         /\ Staked(update(u, hh, v)) = Staked(u) + v
         /\ HoldsIn(update(u, hh, v), e) = HoldsIn(u, e) + v
<1> DEFINE w == update(u, hh, v)
           D == DOMAIN u.Value
           F == [h \in D \cup {hh} |->
                   (IF h \in D THEN u.Value[h] ELSE 0) + (IF h = hh THEN v ELSE 0)]
<1>0. WellFormed(u, e, hh) /\ getRedeemItem(u, e) <= Staked(u)
  BY DEF SoundUnit
<1>1. /\ IsFiniteSet(D) /\ D \subseteq 0 .. hh /\ u.Value \in [D -> Nat] /\ Staked(u) \in Nat
      /\ u = [Value |-> u.Value, RedeemInof |-> u.RedeemInof]
  BY <1>0, UnitFacts
<1>2. w = [Value |-> F, RedeemInof |-> u.RedeemInof]
  BY <1>1 DEF update
<1>3. w.Value = F /\ w.RedeemInof = u.RedeemInof
  BY <1>2
<1>4. F \in [D \cup {hh} -> Nat] /\ D \cup {hh} \in SUBSET (0 .. hh)
  BY <1>1
<1>5. WellFormed(w, e, hh)
  <2>1. u.RedeemInof \in Seq(Items)
    BY <1>0, UnitFacts
  <2>2. IsUnit(w, hh)
    <3> HIDE DEF F, w
    <3> QED BY <1>2, <1>4, <2>1, UnitType, Zenon
  <2> HIDE DEF w, F
  <2> QED BY <2>2, <1>0, <1>3 DEF WellFormed
<1>6. Staked(w) = Staked(u) + v
  <2>1. CASE hh \in D
    <3>1. D \cup {hh} = D
      BY <2>1
    <3>2. \A y \in D : u.Value[y] \in Int
      BY <1>1
    <3>3. F[hh] = u.Value[hh] + v /\ \A y \in D \ {hh} : F[y] = u.Value[y]
      BY <1>1, <2>1
    <3> HIDE DEF F
    <3>4. Sum(F, D) = Sum(u.Value, D) + v
      BY <2>1, <1>1, <3>2, <3>3, SumUpdate
    <3>5. DOMAIN F = D
      BY <3>1, <1>4
    <3> HIDE DEF w
    <3> QED BY <3>4, <3>5, <1>3 DEF Staked
  <2>2. CASE hh \notin D
    <3>1. F[hh] = v /\ \A y \in D : F[y] = u.Value[y] /\ F[y] \in Int
      BY <1>1, <2>2
    <3>2. DOMAIN F = D \cup {hh}
      OBVIOUS
    <3> HIDE DEF F
    <3>3. Sum(F, D \cup {hh}) = F[hh] + Sum(F, D)
      BY <2>2, <1>1, <3>1, SumAdd
    <3>4. Sum(F, D) = Sum(u.Value, D)
      BY <1>1, <3>1, SumSame
    <3>5. Staked(w) = v + Sum(u.Value, D)
      <4> HIDE DEF w
      <4> QED BY <3>1, <3>2, <3>3, <3>4, <1>3 DEF Staked
    <3> HIDE DEF w
    <3> QED BY <3>5, <1>1 DEF Staked
  <2> QED BY <2>1, <2>2
<1> HIDE DEF w, F
<1>7. getRedeemItem(w, e) = getRedeemItem(u, e) /\ \A S : SumRedeem(w, S) = SumRedeem(u, S)
  BY <1>3, SameItems
<1>8. SoundUnit(w, e, hh)
  <2>1. getRedeemItem(u, e) \in Nat
    BY <1>0, RedeemType
  <2> QED BY <2>1, <1>0, <1>1, <1>5, <1>6, <1>7 DEF SoundUnit
<1>9. HoldsIn(w, e) = HoldsIn(u, e) + v
  <2> DEFINE T == {i \in DOMAIN u.RedeemInof : u.RedeemInof[i].EpochID # e}
  <2>1. SumRedeem(u, T) \in Nat
    <3>1. T \in SUBSET DOMAIN u.RedeemInof
      OBVIOUS
    <3> QED BY <3>1, <1>0, RedeemType, Zenon
  <2>2. HoldsIn(w, e) = Staked(w) + SumRedeem(w, T) /\ HoldsIn(u, e) = Staked(u) + SumRedeem(u, T)
    BY <1>3 DEF HoldsIn
  <2> HIDE DEF T
  <2> QED BY <2>1, <2>2, <1>1, <1>6, <1>7
<1> QED BY <1>6, <1>8, <1>9 DEF w

\* merge, at the end of an epoch, keeps a unit sound and takes nothing from
\* it: what leaves the stake is now redeemable.
LEMMA Merge ==
  ASSUME NEW e \in Nat, NEW hh \in Nat, NEW u, SoundUnit(u, e, hh)
  PROVE  /\ SoundUnit(merge(u, e, hh + 1), e + 1, hh + 1)
         /\ HoldsIn(merge(u, e, hh + 1), e + 1) = HoldsIn(u, e)
         /\ Staked(merge(u, e, hh + 1)) = Staked(u) - getRedeemItem(u, e)
<1> DEFINE w == merge(u, e, hh + 1)
           x == Staked(u) - getRedeemItem(u, e)
           R == u.RedeemInof
<1>0. WellFormed(u, e, hh) /\ getRedeemItem(u, e) <= Staked(u)
  BY DEF SoundUnit
<1>1. /\ Staked(u) \in Nat /\ R \in Seq(Items) /\ IsFiniteSet(DOMAIN R)
      /\ u = [Value |-> u.Value, RedeemInof |-> R]
      /\ getRedeemItem(u, e) \in Nat
  BY <1>0, UnitFacts, RedeemType, Zenon
<1>2. x \in Nat
  BY <1>0, <1>1
<1> HIDE DEF x
<1>3. w = [Value |-> [h \in {hh + 1} |-> x], RedeemInof |-> R]
  BY <1>1 DEF merge, x
<1>4. w.Value = [h \in {hh + 1} |-> x] /\ w.RedeemInof = R
  BY <1>3
<1>5. Staked(w) = x
  BY <1>2, <1>4, SumOne DEF Staked
<1>6. WellFormed(w, e + 1, hh + 1)
  <2>1. IsUnit(w, hh + 1)
    <3>1. w.Value \in [{hh + 1} -> Nat] /\ {hh + 1} \in SUBSET (0 .. hh + 1)
      BY <1>2, <1>4
    <3> HIDE DEF w, R
    <3> QED BY <3>1, <1>1, <1>3, <1>4 DEF IsUnit
  <2>2. \A i \in DOMAIN R : R[i].EpochID \in Nat /\ R[i].EpochID <= e
    <3>1. \A i \in DOMAIN R : R[i] \in Items
      BY <1>1
    <3> QED BY <3>1, <1>0 DEF WellFormed, Items
  <2>3. \A i \in DOMAIN R : R[i].EpochID <= e + 1
    BY <2>2
  <2> HIDE DEF w
  <2> QED BY <2>1, <2>3, <1>0, <1>4 DEF WellFormed
<1>7. \A i \in DOMAIN R : R[i].EpochID # e + 1
  <2>1. \A i \in DOMAIN R : R[i] \in Items
    BY <1>1
  <2> QED BY <2>1, <1>0 DEF WellFormed, Items
<1> HIDE DEF w
<1>8. getRedeemItem(w, e + 1) = 0
  BY <1>4, <1>7 DEF getRedeemItem
<1>9. SoundUnit(w, e + 1, hh + 1)
  BY <1>2, <1>5, <1>6, <1>8 DEF SoundUnit
<1>10. HoldsIn(w, e + 1) = x + SumRedeem(u, DOMAIN R)
  <2>1. {i \in DOMAIN R : R[i].EpochID # e + 1} = DOMAIN R
    BY <1>7
  <2>2. SumRedeem(w, DOMAIN R) = SumRedeem(u, DOMAIN R)
    BY <1>4, SameItems
  <2> QED BY <2>1, <2>2, <1>4, <1>5, Zenon DEF HoldsIn
<1> DEFINE T == {i \in DOMAIN R : R[i].EpochID # e}
<1>11. SumRedeem(u, DOMAIN R) = SumRedeem(u, T) + getRedeemItem(u, e)
  <2>1. T \in SUBSET DOMAIN R /\ DOMAIN R \in SUBSET DOMAIN R
    OBVIOUS
  <2>2. /\ IsFiniteSet(T) /\ SumRedeem(u, T) = Sum(redeems(u), T) /\ SumRedeem(u, T) \in Nat
        /\ SumRedeem(u, DOMAIN R) = Sum(redeems(u), DOMAIN R)
    BY <2>1, <1>0, RedeemType, Zenon
  <2>a. \A i \in DOMAIN R : redeems(u)[i] = redeemAt(u, i) /\ redeemAt(u, i) \in Nat \ {0}
    BY <1>0, RedeemType, Zenon
  <2>3. \A i \in DOMAIN R : redeems(u)[i] = redeemAt(u, i) /\ redeems(u)[i] \in Int
    BY <2>a
  <2>4. \/ ItemAt(u, e) = {} /\ getRedeemItem(u, e) = 0
        \/ \E i \in DOMAIN R : /\ ItemAt(u, e) = {i}
                               /\ getRedeemItem(u, e) = redeemAt(u, i)
    BY <1>0, OneItem
  <2>5. CASE ItemAt(u, e) = {} /\ getRedeemItem(u, e) = 0
    <3>1. T = DOMAIN R
      BY <2>5 DEF ItemAt
    <3> HIDE DEF T
    <3> QED BY <3>1, <2>2, <2>5
  <2>6. ASSUME NEW i \in DOMAIN R, ItemAt(u, e) = {i}, getRedeemItem(u, e) = redeemAt(u, i)
        PROVE  SumRedeem(u, DOMAIN R) = SumRedeem(u, T) + getRedeemItem(u, e)
    <3>1. T \cup {i} = DOMAIN R /\ i \notin T
      BY <2>6 DEF ItemAt
    <3> HIDE DEF T
    <3>2. Sum(redeems(u), T \cup {i}) = redeems(u)[i] + Sum(redeems(u), T)
      BY <2>2, <2>3, <3>1, SumAdd
    <3> QED BY <3>1, <3>2, <2>2, <2>3, <2>6
  <2> QED BY <2>4, <2>5, <2>6
<1>12. HoldsIn(w, e + 1) = HoldsIn(u, e)
  <2>1. HoldsIn(u, e) = Staked(u) + SumRedeem(u, T)
    BY DEF HoldsIn
  <2>2. SumRedeem(u, T) \in Nat
    <3>1. T \in SUBSET DOMAIN R
      OBVIOUS
    <3> QED BY <3>1, <1>0, RedeemType, Zenon
  <2> HIDE DEF T
  <2> QED BY <2>1, <2>2, <1>1, <1>10, <1>11 DEF x
<1> QED BY <1>5, <1>9, <1>12 DEF w, x

\* The maximum of 0 and an integer.
LEMMA MaxTwo ==
  ASSUME NEW x \in Int
  PROVE  Max({0, x}) = IF x > 0 THEN x ELSE 0
BY DEF Max

\* getValidStaking of a sound unit never meets its negative balance.
LEMMA ValidStaking ==
  ASSUME NEW hh \in Nat \ {0}, NEW u, SoundUnit(u, GetEpochFromHeight(hh), hh)
  PROVE  getValidStaking(u, hh) = Staked(u) - getRedeemItem(u, GetEpochFromHeight(hh))
<1> DEFINE e == GetEpochFromHeight(hh)
<1>0. e \in Nat /\ hh \in Nat
  BY EpochBounds
<1> HIDE DEF e
<1>1. WellFormed(u, e, hh) /\ getRedeemItem(u, e) <= Staked(u)
  BY DEF SoundUnit, e
<1>2. getAllStaking(u, hh) = Staked(u)
  BY <1>0, <1>1, AllStaking
<1>3. Staked(u) \in Nat /\ getRedeemItem(u, e) \in Nat
  BY <1>0, <1>1, UnitFacts, RedeemType, Zenon
<1>4. getValidStaking(u, hh) = Max({0, Staked(u) - getRedeemItem(u, e)})
  BY <1>2 DEF getValidStaking, e
<1>5. Staked(u) - getRedeemItem(u, e) \in Nat
  BY <1>1, <1>3
<1>6. \A y \in Nat : Max({0, y}) = y
  BY MaxTwo
<1> QED BY <1>4, <1>5, <1>6 DEF e

\* A sound unit is sound one block later.
LEMMA Later ==
  ASSUME NEW e \in Nat, NEW hh \in Nat, NEW u, SoundUnit(u, e, hh)
  PROVE  SoundUnit(u, e, hh + 1)
<1>1. WellFormed(u, e, hh)
  BY DEF SoundUnit
<1>2. /\ DOMAIN u.Value \subseteq 0 .. hh
      /\ u.Value \in [DOMAIN u.Value -> Nat]
      /\ u.RedeemInof \in Seq(Items)
      /\ u = [Value |-> u.Value, RedeemInof |-> u.RedeemInof]
  BY <1>1, UnitFacts, Zenon
<1>3. DOMAIN u.Value \in SUBSET (0 .. hh + 1)
  BY <1>2
<1>4. IsUnit(u, hh + 1)
  BY <1>1, <1>3 DEF WellFormed, IsUnit
<1> QED BY <1>1, <1>4 DEF SoundUnit, WellFormed

\* A unit that isvalid rejects holds nothing: dropping it loses nothing.
LEMMA NotValid ==
  ASSUME NEW e \in Nat, NEW hh \in Nat, NEW u, SoundUnit(u, e, hh), ~unitIsValid(u)
  PROVE  HoldsIn(u, e) = 0 /\ Staked(u) = 0
<1>1. WellFormed(u, e, hh)
  BY DEF SoundUnit
<1>2. u.Value \in [DOMAIN u.Value -> Nat] /\ IsFiniteSet(DOMAIN u.Value)
  BY <1>1, UnitFacts, Zenon
<1>3. \A i \in DOMAIN u.RedeemInof : redeemAt(u, i) \in Nat \ {0}
  BY <1>1, RedeemType, Zenon
<1>4. DOMAIN u.RedeemInof = {}
  BY <1>3 DEF unitIsValid
<1>5. \A h \in DOMAIN u.Value : u.Value[h] = 0
  BY <1>2 DEF unitIsValid
<1>6. Staked(u) = 0
  BY <1>2, <1>5, SumZero DEF Staked
<1>7. {i \in DOMAIN u.RedeemInof : u.RedeemInof[i].EpochID # e} = {}
  BY <1>4
<1>8. HoldsIn(u, e) = 0 + SumRedeem(u, {})
  BY <1>6, <1>7, SMTT(60) DEF HoldsIn
<1> QED BY <1>6, <1>8, SumEmpty DEF SumRedeem

\* stopStakingInfo keeps the unit sound: what can still be cancelled is
\* checked with what was cancelled before in the epoch.
LEMMA Stop ==
  ASSUME NEW hh \in Nat \ {0}, NEW u, SoundUnit(u, GetEpochFromHeight(hh), hh),
         NEW v \in Nat \ {0}, getValidStaking(u, hh) >= v
  PROVE  LET e == GetEpochFromHeight(hh)
             w == stopStakingInfo(u, v, hh)
         IN  /\ SoundUnit(w, e, hh)
             /\ HoldsIn(w, e) = HoldsIn(u, e)
             /\ Staked(w) = Staked(u)
<1> DEFINE e == GetEpochFromHeight(hh)
           w == stopStakingInfo(u, v, hh)
           R == u.RedeemInof
           n == Len(R)
           item == [EpochID |-> e, Amount |-> v, Redeemed |-> FALSE]
           T(x) == {i \in DOMAIN x.RedeemInof : x.RedeemInof[i].EpochID # e}
<1>0. e \in Nat /\ hh \in Nat
  BY EpochBounds
<1> HIDE DEF e
<1>1. SoundUnit(u, e, hh) /\ WellFormed(u, e, hh)
  BY DEF SoundUnit, e
<1>2. /\ DOMAIN u.Value \in SUBSET (0 .. hh) /\ u.Value \in [DOMAIN u.Value -> Nat]
      /\ Staked(u) \in Nat
      /\ R \in Seq(Items) /\ DOMAIN R = 1 .. n /\ IsFiniteSet(DOMAIN R)
      /\ u = [Value |-> u.Value, RedeemInof |-> R]
  BY <1>0, <1>1, UnitFacts
<1>3. getRedeemItem(u, e) + v <= Staked(u) /\ getRedeemItem(u, e) \in Nat
  <2>1. getValidStaking(u, hh) = Staked(u) - getRedeemItem(u, e)
    BY ValidStaking DEF e
  <2>2. getRedeemItem(u, e) \in Nat
    BY <1>0, <1>1, RedeemType, Zenon
  <2> QED BY <1>2, <2>1, <2>2
<1>4. /\ \A i \in DOMAIN R : R[i] \in Items /\ R[i].EpochID <= e
      /\ \A i, j \in DOMAIN R : i < j => R[i].EpochID < R[j].EpochID
  BY <1>1, <1>2 DEF WellFormed
<1>5. \A i \in DOMAIN R : R[i].EpochID \in Nat /\ R[i].Amount \in Nat
  BY <1>4 DEF Items
<1>6. item \in Items
  BY <1>0 DEF Items
<1>7. SUFFICES /\ SoundUnit(w, e, hh)
               /\ HoldsIn(w, e) = HoldsIn(u, e)
               /\ Staked(w) = Staked(u)
  BY DEF e
<1>8. CASE ItemAt(u, e) = {}
  <2> DEFINE Q == Append(R, item)
  <2>1. w = [u EXCEPT !.RedeemInof = Q]
    BY <1>8 DEF stopStakingInfo, ItemAt, e
  <2>2. w = [Value |-> u.Value, RedeemInof |-> Q]
    <3> HIDE DEF w, Q, R
    <3> QED BY <2>1, <1>2
  <2>3. /\ Q \in Seq(Items) /\ DOMAIN Q = 1 .. n + 1
        /\ \A i \in 1 .. n : Q[i] = R[i]
        /\ Q[n + 1] = item
    BY <1>2, <1>6
  <2>4. \A i \in DOMAIN R : R[i].EpochID < e
    BY <1>4, <1>5, <1>8, <1>0 DEF ItemAt
  <2> HIDE DEF Q, R, w
  <2>5. w.Value = u.Value /\ w.RedeemInof = Q
    BY <2>2
  <2>6. n \in Nat
    BY <1>2 DEF R
  <2>7. WellFormed(w, e, hh)
    <3>1. IsUnit(w, hh)
      BY <2>2, <2>3, <1>0, <1>2, UnitType, Zenon
    <3>2. \A i \in DOMAIN Q : Q[i].EpochID <= e
      BY <2>3, <2>6, <1>0, <1>2, <1>4
    <3>3. \A i, j \in DOMAIN Q : i < j => Q[i].EpochID < Q[j].EpochID
      <4> SUFFICES ASSUME NEW i \in 1 .. n + 1, NEW j \in 1 .. n + 1, i < j
                   PROVE  Q[i].EpochID < Q[j].EpochID
        BY <2>3
      <4>1. i \in 1 .. n /\ (j \in 1 .. n \/ j = n + 1)
        BY <2>6
      <4>2. item.EpochID = e
        OBVIOUS
      <4> QED BY <4>1, <4>2, <2>3, <2>4, <1>2, <1>4
    <3> QED BY <3>1, <3>2, <3>3, <2>5 DEF WellFormed
  <2>8. T(w) = T(u) /\ T(u) = 1 .. n
    BY <2>3, <2>4, <2>5, <2>6, <1>2, <1>5, <1>0 DEF R
  <2>9. ItemAt(w, e) = {n + 1}
    <3>1. item.EpochID = e
      OBVIOUS
    <3>2. Q[n + 1].EpochID = e /\ \A i \in 1 .. n : Q[i].EpochID # e
      BY <3>1, <2>3, <2>4, <1>2, <1>5, <1>0
    <3>3. 1 .. n + 1 = (1 .. n) \cup {n + 1}
      BY <2>6
    <3> HIDE DEF n
    <3> QED BY <3>2, <3>3, <2>3, <2>5 DEF ItemAt
  <2>10. getRedeemItem(w, e) = v
    <3>1. Min(ItemAt(w, e)) = n + 1
      BY <2>6, <2>9, MinOne
    <3>2. redeemAt(w, n + 1) = v
      BY <2>3, <2>5 DEF redeemAt
    <3> QED BY <2>9, <3>1, <3>2 DEF getRedeemItem, ItemAt
  <2>11. Staked(w) = Staked(u)
    BY <2>5 DEF Staked
  <2>12. SoundUnit(w, e, hh)
    BY <2>7, <2>10, <2>11, <1>2, <1>3 DEF SoundUnit
  <2>13. SumRedeem(w, T(u)) = SumRedeem(u, T(u))
    <3>1. T(u) \in SUBSET DOMAIN w.RedeemInof /\ T(u) \in SUBSET DOMAIN u.RedeemInof
      BY <2>8
    <3>2. /\ IsFiniteSet(T(u)) /\ SumRedeem(u, T(u)) = Sum(redeems(u), T(u))
          /\ SumRedeem(w, T(u)) = Sum(redeems(w), T(u))
      BY <3>1, <2>7, <1>0, <1>1, RedeemType, Zenon
    <3>3. \A i \in T(u) : redeems(w)[i] = redeems(u)[i]
      BY <3>1, <2>8, <2>3, <2>5 DEF redeems, redeemAt, R
    <3> HIDE DEF T
    <3> QED BY <3>2, <3>3, SumSame
  <2>14. HoldsIn(w, e) = HoldsIn(u, e)
    BY <2>8, <2>11, <2>13, Zenon DEF HoldsIn
  <2> QED BY <2>11, <2>12, <2>14
<1>9. CASE ItemAt(u, e) # {}
  <2>0. PICK k \in DOMAIN R : /\ ItemAt(u, e) = {k} /\ Min(ItemAt(u, e)) = k
                              /\ getRedeemItem(u, e) = redeemAt(u, k)
    BY <1>0, <1>1, <1>9, OneItem, Zenon
  <2> DEFINE new == [EpochID |-> R[k].EpochID, Amount |-> R[k].Amount + v, Redeemed |-> R[k].Redeemed]
             Q == [i \in DOMAIN R |-> IF i = k THEN new ELSE R[i]]
  <2>1. w = [u EXCEPT !.RedeemInof[k].Amount = @ + v]
    BY <1>9, <2>0, Zenon DEF stopStakingInfo, ItemAt, e
  <2>a. R[k] \in Items /\ R[k].EpochID = e
    BY <1>4, <2>0 DEF ItemAt
  <2>b. [R[k] EXCEPT !.Amount = @ + v] = new
    BY <2>a DEF Items
  <2>2. w = [Value |-> u.Value, RedeemInof |-> Q]
    <3>1. w = [u EXCEPT !.RedeemInof = [R EXCEPT ![k] = [R[k] EXCEPT !.Amount = @ + v]]]
      BY <2>1
    <3>2. [R EXCEPT ![k] = new] = Q
      BY <1>2, SMTT(60)
    <3> HIDE DEF new, Q, w, R
    <3>3. w = [u EXCEPT !.RedeemInof = Q]
      BY <3>1, <3>2, <2>b
    <3> QED BY <3>3, <1>2
  <2>3. new \in Items /\ new.EpochID = R[k].EpochID
    BY <2>a DEF Items
  <2>4. DOMAIN Q = DOMAIN R /\ \A i \in DOMAIN Q : Q[i] \in Items /\ Q[i].EpochID = R[i].EpochID
    <3> HIDE DEF new
    <3> QED BY <2>3, <1>4
  <2>5. Q \in Seq(Items)
    <3>1. Q \in [1 .. n -> Items] /\ n \in Nat
      <4> HIDE DEF new
      <4> QED BY <2>3, <2>4, <1>2, <1>4
    <3> HIDE DEF Q, n
    <3> QED BY <3>1
  <2>6. Q[k].Amount = R[k].Amount + v /\ \A i \in DOMAIN R \ {k} : Q[i] = R[i]
    OBVIOUS
  <2> HIDE DEF Q, R, w, new
  <2>7. w.Value = u.Value /\ w.RedeemInof = Q
    BY <2>2
  <2>8. WellFormed(w, e, hh)
    <3>1. IsUnit(w, hh)
      BY <2>2, <2>5, <1>0, <1>2, UnitType, Zenon
    <3> QED BY <3>1, <2>4, <2>7, <1>4 DEF WellFormed
  <2>9. ItemAt(w, e) = {k}
    BY <2>0, <2>4, <2>7 DEF ItemAt, R
  <2>10. getRedeemItem(w, e) = getRedeemItem(u, e) + v
    <3>1. Min(ItemAt(w, e)) = k
      BY <2>0, <2>9
    <3>2. redeemAt(w, k) = redeemAt(u, k) + v
      BY <2>6, <2>7 DEF redeemAt, R
    <3> QED BY <2>0, <2>9, <3>1, <3>2 DEF getRedeemItem, ItemAt
  <2>11. Staked(w) = Staked(u)
    BY <2>7 DEF Staked
  <2>12. SoundUnit(w, e, hh)
    BY <2>8, <2>10, <2>11, <1>3 DEF SoundUnit
  <2>13. T(w) = T(u) /\ k \notin T(u)
    BY <2>4, <2>7, <2>a DEF R
  <2>14. SumRedeem(w, T(u)) = SumRedeem(u, T(u))
    <3>1. T(u) \in SUBSET DOMAIN w.RedeemInof /\ T(u) \in SUBSET DOMAIN u.RedeemInof
      BY <2>13
    <3>2. /\ IsFiniteSet(T(u)) /\ SumRedeem(u, T(u)) = Sum(redeems(u), T(u))
          /\ SumRedeem(w, T(u)) = Sum(redeems(w), T(u))
      BY <3>1, <2>8, <1>0, <1>1, RedeemType, Zenon
    <3>3. \A i \in T(u) : redeems(w)[i] = redeems(u)[i]
      BY <3>1, <2>13, <2>4, <2>6, <2>7 DEF redeems, redeemAt, R
    <3> HIDE DEF T
    <3> QED BY <3>2, <3>3, SumSame
  <2>15. HoldsIn(w, e) = HoldsIn(u, e)
    BY <2>11, <2>13, <2>14 DEF HoldsIn
  <2> QED BY <2>11, <2>12, <2>15
<1> QED BY <1>8, <1>9

\* redeeming followed by finishRedeemed pays the amount and nothing else: the
\* items that are dropped are empty.
LEMMA Withdrawn ==
  ASSUME NEW hh \in Nat \ {0}, NEW u, SoundUnit(u, GetEpochFromHeight(hh), hh),
         NEW v \in Nat \ {0}, getValidRedeem(u, hh) >= v
  PROVE  LET e == GetEpochFromHeight(hh)
             w == finishRedeemed(redeeming(u, hh, v))
         IN  /\ SoundUnit(w, e, hh)
             /\ HoldsIn(w, e) = HoldsIn(u, e) - v
             /\ Staked(w) = Staked(u)
  (* Cancelled stake is withdrawn in the order of the epochs, and not in the *)
  (* epoch it was cancelled in.                                              *)
<1>RedeemOrder. ASSUME NEW x, NEW y, x.EpochID \in Nat, y.EpochID \in Nat, NEW h \in Nat \ {0}, isRedeem(x, h)
                PROVE  /\ y.EpochID <= x.EpochID => isRedeem(y, h)
                       /\ x.EpochID < GetEpochFromHeight(h)
  <2> USE <1>RedeemOrder
  <2> DEFINE L == NewEpochLength
             e == GetEpochFromHeight(h)
  <2>1. L \in Nat \ {0} /\ MaxRedeemHeight \in Nat
    BY EpochAssumption
  <2>2. e \in Nat \ {0} /\ (e - 1) * L < h /\ h <= e * L
    BY EpochBounds
  <2> HIDE DEF e
  <2>3. \A k \in Nat : BeginHeight(k + 1) = k * L + 1
    BY <2>1 DEF BeginHeight, FirstNewEpochID, DposForkPoint
  <2>4. h > x.EpochID * L + 1 + MaxRedeemHeight
    BY <2>3 DEF isRedeem
  <2>5. ASSUME y.EpochID <= x.EpochID PROVE isRedeem(y, h)
    <3>1. y.EpochID * L <= x.EpochID * L
      BY <2>1, <2>5, Times
    <3>2. h > y.EpochID * L + 1 + MaxRedeemHeight
      BY <2>1, <2>4, <3>1
    <3> QED BY <2>3, <3>2 DEF isRedeem
  <2>6. ASSUME ~(x.EpochID < e) PROVE FALSE
    <3>1. e * L <= x.EpochID * L
      BY <2>1, <2>2, <2>6, Times
    <3> QED BY <2>1, <2>2, <2>4, <3>1
  <2> QED BY <2>5, <2>6 DEF e
  (* g is f, p places further down.                                          *)
<1> DEFINE Shifted(f, g, S, T, p) ==
    /\ S \in SUBSET Nat /\ IsFiniteSet(S) /\ p \in Nat /\ T = {j + p : j \in S}
    /\ \A j \in S : g[j] = f[j + p] /\ g[j] \in Int
<1> HIDE DEF Shifted
<1>SumShift. ASSUME NEW f, NEW g, NEW S, NEW T, NEW p, Shifted(f, g, S, T, p)
             PROVE  Sum(g, S) = Sum(f, T)
  <2> USE <1>SumShift
  <2> USE DEF Shifted
  <2> DEFINE Up(s) == {j + p : j \in s}
             Good == {s \in SUBSET S : IsFiniteSet(Up(s)) /\ Sum(g, s) = Sum(f, Up(s))}
  <2>1. {} \in Good
    <3>1. Up({}) = {}
      OBVIOUS
    <3> QED BY <3>1, SumEmpty, FiniteBase, Zenon
  <2>2. ASSUME NEW s \in SUBSET S, s # {}, \A x \in s : s \ {x} \in Good
        PROVE  s \in Good
    <3>1. PICK x \in s : TRUE
      BY <2>2, Zenon
    <3>2. IsFiniteSet(s)
      BY FinitePart, Zenon
    <3> DEFINE q == x + p
               U == Up(s)
               V == Up(s \ {x})
    <3>4. q \in U /\ U \ {q} = V
      OBVIOUS
    <3>5. \A y \in U : f[y] \in Int
      BY Zenon
    <3>c. (\A y \in s : g[y] \in Int) /\ g[x] = f[q]
      OBVIOUS
    <3>b. IsFiniteSet(V) /\ Sum(g, s \ {x}) = Sum(f, V)
      BY <2>2, Zenon
    <3> HIDE DEF q, U, V, Good, Up
    <3>3. IsFiniteSet(U)
      <4>1. U = V \cup {q}
        BY <3>4
      <4> QED BY <4>1, <3>b, FiniteUnion, FiniteBase, Zenon
    <3>6. Sum(f, U) = f[q] + Sum(f, U \ {q})
      BY <3>3, <3>4, <3>5, SumRemove
    <3>7. Sum(g, s) = g[x] + Sum(g, s \ {x})
      <4>1. \A y \in s : g[y] \in Int
        BY <3>c
      <4>2. \A y \in s : Sum(g, s) = g[y] + Sum(g, s \ {y})
        BY <3>2, <4>1, SumRemove, ZenonT(60)
      <4> QED BY <4>2
    <3>9. IsFiniteSet(U) /\ Sum(g, s) = Sum(f, U)
      BY <3>3, <3>4, <3>6, <3>7, <3>b, <3>c
    <3> QED BY <3>9 DEF U, Good
  <2> HIDE DEF Good
  <2>3. S \in Good
    BY <2>1, <2>2, SetInduction, Zenon
  <2> QED BY <2>3 DEF Good
<1>MaxMember. ASSUME NEW S \in SUBSET Int, IsFiniteSet(S), S # {}
              PROVE  Max(S) \in S /\ \A x \in S : x <= Max(S)
  <2> USE <1>MaxMember
  <2> DEFINE Top(s) == \E x \in s : \A y \in s : y <= x
             Good == {s \in SUBSET S : s # {} => Top(s)}
  <2>1. {} \in Good
    OBVIOUS
  <2>2. ASSUME NEW s \in SUBSET S, s # {}, \A x \in s : s \ {x} \in Good
        PROVE  s \in Good
    <3>1. PICK x \in s : TRUE
      BY <2>2, Zenon
    <3>2. CASE s = {x}
      <4>1. Top(s)
        BY <3>2
      <4> QED BY <4>1
    <3>3. CASE s # {x}
      <4>1. s \ {x} # {} /\ s \ {x} \in Good
        BY <2>2, <3>3
      <4>2. PICK z \in s \ {x} : \A y \in s \ {x} : y <= z
        BY <4>1
      <4>3. Top(s)
        <5>1. CASE x <= z
          BY <5>1, <4>2
        <5>2. CASE ~(x <= z)
          <6>1. \A y \in s : y <= x
            BY <5>2, <4>2
          <6> QED BY <6>1
        <5> QED BY <5>1, <5>2
      <4> QED BY <4>3
    <3> QED BY <3>2, <3>3
  <2> HIDE DEF Good
  <2>3. S \in Good
    BY <2>1, <2>2, SetInduction, Zenon
  <2>4. \E x \in S : \A y \in S : x >= y
    BY <2>3 DEF Good
  <2>5. Max(S) \in S /\ \A y \in S : Max(S) >= y
    BY <2>4, Zenon DEF Max
  <2> QED BY <2>5
<1>SeqFrom. ASSUME NEW S, NEW n \in Nat, NEW f \in [1 .. n -> S]
            PROVE  f \in Seq(S) /\ Len(f) = n
  OBVIOUS
  (* What redeeming does to the items, with P the sums of the ready ones.    *)
<1> DEFINE Taken(e) ==
    LET R == u.RedeemInof
        ready == Redeemable(u, hh)
        P(n) == SumRedeem(u, {k \in ready : k <= n})
        x == redeeming(u, hh, v)
        X == x.RedeemInof
    IN  /\ ready \in SUBSET DOMAIN R
        /\ \A i \in ready : R[i].EpochID < e /\ \A j \in DOMAIN R : j < i => j \in ready
        /\ P(0) = 0 /\ \A n \in Nat : P(n) \in Nat
        /\ \A i \in ready : P(i) = P(i - 1) + redeemAt(u, i)
        /\ \A m, n \in Nat : m <= n => P(m) <= P(n)
        /\ x = [Value |-> u.Value, RedeemInof |-> X]
        /\ DOMAIN X = DOMAIN R
        /\ \A i \in DOMAIN R :
             /\ X[i] \in [EpochID : Nat, Amount : Nat, Redeemed : BOOLEAN]
             /\ X[i].EpochID = R[i].EpochID
             /\ i \notin ready => X[i] = R[i]
             /\ i \in ready /\ P(i - 1) >= v => X[i] = R[i]
             /\ i \in ready /\ P(i) <= v => X[i].Amount = 0 /\ X[i].Redeemed
             /\ i \in ready /\ P(i - 1) < v /\ v < P(i) => X[i].Amount = P(i) - v
<1> HIDE DEF Taken
<1>Redeeming. ASSUME NEW e, e = GetEpochFromHeight(hh), WellFormed(u, e, hh)
              PROVE  Taken(e)
  <2> USE <1>Redeeming
  <2> DEFINE R == u.RedeemInof
             ready == Redeemable(u, hh)
             To(n) == {k \in ready : k <= n}
             P(n) == SumRedeem(u, To(n))
             x == redeeming(u, hh, v)
             X == x.RedeemInof
  <2>0. e \in Nat /\ hh \in Nat
    BY EpochBounds
  <2>1. /\ R \in Seq(Items) /\ DOMAIN R = 1 .. Len(R) /\ IsFiniteSet(DOMAIN R)
        /\ u = [Value |-> u.Value, RedeemInof |-> R]
    BY <2>0, UnitFacts, Zenon
  <2>a. \A i \in DOMAIN R : R[i] \in Items
    BY <2>1
  <2>b. \A i \in DOMAIN R : R[i].EpochID \in Nat /\ R[i].Amount \in Nat \ {0}
    BY <2>a DEF Items
  <2>2. ready \in SUBSET DOMAIN R
    BY DEF Redeemable
  <2>3. ASSUME NEW i \in ready
        PROVE  R[i].EpochID < e /\ \A j \in DOMAIN R : j < i => j \in ready
    <3>1. i \in DOMAIN R /\ isRedeem(R[i], hh)
      BY DEF Redeemable
    <3>2. R[i].EpochID < e
      BY <3>1, <2>b, <1>RedeemOrder
    <3>3. ASSUME NEW j \in DOMAIN R, j < i PROVE j \in ready
      <4>1. R[j].EpochID < R[i].EpochID
        BY <3>1, <3>3 DEF WellFormed
      <4>2. R[j].EpochID <= R[i].EpochID
        BY <4>1, <3>1, <2>b
      <4>3. isRedeem(R[j], hh)
        BY <4>2, <3>1, <2>b, <1>RedeemOrder
      <4> QED BY <4>3 DEF Redeemable
    <3> QED BY <3>2, <3>3
  <2> HIDE DEF ready
  <2>c. \A i \in ready : redeems(u)[i] = redeemAt(u, i) /\ redeems(u)[i] \in Nat \ {0}
    <3>1. \A i \in DOMAIN R : redeemAt(u, i) \in Nat \ {0} /\ redeems(u)[i] = redeemAt(u, i)
      BY <2>0, RedeemType, Zenon
    <3> QED BY <3>1, <2>2
  <2>4. ASSUME NEW n \in Int
        PROVE  IsFiniteSet(To(n)) /\ P(n) = Sum(redeems(u), To(n)) /\ P(n) \in Nat
    <3>1. To(n) \in SUBSET DOMAIN R
      BY <2>2
    <3> HIDE DEF To
    <3> QED BY <3>1, <2>0, RedeemType, Zenon
  <2>5. P(0) = 0
    <3>1. To(0) = {}
      BY <2>1, <2>2
    <3> HIDE DEF To
    <3> QED BY <3>1, SumEmpty DEF SumRedeem
  <2>6. ASSUME NEW i \in ready
        PROVE  P(i) = P(i - 1) + redeemAt(u, i)
    <3>1. i \in Int /\ i - 1 \in Int
      BY <2>1, <2>2
    <3>2. To(i) = To(i - 1) \cup {i} /\ i \notin To(i - 1)
      BY <2>1, <2>2
    <3>3. \A j \in To(i - 1) \cup {i} : redeems(u)[j] \in Int
      BY <2>c
    <3>4. IsFiniteSet(To(i - 1)) /\ P(i - 1) = Sum(redeems(u), To(i - 1)) /\ P(i - 1) \in Nat
      BY <3>1, <2>4, Zenon
    <3>5. P(i) = Sum(redeems(u), To(i))
      BY <3>1, <2>4
    <3> HIDE DEF To
    <3>6. Sum(redeems(u), To(i - 1) \cup {i}) = redeems(u)[i] + Sum(redeems(u), To(i - 1))
      BY <3>2, <3>3, <3>4, SumAdd
    <3>7. redeems(u)[i] = redeemAt(u, i) /\ redeems(u)[i] \in Nat
      BY <2>c
    <3> HIDE DEF P
    <3> QED BY <3>2, <3>4, <3>5, <3>6, <3>7
  <2>7. ASSUME NEW m \in Nat, NEW n \in Nat, m <= n PROVE P(m) <= P(n)
    <3> DEFINE D == To(n) \ To(m)
    <3>1. To(n) = To(m) \cup D /\ To(m) \cap D = {}
      BY <2>1, <2>2, <2>7
    <3>2. \A i \in To(m) \cup D : redeems(u)[i] \in Nat
      BY <2>c
    <3>3. IsFiniteSet(To(m)) /\ IsFiniteSet(To(n)) /\ P(m) = Sum(redeems(u), To(m))
          /\ P(n) = Sum(redeems(u), To(n)) /\ P(m) \in Nat
      BY <2>4
    <3> HIDE DEF To
    <3>4. IsFiniteSet(D)
      BY <3>3, FinitePart, Zenon
    <3> HIDE DEF D
    <3>5. Sum(redeems(u), D) \in Nat
      BY <3>2, <3>4, SumNat
    <3>6. Sum(redeems(u), To(m) \cup D) = Sum(redeems(u), To(m)) + Sum(redeems(u), D)
      BY <3>1, <3>2, <3>3, <3>4, SumUnion
    <3> HIDE DEF P
    <3> QED BY <3>1, <3>3, <3>5, <3>6
  <2> DEFINE take(i) == IF i \in ready /\ P(i - 1) < v
                        THEN [R[i] EXCEPT !.Amount = Max({0, P(i) - v}), !.Redeemed = TRUE]
                        ELSE R[i]
             Y == [i \in DOMAIN R |-> take(i)]
  <2>8. x = [Value |-> u.Value, RedeemInof |-> Y] /\ X = Y
    <3>1. x = [u EXCEPT !.RedeemInof = Y]
      BY DEF redeeming, ready
    <3> HIDE DEF Y, x
    <3>2. x = [Value |-> u.Value, RedeemInof |-> Y]
      BY <3>1, <2>1
    <3> QED BY <3>2
  <2>9. ASSUME NEW i \in DOMAIN R
        PROVE  /\ Y[i] \in [EpochID : Nat, Amount : Nat, Redeemed : BOOLEAN]
               /\ Y[i].EpochID = R[i].EpochID
               /\ i \notin ready => Y[i] = R[i]
               /\ i \in ready /\ P(i - 1) >= v => Y[i] = R[i]
               /\ i \in ready /\ P(i) <= v => Y[i].Amount = 0 /\ Y[i].Redeemed
               /\ i \in ready /\ P(i - 1) < v /\ v < P(i) => Y[i].Amount = P(i) - v
    <3>1. Y[i] = take(i)
      BY Zenon
    <3>2. R[i] \in [EpochID : Nat, Amount : Nat, Redeemed : BOOLEAN]
      BY <2>a DEF Items
    <3>3. P(i) \in Nat /\ P(i - 1) \in Nat
      <4>1. i \in Int /\ i - 1 \in Int
        BY <2>1
      <4> QED BY <4>1, <2>4, Zenon
    <3>4. Max({0, P(i) - v}) = IF P(i) - v > 0 THEN P(i) - v ELSE 0
      <4>1. P(i) - v \in Int
        BY <3>3
      <4> HIDE DEF P
      <4> QED BY <4>1, MaxTwo
    <3>5. i \in ready => P(i - 1) < P(i)
      <4>1. i \in ready => P(i) = P(i - 1) + redeemAt(u, i)
        BY <2>6
      <4>2. redeemAt(u, i) \in Nat \ {0}
        BY <2>b DEF redeemAt
      <4> HIDE DEF P
      <4> QED BY <4>1, <4>2, <3>3
    <3> HIDE DEF P, Y, ready
    <3>6. CASE i \in ready /\ P(i - 1) < v
      <4> DEFINE new == Max({0, P(i) - v})
      <4>1. new \in Nat
        BY <3>3, <3>4
      <4>a. new = IF P(i) - v > 0 THEN P(i) - v ELSE 0
        BY <3>4
      <4> HIDE DEF new
      <4>2. Y[i] = [R[i] EXCEPT !.Amount = new, !.Redeemed = TRUE]
        BY <3>1, <3>6 DEF new
      <4>3. Y[i] = [EpochID |-> R[i].EpochID, Amount |-> new, Redeemed |-> TRUE]
        BY <3>2, <4>2, Zenon
      <4>4. /\ Y[i] \in [EpochID : Nat, Amount : Nat, Redeemed : BOOLEAN]
            /\ Y[i].EpochID = R[i].EpochID /\ Y[i].Amount = new /\ Y[i].Redeemed
        BY <3>2, <4>1, <4>3
      <4> QED BY <4>4, <4>a, <3>3, <3>6
    <3>7. CASE ~(i \in ready /\ P(i - 1) < v)
      <4>1. Y[i] = R[i]
        BY <3>1, <3>7
      <4>2. ~(i \in ready /\ P(i) <= v)
        BY <3>3, <3>5, <3>7
      <4> QED BY <3>2, <3>3, <3>7, <4>1, <4>2
    <3> QED BY <3>6, <3>7
  <2>10. DOMAIN Y = DOMAIN R
    OBVIOUS
  <2> HIDE DEF Y, x
  <2>11. X = Y /\ x = [Value |-> u.Value, RedeemInof |-> X]
    BY <2>8
  <2>12. \A n \in Nat : P(n) \in Nat
    BY <2>4
  <2> QED BY <2>2, <2>3, <2>5, <2>12, <2>6, <2>7, <2>9, <2>10, <2>11, Zenon DEF ready, x, Taken
<1> DEFINE e == GetEpochFromHeight(hh)
           R == u.RedeemInof
           N == Len(R)
           ready == Redeemable(u, hh)
           To(n) == {k \in ready : k <= n}
           P(n) == SumRedeem(u, To(n))
           x == redeeming(u, hh, v)
           X == x.RedeemInof
           w == finishRedeemed(x)
           done == {i \in DOMAIN X : redeemAt(x, i) = 0 /\ X[i].Redeemed}
           pos == Max({0} \cup done)
           Z == SubSeq(X, pos + 1, Len(X))
           B == [i \in DOMAIN R |-> X[i].Amount]
           T(y) == {i \in DOMAIN y.RedeemInof : y.RedeemInof[i].EpochID # e}
           K == {i \in T(u) : i > pos}
<1>0. e \in Nat /\ hh \in Nat
  BY EpochBounds
<1>1. SoundUnit(u, e, hh) /\ WellFormed(u, e, hh)
  BY DEF SoundUnit
<1>2. /\ DOMAIN u.Value \in SUBSET (0 .. hh) /\ u.Value \in [DOMAIN u.Value -> Nat]
      /\ Staked(u) \in Nat
      /\ R \in Seq(Items) /\ DOMAIN R = 1 .. N /\ IsFiniteSet(DOMAIN R)
      /\ u = [Value |-> u.Value, RedeemInof |-> R]
  <2> HIDE DEF e
  <2> QED BY <1>0, <1>1, UnitFacts
<1>3. /\ ready \in SUBSET DOMAIN R
      /\ \A i \in ready : R[i].EpochID < e /\ \A j \in DOMAIN R : j < i => j \in ready
      /\ P(0) = 0 /\ \A n \in Nat : P(n) \in Nat
      /\ \A i \in ready : P(i) = P(i - 1) + redeemAt(u, i)
      /\ \A m, n \in Nat : m <= n => P(m) <= P(n)
      /\ x = [Value |-> u.Value, RedeemInof |-> X]
      /\ DOMAIN X = DOMAIN R
      /\ \A i \in DOMAIN R :
           /\ X[i] \in [EpochID : Nat, Amount : Nat, Redeemed : BOOLEAN]
           /\ X[i].EpochID = R[i].EpochID
           /\ i \notin ready => X[i] = R[i]
           /\ i \in ready /\ P(i - 1) >= v => X[i] = R[i]
           /\ i \in ready /\ P(i) <= v => X[i].Amount = 0 /\ X[i].Redeemed
           /\ i \in ready /\ P(i - 1) < v /\ v < P(i) => X[i].Amount = P(i) - v
  <2>1. e = GetEpochFromHeight(hh)
    OBVIOUS
  <2>2. Taken(e)
    <3> HIDE DEF e
    <3> QED BY <2>1, <1>1, <1>Redeeming
  <2> HIDE DEF e
  <2> QED BY <2>2, Zenon DEF Taken
<1>4. \A i \in DOMAIN R : /\ R[i] \in Items /\ R[i].EpochID \in Nat /\ R[i].EpochID <= e
                         /\ redeemAt(u, i) = R[i].Amount /\ R[i].Amount \in Nat \ {0}
                         /\ redeems(u)[i] = R[i].Amount
  <2>1. \A i \in DOMAIN R : R[i] \in Items
    BY <1>2
  <2>2. \A i \in DOMAIN R : redeemAt(u, i) = R[i].Amount /\ redeems(u)[i] = R[i].Amount
    BY DEF redeems, redeemAt
  <2>3. \A i \in DOMAIN R : R[i].EpochID <= e
    BY <1>1 DEF WellFormed
  <2> QED BY <2>1, <2>2, <2>3 DEF Items
<1>5. SUFFICES /\ SoundUnit(w, e, hh)
               /\ HoldsIn(w, e) = HoldsIn(u, e) - v
               /\ Staked(w) = Staked(u)
  OBVIOUS
<1>a. /\ getValidRedeem(u, hh) = SumRedeem(u, ready)
      /\ \A i \in DOMAIN X : redeemAt(x, i) = X[i].Amount
      /\ w = [x EXCEPT !.RedeemInof = Z]
  BY DEF getValidRedeem, redeemAt, finishRedeemed
<1>b. \A n : P(n) = SumRedeem(u, To(n))
  OBVIOUS
<1>c. N \in Nat
  BY <1>2
<1> HIDE DEF e, N, ready, P, x, w
<1>e. \A i \in ready : i \in DOMAIN R /\ i \in 1 .. N /\ \A j \in DOMAIN R : j < i => j \in ready
  BY <1>2, <1>3
<1>6. done = {i \in ready : P(i) <= v}
  <2>1. ASSUME NEW i \in ready
        PROVE  i \in done <=> P(i) <= v
    <3>1. i \in DOMAIN R /\ i \in Nat /\ i - 1 \in Nat
      BY <1>2, <1>3, <1>c
    <3>2. P(i) \in Nat /\ P(i - 1) \in Nat /\ P(i) = P(i - 1) + R[i].Amount
      BY <3>1, <1>3, <1>4
    <3>3. i \in done <=> X[i].Amount = 0 /\ X[i].Redeemed
      BY <3>1, <1>3, <1>a
    <3>4. R[i].Amount > 0 /\ R[i].Amount \in Nat
      BY <3>1, <1>4
    <3>5. CASE P(i) <= v
      BY <3>1, <3>3, <3>5, <1>3, SMTT(60)
    <3>6. CASE P(i - 1) >= v
      <4>1. X[i].Amount # 0
        BY <3>1, <3>4, <3>6, <1>3
      <4> QED BY <4>1, <3>2, <3>3, <3>4, <3>6
    <3>7. CASE P(i - 1) < v /\ v < P(i)
      <4>1. X[i].Amount = P(i) - v
        BY <3>1, <3>7, <1>3
      <4> QED BY <4>1, <3>2, <3>3, <3>7
    <3> QED BY <3>2, <3>5, <3>6, <3>7
  <2>2. ASSUME NEW i \in done PROVE i \in ready
    <3>1. i \in DOMAIN R /\ X[i].Amount = 0
      BY <1>3, <1>a
    <3>2. R[i].Amount # 0
      BY <3>1, <1>4
    <3> QED BY <3>1, <3>2, <1>3
  <2> QED BY <2>1, <2>2
<1>7. /\ pos \in 0 .. N /\ P(pos) <= v /\ \A i \in done : i <= pos
      /\ pos = 0 \/ pos \in done
  <2> DEFINE D == {0} \cup done
  <2>1. done \subseteq 1 .. N
    BY <1>6, <1>e
  <2>2. D \in SUBSET (0 .. N) /\ D # {} /\ D \in SUBSET Int
    <3> HIDE DEF done
    <3> QED BY <2>1, <1>c
  <2>3. IsFiniteSet(D)
    <3>1. IsFiniteSet(0 .. N)
      BY <1>c, FiniteBase
    <3> HIDE DEF D
    <3> QED BY <2>2, <3>1, FinitePart, Zenon
  <2>4. Max(D) \in D /\ \A i \in D : i <= Max(D)
    <3> HIDE DEF D
    <3> QED BY <2>2, <2>3, <1>MaxMember
  <2>5. \A i \in done : P(i) <= v
    BY <1>6
  <2>6. pos = Max(D)
    OBVIOUS
  <2> HIDE DEF done, pos
  <2>7. pos \in D /\ \A i \in done : i <= pos
    BY <2>4, <2>6, Zenon
  <2>8. P(0) <= v
    BY <1>3
  <2> QED BY <2>2, <2>5, <2>7, <2>8
<1>8. 1 .. pos \subseteq done /\ To(pos) = 1 .. pos
  <2>a. pos \in Nat /\ pos <= N /\ (pos = 0 \/ pos \in done)
    <3> HIDE DEF pos, done
    <3> QED BY <1>7, <1>c
  <2>b. \A i \in done : i \in ready /\ P(i) <= v
    BY <1>6
  <2>c. \A i \in ready : P(i) <= v => i \in done
    BY <1>6
  <2> HIDE DEF pos, done
  <2>1. CASE pos = 0
    <3>1. 1 .. pos = {}
      BY <2>1
    <3>2. To(pos) = {}
      BY <2>1, <1>e, <1>c
    <3> QED BY <3>1, <3>2
  <2>2. CASE pos # 0
    <3>2. pos \in ready /\ P(pos) <= v
      BY <2>2, <2>a, <2>b
    <3>3. ASSUME NEW i \in 1 .. pos PROVE i \in done
      <4>1. i \in DOMAIN R /\ i <= pos /\ i \in Nat
        BY <2>a, <1>2, <1>c
      <4>2. i \in ready
        <5>1. i = pos \/ i < pos
          BY <4>1, <2>a
        <5> QED BY <5>1, <3>2, <4>1, <1>e
      <4>3. P(i) <= P(pos) /\ P(i) \in Nat /\ P(pos) \in Nat
        BY <4>1, <2>a, <1>3
      <4>4. P(i) <= v
        BY <3>2, <4>3
      <4> QED BY <4>2, <4>4, <2>c
    <3>4. To(pos) = 1 .. pos
      BY <3>3, <2>a, <2>b, <1>e, <1>c
    <3> QED BY <3>3, <3>4
  <2> QED BY <2>1, <2>2
<1>9. ASSUME NEW i \in DOMAIN R, i > pos
      PROVE  /\ X[i] \in Items
             /\ i \in ready => P(i) > v
  <2> HIDE DEF pos, done
  <2>1. i \in Nat /\ i - 1 \in Nat /\ pos \in Nat
    BY <1>2, <1>7, <1>c
  <2>2. i \notin done
    BY <1>7, <1>9, <2>1
  <2>3. i \in ready => P(i) > v
    BY <2>1, <2>2, <1>6, <1>3
  <2>4. P(i) \in Nat /\ P(i - 1) \in Nat
    BY <2>1, <1>3
  <2>5. X[i] \in [EpochID : Nat, Amount : Nat, Redeemed : BOOLEAN]
    BY <1>3
  <2>6. X[i].Amount # 0
    <3>1. R[i].Amount # 0
      BY <1>4
    <3>2. CASE i \notin ready
      BY <3>1, <3>2, <1>3
    <3>3. CASE i \in ready /\ P(i - 1) >= v
      BY <3>1, <3>3, <1>3
    <3>4. CASE i \in ready /\ P(i - 1) < v
      BY <3>4, <2>3, <2>4, <1>3, SMTT(60)
    <3> QED BY <3>2, <3>3, <3>4, <2>4
  <2> QED BY <2>3, <2>5, <2>6 DEF Items
<1>d. pos \in Nat /\ pos <= N
  BY <1>7, <1>c
<1>10. /\ Z \in Seq(Items) /\ Len(Z) = N - pos /\ DOMAIN Z = 1 .. N - pos
       /\ \A j \in 1 .. N - pos : Z[j] = X[j + pos] /\ j + pos \in DOMAIN R
  <2> HIDE DEF pos
  <2>1. X \in Seq([EpochID : Nat, Amount : Nat, Redeemed : BOOLEAN]) /\ Len(X) = N
    <3>1. DOMAIN X = 1 .. N
      BY <1>2, <1>3
    <3>2. X = [i \in 1 .. N |-> X[i]]
      <4>1. X = redeeming(u, hh, v).RedeemInof
        BY DEF x
      <4> QED BY <3>1, <4>1, <1>2, Zenon DEF redeeming
    <3>3. \A i \in 1 .. N : X[i] \in [EpochID : Nat, Amount : Nat, Redeemed : BOOLEAN]
      BY <3>1, <1>3, Zenon
    <3>4. X \in [1 .. N -> [EpochID : Nat, Amount : Nat, Redeemed : BOOLEAN]]
      BY <3>2, <3>3
    <3> HIDE DEF X
    <3> QED BY <3>4, <1>c, <1>SeqFrom, Zenon
  <2>2. \A j \in 1 .. N - pos : j + pos \in 1 .. N /\ j + pos > pos
    BY <1>d, <1>c
  <2>3. /\ Len(Z) = N - pos /\ DOMAIN Z = 1 .. N - pos
        /\ \A j \in 1 .. N - pos : Z[j] = X[pos + 1 + j - 1]
        /\ Z = [j \in 1 .. N - pos |-> Z[j]]
    BY <2>1, <1>d, <1>c
  <2>4. \A j \in 1 .. N - pos : Z[j] = X[j + pos]
    <3> SUFFICES ASSUME NEW j \in 1 .. N - pos PROVE Z[j] = X[j + pos]
      BY Zenon
    <3>1. pos + 1 + j - 1 = j + pos
      BY <1>d, <1>c
    <3> HIDE DEF Z
    <3> QED BY <3>1, <2>3
  <2>5. \A j \in 1 .. N - pos : Z[j] \in Items
    BY <2>2, <2>4, <1>2, <1>9, Zenon
  <2> HIDE DEF Z
  <2>6. Z \in [1 .. N - pos -> Items]
    BY <2>3, <2>5
  <2>7. N - pos \in Nat
    BY <1>d, <1>c
  <2>8. Z \in Seq(Items)
    BY <2>6, <2>7
  <2> QED BY <2>2, <2>3, <2>4, <2>8, <1>2
<1> HIDE DEF pos, done, Z
<1>11. w = [Value |-> u.Value, RedeemInof |-> Z] /\ w.Value = u.Value /\ w.RedeemInof = Z
  BY <1>3, <1>a
<1>12. \A j \in DOMAIN Z : /\ Z[j].EpochID = R[j + pos].EpochID /\ j \in Nat
                          /\ j + pos \in DOMAIN R /\ j + pos > pos
  <2> SUFFICES ASSUME NEW j \in DOMAIN Z
               PROVE  /\ Z[j].EpochID = R[j + pos].EpochID /\ j \in Nat
                      /\ j + pos \in DOMAIN R /\ j + pos > pos
    OBVIOUS
  <2>1. j \in 1 .. N - pos /\ Z[j] = X[j + pos] /\ j + pos \in DOMAIN R
    BY <1>10
  <2>2. j \in Nat /\ j + pos > pos
    BY <2>1, <1>d, <1>c
  <2>3. X[j + pos].EpochID = R[j + pos].EpochID
    BY <2>1, <1>3
  <2> HIDE DEF X, R
  <2> QED BY <2>1, <2>2, <2>3
<1>13. WellFormed(w, e, hh)
  <2>1. IsUnit(w, hh)
    BY <1>0, <1>2, <1>10, <1>11, UnitType, ZenonT(60)
  <2>2. \A j \in DOMAIN Z : Z[j].EpochID <= e
    BY <1>12, <1>4
  <2>3. \A i, j \in DOMAIN Z : i < j => Z[i].EpochID < Z[j].EpochID
    <3> SUFFICES ASSUME NEW i \in DOMAIN Z, NEW j \in DOMAIN Z, i < j
                 PROVE  R[i + pos].EpochID < R[j + pos].EpochID
      BY <1>12
    <3>1. i + pos < j + pos /\ i + pos \in DOMAIN R /\ j + pos \in DOMAIN R
      BY <1>12, <1>d
    <3> QED BY <3>1, <1>1 DEF WellFormed
  <2> QED BY <2>1, <2>2, <2>3, <1>11 DEF WellFormed
<1>14. Staked(w) = Staked(u)
  BY <1>11 DEF Staked
<1>15. SoundUnit(w, e, hh)
  <2>1. CASE getRedeemItem(w, e) = 0
    BY <2>1, <1>2, <1>13, <1>14 DEF SoundUnit
  <2>2. ASSUME NEW j \in DOMAIN w.RedeemInof, ItemAt(w, e) = {j}, getRedeemItem(w, e) = redeemAt(w, j)
        PROVE  SoundUnit(w, e, hh)
    <3>1. j \in DOMAIN Z /\ Z[j].EpochID = e
      BY <2>2, <1>11 DEF ItemAt
    <3>2. j + pos \in ItemAt(u, e)
      BY <3>1, <1>12 DEF ItemAt
    <3>3. j + pos \notin ready
      BY <3>1, <1>3, <1>12, <1>4, <1>0
    <3>4. redeemAt(w, j) = redeemAt(u, j + pos)
      <4>1. Z[j] = R[j + pos]
        BY <3>1, <3>3, <1>3, <1>10, <1>12
      <4> QED BY <4>1, <1>11 DEF redeemAt
    <3>5. getRedeemItem(u, e) = redeemAt(u, j + pos)
      <4> HIDE DEF e
      <4>1. \/ ItemAt(u, e) = {} /\ getRedeemItem(u, e) = 0
            \/ \E i \in DOMAIN u.RedeemInof :
                 /\ ItemAt(u, e) = {i} /\ Min(ItemAt(u, e)) = i
                 /\ getRedeemItem(u, e) = redeemAt(u, i)
        BY <1>0, <1>1, OneItem, Zenon
      <4>2. PICK i : ItemAt(u, e) = {i} /\ getRedeemItem(u, e) = redeemAt(u, i)
        BY <3>2, <4>1, Zenon
      <4>3. i = j + pos
        BY <3>2, <4>2, Zenon
      <4> QED
        BY <4>2, <4>3, Zenon
    <3> QED BY <2>2, <3>4, <3>5, <1>1, <1>13, <1>14 DEF SoundUnit
  <2>3. \/ getRedeemItem(w, e) = 0
        \/ \E j \in DOMAIN w.RedeemInof : ItemAt(w, e) = {j} /\ getRedeemItem(w, e) = redeemAt(w, j)
    BY <1>0, <1>13, OneItem, Zenon
  <2> QED BY <2>1, <2>2, <2>3
<1>16. /\ IsFiniteSet(T(w)) /\ SumRedeem(w, T(w)) = Sum(redeems(w), T(w))
       /\ IsFiniteSet(T(u)) /\ SumRedeem(u, T(u)) = Sum(redeems(u), T(u))
       /\ SumRedeem(u, T(u)) \in Nat
  <2>1. T(w) \in SUBSET DOMAIN w.RedeemInof /\ T(u) \in SUBSET DOMAIN u.RedeemInof
    OBVIOUS
  <2> HIDE DEF T
  <2> QED BY <2>1, <1>0, <1>1, <1>13, RedeemType, ZenonT(60)
<1>17. Sum(redeems(w), T(w)) = Sum(B, K)
  <2>1. T(w) = {j \in DOMAIN Z : R[j + pos].EpochID # e}
    BY <1>11, <1>12
  <2>2. {j + pos : j \in T(w)} = K
    <3>1. ASSUME NEW j \in T(w) PROVE j + pos \in K
      BY <2>1, <1>12
    <3>2. ASSUME NEW i \in K PROVE i - pos \in T(w) /\ i = (i - pos) + pos
      <4>1. i \in 1 .. N /\ i > pos /\ R[i].EpochID # e
        BY <1>2
      <4>2. i - pos \in 1 .. N - pos /\ i = (i - pos) + pos
        BY <4>1, <1>d, <1>c
      <4> QED BY <4>1, <4>2, <2>1, <1>10
    <3> HIDE DEF T, K
    <3> QED BY <3>1, <3>2
  <2>3. \A j \in T(w) : redeems(w)[j] = B[j + pos] /\ redeems(w)[j] \in Int
    <3> SUFFICES ASSUME NEW j \in T(w) PROVE redeems(w)[j] = B[j + pos] /\ redeems(w)[j] \in Int
      OBVIOUS
    <3>1. j \in DOMAIN Z /\ j + pos \in DOMAIN R
      BY <2>1, <1>12
    <3>2. redeems(w)[j] = Z[j].Amount
      BY <3>1, <1>11 DEF redeems, redeemAt
    <3>3. Z[j] = X[j + pos] /\ Z[j] \in Items
      BY <3>1, <1>10
    <3> QED BY <3>1, <3>2, <3>3 DEF Items
  <2>4. T(w) \in SUBSET Nat
    BY <2>1, <1>12
  <2>5. IsFiniteSet(T(w))
    BY <1>16
  <2> DEFINE S == T(w)
             g == redeems(w)
  <2>6. /\ S \in SUBSET Nat /\ IsFiniteSet(S) /\ {j + pos : j \in S} = K
        /\ \A j \in S : g[j] = B[j + pos] /\ g[j] \in Int
    <3> HIDE DEF T, K, B
    <3> QED BY <2>2, <2>3, <2>4, <2>5
  <2> HIDE DEF S, g, K, B
  <2>8. Sum(g, S) = Sum(B, K)
    <3>1. pos \in Nat /\ K = {j + pos : j \in S}
      BY <2>6, <1>d
    <3>2. \A j \in S : g[j] = B[j + pos] /\ g[j] \in Int
      BY <2>6
    <3>3. S \in SUBSET Nat /\ IsFiniteSet(S)
      BY <2>6
    <3>4. Shifted(B, g, S, K, pos)
      BY <3>1, <3>2, <3>3 DEF Shifted
    <3> QED BY <3>4, <1>SumShift
  <2> QED BY <2>8 DEF S, g
<1> DEFINE A == redeems(u)
<1>18. /\ T(u) = K \cup To(pos) /\ K \cap To(pos) = {}
       /\ \A i \in T(u) : i \in DOMAIN R /\ A[i] = R[i].Amount /\ A[i] \in Nat
  <2>1. To(pos) \subseteq T(u)
    <3>1. \A i \in ready : i \in DOMAIN R /\ R[i].EpochID # e
      BY <1>0, <1>3, <1>4
    <3> QED BY <3>1
  <2>2. \A i \in T(u) : i > pos \/ i \in 1 .. pos
    BY <1>2, <1>d, <1>c
  <2>3. T(u) = K \cup To(pos)
    BY <2>1, <2>2, <1>8
  <2>4. K \cap To(pos) = {}
    BY <1>8, <1>d
  <2>5. \A i \in T(u) : i \in DOMAIN R /\ A[i] = R[i].Amount /\ A[i] \in Nat
    BY <1>4
  <2> HIDE DEF T, K, A, To
  <2> QED BY <2>3, <2>4, <2>5
<1>19. IsFiniteSet(K) /\ IsFiniteSet(To(pos)) /\ K \subseteq T(u)
  <2>1. K \subseteq T(u) /\ To(pos) \subseteq T(u)
    BY <1>18
  <2> HIDE DEF T, K, To
  <2> QED BY <2>1, <1>16, FinitePart, SMTT(60)
<1>20. /\ Sum(A, T(u)) = Sum(A, K) + P(pos)
       /\ Sum(A, K) \in Nat /\ P(pos) \in Nat
  <2>1. P(pos) = Sum(A, To(pos))
    <3>1. To(pos) \in SUBSET DOMAIN u.RedeemInof
      BY <1>3
    <3>2. P(pos) = SumRedeem(u, To(pos))
      BY <1>b
    <3> HIDE DEF To
    <3> QED BY <3>1, <3>2, <1>0, <1>1, RedeemType, ZenonT(60)
  <2>2. P(pos) \in Nat
    BY <1>3, <1>d
  <2>3. \A i \in K \cup To(pos) : A[i] \in Nat
    BY <1>18
  <2> HIDE DEF T, K, To, A
  <2>4. Sum(A, K) \in Nat
    BY <2>3, <1>19, SumNat, SMTT(60)
  <2>5. Sum(A, K \cup To(pos)) = Sum(A, K) + Sum(A, To(pos))
    BY <2>3, <1>18, <1>19, SumUnion, SMTT(60)
  <2> QED BY <2>1, <2>2, <2>4, <2>5, <1>18
<1>21. Sum(B, K) = Sum(A, K) + (P(pos) - v)
  <2>0. \A i \in K : /\ i \in DOMAIN R /\ i > pos /\ i \in Nat /\ i - 1 \in Nat /\ pos <= i - 1
                    /\ A[i] = R[i].Amount /\ A[i] \in Nat /\ B[i] = X[i].Amount
    <3> SUFFICES ASSUME NEW i \in K
                 PROVE  /\ i \in DOMAIN R /\ i > pos /\ i \in Nat /\ i - 1 \in Nat /\ pos <= i - 1
                        /\ A[i] = R[i].Amount /\ A[i] \in Nat /\ B[i] = X[i].Amount
      OBVIOUS
    <3>1. i \in DOMAIN R /\ i > pos /\ A[i] = R[i].Amount /\ A[i] \in Nat
      BY <1>18
    <3>2. B[i] = X[i].Amount
      BY <3>1
    <3>3. i \in Nat /\ i - 1 \in Nat /\ pos <= i - 1
      BY <3>1, <1>2, <1>c, <1>d
    <3> QED BY <3>1, <3>2, <3>3, SMTT(60)
  <2>1. CASE P(pos) = v
    <3>1. \A i \in K : B[i] = A[i]
      <4> SUFFICES ASSUME NEW i \in K PROVE X[i] = R[i]
        BY <2>0
      <4>1. P(i - 1) >= v
        BY <2>0, <2>1, <1>3, <1>d, ZenonT(60)
      <4> QED BY <4>1, <2>0, <1>3, SMTT(60)
    <3> HIDE DEF K, A, B
    <3>2. Sum(B, K) = Sum(A, K)
      BY <3>1, <1>19, SumSame
    <3> QED BY <3>2, <2>1, <1>20, SMTT(60)
  <2>2. CASE P(pos) < v
    <3> DEFINE k == pos + 1
    <3>1. k \in ready
      <4> SUFFICES ASSUME k \notin ready PROVE FALSE
        OBVIOUS
      <4>1. ASSUME NEW i \in ready PROVE i \in To(pos)
        <5>1. i \in 1 .. N
          BY <1>2, <1>3
        <5>2. ASSUME ~(i <= pos) PROVE FALSE
          <6>1. k \in DOMAIN R /\ (k < i \/ k = i)
            BY <5>1, <5>2, <1>2, <1>d, <1>c
          <6> QED BY <6>1, <1>3
        <5> QED BY <5>2
      <4>2. To(pos) = ready
        BY <4>1
      <4>3. P(pos) = getValidRedeem(u, hh)
        BY <4>2, <1>a, <1>b, SMTT(60)
      <4> QED BY <4>3, <2>2, <1>20
    <3>2. k \in DOMAIN R /\ k > pos /\ k - 1 = pos /\ k \in Nat
      BY <3>1, <1>3, <1>d, SMTT(60)
    <3>3. P(k) > v /\ P(k) = P(pos) + R[k].Amount /\ P(k) \in Nat
      BY <3>1, <3>2, <1>3, <1>4, <1>9, SMTT(60)
    <3>4. k \in K
      BY <3>1, <3>2, <1>0, <1>3, <1>4, SMTT(60)
    <3>5. B[k] = A[k] + (P(pos) - v)
      <4>1. X[k].Amount = P(k) - v
        BY <3>1, <3>2, <3>3, <2>2, <1>3
      <4>2. B[k] = X[k].Amount /\ A[k] = R[k].Amount /\ A[k] \in Nat
        BY <3>4, <2>0, Zenon
      <4> HIDE DEF A, B, K, T, To, X, R, k
      <4> QED BY <4>1, <4>2, <3>3, <1>20
    <3>6. ASSUME NEW i \in K \ {k} PROVE B[i] = A[i]
      <4>1. i \in K /\ i # k
        BY <3>6
      <4>2. i - 1 >= k
        <5>1. i \in Nat /\ pos <= i - 1
          BY <4>1, <2>0, ZenonT(60)
        <5> HIDE DEF K
        <5> QED BY <4>1, <5>1, <1>d
      <4>3. P(i - 1) >= v
        <5>1. P(k) <= P(i - 1) /\ P(i - 1) \in Nat
          BY <4>1, <4>2, <2>0, <3>2, <1>3, ZenonT(60)
        <5> QED BY <5>1, <3>3
      <4>4. X[i] = R[i]
        BY <4>1, <4>3, <2>0, <1>3, SMTT(60)
      <4> QED BY <4>1, <4>4, <2>0, Zenon
    <3>7. (\A i \in K : A[i] \in Int) /\ P(pos) - v \in Int
      <4>1. \A i \in K : A[i] \in Nat
        BY <2>0, Zenon
      <4> HIDE DEF K, A
      <4> QED BY <4>1, <1>20
    <3> HIDE DEF K, A, B, k
    <3> QED BY <3>4, <3>5, <3>6, <3>7, <1>19, SumUpdate, SMTT(60)
  <2>3. P(pos) = v \/ P(pos) < v
    <3> HIDE DEF K, A, To
    <3> QED BY <1>7, <1>20
  <2> QED BY <2>1, <2>2, <2>3, SMTT(60)
<1>22. HoldsIn(w, e) = HoldsIn(u, e) - v
  <2>1. HoldsIn(w, e) = Staked(w) + Sum(B, K) /\ HoldsIn(u, e) = Staked(u) + Sum(A, T(u))
    <3>1. HoldsIn(w, e) = Staked(w) + SumRedeem(w, T(w)) /\ HoldsIn(u, e) = Staked(u) + SumRedeem(u, T(u))
      BY DEF HoldsIn
    <3> HIDE DEF T, K, B
    <3> QED BY <3>1, <1>16, <1>17
  <2> HIDE DEF T, K, A, B
  <2> QED BY <2>1, <1>2, <1>14, <1>20, <1>21, SMTT(60)
<1> QED BY <1>14, <1>15, <1>22
=============================================================================
