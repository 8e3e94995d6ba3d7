--------------------------- MODULE SnailPoolProofs ---------------------------
(***************************************************************************)
(* For every freshness, pointer lag, number of fruits of a block and size  *)
(* of the pool, the snail chain records the fast blocks in order, the pool *)
(* drops what is recorded and a reorganisation returns what is not.        *)
(*                                                                         *)
(* The inductive invariant says of the chain that its record is rising, of *)
(* the pool that the head it waits for is the canonical one, and of the    *)
(* work that its parent is on the chain or dead.  The last is the heart of *)
(* the argument: the worker reads the parent first and the fruits later,   *)
(* so a block it mines may have fruits that continue another chain than    *)
(* its parent's; then the parent has lost a block to a fork of a higher    *)
(* number, which it can never win back.                                    *)
(***************************************************************************)
EXTENDS SnailPool, FiniteSetTheorems, WellFoundedInduction, TLAPS

-----------------------------------------------------------------------------
(* Sequences.                                                              *)

\* An element of a sequence.
LEMMA SeqElement ==
  ASSUME NEW S, NEW s \in Seq(S), NEW i \in 1 .. Len(s)
  PROVE  s[i] \in S
  OBVIOUS

\* Only the empty sequence has length 0.
LEMMA SeqEmpty ==
  ASSUME NEW S, NEW s \in Seq(S)
  PROVE  Len(s) \in Nat /\ (s # <<>> => Len(s) # 0) /\ (Len(s) = 0 => s = <<>>)
  OBVIOUS

\* An element added at the end.
LEMMA SeqAppend ==
  ASSUME NEW S, NEW s \in Seq(S), NEW x \in S
  PROVE  /\ Append(s, x) \in Seq(S) /\ Len(Append(s, x)) = Len(s) + 1
         /\ \A i \in 1 .. Len(s) : Append(s, x)[i] = s[i]
         /\ Append(s, x)[Len(s) + 1] = x
  OBVIOUS

\* The first element and the others.
LEMMA SeqTail ==
  ASSUME NEW S, NEW s \in Seq(S), s # <<>>
  PROVE  Head(s) \in S /\ Tail(s) \in Seq(S)
  OBVIOUS

\* A sequence cut off at its end is itself, ...
LEMMA SeqWhole ==
  ASSUME NEW S, NEW s \in Seq(S)
  PROVE  SubSeq(s, 1, Len(s)) = s
<1>1. Len(s) \in Nat
  OBVIOUS
<1>2. SubSeq(s, 1, Len(s)) \in Seq(S) /\ Len(SubSeq(s, 1, Len(s))) = Len(s)
  BY <1>1
<1>3. \A i \in 1 .. Len(s) : SubSeq(s, 1, Len(s))[i] = s[i]
  BY <1>1
<1> QED
  BY <1>1, <1>2, <1>3

\* ... and cut off before its start it is empty.
LEMMA SeqNone ==
  ASSUME NEW S, NEW s \in Seq(S), NEW n \in Int, n < 1
  PROVE  SubSeq(s, 1, n) = <<>>
<1>1. SubSeq(s, 1, n) \in Seq(S) /\ Len(SubSeq(s, 1, n)) = 0
  OBVIOUS
<1> QED
  BY <1>1, SeqEmpty

-----------------------------------------------------------------------------
(* Chains of snail blocks.                                                 *)

\* The fruits and the blocks of the snail chain.
Fruits == [n : Numbers, at : Nat \X Nat]
Blocks == [fork : Nat, fruits : Seq(Fruits) \ {<<>>}]

\* The last fast number that block k records.
Top(c, k) == IF k = 0 THEN 0 ELSE c[k].fruits[Len(c[k].fruits)].n

\* No block records a fast number beyond those of a later block's last.
Rising(c) ==
  \A j, k \in DOMAIN c : j <= k => \A i \in DOMAIN c[j].fruits : c[j].fruits[i].n <= Top(c, k)

\* Every block continues the one before.
Continuous(c) ==
  \A k \in DOMAIN c : \A i \in DOMAIN c[k].fruits : c[k].fruits[i].n = Top(c, k - 1) + i

\* The fruits of one block have no gap.
Consecutive(fs) == \A i \in DOMAIN fs : fs[i].n = fs[1].n + i - 1

\* What the worker copies from the pool, and the maps of the pool.
Snaps == {<<>>} \cup UNION {[D -> Fruits] : D \in SUBSET Numbers}
Pool(f) == f \in Snaps /\ \A n \in DOMAIN f : f[n].n = n

\* The states of the worker's work.
Works == [pc : {"idle", "begun", "mining"}, parent : Seq(Blocks), snap : Snaps,
          target : Numbers \cup {0}, fruits : Seq(Fruits), at : Nat \X Nat]

\* The parent of a work is on the chain, ...
Prefix(p, c) == Len(p) <= Len(c) /\ \A k \in DOMAIN p : p[k] = c[k]

\* ... or has lost a block to a later fork.
Dead(p, c) == \E k \in DOMAIN p : k <= Len(c) /\ p[k].fork < c[k].fork

\* The snail chains.
Chains == Seq(Blocks)

\* d is c cut off at k with the block b added.
Grows(c, k, b, d) ==
  /\ d \in Chains /\ Len(d) = k + 1 /\ DOMAIN d = 1 .. k + 1
  /\ \A j \in 1 .. k : d[j] = c[j]
  /\ d[k + 1] = b

\* A chain cut off at block k.
LEMMA Cut ==
  ASSUME NEW c \in Chains, NEW k \in 0 .. Len(c)
  PROVE  /\ SubSeq(c, 1, k) \in Chains /\ Len(SubSeq(c, 1, k)) = k
         /\ \A j \in 1 .. k : SubSeq(c, 1, k)[j] = c[j]
  BY DEF Chains

\* Appending a block to a chain cut off at k makes it grow at k.
LEMMA GrowsForm ==
  ASSUME NEW c \in Chains, NEW k \in 0 .. Len(c), NEW b \in Blocks
  PROVE  Grows(c, k, b, Append(SubSeq(c, 1, k), b))
<1> DEFINE p == SubSeq(c, 1, k)
<1>1. p \in Seq(Blocks) /\ Len(p) = k /\ \A j \in 1 .. k : p[j] = c[j]
  BY Cut DEF Chains
<1> HIDE DEF p
<1>2. Grows(c, k, b, Append(p, b))
  BY <1>1, SeqAppend DEF Grows, Chains
<1> QED
  BY <1>2 DEF p

\* The blocks of a chain, their fruits and the last fast number are typed.
LEMMA TopType ==
  ASSUME NEW c \in Chains
  PROVE  /\ Len(c) \in Nat /\ DOMAIN c = 1 .. Len(c)
         /\ Last(c) = Top(c, Len(c))
         /\ \A k \in 1 .. Len(c) :
              /\ c[k] \in Blocks /\ c[k].fruits \in Seq(Fruits) /\ Len(c[k].fruits) \in Nat \ {0}
              /\ DOMAIN c[k].fruits = 1 .. Len(c[k].fruits)
              /\ Top(c, k) \in Numbers
         /\ Last(c) \in Nat
<1>1. Len(c) \in Nat /\ DOMAIN c = 1 .. Len(c)
  BY DEF Chains
<1>2. Last(c) = Top(c, Len(c))
  BY <1>1 DEF Last, Top, Chains
<1>3. ASSUME NEW k \in 1 .. Len(c)
      PROVE  /\ c[k] \in Blocks /\ c[k].fruits \in Seq(Fruits) /\ Len(c[k].fruits) \in Nat \ {0}
             /\ DOMAIN c[k].fruits = 1 .. Len(c[k].fruits)
             /\ Top(c, k) \in Numbers
  <2>1. c[k] \in Blocks
    BY DEF Chains
  <2>2. c[k].fruits \in Seq(Fruits) /\ c[k].fruits # <<>>
    BY <2>1 DEF Blocks
  <2>3. Len(c[k].fruits) \in Nat \ {0} /\ DOMAIN c[k].fruits = 1 .. Len(c[k].fruits)
    BY <2>2, SeqEmpty
  <2>4. c[k].fruits[Len(c[k].fruits)] \in Fruits
    BY <2>2, <2>3
  <2>5. Top(c, k) = c[k].fruits[Len(c[k].fruits)].n
    BY DEF Top
  <2> QED
    BY <2>1, <2>2, <2>3, <2>4, <2>5 DEF Fruits
<1>4. Last(c) \in Nat
  BY <1>1, <1>2, <1>3 DEF Top, Numbers
<1> QED
  BY <1>1, <1>2, <1>3, <1>4

\* The tops of the blocks that are kept do not change.
LEMMA GrowsTop ==
  ASSUME NEW c \in Chains, NEW k \in 0 .. Len(c), NEW b \in Blocks, NEW d, Grows(c, k, b, d)
  PROVE  /\ \A j \in 0 .. k : Top(d, j) = Top(c, j)
         /\ Top(d, k + 1) = b.fruits[Len(b.fruits)].n
<1>1. k \in Nat
  BY TopType
<1>2. \A j \in 0 .. k : Top(d, j) = Top(c, j)
  BY <1>1 DEF Grows, Top
<1>3. Top(d, k + 1) = b.fruits[Len(b.fruits)].n
  BY <1>1 DEF Grows, Top
<1> QED
  BY <1>2, <1>3

\* A block of consecutive fruits after its parent's keeps the record rising.
LEMMA RisingGrows ==
  ASSUME NEW c \in Chains, Rising(c), NEW k \in 0 .. Len(c), NEW b \in Blocks,
         Consecutive(b.fruits), b.fruits[1].n > Top(c, k), NEW d, Grows(c, k, b, d)
  PROVE  Rising(d)
<1> DEFINE fs == b.fruits
           m == Len(fs)
<1>1. k \in Nat /\ Len(c) \in Nat /\ DOMAIN c = 1 .. Len(c)
  BY TopType
<1>2. fs \in Seq(Fruits) /\ fs # <<>>
  BY DEF Blocks
<1>3. m \in Nat \ {0} /\ DOMAIN fs = 1 .. m /\ 1 \in 1 .. m /\ m \in 1 .. m
  BY <1>2, SeqEmpty
<1>4. \A i \in 1 .. m : fs[i].n \in Nat
  <2> SUFFICES ASSUME NEW i \in 1 .. m PROVE fs[i].n \in Nat
    OBVIOUS
  <2>1. fs[i] \in Fruits
    BY <1>2, <1>3, SeqElement
  <2> QED
    BY <2>1 DEF Fruits, Numbers
<1>5. \A i \in 1 .. m : fs[i].n <= fs[m].n
  <2>1. \A i \in 1 .. m : fs[i].n = fs[1].n + i - 1
    BY <1>3 DEF Consecutive
  <2> HIDE DEF fs, m
  <2>2. fs[m].n = fs[1].n + m - 1 /\ fs[1].n \in Nat /\ m \in Nat
    BY <1>3, <1>4, <2>1
  <2> QED
    BY <2>1, <2>2
<1>6. fs[m].n >= fs[1].n /\ fs[m].n \in Nat /\ fs[1].n \in Nat
  BY <1>3, <1>4, <1>5
<1>7. DOMAIN d = 1 .. k + 1 /\ (\A j \in 1 .. k : d[j] = c[j]) /\ d[k + 1] = b
  BY DEF Grows
<1>8. (\A j \in 0 .. k : Top(d, j) = Top(c, j)) /\ Top(d, k + 1) = fs[m].n
  BY GrowsTop
<1> HIDE DEF fs, m
<1>9. SUFFICES ASSUME NEW j \in 1 .. k + 1, NEW l \in 1 .. k + 1, j <= l,
                     NEW i \in DOMAIN d[j].fruits
              PROVE  d[j].fruits[i].n <= Top(d, l)
  BY <1>7 DEF Rising
<1>10. CASE j = k + 1
  <2>1. l = k + 1
    BY <1>1, <1>9, <1>10
  <2> QED
    BY <1>3, <1>5, <1>7, <1>8, <1>10, <2>1 DEF fs
<1>11. CASE j # k + 1 /\ l # k + 1
  <2>1. j \in 1 .. k /\ l \in 1 .. k /\ j \in DOMAIN c /\ l \in DOMAIN c
    BY <1>1, <1>11
  <2>2. d[j] = c[j] /\ Top(d, l) = Top(c, l)
    BY <1>1, <1>7, <1>8, <2>1
  <2> QED
    BY <1>9, <2>1, <2>2 DEF Rising
<1>12. CASE j # k + 1 /\ l = k + 1
  <2>1. j \in 1 .. k /\ k \in 1 .. k /\ j \in DOMAIN c /\ k \in DOMAIN c /\ j <= k
    BY <1>1, <1>12
  <2>2. d[j] = c[j] /\ Top(d, l) = fs[m].n
    BY <1>7, <1>8, <1>12, <2>1
  <2>3. c[j].fruits[i].n <= Top(c, k)
    BY <1>9, <2>1, <2>2 DEF Rising
  <2>4. Top(c, k) \in Nat /\ c[j].fruits[i].n \in Nat
    <3>1. Top(c, k) \in Numbers /\ c[j].fruits \in Seq(Fruits)
      BY <1>1, <2>1, TopType
    <3>2. DOMAIN c[j].fruits = 1 .. Len(c[j].fruits)
      BY <1>1, <2>1, TopType
    <3>3. i \in 1 .. Len(c[j].fruits)
      BY <1>9, <2>2, <3>2
    <3>4. c[j].fruits[i] \in Fruits
      BY <3>1, <3>3, SeqElement
    <3>5. c[j].fruits[i].n \in Numbers
      BY <3>4 DEF Fruits
    <3> QED
      BY <3>1, <3>5 DEF Numbers
  <2>5. fs[1].n > Top(c, k)
    BY DEF fs
  <2> QED
    BY <1>6, <2>2, <2>3, <2>4, <2>5
<1> QED
  BY <1>10, <1>11, <1>12

\* A block that starts right after its parent keeps the record continuous.
LEMMA ContinuousGrows ==
  ASSUME NEW c \in Chains, Continuous(c), NEW k \in 0 .. Len(c), NEW b \in Blocks,
         Consecutive(b.fruits), b.fruits[1].n = Top(c, k) + 1, NEW d, Grows(c, k, b, d)
  PROVE  Continuous(d)
<1>1. k \in Nat /\ Len(c) \in Nat /\ DOMAIN c = 1 .. Len(c)
  BY TopType
<1>2. DOMAIN d = 1 .. k + 1 /\ (\A j \in 1 .. k : d[j] = c[j]) /\ d[k + 1] = b
  BY DEF Grows
<1>3. \A j \in 0 .. k : Top(d, j) = Top(c, j)
  BY GrowsTop
<1>4. SUFFICES ASSUME NEW j \in 1 .. k + 1, NEW i \in DOMAIN d[j].fruits
              PROVE  d[j].fruits[i].n = Top(d, j - 1) + i
  BY <1>2 DEF Continuous
<1>5. j - 1 \in 0 .. k
  BY <1>1
<1>6. CASE j = k + 1
  <2>1. Top(d, j - 1) = Top(c, k)
    BY <1>1, <1>3, <1>6
  <2>2. b.fruits[i].n = b.fruits[1].n + i - 1 /\ i \in Nat
    <3>1. b.fruits \in Seq(Fruits) /\ i \in DOMAIN b.fruits
      BY <1>2, <1>4, <1>6 DEF Blocks
    <3> QED
      BY <3>1 DEF Consecutive
  <2>3. Top(c, k) \in Nat
    BY <1>1, TopType DEF Top, Numbers
  <2> QED
    BY <1>2, <1>6, <2>1, <2>2, <2>3
<1>7. CASE j # k + 1
  <2>1. j \in 1 .. k /\ j \in DOMAIN c
    BY <1>1, <1>7
  <2> QED
    BY <1>2, <1>3, <1>4, <1>5, <2>1 DEF Continuous
<1> QED
  BY <1>6, <1>7

\* Every block of the chain is known.
Known(c, K) == \A k \in 0 .. Len(c) : Hash(c, k) \in K

\* The forks of the chain are not in the future.
Aged(c, f) == \A k \in 1 .. Len(c) : c[k].fork <= f

\* The hashes of the new canonical chain are known.
LEMMA KnownGrows ==
  ASSUME NEW c \in Chains, NEW k \in 0 .. Len(c), NEW b \in Blocks, NEW d, Grows(c, k, b, d),
         NEW K, Known(c, K)
  PROVE  Known(d, K \cup {Hash(d, Len(d))})
<1>1. k \in Nat /\ Len(c) \in Nat /\ Len(d) = k + 1 /\ \A j \in 1 .. k : d[j] = c[j]
  BY TopType DEF Grows
<1>2. \A j \in 0 .. k : Hash(d, j) = Hash(c, j)
  BY <1>1 DEF Hash
<1>3. \A j \in 0 .. k : Hash(d, j) \in K
  BY <1>1, <1>2 DEF Known
<1>4. \A j \in 0 .. k + 1 : j = Len(d) \/ j \in 0 .. k
  BY <1>1
<1> QED
  BY <1>1, <1>3, <1>4 DEF Known

\* The new block is the only one that may be of the new fork.
LEMMA AgedGrows ==
  ASSUME NEW c \in Chains, NEW k \in 0 .. Len(c), NEW b \in Blocks, NEW d, Grows(c, k, b, d),
         NEW f \in Nat, NEW g \in Nat, Aged(c, f), f <= g, b.fork <= g
  PROVE  Aged(d, g)
<1>1. k \in Nat /\ Len(c) \in Nat /\ Len(d) = k + 1 /\ (\A j \in 1 .. k : d[j] = c[j]) /\ d[k + 1] = b
  BY TopType DEF Grows
<1> SUFFICES ASSUME NEW j \in 1 .. k + 1 PROVE d[j].fork <= g
  BY <1>1 DEF Aged
<1>2. CASE j = k + 1
  BY <1>1, <1>2
<1>3. CASE j \in 1 .. k
  <2>1. c[j] \in Blocks /\ c[j].fork <= f /\ d[j] = c[j]
    BY <1>1, <1>3, TopType DEF Aged
  <2>2. c[j].fork \in Nat
    BY <2>1 DEF Blocks
  <2> QED
    BY <2>1, <2>2
<1> QED
  BY <1>1, <1>2, <1>3

\* When the chain grows at its end or loses its last block to a new fork, a
\* parent that was on it stays on it or is dead, and a dead one stays dead:
\* fork numbers at a height only grow.
LEMMA ParentGrows ==
  ASSUME NEW c \in Chains, NEW k \in 0 .. Len(c), NEW b \in Blocks, NEW d, Grows(c, k, b, d),
         NEW f \in Nat, Aged(c, f),
         k = Len(c) \/ (k = Len(c) - 1 /\ b.fork = f + 1),
         NEW p \in Chains
  PROVE  /\ Dead(p, c) => Dead(p, d)
         /\ Prefix(p, c) => Prefix(p, d) \/ Dead(p, d)
<1>1. /\ k \in Nat /\ Len(c) \in Nat /\ Len(d) = k + 1 /\ (\A j \in 1 .. k : d[j] = c[j])
      /\ d[k + 1] = b /\ Len(p) \in Nat /\ DOMAIN p = 1 .. Len(p)
  BY TopType DEF Grows
<1>2. \A j \in 1 .. Len(c) : c[j].fork \in Nat /\ c[j].fork <= f
  BY TopType DEF Blocks, Aged
<1>3. \A j \in 1 .. Len(p) : p[j].fork \in Nat
  BY TopType DEF Blocks
<1>4. \A j \in 1 .. Len(c) : j <= Len(d) /\ d[j].fork \in Nat /\ c[j].fork <= d[j].fork
  <2> SUFFICES ASSUME NEW j \in 1 .. Len(c)
               PROVE  j <= Len(d) /\ d[j].fork \in Nat /\ c[j].fork <= d[j].fork
    OBVIOUS
  <2>1. CASE j \in 1 .. k
    BY <1>1, <1>2, <2>1
  <2>2. CASE j \notin 1 .. k
    <3>1. j = k + 1 /\ b.fork = f + 1
      BY <1>1, <2>2
    <3> QED
      BY <1>1, <1>2, <3>1
  <2> QED
    BY <2>1, <2>2
<1>5. ASSUME Dead(p, c) PROVE Dead(p, d)
  <2>1. PICK j \in 1 .. Len(p) : j <= Len(c) /\ p[j].fork < c[j].fork
    BY <1>1, <1>5 DEF Dead
  <2>2. j \in 1 .. Len(c)
    BY <1>1, <2>1
  <2>3. j <= Len(d) /\ p[j].fork < d[j].fork
    BY <1>2, <1>3, <1>4, <2>1, <2>2
  <2> QED
    BY <1>1, <2>3 DEF Dead
<1>6. ASSUME Prefix(p, c) PROVE Prefix(p, d) \/ Dead(p, d)
  <2>1. Len(p) <= Len(c) /\ \A j \in 1 .. Len(p) : p[j] = c[j]
    BY <1>1, <1>6 DEF Prefix
  <2>2. CASE Len(p) <= k
    <3>1. Len(p) <= Len(d) /\ \A j \in 1 .. Len(p) : p[j] = d[j]
      BY <1>1, <2>1, <2>2
    <3> QED
      BY <1>1, <3>1 DEF Prefix
  <2>3. CASE ~(Len(p) <= k)
    <3>0. k # Len(c)
      BY <1>1, <2>1, <2>3
    <3>1. Len(p) = k + 1 /\ Len(c) = k + 1 /\ b.fork = f + 1 /\ k + 1 \in 1 .. Len(c)
      <4>1. k = Len(c) - 1 /\ b.fork = f + 1
        BY <3>0
      <4> QED
        BY <1>1, <2>1, <2>3, <4>1
    <3>2. p[k + 1] = c[k + 1] /\ k + 1 <= Len(d) /\ k + 1 \in 1 .. Len(p)
      BY <1>1, <2>1, <3>1
    <3>3. p[k + 1].fork < d[k + 1].fork
      BY <1>1, <1>2, <3>1, <3>2
    <3> QED
      BY <1>1, <3>2, <3>3 DEF Dead
  <2> QED
    BY <2>2, <2>3
<1> QED
  BY <1>5, <1>6

\* A parent on the chain records no more than the chain and is not dead.
LEMMA PrefixLast ==
  ASSUME NEW c \in Chains, Rising(c), NEW p \in Chains, Prefix(p, c)
  PROVE  Last(p) <= Last(c) /\ ~Dead(p, c)
<1>1. /\ Len(c) \in Nat /\ DOMAIN c = 1 .. Len(c) /\ Len(p) \in Nat /\ DOMAIN p = 1 .. Len(p)
      /\ Len(p) <= Len(c) /\ \A j \in 1 .. Len(p) : p[j] = c[j]
  BY TopType DEF Prefix
<1>2. Last(p) = Top(p, Len(p)) /\ Last(c) = Top(c, Len(c)) /\ Last(c) \in Nat
  BY TopType
<1>5. ~Dead(p, c)
  <2> SUFFICES ASSUME NEW j \in 1 .. Len(p), p[j].fork < c[j].fork PROVE FALSE
    BY <1>1 DEF Dead
  <2>1. p[j] = c[j] /\ p[j].fork \in Nat
    BY <1>1, TopType DEF Blocks
  <2> QED
    BY <2>1
<1>3. CASE Len(p) = 0
  BY <1>2, <1>3, <1>5 DEF Top
<1>4. CASE Len(p) # 0
  <2> DEFINE k == Len(p)
             m == Len(c[k].fruits)
  <2>1. k \in 1 .. Len(p) /\ k \in DOMAIN c /\ Len(c) \in DOMAIN c /\ k <= Len(c) /\ p[k] = c[k]
    BY <1>1, <1>4
  <2>2. Top(p, k) = c[k].fruits[m].n
    BY <1>4, <2>1 DEF Top
  <2>3. m \in DOMAIN c[k].fruits
    BY <1>1, <2>1, TopType
  <2>4. c[k].fruits[m].n <= Top(c, Len(c))
    <3> HIDE DEF k, m
    <3> QED
      BY <2>1, <2>3 DEF Rising
  <2> QED
    BY <1>2, <1>5, <2>2, <2>4
<1> QED
  BY <1>3, <1>4, <1>5

\* S has no gap above L.
Downward(S, L) == \A n \in S : n \in Nat /\ n > L /\ \A m \in L + 1 .. n : m \in S

\* A finite set of numbers above L that has no gap holds the first ones.
LEMMA InTurn ==
  ASSUME NEW L \in Nat, NEW S, Downward(S, L), NEW i \in 1 .. Cardinality(S),
         Cardinality(S) \in Nat
  PROVE  L + i \in S
<1> SUFFICES ASSUME L + i \notin S PROVE FALSE
  OBVIOUS
<1>1. i \in Nat \ {0} /\ i <= Cardinality(S)
  OBVIOUS
<1>2. S \subseteq L + 1 .. L + i - 1
  <2> SUFFICES ASSUME NEW n \in S PROVE n \in L + 1 .. L + i - 1
    OBVIOUS
  <2>1. n \in Nat /\ n > L /\ \A m \in L + 1 .. n : m \in S
    BY DEF Downward
  <2> QED
    BY <1>1, <2>1
<1>3. IsFiniteSet(L + 1 .. L + i - 1) /\ Cardinality(L + 1 .. L + i - 1) = i - 1
  <2>1. L + 1 \in Int /\ L + i - 1 \in Int
    BY <1>1
  <2>2. Cardinality(L + 1 .. L + i - 1)
          = IF L + 1 > L + i - 1 THEN 0 ELSE (L + i - 1) - (L + 1) + 1
    BY <2>1, FS_Interval
  <2> QED
    BY <1>1, <2>1, <2>2, FS_Interval
<1>4. Cardinality(S) <= i - 1
  BY <1>2, <1>3, FS_Subset, Zenon
<1> QED
  BY <1>1, <1>4

\* A snapshot is a function from fast numbers to fruits.
LEMMA SnapFacts ==
  ASSUME NEW f \in Snaps
  PROVE  DOMAIN f \subseteq Numbers /\ IsFiniteSet(DOMAIN f) /\ \A n \in DOMAIN f : f[n] \in Fruits
<1>1. IsFiniteSet(Numbers)
  BY SnailAssumption, FS_Interval DEF Numbers
<1>2. CASE f = <<>>
  <2>1. DOMAIN f = {}
    BY <1>2
  <2> QED
    BY <2>1, FS_EmptySet
<1>3. CASE f # <<>>
  <2>1. PICK D \in SUBSET Numbers : f \in [D -> Fruits]
    BY <1>3 DEF Snaps
  <2>2. DOMAIN f = D
    BY <2>1
  <2> QED
    BY <1>1, <2>1, <2>2, FS_Subset
<1> QED
  BY <1>2, <1>3

\* CommitFruits (snail miner) walks the pending fruits in turn: what it
\* finds starts right after the last recorded fast block and has no gap.
LEMMA ContinuedRun ==
  ASSUME chain \in Chains, NEW snap, Pool(snap), NEW number
  PROVE  /\ continued(snap, number) \in Seq(Fruits)
         /\ \A i \in 1 .. Len(continued(snap, number)) :
              continued(snap, number)[i].n = Last(chain) + i
<1> DEFINE L == Last(chain)
           run == {n \in DOMAIN snap :
                     /\ n > L
                     /\ \A m \in L + 1 .. n : m \in DOMAIN snap /\ Fresh(snap[m], number, TRUE) = "ok"}
           N == Cardinality(run)
           r == [i \in 1 .. N |-> snap[L + i]]
<1>1. continued(snap, number) = r
  BY DEF continued
<1>2. L \in Nat
  BY TopType
<1>3. /\ DOMAIN snap \subseteq Numbers /\ IsFiniteSet(DOMAIN snap)
      /\ \A n \in DOMAIN snap : snap[n] \in Fruits /\ snap[n].n = n
  BY SnapFacts DEF Pool
<1>4. IsFiniteSet(run) /\ N \in Nat
  <2>1. run \subseteq DOMAIN snap
    BY Zenon
  <2> HIDE DEF run
  <2> QED
    BY <1>3, <2>1, FS_Subset, FS_CardinalityType
<1>5. Downward(run, L)
  <2> SUFFICES ASSUME NEW n \in run
               PROVE  n \in Nat /\ n > L /\ \A m \in L + 1 .. n : m \in run
    BY Zenon DEF Downward
  <2>1. n \in Nat /\ n > L
    BY <1>3 DEF Numbers
  <2>2. ASSUME NEW m \in L + 1 .. n PROVE m \in run
    <3>0. \A o \in L + 1 .. n : o \in DOMAIN snap /\ Fresh(snap[o], number, TRUE) = "ok"
      BY Zenon
    <3>1. m \in DOMAIN snap /\ m > L
      <4> HIDE DEF L, run
      <4>1. m \in DOMAIN snap
        BY <3>0, Zenon
      <4>2. m > L
        BY <1>2, <2>1
      <4> QED
        BY <4>1, <4>2
    <3>2. ASSUME NEW o \in L + 1 .. m PROVE o \in DOMAIN snap /\ Fresh(snap[o], number, TRUE) = "ok"
      <4>1. o \in L + 1 .. n
        BY <1>2, <2>1
      <4> QED
        BY <4>1, Zenon
    <3> QED
      BY <3>1, <3>2, Zenon
  <2> HIDE DEF L, run
  <2> QED
    BY <2>1, <2>2
<1>6. \A i \in 1 .. N : L + i \in DOMAIN snap
  <2>1. ASSUME NEW i \in 1 .. N PROVE L + i \in run
    <3> HIDE DEF L, run
    <3> QED
      BY <1>2, <1>4, <1>5, InTurn
  <2> QED
    BY <2>1, Zenon
<1> HIDE DEF L, N
<1>7. r \in [1 .. N -> Fruits] /\ \A i \in 1 .. N : r[i].n = L + i
  BY <1>3, <1>6
<1>8. r \in Seq(Fruits) /\ Len(r) = N
  BY <1>4, <1>7
<1> QED
  BY <1>1, <1>7, <1>8, Zenon DEF L

-----------------------------------------------------------------------------
(* The maps of the pool.                                                   *)

\* The domain and the values of a pool.
LEMMA PoolFacts ==
  ASSUME NEW f, Pool(f)
  PROVE  /\ DOMAIN f \subseteq Numbers /\ DOMAIN f \subseteq Nat
         /\ \A n \in DOMAIN f : f[n] \in Fruits /\ f[n].n = n
  BY SnapFacts DEF Pool, Numbers

\* How a pool is put together.
LEMMA PoolMade ==
  ASSUME NEW D \in SUBSET Numbers, NEW f \in [D -> Fruits], \A n \in D : f[n].n = n
  PROVE  Pool(f)
<1>1. DOMAIN f = D /\ f \in Snaps
  BY DEF Snaps
<1> QED
  BY <1>1 DEF Pool

\* Adding a fruit under its number gives a pool.
LEMMA WithPool ==
  ASSUME NEW f, Pool(f), NEW fruit \in Fruits
  PROVE  Pool(With(f, fruit)) /\ DOMAIN With(f, fruit) = DOMAIN f \cup {fruit.n}
<1> DEFINE D == DOMAIN f \cup {fruit.n}
           g == [n \in D |-> IF n = fruit.n THEN fruit ELSE f[n]]
<1>1. D \in SUBSET Numbers
  BY PoolFacts DEF Fruits
<1>2. g \in [D -> Fruits] /\ \A n \in D : g[n].n = n
  BY PoolFacts
<1>3. With(f, fruit) = g
  BY DEF With
<1> HIDE DEF D, g
<1>4. Pool(g) /\ DOMAIN g = D
  BY <1>1, <1>2, PoolMade
<1> QED
  BY <1>3, <1>4 DEF D

\* Removing fruits gives a pool with the other ones.
LEMMA WithoutPool ==
  ASSUME NEW f, Pool(f), NEW S
  PROVE  /\ Pool(Without(f, S)) /\ DOMAIN Without(f, S) = DOMAIN f \ S
         /\ \A n \in DOMAIN f \ S : Without(f, S)[n] = f[n]
<1> DEFINE D == DOMAIN f \ S
           g == [n \in D |-> f[n]]
<1>1. D \in SUBSET Numbers
  BY PoolFacts
<1>2. g \in [D -> Fruits] /\ \A n \in D : g[n].n = n
  BY PoolFacts
<1>3. Without(f, S) = g /\ \A n \in D : g[n] = f[n]
  BY DEF Without
<1> HIDE DEF D, g
<1>4. Pool(g) /\ DOMAIN g = D
  BY <1>1, <1>2, PoolMade
<1> QED
  BY <1>3, <1>4 DEF D

\* insertRestFruits gives a pool in which the number of each returned fruit
\* holds a returned fruit.
LEMMA InsertPool ==
  ASSUME NEW f, Pool(f), NEW rest \in SUBSET Fruits
  PROVE  /\ Pool(insertRestFruits(f, rest))
         /\ DOMAIN insertRestFruits(f, rest) = DOMAIN f \cup {g.n : g \in rest}
         /\ \A r \in rest : insertRestFruits(f, rest)[r.n] \in rest
<1> DEFINE D == DOMAIN f \cup {g.n : g \in rest}
           from(n) == CHOOSE g \in rest : g.n = n
           h == [n \in D |-> IF \E g \in rest : g.n = n THEN from(n) ELSE f[n]]
<1>1. D \in SUBSET Numbers
  BY PoolFacts DEF Fruits
<1>2. \A n : (\E g \in rest : g.n = n) => from(n) \in rest /\ from(n).n = n
  OBVIOUS
<1>3. insertRestFruits(f, rest) = h
  BY DEF insertRestFruits
<1>4. \A r \in rest : r.n \in D
  OBVIOUS
<1>5. \A n \in D : (\E g \in rest : g.n = n) \/ n \in DOMAIN f
  OBVIOUS
<1> HIDE DEF D, from
<1>6. h \in [D -> Fruits] /\ \A n \in D : h[n].n = n
  BY <1>2, <1>5, PoolFacts
<1>7. \A r \in rest : h[r.n] \in rest
  BY <1>2, <1>4
<1> HIDE DEF h
<1>8. Pool(h) /\ DOMAIN h = D
  BY <1>1, <1>6, PoolMade
<1> QED
  BY <1>3, <1>7, <1>8 DEF D

\* The largest of a nonempty set of fast numbers is in it.
LEMMA MaxOfIn ==
  ASSUME NEW S \in SUBSET Numbers, S # {}
  PROVE  MaxOf(S) \in S
<1> DEFINE U == {u \in Nat : \A s \in S : s <= u}
<1>1. S \subseteq Nat /\ MaxFast \in U
  BY SnailAssumption DEF Numbers
<1>2. PICK u \in U : \A v \in U : ~(v < u)
  <2>1. IsWellFoundedOn(OpToRel(<, Nat), Nat)
    BY NatLessThanWellFounded, Zenon
  <2>2. U \subseteq Nat /\ U # {}
    BY <1>1
  <2> HIDE DEF U
  <2>3. \E w \in U : \A v \in U : <<v, w>> \notin OpToRel(<, Nat)
    BY <2>1, <2>2, WFMin, Zenon
  <2> QED
    BY <2>2, <2>3, Zenon DEF OpToRel
<1>3. u \in S
  <2> SUFFICES ASSUME u \notin S PROVE FALSE
    OBVIOUS
  <2>1. u \in Nat /\ \A s \in S : s < u
    BY <1>1
  <2>2. u - 1 \in Nat
    <3>1. PICK s \in S : TRUE
      OBVIOUS
    <3>2. s \in Nat /\ s < u
      BY <1>1, <2>1
    <3> QED
      BY <2>1, <3>2
  <2>3. \A s \in S : s <= u - 1
    BY <1>1, <2>1
  <2>4. u - 1 \in U /\ u - 1 < u
    BY <2>1, <2>2, <2>3
  <2> QED
    BY <1>2, <2>4
<1>4. \A s \in S : s <= u
  BY <1>2
<1> QED
  BY <1>3, <1>4, Zenon DEF MaxOf

\* loadFastBlocks lists fast numbers that exist.
LEMMA FastPoolType ==
  ASSUME chain \in Chains, fast \in Nat, fast <= MaxFast, fastPool \subseteq Numbers,
         NEW snap, Pool(snap)
  PROVE  fastBlockPool(snap) \subseteq Numbers
<1> DEFINE top == IF DOMAIN snap = {} THEN Last(chain) ELSE MaxOf(DOMAIN snap)
<1>1. top \in Nat
  <2>1. Last(chain) \in Nat
    BY TopType
  <2>2. CASE DOMAIN snap # {}
    BY <2>2, PoolFacts, MaxOfIn
  <2> QED
    BY <2>1, <2>2, Zenon
<1>2. top + 1 .. fast \subseteq Numbers
  <2> HIDE DEF top
  <2> QED
    BY <1>1, SnailAssumption DEF Numbers
<1>3. \A S : lowest(S, Targets) \subseteq S
  BY DEF lowest
<1> QED
  BY <1>2, <1>3 DEF fastBlockPool

-----------------------------------------------------------------------------
(* The inductive invariant.                                                *)

\* The types of the state.
Types ==
  /\ scope \in Scopes /\ fast \in 0 .. scope.fast /\ forks \in Nat
  /\ chain \in Chains /\ head \in Chains
  /\ Pool(all) /\ Pool(pending)
  /\ work \in Works /\ Pool(work.snap)
  /\ fruits \in Seq(Fruits)
  /\ picked \in Fruits \cup {NoFruit} /\ minedFruit \in Fruits \cup {NoFruit}
  /\ fastPool \subseteq Numbers

\* What the record keeps: later blocks record later fast numbers, and right
\* the next one if no work was mixed.
ChainInv ==
  /\ Rising(chain)
  /\ ~mixed => Continuous(chain)
  /\ Known(chain, known)
  /\ Aged(chain, forks)

\* At most one head waits for the loop, the canonical one; with none waiting
\* allFruits holds nothing recorded.
PoolInv ==
  /\ heads \in {<<>>, <<chain>>}
  /\ heads = <<>> => \A n \in DOMAIN all : n > Last(chain)

\* The fruits of a work are for a block after its parent.
Filled ==
  /\ Consecutive(work.fruits)
  /\ work.fruits[1].n > Last(work.parent) \/ Dead(work.parent, chain)
  /\ ~mixed => work.fruits[1].n = Last(work.parent) + 1

\* The parent of a work was canonical when it was read.
WorkInv ==
  /\ Len(work.parent) <= Len(chain)
  /\ Prefix(work.parent, chain) \/ Dead(work.parent, chain)
  /\ work.fruits # <<>> => Filled

\* The inductive invariant.
IInv == Types /\ ChainInv /\ PoolInv /\ WorkInv

\* The values at the start are typed.
LEMMA EmptyPool == Pool(<<>>) /\ Idle \in Works /\ <<>> \in Chains /\ <<>> \in Seq(Fruits)
<1>1. <<>> \in Snaps /\ DOMAIN <<>> = {}
  BY DEF Snaps
<1>2. Pool(<<>>)
  BY <1>1 DEF Pool
<1>3. <<>> \in Seq(Blocks) /\ <<>> \in Seq(Fruits) /\ <<0, 0>> \in Nat \X Nat
  OBVIOUS
<1>4. Idle \in Works
  BY <1>1, <1>3 DEF Idle, Works
<1> QED
  BY <1>2, <1>3, <1>4 DEF Chains

\* An idle worker satisfies what the invariant asks of a work.
LEMMA IdleWork ==
  ASSUME NEW c \in Chains
  PROVE  /\ Len(Idle.parent) <= Len(c) /\ Prefix(Idle.parent, c) /\ Idle.fruits = <<>>
         /\ Idle \in Works /\ Pool(Idle.snap)
<1>1. Idle.parent = <<>> /\ Idle.fruits = <<>> /\ Idle.snap = <<>>
  BY DEF Idle
<1>2. Len(Idle.parent) = 0 /\ DOMAIN Idle.parent = {} /\ Len(c) \in Nat
  BY <1>1, TopType
<1> QED
  BY <1>1, <1>2, EmptyPool DEF Prefix

\* The height of the fast chain is bounded.
LEMMA BoundFacts ==
  ASSUME Types
  PROVE  fast \in Nat /\ fast <= MaxFast /\ MaxFast \in Nat /\ scope.fast \in 1 .. MaxFast
<1>1. scope.fast \in 1 .. MaxFast /\ MaxFast \in Nat
  BY SnailAssumption DEF Types
<1> QED
  BY <1>1 DEF Types

\* A hash is a number and a fork.
LEMMA HashType ==
  ASSUME NEW c \in Chains, NEW k \in 0 .. Len(c)
  PROVE  Hash(c, k) \in Nat \X Nat
<1>1. k \in Nat /\ Len(c) \in Nat
  BY TopType
<1>2. CASE k = 0
  BY <1>2 DEF Hash
<1>3. CASE k # 0
  <2>1. c[k] \in Blocks
    BY <1>1, <1>3, TopType
  <2>2. c[k].fork \in Nat
    BY <2>1 DEF Blocks
  <2> QED
    BY <1>1, <1>3, <2>2 DEF Hash
<1> QED
  BY <1>2, <1>3

\* A pointer is such a hash.
LEMMA PointerType ==
  ASSUME NEW c \in Chains
  PROVE  Pointer(c) \in Nat \X Nat
<1>1. Len(c) \in Nat /\ PointerLag \in Nat
  BY TopType, SnailAssumption
<1>2. (IF Len(c) > PointerLag THEN Len(c) - PointerLag ELSE 0) \in 0 .. Len(c)
  BY <1>1
<1> QED
  BY <1>2, HashType DEF Pointer

\* The invariant holds at the start.
LEMMA InitInv == Init => IInv
<1> SUFFICES ASSUME Init PROVE IInv
  OBVIOUS
<1>1. /\ chain = <<>> /\ head = <<>> /\ all = <<>> /\ pending = <<>> /\ fruits = <<>>
      /\ heads = <<>> /\ known = {<<0, 0>>} /\ forks = 0 /\ fast = 0 /\ scope \in Scopes
      /\ picked = NoFruit /\ minedFruit = NoFruit /\ fastPool = {} /\ work = Idle
  BY DEF Init
<1>2. chain \in Chains /\ Len(chain) = 0 /\ DOMAIN chain = {}
  BY <1>1, EmptyPool
<1>3. Types
  <2>1. fast \in 0 .. scope.fast
    <3>1. scope.fast \in 1 .. MaxFast /\ MaxFast \in Nat
      BY <1>1, SnailAssumption
    <3> QED
      BY <1>1, <3>1
  <2> QED
    BY <1>1, <1>2, <2>1, EmptyPool, IdleWork DEF Types
<1>4. ChainInv
  <2>1. Known(chain, known)
    BY <1>1, <1>2 DEF Known, Hash
  <2> QED
    BY <1>1, <1>2, <2>1 DEF ChainInv, Rising, Continuous, Aged
<1>5. PoolInv
  BY <1>1 DEF PoolInv
<1> QED
  BY <1>1, <1>2, <1>3, <1>4, <1>5, IdleWork DEF IInv, WorkInv

\* A step of the pool keeps the invariant when the pools stay typed and a
\* settled allFruits holds nothing that is recorded.
LEMMA PoolKeeps ==
  ASSUME IInv, UNCHANGED <<fast, chain, known, forks, scope, work, minedFruit, fastPool, mixed>>,
         Pool(all'), Pool(pending'), heads' \in {<<>>, <<chain>>},
         heads' = <<>> => \A n \in DOMAIN all' : n > Last(chain),
         fruits' \in Seq(Fruits), picked' \in Fruits \cup {NoFruit}, head' \in Chains
  PROVE  IInv'
<1>1. Types'
  BY DEF IInv, Types
<1>2. ChainInv'
  BY DEF IInv, ChainInv
<1>3. PoolInv'
  BY DEF PoolInv
<1>4. WorkInv'
  BY DEF IInv, WorkInv, Filled
<1> QED
  BY <1>1, <1>2, <1>3, <1>4 DEF IInv

\* A block on the head, or one of a new fork in place of the head, keeps what
\* the invariant says of the chain and notifies the pool.
LEMMA Extended ==
  ASSUME IInv, NEW k \in 0 .. Len(chain), NEW b \in Blocks, Consecutive(b.fruits),
         b.fruits[1].n > Top(chain, k), ~mixed => b.fruits[1].n = Top(chain, k) + 1,
         NewHead(Append(SubSeq(chain, 1, k), b)), mixed' = mixed,
         \/ k = Len(chain) /\ b.fork = forks /\ forks' = forks
         \/ k = Len(chain) - 1 /\ b.fork = forks + 1 /\ forks' = forks + 1
  PROVE  /\ chain' \in Chains /\ forks' \in Nat /\ ChainInv' /\ PoolInv'
         /\ Len(chain) <= Len(chain')
         /\ \A p \in Chains :
              /\ Dead(p, chain) => Dead(p, chain')
              /\ Prefix(p, chain) => Prefix(p, chain') \/ Dead(p, chain')
<1> DEFINE d == Append(SubSeq(chain, 1, k), b)
<1>1. chain \in Chains /\ forks \in Nat /\ ChainInv
  BY DEF IInv, Types
<1>2. Grows(chain, k, b, d)
  BY <1>1, GrowsForm
<1>3. /\ chain' = d /\ known' = known \cup {Hash(d, Len(d))} /\ heads' = Append(heads, d)
      /\ heads = <<>>
  BY DEF NewHead
<1> HIDE DEF d
<1>4. d \in Chains /\ Len(d) = k + 1 /\ k \in Nat /\ Len(chain) \in Nat
  BY <1>1, <1>2, TopType DEF Grows
<1>5. Rising(d) /\ (~mixed => Continuous(d)) /\ Known(d, known')
  BY <1>1, <1>2, <1>3, RisingGrows, ContinuousGrows, KnownGrows DEF ChainInv
<1>6. forks' \in Nat /\ forks <= forks' /\ b.fork <= forks'
  BY <1>1
<1>7. Aged(d, forks')
  BY <1>1, <1>2, <1>6, AgedGrows DEF ChainInv
<1>8. ASSUME NEW p \in Chains
      PROVE  /\ Dead(p, chain) => Dead(p, chain')
             /\ Prefix(p, chain) => Prefix(p, chain') \/ Dead(p, chain')
  BY <1>1, <1>2, <1>3, ParentGrows DEF ChainInv
<1>9. Len(chain) <= Len(chain')
  BY <1>3, <1>4
<1>10. ChainInv'
  BY <1>3, <1>5, <1>7 DEF ChainInv
<1>11. PoolInv'
  <2>1. heads' = <<chain'>> /\ heads' # <<>>
    BY <1>3
  <2> QED
    BY <2>1 DEF PoolInv
<1> QED
  BY <1>3, <1>4, <1>6, <1>8, <1>9, <1>10, <1>11

-----------------------------------------------------------------------------
(* The steps.                                                              *)

\* The fast chain grows.
LEMMA FastGrowsKeeps == IInv /\ FastGrows => IInv'
<1> SUFFICES ASSUME IInv, FastGrows PROVE IInv'
  OBVIOUS
<1>1. /\ fast < scope.fast /\ fast' = fast + 1
      /\ UNCHANGED <<chain, known, forks, scope, all, pending, heads, fruits, head, picked>>
      /\ UNCHANGED <<work, minedFruit, fastPool, mixed>>
  BY DEF FastGrows, workVars
<1>2. fast' \in 0 .. scope.fast
  <2>1. scope.fast \in Nat /\ fast \in Nat
    BY BoundFacts DEF IInv
  <2> QED
    BY <1>1, <2>1
<1>3. Types'
  BY <1>1, <1>2 DEF IInv, Types
<1>4. ChainInv' /\ PoolInv' /\ WorkInv'
  BY <1>1 DEF IInv, ChainInv, PoolInv, WorkInv, Filled
<1> QED
  BY <1>3, <1>4 DEF IInv

\* A new head keeps what the invariant says of the work in progress.
LEMMA ParentKept ==
  ASSUME IInv, chain' \in Chains, Len(chain) <= Len(chain'), UNCHANGED <<work, mixed>>,
         \A p \in Chains :
              /\ Dead(p, chain) => Dead(p, chain')
              /\ Prefix(p, chain) => Prefix(p, chain') \/ Dead(p, chain')
  PROVE  WorkInv'
<1>1. work.parent \in Chains /\ chain \in Chains
  BY DEF IInv, Types, Works, Chains
<1>2. Len(work.parent) \in Nat /\ Len(chain) \in Nat /\ Len(chain') \in Nat
  BY <1>1, TopType
<1>3. Len(work'.parent) <= Len(chain')
  BY <1>2 DEF IInv, WorkInv
<1>4. Prefix(work'.parent, chain') \/ Dead(work'.parent, chain')
  BY <1>1 DEF IInv, WorkInv
<1>5. work'.fruits # <<>> => Filled'
  BY <1>1 DEF IInv, WorkInv, Filled
<1> QED
  BY <1>3, <1>4, <1>5 DEF WorkInv

\* A block of another miner on block k of the chain (InsertChain).
LEMMA RemoteKeeps ==
  ASSUME IInv, NEW k \in 0 .. Len(chain), NEW fork \in Nat, NEW count \in Nat,
         RemoteBlock(k, fork, count),
         \/ k = Len(chain) /\ fork = forks /\ forks' = forks
         \/ k = Len(chain) - 1 /\ fork = forks + 1 /\ forks' = forks + 1,
         UNCHANGED <<fast, scope, all, pending, fruits, head, picked>>,
         UNCHANGED <<work, minedFruit, fastPool, mixed>>
  PROVE  IInv'
<1> DEFINE parent == SubSeq(chain, 1, k)
           fs == [i \in 1 .. count |-> [n |-> Last(parent) + i, at |-> Pointer(parent)]]
           b == [fork |-> fork, fruits |-> fs]
<1>1. /\ Last(parent) + count <= fast /\ count \in MinFruits .. MaxFruits
      /\ NewHead(Append(parent, b))
  BY DEF RemoteBlock
<1>2. parent \in Chains /\ Len(parent) = k /\ \A j \in 1 .. k : parent[j] = chain[j]
  BY Cut DEF IInv, Types
<1> HIDE DEF parent
<1>3. Last(parent) = Top(chain, k) /\ Last(parent) \in Nat
  BY <1>2, TopType DEF Top
<1>4. count >= 1 /\ fast <= MaxFast /\ fast \in Nat
  BY <1>1, SnailAssumption, BoundFacts DEF IInv
<1>5. Pointer(parent) \in Nat \X Nat
  BY <1>2, PointerType
<1>6. fs \in [1 .. count -> Fruits]
  <2> SUFFICES ASSUME NEW i \in 1 .. count
               PROVE  [n |-> Last(parent) + i, at |-> Pointer(parent)] \in Fruits
    OBVIOUS
  <2>1. Last(parent) + i \in Numbers
    BY <1>1, <1>3, <1>4, SnailAssumption DEF Numbers
  <2> QED
    BY <1>5, <2>1 DEF Fruits
<1>7. fs \in Seq(Fruits) /\ Len(fs) = count /\ DOMAIN fs = 1 .. count
  BY <1>6
<1>8. fs # <<>>
  BY <1>4, <1>7
<1>9. \A i \in 1 .. count : fs[i].n = Last(parent) + i
  OBVIOUS
<1>10. fs[1].n = Last(parent) + 1
  BY <1>4, <1>9
<1> HIDE DEF fs
<1>11. Consecutive(fs)
  BY <1>3, <1>7, <1>9, <1>10 DEF Consecutive
<1>12. b \in Blocks /\ b.fruits = fs /\ b.fork = fork
  BY <1>7, <1>8 DEF Blocks
<1> HIDE DEF b
<1>13. b.fruits[1].n > Top(chain, k) /\ b.fruits[1].n = Top(chain, k) + 1
  BY <1>3, <1>10, <1>12
<1>14. /\ chain' \in Chains /\ forks' \in Nat /\ ChainInv' /\ PoolInv'
       /\ Len(chain) <= Len(chain')
       /\ \A p \in Chains :
            /\ Dead(p, chain) => Dead(p, chain')
            /\ Prefix(p, chain) => Prefix(p, chain') \/ Dead(p, chain')
  BY <1>1, <1>11, <1>12, <1>13, Extended DEF parent
<1>15. WorkInv'
  BY <1>14, ParentKept
<1>16. Types'
  BY <1>14 DEF IInv, Types
<1> QED
  BY <1>14, <1>15, <1>16 DEF IInv

\* InsertChain keeps the invariant, on the head and on a fork.
LEMMA InsertKeeps == IInv /\ InsertChain => IInv'
<1> SUFFICES ASSUME IInv, InsertChain PROVE IInv'
  OBVIOUS
<1>1. /\ UNCHANGED <<fast, scope, all, pending, fruits, head, picked>>
      /\ UNCHANGED <<work, minedFruit, fastPool, mixed>>
  BY DEF InsertChain, workVars
<1>2. chain \in Chains /\ forks \in Nat /\ Len(chain) \in Nat
  BY TopType DEF IInv, Types
<1>3. PICK count \in MinFruits .. MaxFruits :
        \/ Len(chain) < MaxSnail /\ RemoteBlock(Len(chain), forks, count) /\ UNCHANGED forks
        \/ /\ forks < scope.forks /\ chain # <<>>
           /\ forks' = forks + 1
           /\ RemoteBlock(Len(chain) - 1, forks + 1, count)
  BY DEF InsertChain
<1>4. count \in Nat
  BY SnailAssumption
<1>5. CASE RemoteBlock(Len(chain), forks, count) /\ UNCHANGED forks
  <2>1. Len(chain) \in 0 .. Len(chain)
    BY <1>2
  <2> QED
    BY <1>1, <1>2, <1>4, <1>5, <2>1, RemoteKeeps
<1>6. CASE chain # <<>> /\ forks' = forks + 1 /\ RemoteBlock(Len(chain) - 1, forks + 1, count)
  <2>1. Len(chain) # 0
    BY <1>2, <1>6, SeqEmpty DEF Chains
  <2>2. Len(chain) - 1 \in 0 .. Len(chain) /\ forks + 1 \in Nat
    BY <1>2, <2>1
  <2> QED
    BY <1>1, <1>4, <1>6, <2>2, RemoteKeeps
<1> QED
  BY <1>3, <1>5, <1>6

\* The worker's own block, on the head or as a new fork on the head's parent:
\* that parent is on the chain and so not dead, and the fruits come after it.
LEMMA MinedBlockKeeps == IInv /\ MinedBlock => IInv'
<1> SUFFICES ASSUME IInv, MinedBlock PROVE IInv'
  OBVIOUS
<1>1. /\ work.pc = "mining" /\ work.fruits # <<>> /\ work' = Idle
      /\ UNCHANGED <<fast, scope, all, pending, fruits, head, picked>>
      /\ UNCHANGED <<minedFruit, fastPool, mixed>>
  BY DEF MinedBlock
<1>2. chain \in Chains /\ forks \in Nat /\ Len(chain) \in Nat /\ DOMAIN chain = 1 .. Len(chain)
      /\ work.parent \in Chains
  BY TopType DEF IInv, Types, Works, Chains
<1>3. Filled
  BY <1>1 DEF IInv, WorkInv
<1>4. ASSUME NEW k \in 0 .. Len(chain), NEW fork \in Nat, work.parent = SubSeq(chain, 1, k),
             NewHead(Append(work.parent, [fork |-> fork, fruits |-> work.fruits])),
             \/ k = Len(chain) /\ fork = forks /\ forks' = forks
             \/ k = Len(chain) - 1 /\ fork = forks + 1 /\ forks' = forks + 1
      PROVE  IInv'
  <2> DEFINE b == [fork |-> fork, fruits |-> work.fruits]
  <2>1. b \in Blocks /\ b.fruits = work.fruits /\ b.fork = fork
    BY <1>1 DEF IInv, Types, Works, Blocks
  <2> HIDE DEF b
  <2>2. Len(work.parent) = k /\ (\A j \in 1 .. k : work.parent[j] = chain[j]) /\ k \in Nat
    <3>1. /\ Len(SubSeq(chain, 1, k)) = k
          /\ \A j \in 1 .. k : SubSeq(chain, 1, k)[j] = chain[j]
      BY <1>2, Cut
    <3>2. work.parent = SubSeq(chain, 1, k)
      BY <1>4
    <3>3. k \in Nat
      BY <1>2
    <3> QED
      BY <3>1, <3>2, <3>3, Zenon
  <2>3. Prefix(work.parent, chain)
    BY <1>2, <2>2, TopType DEF Prefix
  <2>4. ~Dead(work.parent, chain)
    BY <1>2, <2>3, PrefixLast DEF IInv, ChainInv
  <2>5. Last(work.parent) = Top(chain, k)
    BY <1>2, <2>2, TopType DEF Top
  <2>6. /\ Consecutive(b.fruits) /\ b.fruits[1].n > Top(chain, k)
        /\ ~mixed => b.fruits[1].n = Top(chain, k) + 1
    BY <1>3, <2>1, <2>4, <2>5 DEF Filled
  <2>7. NewHead(Append(SubSeq(chain, 1, k), b))
    BY <1>4 DEF b
  <2>8. chain' \in Chains /\ forks' \in Nat /\ ChainInv' /\ PoolInv'
    BY <1>1, <1>4, <2>1, <2>6, <2>7, Extended
  <2>9. WorkInv' /\ work' \in Works /\ Pool(work'.snap)
    BY <1>1, <2>8, IdleWork DEF WorkInv
  <2>10. Types'
    BY <1>1, <2>8, <2>9 DEF IInv, Types
  <2> QED
    BY <2>8, <2>9, <2>10 DEF IInv
<1>5. CASE /\ work.parent = chain /\ UNCHANGED forks
           /\ NewHead(Append(chain, [fork |-> forks, fruits |-> work.fruits]))
  <2>1. SubSeq(chain, 1, Len(chain)) = chain /\ Len(chain) \in 0 .. Len(chain)
    BY <1>2, SeqWhole DEF Chains
  <2> QED
    BY <1>2, <1>4, <1>5, <2>1, Zenon
<1>6. CASE /\ work.parent # chain /\ work.parent = SubSeq(chain, 1, Len(chain) - 1)
           /\ forks' = forks + 1
           /\ NewHead(Append(work.parent, [fork |-> forks + 1, fruits |-> work.fruits]))
  <2>1. Len(chain) # 0
    <3> SUFFICES ASSUME Len(chain) = 0 PROVE FALSE
      OBVIOUS
    <3>1. chain = <<>> /\ SubSeq(chain, 1, Len(chain) - 1) = <<>>
      BY <1>2, SeqNone, SeqEmpty DEF Chains
    <3> QED
      BY <1>6, <3>1
  <2>2. Len(chain) - 1 \in 0 .. Len(chain) /\ forks + 1 \in Nat
    BY <1>2, <2>1
  <2> QED
    BY <1>4, <1>6, <2>2
<1>7. CASE UNCHANGED <<chain, known, heads, forks>>
  <2>1. WorkInv' /\ work' \in Works /\ Pool(work'.snap)
    BY <1>1, <1>2, <1>7, IdleWork DEF WorkInv
  <2>2. Types'
    BY <1>1, <1>7, <2>1 DEF IInv, Types
  <2>3. ChainInv' /\ PoolInv'
    BY <1>1, <1>7 DEF IInv, ChainInv, PoolInv
  <2> QED
    BY <2>1, <2>2, <2>3 DEF IInv
<1> QED
  BY <1>5, <1>6, <1>7 DEF MinedBlock

\* A fruit added to newFruitCh.
LEMMA AppendFruits ==
  ASSUME NEW fs \in Seq(Fruits), NEW f \in Fruits
  PROVE  Append(fs, f) \in Seq(Fruits)
  BY SeqAppend

\* AddRemoteFruits.
LEMMA RemoteFruitKeeps == IInv /\ RemoteFruit => IInv'
<1> SUFFICES ASSUME IInv, RemoteFruit PROVE IInv'
  OBVIOUS
<1>1. /\ UNCHANGED <<fast, chain, known, forks, scope, all, pending, heads, head, picked>>
      /\ UNCHANGED <<work, minedFruit, fastPool, mixed>>
  BY DEF RemoteFruit, workVars
<1>2. PICK n \in 1 .. scope.fast, at \in {Pointer(chain), <<Len(chain) + 1, forks>>} :
        AddRemoteFruits([n |-> n, at |-> at])
  BY DEF RemoteFruit
<1>3. [n |-> n, at |-> at] \in Fruits
  <2>1. n \in Numbers
    BY BoundFacts DEF IInv, Numbers
  <2>2. at \in Nat \X Nat
    BY PointerType, TopType DEF IInv, Types
  <2> QED
    BY <2>1, <2>2 DEF Fruits
<1>4. fruits' \in Seq(Fruits)
  BY <1>2, <1>3, AppendFruits DEF AddRemoteFruits, IInv, Types
<1> QED
  BY <1>1, <1>4, PoolKeeps DEF IInv, Types, PoolInv

\* addFruit and appendFruit keep both pools typed and add no recorded fruit.
LEMMA AddFruitKeeps ==
  ASSUME IInv, NEW fruit \in Fruits, addFruit(fruit)
  PROVE  /\ Pool(all') /\ Pool(pending')
         /\ \A n \in DOMAIN all' : n \in DOMAIN all \/ n > Last(chain)
<1>1. Pool(all) /\ Pool(pending) /\ Last(chain) \in Nat /\ fruit.n \in Nat
  BY TopType DEF IInv, Types, Fruits, Numbers
<1>2. CASE refused
  BY <1>1, <1>2 DEF refused
<1>3. ASSUME Last(chain) < fruit.n, NEW ready \in BOOLEAN, appendFruit(fruit, ready)
      PROVE  /\ Pool(all') /\ Pool(pending')
             /\ \A n \in DOMAIN all' : n \in DOMAIN all \/ n > Last(chain)
  <2>1. CASE UNCHANGED <<all, pending>>
    BY <1>1, <2>1
  <2>2. CASE all' = With(all, fruit) /\ (pending' = With(pending, fruit) \/ pending' = pending)
    BY <1>1, <1>3, <2>2, WithPool, Zenon
  <2> QED
    BY <1>3, <2>1, <2>2 DEF appendFruit
<1>4. refused \/ (Last(chain) < fruit.n /\ \E ready \in BOOLEAN : appendFruit(fruit, ready))
  <2>1. CASE Last(chain) >= fruit.n
    BY <2>1, Zenon DEF addFruit
  <2>2. CASE ~(Last(chain) >= fruit.n)
    <3>1. Last(chain) < fruit.n
      BY <1>1, <2>2
    <3>2. refused \/ appendFruit(fruit, FALSE) \/ appendFruit(fruit, TRUE)
      BY <2>2, Zenon DEF addFruit
    <3> QED
      BY <3>1, <3>2, Zenon
  <2> QED
    BY <2>1, <2>2
<1> QED
  BY <1>2, <1>3, <1>4

\* The loop's case of newFruitCh.
LEMMA LoopFruitKeeps == IInv /\ LoopFruit => IInv'
<1> SUFFICES ASSUME IInv, LoopFruit PROVE IInv'
  OBVIOUS
<1>1. /\ fruits # <<>> /\ addFruit(Head(fruits)) /\ fruits' = Tail(fruits)
      /\ UNCHANGED <<fast, chain, known, forks, scope, heads, head, picked>>
      /\ UNCHANGED <<work, minedFruit, fastPool, mixed>>
  BY DEF LoopFruit, workVars
<1>2. Head(fruits) \in Fruits /\ fruits' \in Seq(Fruits)
  BY <1>1, SeqTail DEF IInv, Types
<1>3. /\ Pool(all') /\ Pool(pending')
      /\ \A n \in DOMAIN all' : n \in DOMAIN all \/ n > Last(chain)
  BY <1>1, <1>2, AddFruitKeeps
<1> QED
  BY <1>1, <1>2, <1>3, PoolKeeps DEF IInv, Types, PoolInv

\* The loop's case of fastchainEventCh.
LEMMA LoopFastKeeps == IInv /\ LoopFast => IInv'
<1> SUFFICES ASSUME IInv, LoopFast PROVE IInv'
  OBVIOUS
<1>1. /\ picked' = IF Head(fasts) \in DOMAIN all THEN all[Head(fasts)] ELSE NoFruit
      /\ UNCHANGED <<fast, chain, known, forks, scope, all, pending, heads, fruits, head>>
      /\ UNCHANGED <<work, minedFruit, fastPool, mixed>>
  BY DEF LoopFast, workVars
<1>2. picked' \in Fruits \cup {NoFruit}
  BY <1>1, PoolFacts DEF IInv, Types
<1> QED
  BY <1>1, <1>2, PoolKeeps DEF IInv, Types, PoolInv

\* updateFruit, with the fruit that was read before.
LEMMA UpdateFruitKeeps == IInv /\ updateFruit => IInv'
<1> SUFFICES ASSUME IInv, updateFruit PROVE IInv'
  OBVIOUS
<1>1. /\ picked # NoFruit /\ picked' = NoFruit
      /\ UNCHANGED <<fast, chain, known, forks, scope, heads, fruits, head>>
      /\ UNCHANGED <<work, minedFruit, fastPool, mixed>>
  BY DEF updateFruit, workVars
<1>2. picked \in Fruits /\ Pool(all) /\ Pool(pending)
  BY <1>1 DEF IInv, Types
<1>3. Pool(all') /\ Pool(pending') /\ DOMAIN all' \subseteq DOMAIN all
  <2>1. CASE pending' = With(pending, picked) /\ all' = all
    BY <1>2, <2>1, WithPool, Zenon
  <2>2. CASE all' = Without(all, {picked.n}) /\ pending' = Without(pending, {picked.n})
    <3>1. \A S : Pool(Without(all, S)) /\ DOMAIN Without(all, S) = DOMAIN all \ S
      BY <1>2, WithoutPool, Zenon
    <3>2. \A S : Pool(Without(pending, S))
      BY <1>2, WithoutPool, Zenon
    <3>3. DOMAIN all' = DOMAIN all \ {picked.n}
      BY <2>2, <3>1, Zenon
    <3> QED
      BY <2>2, <3>1, <3>2, <3>3
  <2> QED
    BY <2>1, <2>2 DEF updateFruit
<1> QED
  BY <1>1, <1>3, PoolKeeps, Zenon DEF IInv, Types, PoolInv

\* The fruits of the blocks of a chain are fruits.
LEMMA FruitsOfType ==
  ASSUME NEW c \in Chains, NEW d
  PROVE  fruitsOf(c, d) \subseteq Fruits
<1> SUFFICES ASSUME NEW k \in DOMAIN c, NEW i \in DOMAIN c[k].fruits PROVE c[k].fruits[i] \in Fruits
  BY DEF fruitsOf
<1>1. k \in 1 .. Len(c) /\ c[k].fruits \in Seq(Fruits)
  BY TopType
<1> QED
  BY <1>1

\* What reset does to the pools.
ResetTo(new, rest, gone) ==
  /\ all' = Without(insertRestFruits(all, rest), gone)
  /\ pending' = Without(insertRestFruits(pending, rest), gone)

\* reset applies to the one head that waits, which is the canonical chain.
LEMMA LoopHeadForm ==
  ASSUME IInv, LoopHead
  PROVE  LET rest == restFruits(head, chain)
             full == insertRestFruits(all, rest)
             left == Without(full, included(full, chain))
         IN  /\ ResetTo(chain, rest, included(full, chain) \cup unfresh(left))
             /\ head' = chain /\ heads' = <<>>
             /\ UNCHANGED <<fast, chain, known, forks, scope, fruits, picked>>
             /\ UNCHANGED <<work, minedFruit, fastPool, mixed>>
<1>1. heads = <<chain>>
  BY DEF LoopHead, IInv, PoolInv
<1>2. Head(heads) = chain /\ Tail(heads) = <<>>
  BY <1>1
<1> QED
  BY <1>2, Zenon DEF LoopHead, workVars, ResetTo

\* reset keeps the invariant, and leaves nothing recorded in allFruits.
LEMMA LoopHeadKeeps == IInv /\ LoopHead => IInv'
<1> SUFFICES ASSUME IInv, LoopHead PROVE IInv'
  OBVIOUS
<1> DEFINE rest == restFruits(head, chain)
           full == insertRestFruits(all, rest)
           left == Without(full, included(full, chain))
           gone == included(full, chain) \cup unfresh(left)
<1>1. /\ ResetTo(chain, rest, gone) /\ head' = chain /\ heads' = <<>>
      /\ UNCHANGED <<fast, chain, known, forks, scope, fruits, picked>>
      /\ UNCHANGED <<work, minedFruit, fastPool, mixed>>
  BY LoopHeadForm
<1>2. rest \subseteq Fruits /\ chain \in Chains
  BY FruitsOfType DEF restFruits, fruitsDifference, IInv, Types
<1>3. included(full, chain) \subseteq gone
  OBVIOUS
<1> HIDE DEF rest, full, gone
<1>4. Pool(full) /\ Pool(insertRestFruits(pending, rest))
  BY <1>2, InsertPool, Zenon DEF IInv, Types, full
<1>5. Pool(all') /\ Pool(pending') /\ DOMAIN all' = DOMAIN full \ gone
  BY <1>1, <1>4, WithoutPool, Zenon DEF ResetTo, full
<1>6. ASSUME NEW n \in DOMAIN all' PROVE n > Last(chain)
  <2>1. n \in DOMAIN full /\ n \notin included(full, chain) /\ n \in Nat
    BY <1>3, <1>4, <1>5, PoolFacts
  <2>2. ~(n <= Last(chain)) /\ Last(chain) \in Nat
    BY <1>2, <2>1, TopType DEF included
  <2> QED
    BY <2>1, <2>2
<1> QED
  BY <1>1, <1>2, <1>5, <1>6, PoolKeeps, Zenon DEF IInv, Types

\* A step of the worker keeps the invariant when its work does.
LEMMA WorkKeeps ==
  ASSUME IInv, UNCHANGED <<fast, chain, known, forks, scope, heads, head, picked>>,
         Pool(all'), Pool(pending'), DOMAIN all' \subseteq DOMAIN all,
         fruits' \in Seq(Fruits), minedFruit' \in Fruits \cup {NoFruit}, fastPool' \subseteq Numbers,
         ~mixed' => ~mixed, work' \in Works, Pool(work'.snap), WorkInv'
  PROVE  IInv'
<1>1. Types'
  BY DEF IInv, Types
<1>2. ChainInv'
  BY DEF IInv, ChainInv
<1>3. PoolInv'
  BY DEF IInv, PoolInv
<1> QED
  BY <1>1, <1>2, <1>3 DEF IInv

\* commitNewWork begins on the canonical chain.
LEMMA WorkBeginKeeps == IInv /\ WorkBegin => IInv'
<1> SUFFICES ASSUME IInv, WorkBegin PROVE IInv'
  OBVIOUS
<1> DEFINE later == Without(pending, 1 .. Last(chain))
           snap == IF minedFruit.n > Last(chain) /\ minedFruit.n \notin DOMAIN pending
                   THEN With(later, minedFruit) ELSE later
<1>1. /\ work' = [Idle EXCEPT !.pc = "begun", !.parent = chain, !.snap = snap]
      /\ UNCHANGED <<fast, chain, known, forks, scope, heads, head, picked>>
      /\ UNCHANGED <<all, pending, fruits, minedFruit, fastPool, mixed>>
  BY DEF WorkBegin, poolVars
<1>2. chain \in Chains /\ Last(chain) \in Nat
  BY TopType DEF IInv, Types
<1>3. Pool(snap)
  <2>1. Pool(later)
    BY WithoutPool, Zenon DEF IInv, Types
  <2>2. CASE minedFruit.n > Last(chain)
    <3>1. minedFruit # NoFruit
      BY <1>2, <2>2 DEF NoFruit
    <3>2. minedFruit \in Fruits
      BY <3>1 DEF IInv, Types
    <3> HIDE DEF later
    <3> QED
      BY <2>1, <3>2, WithPool, Zenon
  <2> HIDE DEF later
  <2> QED
    BY <2>1, <2>2
<1> HIDE DEF snap
<1>4. work' = [pc |-> "begun", parent |-> chain, snap |-> snap, target |-> 0,
               fruits |-> <<>>, at |-> <<0, 0>>]
  BY <1>1, Zenon DEF Idle
<1>5. work' \in Works
  <2>1. <<>> \in Seq(Fruits) /\ <<0, 0>> \in Nat \X Nat /\ chain \in Seq(Blocks)
        /\ snap \in Snaps
    BY <1>2, <1>3 DEF Chains, Pool
  <2> QED
    BY <1>4, <2>1 DEF Works
<1>6. work'.snap = snap /\ work'.parent = chain /\ work'.fruits = <<>>
  BY <1>4
<1>7. WorkInv'
  <2>1. Prefix(chain, chain) /\ Len(chain) <= Len(chain)
    BY <1>2, TopType DEF Prefix
  <2> QED
    BY <1>1, <1>6, <2>1 DEF WorkInv
<1> QED
  BY <1>1, <1>3, <1>5, <1>6, <1>7, WorkKeeps DEF IInv, Types

\* A fruit is mined.
LEMMA MinedFruitKeeps == IInv /\ MinedFruit => IInv'
<1> SUFFICES ASSUME IInv, MinedFruit PROVE IInv'
  OBVIOUS
<1> DEFINE fruit == [n |-> work.target, at |-> work.at]
<1>1. /\ work.target # 0
      /\ \/ UNCHANGED <<minedFruit, fruits>>
         \/ minedFruit' = fruit /\ AddRemoteFruits(fruit)
      /\ work' = Idle \/ work' = [work EXCEPT !.target = 0]
      /\ UNCHANGED <<fast, chain, known, forks, scope, all, pending, heads, head, picked>>
      /\ UNCHANGED <<fastPool, mixed>>
  BY DEF MinedFruit
<1>2. work \in Works /\ Pool(work.snap) /\ chain \in Chains
  BY DEF IInv, Types
<1>3. fruit \in Fruits
  BY <1>1, <1>2 DEF Fruits, Works
<1> HIDE DEF fruit
<1>4. minedFruit' \in Fruits \cup {NoFruit} /\ fruits' \in Seq(Fruits)
  BY <1>1, <1>3, AppendFruits, Zenon DEF AddRemoteFruits, IInv, Types
<1>5. work' \in Works /\ Pool(work'.snap) /\ WorkInv'
  <2>1. CASE work' = Idle
    BY <1>1, <1>2, <2>1, IdleWork DEF WorkInv
  <2>2. CASE work' = [work EXCEPT !.target = 0]
    <3>1. /\ work' \in Works /\ work'.snap = work.snap /\ work'.parent = work.parent
          /\ work'.fruits = work.fruits
      BY <1>2, <2>2, Zenon DEF Works
    <3> QED
      BY <1>1, <1>2, <3>1 DEF IInv, WorkInv, Filled
  <2> QED
    BY <1>1, <2>1, <2>2
<1> QED
  BY <1>1, <1>4, <1>5, WorkKeeps DEF IInv, Types

\* The first fruits of a run that has no gap have none.
LEMMA CutRun ==
  ASSUME NEW run \in Seq(Fruits), NEW L \in Nat, \A i \in 1 .. Len(run) : run[i].n = L + i,
         NEW m \in 0 .. Len(run)
  PROVE  /\ SubSeq(run, 1, m) \in Seq(Fruits)
         /\ SubSeq(run, 1, m) # <<>> => /\ Consecutive(SubSeq(run, 1, m))
                                        /\ SubSeq(run, 1, m)[1].n = L + 1
<1> DEFINE s == SubSeq(run, 1, m)
<1>1. Len(run) \in Nat /\ m \in Nat
  OBVIOUS
<1>2. s \in Seq(Fruits) /\ Len(s) = m /\ \A i \in 1 .. m : s[i] = run[i]
  BY <1>1
<1> HIDE DEF s
<1>3. \A i \in 1 .. m : s[i].n = L + i
  BY <1>1, <1>2
<1>4. ASSUME s # <<>> PROVE Consecutive(s) /\ s[1].n = L + 1
  <2>1. m # 0 /\ DOMAIN s = 1 .. m
    BY <1>2, <1>4, SeqEmpty
  <2>2. s[1].n = L + 1
    BY <1>1, <1>3, <2>1
  <2> QED
    BY <1>1, <1>3, <2>1, <2>2 DEF Consecutive
<1> QED
  BY <1>2, <1>4, Zenon DEF s

\* CommitFruits: the fruits continue the record of the chain at this time,
\* which is the parent's unless the work is mixed, and in any case later than
\* the parent's unless the parent is dead.
LEMMA WorkCommitKeeps ==
  ASSUME IInv, NEW take \in BOOLEAN, WorkCommit(take)
  PROVE  IInv'
<1> DEFINE number == Len(work.parent) + 1
           run    == continued(work.snap, number)
           next   == Last(chain) + Len(run) + 1
           bad    == next \in DOMAIN work.snap /\ Cardinality(DOMAIN work.snap) >= MinFruits
           pool   == fastBlockPool(work.snap)
           enough == Len(run) >= MaxFruits \/ (take /\ Len(run) >= MinFruits)
           m      == IF Len(run) > MaxFruits THEN MaxFruits ELSE Len(run)
           filled == IF enough THEN SubSeq(run, 1, m) ELSE <<>>
           at     == Pointer(SubSeq(chain, 1, Len(work.parent)))
<1>1. /\ fastPool' = IF fast <= Last(chain) THEN fastPool ELSE pool
      /\ all' = IF bad THEN Without(all, {next}) ELSE all
      /\ pending' = IF bad THEN Without(pending, {next}) ELSE pending
      /\ mixed' = (mixed \/ work.parent # chain)
      /\ \E target \in IF pool = {} THEN {0} ELSE pool :
           work' = IF target = 0 /\ filled = <<>> THEN Idle
                   ELSE [work EXCEPT !.pc = "mining", !.target = target, !.fruits = filled,
                                     !.snap = <<>>, !.at = at]
      /\ UNCHANGED <<fast, chain, known, forks, scope, heads, head, picked>>
      /\ UNCHANGED <<fruits, minedFruit>>
  BY Zenon DEF WorkCommit
<1>2. /\ chain \in Chains /\ work \in Works /\ Pool(work.snap) /\ Pool(all) /\ Pool(pending)
      /\ work.parent \in Chains /\ Last(chain) \in Nat /\ Last(work.parent) \in Nat
      /\ fastPool \subseteq Numbers
  BY TopType DEF IInv, Types, Works, Chains
<1>3. run \in Seq(Fruits) /\ \A i \in 1 .. Len(run) : run[i].n = Last(chain) + i
  BY <1>2, ContinuedRun
<1>4. pool \subseteq Numbers
  BY <1>2, FastPoolType, BoundFacts DEF IInv
<1>5. at \in Nat \X Nat
  <2>1. Len(work.parent) \in 0 .. Len(chain)
    BY <1>2, TopType DEF IInv, WorkInv
  <2> QED
    BY <1>2, <2>1, Cut, PointerType
<1> HIDE DEF run, pool, at
<1>6. m \in 0 .. Len(run)
  BY <1>3, SnailAssumption
<1>7. /\ filled \in Seq(Fruits)
      /\ filled # <<>> => Consecutive(filled) /\ filled[1].n = Last(chain) + 1
  <2>1. /\ SubSeq(run, 1, m) \in Seq(Fruits)
        /\ SubSeq(run, 1, m) # <<>> => /\ Consecutive(SubSeq(run, 1, m))
                                       /\ SubSeq(run, 1, m)[1].n = Last(chain) + 1
    <3> HIDE DEF m
    <3> QED
      BY <1>2, <1>3, <1>6, CutRun, Zenon
  <2> HIDE DEF m, enough
  <2> QED
    BY <2>1
<1> HIDE DEF filled
<1>8. Pool(all') /\ Pool(pending') /\ DOMAIN all' \subseteq DOMAIN all
  <2>1. \A S : /\ Pool(Without(all, S)) /\ DOMAIN Without(all, S) = DOMAIN all \ S
               /\ Pool(Without(pending, S))
    BY <1>2, WithoutPool, Zenon
  <2>2. CASE bad
    <3>1. all' = Without(all, {next}) /\ pending' = Without(pending, {next})
      BY <1>1, <2>2
    <3> HIDE DEF next
    <3>2. DOMAIN all' = DOMAIN all \ {next}
      BY <2>1, <3>1, Zenon
    <3> QED
      BY <2>1, <3>1, <3>2
  <2>3. CASE ~bad
    BY <1>1, <1>2, <2>3
  <2> QED
    BY <2>2, <2>3
<1>9. fastPool' \subseteq Numbers
  BY <1>1, <1>2, <1>4
<1>10. work' \in Works /\ Pool(work'.snap) /\ WorkInv'
  <2>1. PICK target \in Numbers \cup {0} :
          work' = IF target = 0 /\ filled = <<>> THEN Idle
                   ELSE [work EXCEPT !.pc = "mining", !.target = target, !.fruits = filled,
                                     !.snap = <<>>, !.at = at]
    BY <1>1, <1>4, Zenon
  <2>2. CASE work' = Idle
    BY <1>1, <1>2, <2>2, IdleWork, Zenon DEF WorkInv
  <2>3. CASE work' = [work EXCEPT !.pc = "mining", !.target = target, !.fruits = filled,
                                  !.snap = <<>>, !.at = at]
    <3>1. work' = [pc |-> "mining", parent |-> work.parent, snap |-> <<>>, target |-> target,
                   fruits |-> filled, at |-> at]
      BY <1>2, <2>3, Zenon DEF Works
    <3>2. <<>> \in Snaps /\ work.parent \in Seq(Blocks)
      BY <1>2 DEF Snaps, Chains
    <3>3. work' \in Works
      BY <1>5, <1>7, <3>1, <3>2 DEF Works
    <3>4. work'.snap = <<>> /\ work'.parent = work.parent /\ work'.fruits = filled
      BY <3>1
    <3>5. ASSUME filled # <<>> PROVE Filled'
      <4>1. Consecutive(filled) /\ filled[1].n = Last(chain) + 1
        BY <1>7, <3>5
      <4>2. filled[1].n > Last(work.parent) \/ Dead(work.parent, chain)
        <5>1. CASE Prefix(work.parent, chain)
          <6>1. Last(work.parent) <= Last(chain)
            BY <1>2, <5>1, PrefixLast DEF IInv, ChainInv
          <6> QED
            BY <1>2, <4>1, <6>1
        <5> QED
          BY <5>1 DEF IInv, WorkInv
      <4>3. ~mixed' => filled[1].n = Last(work.parent) + 1
        BY <1>1, <4>1, Zenon
      <4> QED
        BY <1>1, <3>4, <4>1, <4>2, <4>3 DEF Filled
    <3>6. WorkInv'
      BY <1>1, <3>4, <3>5 DEF IInv, WorkInv
    <3> QED
      BY <3>3, <3>4, <3>6, EmptyPool
  <2> QED
    BY <2>1, <2>2, <2>3
<1>11. ~mixed' => ~mixed
  BY <1>1, Zenon
<1> QED
  BY <1>1, <1>2, <1>8, <1>9, <1>10, <1>11, WorkKeeps, Zenon DEF IInv, Types

\* Every step keeps the invariant.
LEMMA StepInv == IInv /\ [Next]_vars => IInv'
<1> SUFFICES ASSUME IInv, [Next]_vars PROVE IInv'
  OBVIOUS
<1>1. CASE UNCHANGED vars
  BY <1>1, PoolKeeps, Zenon DEF vars, poolVars, workVars, IInv, Types, PoolInv
<1>2. CASE Loop
  BY <1>2, LoopFruitKeeps, LoopFastKeeps, UpdateFruitKeeps, LoopHeadKeeps DEF Loop
<1>3. CASE Worker \/ WorkTakes
  BY <1>3, WorkBeginKeeps, WorkCommitKeeps, MinedFruitKeeps, Zenon DEF Worker, WorkTakes
<1> QED
  BY <1>1, <1>2, <1>3, FastGrowsKeeps, InsertKeeps, RemoteFruitKeeps, MinedBlockKeeps DEF Next

\* The invariant holds in every reachable state, whatever other miners and
\* forks do while the loop of the pool and the worker are between two steps.
THEOREM PoolInvariant == Spec => []IInv
  BY InitInv, StepInv, PTL DEF Spec

-----------------------------------------------------------------------------
(* What the invariant implies.                                             *)

\* Each snail block continues its parent, as CommitFruits intends: no fast
\* block is left out of the record or recorded twice, over any interleaving of
\* new heads, the pool's loop and a worker that began on an older head.
THEOREM ChainIsContinuous == Spec => []ChainContinuous
<1>1. IInv => ChainContinuous
  <2> SUFFICES ASSUME IInv, ~mixed, NEW k \in DOMAIN chain, NEW i \in DOMAIN chain[k].fruits
               PROVE  chain[k].fruits[i].n = Last(SubSeq(chain, 1, k - 1)) + i
    BY DEF ChainContinuous
  <2> DEFINE p == SubSeq(chain, 1, k - 1)
  <2>1. chain \in Chains /\ Continuous(chain)
    BY DEF IInv, Types, ChainInv
  <2>2. k \in 1 .. Len(chain) /\ k - 1 \in 0 .. Len(chain) /\ k - 1 \in Nat
    BY <2>1, TopType
  <2>3. p \in Chains /\ Len(p) = k - 1 /\ \A j \in 1 .. k - 1 : p[j] = chain[j]
    BY <2>1, <2>2, Cut
  <2> HIDE DEF p
  <2>4. Last(p) = Top(p, k - 1)
    BY <2>3, TopType
  <2>5. Top(p, k - 1) = Top(chain, k - 1)
    BY <2>2, <2>3 DEF Top
  <2> QED
    BY <2>1, <2>4, <2>5 DEF Continuous, p
<1> QED
  BY <1>1, PoolInvariant, PTL

\* removeWithLock is enough to keep allFruits free of recorded fruits: none is
\* left, or comes back, once the loop has seen the head.
THEOREM IncludedFruitsLeave == Spec => []IncludedLeave
<1>1. IInv => IncludedLeave
  BY DEF IInv, PoolInv, IncludedLeave, Quiet
<1> QED
  BY <1>1, PoolInvariant, PTL

\* Only reset moves the pool's head.
LEMMA HeadChanges ==
  ASSUME IInv, [Next]_vars, head' # head
  PROVE  LoopHead
<1>1. ~UNCHANGED vars
  BY DEF vars, poolVars
<1>2. ~FastGrows /\ ~InsertChain /\ ~RemoteFruit /\ ~MinedBlock
  BY DEF FastGrows, InsertChain, RemoteFruit, MinedBlock, poolVars
<1>3. ~LoopFruit /\ ~LoopFast /\ ~updateFruit
  BY DEF LoopFruit, LoopFast, updateFruit
<1>4. ~Worker /\ ~WorkTakes
  BY Zenon DEF Worker, WorkTakes, WorkBegin, WorkCommit, MinedFruit, poolVars
<1> QED
  BY <1>1, <1>2, <1>3, <1>4 DEF Next, Loop

\* A fruit that validateFruit accepts is not one removeUnfreshFruit takes out.
LEMMA ValidIsFresh ==
  ASSUME IInv, NEW f \in Fruits, ValidateFruit(f) = "ok"
  PROVE  Fresh(f, Len(chain) + 1, FALSE) = "ok"
<1>1. chain \in Chains /\ Known(chain, known) /\ Len(chain) \in Nat
  BY TopType, Zenon DEF IInv, Types, ChainInv
<1>2. f.at[1] \in Nat
  BY DEF Fruits
<1>3. /\ ~(f.at[1] > Len(chain)) /\ f.at = Hash(chain, f.at[1])
      /\ ~(Len(chain) + 1 - f.at[1] > Freshness)
  BY <1>1, <1>2 DEF ValidateFruit, Fresh
<1>4. f.at[1] \in 0 .. Len(chain)
  BY <1>1, <1>2, <1>3
<1>5. f.at \in known
  BY <1>1, <1>3, <1>4 DEF Known
<1> QED
  BY <1>1, <1>2, <1>3, <1>5 DEF Fresh

\* A rising chain records nothing above its last fast number.
LEMMA RecordedBelow ==
  ASSUME NEW c \in Chains, Rising(c), NEW d, NEW g \in fruitsOf(c, d)
  PROVE  g.n <= Last(c)
<1>1. PICK k \in DOMAIN c : \E i \in DOMAIN c[k].fruits : g = c[k].fruits[i]
  BY DEF fruitsOf
<1>2. Len(c) \in Nat /\ k \in 1 .. Len(c) /\ DOMAIN c = 1 .. Len(c) /\ Last(c) = Top(c, Len(c))
  BY TopType
<1>3. Len(c) \in DOMAIN c /\ k <= Len(c)
  BY <1>2
<1> QED
  BY <1>1, <1>2, <1>3 DEF Rising

\* reset makes every valid fruit of an abandoned block pending.
LEMMA ResetReturns ==
  ASSUME IInv, LoopHead, NEW f \in fruitsOf(head, chain), f.n > Last(chain),
         ValidateFruit(f) = "ok"
  PROVE  f.n \in DOMAIN pending'
<1> DEFINE rest == restFruits(head, chain)
           full == insertRestFruits(all, rest)
           left == Without(full, included(full, chain))
           gone == included(full, chain) \cup unfresh(left)
<1>1. ResetTo(chain, rest, gone)
  BY LoopHeadForm
<1>2. chain \in Chains /\ head \in Chains /\ Rising(chain) /\ Last(chain) \in Nat
  BY TopType DEF IInv, Types, ChainInv
<1>3. f \in Fruits /\ f.n \in Nat
  BY <1>2, FruitsOfType DEF Fruits, Numbers
<1>4. f \in rest
  <2>1. \A g \in fruitsOf(chain, head) : g.n <= Last(chain) /\ g \in Fruits
    BY <1>2, RecordedBelow, FruitsOfType
  <2>2. \A g \in fruitsOf(chain, head) : g.n # f.n
    <3> SUFFICES ASSUME NEW g \in fruitsOf(chain, head), g.n = f.n PROVE FALSE
      OBVIOUS
    <3> QED
      BY <1>2, <1>3, <2>1
  <2> QED
    BY <2>2 DEF restFruits, fruitsDifference
<1>5. rest \in SUBSET Fruits /\ \A g \in rest : ValidateFruit(g) = "ok"
  BY <1>2, FruitsOfType DEF restFruits, fruitsDifference
<1> HIDE DEF rest
<1>6. /\ Pool(full) /\ f.n \in DOMAIN full /\ full[f.n] \in rest
      /\ f.n \in DOMAIN insertRestFruits(pending, rest)
      /\ Pool(insertRestFruits(pending, rest))
  <2>1. Pool(all) /\ Pool(pending)
    BY DEF IInv, Types
  <2>2. /\ Pool(insertRestFruits(all, rest))
        /\ DOMAIN insertRestFruits(all, rest) = DOMAIN all \cup {g.n : g \in rest}
        /\ \A r \in rest : insertRestFruits(all, rest)[r.n] \in rest
    BY <1>5, <2>1, InsertPool, Zenon
  <2>3. /\ Pool(insertRestFruits(pending, rest))
        /\ DOMAIN insertRestFruits(pending, rest) = DOMAIN pending \cup {g.n : g \in rest}
    BY <1>5, <2>1, InsertPool, Zenon
  <2>4. f.n \in {g.n : g \in rest}
    BY <1>4
  <2> QED
    BY <1>4, <2>2, <2>3, <2>4 DEF full
<1> HIDE DEF full
<1>7. f.n \notin included(full, chain)
  BY <1>2, <1>3 DEF included
<1>8. f.n \in DOMAIN left /\ left[f.n] = full[f.n]
  <2> DEFINE S == included(full, chain)
  <2>1. f.n \in DOMAIN full \ S
    BY <1>6, <1>7
  <2> HIDE DEF S
  <2>2. /\ DOMAIN Without(full, S) = DOMAIN full \ S
        /\ \A n \in DOMAIN full \ S : Without(full, S)[n] = full[n]
    BY <1>6, WithoutPool
  <2> QED
    BY <2>1, <2>2 DEF S
<1> HIDE DEF left
<1>9. Fresh(full[f.n], Len(chain) + 1, FALSE) = "ok"
  BY <1>5, <1>6, ValidIsFresh, Zenon
<1>10. f.n \notin unfresh(left)
  BY <1>8, <1>9, Zenon DEF unfresh
<1>11. f.n \notin gone
  BY <1>7, <1>10
<1> HIDE DEF gone
<1>12. DOMAIN Without(insertRestFruits(pending, rest), gone) =
         DOMAIN insertRestFruits(pending, rest) \ gone
  BY <1>6, WithoutPool, Zenon
<1> QED
  BY <1>1, <1>6, <1>11, <1>12 DEF ResetTo

\* reset gives the valid fruits of the abandoned blocks back to the worker:
\* neither the removal of included nor that of unfresh fruits takes them again.
THEOREM FruitsAreReturned == Spec => FruitsReturn
<1>1. ASSUME IInv, [Next]_vars, NEW f \in fruitsOf(head, head'), head' # head,
             f.n > Last(head'), ValidateFruit(f) = "ok"
      PROVE  f.n \in DOMAIN pending'
  <2>1. LoopHead
    BY <1>1, HeadChanges
  <2>2. head' = chain
    BY <1>1, <2>1, LoopHeadForm
  <2> QED
    BY <1>1, <2>1, <2>2, ResetReturns
<1>2. IInv /\ [Next]_vars =>
        [\A f \in fruitsOf(head, head') :
           (head' # head /\ f.n > Last(head') /\ ValidateFruit(f) = "ok") => f.n \in DOMAIN pending']_vars
  BY <1>1
<1> QED
  BY <1>2, PoolInvariant, PTL DEF Spec, FruitsReturn
=============================================================================
