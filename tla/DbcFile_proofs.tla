--------------------------- MODULE DbcFile_proofs ---------------------------
(***************************************************************************)
(* Proofs about DBC files, for any strings, files and rows. The string     *)
(* block is computed by recursion over its strings, so that the proofs     *)
(* begin with induction: every set of numbers has a least one.             *)
(***************************************************************************)
EXTENDS DbcFile, FiniteSetTheorems, SequenceTheorems, WellFoundedInduction, TLAPS

-----------------------------------------------------------------------------
(***************************************************************************)
(* Induction, with a set in place of a predicate.                          *)
(***************************************************************************)
LEMMA LeastNumber ==
  ASSUME NEW S \in SUBSET Nat, S # {}
  PROVE  \E m \in S : \A k \in S : m <= k
  <1> DEFINE Less == OpToRel(<, Nat)
  <1>1. IsWellFoundedOn(Less, Nat)
    BY NatLessThanWellFounded, Zenon
  <1>2. ASSUME NEW i \in Nat, NEW j \in Nat, i < j PROVE <<i, j>> \in Less
    BY <1>2, Zenon DEF OpToRel
  <1> HIDE DEF Less
  <1>3. PICK m \in S : \A k \in S : ~ (<<k, m>> \in Less)
    BY <1>1, WFMin, Zenon
  <1>4. \A k \in S : ~ (k < m)
    BY <1>2, <1>3, Zenon
  <1> QED
    BY <1>4

LEMMA Induction ==
  ASSUME NEW a \in Nat, NEW b \in Nat, NEW X, a <= b => a \in X,
         \A i \in a .. b - 1 : i \in X => i + 1 \in X
  PROVE  a .. b \subseteq X
  <1> DEFINE Missing == {i \in a .. b : i \notin X}
  <1> SUFFICES ASSUME Missing # {} PROVE FALSE
    OBVIOUS
  <1>1. PICK m \in Missing : \A k \in Missing : m <= k
    <2>1. Missing \in SUBSET Nat
      OBVIOUS
    <2> HIDE DEF Missing
    <2> QED
      BY <2>1, LeastNumber
  <1>2. m # a
    OBVIOUS
  <1>3. m - 1 \in a .. b - 1 /\ m - 1 \notin Missing
    BY <1>1, <1>2
  <1>4. m - 1 \in X
    BY <1>3
  <1>5. (m - 1) + 1 \in X
    BY <1>3, <1>4
  <1> QED
    BY <1>5

\* f is defined by recursion over 0 .. b: from base, by one step after the other.
Iterates(f, b, S, base, step) ==
    /\ f \in [0..b -> S]
    /\ f[0] = base
    /\ \A i \in 1..b : f[i] = step[i][f[i - 1]]

LEMMA Recursion ==
  ASSUME NEW b \in Nat, NEW S, NEW base \in S, NEW step \in [1..b -> [S -> S]]
  PROVE  \E f : Iterates(f, b, S, base, step)
  <1> DEFINE Fits(f, n) == /\ f \in [0..n -> S] /\ f[0] = base
                           /\ \A i \in 1..n : f[i] = step[i][f[i - 1]]
             X == {n \in 0..b : \E f \in [0..n -> S] : Fits(f, n)}
  <1>1. 0 \in X
    <2> DEFINE f == [i \in 0..0 |-> base]
    <2>1. f \in [0..0 -> S] /\ Fits(f, 0)
      OBVIOUS
    <2> HIDE DEF f
    <2> QED
      BY <2>1
  <1>2. ASSUME NEW n \in 0 .. b - 1, n \in X PROVE n + 1 \in X
    <2>1. PICK f \in [0..n -> S] : Fits(f, n)
      BY <1>2
    <2> DEFINE g == [i \in 0 .. n + 1 |-> IF i <= n THEN f[i] ELSE step[n + 1][f[n]]]
    <2>2. /\ step[n + 1] \in [S -> S] /\ f[n] \in S
      OBVIOUS
    <2>3. g \in [0 .. n + 1 -> S]
      BY <2>2
    <2>4. \A i \in 1 .. n + 1 : g[i] = step[i][g[i - 1]]
      <3> TAKE i \in 1 .. n + 1
      <3>1. CASE i <= n
        <4>1. f[i] = step[i][f[i - 1]]
          BY <2>1, <3>1
        <4>2. g[i] = f[i] /\ g[i - 1] = f[i - 1]
          BY <3>1
        <4> QED
          BY <4>1, <4>2
      <3>2. CASE i = n + 1
        BY <3>2
      <3> QED
        BY <3>1, <3>2
    <2>5. g[0] = base
      BY <2>1
    <2>6. Fits(g, n + 1)
      BY <2>3, <2>4, <2>5
    <2> HIDE DEF g, Fits
    <2> QED
      BY <2>3, <2>6
  <1> HIDE DEF X
  <1>3. 0..b \subseteq X
    <2>1. 0 \in Nat /\ \A i \in 0 .. b - 1 : i \in X => i + 1 \in X
      BY <1>2
    <2> QED
      BY <1>1, <2>1, Induction, Zenon
  <1> QED
    BY <1>3 DEF X, Iterates

-----------------------------------------------------------------------------
(***************************************************************************)
(* The offsets of the strings of a block.                                  *)
(***************************************************************************)
LEMMA SizeType == \A s \in String : Size(s) \in Nat /\ (s # Empty => Size(s) > 0)
  BY TextAssumption DEF String, Size

LEMMA SeqType ==
  ASSUME NEW S, NEW seq \in Seq(S), seq # <<>>
  PROVE  /\ Len(seq) \in Nat \ {0}
         /\ DOMAIN seq = 1..Len(seq)
         /\ \A i \in 1..Len(seq) : seq[i] \in S
  BY EmptySeq, LenProperties, ElementOfSeq

\* The equations by which Offsets is defined have a solution.
LEMMA OffsetsDef ==
  ASSUME NEW strings \in Seq(String), strings # <<>>
  PROVE  LET off == Offsets(strings) IN
         /\ off \in [1..Len(strings) -> Nat]
         /\ off[1] = 0
         /\ \A i \in 2..Len(strings) : off[i] = off[i - 1] + Size(strings[i - 1]) + 1
  <1> DEFINE n == Len(strings)
             Def(f) == [i \in 1..n |-> IF i = 1 THEN 0 ELSE f[i - 1] + Size(strings[i - 1]) + 1]
  <1>1. n \in Nat \ {0} /\ \A i \in 1..n : Size(strings[i]) \in Nat
    BY SeqType, SizeType
  <1>2. \E f : f = Def(f) /\ f \in [1..n -> Nat]
    <2> DEFINE step == [i \in 1 .. n - 1 |-> [o \in Nat |-> o + Size(strings[i]) + 1]]
    <2>1. step \in [1 .. n - 1 -> [Nat -> Nat]]
      BY <1>1
    <2>2. PICK f : Iterates(f, n - 1, Nat, 0, step)
      <3>1. n - 1 \in Nat /\ 0 \in Nat
        BY <1>1
      <3> HIDE DEF step, n
      <3> QED
        BY <2>1, <3>1, Recursion
    <2> DEFINE g == [i \in 1..n |-> f[i - 1]]
    <2>3. g \in [1..n -> Nat]
      BY <1>1, <2>2 DEF Iterates
    <2>4. ASSUME NEW i \in 1..n PROVE g[i] = Def(g)[i]
      <3>1. CASE i = 1
        BY <1>1, <2>2, <3>1 DEF Iterates
      <3>2. CASE i # 1
        <4>1. i - 1 \in 1..n /\ i - 1 \in 1 .. n - 1 /\ (i - 1) - 1 \in 0 .. n - 1
          BY <1>1, <3>2
        <4>2. g[i] = f[i - 1] /\ g[i - 1] = f[(i - 1) - 1]
          BY <4>1
        <4>3. f[i - 1] = step[i - 1][f[(i - 1) - 1]] /\ f[(i - 1) - 1] \in Nat
          BY <2>2, <4>1 DEF Iterates
        <4> QED
          BY <3>2, <4>1, <4>2, <4>3
      <3> QED
        BY <3>1, <3>2
    <2>5. g = Def(g)
      BY <2>3, <2>4
    <2> QED
      BY <2>3, <2>5
  <1>3. Offsets(strings) = Def(Offsets(strings))
    BY <1>2 DEF Offsets
  <1> DEFINE off == Offsets(strings)
  <1>4. /\ DOMAIN off = 1..n
        /\ off[1] = 0
        /\ \A i \in 2..n : off[i] = off[i - 1] + Size(strings[i - 1]) + 1
        /\ off = [i \in 1..n |-> off[i]]
    <2>1. off = [i \in 1..n |-> IF i = 1 THEN 0 ELSE off[i - 1] + Size(strings[i - 1]) + 1]
      BY <1>3
    <2> HIDE DEF off, Def, n
    <2>2. off = [i \in 1..n |-> off[i]]
      BY <2>1
    <2>3. DOMAIN off = 1..n
      BY <2>1
    <2>4. \A i \in 1..n : off[i] = IF i = 1 THEN 0 ELSE off[i - 1] + Size(strings[i - 1]) + 1
      BY <2>1
    <2>5. 1 \in 1..n /\ \A i \in 2..n : i \in 1..n /\ i # 1
      BY <1>1
    <2>6. off[1] = 0 /\ \A i \in 2..n : off[i] = off[i - 1] + Size(strings[i - 1]) + 1
      BY <2>4, <2>5
    <2> QED
      BY <2>2, <2>3, <2>6
  <1>5. 1..n \subseteq {i \in 1..n : off[i] \in Nat}
    <2> DEFINE X == {i \in 1..n : off[i] \in Nat}
    <2>1. 1 \in X
      BY <1>1, <1>4
    <2>2. \A i \in 1 .. n - 1 : i \in X => i + 1 \in X
      <3> TAKE i \in 1 .. n - 1
      <3>1. i + 1 \in 2..n /\ (i + 1) - 1 = i
        BY <1>1
      <3>2. off[i + 1] = off[i] + Size(strings[i]) + 1
        BY <1>4, <3>1
      <3> HIDE DEF off
      <3> QED
        BY <1>1, <3>1, <3>2
    <2> HIDE DEF X
    <2>3. 1 \in Nat /\ n \in Nat
      BY <1>1
    <2>4. 1..n \subseteq X
      BY <2>1, <2>2, <2>3, Induction, Zenon
    <2> QED
      BY <2>4 DEF X
  <1> QED
    BY <1>4, <1>5

\* Every string starts behind the NUL of the ones before it.
LEMMA OffsetsIncrease ==
  ASSUME NEW strings \in Seq(String), strings # <<>>,
         NEW i \in 1..Len(strings), NEW j \in 1..Len(strings), i < j
  PROVE  Offsets(strings)[i] + Size(strings[i]) + 1 <= Offsets(strings)[j]
  <1> DEFINE n == Len(strings)
             off == Offsets(strings)
             X == {k \in i + 1 .. n : off[i] + Size(strings[i]) + 1 <= off[k]}
  <1>1. n \in Nat \ {0} /\ \A k \in 1..n : Size(strings[k]) \in Nat
    BY SeqType, SizeType
  <1>2. /\ off \in [1..n -> Nat]
        /\ \A k \in 2..n : off[k] = off[k - 1] + Size(strings[k - 1]) + 1
    BY OffsetsDef
  <1> HIDE DEF off, n
  <1>3. i \in 1..n /\ j \in 1..n
    BY DEF n
  <1>4. i + 1 \in X
    <2>1. i + 1 \in 2..n /\ (i + 1) - 1 = i
      BY <1>1, <1>3
    <2> QED
      BY <1>1, <1>2, <1>3, <2>1
  <1>5. ASSUME NEW k \in i + 1 .. n - 1, k \in X PROVE k + 1 \in X
    <2>1. k + 1 \in 2..n /\ (k + 1) - 1 = k /\ k \in 1..n /\ k + 1 \in i + 1 .. n
      BY <1>1, <1>3
    <2>2. off[i] + Size(strings[i]) + 1 <= off[k]
      BY <1>5
    <2>3. off[k + 1] = off[k] + Size(strings[k]) + 1
      BY <1>2, <2>1
    <2>4. off[i] \in Nat /\ off[k] \in Nat /\ Size(strings[i]) \in Nat /\ Size(strings[k]) \in Nat
      BY <1>1, <1>2, <1>3, <2>1
    <2>5. off[i] + Size(strings[i]) + 1 <= off[k + 1]
      BY <2>2, <2>3, <2>4
    <2> QED
      BY <2>1, <2>5
  <1>6. i + 1 .. n \subseteq X
    <2>1. i + 1 \in Nat /\ n \in Nat
      BY <1>1, <1>3
    <2> HIDE DEF X
    <2> QED
      BY <1>4, <1>5, <2>1, Induction
  <1> QED
    BY <1>3, <1>6 DEF off

\* The equations have one solution.
LEMMA OffsetsUnique ==
  ASSUME NEW strings \in Seq(String), strings # <<>>,
         NEW g \in [1..Len(strings) -> Nat], g[1] = 0,
         \A i \in 2..Len(strings) : g[i] = g[i - 1] + Size(strings[i - 1]) + 1
  PROVE  Offsets(strings) = g
  <1> DEFINE n == Len(strings)
             off == Offsets(strings)
             X == {i \in 1..n : off[i] = g[i]}
  <1>1. n \in Nat \ {0}
    BY SeqType
  <1>2. /\ off \in [1..n -> Nat]
        /\ off[1] = 0
        /\ \A k \in 2..n : off[k] = off[k - 1] + Size(strings[k - 1]) + 1
    BY OffsetsDef
  <1>3. /\ g \in [1..n -> Nat]
        /\ g[1] = 0
        /\ \A k \in 2..n : g[k] = g[k - 1] + Size(strings[k - 1]) + 1
    OBVIOUS
  <1> HIDE DEF off, n
  <1>4. 1 \in X
    BY <1>1, <1>2, <1>3
  <1>5. ASSUME NEW k \in 1 .. n - 1, k \in X PROVE k + 1 \in X
    <2>1. k + 1 \in 2..n /\ (k + 1) - 1 = k /\ k + 1 \in 1..n
      BY <1>1
    <2>2. off[k] = g[k]
      BY <1>5
    <2>3. off[k + 1] = off[k] + Size(strings[k]) + 1 /\ g[k + 1] = g[k] + Size(strings[k]) + 1
      BY <1>2, <1>3, <2>1
    <2> QED
      BY <2>1, <2>2, <2>3
  <1>6. 1..n \subseteq X
    <2>1. 1 \in Nat /\ n \in Nat
      BY <1>1
    <2> HIDE DEF X
    <2> QED
      BY <1>4, <1>5, <2>1, Induction
  <1>7. \A i \in 1..n : off[i] = g[i]
    BY <1>6
  <1>8. off = g
    <2>1. off = [i \in 1..n |-> off[i]] /\ g = [i \in 1..n |-> g[i]]
      BY <1>2, <1>3
    <2> QED
      BY <1>7, <2>1
  <1> QED
    BY <1>8 DEF off

\* The map that extractStrings makes: each string at its offset, nothing else.
LEMMA BlockDef ==
  ASSUME NEW strings \in Seq(String), strings # <<>>
  PROVE  /\ Block(strings) \in [DOMAIN Block(strings) -> String]
         /\ DOMAIN Block(strings) = {Offsets(strings)[i] : i \in 1..Len(strings)}
         /\ \A i \in 1..Len(strings) : Block(strings)[Offsets(strings)[i]] = strings[i]
  <1> DEFINE n == Len(strings)
             off == Offsets(strings)
             at(o) == CHOOSE i \in DOMAIN strings : off[i] = o
  <1>1. n \in Nat /\ DOMAIN strings = 1..n /\ \A i \in 1..n : strings[i] \in String
    BY SeqType
  <1>2. \A i \in 1..n, j \in 1..n : off[i] = off[j] => i = j
    <2>1. off \in [1..n -> Nat]
      BY OffsetsDef
    <2>2. \A i \in 1..n : Size(strings[i]) \in Nat
      BY <1>1, SizeType
    <2>3. \A i \in 1..n, j \in 1..n : i < j => off[i] + Size(strings[i]) + 1 <= off[j]
      BY OffsetsIncrease
    <2> HIDE DEF off, n
    <2>4. \A i \in 1..n, j \in 1..n : i < j => off[i] < off[j]
      BY <2>1, <2>2, <2>3
    <2>5. \A i \in 1..n, j \in 1..n : i < j \/ j < i \/ i = j
      BY <1>1
    <2> QED
      BY <2>1, <2>4, <2>5
  <1>3. Block(strings) = [o \in {off[i] : i \in 1..n} |-> strings[at(o)]]
    BY <1>1 DEF Block
  <1>4. \A i \in 1..n : at(off[i]) = i
    <2> HIDE DEF off
    <2> QED
      BY <1>1, <1>2
  <1> HIDE DEF off, n, at
  <1>5. \A i \in 1..n : Block(strings)[off[i]] = strings[i]
    BY <1>3, <1>4
  <1> QED
    BY <1>1, <1>3, <1>4, <1>5 DEF off, n

-----------------------------------------------------------------------------
(***************************************************************************)
(* The sorted offsets that Export goes through.                            *)
(***************************************************************************)
LEMMA SortedDef ==
  ASSUME NEW s \in SUBSET Nat, IsFiniteSet(s)
  PROVE  LET n == Cardinality(s)
             offs == Sorted(s)
         IN  /\ n \in Nat
             /\ offs \in [1..n -> s]
             /\ \A i \in 1..n, j \in 1..n : i < j => offs[i] < offs[j]
             /\ \A x \in s : \E i \in 1..n : offs[i] = x
  <1> DEFINE n == Cardinality(s)
             offs == Sorted(s)
             below(o) == {p \in s : p < o}
             rank == [o \in s |-> Cardinality(below(o))]
  <1>1. n \in Nat
    BY FS_CardinalityType
  <1>2. ASSUME NEW o \in s
        PROVE  IsFiniteSet(below(o)) /\ rank[o] = Cardinality(below(o)) /\ rank[o] \in 0 .. n - 1
    <2>1. IsFiniteSet(s \ {o}) /\ Cardinality(s \ {o}) = n - 1
      BY FS_RemoveElement
    <2>2. below(o) \in SUBSET (s \ {o})
      OBVIOUS
    <2>3. IsFiniteSet(below(o)) /\ Cardinality(below(o)) <= n - 1
      <3> HIDE DEF below, n
      <3> QED
        BY <2>1, <2>2, FS_Subset
    <2>4. Cardinality(below(o)) \in Nat
      BY <2>3, FS_CardinalityType
    <2> QED
      BY <1>1, <2>3, <2>4
  <1>3. ASSUME NEW x \in s, NEW y \in s, x < y PROVE rank[x] < rank[y]
    <2>1. below(x) \cup {x} \in SUBSET below(y)
      <3>1. x \in Nat /\ y \in Nat
        OBVIOUS
      <3>2. \A p \in s : p \in Nat /\ (p < x => p < y)
        BY <1>3, <3>1
      <3> QED
        BY <1>3, <3>2
    <2>2. x \notin below(x)
      OBVIOUS
    <2>3. IsFiniteSet(below(x)) /\ IsFiniteSet(below(y))
      BY <1>2
    <2>4. Cardinality(below(x) \cup {x}) = Cardinality(below(x)) + 1
      <3> HIDE DEF below
      <3> QED
        BY <2>2, <2>3, FS_AddElement
    <2>5. Cardinality(below(x) \cup {x}) <= Cardinality(below(y))
      <3> HIDE DEF below
      <3> QED
        BY <2>1, <2>3, FS_Subset
    <2>6. rank[x] = Cardinality(below(x)) /\ rank[y] = Cardinality(below(y))
          /\ rank[x] \in Nat /\ rank[y] \in Nat
      BY <1>1, <1>2
    <2> HIDE DEF below, rank
    <2> QED
      BY <2>4, <2>5, <2>6
  <1>4. rank \in [s -> 0 .. n - 1]
    BY <1>2
  <1> HIDE DEF rank
  <1>5. \A x \in s, y \in s : rank[x] = rank[y] => x = y
    <2> TAKE x \in s, y \in s
    <2>1. x < y \/ y < x \/ x = y
      OBVIOUS
    <2>2. rank[x] \in Int /\ rank[y] \in Int
      BY <1>1, <1>4
    <2> QED
      BY <1>3, <2>1, <2>2
  <1>6. \A k \in 0 .. n - 1 : \E o \in s : rank[o] = k
    <2>1. IsFiniteSet(0 .. n - 1) /\ Cardinality(0 .. n - 1) = n
      <3>1. IsFiniteSet(0 .. n - 1)
            /\ Cardinality(0 .. n - 1) = IF 0 > n - 1 THEN 0 ELSE (n - 1) - 0 + 1
        <4>1. 0 \in Int /\ n - 1 \in Int
          BY <1>1
        <4> HIDE DEF n
        <4> QED
          BY <4>1, FS_Interval
      <3> HIDE DEF n
      <3> QED
        BY <1>1, <3>1
    <2>2. rank \in Injection(s, 0 .. n - 1)
      BY <1>4, <1>5 DEF Injection, IsInjective
    <2>3. rank \in Surjection(s, 0 .. n - 1)
      BY <2>1, <2>2, FS_Injection
    <2> QED
      BY <2>3 DEF Surjection
  <1>7. ASSUME NEW i \in 1..n PROVE offs[i] \in s /\ rank[offs[i]] = i - 1
    <2>1. i - 1 \in 0 .. n - 1
      BY <1>1
    <2>2. PICK o \in s : rank[o] = i - 1
      BY <1>6, <2>1
    <2>3. Cardinality({p \in s : p < o}) = i - 1
      BY <1>2, <2>2
    <2>4. offs[i] = CHOOSE x \in s : Cardinality({p \in s : p < x}) = i - 1
      BY DEF Sorted
    <2>5. offs[i] \in s /\ Cardinality({p \in s : p < offs[i]}) = i - 1
      <3> HIDE DEF offs
      <3> QED
        BY <2>3, <2>4
    <2> QED
      BY <1>2, <2>5
  <1>8. offs \in [1..n -> s]
    BY <1>7 DEF Sorted
  <1> HIDE DEF offs, n
  <1>9. ASSUME NEW i \in 1..n, NEW j \in 1..n, i < j PROVE offs[i] < offs[j]
    <2>1. rank[offs[i]] = i - 1 /\ rank[offs[j]] = j - 1 /\ offs[i] \in s /\ offs[j] \in s
      BY <1>7
    <2>2. offs[j] < offs[i] => FALSE
      <3> SUFFICES ASSUME offs[j] < offs[i] PROVE FALSE
        OBVIOUS
      <3>1. rank[offs[j]] < rank[offs[i]]
        BY <1>3, <2>1
      <3> QED
        BY <1>1, <1>9, <2>1, <3>1
    <2>3. offs[i] # offs[j]
      BY <1>1, <1>9, <2>1
    <2>4. offs[i] \in Nat /\ offs[j] \in Nat
      BY <2>1
    <2> QED
      BY <2>2, <2>3, <2>4
  <1>10. ASSUME NEW x \in s PROVE \E i \in 1..n : offs[i] = x
    <2>1. rank[x] + 1 \in 1..n /\ (rank[x] + 1) - 1 = rank[x]
      BY <1>1, <1>4
    <2>2. offs[rank[x] + 1] = x
      BY <1>5, <1>7, <2>1
    <2> QED
      BY <2>1, <2>2
  <1> QED
    BY <1>1, <1>8, <1>9, <1>10 DEF offs, n

-----------------------------------------------------------------------------
(***************************************************************************)
(* What holds of the file and of the DBC in memory.                        *)
(***************************************************************************)
FileType == [count : Nat, blockSize : Nat, records : Seq([1..Fields -> Int]), strings : Seq(String)]

\* The block is not empty, and the header is true.
FileOK(f) ==
    /\ f \in FileType
    /\ f.strings # <<>>
    /\ f.count = Len(f.records)
    /\ f.blockSize = Bytes(f.strings)

Blocks == UNION {[D -> String] : D \in SUBSET Nat}
Rows == [1..Fields -> String]
DbcType == [count : Nat, size : Nat, block : Blocks, data : Seq(Rows)]

\* No string reaches behind the end of the block: what is put there takes the
\* place of an empty string if of any.
Fits(m) == \A o \in DOMAIN m.block : o + Size(m.block[o]) <= m.size

\* The block has the strings of all the rows.
HasStrings(m) ==
    \A i \in 1..Len(m.data), k \in 1..Fields :
        m.data[i][k] # Empty => Occurs(m, m.data[i][k])

MemOK(m) == m \in DbcType /\ Fits(m) /\ HasStrings(m)

LEMMA BlocksDef ==
  /\ \A b \in Blocks : b \in [DOMAIN b -> String] /\ DOMAIN b \subseteq Nat
  /\ \A D \in SUBSET Nat : \A b \in [D -> String] : b \in Blocks
  BY DEF Blocks

LEMMA EmptyIsString == Empty \in String
  BY DEF String

\* What extract makes of a file.
LEMMA ExtractIsOK ==
  ASSUME NEW f, FileOK(f)
  PROVE  /\ MemOK(Extract(f))
         /\ Extract(f).count = Len(Extract(f).data)
  <1> DEFINE n == Len(f.strings)
             off == Offsets(f.strings)
             block == Block(f.strings)
             m == Extract(f)
             data == [i \in 1..f.count |-> Row(block, f.records[i])]
  <1>1. /\ f \in FileType
        /\ f.strings \in Seq(String) /\ f.strings # <<>> /\ f.records \in Seq([1..Fields -> Int])
        /\ f.count \in Nat /\ f.count = Len(f.records) /\ f.blockSize \in Nat
        /\ f.blockSize = Bytes(f.strings)
    BY DEF FileOK, FileType
  <1>2. m = [count |-> f.count, size |-> f.blockSize, block |-> block, data |-> data]
    BY DEF Extract
  <1>3. /\ n \in Nat \ {0}
        /\ \A i \in 1..n : off[i] \in Nat /\ Size(f.strings[i]) \in Nat
        /\ \A i \in 1..n, j \in 1..n : i < j => off[i] + Size(f.strings[i]) + 1 <= off[j]
    <2>1. n \in Nat \ {0} /\ \A i \in 1..n : f.strings[i] \in String
      BY <1>1, SeqType
    <2>2. off \in [1..n -> Nat]
      BY <1>1, OffsetsDef
    <2>3. \A i \in 1..n, j \in 1..n : i < j => off[i] + Size(f.strings[i]) + 1 <= off[j]
      BY <1>1, OffsetsIncrease
    <2> HIDE DEF off, n
    <2> QED
      BY <2>1, <2>2, <2>3, SizeType
  <1>4. /\ block \in [DOMAIN block -> String]
        /\ DOMAIN block = {off[i] : i \in 1..n}
        /\ \A i \in 1..n : block[off[i]] = f.strings[i]
    BY <1>1, BlockDef
  <1>5. f.blockSize = off[n] + Size(f.strings[n])
    BY <1>1 DEF Bytes, Last
  <1>6. \A i \in 1 .. f.count : f.records[i] \in [1..Fields -> Int]
    BY <1>1, ElementOfSeq
  <1> HIDE DEF n, off, block, m
  <1>7. block \in Blocks
    <2>1. DOMAIN block \in SUBSET Nat
      BY <1>3, <1>4
    <2> QED
      BY <1>4, <2>1, BlocksDef
  <1>8. \A o \in Int : StringAt(block, o) \in String
    BY <1>4, EmptyIsString DEF StringAt
  <1>9. \A i \in 1 .. f.count : Row(block, f.records[i]) \in Rows
    BY <1>6, <1>8 DEF Row, Rows
  <1>10. data \in Seq(Rows) /\ Len(data) = f.count /\ \A i \in 1 .. f.count : data[i] = Row(block, f.records[i])
    <2> HIDE DEF Rows
    <2>1. data \in [1 .. f.count -> Rows]
      BY <1>9
    <2> QED
      BY <1>1, <2>1
  <1> HIDE DEF data
  <1>11. m \in DbcType /\ m.count = Len(m.data)
    BY <1>1, <1>2, <1>7, <1>10 DEF DbcType
  <1>12. Fits(m)
    <2> SUFFICES ASSUME NEW i \in 1..n PROVE off[i] + Size(f.strings[i]) <= off[n] + Size(f.strings[n])
      BY <1>2, <1>4, <1>5 DEF Fits
    <2>1. n \in 1..n
      BY <1>3
    <2> QED
      BY <1>3, <2>1
  <1>13. HasStrings(m)
    <2> SUFFICES ASSUME NEW i \in 1 .. f.count, NEW k \in 1..Fields, data[i][k] # Empty
                 PROVE  \E o \in DOMAIN block : block[o] = data[i][k]
      BY <1>2, <1>10 DEF HasStrings, Occurs
    <2>1. data[i][k] = StringAt(block, f.records[i][k])
      BY <1>6, <1>10 DEF Row
    <2> QED
      BY <2>1 DEF StringAt
  <1> QED
    BY <1>11, <1>12, <1>13 DEF m, MemOK

-----------------------------------------------------------------------------
(***************************************************************************)
(* A clean block in memory: while rows are appended to it, the string at   *)
(* an offset is followed by the next string, or by the place for the next  *)
(* string, and only the first string is empty; at the end so is the last.  *)
(***************************************************************************)
Apart(m) ==
    \A p \in DOMAIN m.block, q \in DOMAIN m.block :
        p < q => p + Size(m.block[p]) + 1 <= q

Chain(m) ==
    /\ 0 \in DOMAIN m.block
    /\ \A p \in DOMAIN m.block :
          /\ m.block[p] = Empty <=> p = 0
          /\ p + Size(m.block[p]) + 1 <= m.size
          /\ p + Size(m.block[p]) + 1 \in DOMAIN m.block \cup {m.size}
    /\ Apart(m)

Closed(m) ==
    /\ 0 \in DOMAIN m.block /\ m.size \in DOMAIN m.block /\ 0 < m.size
    /\ \A p \in DOMAIN m.block :
          /\ m.block[p] = Empty <=> p = 0 \/ p = m.size
          /\ p < m.size => p + Size(m.block[p]) + 1 \in DOMAIN m.block
    /\ Apart(m)

LEMMA DbcTypeDef ==
  ASSUME NEW m \in DbcType
  PROVE  /\ m.count \in Nat /\ m.size \in Nat
         /\ m.block \in [DOMAIN m.block -> String]
         /\ DOMAIN m.block \subseteq Nat
         /\ m.data \in Seq(Rows)
         /\ \A o \in DOMAIN m.block : o \in Nat /\ m.block[o] \in String /\ Size(m.block[o]) \in Nat
  <1>1. m.count \in Nat /\ m.size \in Nat /\ m.data \in Seq(Rows) /\ m.block \in Blocks
    BY DEF DbcType
  <1>2. m.block \in [DOMAIN m.block -> String] /\ DOMAIN m.block \subseteq Nat
    BY <1>1, BlocksDef
  <1> QED
    BY <1>1, <1>2, SizeType

\* The DBC without the empty strings of its block, and with a new row count.
WithoutEmpties(m, c) == [m EXCEPT !.count = c, !.block = DropEmpties(@)]

LEMMA DropEmptiesIsOK ==
  ASSUME NEW m, MemOK(m), NEW c \in Nat,
         NEW d, d = WithoutEmpties(m, c)
  PROVE  MemOK(d) /\ d.count = c /\ d.data = m.data /\ d.size = m.size
  <1> DEFINE D == {o \in DOMAIN m.block : m.block[o] # Empty \/ o = 0}
  <1>1. m \in DbcType /\ Fits(m) /\ HasStrings(m)
    BY DEF MemOK
  <1>2. d.count = c /\ d.data = m.data /\ d.size = m.size /\ d.block = [o \in D |-> m.block[o]]
        /\ d = [count |-> d.count, size |-> d.size, block |-> d.block, data |-> d.data]
    BY <1>1 DEF DbcType, DropEmpties, WithoutEmpties
  <1>3. d.block \in Blocks
    <2>1. D \in SUBSET Nat /\ d.block \in [D -> String]
      BY <1>1, <1>2, DbcTypeDef
    <2> HIDE DEF D
    <2> QED
      BY <2>1, BlocksDef
  <1>4. d \in DbcType
    BY <1>1, <1>2, <1>3 DEF DbcType
  <1>5. Fits(d)
    BY <1>1, <1>2 DEF Fits
  <1>6. HasStrings(d)
    <2> SUFFICES ASSUME NEW i \in 1..Len(m.data), NEW k \in 1..Fields, m.data[i][k] # Empty
                 PROVE  \E o \in D : m.block[o] = m.data[i][k]
      BY <1>2 DEF HasStrings, Occurs
    <2> QED
      BY <1>1 DEF HasStrings, Occurs
  <1> QED
    BY <1>2, <1>4, <1>5, <1>6 DEF MemOK

\* What is left of a clean block.
LEMMA DropEmptiesOfClean ==
  ASSUME NEW f, FileOK(f), CleanBlock(f.strings), NEW c \in Nat,
         NEW d, d = WithoutEmpties(Extract(f), c)
  PROVE  Chain(d)
  <1> DEFINE n == Len(f.strings)
             off == Offsets(f.strings)
             size(i) == Size(f.strings[i])
  <1>1. f.strings \in Seq(String) /\ f.strings # <<>> /\ f.blockSize = Bytes(f.strings)
    BY DEF FileOK, FileType
  <1>2. /\ n \in Nat /\ n >= 2
        /\ off[1] = 0
        /\ \A i \in 1..n : f.strings[i] = Empty <=> i = 1 \/ i = n
        /\ \A i \in 1..n : off[i] \in Nat /\ size(i) \in Nat
        /\ \A i \in 2..n : off[i] = off[i - 1] + size(i - 1) + 1
        /\ \A i \in 1..n, j \in 1..n : i < j => off[i] + size(i) + 1 <= off[j]
    <2>1. n \in Nat \ {0} /\ DOMAIN f.strings = 1..n /\ \A i \in 1..n : f.strings[i] \in String
      BY <1>1, SeqType
    <2>2. /\ off \in [1..n -> Nat] /\ off[1] = 0
          /\ \A i \in 2..n : off[i] = off[i - 1] + size(i - 1) + 1
      BY <1>1, OffsetsDef
    <2>3. \A i \in 1..n, j \in 1..n : i < j => off[i] + size(i) + 1 <= off[j]
      BY <1>1, OffsetsIncrease
    <2>4. n >= 2 /\ \A i \in DOMAIN f.strings : f.strings[i] = Empty <=> i \in {1, n}
      BY DEF CleanBlock
    <2> HIDE DEF off, n
    <2> QED
      BY <2>1, <2>2, <2>3, <2>4, SizeType
  <1>3. f.blockSize = off[n] /\ size(n) = 0
    <2>1. f.strings[n] = Empty /\ Size(f.strings[n]) = 0
      <3>1. n \in 1..n
        BY <1>2
      <3> HIDE DEF n
      <3> QED
        BY <1>2, <3>1 DEF Size
    <2>2. f.blockSize = off[n] + size(n)
      BY <1>1 DEF Bytes, Last
    <2> HIDE DEF off, n
    <2> QED
      BY <1>2, <2>1, <2>2
  <1>4. /\ DOMAIN Block(f.strings) = {off[i] : i \in 1..n}
        /\ \A i \in 1..n : Block(f.strings)[off[i]] = f.strings[i]
    BY <1>1, BlockDef
  <1>5. /\ d.size = off[n]
        /\ d.block = DropEmpties(Block(f.strings))
    BY <1>3 DEF Extract, WithoutEmpties
  <1> HIDE DEF off, n, size
  <1>6. /\ DOMAIN d.block = {off[i] : i \in 1 .. n - 1}
        /\ \A i \in 1 .. n - 1 : d.block[off[i]] = f.strings[i]
    <2>1. \A i \in 1..n : (f.strings[i] # Empty \/ off[i] = 0) <=> i # n
      <3>1. off[n] # 0
        <4>1. 1 \in 1..n /\ n \in 1..n /\ 1 < n
          BY <1>2
        <4>2. off[1] + size(1) + 1 <= off[n] /\ size(1) \in Nat
          BY <1>2, <4>1
        <4> QED
          BY <1>2, <4>2
      <3> QED
        BY <1>2, <3>1
    <2>2. DOMAIN DropEmpties(Block(f.strings)) = {off[i] : i \in 1 .. n - 1}
      <3>1. DOMAIN DropEmpties(Block(f.strings))
              = {o \in DOMAIN Block(f.strings) : Block(f.strings)[o] # Empty \/ o = 0}
        BY DEF DropEmpties
      <3>2. \A i : i \in 1 .. n - 1 <=> i \in 1..n /\ i # n
        BY <1>2
      <3> QED
        BY <1>4, <2>1, <3>1, <3>2
    <2>3. \A o \in DOMAIN DropEmpties(Block(f.strings)) :
              DropEmpties(Block(f.strings))[o] = Block(f.strings)[o]
      BY DEF DropEmpties
    <2>4. \A i \in 1 .. n - 1 : i \in 1..n
      BY <1>2
    <2> QED
      BY <1>4, <1>5, <2>2, <2>3, <2>4
  <1>7. \A i \in 1 .. n - 1 : /\ i \in 1..n /\ i + 1 \in 1..n
                             /\ Size(d.block[off[i]]) = size(i)
                             /\ off[i] + size(i) + 1 = off[i + 1]
    <2> SUFFICES ASSUME NEW i \in 1 .. n - 1
                 PROVE  /\ i \in 1..n /\ i + 1 \in 1..n
                        /\ Size(d.block[off[i]]) = size(i)
                        /\ off[i] + size(i) + 1 = off[i + 1]
      OBVIOUS
    <2>1. i \in 1..n /\ i + 1 \in 2..n /\ (i + 1) - 1 = i /\ i + 1 \in 1..n
      BY <1>2
    <2> QED
      BY <1>2, <1>6, <2>1 DEF size
  <1>8. 0 \in DOMAIN d.block
    <2>1. 1 \in 1 .. n - 1
      BY <1>2
    <2> QED
      BY <1>2, <1>6, <2>1
  <1>9. ASSUME NEW i \in 1 .. n - 1
        PROVE  /\ d.block[off[i]] = Empty <=> off[i] = 0
               /\ off[i] + size(i) + 1 <= d.size
               /\ off[i] + size(i) + 1 \in DOMAIN d.block \cup {d.size}
    <2>1. d.block[off[i]] = Empty <=> i = 1
      BY <1>2, <1>6, <1>7
    <2>2. i # 1 => off[i] # 0
      <3>1. i # 1 => 1 \in 1..n /\ i \in 1..n /\ 1 < i
        BY <1>2
      <3>2. i # 1 => off[1] + size(1) + 1 <= off[i] /\ size(1) \in Nat
        BY <1>2, <3>1
      <3> QED
        BY <1>2, <1>7, <3>2
    <2>3. off[i] + size(i) + 1 <= off[n]
      <3>1. i \in 1..n /\ n \in 1..n /\ i < n
        BY <1>2
      <3> QED
        BY <1>2, <3>1
    <2>4. i + 1 \in 1 .. n - 1 \/ i + 1 = n
      BY <1>2
    <2>5. off[i] + size(i) + 1 = off[i + 1]
      BY <1>7
    <2> QED
      BY <1>2, <1>5, <1>6, <2>1, <2>2, <2>3, <2>4, <2>5
  <1>10. ASSUME NEW i \in 1 .. n - 1, NEW j \in 1 .. n - 1, off[i] < off[j]
         PROVE  off[i] + size(i) + 1 <= off[j]
    <2>1. i \in 1..n /\ j \in 1..n
      BY <1>7
    <2>2. i < j
      <3>1. j < i => off[j] + size(j) + 1 <= off[i]
        BY <1>2, <2>1
      <3>2. off[i] \in Nat /\ off[j] \in Nat /\ size(j) \in Nat
        BY <1>2, <2>1
      <3>3. i # j
        BY <1>10, <3>2
      <3> QED
        BY <1>10, <3>1, <3>2, <3>3
    <2> QED
      BY <1>2, <2>1, <2>2
  <1> QED
    BY <1>6, <1>7, <1>8, <1>9, <1>10 DEF Chain, Apart

-----------------------------------------------------------------------------
(***************************************************************************)
(* Appending.                                                              *)
(***************************************************************************)

\* b keeps what a has: the rows, the count, and every string that is not empty.
Keeps(a, b) ==
    /\ b.data = a.data /\ b.count = a.count
    /\ \A s \in String : s # Empty /\ Occurs(a, s) => Occurs(b, s)

\* A string at the end of the block, with room r from its start.
PutAtEnd(m, s, r) == [m EXCEPT !.block = Put(@, m.size, s), !.size = @ + r]

LEMMA PutKeeps ==
  ASSUME NEW m, MemOK(m), NEW s \in String, NEW r \in Nat, Size(s) <= r,
         NEW b, b = PutAtEnd(m, s, r)
  PROVE  /\ MemOK(b) /\ Keeps(m, b) /\ Occurs(b, s)
         /\ b.size = m.size + r
         /\ DOMAIN b.block = DOMAIN m.block \cup {m.size}
         /\ b.block[m.size] = s
         /\ \A o \in DOMAIN m.block : o # m.size => b.block[o] = m.block[o]
  <1>1. m \in DbcType /\ Fits(m) /\ HasStrings(m)
    BY DEF MemOK
  <1>2. /\ m.size \in Nat /\ m.count \in Nat /\ m.data \in Seq(Rows) /\ DOMAIN m.block \subseteq Nat
        /\ \A o \in DOMAIN m.block : o \in Nat /\ m.block[o] \in String /\ Size(m.block[o]) \in Nat
    BY <1>1, DbcTypeDef
  <1>3. /\ b.size = m.size + r /\ b.count = m.count /\ b.data = m.data
        /\ b.block = [p \in DOMAIN m.block \cup {m.size} |-> IF p = m.size THEN s ELSE m.block[p]]
        /\ b = [count |-> b.count, size |-> b.size, block |-> b.block, data |-> b.data]
    BY <1>1 DEF DbcType, Put, PutAtEnd
  <1>4. /\ DOMAIN b.block = DOMAIN m.block \cup {m.size}
        /\ b.block[m.size] = s
        /\ \A o \in DOMAIN m.block : o # m.size => b.block[o] = m.block[o]
    BY <1>3
  <1>5. b \in DbcType
    <2>1. b.block \in [DOMAIN m.block \cup {m.size} -> String]
      BY <1>2, <1>3
    <2>2. DOMAIN m.block \cup {m.size} \in SUBSET Nat
      BY <1>2
    <2>3. b.block \in Blocks
      BY <2>1, <2>2, BlocksDef
    <2>4. b.count \in Nat /\ b.size \in Nat /\ b.data \in Seq(Rows)
      BY <1>2, <1>3
    <2> QED
      BY <1>3, <2>3, <2>4 DEF DbcType
  <1>6. Fits(b)
    <2> SUFFICES ASSUME NEW o \in DOMAIN b.block PROVE o + Size(b.block[o]) <= m.size + r
      BY <1>3 DEF Fits
    <2>1. Size(s) \in Nat
      BY SizeType
    <2>2. CASE o = m.size
      BY <1>2, <1>4, <2>1, <2>2
    <2>3. CASE o # m.size
      <3>1. o \in DOMAIN m.block /\ b.block[o] = m.block[o] /\ o + Size(m.block[o]) <= m.size
        BY <1>1, <1>4, <2>3 DEF Fits
      <3> QED
        BY <1>2, <3>1
    <2> QED
      BY <2>2, <2>3
  <1>7. ASSUME NEW t \in String, t # Empty, Occurs(m, t) PROVE Occurs(b, t)
    <2>1. PICK o \in DOMAIN m.block : m.block[o] = t
      BY <1>7 DEF Occurs
    <2>2. o + Size(t) <= m.size /\ Size(t) \in Nat /\ Size(t) > 0
      BY <1>1, <1>7, <2>1, SizeType DEF Fits
    <2>3. o # m.size
      BY <1>2, <2>1, <2>2
    <2> QED
      BY <1>4, <2>1, <2>3 DEF Occurs
  <1>8. HasStrings(b)
    <2> SUFFICES ASSUME NEW i \in 1..Len(m.data), NEW k \in 1..Fields, m.data[i][k] # Empty
                 PROVE  Occurs(b, m.data[i][k])
      BY <1>3 DEF HasStrings
    <2>1. m.data[i] \in Rows
      BY <1>2, ElementOfSeq
    <2>2. m.data[i][k] \in String
      BY <2>1 DEF Rows
    <2> QED
      BY <1>1, <1>7, <2>2 DEF HasStrings
  <1>9. Occurs(b, s)
    BY <1>4 DEF Occurs
  <1> QED
    BY <1>3, <1>4, <1>5, <1>6, <1>7, <1>8, <1>9 DEF MemOK, Keeps

LEMMA InternKeeps ==
  ASSUME NEW m, MemOK(m), NEW s \in String
  PROVE  /\ MemOK(Intern(m, s)) /\ Keeps(m, Intern(m, s))
         /\ s # Empty => Occurs(Intern(m, s), s)
         /\ Chain(m) => Chain(Intern(m, s))
  <1> DEFINE b == Intern(m, s)
  <1>1. CASE s = Empty \/ Occurs(m, s)
    BY <1>1 DEF Intern, Keeps
  <1>2. CASE ~ (s = Empty \/ Occurs(m, s))
    <2>1. Size(s) \in Nat /\ Size(s) > 0 /\ m \in DbcType /\ m.size \in Nat
      BY <1>2, SizeType, DbcTypeDef DEF MemOK
    <2> DEFINE r == Size(s) + 1
    <2>2. b = PutAtEnd(m, s, r)
      <3>1. b = [m EXCEPT !.block = Put(@, m.size, s), !.size = @ + Size(s) + 1]
        BY <1>2 DEF Intern
      <3>2. m.size + Size(s) + 1 = m.size + (Size(s) + 1)
        BY <2>1
      <3> QED
        BY <3>1, <3>2 DEF PutAtEnd
    <2>3. r \in Nat /\ Size(s) <= r
      BY <2>1
    <2> HIDE DEF b, r
    <2>4. /\ MemOK(b) /\ Keeps(m, b) /\ Occurs(b, s)
          /\ b.size = m.size + r
          /\ DOMAIN b.block = DOMAIN m.block \cup {m.size}
          /\ b.block[m.size] = s
          /\ \A o \in DOMAIN m.block : o # m.size => b.block[o] = m.block[o]
      BY <2>2, <2>3, PutKeeps
    <2>5. ASSUME Chain(m) PROVE Chain(b)
      <3>1. \A p \in DOMAIN m.block :
              /\ p \in Nat /\ Size(m.block[p]) \in Nat
              /\ p + Size(m.block[p]) + 1 <= m.size
              /\ p # m.size /\ b.block[p] = m.block[p]
        <4> TAKE p \in DOMAIN m.block
        <4>1. p \in Nat /\ Size(m.block[p]) \in Nat
          BY <2>1, DbcTypeDef
        <4>2. p + Size(m.block[p]) + 1 <= m.size
          BY <2>5 DEF Chain
        <4>3. p # m.size
          BY <2>1, <4>1, <4>2
        <4> QED
          BY <2>4, <4>1, <4>2, <4>3
      <3>2. 0 \in DOMAIN b.block /\ m.size # 0
        BY <2>4, <2>5, <3>1 DEF Chain
      <3>3. ASSUME NEW p \in DOMAIN b.block
            PROVE  /\ b.block[p] = Empty <=> p = 0
                   /\ p + Size(b.block[p]) + 1 <= b.size
                   /\ p + Size(b.block[p]) + 1 \in DOMAIN b.block \cup {b.size}
        <4>1. CASE p = m.size
          BY <1>2, <2>1, <2>4, <3>2, <4>1 DEF r
        <4>2. CASE p \in DOMAIN m.block
          <5>1. /\ m.block[p] = Empty <=> p = 0
                /\ p + Size(m.block[p]) + 1 \in DOMAIN m.block \cup {m.size}
            BY <2>5, <4>2 DEF Chain
          <5>2. p + Size(m.block[p]) + 1 <= b.size
            BY <2>1, <2>3, <2>4, <3>1, <4>2
          <5> QED
            BY <2>4, <3>1, <4>2, <5>1, <5>2
        <4> QED
          BY <2>4, <4>1, <4>2
      <3>4. ASSUME NEW p \in DOMAIN b.block, NEW q \in DOMAIN b.block, p < q
            PROVE  p + Size(b.block[p]) + 1 <= q
        <4>1. p \in DOMAIN m.block
          <5>1. p # m.size
            <6>1. q \in DOMAIN m.block \/ q = m.size
              BY <2>4
            <6>2. q \in Nat /\ q <= m.size
              BY <2>1, <3>1, <6>1
            <6> QED
              BY <2>1, <3>4, <6>2
          <5> QED
            BY <2>4, <5>1
        <4>2. CASE q = m.size
          BY <3>1, <4>1, <4>2
        <4>3. CASE q \in DOMAIN m.block
          BY <2>5, <3>1, <3>4, <4>1, <4>3 DEF Chain, Apart
        <4> QED
          BY <2>4, <4>2, <4>3
      <3> QED
        BY <3>2, <3>3, <3>4 DEF Chain, Apart
    <2> QED
      BY <2>4, <2>5 DEF b
  <1> QED
    BY <1>1, <1>2

LEMMA InternAllKeeps ==
  ASSUME NEW m, MemOK(m), NEW strings \in Seq(String)
  PROVE  /\ MemOK(InternAll(m, strings)) /\ Keeps(m, InternAll(m, strings))
         /\ \A j \in 1..Len(strings) :
                strings[j] # Empty => Occurs(InternAll(m, strings), strings[j])
         /\ Chain(m) => Chain(InternAll(m, strings))
  <1> DEFINE n == Len(strings)
             Def(f) == [k \in 0..n |-> IF k = 0 THEN m ELSE Intern(f[k - 1], strings[k])]
             after == CHOOSE f : f = Def(f)
  <1>1. n \in Nat /\ \A k \in 1..n : strings[k] \in String
    BY LenProperties, ElementOfSeq
  <1>2. \E f : f = Def(f)
    <2> DEFINE S == {x \in DbcType : MemOK(x)}
               step == [k \in 1..n |-> [x \in S |-> Intern(x, strings[k])]]
    <2>1. m \in S
      BY DEF MemOK
    <2>2. \A k \in 1..n : \A x \in S : Intern(x, strings[k]) \in S
      <3> TAKE k \in 1..n
      <3> TAKE x \in S
      <3>1. MemOK(Intern(x, strings[k]))
        BY <1>1, InternKeeps
      <3> QED
        BY <3>1 DEF MemOK
    <2>3. step \in [1..n -> [S -> S]]
      <3> HIDE DEF S, n
      <3> QED
        BY <2>2
    <2>4. PICK f : Iterates(f, n, S, m, step)
      <3> HIDE DEF step, n, S
      <3> QED
        BY <1>1, <2>1, <2>3, Recursion
    <2> HIDE DEF S
    <2>5. f \in [0..n -> S] /\ f[0] = m
      BY <2>4 DEF Iterates
    <2>6. ASSUME NEW k \in 1..n PROVE f[k] = Intern(f[k - 1], strings[k])
      <3>1. k - 1 \in 0..n
        BY <1>1
      <3>2. f[k] = step[k][f[k - 1]] /\ f[k - 1] \in S
        BY <2>4, <2>5, <3>1 DEF Iterates
      <3> QED
        BY <3>2
    <2>7. f = Def(f)
      <3>1. f = [k \in 0..n |-> f[k]]
        BY <2>5
      <3>2. \A k \in 0..n : f[k] = IF k = 0 THEN m ELSE Intern(f[k - 1], strings[k])
        <4>1. \A k \in 0..n : k = 0 \/ k \in 1..n
          BY <1>1
        <4> HIDE DEF n
        <4> QED
          BY <2>5, <2>6, <4>1
      <3> HIDE DEF n
      <3> QED
        BY <3>1, <3>2
    <2> QED
      BY <2>7
  <1>3. after = Def(after)
    <2> HIDE DEF Def
    <2> QED
      BY <1>2
  <1>4. InternAll(m, strings) = after[n]
    BY DEF InternAll
  <1>5. after[0] = m /\ \A k \in 1..n : after[k] = Intern(after[k - 1], strings[k])
    <2>1. after = [k \in 0..n |-> IF k = 0 THEN m ELSE Intern(after[k - 1], strings[k])]
      BY <1>3
    <2> HIDE DEF after, n, Def
    <2>2. \A k \in 0..n : after[k] = IF k = 0 THEN m ELSE Intern(after[k - 1], strings[k])
      BY <2>1
    <2>3. 0 \in 0..n /\ \A k \in 1..n : k \in 0..n /\ k # 0
      BY <1>1
    <2> QED
      BY <2>2, <2>3
  <1> HIDE DEF after, n, Def
  <1> DEFINE Good(k) == /\ MemOK(after[k]) /\ Keeps(m, after[k])
                        /\ \A j \in 1..k : strings[j] # Empty => Occurs(after[k], strings[j])
                        /\ Chain(m) => Chain(after[k])
             X == {k \in 0..n : Good(k)}
  <1>6. 0 \in X
    <2>1. Good(0)
      BY <1>5 DEF Keeps
    <2> QED
      BY <1>1, <2>1
  <1>7. ASSUME NEW k \in 0 .. n - 1, k \in X PROVE k + 1 \in X
    <2>1. k + 1 \in 1..n /\ (k + 1) - 1 = k /\ k \in Nat /\ k + 1 \in 0..n
      BY <1>1
    <2>2. after[k + 1] = Intern(after[k], strings[k + 1]) /\ strings[k + 1] \in String
      BY <1>1, <1>5, <2>1
    <2>3. Good(k)
      BY <1>7
    <2>4. /\ MemOK(after[k + 1]) /\ Keeps(after[k], after[k + 1])
          /\ strings[k + 1] # Empty => Occurs(after[k + 1], strings[k + 1])
          /\ Chain(after[k]) => Chain(after[k + 1])
      BY <2>2, <2>3, InternKeeps
    <2>5. Keeps(m, after[k + 1])
      BY <2>3, <2>4 DEF Keeps
    <2>6. ASSUME NEW j \in 1 .. k + 1, strings[j] # Empty PROVE Occurs(after[k + 1], strings[j])
      <3>1. CASE j = k + 1
        BY <2>4, <2>6, <3>1
      <3>2. CASE j # k + 1
        <4>1. j \in 1..k /\ j \in 1..n
          BY <1>1, <2>1, <3>2
        <4> QED
          BY <1>1, <2>3, <2>4, <2>6, <4>1 DEF Keeps
      <3> QED
        BY <3>1, <3>2
    <2>7. Good(k + 1)
      BY <2>3, <2>4, <2>5, <2>6
    <2> QED
      BY <2>1, <2>7
  <1>8. 0..n \subseteq X
    <2> HIDE DEF X
    <2>1. 0 \in Nat
      OBVIOUS
    <2> QED
      BY <1>1, <1>6, <1>7, <2>1, Induction
  <1>9. Good(n)
    <2>1. n \in 0..n
      BY <1>1
    <2> QED
      BY <1>8, <2>1
  <1> QED
    BY <1>4, <1>9 DEF n

-----------------------------------------------------------------------------
(***************************************************************************)
(* Exporting.                                                              *)
(***************************************************************************)

\* AppendFromCSVData has ended: the block ends in NUL.
Ended(m) ==
    /\ MemOK(m)
    /\ m.count = Len(m.data)
    /\ m.size \in DOMAIN m.block /\ m.block[m.size] = Empty

LEMMA OffsetsOfEnded ==
  ASSUME NEW m, Ended(m)
  PROVE  LET n == Cardinality(DOMAIN m.block)
             offs == Sorted(DOMAIN m.block)
         IN  /\ n \in Nat \ {0}
             /\ offs \in [1..n -> DOMAIN m.block]
             /\ \A i \in 1..n : offs[i] \in Nat
             /\ \A i \in 1..n, j \in 1..n : i < j => offs[i] < offs[j]
             /\ \A x \in DOMAIN m.block : x \in Nat /\ x <= m.size /\ \E i \in 1..n : offs[i] = x
             /\ offs[n] = m.size
  <1> DEFINE D == DOMAIN m.block
             n == Cardinality(D)
             offs == Sorted(D)
  <1>1. /\ m.size \in Nat /\ D \in SUBSET Nat
        /\ \A o \in D : o \in Nat /\ Size(m.block[o]) \in Nat /\ o + Size(m.block[o]) <= m.size
    BY DbcTypeDef DEF Ended, MemOK, Fits
  <1>2. m.size \in D
    BY DEF Ended
  <1> HIDE DEF D
  <1>3. \A o \in D : o \in Nat /\ o <= m.size
    BY <1>1
  <1>4. IsFiniteSet(D)
    BY <1>1, <1>3, FS_BoundedSetOfNaturals
  <1>5. /\ n \in Nat
        /\ offs \in [1..n -> D]
        /\ \A i \in 1..n, j \in 1..n : i < j => offs[i] < offs[j]
        /\ \A x \in D : \E i \in 1..n : offs[i] = x
    BY <1>1, <1>4, SortedDef
  <1> HIDE DEF offs, n
  <1>6. PICK k \in 1..n : offs[k] = m.size
    BY <1>2, <1>5
  <1>7. n \in Nat \ {0} /\ n \in 1..n /\ offs[n] \in D
    BY <1>5, <1>6
  <1>8. offs[n] = m.size
    <2>1. k < n => FALSE
      <3>1. k < n => offs[k] < offs[n]
        BY <1>5, <1>7
      <3>2. offs[n] \in Nat /\ offs[n] <= m.size
        BY <1>3, <1>7
      <3> QED
        BY <1>1, <1>6, <3>1, <3>2
    <2>2. k = n
      BY <1>5, <2>1
    <2> QED
      BY <1>6, <2>2
  <1> QED
    BY <1>3, <1>5, <1>7, <1>8 DEF offs, n, D

\* A clean block passes the test.
LEMMA ClosedIsContiguous ==
  ASSUME NEW m, Ended(m), Closed(m)
  PROVE  Contiguous(m.block)
  <1> DEFINE n == Cardinality(DOMAIN m.block)
             offs == Sorted(DOMAIN m.block)
  <1>1. /\ n \in Nat \ {0}
        /\ offs \in [1..n -> DOMAIN m.block]
        /\ \A i \in 1..n : offs[i] \in Nat
        /\ \A i \in 1..n, j \in 1..n : i < j => offs[i] < offs[j]
        /\ \A x \in DOMAIN m.block : x \in Nat /\ x <= m.size /\ \E i \in 1..n : offs[i] = x
    BY OffsetsOfEnded
  <1>2. /\ m.size \in Nat
        /\ \A o \in DOMAIN m.block : Size(m.block[o]) \in Nat
    BY DbcTypeDef DEF Ended, MemOK
  <1> HIDE DEF n, offs
  <1>3. offs[1] = 0
    <2>1. PICK k \in 1..n : offs[k] = 0
      BY <1>1 DEF Closed
    <2>2. 1 \in 1..n /\ offs[1] \in Nat
      BY <1>1
    <2>3. 1 < k => offs[1] < 0
      BY <1>1, <2>1, <2>2
    <2>4. k = 1
      BY <1>1, <2>2, <2>3
    <2> QED
      BY <2>1, <2>4
  <1>4. ASSUME NEW i \in 2..n
        PROVE  offs[i] = offs[i - 1] + Size(m.block[offs[i - 1]]) + 1
    <2>1. i - 1 \in 1..n /\ i \in 1..n /\ i - 1 < i
      BY <1>1
    <2> DEFINE p == offs[i - 1]
               next == p + Size(m.block[p]) + 1
    <2>2. p \in DOMAIN m.block /\ offs[i] \in DOMAIN m.block /\ p < offs[i]
          /\ p \in Nat /\ offs[i] \in Nat /\ offs[i] <= m.size /\ Size(m.block[p]) \in Nat
      BY <1>1, <1>2, <2>1
    <2> HIDE DEF p
    <2>3. next <= offs[i]
      BY <2>2 DEF Closed, Apart
    <2>4. next \in DOMAIN m.block
      <3>1. p < m.size
        BY <1>2, <2>2
      <3> QED
        BY <2>2, <3>1 DEF Closed
    <2>5. next \in Nat /\ p < next
      BY <2>2
    <2> HIDE DEF next
    <2>6. PICK k \in 1..n : offs[k] = next
      BY <1>1, <2>4
    <2>7. ~ (k < i - 1) /\ k # i - 1
      <3>1. k < i - 1 => next < p
        BY <1>1, <2>1, <2>6 DEF p
      <3>2. k = i - 1 => next = p
        BY <2>6 DEF p
      <3> QED
        BY <2>2, <2>5, <3>1, <3>2
    <2>8. k = i \/ i < k
      BY <1>1, <2>7
    <2>9. i < k => offs[i] < next
      BY <1>1, <2>1, <2>6
    <2>10. next = offs[i]
      BY <2>2, <2>3, <2>5, <2>6, <2>8, <2>9
    <2> QED
      BY <2>10 DEF next, p
  <1>5. DOMAIN offs = 1..n /\ \A i \in 1..n : i = 1 \/ i \in 2..n
    BY <1>1
  <1>6. \A i \in DOMAIN offs :
           offs[i] = IF i = 1 THEN 0 ELSE offs[i - 1] + Size(m.block[offs[i - 1]]) + 1
    BY <1>3, <1>4, <1>5
  <1> QED
    BY <1>6 DEF Contiguous, offs

\* Reading it back gives the block and the rows.
LEMMA ExportedIsOK ==
  ASSUME NEW m, Ended(m), Contiguous(m.block), NEW inv \in Inverses(m.block),
         NEW f, f = Written(m, inv, Strings(m.block))
  PROVE  /\ FileOK(f)
         /\ Extract(f).data = m.data
         /\ Closed(m) => CleanBlock(f.strings)
  <1> DEFINE D == DOMAIN m.block
             n == Cardinality(D)
             offs == Sorted(D)
             strings == [i \in 1..n |-> m.block[offs[i]]]
             records == [i \in DOMAIN m.data |->
                           [k \in 1..Fields |-> OffsetFor(inv, m.data[i][k])]]
  <1>1. /\ n \in Nat \ {0}
        /\ offs \in [1..n -> D]
        /\ \A i \in 1..n : offs[i] \in Nat
        /\ \A i \in 1..n, j \in 1..n : i < j => offs[i] < offs[j]
        /\ \A x \in D : x \in Nat /\ x <= m.size /\ \E i \in 1..n : offs[i] = x
        /\ offs[n] = m.size
    BY OffsetsOfEnded
  <1>2. /\ m.size \in Nat /\ m.count \in Nat /\ m.data \in Seq(Rows) /\ m.count = Len(m.data)
        /\ m.block \in [D -> String]
        /\ \A o \in D : o \in Nat /\ m.block[o] \in String
        /\ m.size \in D /\ m.block[m.size] = Empty
        /\ HasStrings(m)
    BY DbcTypeDef DEF Ended, MemOK
  <1>3. \A i \in 1..n :
           offs[i] = IF i = 1 THEN 0 ELSE offs[i - 1] + Size(m.block[offs[i - 1]]) + 1
    BY <1>1 DEF Contiguous
  <1>4. inv \in [{m.block[o] : o \in D} -> D] /\ \A o \in D : m.block[inv[m.block[o]]] = m.block[o]
    BY DEF Inverses
  <1>5. f = [count |-> m.count, blockSize |-> m.size, records |-> records, strings |-> strings]
    <2>1. DOMAIN offs = 1..n
      BY <1>1
    <2>2. Strings(m.block) = strings
      BY <2>1 DEF Strings
    <2> QED
      BY <2>2 DEF Written
  <1> HIDE DEF offs, n, D
  <1>6. strings \in Seq(String) /\ Len(strings) = n /\ strings # <<>>
    <2>1. strings \in [1..n -> String]
      BY <1>1, <1>2
    <2>2. DOMAIN strings = 1..n
      OBVIOUS
    <2> HIDE DEF strings
    <2>3. strings \in Seq(String) /\ Len(strings) = n
      BY <1>1, <2>1, <2>2
    <2> QED
      BY <1>1, <2>3, EmptySeq
  <1>7. \A i \in 1..n : strings[i] = m.block[offs[i]]
    OBVIOUS
  <1> HIDE DEF strings
  <1>8. Offsets(strings) = offs
    <2>1. offs \in [1..Len(strings) -> Nat] /\ offs[1] = 0
      BY <1>1, <1>3, <1>6
    <2>2. \A i \in 2 .. Len(strings) : offs[i] = offs[i - 1] + Size(strings[i - 1]) + 1
      <3> TAKE i \in 2 .. Len(strings)
      <3>1. i \in 1..n /\ i - 1 \in 1..n /\ i # 1
        BY <1>1, <1>6
      <3> QED
        BY <1>3, <1>7, <3>1
    <2> QED
      BY <1>6, <2>1, <2>2, OffsetsUnique
  <1>9. m.size = Bytes(strings)
    <2>1. Bytes(strings) = offs[n] + Size(strings[n])
      BY <1>6, <1>8 DEF Bytes, Last
    <2>2. n \in 1..n
      BY <1>1
    <2>3. strings[n] = Empty
      BY <1>1, <1>2, <1>7, <2>2
    <2> QED
      BY <1>1, <1>2, <2>1, <2>3 DEF Size
  <1>10. Block(strings) = m.block
    <2>1. /\ Block(strings) \in [DOMAIN Block(strings) -> String]
          /\ DOMAIN Block(strings) = {offs[i] : i \in 1..n}
          /\ \A i \in 1..n : Block(strings)[offs[i]] = strings[i]
      BY <1>6, <1>8, BlockDef
    <2>2. DOMAIN Block(strings) = D
      BY <1>1, <2>1
    <2>3. \A o \in D : Block(strings)[o] = m.block[o]
      BY <1>1, <1>7, <2>1
    <2>4. Block(strings) = [o \in D |-> Block(strings)[o]] /\ m.block = [o \in D |-> m.block[o]]
      BY <1>2, <2>1, <2>2
    <2> QED
      BY <2>3, <2>4
  <1>11. \A i \in 1 .. m.count : m.data[i] \in [1..Fields -> String]
    BY <1>2, ElementOfSeq DEF Rows
  <1>12. ASSUME NEW i \in 1 .. m.count, NEW k \in 1..Fields
         PROVE  /\ OffsetFor(inv, m.data[i][k]) \in D
                /\ m.block[OffsetFor(inv, m.data[i][k])] = m.data[i][k]
    <2>1. \E o \in D : m.block[o] = m.data[i][k]
      <3>1. CASE m.data[i][k] = Empty
        BY <1>2, <3>1
      <3>2. CASE m.data[i][k] # Empty
        BY <1>2, <3>2 DEF HasStrings, Occurs, D
      <3> QED
        BY <3>1, <3>2
    <2>2. PICK o \in D : m.block[o] = m.data[i][k]
      BY <2>1
    <2>3. inv[m.data[i][k]] \in D /\ m.data[i][k] \in DOMAIN inv /\ m.block[inv[m.data[i][k]]] = m.data[i][k]
      BY <1>4, <2>2
    <2> QED
      BY <2>3 DEF OffsetFor
  <1>13. /\ records \in Seq([1..Fields -> Int]) /\ Len(records) = m.count
         /\ \A i \in 1 .. m.count : records[i] = [k \in 1..Fields |-> OffsetFor(inv, m.data[i][k])]
    <2>1. DOMAIN m.data = 1 .. m.count
      BY <1>2, LenProperties
    <2>2. \A i \in 1 .. m.count, k \in 1..Fields : OffsetFor(inv, m.data[i][k]) \in Int
      BY <1>2, <1>12
    <2>3. records \in [1 .. m.count -> [1..Fields -> Int]]
      BY <2>1, <2>2
    <2>4. \A i \in 1 .. m.count : records[i] = [k \in 1..Fields |-> OffsetFor(inv, m.data[i][k])]
      BY <2>1
    <2> HIDE DEF records
    <2>5. records \in Seq([1..Fields -> Int]) /\ Len(records) = m.count
      <3> DEFINE S == [1..Fields -> Int]
      <3>1. records \in [1 .. m.count -> S]
        BY <2>3
      <3> HIDE DEF S
      <3>2. records \in Seq(S) /\ Len(records) = m.count
        BY <1>2, <3>1
      <3> QED
        BY <3>2 DEF S
    <2> QED
      BY <2>4, <2>5
  <1> HIDE DEF records
  <1>14. FileOK(f)
    BY <1>2, <1>5, <1>6, <1>9, <1>13 DEF FileOK, FileType
  <1>15. Extract(f).data = m.data
    <2>1. Extract(f).data = [i \in 1 .. m.count |-> Row(m.block, records[i])]
      BY <1>5, <1>10 DEF Extract
    <2>2. ASSUME NEW i \in 1 .. m.count PROVE Row(m.block, records[i]) = m.data[i]
      <3>1. records[i] = [k \in 1..Fields |-> OffsetFor(inv, m.data[i][k])]
        BY <1>13
      <3>2. Row(m.block, records[i]) = [k \in 1..Fields |-> StringAt(m.block, OffsetFor(inv, m.data[i][k]))]
        BY <3>1 DEF Row
      <3>3. \A k \in 1..Fields : StringAt(m.block, OffsetFor(inv, m.data[i][k])) = m.data[i][k]
        BY <1>12 DEF StringAt, D
      <3>4. m.data[i] = [k \in 1..Fields |-> m.data[i][k]]
        BY <1>11
      <3> QED
        BY <3>2, <3>3, <3>4
    <2>3. m.data = [i \in 1 .. m.count |-> m.data[i]]
      BY <1>2, LenProperties
    <2> QED
      BY <2>1, <2>2, <2>3
  <1>16. ASSUME Closed(m) PROVE CleanBlock(strings)
    <2>1. 1 \in 1..n /\ n \in 1..n /\ offs[1] = 0
      BY <1>1, <1>3
    <2>2. n # 1
      BY <1>1, <1>16, <2>1 DEF Closed
    <2>3. n >= 2 /\ DOMAIN strings = 1..n
      <3>1. DOMAIN strings = 1..n
        BY DEF strings
      <3> QED
        BY <1>1, <2>2, <3>1
    <2>4. ASSUME NEW i \in 1..n PROVE strings[i] = Empty <=> i \in {1, n}
      <3>1. strings[i] = Empty <=> offs[i] = 0 \/ offs[i] = m.size
        BY <1>1, <1>7, <1>16 DEF Closed, D
      <3>2. offs[i] = 0 <=> i = 1
        <4>1. 1 < i => offs[1] < offs[i]
          BY <1>1, <2>1
        <4> QED
          BY <1>1, <2>1, <4>1
      <3>3. offs[i] = m.size <=> i = n
        <4>1. i < n => offs[i] < offs[n]
          BY <1>1, <2>1
        <4> QED
          BY <1>1, <1>2, <2>1, <4>1
      <3> QED
        BY <3>1, <3>2, <3>3
    <2> QED
      BY <1>6, <2>3, <2>4 DEF CleanBlock
  <1> QED
    BY <1>5, <1>14, <1>15, <1>16

-----------------------------------------------------------------------------
(***************************************************************************)
(* The inductive invariant.                                                *)
(***************************************************************************)

\* The rows of file f are the first rows of m.
KeptIn(f, m) ==
    /\ Len(Extract(f).data) <= Len(m.data)
    /\ \A i \in 1..Len(Extract(f).data) : m.data[i] = Extract(f).data[i]

InvAppend == pc = "append" => mem = Extract(source)

InvRows ==
    pc = "rows" =>
        /\ MemOK(mem) /\ KeptIn(source, mem)
        /\ rows \in Seq(CsvRow)
        /\ mem.count = Len(mem.data) + Len(rows)
        /\ CleanBlock(source.strings) => Chain(mem)

InvExport ==
    pc = "export" =>
        /\ Ended(mem) /\ KeptIn(source, mem)
        /\ CleanBlock(source.strings) => Closed(mem)

\* The output is broken from the time it is opened until a run has finished.
InvFile ==
    /\ Whole(file) => FileOK(file)
    /\ pc = "done" => Whole(file)
    /\ pc \in {"append", "rows", "export", "failed", "refused"} => ~ Whole(file)

IInv ==
    /\ pc \in {"extract", "append", "rows", "export", "done", "failed", "refused"}
    /\ FileOK(source)
    /\ InvAppend
    /\ InvRows
    /\ InvExport
    /\ InvFile
    /\ ReadsBack
    /\ KeepsRows

LEMMA InitIInv == Init => IInv
  BY SourceAssumption
  DEF Init, NoFile, Whole, IInv, FileOK, FileType, InvAppend, InvRows, InvExport, InvFile, ReadsBack, KeepsRows

LEMMA BeginAppendIInv == IInv /\ BeginAppend => IInv'
  <1> SUFFICES ASSUME IInv, BeginAppend PROVE IInv'
    OBVIOUS
  <1>1. PICK csv \in CsvData :
          IF csv.fields # Fields
             THEN pc' = "failed" /\ UNCHANGED <<mem, rows>>
             ELSE /\ pc' = "rows"
                  /\ rows' = csv.rows
                  /\ mem' = [mem EXCEPT !.count = @ + Len(csv.rows),
                                        !.block = DropEmpties(@)]
    BY DEF BeginAppend
  <1>2. /\ FileOK(source) /\ source' = source /\ file' = file /\ ~ Whole(file)
        /\ pc = "append" /\ mem = Extract(source)
    BY DEF IInv, InvAppend, InvFile, BeginAppend
  <1>3. CASE csv.fields # Fields
    BY <1>1, <1>2, <1>3 DEF IInv, InvAppend, InvRows, InvExport, InvFile, ReadsBack, KeepsRows
  <1>4. CASE ~ (csv.fields # Fields)
    <2>1. csv.rows \in Seq(CsvRow)
      BY SourceAssumption
    <2>2. MemOK(mem) /\ mem.count = Len(mem.data) /\ mem.count \in Nat /\ mem.data \in Seq(Rows)
      BY <1>2, ExtractIsOK, DbcTypeDef DEF MemOK
    <2> DEFINE c == mem.count + Len(csv.rows)
    <2>3. c \in Nat
      <3>1. Len(csv.rows) \in Nat /\ mem.count \in Nat
        BY <2>1, <2>2, LenProperties
      <3> QED
        BY <3>1
    <2>4. mem' = WithoutEmpties(mem, c)
      BY <1>1, <1>4 DEF WithoutEmpties
    <2>5. c = Len(mem.data) + Len(csv.rows)
      BY <2>2
    <2> HIDE DEF c
    <2>6. MemOK(mem') /\ mem'.count = c /\ mem'.data = mem.data
      BY <2>2, <2>3, <2>4, DropEmptiesIsOK
    <2>7. CleanBlock(source.strings) => Chain(mem')
      BY <1>2, <2>3, <2>4, DropEmptiesOfClean
    <2>8. KeptIn(source, mem')
      <3>1. Len(mem.data) \in Nat
        BY <2>2, LenProperties
      <3> QED
        BY <1>2, <2>6, <3>1 DEF KeptIn
    <2>9. pc' = "rows" /\ rows' = csv.rows
      BY <1>1, <1>4
    <2> QED
      BY <1>2, <2>1, <2>5, <2>6, <2>7, <2>8, <2>9 DEF IInv, InvAppend, InvRows, InvExport, InvFile, ReadsBack, KeepsRows
  <1> QED
    BY <1>3, <1>4

LEMMA AppendRowIInv == IInv /\ AppendRow => IInv'
  <1> SUFFICES ASSUME IInv, AppendRow PROVE IInv'
    OBVIOUS
  <1> DEFINE row == Head(rows)
             m == InternAll(mem, row.strings)
  <1>1. /\ FileOK(source) /\ source' = source /\ file' = file /\ ~ Whole(file)
        /\ pc = "rows" /\ rows # <<>>
        /\ MemOK(mem) /\ KeptIn(source, mem) /\ rows \in Seq(CsvRow)
        /\ mem.count = Len(mem.data) + Len(rows)
        /\ CleanBlock(source.strings) => Chain(mem)
    BY DEF IInv, InvRows, InvFile, AppendRow
  <1>2. IF Len(row.strings) # Fields
           THEN pc' = "failed" /\ UNCHANGED <<mem, rows>>
           ELSE IF ~row.parses
                   THEN pc' = "failed" /\ mem' = m /\ UNCHANGED rows
                   ELSE /\ mem' = [m EXCEPT !.data = Append(@, row.strings)]
                        /\ rows' = Tail(rows)
                        /\ UNCHANGED pc
    BY DEF AppendRow
  <1>3. CASE pc' = "failed"
    BY <1>1, <1>3 DEF IInv, InvAppend, InvRows, InvExport, InvFile, ReadsBack, KeepsRows
  <1>4. CASE Len(row.strings) = Fields /\ row.parses
    <2>1. row \in CsvRow /\ Tail(rows) \in Seq(CsvRow) /\ Len(Tail(rows)) = Len(rows) - 1 /\ Len(rows) \in Nat
      BY <1>1, HeadTailProperties, LenProperties
    <2>2. row.strings \in Seq(String)
      BY <2>1 DEF CsvRow
    <2> HIDE DEF row
    <2>3. /\ MemOK(m) /\ Keeps(mem, m)
          /\ \A j \in 1..Fields : row.strings[j] # Empty => Occurs(m, row.strings[j])
          /\ Chain(mem) => Chain(m)
      BY <1>1, <1>4, <2>2, InternAllKeeps
    <2>4. row.strings \in Rows
      BY <1>4, <2>2, LenProperties DEF Rows
    <2> HIDE DEF m
    <2>5. /\ m \in DbcType /\ Fits(m) /\ HasStrings(m) /\ m.data \in Seq(Rows) /\ m.data = mem.data
          /\ m.count = mem.count /\ Len(m.data) \in Nat
      BY <2>3, DbcTypeDef, LenProperties DEF MemOK, Keeps
    <2>6. /\ mem'.data = Append(m.data, row.strings) /\ mem'.count = m.count
          /\ mem'.size = m.size /\ mem'.block = m.block
          /\ mem' = [count |-> m.count, size |-> m.size, block |-> m.block, data |-> mem'.data]
      BY <1>2, <1>4, <2>5 DEF DbcType
    <2>7. /\ mem'.data \in Seq(Rows) /\ Len(mem'.data) = Len(m.data) + 1
          /\ \A i \in 1..Len(m.data) : mem'.data[i] = m.data[i]
          /\ mem'.data[Len(m.data) + 1] = row.strings
      BY <2>4, <2>5, <2>6, AppendProperties
    <2>8. MemOK(mem')
      <3>1. mem' \in DbcType
        BY <2>5, <2>6, <2>7 DEF DbcType
      <3>2. Fits(mem')
        BY <2>5, <2>6 DEF Fits
      <3>3. ASSUME NEW i \in 1..Len(mem'.data), NEW k \in 1..Fields, mem'.data[i][k] # Empty
            PROVE  Occurs(mem', mem'.data[i][k])
        <4>1. CASE i = Len(m.data) + 1
          BY <2>3, <2>6, <2>7, <3>3, <4>1 DEF Occurs
        <4>2. CASE i # Len(m.data) + 1
          <5>1. i \in 1..Len(m.data)
            BY <2>5, <2>7, <4>2
          <5> QED
            BY <2>5, <2>6, <2>7, <3>3, <5>1 DEF HasStrings, Occurs
        <4> QED
          BY <4>1, <4>2
      <3> QED
        BY <3>1, <3>2, <3>3 DEF MemOK, HasStrings
    <2>9. CleanBlock(source.strings) => Chain(mem')
      BY <1>1, <2>3, <2>6 DEF Chain, Apart
    <2>10. KeptIn(source, mem')
      <3>1. Len(Extract(source).data) <= Len(m.data) /\ Len(Extract(source).data) \in Nat
        BY <1>1, <2>5, ExtractIsOK, DbcTypeDef, LenProperties DEF KeptIn, MemOK
      <3>2. \A i \in 1..Len(Extract(source).data) : i \in 1..Len(m.data) /\ m.data[i] = Extract(source).data[i]
        BY <1>1, <2>5, <3>1 DEF KeptIn
      <3> QED
        BY <2>5, <2>7, <3>1, <3>2 DEF KeptIn
    <2>11. pc' = "rows" /\ rows' = Tail(rows)
      BY <1>1, <1>2, <1>4
    <2>12. mem'.count = Len(mem'.data) + Len(rows')
      BY <1>1, <2>1, <2>5, <2>6, <2>7, <2>11
    <2> QED
      BY <1>1, <2>1, <2>8, <2>9, <2>10, <2>11, <2>12
      DEF IInv, InvAppend, InvRows, InvExport, InvFile, ReadsBack, KeepsRows
  <1> QED
    BY <1>2, <1>3, <1>4

LEMMA EndAppendIInv == IInv /\ EndAppend => IInv'
  <1> SUFFICES ASSUME IInv, EndAppend PROVE IInv'
    OBVIOUS
  <1>1. /\ FileOK(source) /\ source' = source /\ file' = file /\ ~ Whole(file)
        /\ pc = "rows" /\ rows = <<>> /\ pc' = "export"
        /\ MemOK(mem) /\ KeptIn(source, mem)
        /\ mem.count = Len(mem.data) + Len(rows)
        /\ CleanBlock(source.strings) => Chain(mem)
    BY DEF IInv, InvRows, InvFile, EndAppend
  <1>2. /\ mem \in DbcType /\ mem.size \in Nat /\ mem.data \in Seq(Rows) /\ Len(mem.data) \in Nat
        /\ \A o \in DOMAIN mem.block : o \in Nat /\ Size(mem.block[o]) \in Nat
    BY <1>1, DbcTypeDef, LenProperties DEF MemOK
  <1>3. mem' = PutAtEnd(mem, Empty, 0)
    <2>1. mem' = [mem EXCEPT !.block = Put(mem.block, mem.size, Empty)]
      BY DEF EndAppend
    <2>2. PutAtEnd(mem, Empty, 0)
            = [mem EXCEPT !.block = Put(mem.block, mem.size, Empty), !.size = mem.size]
      <3>1. mem.size + 0 = mem.size
        BY <1>2
      <3> QED
        BY <3>1, Zenon DEF PutAtEnd
    <2>3. mem = [count |-> mem.count, size |-> mem.size, block |-> mem.block, data |-> mem.data]
      BY <1>2 DEF DbcType
    <2> QED
      BY <2>1, <2>2, <2>3
  <1>4. Size(Empty) = 0
    BY DEF Size
  <1>5. /\ MemOK(mem') /\ Keeps(mem, mem') /\ Occurs(mem', Empty)
        /\ mem'.size = mem.size
        /\ DOMAIN mem'.block = DOMAIN mem.block \cup {mem.size}
        /\ mem'.block[mem.size] = Empty
        /\ \A o \in DOMAIN mem.block : o # mem.size => mem'.block[o] = mem.block[o]
    <2>1. Size(Empty) <= 0 /\ 0 \in Nat /\ mem.size + 0 = mem.size
      BY <1>2, <1>4
    <2> QED
      BY <1>1, <1>3, <2>1, EmptyIsString, PutKeeps
  <1>6. Ended(mem')
    <2>1. Len(<<>>) = 0
      OBVIOUS
    <2> QED
      BY <1>1, <1>2, <1>5, <2>1 DEF Ended, Keeps
  <1>7. KeptIn(source, mem')
    BY <1>1, <1>5 DEF KeptIn, Keeps
  <1>8. ASSUME Chain(mem) PROVE Closed(mem')
    <2>1. \A p \in DOMAIN mem.block :
            /\ p \in Nat /\ Size(mem.block[p]) \in Nat
            /\ p + Size(mem.block[p]) + 1 <= mem.size
            /\ p # mem.size /\ mem'.block[p] = mem.block[p]
      <3> TAKE p \in DOMAIN mem.block
      <3>1. p \in Nat /\ Size(mem.block[p]) \in Nat
        BY <1>2
      <3>2. p + Size(mem.block[p]) + 1 <= mem.size
        BY <1>8 DEF Chain
      <3>3. p # mem.size
        BY <1>2, <3>1, <3>2
      <3> QED
        BY <1>5, <3>1, <3>2, <3>3
    <2>2. 0 \in DOMAIN mem'.block /\ mem'.size \in DOMAIN mem'.block /\ 0 < mem'.size
      <3>1. 0 \in DOMAIN mem.block
        BY <1>8 DEF Chain
      <3>2. 0 < mem.size
        BY <1>2, <2>1, <3>1
      <3> QED
        BY <1>5, <3>1, <3>2
    <2>3. ASSUME NEW p \in DOMAIN mem'.block
          PROVE  /\ mem'.block[p] = Empty <=> p = 0 \/ p = mem'.size
                 /\ p < mem'.size => p + Size(mem'.block[p]) + 1 \in DOMAIN mem'.block
      <3>1. CASE p = mem.size
        BY <1>2, <1>5, <3>1
      <3>2. CASE p \in DOMAIN mem.block
        <4>1. /\ mem.block[p] = Empty <=> p = 0
              /\ p + Size(mem.block[p]) + 1 \in DOMAIN mem.block \cup {mem.size}
          BY <1>8, <3>2 DEF Chain
        <4> QED
          BY <1>5, <2>1, <3>2, <4>1
      <3> QED
        BY <1>5, <3>1, <3>2
    <2>4. ASSUME NEW p \in DOMAIN mem'.block, NEW q \in DOMAIN mem'.block, p < q
          PROVE  p + Size(mem'.block[p]) + 1 <= q
      <3>1. q \in DOMAIN mem.block \/ q = mem.size
        BY <1>5
      <3>2. q \in Nat /\ q <= mem.size
        BY <1>2, <2>1, <3>1
      <3>3. p \in DOMAIN mem.block
        BY <1>2, <1>5, <2>4, <3>2
      <3>4. CASE q = mem.size
        BY <2>1, <3>3, <3>4
      <3>5. CASE q \in DOMAIN mem.block
        BY <1>8, <2>1, <2>4, <3>3, <3>5 DEF Chain, Apart
      <3> QED
        BY <3>1, <3>4, <3>5
    <2> QED
      BY <2>2, <2>3, <2>4 DEF Closed, Apart
  <1> QED
    BY <1>1, <1>6, <1>7, <1>8 DEF IInv, InvAppend, InvRows, InvExport, InvFile, ReadsBack, KeepsRows

LEMMA PrefixDef ==
  ASSUME NEW S, NEW s \in Seq(S), NEW t \in Seq(S), Len(s) <= Len(t),
         \A i \in 1..Len(s) : t[i] = s[i]
  PROVE  IsPrefix(s, t)
  <1> DEFINE n == Len(s)
             p == SubSeq(t, 1, n)
  <1>1. n \in Nat /\ Len(t) \in Nat /\ n <= Len(t)
    BY LenProperties
  <1>2. \A i \in 1..n : t[i] \in S
    BY ElementOfSeq
  <1> HIDE DEF n
  <1>3. p \in Seq(S) /\ Len(p) = n /\ \A i \in 1..n : p[i] = t[i]
    <2>1. /\ p \in Seq(S)
          /\ Len(p) = IF 1 <= n THEN n - 1 + 1 ELSE 0
          /\ \A i \in 1 .. n - 1 + 1 : p[i] = t[1 + i - 1]
      BY <1>1, <1>2, SubSeqProperties
    <2> HIDE DEF p
    <2>2. \A i \in 1..n : i \in 1 .. n - 1 + 1 /\ 1 + i - 1 = i
      BY <1>1
    <2>3. (IF 1 <= n THEN n - 1 + 1 ELSE 0) = n
      BY <1>1
    <2> QED
      BY <2>1, <2>2, <2>3
  <1>4. p = s
    <2> HIDE DEF p
    <2>1. Len(p) = Len(s) /\ \A i \in 1..Len(p) : p[i] = s[i]
      BY <1>3 DEF n
    <2> QED
      BY <1>3, <2>1, SeqEqual
  <1>5. SubSeq(s, 1, Len(s)) = s
    BY SubSeqFull
  <1> QED
    BY <1>1, <1>4, <1>5 DEF IsPrefix, n

LEMMA PrefixRefl ==
  ASSUME NEW S, NEW s \in Seq(S)
  PROVE  IsPrefix(s, s)
  <1>1. Len(s) <= Len(s)
    BY LenProperties
  <1> QED
    BY <1>1, PrefixDef

\* What Export does: it refuses the block and leaves it out, or writes a file
\* that reads back and begins with the rows of the source.
LEMMA ExportDef ==
  ASSUME IInv, Export
  PROVE  /\ pc = "export" /\ mem' = mem /\ source' = source /\ Ended(mem)
         /\ \/ /\ pc' = "done" /\ Whole(file') /\ FileOK(file')
               /\ Extract(file').data = mem.data
               /\ IsPrefix(Extract(source).data, Extract(file').data)
               /\ Closed(mem) => CleanBlock(file'.strings)
            \/ pc' = "refused" /\ ~ Whole(file') /\ ~ Contiguous(mem.block)
  <1>1. pc = "export" /\ mem' = mem /\ source' = source /\ Ended(mem)
    BY DEF IInv, InvExport, Export
  <1>2. CASE Contiguous(mem.block)
    <2>1. PICK inv \in Inverses(mem.block) : file' = Written(mem, inv, Strings(mem.block))
      BY <1>2 DEF Export
    <2>2. pc' = "done"
      BY <1>2 DEF Export
    <2>3. /\ FileOK(file') /\ Extract(file').data = mem.data
          /\ Closed(mem) => CleanBlock(file'.strings)
      BY <1>1, <1>2, <2>1, ExportedIsOK
    <2>4. IsPrefix(Extract(source).data, mem.data)
      <3>1. FileOK(source) /\ KeptIn(source, mem)
        BY <1>1 DEF IInv, InvExport
      <3>2. Extract(source).data \in Seq(Rows) /\ mem.data \in Seq(Rows)
        BY <1>1, <3>1, ExtractIsOK, DbcTypeDef DEF MemOK, Ended
      <3> QED
        BY <3>1, <3>2, PrefixDef DEF KeptIn
    <2> QED
      BY <1>1, <2>2, <2>3, <2>4 DEF FileOK, Whole
  <1>3. CASE ~ Contiguous(mem.block)
    <2>1. PICK inv \in Inverses(mem.block) : file' = Written(mem, inv, <<>>)
      BY <1>3 DEF Export
    <2>2. ~ Whole(file')
      BY <2>1 DEF Whole, Written
    <2> QED
      BY <1>1, <1>3, <2>2 DEF Export
  <1> QED
    BY <1>2, <1>3

LEMMA ExportIInv == IInv /\ Export => IInv'
  <1> SUFFICES ASSUME IInv, Export PROVE IInv'
    OBVIOUS
  <1>1. FileOK(source)
    BY DEF IInv
  <1> QED
    BY <1>1, ExportDef DEF IInv, InvAppend, InvRows, InvExport, InvFile, ReadsBack, KeepsRows

\* A run on the finished output starts from a file whose rows are its own.
LEMMA RunAgainIInv == IInv /\ RunAgain => IInv'
  <1> SUFFICES ASSUME IInv, RunAgain PROVE IInv'
    OBVIOUS
  <1>1. /\ file' = file /\ pc' = "extract"
        /\ source' = source \/ (pc = "done" /\ source' = file)
    BY DEF RunAgain
  <1>2. FileOK(source) /\ InvFile /\ KeepsRows
    BY DEF IInv
  <1>3. CASE source' = source
    BY <1>1, <1>2, <1>3 DEF IInv, InvAppend, InvRows, InvExport, InvFile, ReadsBack, KeepsRows
  <1>4. CASE pc = "done" /\ source' = file
    <2>1. FileOK(file)
      BY <1>2, <1>4 DEF InvFile
    <2>2. Extract(file).data \in Seq(Rows)
      BY <2>1, ExtractIsOK, DbcTypeDef DEF MemOK
    <2>3. IsPrefix(Extract(file).data, Extract(file).data)
      BY <2>2, PrefixRefl
    <2> QED
      BY <1>1, <1>2, <1>4, <2>1, <2>3
      DEF IInv, InvAppend, InvRows, InvExport, InvFile, ReadsBack, KeepsRows
  <1> QED
    BY <1>1, <1>3, <1>4

LEMMA NextIInv == IInv /\ [Next]_vars => IInv'
  <1> SUFFICES ASSUME IInv, [Next]_vars PROVE IInv'
    OBVIOUS
  <1>1. CASE ReadDbc
    BY <1>1
    DEF ReadDbc, NoFile, Whole, IInv, InvAppend, InvRows, InvExport, InvFile, ReadsBack, KeepsRows
  <1>2. CASE BeginAppend
    BY <1>2, BeginAppendIInv
  <1>3. CASE AppendRow
    BY <1>3, AppendRowIInv
  <1>4. CASE EndAppend
    BY <1>4, EndAppendIInv
  <1>5. CASE Export
    BY <1>5, ExportIInv
  <1>6. CASE RunAgain
    BY <1>6, RunAgainIInv
  <1>7. CASE UNCHANGED vars
    BY <1>7 DEF vars, IInv, InvAppend, InvRows, InvExport, InvFile, ReadsBack, KeepsRows
  <1> QED
    BY <1>1, <1>2, <1>3, <1>4, <1>5, <1>6, <1>7 DEF Next

LEMMA SpecIInv == Spec => []IInv
  BY InitIInv, NextIInv, PTL DEF Spec

-----------------------------------------------------------------------------
\* The header of an exported file gives its record count and the size of its
\* string block, whatever was appended.
THEOREM HeaderFitsHolds == Spec => []HeaderFits
  <1>1. IInv => HeaderFits
    BY DEF IInv, InvFile, FileOK, HeaderFits
  <1> QED
    BY <1>1, SpecIInv, PTL

\* Every field of an exported file reads back as the string it had in memory:
\* no string was written over, whichever offset the map gave for it.
THEOREM ReadsBackHolds == Spec => []ReadsBack
  <1>1. IInv => ReadsBack
    BY DEF IInv
  <1> QED
    BY <1>1, SpecIInv, PTL

\* In every state, after runs that finished, failed or were refused, an output
\* that is whole begins with all the rows of the file its run has read.
THEOREM KeepsRowsHolds == Spec => []KeepsRows
  <1>1. IInv => KeepsRows
    BY DEF IInv
  <1> QED
    BY <1>1, SpecIInv, PTL

\* What was read from a file with a clean block is exported, and with a clean
\* block again.
THEOREM CleanIsExportedHolds == Spec => CleanIsExported
  <1>1. IInv /\ [Next]_vars => [pc = "export" /\ CleanBlock(source.strings) =>
                                  pc' = "done" /\ CleanBlock(file'.strings)]_vars
    <2> SUFFICES ASSUME IInv, Next, pc = "export", CleanBlock(source.strings)
                 PROVE  pc' = "done" /\ CleanBlock(file'.strings)
      OBVIOUS
    <2>1. Export
      BY DEF Next, ReadDbc, BeginAppend, AppendRow, EndAppend, RunAgain
    <2>2. Closed(mem)
      BY DEF IInv, InvExport
    <2> QED
      BY <2>1, <2>2, ExportDef, ClosedIsContiguous
  <1> QED
    BY <1>1, SpecIInv, PTL DEF Spec, CleanIsExported

\* The game's files have clean blocks: the generator never refuses one that it
\* has extended itself, however often it is run.
StaysClean ==
    /\ CleanBlock(source.strings)
    /\ Whole(file) => CleanBlock(file.strings)
    /\ pc # "refused"

THEOREM CleanFilesStayClean ==
  (\A f \in Sources : CleanBlock(f.strings)) /\ Spec => []StaysClean
  <1>1. (\A f \in Sources : CleanBlock(f.strings)) /\ Init => StaysClean
    BY DEF Init, NoFile, Whole, StaysClean
  <1>2. IInv /\ StaysClean /\ [Next]_vars => StaysClean'
    <2> SUFFICES ASSUME IInv, StaysClean, [Next]_vars PROVE StaysClean'
      OBVIOUS
    <2>1. CASE Export
      <3>1. Ended(mem) /\ Closed(mem) /\ CleanBlock(source.strings)
        BY <2>1, ExportDef DEF IInv, InvExport, StaysClean
      <3> QED
        BY <2>1, <3>1, ExportDef, ClosedIsContiguous DEF StaysClean
    <2>2. CASE RunAgain
      <3>1. /\ pc' = "extract" /\ file' = file
            /\ source' = source \/ (pc = "done" /\ source' = file)
        BY <2>2 DEF RunAgain
      <3>2. pc = "done" => Whole(file)
        BY DEF IInv, InvFile
      <3> QED
        BY <3>1, <3>2 DEF StaysClean
    <2>3. CASE ~ Export /\ ~ RunAgain
      <3>1. source' = source /\ (file' = file \/ file' = NoFile)
        BY <2>3 DEF Next, ReadDbc, BeginAppend, AppendRow, EndAppend, vars
      <3>2. pc' # "refused"
        BY <2>3 DEF StaysClean, Next, ReadDbc, BeginAppend, AppendRow, EndAppend, vars
      <3> QED
        BY <3>1, <3>2 DEF StaysClean, NoFile, Whole
    <2> QED
      BY <2>1, <2>2, <2>3
  <1> QED
    BY <1>1, <1>2, SpecIInv, PTL DEF Spec
=============================================================================
