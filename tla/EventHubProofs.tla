--------------------------- MODULE EventHubProofs ---------------------------
(***************************************************************************)
(* The live event streams, for any number of instances and clients and     *)
(* every limit: the byte counters that enforce the retention are exact,    *)
(* and no client misses a change without being told.                       *)
(***************************************************************************)
EXTENDS EventHub, SequenceTheorems, FiniteSetTheorems, WellFoundedInduction, TLAPS

-----------------------------------------------------------------------------
(* Induction, in the form of sets *)

(* A set of numbers has a least one. *)
LEMMA Least ==
    ASSUME NEW T, T \subseteq Nat, T # {}
    PROVE  \E x \in T : \A y \in T : x <= y
<1> DEFINE R == OpToRel(<, Nat)
<1>1. IsWellFoundedOn(R, Nat)
  BY NatLessThanWellFounded
<1>2. R = {p \in Nat \X Nat : p[1] < p[2]}
  BY DEF OpToRel
<1> HIDE DEF R
<1>3. PICK x \in T : \A y \in T : ~(<<y, x>> \in R)
  BY <1>1, WFMin
<1>4. ASSUME NEW y \in T PROVE x <= y
  <2>1. ~(y < x)
    BY <1>2, <1>3
  <2> QED BY <2>1
<1> QED BY <1>4

LEMMA CountUp ==
    ASSUME NEW T, 0 \in T, \A n \in Nat : n \in T => n + 1 \in T
    PROVE  \A n \in Nat : n \in T
<1> SUFFICES ASSUME Nat \ T # {} PROVE FALSE
  OBVIOUS
<1>1. PICK m \in Nat \ T : \A y \in Nat \ T : m <= y
  BY Least
<1>2. m # 0 /\ m - 1 \in Nat /\ (m - 1) + 1 = m
  BY <1>1
<1>3. m - 1 \in T
  BY <1>1, <1>2
<1> QED BY <1>1, <1>2, <1>3

(* The element that the folds of the community modules take first. *)
Chosen(s) == CHOOSE x \in s : TRUE

LEMMA ChosenIn == ASSUME NEW s, s # {} PROVE Chosen(s) \in s
BY DEF Chosen

LEMMA WithoutChosen ==
    ASSUME NEW s, IsFiniteSet(s), s # {}
    PROVE  /\ IsFiniteSet(s \ {Chosen(s)})
           /\ Cardinality(s) \in Nat /\ Cardinality(s \ {Chosen(s)}) \in Nat
           /\ Cardinality(s) = Cardinality(s \ {Chosen(s)}) + 1
<1>1. Chosen(s) \in s
  BY ChosenIn
<1>2. /\ IsFiniteSet(s \ {Chosen(s)})
      /\ Cardinality(s \ {Chosen(s)}) = Cardinality(s) - 1
  BY <1>1, FS_RemoveElement
<1>3. Cardinality(s) \in Nat /\ Cardinality(s \ {Chosen(s)}) \in Nat
  BY <1>2, FS_CardinalityType
<1> QED BY <1>2, <1>3

(* A family of sets with the empty set and, with a set less its chosen element,
   the set itself, has every finite set. *)
LEMMA GrowSets ==
    ASSUME NEW S, IsFiniteSet(S), NEW T,
           {} \in T,
           \A s \in SUBSET S : s # {} /\ s \ {Chosen(s)} \in T => s \in T
    PROVE  \A s \in SUBSET S : s \in T
<1> DEFINE N == {n \in Nat : \A s \in SUBSET S : Cardinality(s) <= n => s \in T}
<1>1. \A s \in SUBSET S : IsFiniteSet(s) /\ Cardinality(s) \in Nat
  BY FS_Subset, FS_CardinalityType
<1>2. 0 \in N
  <2>1. ASSUME NEW s \in SUBSET S, Cardinality(s) <= 0 PROVE s = {}
    <3>1. Cardinality(s) = 0
      BY <1>1, <2>1
    <3> QED BY <1>1, <3>1, FS_EmptySet
  <2> QED BY <2>1
<1>3. ASSUME NEW n \in Nat, n \in N PROVE n + 1 \in N
  <2>1. ASSUME NEW s \in SUBSET S, Cardinality(s) <= n + 1 PROVE s \in T
    <3>1. CASE s # {}
      <4>1. Cardinality(s \ {Chosen(s)}) \in Nat /\ Cardinality(s) = Cardinality(s \ {Chosen(s)}) + 1
        BY <1>1, <3>1, WithoutChosen
      <4>2. Cardinality(s \ {Chosen(s)}) <= n
        BY <1>1, <2>1, <4>1
      <4>3. s \ {Chosen(s)} \in SUBSET S
        OBVIOUS
      <4>4. s \ {Chosen(s)} \in T
        BY <1>3, <4>2, <4>3
      <4> QED BY <3>1, <4>4
    <3> QED BY <3>1
  <2> QED BY <2>1
<1> HIDE DEF N
<1>4. \A n \in Nat : n \in N
  BY <1>2, <1>3, CountUp
<1>5. ASSUME NEW s \in SUBSET S PROVE s \in T
  <2>1. Cardinality(s) \in N /\ Cardinality(s) <= Cardinality(s)
    BY <1>1, <1>4
  <2> QED BY <2>1 DEF N
<1> QED BY <1>5

-----------------------------------------------------------------------------
(* Sums *)

Recursion(f, g, s) == IF s = {} THEN 0 ELSE f[Chosen(s)] + g[s \ {Chosen(s)}]

(* The function in which MapThenFoldSet sums f over the subsets of S. *)
Partial(f, S) == CHOOSE g : g = [s \in SUBSET S |-> Recursion(f, g, s)]

LEMMA SumIsPartial ==
    ASSUME NEW f, NEW S
    PROVE  SumFunctionOnSet(f, S) = Partial(f, S)[S]
BY DEF SumFunctionOnSet, FoldFunctionOnSet, MapThenFoldSet, Partial, Recursion, Chosen

(* It exists, *)
LEMMA PartialExists ==
    ASSUME NEW f, NEW S, IsFiniteSet(S)
    PROVE  \A s \in SUBSET S : Partial(f, S)[s] = Recursion(f, Partial(f, S), s)
<1> DEFINE N == {n \in Nat : \E g : \A s \in SUBSET S :
                               Cardinality(s) <= n => g[s] = Recursion(f, g, s)}
<1>1. \A s \in SUBSET S : IsFiniteSet(s) /\ Cardinality(s) \in Nat
  BY FS_Subset, FS_CardinalityType
<1>2. 0 \in N
  <2> DEFINE g == [s \in SUBSET S |-> 0]
  <2>1. ASSUME NEW s \in SUBSET S, Cardinality(s) <= 0 PROVE g[s] = Recursion(f, g, s)
    <3>1. Cardinality(s) = 0
      BY <1>1, <2>1
    <3>2. s = {}
      BY <1>1, <3>1, FS_EmptySet
    <3> QED BY <3>2 DEF Recursion
  <2> QED BY <2>1
<1>3. ASSUME NEW n \in Nat, n \in N PROVE n + 1 \in N
  <2>1. PICK g : \A s \in SUBSET S : Cardinality(s) <= n => g[s] = Recursion(f, g, s)
    BY <1>3
  <2> DEFINE h == [s \in SUBSET S |-> Recursion(f, g, s)]
  <2>2. ASSUME NEW s \in SUBSET S, Cardinality(s) <= n + 1 PROVE h[s] = Recursion(f, h, s)
    <3>1. CASE s = {}
      BY <3>1 DEF Recursion
    <3>2. CASE s # {}
      <4> DEFINE r == s \ {Chosen(s)}
      <4>1. r \in SUBSET S
        OBVIOUS
      <4>2. Cardinality(r) \in Nat /\ Cardinality(s) = Cardinality(r) + 1
        BY <1>1, <3>2, WithoutChosen
      <4>3. Cardinality(r) <= n
        BY <1>1, <2>2, <4>2
      <4>4. h[r] = g[r]
        BY <2>1, <4>1, <4>3
      <4> QED BY <3>2, <4>4 DEF Recursion
    <3> QED BY <3>1, <3>2
  <2> HIDE DEF h
  <2>3. \E k : \A s \in SUBSET S : Cardinality(s) <= n + 1 => k[s] = Recursion(f, k, s)
    BY <2>2, Zenon
  <2> QED BY <2>3
<1> HIDE DEF N
<1>4. Cardinality(S) \in N
  BY <1>1, <1>2, <1>3, CountUp
<1>5. PICK g : \A s \in SUBSET S : Cardinality(s) <= Cardinality(S) => g[s] = Recursion(f, g, s)
  BY <1>4 DEF N
<1>6. \A s \in SUBSET S : g[s] = Recursion(f, g, s)
  BY <1>5, FS_Subset
<1> DEFINE h == [s \in SUBSET S |-> g[s]]
<1>7. ASSUME NEW s \in SUBSET S PROVE h[s] = Recursion(f, h, s)
  <2>1. s \ {Chosen(s)} \in SUBSET S
    OBVIOUS
  <2> QED BY <1>6, <2>1 DEF Recursion
<1>8. h = [s \in SUBSET S |-> Recursion(f, h, s)]
  BY <1>7
<1> HIDE DEF h
<1>9. Partial(f, S) = [s \in SUBSET S |-> Recursion(f, Partial(f, S), s)]
  BY <1>8 DEF Partial
<1> QED BY <1>9

(* and gives a subset the sum of its own. *)
LEMMA PartialAgrees ==
    ASSUME NEW f, NEW S, IsFiniteSet(S), NEW R \in SUBSET S
    PROVE  Partial(f, S)[R] = Partial(f, R)[R]
<1> DEFINE T == {s \in SUBSET R : Partial(f, S)[s] = Partial(f, R)[s]}
<1>1. IsFiniteSet(R)
  BY FS_Subset
<1>2. \A s \in SUBSET R : /\ Partial(f, S)[s] = Recursion(f, Partial(f, S), s)
                          /\ Partial(f, R)[s] = Recursion(f, Partial(f, R), s)
  BY <1>1, PartialExists
<1>3. {} \in T
  BY <1>2 DEF Recursion
<1>4. ASSUME NEW s \in SUBSET R, s # {}, s \ {Chosen(s)} \in T PROVE s \in T
  BY <1>2, <1>4 DEF Recursion
<1> HIDE DEF T
<1>5. R \in T
  BY <1>1, <1>3, <1>4, GrowSets
<1> QED BY <1>5 DEF T

LEMMA SumEmpty == ASSUME NEW f PROVE SumFunctionOnSet(f, {}) = 0
BY SumIsPartial, PartialExists, FS_EmptySet DEF Recursion

LEMMA SumChosen ==
    ASSUME NEW f, NEW S, IsFiniteSet(S), S # {}
    PROVE  SumFunctionOnSet(f, S) = f[Chosen(S)] + SumFunctionOnSet(f, S \ {Chosen(S)})
<1>1. Partial(f, S)[S] = f[Chosen(S)] + Partial(f, S)[S \ {Chosen(S)}]
  BY PartialExists DEF Recursion
<1>2. Partial(f, S)[S \ {Chosen(S)}] = Partial(f, S \ {Chosen(S)})[S \ {Chosen(S)}]
  BY PartialAgrees
<1> QED BY <1>1, <1>2, SumIsPartial

LEMMA SumInt ==
    ASSUME NEW f, NEW S, IsFiniteSet(S), \A x \in S : f[x] \in Int
    PROVE  SumFunctionOnSet(f, S) \in Int
<1> DEFINE T == {s \in SUBSET S : SumFunctionOnSet(f, s) \in Int}
<1>1. {} \in T
  BY SumEmpty
<1>2. ASSUME NEW s \in SUBSET S, s # {}, s \ {Chosen(s)} \in T PROVE s \in T
  <2>1. SumFunctionOnSet(f, s) = f[Chosen(s)] + SumFunctionOnSet(f, s \ {Chosen(s)})
    BY <1>2, SumChosen, FS_Subset
  <2>2. f[Chosen(s)] \in Int
    BY <1>2, ChosenIn
  <2> QED BY <1>2, <2>1, <2>2
<1> HIDE DEF T
<1>3. S \in T
  BY <1>1, <1>2, GrowSets
<1> QED BY <1>3 DEF T

(* A sum may be taken from any of its summands on. *)
LEMMA SumWithout ==
    ASSUME NEW f, NEW S, IsFiniteSet(S), \A x \in S : f[x] \in Int
    PROVE  \A x \in S : SumFunctionOnSet(f, S) = f[x] + SumFunctionOnSet(f, S \ {x})
<1> DEFINE P(s) == \A x \in s : SumFunctionOnSet(f, s) = f[x] + SumFunctionOnSet(f, s \ {x})
           N == {n \in Nat : \A s \in SUBSET S : Cardinality(s) <= n => P(s)}
<1>1. \A s \in SUBSET S : IsFiniteSet(s) /\ Cardinality(s) \in Nat
  BY FS_Subset, FS_CardinalityType
<1>2. \A s \in SUBSET S : SumFunctionOnSet(f, s) \in Int
  BY <1>1, SumInt
<1>3. 0 \in N
  <2>1. ASSUME NEW s \in SUBSET S, Cardinality(s) <= 0 PROVE s = {}
    <3>1. Cardinality(s) = 0
      BY <1>1, <2>1
    <3> QED BY <1>1, <3>1, FS_EmptySet
  <2> QED BY <2>1
<1>4. ASSUME NEW n \in Nat, n \in N PROVE n + 1 \in N
  <2>1. ASSUME NEW s \in SUBSET S, Cardinality(s) <= n + 1, NEW x \in s
        PROVE  SumFunctionOnSet(f, s) = f[x] + SumFunctionOnSet(f, s \ {x})
    <3> DEFINE c == Chosen(s)
    <3>1. c \in s
      BY ChosenIn
    <3>2. SumFunctionOnSet(f, s) = f[c] + SumFunctionOnSet(f, s \ {c})
      BY <1>1, SumChosen
    <3>3. CASE x = c
      BY <3>2, <3>3
    <3>4. CASE x # c
      <4>1. \A y \in s : P(s \ {y})
        <5> SUFFICES ASSUME NEW y \in s PROVE P(s \ {y})
          OBVIOUS
        <5>1. Cardinality(s \ {y}) = Cardinality(s) - 1
          BY <1>1, FS_RemoveElement
        <5>2. Cardinality(s \ {y}) <= n /\ s \ {y} \in SUBSET S
          BY <1>1, <2>1, <5>1
        <5> QED BY <1>4, <5>2
      <4> HIDE DEF c
      <4>2. SumFunctionOnSet(f, s \ {c}) = f[x] + SumFunctionOnSet(f, (s \ {c}) \ {x})
        BY <3>1, <3>4, <4>1
      <4>3. SumFunctionOnSet(f, s \ {x}) = f[c] + SumFunctionOnSet(f, (s \ {c}) \ {x})
        <5>1. (s \ {x}) \ {c} = (s \ {c}) \ {x}
          OBVIOUS
        <5>2. SumFunctionOnSet(f, s \ {x}) = f[c] + SumFunctionOnSet(f, (s \ {x}) \ {c})
          BY <3>1, <3>4, <4>1
        <5> QED BY <5>1, <5>2
      <4>4. /\ f[c] \in Int /\ f[x] \in Int
            /\ SumFunctionOnSet(f, (s \ {c}) \ {x}) \in Int
        BY <1>2, <3>1
      <4>5. \A u, v, w \in Int : u + (v + w) = v + (u + w)
        OBVIOUS
      <4> QED BY <3>2, <4>2, <4>3, <4>4, <4>5
    <3> QED BY <3>3, <3>4
  <2> QED BY <2>1
<1> HIDE DEF N
<1>5. Cardinality(S) \in N
  BY <1>1, <1>3, <1>4, CountUp
<1> QED BY <1>1, <1>5 DEF N

(* Sums of differences are differences of sums. *)
LEMMA SumMinus ==
    ASSUME NEW f, NEW g, NEW h, NEW S, IsFiniteSet(S),
           \A x \in S : f[x] \in Int /\ g[x] \in Int /\ h[x] = f[x] - g[x]
    PROVE  SumFunctionOnSet(h, S) = SumFunctionOnSet(f, S) - SumFunctionOnSet(g, S)
<1> DEFINE T == {s \in SUBSET S :
                   SumFunctionOnSet(h, s) = SumFunctionOnSet(f, s) - SumFunctionOnSet(g, s)}
<1>1. {} \in T
  BY SumEmpty
<1>2. ASSUME NEW s \in SUBSET S, s # {}, s \ {Chosen(s)} \in T PROVE s \in T
  <2> DEFINE c == Chosen(s)
             r == s \ {Chosen(s)}
  <2>1. c \in S /\ IsFiniteSet(s) /\ IsFiniteSet(r)
    BY <1>2, ChosenIn, FS_Subset
  <2>2. /\ SumFunctionOnSet(f, s) = f[c] + SumFunctionOnSet(f, r)
        /\ SumFunctionOnSet(g, s) = g[c] + SumFunctionOnSet(g, r)
        /\ SumFunctionOnSet(h, s) = h[c] + SumFunctionOnSet(h, r)
    BY <1>2, <2>1, SumChosen
  <2>3. SumFunctionOnSet(f, r) \in Int /\ SumFunctionOnSet(g, r) \in Int
    BY <2>1, SumInt
  <2>4. SumFunctionOnSet(h, r) = SumFunctionOnSet(f, r) - SumFunctionOnSet(g, r)
    BY <1>2
  <2> HIDE DEF c, r
  <2>5. SumFunctionOnSet(h, s) = SumFunctionOnSet(f, s) - SumFunctionOnSet(g, s)
    BY <2>1, <2>2, <2>3, <2>4
  <2> QED BY <2>5
<1> HIDE DEF T
<1>3. S \in T
  BY <1>1, <1>2, GrowSets
<1> QED BY <1>3 DEF T

LEMMA SumZero ==
    ASSUME NEW f, NEW S, IsFiniteSet(S), \A x \in S : f[x] = 0
    PROVE  SumFunctionOnSet(f, S) = 0
<1>1. SumFunctionOnSet(f, S) = SumFunctionOnSet(f, S) - SumFunctionOnSet(f, S)
  BY SumMinus
<1>2. SumFunctionOnSet(f, S) \in Int
  BY SumInt
<1> QED BY <1>1, <1>2

(* A sum depends on the values of its summands only. *)
LEMMA SumSame ==
    ASSUME NEW f, NEW g, NEW S, IsFiniteSet(S), \A x \in S : f[x] \in Int /\ f[x] = g[x]
    PROVE  SumFunctionOnSet(f, S) = SumFunctionOnSet(g, S)
<1> DEFINE z == [x \in S |-> 0]
<1>1. SumFunctionOnSet(z, S) = 0
  BY SumZero
<1>2. SumFunctionOnSet(z, S) = SumFunctionOnSet(f, S) - SumFunctionOnSet(g, S)
  BY SumMinus
<1>3. SumFunctionOnSet(f, S) \in Int /\ SumFunctionOnSet(g, S) \in Int
  BY SumInt
<1> QED BY <1>1, <1>2, <1>3

(* One summand changes. *)
LEMMA SumChange ==
    ASSUME NEW f, NEW g, NEW S, IsFiniteSet(S), NEW i \in S,
           \A x \in S : f[x] \in Int /\ g[x] \in Int /\ (x # i => f[x] = g[x])
    PROVE  SumFunctionOnSet(g, S) = SumFunctionOnSet(f, S) - f[i] + g[i]
<1>1. /\ SumFunctionOnSet(f, S) = f[i] + SumFunctionOnSet(f, S \ {i})
      /\ SumFunctionOnSet(g, S) = g[i] + SumFunctionOnSet(g, S \ {i})
  BY SumWithout
<1>2. IsFiniteSet(S \ {i})
  BY FS_Subset
<1>3. SumFunctionOnSet(f, S \ {i}) = SumFunctionOnSet(g, S \ {i})
  BY <1>2, SumSame
<1>4. SumFunctionOnSet(f, S \ {i}) \in Int
  BY <1>2, SumInt
<1> QED BY <1>1, <1>3, <1>4

-----------------------------------------------------------------------------
(* The bytes of a history *)

LEMMA SizesNat == \A size \in Sizes : size \in Nat /\ size <= InstanceBytes /\ size <= GlobalBytes
BY HubAssumption

LEMMA DroppingIs ==
    ASSUME NEW s \in Seq(Record), NEW m \in 0..Len(s)
    PROVE  /\ Dropping(s, m) \in Seq(Record)
           /\ Len(Dropping(s, m)) = Len(s) - m
           /\ \A i \in 1..(Len(s) - m) : Dropping(s, m)[i] = s[m + i]
<1> DEFINE n == Len(s)
<1>1. n \in Nat /\ m \in Nat /\ m <= n
  BY LenProperties
<1>2. \A i \in (m + 1)..n : s[i] \in Record
  <2>1. \A i \in (m + 1)..n : i \in 1..n
    BY <1>1
  <2> QED BY <2>1, ElementOfSeq
<1> HIDE DEF n
<1> DEFINE d == SubSeq(s, m + 1, n)
<1>3. /\ d \in Seq(Record)
      /\ Len(d) = IF m + 1 <= n THEN n - (m + 1) + 1 ELSE 0
      /\ \A i \in 1..(n - (m + 1) + 1) : d[i] = s[(m + 1) + i - 1]
  BY <1>1, <1>2, SubSeqProperties
<1> HIDE DEF d
<1>4. Len(d) = n - m
  BY <1>1, <1>3
<1>5. ASSUME NEW i \in 1..(n - m) PROVE d[i] = s[m + i]
  <2>1. i \in 1..(n - (m + 1) + 1) /\ (m + 1) + i - 1 = m + i
    BY <1>1
  <2> QED BY <1>3, <2>1
<1> QED BY <1>3, <1>4, <1>5 DEF d, n, Dropping

LEMMA BytesSum ==
    ASSUME NEW s \in Seq(Record)
    PROVE  /\ Bytes(s) = SumFunctionOnSet([k \in 1..Len(s) |-> s[k].size], 1..Len(s))
           /\ \A k \in 1..Len(s) : s[k].size \in Nat
           /\ IsFiniteSet(1..Len(s))
<1>1. DOMAIN s = 1..Len(s) /\ Len(s) \in Nat
  BY LenProperties
<1>2. DOMAIN [k \in 1..Len(s) |-> s[k].size] = 1..Len(s)
  OBVIOUS
<1>3. Bytes(s) = SumFunctionOnSet([k \in 1..Len(s) |-> s[k].size], 1..Len(s))
  BY <1>1, <1>2, Zenon DEF Bytes, SumFunction
<1>4. ASSUME NEW k \in 1..Len(s) PROVE s[k].size \in Nat
  <2>1. s[k] \in Record
    BY ElementOfSeq
  <2> QED BY <2>1, SizesNat DEF Record
<1>5. IsFiniteSet(1..Len(s))
  BY <1>1, FS_Interval
<1> QED BY <1>3, <1>4, <1>5

LEMMA BytesEmpty == Bytes(<<>>) = 0
<1>1. <<>> \in Seq(Record) /\ Len(<<>>) = 0 /\ 1..0 = {}
  OBVIOUS
<1>2. Bytes(<<>>) = SumFunctionOnSet([k \in 1..Len(<<>>) |-> <<>>[k].size], 1..Len(<<>>))
  BY <1>1, BytesSum
<1> QED BY <1>1, <1>2, SumEmpty

LEMMA BytesInt == ASSUME NEW s \in Seq(Record) PROVE Bytes(s) \in Int
<1> DEFINE f == [k \in 1..Len(s) |-> s[k].size]
<1>1. \A k \in 1..Len(s) : f[k] \in Int
  <2>1. \A k \in 1..Len(s) : s[k].size \in Nat
    BY BytesSum
  <2> QED BY <2>1
<1>2. SumFunctionOnSet(f, 1..Len(s)) \in Int
  BY <1>1, BytesSum, SumInt
<1> QED BY <1>2, BytesSum

(* A record adds its size. *)
LEMMA BytesAppend ==
    ASSUME NEW s \in Seq(Record), NEW r \in Record
    PROVE  Bytes(Append(s, r)) = Bytes(s) + r.size
<1> DEFINE n == Len(s)
           t == Append(s, r)
           f == [k \in 1..n |-> s[k].size]
           g == [k \in 1..(n + 1) |-> t[k].size]
<1>1. n \in Nat
  BY LenProperties
<1>2. /\ t \in Seq(Record) /\ Len(t) = n + 1
      /\ \A k \in 1..n : t[k] = s[k]
      /\ t[n + 1] = r
  BY AppendProperties
<1>3. /\ Bytes(s) = SumFunctionOnSet(f, 1..n)
      /\ \A k \in 1..n : s[k].size \in Nat
      /\ IsFiniteSet(1..n)
  BY BytesSum
<1>4. /\ Bytes(t) = SumFunctionOnSet(g, 1..(n + 1))
      /\ \A k \in 1..(n + 1) : t[k].size \in Nat
      /\ IsFiniteSet(1..(n + 1))
  BY <1>2, BytesSum
<1> HIDE DEF n, t
<1>5. n + 1 \in 1..(n + 1) /\ (1..(n + 1)) \ {n + 1} = 1..n /\ \A k \in 1..n : k \in 1..(n + 1)
  BY <1>1
<1>6. \A k \in 1..(n + 1) : g[k] \in Int
  BY <1>4
<1>7. \A k \in 1..n : f[k] \in Int /\ f[k] = g[k]
  BY <1>2, <1>3, <1>5
<1>8. g[n + 1] = r.size
  BY <1>2, <1>5
<1> HIDE DEF f, g
<1>9. SumFunctionOnSet(g, 1..(n + 1)) = g[n + 1] + SumFunctionOnSet(g, 1..n)
  <2> DEFINE I == 1..(n + 1)
             l == n + 1
  <2>1. l \in I /\ IsFiniteSet(I) /\ \A k \in I : g[k] \in Int
    BY <1>4, <1>5, <1>6
  <2> HIDE DEF I, l
  <2>2. SumFunctionOnSet(g, I) = g[l] + SumFunctionOnSet(g, I \ {l})
    BY <2>1, SumWithout
  <2> QED BY <1>5, <2>2 DEF I, l
<1>10. SumFunctionOnSet(f, 1..n) = SumFunctionOnSet(g, 1..n)
  BY <1>3, <1>7, SumSame
<1>11. SumFunctionOnSet(f, 1..n) \in Int /\ r.size \in Int
  BY <1>3, <1>5, <1>6, <1>7, <1>8, SumInt
<1> QED BY <1>3, <1>4, <1>8, <1>9, <1>10, <1>11 DEF t

(* A sequence that is not empty, from its end. *)
LEMMA Shortened ==
    ASSUME NEW s \in Seq(Record), NEW n \in Nat, Len(s) = n + 1
    PROVE  \E p \in Seq(Record) : Len(p) = n /\ s = Append(p, s[n + 1]) /\ s[n + 1] \in Record
<1> DEFINE p == SubSeq(s, 1, n)
<1>1. \A i \in 1..n : i \in 1..Len(s) /\ s[i] \in Record
  BY ElementOfSeq
<1>2. /\ p \in Seq(Record)
      /\ Len(p) = IF 1 <= n THEN n - 1 + 1 ELSE 0
      /\ \A i \in 1..(n - 1 + 1) : p[i] = s[1 + i - 1]
  BY <1>1, SubSeqProperties
<1> HIDE DEF p
<1>3. Len(p) = n /\ \A i \in 1..n : p[i] = s[i]
  BY <1>2
<1>4. s[n + 1] \in Record
  <2>1. n + 1 \in 1..Len(s)
    OBVIOUS
  <2> QED BY <2>1, ElementOfSeq
<1> DEFINE t == Append(p, s[n + 1])
<1>5. /\ t \in Seq(Record) /\ Len(t) = n + 1
      /\ \A i \in 1..n : t[i] = p[i]
      /\ t[n + 1] = s[n + 1]
  BY <1>2, <1>3, <1>4, AppendProperties
<1> HIDE DEF t
<1>6. \A i \in 1..(n + 1) : s[i] = t[i]
  <2>1. \A i \in 1..(n + 1) : i \in 1..n \/ i = n + 1
    OBVIOUS
  <2> QED BY <1>3, <1>5, <2>1
<1>7. s = t
  BY <1>5, <1>6, SeqEqual
<1> QED BY <1>2, <1>3, <1>4, <1>7 DEF t

(* Dropping the oldest records of a sequence adds no bytes. *)
LEMMA BytesDropping ==
    ASSUME NEW s \in Seq(Record)
    PROVE  \A m \in 0..Len(s) : Bytes(Dropping(s, m)) <= Bytes(s)
<1> DEFINE Less(q) == 0 <= Bytes(q) /\ \A m \in 0..Len(q) : Bytes(Dropping(q, m)) <= Bytes(q)
           N == {n \in Nat : \A q \in Seq(Record) : Len(q) = n => Less(q)}
<1>1. 0 \in N
  <2>1. ASSUME NEW q \in Seq(Record), Len(q) = 0 PROVE Less(q)
    <3>1. q = <<>>
      BY <2>1, EmptySeq
    <3>2. \A m \in 0..Len(q) : Dropping(q, m) = <<>>
      <4> SUFFICES ASSUME NEW m \in 0..Len(q) PROVE Dropping(q, m) = <<>>
        OBVIOUS
      <4>1. Dropping(q, m) \in Seq(Record) /\ Len(Dropping(q, m)) = Len(q) - m
        BY DroppingIs
      <4>2. m = 0
        BY <2>1
      <4>3. Len(Dropping(q, m)) = 0
        BY <2>1, <4>1, <4>2
      <4> QED BY <4>1, <4>3, EmptySeq
    <3> QED BY <3>1, <3>2, BytesEmpty
  <2> QED BY <2>1
<1>2. ASSUME NEW n \in Nat, n \in N PROVE n + 1 \in N
  <2>1. ASSUME NEW q \in Seq(Record), Len(q) = n + 1 PROVE Less(q)
    <3>1. PICK p \in Seq(Record) : Len(p) = n /\ q = Append(p, q[n + 1]) /\ q[n + 1] \in Record
      BY <2>1, Shortened
    <3> DEFINE r == q[n + 1]
    <3>2. r.size \in Nat /\ r \in Record
      BY <3>1, SizesNat DEF Record
    <3>3. Less(p)
      BY <1>2, <3>1
    <3>4. Bytes(q) = Bytes(p) + r.size
      BY <3>1, BytesAppend
    <3>5. Bytes(p) \in Int
      BY <3>1, BytesInt
    <3>6. 0 <= Bytes(q)
      BY <3>2, <3>3, <3>4, <3>5
    <3>7. ASSUME NEW m \in 0..(n + 1) PROVE Bytes(Dropping(q, m)) <= Bytes(q)
      <4>1. CASE m = n + 1
        <5>1. Dropping(q, m) \in Seq(Record) /\ Len(Dropping(q, m)) = Len(q) - m
          BY <2>1, <3>7, DroppingIs
        <5>2. Len(Dropping(q, m)) = 0
          BY <2>1, <4>1, <5>1
        <5>3. Dropping(q, m) = <<>>
          BY <5>1, <5>2, EmptySeq
        <5> QED BY <3>6, <5>3, BytesEmpty
      <4>2. CASE m <= n
        <5> DEFINE d == Dropping(p, m)
                   e == Dropping(q, m)
                   a == Append(d, r)
        <5>1. m \in 0..Len(p) /\ m \in 0..Len(q)
          BY <2>1, <3>1, <4>2
        <5>2. /\ d \in Seq(Record) /\ Len(d) = n - m
              /\ \A i \in 1..(n - m) : d[i] = p[m + i]
          BY <3>1, <5>1, DroppingIs
        <5>3. /\ e \in Seq(Record) /\ Len(e) = (n + 1) - m
              /\ \A i \in 1..((n + 1) - m) : e[i] = q[m + i]
          BY <2>1, <5>1, DroppingIs
        <5>4. \A i \in 1..n : q[i] = p[i]
          BY <3>1, AppendProperties
        <5> HIDE DEF d, e, r
        <5>5. /\ a \in Seq(Record) /\ Len(a) = (n - m) + 1
              /\ \A i \in 1..(n - m) : a[i] = d[i]
              /\ a[(n - m) + 1] = r
          BY <3>2, <5>2, AppendProperties
        <5> HIDE DEF a
        <5>6. ASSUME NEW i \in 1..Len(e) PROVE e[i] = a[i]
          <6>1. CASE i <= n - m
            <7>1. i \in 1..(n - m) /\ m + i \in 1..n /\ i \in 1..((n + 1) - m)
              BY <3>7, <4>2, <6>1, <5>3
            <7> QED BY <5>2, <5>3, <5>4, <5>5, <7>1
          <6>2. CASE i = (n - m) + 1
            <7>1. i \in 1..((n + 1) - m) /\ m + i = n + 1
              BY <3>7, <4>2, <6>2
            <7> QED BY <5>3, <5>5, <6>2, <7>1 DEF r
          <6>3. i <= n - m \/ i = (n - m) + 1
            BY <3>7, <4>2, <5>3
          <6> QED BY <6>1, <6>2, <6>3
        <5>7. Len(e) = Len(a)
          BY <3>7, <4>2, <5>3, <5>5
        <5>8. e = a
          BY <5>3, <5>5, <5>6, <5>7, SeqEqual
        <5>9. Bytes(e) = Bytes(d) + r.size
          BY <3>2, <5>2, <5>8, BytesAppend DEF a, r
        <5>10. Bytes(d) <= Bytes(p) /\ Bytes(d) \in Int
          BY <3>1, <3>3, <4>2, <5>2, BytesInt DEF d
        <5> QED BY <3>2, <3>4, <3>5, <5>9, <5>10 DEF e
      <4> QED BY <3>7, <4>1, <4>2
    <3> QED BY <2>1, <3>6, <3>7
  <2> QED BY <2>1
<1> HIDE DEF N
<1>3. Len(s) \in N
  BY <1>1, <1>2, CountUp, LenProperties
<1> QED BY <1>3 DEF N

-----------------------------------------------------------------------------
(* What the limits pop *)

LEMMA MinIs ==
    ASSUME NEW T, T \subseteq Nat, T # {}
    PROVE  Min(T) \in T /\ \A y \in T : Min(T) <= y
BY Least DEF Min

LEMMA FieldIs ==
    ASSUME NEW r \in Record
    PROVE  r["order"] = r.order /\ r["seq"] = r.seq
OBVIOUS

(* Beyond drops as few records as leave only those above t. *)
LEMMA BeyondIs ==
    ASSUME NEW s \in Seq(Record), NEW field, NEW t
    PROVE  \E m \in 0..Len(s) :
              /\ Beyond(s, field, t) = Dropping(s, m)
              /\ \A k \in (m + 1)..Len(s) : s[k][field] > t
              /\ \A l \in 0..Len(s) : (\A k \in (l + 1)..Len(s) : s[k][field] > t) => m <= l
<1> DEFINE n == Len(s)
           T == {m \in 0..n : \A k \in (m + 1)..n : s[k][field] > t}
<1>1. n \in Nat
  BY LenProperties
<1>2. Beyond(s, field, t) = Dropping(s, Min(T))
  BY DEF Beyond
<1> HIDE DEF n
<1>3. n \in T /\ T \subseteq Nat
  BY <1>1
<1>4. Min(T) \in T /\ \A y \in T : Min(T) <= y
  BY <1>3, MinIs
<1> DEFINE m == Min(T)
<1> HIDE DEF m
<1>5. m \in 0..n /\ \A k \in (m + 1)..n : s[k][field] > t
  BY <1>4 DEF m
<1>6. \A l \in 0..n : (\A k \in (l + 1)..n : s[k][field] > t) => m <= l
  BY <1>4 DEF m
<1> QED BY <1>2, <1>5, <1>6 DEF m, n

(* Retained drops as few records as meet the limits of one history. *)
LEMMA RetainedIs ==
    ASSUME NEW s \in Seq(Record)
    PROVE  \E m \in 0..Len(s) :
              /\ Retained(s) = Dropping(s, m)
              /\ Len(Retained(s)) <= HistoryEvents
              /\ Bytes(Retained(s)) <= InstanceBytes
              /\ \A l \in 0..Len(s) :
                    Len(s) - l <= HistoryEvents /\ Bytes(Dropping(s, l)) <= InstanceBytes => m <= l
<1> DEFINE n == Len(s)
           Fits(m) == n - m <= HistoryEvents /\ Bytes(Dropping(s, m)) <= InstanceBytes
           T == {m \in 0..n : Fits(m)} \cup {n}
<1>1. n \in Nat
  BY LenProperties
<1>2. Retained(s) = Dropping(s, Min(T))
  BY DEF Retained
<1>3. Fits(n)
  <2>1. Dropping(s, n) \in Seq(Record) /\ Len(Dropping(s, n)) = n - n
    BY <1>1, DroppingIs
  <2>2. n - n = 0
    BY <1>1
  <2>3. Dropping(s, n) = <<>>
    BY <2>1, <2>2, EmptySeq
  <2> QED BY <2>2, <2>3, BytesEmpty, HubAssumption
<1> HIDE DEF n, Fits
<1>4. n \in T /\ T \subseteq Nat
  BY <1>1
<1>5. Min(T) \in T /\ \A y \in T : Min(T) <= y
  BY <1>4, MinIs
<1> DEFINE m == Min(T)
<1> HIDE DEF m
<1>6. m \in 0..n /\ Fits(m) /\ \A l \in 0..n : Fits(l) => m <= l
  BY <1>1, <1>3, <1>5 DEF m
<1>7. Len(Dropping(s, m)) = n - m
  BY <1>6, DroppingIs DEF n
<1> QED BY <1>2, <1>6, <1>7 DEF m, n, Fits

LEMMA DroppingTwice ==
    ASSUME NEW s \in Seq(Record), NEW m \in 0..Len(s), NEW l \in 0..(Len(s) - m)
    PROVE  m + l \in 0..Len(s) /\ Dropping(Dropping(s, m), l) = Dropping(s, m + l)
<1> DEFINE n == Len(s)
           d == Dropping(s, m)
           e == Dropping(d, l)
           h == Dropping(s, m + l)
<1>1. n \in Nat /\ m \in 0..n /\ l \in 0..(n - m)
  BY LenProperties
<1>2. m + l \in 0..n
  BY <1>1
<1>3. d \in Seq(Record) /\ Len(d) = n - m /\ \A i \in 1..(n - m) : d[i] = s[m + i]
  BY DroppingIs
<1>4. h \in Seq(Record) /\ Len(h) = n - (m + l) /\ \A i \in 1..(n - (m + l)) : h[i] = s[(m + l) + i]
  BY <1>2, DroppingIs
<1> HIDE DEF d, n, h
<1>5. e \in Seq(Record) /\ Len(e) = (n - m) - l /\ \A i \in 1..((n - m) - l) : e[i] = d[l + i]
  BY <1>1, <1>3, DroppingIs
<1> HIDE DEF e
<1>6. Len(e) = Len(h)
  BY <1>1, <1>4, <1>5
<1>7. ASSUME NEW i \in 1..Len(e) PROVE e[i] = h[i]
  <2>1. /\ i \in 1..((n - m) - l) /\ i \in 1..(n - (m + l))
        /\ l + i \in 1..(n - m) /\ m + (l + i) = (m + l) + i
    BY <1>1, <1>5
  <2> QED BY <1>3, <1>4, <1>5, <2>1
<1>8. e = h
  BY <1>4, <1>5, <1>6, <1>7, SeqEqual
<1> QED BY <1>2, <1>8 DEF n, d, e, h

LEMMA DroppingAll ==
    ASSUME NEW s \in Seq(Record)
    PROVE  Dropping(s, Len(s)) = <<>>
<1>1. Len(s) \in Nat
  BY LenProperties
<1>2. Dropping(s, Len(s)) \in Seq(Record) /\ Len(Dropping(s, Len(s))) = Len(s) - Len(s)
  BY <1>1, DroppingIs
<1>3. Len(Dropping(s, Len(s))) = 0
  BY <1>1, <1>2
<1> QED BY <1>2, <1>3, EmptySeq

(* Of a sequence that ends with r, what is left when all but one are dropped. *)
LEMMA DroppingAllButLast ==
    ASSUME NEW s \in Seq(Record), NEW n \in Nat, Len(s) = n + 1
    PROVE  /\ s[n + 1] \in Record
           /\ Dropping(s, n) = <<s[n + 1]>>
           /\ Bytes(Dropping(s, n)) = s[n + 1].size
<1> DEFINE r == s[n + 1]
<1>1. r \in Record
  BY Shortened
<1>2. /\ Dropping(s, n) \in Seq(Record) /\ Len(Dropping(s, n)) = Len(s) - n
      /\ \A i \in 1..(Len(s) - n) : Dropping(s, n)[i] = s[n + i]
  <2>1. n \in 0..Len(s)
    OBVIOUS
  <2> QED BY <2>1, DroppingIs
<1>3. Len(Dropping(s, n)) = 1 /\ Dropping(s, n)[1] = r
  BY <1>2
<1> HIDE DEF r
<1> DEFINE t == Append(<<>>, r)
<1>4. t = <<r>>
  OBVIOUS
<1>5. <<>> \in Seq(Record) /\ Len(<<>>) = 0
  OBVIOUS
<1>6. t \in Seq(Record) /\ Len(t) = 1 /\ t[1] = r
  BY <1>1, <1>4
<1> HIDE DEF t
<1>7. Dropping(s, n) = t
  BY <1>2, <1>3, <1>6, SeqEqual
<1>8. Bytes(t) = Bytes(<<>>) + r.size
  BY <1>1, <1>5, BytesAppend DEF t
<1>9. r.size \in Nat
  BY <1>1, SizesNat DEF Record
<1>10. Bytes(t) = r.size
  BY <1>8, <1>9, BytesEmpty
<1> QED BY <1>1, <1>4, <1>7, <1>10 DEF r

(* Beyond the newest record is nothing, *)
LEMMA NoneBeyond ==
    ASSUME NEW s \in Seq(Record), NEW t \in Nat, \A k \in 1..Len(s) : s[k].order <= t
    PROVE  Beyond(s, "order", t) = <<>>
<1>1. Len(s) \in Nat
  BY LenProperties
<1>2. PICK m \in 0..Len(s) : /\ Beyond(s, "order", t) = Dropping(s, m)
                             /\ \A k \in (m + 1)..Len(s) : s[k]["order"] > t
  BY BeyondIs
<1>3. ASSUME m # Len(s) PROVE FALSE
  <2>1. m + 1 \in (m + 1)..Len(s) /\ m + 1 \in 1..Len(s)
    BY <1>1, <1>3
  <2>2. s[m + 1]["order"] > t /\ s[m + 1].order <= t
    BY <1>2, <2>1
  <2>3. s[m + 1] \in Record
    BY <2>1, ElementOfSeq
  <2>4. s[m + 1].order \in Nat
    BY <2>3 DEF Record
  <2> QED BY <2>2, <2>3, <2>4, FieldIs
<1> QED BY <1>2, <1>3, DroppingAll

(* beyond the one before it only the newest, *)
LEMMA NewestBeyond ==
    ASSUME NEW s \in Seq(Record), NEW n \in Nat, Len(s) = n + 1, NEW t \in Nat,
           s[n + 1].order > t, \A k \in 1..n : s[k].order <= t
    PROVE  Beyond(s, "order", t) = Dropping(s, n)
<1>1. PICK m \in 0..Len(s) :
              /\ Beyond(s, "order", t) = Dropping(s, m)
              /\ \A k \in (m + 1)..Len(s) : s[k]["order"] > t
              /\ \A l \in 0..Len(s) : (\A k \in (l + 1)..Len(s) : s[k]["order"] > t) => m <= l
  BY BeyondIs
<1>2. \A k \in 1..(n + 1) : s[k] \in Record /\ s[k]["order"] = s[k].order /\ s[k].order \in Nat
  <2>1. \A k \in 1..(n + 1) : s[k] \in Record
    BY ElementOfSeq
  <2> QED BY <2>1, FieldIs DEF Record
<1>3. m <= n
  <2>1. \A k \in (n + 1)..Len(s) : k = n + 1
    OBVIOUS
  <2>2. \A k \in (n + 1)..Len(s) : s[k]["order"] > t
    BY <1>2, <2>1
  <2>3. n \in 0..Len(s)
    OBVIOUS
  <2> QED BY <1>1, <2>2, <2>3
<1>4. ASSUME m < n PROVE FALSE
  <2>1. m + 1 \in (m + 1)..Len(s) /\ m + 1 \in 1..n /\ m + 1 \in 1..(n + 1)
    BY <1>4
  <2>2. s[m + 1]["order"] > t /\ s[m + 1].order <= t
    BY <1>1, <2>1
  <2> QED BY <1>2, <2>1, <2>2
<1>5. m = n
  BY <1>3, <1>4
<1> QED BY <1>1, <1>5

(* and beyond anything older the newest too. *)
LEMMA NewestStays ==
    ASSUME NEW s \in Seq(Record), NEW n \in Nat, Len(s) = n + 1, NEW t \in Nat,
           s[n + 1].order > t
    PROVE  \E m \in 0..n : Beyond(s, "order", t) = Dropping(s, m)
<1>1. PICK m \in 0..Len(s) :
              /\ Beyond(s, "order", t) = Dropping(s, m)
              /\ \A l \in 0..Len(s) : (\A k \in (l + 1)..Len(s) : s[k]["order"] > t) => m <= l
  BY BeyondIs
<1>2. \A k \in (n + 1)..Len(s) : s[k]["order"] > t
  <2>1. \A k \in (n + 1)..Len(s) : k = n + 1
    OBVIOUS
  <2>2. s[n + 1] \in Record
    BY DroppingAllButLast
  <2> QED BY <2>1, <2>2, FieldIs
<1>3. n \in 0..Len(s) /\ m <= n
  BY <1>1, <1>2
<1>4. m \in 0..n
  BY <1>1, <1>3
<1> QED BY <1>1, <1>4

(* Trimmed drops, by age, as little as meets the global limit. *)
LEMMA TrimmedIs ==
    ASSUME NEW all \in [VMs -> Seq(Record)], NEW last \in Nat,
           \A j \in VMs : \A k \in 1..Len(all[j]) : all[j][k].order <= last
    PROVE  \E t \in 0..last :
              /\ Trimmed(all, last) = [j \in VMs |-> Beyond(all[j], "order", t)]
              /\ SumFunctionOnSet([j \in VMs |-> Bytes(Trimmed(all, last)[j])], VMs)
                   <= GlobalBytes
              /\ \A u \in 0..last :
                   SumFunctionOnSet([j \in VMs |-> Bytes(Beyond(all[j], "order", u))], VMs)
                     <= GlobalBytes => t <= u
<1> DEFINE left(u) == [j \in VMs |-> Beyond(all[j], "order", u)]
           size(u) == SumFunction([j \in VMs |-> Bytes(left(u)[j])])
           T == {u \in 0..last : size(u) <= GlobalBytes} \cup {last}
<1>1. Trimmed(all, last) = left(Min(T))
  BY DEF Trimmed
<1>2. ASSUME NEW u PROVE size(u) = SumFunctionOnSet([j \in VMs |-> Bytes(left(u)[j])], VMs)
  <2>1. DOMAIN [j \in VMs |-> Bytes(left(u)[j])] = VMs
    OBVIOUS
  <2> QED BY <2>1, Zenon DEF SumFunction
<1>3. ASSUME NEW j \in VMs PROVE Bytes(left(last)[j]) = 0
  <2>1. all[j] \in Seq(Record)
    OBVIOUS
  <2>2. Beyond(all[j], "order", last) = <<>>
    BY <2>1, NoneBeyond
  <2> QED BY <2>2, BytesEmpty
<1>4. size(last) <= GlobalBytes
  <2> DEFINE z == [j \in VMs |-> Bytes(left(last)[j])]
  <2>1. \A j \in VMs : z[j] = 0
    BY <1>3
  <2>2. size(last) = SumFunctionOnSet(z, VMs)
    BY <1>2
  <2> HIDE DEF z, size
  <2>3. SumFunctionOnSet(z, VMs) = 0
    BY <2>1, SumZero, HubAssumption
  <2> QED BY <2>2, <2>3, HubAssumption
<1> HIDE DEF size
<1>5. last \in T /\ T \subseteq Nat
  OBVIOUS
<1>6. Min(T) \in T /\ \A y \in T : Min(T) <= y
  BY <1>5, MinIs
<1> DEFINE t == Min(T)
<1> HIDE DEF t
<1>7. t \in 0..last /\ size(t) <= GlobalBytes /\ \A u \in 0..last : size(u) <= GlobalBytes => t <= u
  BY <1>4, <1>6 DEF t
<1>8. ASSUME NEW u
      PROVE  size(u) = SumFunctionOnSet([j \in VMs |-> Bytes(Beyond(all[j], "order", u))], VMs)
  <2>1. [j \in VMs |-> Bytes(left(u)[j])] = [j \in VMs |-> Bytes(Beyond(all[j], "order", u))]
    OBVIOUS
  <2> QED BY <1>2, <2>1
<1>9. Trimmed(all, last) = left(t)
  BY <1>1 DEF t
<1>10. SumFunctionOnSet([j \in VMs |-> Bytes(Trimmed(all, last)[j])], VMs) <= GlobalBytes
  <2>1. [j \in VMs |-> Bytes(Trimmed(all, last)[j])] = [j \in VMs |-> Bytes(left(t)[j])]
    BY <1>9
  <2> QED BY <1>2, <1>7, <2>1
<1>11. \A u \in 0..last :
         SumFunctionOnSet([j \in VMs |-> Bytes(Beyond(all[j], "order", u))], VMs)
           <= GlobalBytes => t <= u
  BY <1>7, <1>8
<1> QED BY <1>7, <1>9, <1>10, <1>11

-----------------------------------------------------------------------------
(* A push *)

HubTypes ==
    /\ generation \in Nat /\ nextOrder \in Nat
    /\ next \in [VMs -> Nat] /\ bytes \in [VMs -> Int] /\ total \in Int
    /\ records \in [VMs -> Seq(Record)]
    /\ subs \in [VMs -> SUBSET Clients]
    /\ log \in [VMs -> Seq(Kinds)] /\ life \in [VMs -> Nat]

(* What is kept of a history is its newest records: their numbers run up to the
   last one, and they are what was published under them. *)
KeptOf(s, n, l) ==
    /\ Len(s) <= n
    /\ \A k \in 1..Len(s) : /\ s[k].seq = n - Len(s) + k
                            /\ s[k].kind = l[s[k].seq]

History ==
    \A i \in VMs :
        /\ Len(log[i]) = next[i]
        /\ KeptOf(records[i], next[i], log[i])
        /\ \A k \in 1..Len(records[i]) : records[i][k].order <= nextOrder

(* The record that is pushed, and the histories with it. *)
New(i, kind, size) ==
    [seq |-> next[i] + 1, order |-> nextOrder + 1, kind |-> kind, size |-> size]

Grown(i, r) == [records EXCEPT ![i] = Append(@, r)]

LEMMA GrownIs ==
    ASSUME HubTypes, History, NEW i \in VMs, NEW kind \in Kinds, NEW size \in Sizes
    PROVE  LET r == New(i, kind, size)
               g == Grown(i, r)
           IN  /\ r \in Record /\ r.size = size /\ r.order = nextOrder + 1
               /\ r.seq = next[i] + 1 /\ r.kind = kind
               /\ g \in [VMs -> Seq(Record)]
               /\ \A j \in VMs \ {i} : g[j] = records[j]
               /\ Len(g[i]) = Len(records[i]) + 1 /\ Len(records[i]) \in Nat
               /\ g[i][Len(records[i]) + 1] = r
               /\ \A k \in 1..Len(records[i]) : g[i][k] = records[i][k]
               /\ Bytes(g[i]) = Bytes(records[i]) + size
<1> DEFINE r == New(i, kind, size)
           g == Grown(i, r)
<1>1. /\ r = [seq |-> next[i] + 1, order |-> nextOrder + 1, kind |-> kind, size |-> size]
      /\ r \in Record
  BY DEF New, Record, HubTypes
<1>2. r.size = size /\ r.order = nextOrder + 1 /\ r.seq = next[i] + 1 /\ r.kind = kind
  BY <1>1
<1> HIDE DEF r
<1>3. g[i] = Append(records[i], r) /\ \A j \in VMs \ {i} : g[j] = records[j]
  BY DEF Grown, HubTypes
<1>4. records[i] \in Seq(Record) /\ Len(records[i]) \in Nat
  BY LenProperties DEF HubTypes
<1> DEFINE a == Append(records[i], r)
<1>5. /\ a \in Seq(Record)
      /\ Len(a) = Len(records[i]) + 1
      /\ \A k \in 1..Len(records[i]) : a[k] = records[i][k]
      /\ a[Len(records[i]) + 1] = r
  BY <1>1, <1>4, AppendProperties
<1>6. Bytes(a) = Bytes(records[i]) + size
  BY <1>1, <1>2, <1>4, BytesAppend
<1>7. g \in [VMs -> Seq(Record)]
  BY <1>5 DEF Grown, HubTypes
<1> HIDE DEF a, g
<1>8. g[i] = a
  BY <1>3 DEF a
<1> QED BY <1>1, <1>2, <1>3, <1>4, <1>5, <1>6, <1>7, <1>8 DEF r, g

(* The limit of the history keeps the record that is pushed. *)
LEMMA RetainsNewest ==
    ASSUME NEW s \in Seq(Record), NEW n \in Nat, Len(s) = n + 1
    PROVE  \E m \in 0..n :
              /\ Retained(s) = Dropping(s, m)
              /\ Len(Retained(s)) <= HistoryEvents
              /\ Bytes(Retained(s)) <= InstanceBytes
<1>1. PICK m \in 0..Len(s) :
              /\ Retained(s) = Dropping(s, m)
              /\ Len(Retained(s)) <= HistoryEvents
              /\ Bytes(Retained(s)) <= InstanceBytes
              /\ \A l \in 0..Len(s) :
                    Len(s) - l <= HistoryEvents /\ Bytes(Dropping(s, l)) <= InstanceBytes => m <= l
  BY RetainedIs
<1>2. s[n + 1] \in Record /\ Bytes(Dropping(s, n)) = s[n + 1].size
  BY DroppingAllButLast
<1>3. Bytes(Dropping(s, n)) <= InstanceBytes
  BY <1>2, SizesNat DEF Record
<1>4. n \in 0..Len(s) /\ Len(s) - n <= HistoryEvents
  BY HubAssumption
<1>5. m <= n
  BY <1>1, <1>3, <1>4
<1>6. m \in 0..n
  BY <1>1, <1>5
<1> QED BY <1>1, <1>6

(* So does the global limit: what is older goes first, and a record alone is
   within the limit. *)
LEMMA TrimsKeepingNewest ==
    ASSUME NEW all \in [VMs -> Seq(Record)], NEW o \in Nat, NEW i \in VMs,
           NEW n \in Nat, Len(all[i]) = n + 1, all[i][n + 1].order = o + 1,
           \A k \in 1..n : all[i][k].order <= o,
           \A j \in VMs \ {i} : \A k \in 1..Len(all[j]) : all[j][k].order <= o
    PROVE  /\ Trimmed(all, o + 1) \in [VMs -> Seq(Record)]
           /\ SumFunctionOnSet([j \in VMs |-> Bytes(Trimmed(all, o + 1)[j])], VMs)
                <= GlobalBytes
           /\ \A j \in VMs : \E m \in 0..Len(all[j]) : Trimmed(all, o + 1)[j] = Dropping(all[j], m)
           /\ \E m \in 0..n : Trimmed(all, o + 1)[i] = Dropping(all[i], m)
<1> DEFINE T == Trimmed(all, o + 1)
           f == [j \in VMs |-> Bytes(Beyond(all[j], "order", o))]
           z == [j \in VMs |-> 0]
<1>1. \A j \in VMs : \A k \in 1..Len(all[j]) : all[j][k].order <= o + 1
  <2>1. ASSUME NEW j \in VMs, NEW k \in 1..Len(all[j]) PROVE all[j][k].order <= o + 1
    <3>1. all[j] \in Seq(Record)
      OBVIOUS
    <3>2. all[j][k] \in Record
      BY <3>1, <2>1, ElementOfSeq
    <3>3. all[j][k].order \in Nat
      BY <3>2 DEF Record
    <3>4. CASE j # i
      BY <2>1, <3>3, <3>4
    <3>5. CASE j = i
      <4>1. k \in 1..n \/ k = n + 1
        BY <2>1, <3>5
      <4> QED BY <3>3, <3>5, <4>1
    <3> QED BY <3>4, <3>5
  <2> QED BY <2>1
<1>2. PICK t \in 0..(o + 1) :
              /\ T = [j \in VMs |-> Beyond(all[j], "order", t)]
              /\ SumFunctionOnSet([j \in VMs |-> Bytes(T[j])], VMs) <= GlobalBytes
              /\ \A u \in 0..(o + 1) :
                   SumFunctionOnSet([j \in VMs |-> Bytes(Beyond(all[j], "order", u))], VMs)
                     <= GlobalBytes => t <= u
  <2>1. o + 1 \in Nat
    OBVIOUS
  <2> QED BY <1>1, <2>1, TrimmedIs
<1>3. SumFunctionOnSet(f, VMs) <= GlobalBytes
  <2>1. ASSUME NEW j \in VMs \ {i} PROVE f[j] = 0
    <3>1. all[j] \in Seq(Record) /\ \A k \in 1..Len(all[j]) : all[j][k].order <= o
      OBVIOUS
    <3>2. Beyond(all[j], "order", o) = <<>>
      BY <3>1, NoneBeyond
    <3> QED BY <3>2, BytesEmpty
  <2>2. f[i] \in Nat /\ f[i] <= GlobalBytes
    <3>1. all[i] \in Seq(Record) /\ all[i][n + 1].order > o
      OBVIOUS
    <3>2. Beyond(all[i], "order", o) = Dropping(all[i], n)
      BY <3>1, NewestBeyond
    <3>3. all[i][n + 1] \in Record /\ f[i] = all[i][n + 1].size
      BY <3>1, <3>2, DroppingAllButLast
    <3>4. all[i][n + 1].size \in Sizes
      BY <3>3 DEF Record
    <3> QED BY <3>3, <3>4, SizesNat
  <2>3. \A j \in VMs : z[j] = 0
    OBVIOUS
  <2> HIDE DEF f, z
  <2>4. SumFunctionOnSet(z, VMs) = 0
    BY <2>3, SumZero, HubAssumption
  <2>5. \A j \in VMs : z[j] \in Int /\ f[j] \in Int /\ (j # i => z[j] = f[j])
    BY <2>1, <2>2, <2>3
  <2>6. SumFunctionOnSet(f, VMs) = SumFunctionOnSet(z, VMs) - z[i] + f[i]
    BY <2>5, SumChange, HubAssumption
  <2> QED BY <2>2, <2>3, <2>4, <2>6
<1>4. t <= o
  BY <1>2, <1>3
<1> HIDE DEF f, z, T
<1>5. ASSUME NEW j \in VMs
      PROVE  \E m \in 0..Len(all[j]) : T[j] = Dropping(all[j], m) /\ T[j] \in Seq(Record)
  <2>1. all[j] \in Seq(Record)
    OBVIOUS
  <2>2. PICK m \in 0..Len(all[j]) : Beyond(all[j], "order", t) = Dropping(all[j], m)
    BY <2>1, BeyondIs
  <2>3. Dropping(all[j], m) \in Seq(Record)
    BY <2>1, DroppingIs
  <2> QED BY <1>2, <2>2, <2>3
<1>6. T \in [VMs -> Seq(Record)]
  <2>1. T = [j \in VMs |-> T[j]]
    BY <1>2
  <2> QED BY <1>5, <2>1
<1>7. \E m \in 0..n : T[i] = Dropping(all[i], m)
  <2>1. all[i] \in Seq(Record) /\ t \in Nat /\ all[i][n + 1].order > t
    BY <1>4
  <2>2. PICK m \in 0..n : Beyond(all[i], "order", t) = Dropping(all[i], m)
    BY <2>1, NewestStays
  <2> QED BY <1>2, <2>2
<1> QED BY <1>2, <1>5, <1>6, <1>7 DEF T

Sum(f) == SumFunctionOnSet(f, VMs)

LEMMA SumIs == ASSUME NEW f, DOMAIN f = VMs PROVE SumFunction(f) = Sum(f)
BY Zenon DEF SumFunction, Sum

(* A push keeps the newest records of every history, the pushed one among them,
   within all limits. *)
LEMMA PushKeeps ==
    ASSUME HubTypes, History, Retention,
           NEW i \in VMs, NEW kind \in Kinds, NEW size \in Sizes, Push(i, kind, size)
    PROVE  LET g == Grown(i, New(i, kind, size))
           IN  /\ records' \in [VMs -> Seq(Record)]
               /\ \A j \in VMs : \E m \in 0..Len(g[j]) : records'[j] = Dropping(g[j], m)
               /\ \E m \in 0..Len(records[i]) : records'[i] = Dropping(g[i], m)
               /\ \A j \in VMs : /\ Len(records'[j]) <= HistoryEvents
                                       /\ Bytes(records'[j]) <= InstanceBytes
               /\ Sum([j \in VMs |-> Bytes(records'[j])]) <= GlobalBytes
<1> DEFINE r == New(i, kind, size)
           g == Grown(i, r)
           n == Len(records[i])
           all == [g EXCEPT ![i] = Retained(@)]
           o == nextOrder
           T == Trimmed(all, o + 1)
<1>1. records' = T
  BY DEF Push, Grown, New
<1>2. /\ r \in Record /\ r.order = o + 1
      /\ g \in [VMs -> Seq(Record)]
      /\ \A j \in VMs \ {i} : g[j] = records[j]
      /\ Len(g[i]) = n + 1 /\ n \in Nat
      /\ g[i][n + 1] = r
      /\ \A k \in 1..n : g[i][k] = records[i][k]
  BY GrownIs
<1>3. o \in Nat /\ records \in [VMs -> Seq(Record)]
  BY DEF HubTypes
<1>4. /\ \A j \in VMs : \A k \in 1..Len(records[j]) : records[j][k].order <= o
      /\ \A j \in VMs : /\ Len(records[j]) <= HistoryEvents
                              /\ Bytes(records[j]) <= InstanceBytes
  BY DEF History, Retention
<1> HIDE DEF r, g, n, o
<1>5. PICK a \in 0..n : /\ Retained(g[i]) = Dropping(g[i], a)
                        /\ Len(Retained(g[i])) <= HistoryEvents
                        /\ Bytes(Retained(g[i])) <= InstanceBytes
  BY <1>2, RetainsNewest
<1> DEFINE d == Dropping(g[i], a)
           q == n - a
<1>6. a \in 0..Len(g[i]) /\ q \in Nat /\ (n + 1) - a = q + 1 /\ a + (q + 1) = n + 1
  BY <1>2
<1>7. /\ d \in Seq(Record) /\ Len(d) = q + 1
      /\ \A k \in 1..(q + 1) : d[k] = g[i][a + k]
  <2>1. g[i] \in Seq(Record)
    BY <1>2
  <2>2. /\ d \in Seq(Record) /\ Len(d) = Len(g[i]) - a
        /\ \A k \in 1..(Len(g[i]) - a) : d[k] = g[i][a + k]
    BY <1>6, <2>1, DroppingIs
  <2> QED BY <1>2, <1>6, <2>2
<1> HIDE DEF d
<1>8. all[i] = d /\ \A j \in VMs \ {i} : all[j] = records[j]
  BY <1>2, <1>5 DEF d
<1>9. all \in [VMs -> Seq(Record)]
  BY <1>2, <1>5, <1>7 DEF d
<1> HIDE DEF all
<1>10. all[i][q + 1].order = o + 1
  <2>1. q + 1 \in 1..(q + 1)
    BY <1>6
  <2> QED BY <1>2, <1>6, <1>7, <1>8, <2>1
<1>11. ASSUME NEW k \in 1..q PROVE all[i][k].order <= o
  <2>1. k \in 1..(q + 1) /\ a + k \in 1..n
    BY <1>2, <1>6
  <2>2. all[i][k] = records[i][a + k]
    BY <1>2, <1>7, <1>8, <2>1
  <2> QED BY <1>4, <2>1, <2>2 DEF n
<1>12. \A j \in VMs \ {i} : \A k \in 1..Len(all[j]) : all[j][k].order <= o
  BY <1>4, <1>8
<1> HIDE DEF q
<1>13. /\ T \in [VMs -> Seq(Record)]
       /\ Sum([j \in VMs |-> Bytes(T[j])]) <= GlobalBytes
       /\ \A j \in VMs : \E m \in 0..Len(all[j]) : T[j] = Dropping(all[j], m)
       /\ \E m \in 0..q : T[i] = Dropping(all[i], m)
  BY <1>3, <1>6, <1>7, <1>8, <1>9, <1>10, <1>11, <1>12, TrimsKeepingNewest DEF Sum
<1> HIDE DEF T
<1>14. \E m \in 0..n : T[i] = Dropping(g[i], m)
  <2>1. PICK m \in 0..q : T[i] = Dropping(all[i], m)
    BY <1>13
  <2>2. m \in 0..(Len(g[i]) - a) /\ a + m \in 0..n
    BY <1>2, <1>5, <2>1 DEF q
  <2>3. g[i] \in Seq(Record)
    BY <1>2
  <2>4. Dropping(d, m) = Dropping(g[i], a + m)
    BY <1>6, <2>2, <2>3, DroppingTwice DEF d
  <2> QED BY <1>8, <2>1, <2>2, <2>4
<1>15. \A j \in VMs : \E m \in 0..Len(g[j]) : T[j] = Dropping(g[j], m)
  <2>1. \A m \in 0..n : m \in 0..Len(g[i])
    BY <1>2
  <2> QED BY <1>2, <1>8, <1>13, <1>14, <2>1
<1>16. ASSUME NEW j \in VMs
       PROVE  Len(T[j]) <= HistoryEvents /\ Bytes(T[j]) <= InstanceBytes
  <2>1. Len(all[j]) <= HistoryEvents /\ Bytes(all[j]) <= InstanceBytes
    BY <1>4, <1>5, <1>8 DEF d
  <2>2. all[j] \in Seq(Record) /\ Len(all[j]) \in Nat
    BY <1>9, LenProperties
  <2>3. PICK m \in 0..Len(all[j]) : T[j] = Dropping(all[j], m)
    BY <1>13
  <2>4. Len(T[j]) = Len(all[j]) - m /\ T[j] \in Seq(Record)
    BY <2>2, <2>3, DroppingIs
  <2>5. Bytes(T[j]) <= Bytes(all[j])
    BY <2>2, <2>3, BytesDropping
  <2>6. Bytes(T[j]) \in Int /\ Bytes(all[j]) \in Int
    BY <2>2, <2>4, BytesInt
  <2> QED BY <2>1, <2>2, <2>4, <2>5, <2>6, HubAssumption
<1> QED BY <1>1, <1>13, <1>14, <1>15, <1>16 DEF r, g, n

(* The counters stay exact. *)
LEMMA PushCounts ==
    ASSUME HubTypes, History, Retention,
           NEW i \in VMs, NEW kind \in Kinds, NEW size \in Sizes, Push(i, kind, size)
    PROVE  /\ bytes' = [j \in VMs |-> Bytes(records'[j])]
           /\ total' = Sum(bytes')
           /\ bytes' \in [VMs -> Int] /\ total' \in Int
<1> DEFINE g == Grown(i, New(i, kind, size))
           G == [j \in VMs |-> Bytes(g[j])]
           R == [j \in VMs |-> Bytes(records'[j])]
           D == [j \in VMs |-> Bytes(g[j]) - Bytes(records'[j])]
<1>1. /\ bytes' = [j \in VMs |-> (IF j = i THEN bytes[j] + size ELSE bytes[j]) - D[j]]
      /\ total' = total + size - SumFunction(D)
  BY DEF Push, Count, Grown, New
<1>2. /\ g \in [VMs -> Seq(Record)]
      /\ \A j \in VMs \ {i} : g[j] = records[j]
      /\ Bytes(g[i]) = Bytes(records[i]) + size
  BY GrownIs
<1>3. records' \in [VMs -> Seq(Record)]
  BY PushKeeps
<1>4. size \in Nat
  BY SizesNat
<1>5. \A j \in VMs : Bytes(g[j]) \in Int /\ Bytes(records'[j]) \in Int /\ bytes[j] \in Int
  BY <1>2, <1>3, BytesInt DEF HubTypes
<1>6. \A j \in VMs : bytes[j] = Bytes(records[j])
  BY DEF Retention
<1>7. SumFunction(D) = Sum(D)
  <2>1. DOMAIN D = VMs
    OBVIOUS
  <2> QED BY <2>1, SumIs
<1>8. SumFunction(bytes) = Sum(bytes)
  <2>1. DOMAIN bytes = VMs
    BY DEF HubTypes
  <2> QED BY <2>1, SumIs
<1> HIDE DEF g
<1>9. \A j \in VMs : bytes'[j] = Bytes(records'[j])
  <2> SUFFICES ASSUME NEW j \in VMs PROVE bytes'[j] = Bytes(records'[j])
    OBVIOUS
  <2>1. Bytes(g[j]) = IF j = i THEN bytes[j] + size ELSE bytes[j]
    BY <1>2, <1>6
  <2>2. bytes'[j] = Bytes(g[j]) - (Bytes(g[j]) - Bytes(records'[j]))
    BY <1>1, <2>1
  <2>3. \A u, v \in Int : u - (u - v) = v
    OBVIOUS
  <2> QED BY <1>5, <2>2, <2>3
<1>10. bytes' = R
  <2>1. bytes' = [j \in VMs |-> bytes'[j]]
    BY <1>1
  <2> QED BY <1>9, <2>1
<1>11. /\ \A j \in VMs : G[j] \in Int /\ R[j] \in Int /\ D[j] = G[j] - R[j]
       /\ \A j \in VMs : bytes[j] \in Int /\ (j # i => bytes[j] = G[j])
       /\ G[i] = bytes[i] + size
  BY <1>2, <1>5, <1>6
<1> HIDE DEF G, R, D
<1>12. Sum(D) = Sum(G) - Sum(R)
  BY <1>11, SumMinus, HubAssumption DEF Sum
<1>13. Sum(G) = Sum(bytes) - bytes[i] + G[i]
  BY <1>11, SumChange, HubAssumption DEF Sum
<1>14. Sum(G) \in Int /\ Sum(R) \in Int /\ Sum(bytes) \in Int
  BY <1>11, SumInt, HubAssumption DEF Sum
<1>15. total = Sum(bytes)
  BY <1>8 DEF Retention
<1>16. total' = Sum(R)
  <2>1. Sum(D) = ((Sum(bytes) - bytes[i]) + (bytes[i] + size)) - Sum(R)
    BY <1>11, <1>12, <1>13
  <2>2. bytes[i] \in Int /\ size \in Int
    BY <1>4, <1>11
  <2>3. \A u, v, w, s \in Int : u + s - (((u - v) + (v + s)) - w) = w
    OBVIOUS
  <2>4. total' = Sum(bytes) + size - Sum(D)
    BY <1>1, <1>7, <1>15
  <2> QED BY <1>14, <2>1, <2>2, <2>3, <2>4
<1>17. bytes' \in [VMs -> Int]
  BY <1>10, <1>11 DEF R
<1> QED BY <1>10, <1>14, <1>16, <1>17 DEF R

LEMMA KeptDropping ==
    ASSUME NEW s \in Seq(Record), NEW n \in Nat, NEW l, KeptOf(s, n, l), NEW m \in 0..Len(s)
    PROVE  KeptOf(Dropping(s, m), n, l)
<1> DEFINE d == Dropping(s, m)
           q == Len(s)
<1>1. q \in Nat /\ m \in Nat /\ m <= q
  BY LenProperties
<1>2. Len(d) = q - m /\ \A k \in 1..(q - m) : d[k] = s[m + k]
  BY DroppingIs
<1>3. q <= n /\ \A k \in 1..q : s[k].seq = (n - q) + k /\ s[k].kind = l[s[k].seq]
  BY <1>1 DEF KeptOf
<1> HIDE DEF d, q
<1>4. ASSUME NEW k \in 1..(q - m)
      PROVE  d[k].seq = (n - (q - m)) + k /\ d[k].kind = l[d[k].seq]
  <2>1. m + k \in 1..q /\ (n - q) + (m + k) = (n - (q - m)) + k
    BY <1>1
  <2> QED BY <1>2, <1>3, <2>1
<1>5. Len(d) <= n
  BY <1>1, <1>2, <1>3
<1>6. \A k \in 1..Len(d) : d[k].seq = n - Len(d) + k /\ d[k].kind = l[d[k].seq]
  BY <1>1, <1>2, <1>4
<1> QED BY <1>5, <1>6 DEF KeptOf, d

(* A push keeps the newest records of what was published. *)
LEMMA PushHistory ==
    ASSUME HubTypes, History, Retention,
           NEW i \in VMs, NEW kind \in Kinds, NEW size \in Sizes, Push(i, kind, size)
    PROVE  /\ History'
           /\ nextOrder' \in Nat /\ next' \in [VMs -> Nat] /\ log' \in [VMs -> Seq(Kinds)]
<1> DEFINE r == New(i, kind, size)
           g == Grown(i, r)
           n == Len(records[i])
<1>1. /\ nextOrder' = nextOrder + 1 /\ nextOrder \in Nat
      /\ next' = [next EXCEPT ![i] = @ + 1] /\ next \in [VMs -> Nat]
      /\ log' = [log EXCEPT ![i] = Append(@, kind)] /\ log \in [VMs -> Seq(Kinds)]
  BY DEF Push, HubTypes
<1>2. /\ records' \in [VMs -> Seq(Record)]
      /\ \A j \in VMs : \E m \in 0..Len(g[j]) : records'[j] = Dropping(g[j], m)
  BY PushKeeps
<1>3. /\ r \in Record /\ r.order = nextOrder + 1 /\ r.seq = next[i] + 1 /\ r.kind = kind
      /\ g \in [VMs -> Seq(Record)]
      /\ \A j \in VMs \ {i} : g[j] = records[j]
      /\ Len(g[i]) = n + 1 /\ n \in Nat
      /\ g[i][n + 1] = r
      /\ \A k \in 1..n : g[i][k] = records[i][k]
  BY GrownIs
<1> HIDE DEF r, g
<1>4. ASSUME NEW j \in VMs
      PROVE  /\ Len(log[j]) = next[j] /\ KeptOf(records[j], next[j], log[j])
             /\ \A k \in 1..Len(records[j]) : records[j][k].order <= nextOrder
  BY DEF History
<1>5. ASSUME NEW j \in VMs
      PROVE  /\ Len(log'[j]) = next'[j] /\ KeptOf(g[j], next'[j], log'[j])
             /\ \A k \in 1..Len(g[j]) : g[j][k].order <= nextOrder'
  <2>1. CASE j # i
    <3>1. log'[j] = log[j] /\ next'[j] = next[j] /\ g[j] = records[j]
      BY <1>1, <1>3, <2>1
    <3>2. \A k \in 1..Len(g[j]) : g[j][k].order \in Nat
      <4>1. \A k \in 1..Len(g[j]) : g[j][k] \in Record
        BY <1>3, ElementOfSeq
      <4> QED BY <4>1 DEF Record
    <3> QED BY <1>1, <1>4, <3>1, <3>2
  <2>2. CASE j = i
    <3> DEFINE l == log[i]
               e == Append(l, kind)
               N == next[i]
    <3>1. l \in Seq(Kinds) /\ Len(l) = N /\ N \in Nat
      BY <1>1, <1>4
    <3>2. Len(e) = N + 1 /\ e[N + 1] = kind /\ \A k \in 1..N : e[k] = l[k]
      BY <3>1, AppendProperties
    <3>3. log'[j] = e /\ next'[j] = N + 1
      BY <1>1, <2>2
    <3>4. n <= N /\ \A k \in 1..n : records[i][k].seq = (N - n) + k /\ records[i][k].kind = l[records[i][k].seq]
      BY <1>3, <1>4, <3>1 DEF KeptOf
    <3> HIDE DEF l, e, N
    <3>5. ASSUME NEW k \in 1..(n + 1)
          PROVE  /\ g[i][k].seq = ((N + 1) - (n + 1)) + k /\ g[i][k].kind = e[g[i][k].seq]
                 /\ g[i][k].order <= nextOrder + 1
      <4>1. CASE k = n + 1
        <5>1. g[i][k] = r
          BY <1>3, <4>1
        <5>2. r.seq = N + 1 /\ ((N + 1) - (n + 1)) + k = N + 1
          BY <1>3, <3>1, <4>1 DEF N
        <5>3. g[i][k].seq = ((N + 1) - (n + 1)) + k
          BY <5>1, <5>2
        <5>4. g[i][k].kind = kind /\ e[g[i][k].seq] = kind
          BY <1>3, <3>2, <5>1, <5>2
        <5>5. g[i][k].order <= nextOrder + 1
          BY <1>1, <1>3, <5>1
        <5> QED BY <5>3, <5>4, <5>5
      <4>2. CASE k \in 1..n
        <5>1. g[i][k] = records[i][k]
          BY <1>3, <4>2
        <5>2. (N - n) + k = ((N + 1) - (n + 1)) + k /\ (N - n) + k \in 1..N
          BY <1>3, <3>1, <3>4, <4>2
        <5>3. g[i][k].order \in Nat
          <6>1. g[i] \in Seq(Record) /\ k \in 1..Len(g[i])
            BY <1>3
          <6>2. g[i][k] \in Record
            BY <6>1, ElementOfSeq
          <6> QED BY <6>2 DEF Record
        <5>4. g[i][k].order <= nextOrder
          BY <1>4, <4>2, <5>1
        <5>5. g[i][k].seq = (N - n) + k /\ g[i][k].kind = l[(N - n) + k]
          BY <3>4, <4>2, <5>1
        <5>6. g[i][k].kind = e[g[i][k].seq]
          BY <3>2, <5>2, <5>5
        <5>7. g[i][k].order <= nextOrder + 1
          BY <1>1, <5>3, <5>4
        <5> QED BY <5>2, <5>5, <5>6, <5>7
      <4> QED BY <1>3, <4>1, <4>2
    <3>6. Len(g[i]) <= N + 1
      BY <1>3, <3>1, <3>4
    <3>7. KeptOf(g[i], N + 1, e)
      BY <1>3, <3>5, <3>6 DEF KeptOf
    <3> QED BY <1>1, <1>3, <2>2, <3>2, <3>3, <3>5, <3>7
  <2> QED BY <2>1, <2>2
<1>6. nextOrder' \in Nat /\ next' \in [VMs -> Nat]
  BY <1>1
<1>7. log' \in [VMs -> Seq(Kinds)]
  <2>1. log[i] \in Seq(Kinds)
    BY <1>1
  <2>2. Append(log[i], kind) \in Seq(Kinds)
    BY <2>1, AppendProperties
  <2> QED BY <1>1, <2>2
<1>8. ASSUME NEW j \in VMs
      PROVE  /\ KeptOf(records'[j], next'[j], log'[j])
             /\ \A k \in 1..Len(records'[j]) : records'[j][k].order <= nextOrder'
  <2>1. PICK m \in 0..Len(g[j]) : records'[j] = Dropping(g[j], m)
    BY <1>2
  <2>2. g[j] \in Seq(Record) /\ Len(g[j]) \in Nat /\ next'[j] \in Nat
    BY <1>3, <1>6, LenProperties
  <2>3. KeptOf(records'[j], next'[j], log'[j])
    BY <1>5, <2>1, <2>2, KeptDropping
  <2>4. Len(records'[j]) = Len(g[j]) - m /\ \A k \in 1..(Len(g[j]) - m) : records'[j][k] = g[j][m + k]
    BY <2>1, <2>2, DroppingIs
  <2>5. ASSUME NEW k \in 1..Len(records'[j]) PROVE records'[j][k].order <= nextOrder'
    <3>1. k \in 1..(Len(g[j]) - m) /\ m + k \in 1..Len(g[j])
      BY <2>2, <2>4
    <3> QED BY <1>5, <2>4, <3>1
  <2> QED BY <2>3, <2>5
<1> QED BY <1>5, <1>6, <1>7, <1>8 DEF History

-----------------------------------------------------------------------------
(* The counters are exact *)

HubInv == HubTypes /\ History /\ Retention

LEMMA BytesNat == ASSUME NEW s \in Seq(Record) PROVE 0 <= Bytes(s)
<1>1. Len(s) \in 0..Len(s)
  BY LenProperties
<1>2. Bytes(Dropping(s, Len(s))) <= Bytes(s)
  BY <1>1, BytesDropping
<1> QED BY <1>2, DroppingAll, BytesEmpty

LEMMA PushInv ==
    ASSUME HubInv, NEW i \in VMs, NEW kind \in Kinds, NEW size \in Sizes, Push(i, kind, size)
    PROVE  /\ History' /\ Retention'
           /\ nextOrder' \in Nat /\ next' \in [VMs -> Nat]
           /\ bytes' \in [VMs -> Int] /\ total' \in Int
           /\ records' \in [VMs -> Seq(Record)]
           /\ log' \in [VMs -> Seq(Kinds)]
<1> USE DEF HubInv
<1>1. /\ records' \in [VMs -> Seq(Record)]
      /\ \A j \in VMs : Len(records'[j]) <= HistoryEvents /\ Bytes(records'[j]) <= InstanceBytes
      /\ Sum([j \in VMs |-> Bytes(records'[j])]) <= GlobalBytes
  BY PushKeeps
<1>2. /\ bytes' = [j \in VMs |-> Bytes(records'[j])]
      /\ total' = Sum(bytes')
      /\ bytes' \in [VMs -> Int] /\ total' \in Int
  BY PushCounts
<1>3. SumFunction(bytes') = Sum(bytes')
  <2>1. DOMAIN bytes' = VMs
    BY <1>2
  <2> QED BY <2>1, SumIs
<1>4. Retention'
  <2>1. \A j \in VMs : bytes'[j] = Bytes(records'[j])
    BY <1>2
  <2>2. total' <= GlobalBytes
    BY <1>1, <1>2
  <2> QED BY <1>1, <1>2, <1>3, <2>1, <2>2 DEF Retention
<1> QED BY <1>1, <1>2, <1>4, PushHistory

LEMMA EmptyHub ==
    ASSUME NEW b, b = [i \in VMs |-> 0]
    PROVE  SumFunction(b) = 0
<1>1. DOMAIN b = VMs /\ \A i \in VMs : b[i] = 0
  OBVIOUS
<1>2. Sum(b) = 0
  BY <1>1, SumZero, HubAssumption DEF Sum
<1> QED BY <1>1, <1>2, SumIs

LEMMA EmptyHistory ==
    /\ <<>> \in Seq(Record) /\ <<>> \in Seq(Kinds) /\ Len(<<>>) = 0 /\ Bytes(<<>>) = 0
    /\ KeptOf(<<>>, 0, <<>>)
BY BytesEmpty DEF KeptOf

LEMMA HubInit == EventsInit => HubInv
<1> SUFFICES ASSUME EventsInit PROVE HubInv
  OBVIOUS
<1>1. HubTypes
  BY EmptyHistory DEF EventsInit, HubTypes
<1>2. History
  BY EmptyHistory DEF EventsInit, History
<1>3. SumFunction(bytes) = 0
  BY EmptyHub DEF EventsInit
<1>4. Retention
  BY <1>3, EmptyHistory, HubAssumption DEF EventsInit, Retention
<1> QED BY <1>1, <1>2, <1>4 DEF HubInv

LEMMA HubNext == HubInv /\ [EventsNext]_eventsVars => HubInv'
<1> SUFFICES ASSUME HubInv, [EventsNext]_eventsVars PROVE HubInv'
  OBVIOUS
<1> USE DEF HubInv
<1>1. CASE Restart
  <2>1. HubTypes'
    BY <1>1, EmptyHistory DEF Restart, HubTypes
  <2>2. History'
    BY <1>1, EmptyHistory DEF Restart, History
  <2>3. SumFunction(bytes') = 0
    BY <1>1, EmptyHub DEF Restart
  <2>4. Retention'
    BY <1>1, <2>3, EmptyHistory, HubAssumption DEF Restart, Retention
  <2> QED BY <2>1, <2>2, <2>4
<1>2. ASSUME NEW i \in VMs, PublishRecord(i) PROVE HubInv'
  <2>1. PICK size \in Sizes : /\ Push(i, "event", size)
                              /\ Broadcast(i, [seq |-> next[i] + 1, order |-> nextOrder + 1,
                                               kind |-> "event", size |-> size])
    BY <1>2 DEF PublishRecord
  <2>2. "event" \in Kinds
    BY DEF Kinds
  <2>3. /\ History' /\ Retention'
        /\ nextOrder' \in Nat /\ next' \in [VMs -> Nat]
        /\ bytes' \in [VMs -> Int] /\ total' \in Int
        /\ records' \in [VMs -> Seq(Record)]
        /\ log' \in [VMs -> Seq(Kinds)]
    BY <2>1, <2>2, PushInv
  <2>4. subs' \in [VMs -> SUBSET Clients]
    BY <2>1 DEF Broadcast, HubTypes
  <2>5. generation' \in Nat /\ life' \in [VMs -> Nat]
    BY <1>2 DEF PublishRecord, HubTypes
  <2> QED BY <2>3, <2>4, <2>5 DEF HubTypes
<1>3. ASSUME NEW i \in VMs, NEW c \in Clients, Resync(c, i) PROVE HubInv'
  <2>1. PICK size \in Sizes : Push(i, "snapshot", size)
    BY <1>3 DEF Resync
  <2>2. "snapshot" \in Kinds
    BY DEF Kinds
  <2>3. /\ History' /\ Retention'
        /\ nextOrder' \in Nat /\ next' \in [VMs -> Nat]
        /\ bytes' \in [VMs -> Int] /\ total' \in Int
        /\ records' \in [VMs -> Seq(Record)]
        /\ log' \in [VMs -> Seq(Kinds)]
    BY <2>1, <2>2, PushInv
  <2>4. /\ subs' \in [VMs -> SUBSET Clients]
        /\ generation' \in Nat /\ life' \in [VMs -> Nat]
    BY <1>3 DEF Resync, Join, HubTypes
  <2> QED BY <2>3, <2>4 DEF HubTypes
<1>4. ASSUME NEW i \in VMs, RemoveInstance(i) PROVE HubInv'
  <2>1. HubTypes'
    BY <1>4, EmptyHistory DEF RemoveInstance, Close, HubTypes
  <2>2. History'
    BY <1>4, EmptyHistory DEF RemoveInstance, Close, History, HubTypes
  <2>3. /\ total' = total - bytes[i]
        /\ bytes' = [bytes EXCEPT ![i] = 0] /\ bytes \in [VMs -> Int]
    BY <1>4 DEF RemoveInstance, Close, HubTypes
  <2>4. \A j \in VMs : bytes[j] \in Int /\ bytes'[j] \in Int /\ (j # i => bytes[j] = bytes'[j])
    BY <2>3
  <2>5. bytes'[i] = 0
    BY <2>3
  <2>6. Sum(bytes') = Sum(bytes) - bytes[i] + bytes'[i]
    <3> DEFINE f == bytes
               g == bytes'
    <3>1. \A j \in VMs : f[j] \in Int /\ g[j] \in Int /\ (j # i => f[j] = g[j])
      BY <2>4
    <3> HIDE DEF f, g
    <3>2. Sum(g) = Sum(f) - f[i] + g[i]
      BY <3>1, SumChange, HubAssumption DEF Sum
    <3> QED BY <3>2 DEF f, g
  <2>7. /\ SumFunction(bytes) = Sum(bytes) /\ SumFunction(bytes') = Sum(bytes')
    <3>1. DOMAIN bytes = VMs /\ DOMAIN bytes' = VMs
      BY <2>3
    <3> QED BY <3>1, SumIs
  <2>8. Sum(bytes) \in Int /\ bytes[i] \in Int
    BY <2>4, SumInt, HubAssumption DEF Sum
  <2>9. total' = SumFunction(bytes')
    BY <2>3, <2>5, <2>6, <2>7, <2>8 DEF Retention
  <2>10. 0 <= bytes[i]
    BY BytesNat DEF Retention, HubTypes
  <2>11. total' <= GlobalBytes
    BY <2>3, <2>8, <2>10, HubAssumption DEF Retention, HubTypes
  <2>12. \A j \in VMs : /\ Len(records'[j]) <= HistoryEvents
                              /\ bytes'[j] = Bytes(records'[j]) /\ bytes'[j] <= InstanceBytes
    <3>1. records' = [records EXCEPT ![i] = <<>>] /\ records \in [VMs -> Seq(Record)]
      BY <1>4 DEF RemoveInstance, Close, HubTypes
    <3> SUFFICES ASSUME NEW j \in VMs
                 PROVE /\ Len(records'[j]) <= HistoryEvents
                       /\ bytes'[j] = Bytes(records'[j]) /\ bytes'[j] <= InstanceBytes
      OBVIOUS
    <3>2. CASE j = i
      <4>1. records'[j] = <<>> /\ bytes'[j] = 0
        BY <2>5, <3>1, <3>2
      <4> QED BY <4>1, EmptyHistory, HubAssumption
    <3>3. CASE j # i
      <4>1. records'[j] = records[j] /\ bytes'[j] = bytes[j]
        BY <2>4, <3>1, <3>3
      <4> QED BY <4>1 DEF Retention
    <3> QED BY <3>2, <3>3
  <2>13. Retention'
    BY <2>9, <2>11, <2>12 DEF Retention
  <2> QED BY <2>1, <2>2, <2>13
<1>5. ASSUME NEW i \in VMs, NEW c \in Clients, Replay(c, i) PROVE HubInv'
  BY <1>5 DEF Replay, Join, HubTypes, History, Retention
<1>6. ASSUME NEW c \in Clients, Disconnect(c) PROVE HubInv'
  <2>1. subs' \in [VMs -> SUBSET Clients]
    BY <1>6 DEF Disconnect, Leave, HubTypes
  <2> QED BY <1>6, <2>1 DEF Disconnect, Leave, truth, HubTypes, History, Retention
<1>7. ASSUME NEW c \in Clients, Receive(c) \/ EndOfStream(c) PROVE HubInv'
  BY <1>7 DEF Receive, EndOfStream, hub, truth, HubTypes, History, Retention
<1>8. ASSUME NEW i \in VMs, CreateInstance(i) PROVE HubInv'
  BY <1>8 DEF CreateInstance, hub, HubTypes, History, Retention
<1>9. CASE UNCHANGED eventsVars
  BY <1>9 DEF eventsVars, hub, truth, HubTypes, History, Retention
<1> QED BY <1>1, <1>2, <1>3, <1>4, <1>5, <1>6, <1>7, <1>8, <1>9 DEF EventsNext

(* Whatever is published, evicted and closed, the limits hold and the counters
   are exact: no subtraction underflows. *)
THEOREM CountersExact == EventsSpec => []Retention
<1>1. EventsInit => HubInv
  BY HubInit
<1>2. HubInv /\ [EventsNext]_eventsVars => HubInv'
  BY HubNext
<1>3. HubInv => Retention
  BY DEF HubInv
<1> QED BY <1>1, <1>2, <1>3, PTL DEF EventsSpec

-----------------------------------------------------------------------------
(* What a client gets *)

ClientTypes ==
    /\ stream \in [Clients -> Stream \cup {NoStream}]
    /\ cursor \in [Clients -> Cursor \cup {NoCursor}]
    /\ backlog \in [Clients -> Seq(Record)]

(* A subscriber is connected to the present history of its instance. *)
Attached == \A i \in VMs : \A c \in subs[i] : stream[c] = [inst |-> i, life |-> life[i]]

(* No connection is to a later history than the present one, and a cursor of the
   present one is of a record that was published in it. *)
NotAhead ==
    \A c \in Clients :
        /\ stream[c] # NoStream => stream[c].life <= life[stream[c].inst]
        /\ cursor[c] # NoCursor =>
             /\ cursor[c].life <= life[cursor[c].inst]
             /\ (cursor[c].life = life[cursor[c].inst] =>
                   0 < cursor[c].seq /\ cursor[c].seq <= next[cursor[c].inst])

(* Between two sequence numbers there are only snapshots in a log. *)
Still(l, a, b) == \A k \in (a + 1)..(b - 1) : l[k] = "snapshot"

(* What is pending follows on itself ... *)
Ordered(p, n, l) ==
    \A k \in 1..Len(p) :
        /\ 0 < p[k].seq /\ p[k].seq <= n
        /\ (k > 1 => p[k - 1].seq < p[k].seq /\ Still(l, p[k - 1].seq, p[k].seq))

(* ... and leaves out nothing that came after it, *)
Reaches(p, n, l) == p # <<>> => Still(l, p[Len(p)].seq, n + 1)

(* and it follows on what the client had received, *)
Starts(p, s, l) ==
    p # <<>> => \/ p[1].kind = "snapshot"
                \/ s > 0 /\ s < p[1].seq /\ Still(l, s, p[1].seq)

(* which is everything if nothing is pending. *)
Ends(p, s, n, l) == p = <<>> => s > 0 /\ Still(l, s, n + 1)

InOrder(c) ==
    LET i == stream[c].inst
    IN  /\ Ordered(backlog[c], next[i], log[i])
        /\ (c \in subs[i] => Reaches(backlog[c], next[i], log[i]))

Joined(c) ==
    LET i == stream[c].inst
    IN  /\ Starts(backlog[c], Known(c), log[i])
        /\ (c \in subs[i] => Ends(backlog[c], Known(c), next[i], log[i]))

FollowInv ==
    /\ ClientTypes /\ Attached /\ NotAhead
    /\ \A c \in Clients : Current(c) => InOrder(c) /\ (~Outlived(c) => Joined(c))

LEMMA SeqNat ==
    ASSUME NEW p \in Seq(Record), NEW k \in 1..Len(p)
    PROVE  p[k] \in Record /\ p[k].seq \in Nat
<1>1. p[k] \in Record
  BY ElementOfSeq
<1> QED BY <1>1 DEF Record

LEMMA LastIs ==
    ASSUME NEW s \in Seq(Record), s # <<>>
    PROVE  /\ Len(s) \in Nat /\ Len(s) \in 1..Len(s) /\ 1 \in 1..Len(s)
           /\ Last(s) = s[Len(s)] /\ s[Len(s)].seq \in Nat /\ s[1].seq \in Nat
<1>1. Len(s) \in Nat /\ Len(s) # 0
  BY LenProperties, EmptySeq
<1>2. Last(s) = s[Len(s)]
  BY DEF Last
<1>3. Len(s) \in 1..Len(s) /\ 1 \in 1..Len(s)
  BY <1>1
<1> QED BY <1>1, <1>2, <1>3, SeqNat

(* The parts of the invariant are what the property asks for. *)
LEMMA FollowsIs == FollowInv => Complete
<1> SUFFICES ASSUME FollowInv, NEW c \in Clients, Current(c), ~Outlived(c) PROVE Follows(c)
  BY DEF Complete
<1> DEFINE i == stream[c].inst
           p == backlog[c]
           n == next[i]
           l == log[i]
           s == Known(c)
<1>1. /\ p \in Seq(Record)
      /\ Ordered(p, n, l) /\ (c \in subs[i] => Reaches(p, n, l))
      /\ Starts(p, s, l) /\ (c \in subs[i] => Ends(p, s, n, l))
  BY DEF FollowInv, ClientTypes, InOrder, Joined
<1>2. \A a, b : Quiet(i, a, b) <=> Still(l, a, b)
  BY DEF Quiet, Still
<1>3. \A k : Previous(c, k) = IF k = 1 THEN s ELSE p[k - 1].seq
  BY DEF Previous
<1>4. Latest(c) = IF p = <<>> THEN s ELSE Last(p).seq
  BY DEF Latest
<1> SUFFICES /\ \A k \in 1..Len(p) :
                  \/ k = 1 /\ p[1].kind = "snapshot"
                  \/ /\ Previous(c, k) > 0 /\ Previous(c, k) < p[k].seq
                     /\ Still(l, Previous(c, k), p[k].seq)
             /\ (c \in subs[i] => Latest(c) > 0 /\ Still(l, Latest(c), n + 1))
  BY <1>2 DEF Follows
<1> HIDE DEF i, p, n, l, s
<1>5. Len(p) \in Nat
  BY <1>1, LenProperties
<1>6. ASSUME NEW k \in 1..Len(p)
      PROVE  \/ k = 1 /\ p[1].kind = "snapshot"
             \/ /\ Previous(c, k) > 0 /\ Previous(c, k) < p[k].seq
                /\ Still(l, Previous(c, k), p[k].seq)
  <2>1. CASE k = 1
    <3>1. p # <<>>
      BY <1>1, <1>5, EmptySeq
    <3> QED BY <1>1, <1>3, <2>1, <3>1 DEF Starts
  <2>2. CASE k # 1
    <3>1. k > 1 /\ k - 1 \in 1..Len(p)
      BY <1>5, <2>2
    <3>2. 0 < p[k - 1].seq /\ p[k - 1].seq < p[k].seq /\ Still(l, p[k - 1].seq, p[k].seq)
      BY <1>1, <3>1 DEF Ordered
    <3>3. p[k - 1].seq \in Nat
      BY <1>1, <3>1, SeqNat
    <3> QED BY <1>3, <2>2, <3>2, <3>3
  <2> QED BY <2>1, <2>2
<1>7. ASSUME c \in subs[i] PROVE Latest(c) > 0 /\ Still(l, Latest(c), n + 1)
  <2>1. CASE p = <<>>
    BY <1>1, <1>4, <1>7, <2>1 DEF Ends
  <2>2. CASE p # <<>>
    <3>1. Len(p) \in 1..Len(p) /\ Last(p) = p[Len(p)] /\ Last(p).seq \in Nat
      BY <1>1, <2>2, LastIs
    <3>2. 0 < Last(p).seq /\ Still(l, Last(p).seq, n + 1)
      BY <1>1, <1>7, <2>2, <3>1 DEF Ordered, Reaches
    <3> QED BY <1>4, <2>2, <3>1, <3>2
  <2> QED BY <2>1, <2>2
<1> QED BY <1>6, <1>7

(* A log grows at its end. *)
Longer(l, n, m, o) ==
    /\ n \in Nat /\ o \in Nat /\ n <= o
    /\ \A k \in 1..n : m[k] = l[k]

LEMMA OrderedLonger ==
    ASSUME NEW p \in Seq(Record), NEW n, NEW l, NEW o, NEW m, Longer(l, n, m, o), Ordered(p, n, l)
    PROVE  /\ Ordered(p, o, m)
           /\ \A s \in Nat : Starts(p, s, l) => Starts(p, s, m)
<1>1. n \in Nat /\ o \in Nat /\ n <= o /\ \A k \in 1..n : m[k] = l[k]
  BY DEF Longer
<1>2. ASSUME NEW a \in Nat, NEW b \in Nat, b <= n, Still(l, a, b) PROVE Still(m, a, b)
  <2>1. \A k \in (a + 1)..(b - 1) : k \in 1..n
    BY <1>1, <1>2
  <2> QED BY <1>1, <1>2, <2>1 DEF Still
<1>3. ASSUME NEW k \in 1..Len(p)
      PROVE  /\ p[k].seq \in Nat /\ 0 < p[k].seq /\ p[k].seq <= n
             /\ (k > 1 => /\ p[k - 1].seq \in Nat /\ p[k - 1].seq < p[k].seq
                          /\ Still(l, p[k - 1].seq, p[k].seq))
  <2>1. k > 1 => k - 1 \in 1..Len(p)
    BY LenProperties
  <2> QED BY <2>1, SeqNat DEF Ordered
<1>4. Ordered(p, o, m)
  <2> SUFFICES ASSUME NEW k \in 1..Len(p)
               PROVE  /\ 0 < p[k].seq /\ p[k].seq <= o
                      /\ (k > 1 => p[k - 1].seq < p[k].seq /\ Still(m, p[k - 1].seq, p[k].seq))
    BY DEF Ordered
  <2> QED BY <1>1, <1>2, <1>3
<1>5. ASSUME NEW s \in Nat, Starts(p, s, l) PROVE Starts(p, s, m)
  <2>1. p # <<>> => 1 \in 1..Len(p)
    BY LastIs
  <2> QED BY <1>2, <1>3, <1>5, <2>1 DEF Starts
<1> QED BY <1>4, <1>5

(* Only snapshots follow. *)
LEMMA ReachesLonger ==
    ASSUME NEW p \in Seq(Record), NEW n, NEW l, NEW o, NEW m, Longer(l, n, m, o),
           \A k \in (n + 1)..o : m[k] = "snapshot"
    PROVE  /\ Reaches(p, n, l) => Reaches(p, o, m)
           /\ \A s \in Nat : Ends(p, s, n, l) => Ends(p, s, o, m)
<1>1. n \in Nat /\ o \in Nat /\ n <= o /\ \A k \in 1..n : m[k] = l[k]
  BY DEF Longer
<1>2. ASSUME NEW a \in Nat, Still(l, a, n + 1) PROVE Still(m, a, o + 1)
  <2> SUFFICES ASSUME NEW k \in (a + 1)..((o + 1) - 1) PROVE m[k] = "snapshot"
    BY DEF Still
  <2>1. \/ k \in 1..n /\ k \in (a + 1)..((n + 1) - 1)
        \/ k \in (n + 1)..o
    BY <1>1
  <2> QED BY <1>1, <1>2, <2>1 DEF Still
<1>3. p # <<>> => p[Len(p)].seq \in Nat
  BY LastIs
<1> QED BY <1>2, <1>3 DEF Reaches, Ends

(* The next record is queued. *)
LEMMA OrderedAppend ==
    ASSUME NEW p \in Seq(Record), NEW n, NEW l, NEW m, Longer(l, n, m, n + 1),
           Ordered(p, n, l), Reaches(p, n, l), NEW r \in Record, r.seq = n + 1
    PROVE  /\ Append(p, r) \in Seq(Record)
           /\ Ordered(Append(p, r), n + 1, m) /\ Reaches(Append(p, r), n + 1, m)
           /\ \A s \in Nat : s <= n /\ Starts(p, s, l) /\ Ends(p, s, n, l)
                             => Starts(Append(p, r), s, m)
<1> DEFINE q == Append(p, r)
           e == Len(p)
<1>1. n \in Nat /\ \A k \in 1..n : m[k] = l[k]
  BY DEF Longer
<1>2. e \in Nat /\ (e = 0 <=> p = <<>>)
  BY LenProperties, EmptySeq
<1>3. /\ q \in Seq(Record) /\ Len(q) = e + 1 /\ q[e + 1] = r
      /\ \A k \in 1..e : q[k] = p[k]
  BY AppendProperties
<1>4. Ordered(p, n + 1, m) /\ \A s \in Nat : Starts(p, s, l) => Starts(p, s, m)
  BY OrderedLonger
<1>5. ASSUME NEW a \in Nat, Still(l, a, n + 1) PROVE Still(m, a, n + 1)
  <2>1. \A k \in (a + 1)..((n + 1) - 1) : k \in 1..n
    BY <1>1
  <2> QED BY <1>1, <1>5, <2>1 DEF Still
<1>6. p # <<>> => p[e].seq \in Nat /\ 0 < p[e].seq /\ p[e].seq <= n /\ Still(m, p[e].seq, n + 1)
  <2> SUFFICES ASSUME p # <<>>
               PROVE  p[e].seq \in Nat /\ 0 < p[e].seq /\ p[e].seq <= n /\ Still(m, p[e].seq, n + 1)
    OBVIOUS
  <2>1. p[e].seq \in Nat /\ e \in 1..Len(p)
    BY LastIs
  <2>2. Still(l, p[e].seq, n + 1)
    BY DEF Reaches
  <2> QED BY <1>5, <2>1, <2>2 DEF Ordered
<1> HIDE DEF q
<1>7. Ordered(q, n + 1, m)
  <2> SUFFICES ASSUME NEW k \in 1..(e + 1)
               PROVE  /\ 0 < q[k].seq /\ q[k].seq <= n + 1
                      /\ (k > 1 => q[k - 1].seq < q[k].seq /\ Still(m, q[k - 1].seq, q[k].seq))
    BY <1>3 DEF Ordered
  <2>1. CASE k = e + 1
    <3>1. q[k].seq = n + 1
      BY <1>3, <2>1
    <3>2. ASSUME k > 1 PROVE q[k - 1].seq < n + 1 /\ Still(m, q[k - 1].seq, n + 1)
      <4>1. k - 1 = e /\ e \in 1..e /\ p # <<>>
        BY <1>2, <2>1, <3>2
      <4>2. q[k - 1] = p[e]
        BY <1>3, <4>1
      <4> QED BY <1>1, <1>6, <4>1, <4>2
    <3> QED BY <1>1, <3>1, <3>2
  <2>2. CASE k \in 1..e
    <3>1. q[k] = p[k] /\ (k > 1 => q[k - 1] = p[k - 1])
      BY <1>3, <2>2
    <3> QED BY <1>4, <2>2, <3>1 DEF Ordered
  <2> QED BY <1>2, <2>1, <2>2
<1>8. Reaches(q, n + 1, m)
  <2>1. \A k \in ((n + 1) + 1)..(((n + 1) + 1) - 1) : FALSE
    BY <1>1
  <2> QED BY <1>3, <2>1 DEF Reaches, Still
<1>9. ASSUME NEW s \in Nat, s <= n, Starts(p, s, l), Ends(p, s, n, l) PROVE Starts(q, s, m)
  <2>1. CASE p = <<>>
    <3>1. q[1] = r
      BY <1>2, <1>3, <2>1
    <3>2. s > 0 /\ Still(m, s, n + 1)
      BY <1>5, <1>9, <2>1 DEF Ends
    <3> QED BY <1>1, <1>9, <3>1, <3>2 DEF Starts
  <2>2. CASE p # <<>>
    <3>1. 1 \in 1..e
      BY LastIs, <2>2
    <3>2. q[1] = p[1] /\ Starts(p, s, m)
      BY <1>3, <1>4, <1>9, <3>1
    <3> QED BY <2>2, <3>2 DEF Starts
  <2> QED BY <2>1, <2>2
<1> QED BY <1>3, <1>7, <1>8, <1>9 DEF q

(* The client receives the first record. *)
LEMMA OrderedTail ==
    ASSUME NEW p \in Seq(Record), p # <<>>, NEW n, NEW l, Ordered(p, n, l)
    PROVE  /\ Tail(p) \in Seq(Record)
           /\ p[1].seq \in Nat /\ 0 < p[1].seq /\ p[1].seq <= n
           /\ Ordered(Tail(p), n, l) /\ Starts(Tail(p), p[1].seq, l)
           /\ (Reaches(p, n, l) => Reaches(Tail(p), n, l) /\ Ends(Tail(p), p[1].seq, n, l))
<1> DEFINE q == Tail(p)
           e == Len(p)
<1>1. e \in Nat /\ 1 <= e /\ 1 \in 1..e /\ e \in 1..e /\ p[1].seq \in Nat
  BY LastIs
<1>2. q \in Seq(Record) /\ Len(q) = e - 1 /\ \A k \in 1..(e - 1) : q[k] = p[k + 1]
  BY HeadTailProperties
<1>3. ASSUME NEW k \in 1..e
      PROVE  /\ 0 < p[k].seq /\ p[k].seq <= n /\ p[k].seq \in Nat
             /\ (k > 1 => p[k - 1].seq < p[k].seq /\ Still(l, p[k - 1].seq, p[k].seq))
  BY SeqNat DEF Ordered
<1>4. q = <<>> <=> e = 1
  BY <1>1, <1>2, EmptySeq
<1> HIDE DEF q, e
<1>5. Ordered(q, n, l)
  <2> SUFFICES ASSUME NEW k \in 1..(e - 1)
               PROVE  /\ 0 < q[k].seq /\ q[k].seq <= n
                      /\ (k > 1 => q[k - 1].seq < q[k].seq /\ Still(l, q[k - 1].seq, q[k].seq))
    BY <1>2 DEF Ordered
  <2>1. k + 1 \in 1..e /\ q[k] = p[k + 1] /\ (k + 1) - 1 = k
    BY <1>1, <1>2
  <2>2. k > 1 => q[k - 1] = p[k] /\ k + 1 > 1
    <3>1. k > 1 => k - 1 \in 1..(e - 1) /\ (k - 1) + 1 = k
      BY <1>1
    <3> QED BY <1>2, <3>1
  <2>3. /\ 0 < p[k + 1].seq /\ p[k + 1].seq <= n
        /\ (k + 1 > 1 => p[k].seq < p[k + 1].seq /\ Still(l, p[k].seq, p[k + 1].seq))
    BY <1>3, <2>1
  <2> QED BY <2>1, <2>2, <2>3
<1>6. Starts(q, p[1].seq, l)
  <2> SUFFICES ASSUME q # <<>>
               PROVE  p[1].seq > 0 /\ p[1].seq < q[1].seq /\ Still(l, p[1].seq, q[1].seq)
    BY DEF Starts
  <2>1. 1 \in 1..(e - 1) /\ 2 \in 1..e /\ 1 + 1 = 2 /\ 2 - 1 = 1 /\ 2 > 1
    BY <1>1, <1>4
  <2>2. q[1] = p[2]
    BY <1>2, <2>1
  <2>3. p[2 - 1].seq < p[2].seq /\ Still(l, p[2 - 1].seq, p[2].seq)
    BY <1>3, <2>1
  <2> QED BY <1>1, <1>3, <2>1, <2>2, <2>3
<1>7. ASSUME Reaches(p, n, l) PROVE Reaches(q, n, l) /\ Ends(q, p[1].seq, n, l)
  <2>1. Still(l, p[e].seq, n + 1)
    BY <1>7 DEF Reaches, e
  <2>2. CASE q = <<>>
    BY <1>1, <1>3, <1>4, <2>1, <2>2 DEF Reaches, Ends
  <2>3. CASE q # <<>>
    <3>1. e - 1 \in 1..(e - 1) /\ (e - 1) + 1 = e
      BY <1>1, <1>4, <2>3
    <3>2. q[Len(q)] = p[e]
      BY <1>2, <3>1
    <3> QED BY <2>1, <2>3, <3>2 DEF Reaches, Ends
  <2> QED BY <2>2, <2>3
<1> QED BY <1>1, <1>2, <1>3, <1>5, <1>6, <1>7 DEF q

(* A replay is all that was published after the record of the cursor. *)
LEMMA ReplayFollows ==
    ASSUME HubInv, NEW i \in VMs, NEW s \in Nat, First(i) - 1 <= s, s <= next[i]
    PROVE  LET p == Beyond(records[i], "seq", s)
           IN  /\ p \in Seq(Record)
               /\ Ordered(p, next[i], log[i]) /\ Reaches(p, next[i], log[i])
               /\ (s > 0 => Starts(p, s, log[i]) /\ Ends(p, s, next[i], log[i]))
<1> DEFINE a == records[i]
           e == Len(a)
           n == next[i]
           l == log[i]
           p == Beyond(a, "seq", s)
<1>1. a \in Seq(Record) /\ n \in Nat /\ e \in Nat /\ KeptOf(a, n, l)
  BY LenProperties DEF HubInv, HubTypes, History
<1>2. e <= n /\ \A k \in 1..e : a[k].seq = (n - e) + k /\ a[k] \in Record /\ a[k]["seq"] = a[k].seq
  <2>1. \A k \in 1..e : a[k] \in Record
    BY <1>1, ElementOfSeq
  <2> QED BY <1>1, <2>1, FieldIs DEF KeptOf
<1>3. PICK m \in 0..e :
        /\ p = Dropping(a, m)
        /\ \A k \in (m + 1)..e : a[k]["seq"] > s
        /\ \A b \in 0..e : (\A k \in (b + 1)..e : a[k]["seq"] > s) => m <= b
  BY <1>1, BeyondIs
<1>4. p \in Seq(Record) /\ Len(p) = e - m /\ \A k \in 1..(e - m) : p[k] = a[m + k]
  BY <1>1, <1>3, DroppingIs
<1>5. First(i) = (n - e) + 1
  <2>1. CASE a = <<>>
    <3>1. e = 0
      BY <2>1
    <3> QED BY <1>1, <2>1, <3>1 DEF First
  <2>2. CASE a # <<>>
    <3>1. 1 \in 1..e
      BY <1>1, <2>2, LastIs
    <3> QED BY <1>2, <2>2, <3>1 DEF First
  <2> QED BY <2>1, <2>2
<1> HIDE DEF a, e, n, l, p
<1>6. n - e <= s /\ s <= n
  BY <1>1, <1>5 DEF n
<1>7. s = (n - e) + m
  <2>1. CASE m = 0
    <3>1. e = 0 \/ 1 \in (m + 1)..e
      BY <1>1, <2>1
    <3>2. ASSUME 1 \in (m + 1)..e PROVE s < (n - e) + 1
      <4>1. 1 \in 1..e
        BY <1>1, <3>2
      <4> QED BY <1>1, <1>2, <1>3, <3>2, <4>1
    <3> QED BY <1>1, <1>6, <2>1, <3>1, <3>2
  <2>2. CASE m > 0
    <3>1. m - 1 \in 0..e /\ m \in 1..e /\ (m - 1) + 1 = m
      BY <1>1, <2>2
    <3>2. ~(\A k \in ((m - 1) + 1)..e : a[k]["seq"] > s)
      <4>1. ~(m <= m - 1)
        BY <1>1
      <4> QED BY <1>3, <3>1, <4>1
    <3>3. PICK k \in m..e : ~(a[k]["seq"] > s)
      BY <3>1, <3>2
    <3>4. k = m
      BY <1>1, <1>3, <3>1, <3>3
    <3>5. (n - e) + m <= s
      BY <1>1, <1>2, <3>1, <3>3, <3>4
    <3>6. CASE m = e
      BY <1>1, <1>6, <3>5, <3>6
    <3>7. CASE m < e
      <4>1. m + 1 \in (m + 1)..e /\ m + 1 \in 1..e
        BY <1>1, <3>7
      <4>2. a[m + 1]["seq"] > s /\ a[m + 1]["seq"] = (n - e) + (m + 1)
        BY <1>2, <1>3, <4>1
      <4> QED BY <1>1, <3>5, <4>2
    <3> QED BY <1>1, <3>6, <3>7
  <2> QED BY <1>1, <2>1, <2>2
<1>8. Len(p) = n - s /\ \A k \in 1..(n - s) : p[k].seq = s + k
  <2>1. e - m = n - s
    BY <1>1, <1>2, <1>7
  <2>2. ASSUME NEW k \in 1..(n - s) PROVE p[k].seq = s + k
    <3>1. k \in 1..(e - m) /\ m + k \in 1..e /\ (n - e) + (m + k) = s + k
      BY <1>1, <1>7, <2>1
    <3> QED BY <1>2, <1>4, <3>1
  <2> QED BY <1>4, <2>1, <2>2
<1>9. \A b \in Nat : Still(l, b, b + 1)
  BY DEF Still
<1>10. Ordered(p, n, l)
  <2> SUFFICES ASSUME NEW k \in 1..(n - s)
               PROVE  /\ 0 < p[k].seq /\ p[k].seq <= n
                      /\ (k > 1 => p[k - 1].seq < p[k].seq /\ Still(l, p[k - 1].seq, p[k].seq))
    BY <1>8 DEF Ordered
  <2>1. k > 1 => k - 1 \in 1..(n - s) /\ s + (k - 1) \in Nat /\ (s + (k - 1)) + 1 = s + k
    BY <1>1
  <2>2. k > 1 => p[k - 1].seq = s + (k - 1)
    BY <1>8, <2>1
  <2>3. k > 1 => p[k - 1].seq < p[k].seq /\ Still(l, p[k - 1].seq, p[k].seq)
    <3>1. p[k].seq = s + k
      BY <1>8
    <3>2. k > 1 => s + (k - 1) < s + k
      BY <1>1
    <3>3. k > 1 => Still(l, s + (k - 1), s + k)
      BY <1>9, <2>1
    <3> QED BY <2>2, <3>1, <3>2, <3>3
  <2> QED BY <1>1, <1>8, <2>3
<1>11. p = <<>> <=> s = n
  BY <1>1, <1>4, <1>6, <1>8, EmptySeq
<1>12. Reaches(p, n, l)
  <2> SUFFICES ASSUME p # <<>> PROVE Still(l, p[Len(p)].seq, n + 1)
    BY DEF Reaches
  <2>1. n - s \in 1..(n - s) /\ s + (n - s) = n
    BY <1>1, <1>6, <1>11
  <2>2. p[Len(p)].seq = n
    BY <1>8, <2>1
  <2> QED BY <1>1, <1>9, <2>2
<1>13. ASSUME s > 0 PROVE Starts(p, s, l) /\ Ends(p, s, n, l)
  <2>1. p # <<>> => p[1].seq = s + 1
    <3>1. p # <<>> => 1 \in 1..(n - s)
      BY <1>1, <1>6, <1>11
    <3> QED BY <1>8, <3>1
  <2>2. Starts(p, s, l)
    <3>1. s < s + 1
      OBVIOUS
    <3> QED BY <1>9, <1>13, <2>1, <3>1 DEF Starts
  <2>3. Ends(p, s, n, l)
    BY <1>9, <1>11, <1>13 DEF Ends
  <2> QED BY <2>2, <2>3
<1> QED BY <1>4, <1>10, <1>12, <1>13 DEF a, n, l, p

(* A snapshot alone needs nothing before it. *)
LEMMA SnapshotFollows ==
    ASSUME NEW r \in Record, r.kind = "snapshot", NEW n \in Nat, r.seq = n, 0 < n, NEW l
    PROVE  /\ <<r>> \in Seq(Record)
           /\ Ordered(<<r>>, n, l) /\ Reaches(<<r>>, n, l)
           /\ \A s \in Nat : Starts(<<r>>, s, l) /\ Ends(<<r>>, s, n, l)
<1> DEFINE p == <<r>>
<1>1. p \in Seq(Record) /\ Len(p) = 1 /\ p[1] = r /\ p # <<>>
  OBVIOUS
<1> HIDE DEF p
<1>2. Still(l, n, n + 1)
  BY DEF Still
<1>3. Ordered(p, n, l)
  BY <1>1 DEF Ordered
<1> QED BY <1>1, <1>2, <1>3 DEF p, Reaches, Starts, Ends

(* The newest record after a push is the one that was pushed. *)
LEMMA PushedLast ==
    ASSUME HubInv, NEW i \in VMs, NEW kind \in Kinds, NEW size \in Sizes, Push(i, kind, size)
    PROVE  /\ records'[i] # <<>> /\ Last(records'[i]) = New(i, kind, size)
           /\ New(i, kind, size) \in Record
           /\ New(i, kind, size).seq = next[i] + 1 /\ New(i, kind, size).kind = kind
<1> USE DEF HubInv
<1> DEFINE r == New(i, kind, size)
           g == Grown(i, r)
           n == Len(records[i])
<1>1. /\ r \in Record /\ r.seq = next[i] + 1 /\ r.kind = kind
      /\ g \in [VMs -> Seq(Record)]
      /\ Len(g[i]) = n + 1 /\ n \in Nat /\ g[i][n + 1] = r
  BY GrownIs
<1>2. PICK m \in 0..n : records'[i] = Dropping(g[i], m)
  BY PushKeeps
<1> HIDE DEF r, g, n
<1>3. m \in 0..Len(g[i]) /\ g[i] \in Seq(Record)
  BY <1>1
<1> DEFINE d == Dropping(g[i], m)
<1>4. d \in Seq(Record) /\ Len(d) = Len(g[i]) - m /\ \A k \in 1..(Len(g[i]) - m) : d[k] = g[i][m + k]
  BY <1>3, DroppingIs
<1> HIDE DEF d
<1>5. /\ Len(d) = (n + 1) - m /\ (n + 1) - m \in 1..((n + 1) - m)
      /\ m + ((n + 1) - m) = n + 1
  BY <1>1, <1>4
<1>6. d[Len(d)] = r /\ d # <<>>
  BY <1>1, <1>4, <1>5
<1>7. Last(d) = r
  BY <1>6 DEF Last
<1> QED BY <1>1, <1>2, <1>6, <1>7 DEF d, r

LEMMA ConnectionIs ==
    ASSUME HubInv, FollowInv, NEW c \in Clients, Current(c)
    PROVE  /\ stream[c] \in Stream /\ stream[c].inst \in VMs
           /\ stream[c].life = life[stream[c].inst]
           /\ backlog[c] \in Seq(Record)
           /\ next[stream[c].inst] \in Nat /\ Len(log[stream[c].inst]) = next[stream[c].inst]
           /\ Known(c) \in Nat /\ Known(c) <= next[stream[c].inst]
           /\ InOrder(c) /\ (~Outlived(c) => Joined(c))
<1>1. /\ stream[c] \in Stream /\ stream[c].inst \in VMs
      /\ stream[c].life = life[stream[c].inst]
      /\ backlog[c] \in Seq(Record)
  BY DEF FollowInv, ClientTypes, Current, Stream
<1>2. next[stream[c].inst] \in Nat /\ Len(log[stream[c].inst]) = next[stream[c].inst]
  BY <1>1 DEF HubInv, HubTypes, History
<1>3. Known(c) \in Nat /\ Known(c) <= next[stream[c].inst]
  <2>1. CASE cursor[c] # NoCursor /\ cursor[c].inst = stream[c].inst /\ cursor[c].life = stream[c].life
    <3>1. cursor[c] \in Cursor
      BY <2>1 DEF FollowInv, ClientTypes
    <3>2. cursor[c].seq \in Nat /\ cursor[c].seq <= next[stream[c].inst]
      BY <1>1, <2>1, <3>1 DEF FollowInv, NotAhead, Cursor
    <3> QED BY <2>1, <3>2 DEF Known
  <2>2. CASE ~(cursor[c] # NoCursor /\ cursor[c].inst = stream[c].inst /\ cursor[c].life = stream[c].life)
    <3>1. Known(c) = 0
      BY <2>2 DEF Known
    <3> QED BY <1>2, <3>1
  <2> QED BY <2>1, <2>2
<1> QED BY <1>1, <1>2, <1>3 DEF FollowInv

(* A client that the step does not touch still follows: its history grew, and
   while it is subscribed only by snapshots. *)
LEMMA BystanderFollows ==
    ASSUME HubInv, FollowInv, NEW c \in Clients, Current(c),
           stream'[c] = stream[c], backlog'[c] = backlog[c], cursor'[c] = cursor[c],
           generation' = generation,
           LET i == stream[c].inst
           IN  /\ Longer(log[i], next[i], log'[i], next'[i])
               /\ (c \in subs'[i] => /\ c \in subs[i]
                                     /\ \A k \in (next[i] + 1)..next'[i] : log'[i][k] = "snapshot")
    PROVE  InOrder(c)' /\ (~Outlived(c)' => Joined(c)')
<1> DEFINE i == stream[c].inst
           p == backlog[c]
           s == Known(c)
<1>1. /\ p \in Seq(Record) /\ s \in Nat
      /\ InOrder(c) /\ (~Outlived(c) => Joined(c))
  BY ConnectionIs
<1>2. Known(c)' = s
  BY DEF Known
<1>3. Outlived(c)' <=> Outlived(c)
  BY DEF Outlived
<1>4. Ordered(p, next[i], log[i]) /\ (c \in subs[i] => Reaches(p, next[i], log[i]))
  BY <1>1 DEF InOrder
<1>5. ~Outlived(c) => /\ Starts(p, s, log[i])
                      /\ (c \in subs[i] => Ends(p, s, next[i], log[i]))
  BY <1>1 DEF Joined
<1>6. Longer(log[i], next[i], log'[i], next'[i])
  OBVIOUS
<1>7. c \in subs'[i] => /\ c \in subs[i]
                        /\ \A k \in (next[i] + 1)..next'[i] : log'[i][k] = "snapshot"
  OBVIOUS
<1> DEFINE n == next[i]
           l == log[i]
           o == next'[i]
           m == log'[i]
<1> HIDE DEF p, s, n, l, o, m
<1>8. /\ Ordered(p, o, m)
      /\ \A t \in Nat : Starts(p, t, l) => Starts(p, t, m)
  BY <1>1, <1>4, <1>6, OrderedLonger DEF n, l, o, m
<1>9. c \in subs'[i] => /\ Reaches(p, n, l) => Reaches(p, o, m)
                        /\ \A t \in Nat : Ends(p, t, n, l) => Ends(p, t, o, m)
  BY <1>1, <1>6, <1>7, ReachesLonger DEF n, l, o, m
<1>10. InOrder(c)'
  <2>1. Ordered(p, o, m) /\ (c \in subs'[i] => Reaches(p, o, m))
    BY <1>4, <1>7, <1>8, <1>9 DEF n, l
  <2> QED BY <2>1 DEF InOrder, p, o, m
<1>11. ASSUME ~Outlived(c)' PROVE Joined(c)'
  <2>1. Starts(p, s, m) /\ (c \in subs'[i] => Ends(p, s, o, m))
    BY <1>1, <1>3, <1>5, <1>7, <1>8, <1>9, <1>11 DEF n, l
  <2> QED BY <1>2, <2>1 DEF Joined, p, o, m
<1> QED BY <1>10, <1>11

(* The log of every history grows by a push as the pushed one does. *)
LEMMA PushLonger ==
    ASSUME HubInv, NEW i \in VMs, NEW kind \in Kinds, NEW size \in Sizes, Push(i, kind, size),
           NEW j \in VMs
    PROVE  /\ Longer(log[j], next[j], log'[j], next'[j])
           /\ next'[j] = (IF j = i THEN next[j] + 1 ELSE next[j])
           /\ log'[i][next[i] + 1] = kind
<1>1. /\ next' = [next EXCEPT ![i] = @ + 1] /\ next \in [VMs -> Nat]
      /\ log' = [log EXCEPT ![i] = Append(@, kind)] /\ log \in [VMs -> Seq(Kinds)]
      /\ Len(log[i]) = next[i]
  BY DEF Push, HubInv, HubTypes, History
<1>2. next'[j] = IF j = i THEN next[j] + 1 ELSE next[j]
  BY <1>1
<1> DEFINE l == log[i]
           a == Append(l, kind)
<1>3. l \in Seq(Kinds) /\ Len(l) = next[i] /\ next[i] \in Nat
  BY <1>1
<1>4. Len(a) = next[i] + 1 /\ a[next[i] + 1] = kind /\ \A k \in 1..next[i] : a[k] = l[k]
  BY <1>3, AppendProperties
<1>5. log'[i] = a
  BY <1>1
<1> HIDE DEF a, l
<1>6. CASE j = i
  <2>1. next'[i] = next[i] + 1
    BY <1>2, <1>6
  <2>2. Longer(log[i], next[i], log'[i], next'[i])
    BY <1>3, <1>4, <1>5, <2>1 DEF Longer, l
  <2> QED BY <1>2, <1>4, <1>5, <1>6, <2>2
<1>7. CASE j # i
  <2>1. log'[j] = log[j]
    BY <1>1, <1>7
  <2> QED BY <1>1, <1>2, <1>4, <1>5, <1>7, <2>1 DEF Longer
<1> QED BY <1>6, <1>7

LEMMA IdleFollows ==
    ASSUME HubInv, FollowInv, NEW c \in Clients, Current(c),
           stream'[c] = stream[c], backlog'[c] = backlog[c], cursor'[c] = cursor[c],
           generation' = generation,
           LET i == stream[c].inst
           IN  next'[i] = next[i] /\ log'[i] = log[i] /\ (c \in subs'[i] => c \in subs[i])
    PROVE  InOrder(c)' /\ (~Outlived(c)' => Joined(c)')
<1> DEFINE i == stream[c].inst
<1>1. next[i] \in Nat
  BY ConnectionIs
<1>2. Longer(log[i], next[i], log'[i], next'[i])
  BY <1>1 DEF Longer
<1>3. \A k \in (next[i] + 1)..next'[i] : FALSE
  BY <1>1
<1> QED BY <1>2, <1>3, BystanderFollows

LEMMA PublishFollows ==
    ASSUME HubInv, FollowInv, NEW i \in VMs, PublishRecord(i)
    PROVE  FollowInv'
<1> DEFINE record(size) == [seq |-> next[i] + 1, order |-> nextOrder + 1, kind |-> "event", size |-> size]
<1>1. PICK size \in Sizes : Push(i, "event", size) /\ Broadcast(i, record(size))
  BY DEF PublishRecord
<1> DEFINE r == New(i, "event", size)
           ready == {c \in subs[i] : fill[c] < QueueLimit}
<1>2. r = record(size)
  BY DEF New
<1>3. "event" \in Kinds
  BY DEF Kinds
<1>4. r \in Record /\ r.seq = next[i] + 1
  BY <1>1, <1>3, PushedLast
<1> HIDE DEF record, r
<1>5. /\ subs' = [subs EXCEPT ![i] = ready]
      /\ backlog' = [c \in Clients |-> IF c \in ready THEN Append(backlog[c], r) ELSE backlog[c]]
  BY <1>1, <1>2 DEF Broadcast
<1>6. /\ UNCHANGED <<generation, life, stream, cursor>>
      /\ subs \in [VMs -> SUBSET Clients]
      /\ ClientTypes /\ Attached /\ NotAhead
  BY DEF PublishRecord, HubInv, HubTypes, FollowInv
<1>7. \A j \in VMs : /\ Longer(log[j], next[j], log'[j], next'[j])
                           /\ next'[j] = (IF j = i THEN next[j] + 1 ELSE next[j])
  BY <1>1, <1>3, PushLonger
<1> HIDE DEF ready
<1>8. ready \subseteq subs[i]
  BY DEF ready
<1>9. ClientTypes'
  <2>1. ASSUME NEW c \in Clients PROVE Append(backlog[c], r) \in Seq(Record) /\ backlog[c] \in Seq(Record)
    <3>1. backlog[c] \in Seq(Record)
      BY <1>6 DEF ClientTypes
    <3> QED BY <1>4, <3>1, AppendProperties
  <2>2. backlog' \in [Clients -> Seq(Record)]
    BY <1>5, <2>1
  <2> QED BY <1>6, <2>2 DEF ClientTypes
<1>10. Attached'
  BY <1>5, <1>6, <1>8 DEF Attached
<1>11. NotAhead'
  <2>1. \A j \in VMs : next[j] \in Nat /\ next'[j] \in Nat /\ next[j] <= next'[j]
    BY <1>7 DEF Longer
  <2> SUFFICES ASSUME NEW c \in Clients, cursor[c] # NoCursor,
                      cursor[c].life = life[cursor[c].inst]
               PROVE  0 < cursor[c].seq /\ cursor[c].seq <= next'[cursor[c].inst]
    BY <1>6 DEF NotAhead
  <2>2. cursor[c] \in Cursor
    BY <1>6 DEF ClientTypes
  <2>3. cursor[c].inst \in VMs /\ cursor[c].seq \in Nat
    BY <2>2 DEF Cursor
  <2>4. 0 < cursor[c].seq /\ cursor[c].seq <= next[cursor[c].inst]
    BY <1>6 DEF NotAhead
  <2> QED BY <2>1, <2>3, <2>4
<1>12. ASSUME NEW c \in Clients, Current(c)' PROVE InOrder(c)' /\ (~Outlived(c)' => Joined(c)')
  <2>1. Current(c)
    BY <1>6, <1>12 DEF Current
  <2> DEFINE j == stream[c].inst
  <2>2. /\ j \in VMs /\ backlog[c] \in Seq(Record) /\ InOrder(c) /\ (~Outlived(c) => Joined(c))
        /\ Known(c) \in Nat /\ Known(c) <= next[j]
    BY <2>1, ConnectionIs
  <2>3. CASE c \in ready
    <3>1. j = i
      <4>1. stream[c] = [inst |-> i, life |-> life[i]]
        BY <1>6, <1>8, <2>3 DEF Attached
      <4> QED BY <4>1
    <3> DEFINE p == backlog[c]
               s == Known(c)
               n == next[i]
               l == log[i]
               m == log'[i]
    <3>2. Known(c)' = s /\ (Outlived(c)' <=> Outlived(c))
      BY <1>6 DEF Known, Outlived
    <3>3. Ordered(p, n, l) /\ Reaches(p, n, l)
      BY <1>8, <2>2, <2>3, <3>1 DEF InOrder
    <3>4. ~Outlived(c) => Starts(p, s, l) /\ Ends(p, s, n, l)
      BY <1>8, <2>2, <2>3, <3>1 DEF Joined
    <3>5. Longer(l, n, m, n + 1) /\ next'[i] = n + 1
      BY <1>7
    <3>6. backlog'[c] = Append(p, r) /\ stream'[c].inst = i
      BY <1>5, <1>6, <2>3, <3>1
    <3>7. p \in Seq(Record) /\ s \in Nat /\ s <= n /\ r.seq = n + 1
      BY <1>4, <2>2, <3>1
    <3> HIDE DEF p, s, n, l, m
    <3>8. /\ Ordered(Append(p, r), n + 1, m) /\ Reaches(Append(p, r), n + 1, m)
          /\ (Starts(p, s, l) /\ Ends(p, s, n, l) => Starts(Append(p, r), s, m))
      BY <1>4, <3>3, <3>5, <3>7, OrderedAppend
    <3>9. Append(p, r) # <<>>
      BY <1>4, <3>7, AppendProperties, EmptySeq
    <3>10. InOrder(c)'
      BY <3>5, <3>6, <3>8 DEF InOrder, m
    <3>11. ASSUME ~Outlived(c)' PROVE Joined(c)'
      <4>1. Starts(Append(p, r), s, m)
        BY <3>2, <3>4, <3>8, <3>11
      <4>2. Ends(Append(p, r), s, n + 1, m)
        BY <3>9 DEF Ends
      <4> QED BY <3>2, <3>5, <3>6, <4>1, <4>2 DEF Joined, m
    <3> QED BY <3>10, <3>11
  <2>4. CASE c \notin ready
    <3>1. stream'[c] = stream[c] /\ backlog'[c] = backlog[c] /\ cursor'[c] = cursor[c]
      BY <1>5, <1>6, <2>4
    <3>2. Longer(log[j], next[j], log'[j], next'[j])
      BY <1>7, <2>2
    <3>3. ASSUME c \in subs'[j]
          PROVE  c \in subs[j] /\ \A k \in (next[j] + 1)..next'[j] : log'[j][k] = "snapshot"
      <4>1. j # i
        BY <1>5, <1>6, <2>4, <3>3
      <4>2. subs'[j] = subs[j] /\ next'[j] = next[j] /\ next[j] \in Nat
        BY <1>5, <1>6, <1>7, <2>2, <3>2, <4>1 DEF Longer
      <4>3. \A k \in (next[j] + 1)..next'[j] : FALSE
        BY <4>2
      <4> QED BY <3>3, <4>2, <4>3
    <3> HIDE DEF j
    <3> QED BY <1>6, <2>1, <3>1, <3>2, <3>3, BystanderFollows DEF j
  <2> QED BY <2>3, <2>4
<1> QED BY <1>9, <1>10, <1>11, <1>12 DEF FollowInv

(* What joining does, whatever is replayed. *)
LEMMA JoinIs ==
    ASSUME HubInv, FollowInv, NEW i \in VMs, NEW c \in Clients, stream[c] = NoStream,
           NEW p, p \in Seq(Record), Join(c, i, p),
           \A j \in VMs : next'[j] \in Nat /\ next[j] <= next'[j]
    PROVE  /\ ClientTypes' /\ Attached' /\ NotAhead'
           /\ UNCHANGED <<generation, life, cursor>>
           /\ subs' = [subs EXCEPT ![i] = @ \cup {c}] /\ subs \in [VMs -> SUBSET Clients]
           /\ stream'[c] = [inst |-> i, life |-> life[i]] /\ backlog'[c] = p
           /\ \A d \in Clients \ {c} : stream'[d] = stream[d] /\ backlog'[d] = backlog[d]
<1>1. /\ subs' = [subs EXCEPT ![i] = @ \cup {c}] /\ subs \in [VMs -> SUBSET Clients]
      /\ stream' = [stream EXCEPT ![c] = [inst |-> i, life |-> life[i]]]
      /\ backlog' = [backlog EXCEPT ![c] = p]
      /\ UNCHANGED <<cursor, generation, life>>
      /\ ClientTypes /\ Attached /\ NotAhead
      /\ life \in [VMs -> Nat] /\ next \in [VMs -> Nat]
  BY DEF Join, HubInv, HubTypes, FollowInv
<1>2. [inst |-> i, life |-> life[i]] \in Stream
  BY <1>1 DEF Stream
<1>3. ClientTypes'
  BY <1>1, <1>2 DEF ClientTypes
<1>4. /\ stream'[c] = [inst |-> i, life |-> life[i]] /\ backlog'[c] = p
      /\ \A d \in Clients \ {c} : stream'[d] = stream[d] /\ backlog'[d] = backlog[d]
  BY <1>1 DEF ClientTypes
<1>5. Attached'
  <2> SUFFICES ASSUME NEW j \in VMs, NEW d \in subs'[j]
               PROVE  stream'[d] = [inst |-> j, life |-> life[j]]
    BY <1>1 DEF Attached
  <2>1. CASE d = c
    <3>1. ASSUME j # i PROVE FALSE
      <4>1. c \in subs[j]
        BY <1>1, <2>1, <3>1
      <4>2. stream[c] = [inst |-> j, life |-> life[j]]
        BY <1>1, <4>1 DEF Attached
      <4>3. stream[c] \in Stream
        BY <1>1, <4>2 DEF Stream
      <4> QED BY <4>3, NoneAssumption
    <3> QED BY <1>4, <2>1, <3>1
  <2>2. CASE d # c
    <3>1. d \in subs[j] /\ d \in Clients
      BY <1>1, <2>2
    <3> QED BY <1>1, <1>4, <2>2, <3>1 DEF Attached
  <2> QED BY <2>1, <2>2
<1>6. NotAhead'
  <2> SUFFICES ASSUME NEW d \in Clients
               PROVE  /\ stream'[d] # NoStream => stream'[d].life <= life[stream'[d].inst]
                      /\ cursor[d] # NoCursor =>
                           /\ cursor[d].life <= life[cursor[d].inst]
                           /\ (cursor[d].life = life[cursor[d].inst] =>
                                 0 < cursor[d].seq /\ cursor[d].seq <= next'[cursor[d].inst])
    BY <1>1 DEF NotAhead
  <2>1. stream'[d] # NoStream => stream'[d].life <= life[stream'[d].inst]
    <3>1. CASE d = c
      <4>1. stream'[d].inst = i /\ stream'[d].life = life[i] /\ life[i] \in Nat
        BY <1>1, <1>4, <3>1
      <4> QED BY <4>1
    <3>2. CASE d # c
      BY <1>1, <1>4, <3>2 DEF NotAhead
    <3> QED BY <3>1, <3>2
  <2>2. ASSUME cursor[d] # NoCursor
        PROVE  /\ cursor[d].life <= life[cursor[d].inst]
               /\ (cursor[d].life = life[cursor[d].inst] =>
                     0 < cursor[d].seq /\ cursor[d].seq <= next'[cursor[d].inst])
    <3>1. cursor[d] \in Cursor
      BY <1>1, <2>2 DEF ClientTypes
    <3>2. cursor[d].inst \in VMs /\ cursor[d].seq \in Nat
      BY <3>1 DEF Cursor
    <3>3. /\ cursor[d].life <= life[cursor[d].inst]
          /\ (cursor[d].life = life[cursor[d].inst] =>
                0 < cursor[d].seq /\ cursor[d].seq <= next[cursor[d].inst])
      BY <1>1, <2>2 DEF NotAhead
    <3>4. next[cursor[d].inst] \in Nat /\ next'[cursor[d].inst] \in Nat
          /\ next[cursor[d].inst] <= next'[cursor[d].inst]
      BY <1>1, <3>2
    <3> QED BY <3>2, <3>3, <3>4
  <2> QED BY <2>1, <2>2
<1> QED BY <1>1, <1>3, <1>4, <1>5, <1>6

LEMMA ResyncFollows ==
    ASSUME HubInv, FollowInv, NEW i \in VMs, NEW c \in Clients, Resync(c, i)
    PROVE  FollowInv'
<1>1. PICK size \in Sizes : Push(i, "snapshot", size)
  BY DEF Resync
<1> DEFINE r == New(i, "snapshot", size)
<1>2. "snapshot" \in Kinds
  BY DEF Kinds
<1>3. /\ records'[i] # <<>> /\ Last(records'[i]) = r
      /\ r \in Record /\ r.seq = next[i] + 1 /\ r.kind = "snapshot"
  BY <1>1, <1>2, PushedLast
<1>4. Join(c, i, <<r>>) /\ stream[c] = NoStream
  BY <1>3 DEF Resync
<1> HIDE DEF r
<1>5. \A j \in VMs : /\ Longer(log[j], next[j], log'[j], next'[j])
                           /\ next'[j] = (IF j = i THEN next[j] + 1 ELSE next[j])
                           /\ log'[i][next[i] + 1] = "snapshot"
  BY <1>1, <1>2, PushLonger
<1>6. \A j \in VMs : next'[j] \in Nat /\ next[j] \in Nat /\ next[j] <= next'[j]
  BY <1>5 DEF Longer
<1> DEFINE p == <<r>>
           n == next'[i]
           m == log'[i]
<1>7. n \in Nat /\ 0 < n /\ r.seq = n
  BY <1>3, <1>5, <1>6
<1> HIDE DEF n, m
<1>8. /\ p \in Seq(Record) /\ Ordered(p, n, m) /\ Reaches(p, n, m)
      /\ \A s \in Nat : Starts(p, s, m) /\ Ends(p, s, n, m)
  BY <1>3, <1>7, SnapshotFollows
<1> HIDE DEF p
<1>9. /\ ClientTypes' /\ Attached' /\ NotAhead'
      /\ UNCHANGED <<generation, life, cursor>>
      /\ subs' = [subs EXCEPT ![i] = @ \cup {c}] /\ subs \in [VMs -> SUBSET Clients]
      /\ stream'[c] = [inst |-> i, life |-> life[i]] /\ backlog'[c] = p
      /\ \A d \in Clients \ {c} : stream'[d] = stream[d] /\ backlog'[d] = backlog[d]
  BY <1>4, <1>6, <1>8, JoinIs DEF p
<1>10. InOrder(c)' /\ Joined(c)'
  <2>1. stream'[c].inst = i
    BY <1>9
  <2>2. Known(c)' \in Nat
    <3>1. cursor'[c] # NoCursor => cursor'[c].seq \in Nat
      BY <1>9 DEF ClientTypes, Cursor
    <3> QED BY <3>1 DEF Known
  <2>3. InOrder(c)'
    BY <1>8, <1>9, <2>1 DEF InOrder, n, m
  <2>4. Joined(c)'
    BY <1>8, <1>9, <2>1, <2>2 DEF Joined, n, m
  <2> QED BY <2>3, <2>4
<1>11. ASSUME NEW d \in Clients \ {c}, Current(d)' PROVE InOrder(d)' /\ (~Outlived(d)' => Joined(d)')
  <2>1. Current(d)
    BY <1>9, <1>11 DEF Current
  <2> DEFINE j == stream[d].inst
  <2>2. j \in VMs
    BY <2>1, ConnectionIs
  <2>3. Longer(log[j], next[j], log'[j], next'[j])
    BY <1>5, <2>2
  <2>4. ASSUME d \in subs'[j]
        PROVE  d \in subs[j] /\ \A k \in (next[j] + 1)..next'[j] : log'[j][k] = "snapshot"
    <3>1. d \in subs[j]
      BY <1>9, <2>2, <2>4
    <3>2. next'[j] = (IF j = i THEN next[j] + 1 ELSE next[j]) /\ next[j] \in Nat
      BY <1>5, <1>6, <2>2
    <3>3. \A k \in (next[j] + 1)..next'[j] : j = i /\ k = next[i] + 1
      BY <3>2
    <3> QED BY <1>5, <2>2, <3>1, <3>3
  <2> HIDE DEF j
  <2> QED BY <1>9, <2>1, <2>3, <2>4, BystanderFollows DEF j
<1> QED BY <1>9, <1>10, <1>11 DEF FollowInv

LEMMA ReplayJoins ==
    ASSUME HubInv, FollowInv, NEW i \in VMs, NEW c \in Clients, Replay(c, i)
    PROVE  FollowInv'
<1> DEFINE s == cursor[c].seq
           p == Beyond(records[i], "seq", s)
           n == next[i]
           l == log[i]
<1>1. /\ stream[c] = NoStream /\ Join(c, i, p)
      /\ cursor[c] # NoCursor /\ cursor[c].inst = i /\ cursor[c].generation = generation
      /\ First(i) - 1 <= s /\ s <= n
      /\ next' = next /\ log' = log
  BY DEF Replay, Replayable
<1>2. cursor[c] \in Cursor /\ s \in Nat
  BY <1>1 DEF FollowInv, ClientTypes, Cursor
<1>3. /\ p \in Seq(Record) /\ Ordered(p, n, l) /\ Reaches(p, n, l)
      /\ (s > 0 => Starts(p, s, l) /\ Ends(p, s, n, l))
  BY <1>1, <1>2, ReplayFollows
<1> HIDE DEF s, p, n, l
<1>4. \A j \in VMs : next'[j] \in Nat /\ next[j] <= next'[j]
  BY <1>1 DEF HubInv, HubTypes
<1>5. /\ ClientTypes' /\ Attached' /\ NotAhead'
      /\ UNCHANGED <<generation, life, cursor>>
      /\ subs' = [subs EXCEPT ![i] = @ \cup {c}] /\ subs \in [VMs -> SUBSET Clients]
      /\ stream'[c] = [inst |-> i, life |-> life[i]] /\ backlog'[c] = p
      /\ \A d \in Clients \ {c} : stream'[d] = stream[d] /\ backlog'[d] = backlog[d]
  BY <1>1, <1>3, <1>4, JoinIs
<1>6. stream'[c].inst = i /\ stream'[c].life = life[i]
  BY <1>5
<1>7. InOrder(c)'
  BY <1>1, <1>3, <1>5, <1>6 DEF InOrder, n, l
<1>8. ASSUME ~Outlived(c)' PROVE Joined(c)'
  <2>1. cursor[c].life = life[i]
    BY <1>1, <1>5, <1>6, <1>8 DEF Outlived
  <2>2. Known(c)' = s
    BY <1>1, <1>5, <1>6, <2>1 DEF Known, s
  <2>3. 0 < s
    BY <1>1, <2>1 DEF FollowInv, NotAhead, s
  <2>4. Starts(p, s, l) /\ Ends(p, s, n, l)
    BY <1>2, <1>3, <2>3
  <2> QED BY <1>1, <1>5, <1>6, <2>2, <2>4 DEF Joined, n, l
<1>9. ASSUME NEW d \in Clients \ {c}, Current(d)' PROVE InOrder(d)' /\ (~Outlived(d)' => Joined(d)')
  <2>1. Current(d)
    BY <1>5, <1>9 DEF Current
  <2>2. stream[d].inst \in VMs
    BY <2>1, ConnectionIs
  <2>3. d \in subs'[stream[d].inst] => d \in subs[stream[d].inst]
    BY <1>5, <2>2
  <2> QED BY <1>1, <1>5, <2>1, <2>3, IdleFollows
<1> QED BY <1>5, <1>7, <1>8, <1>9 DEF FollowInv

LEMMA ReceiveFollows ==
    ASSUME HubInv, FollowInv, NEW c \in Clients, Receive(c)
    PROVE  FollowInv'
<1> DEFINE i == stream[c].inst
           p == backlog[c]
           s == p[1].seq
           id == [inst |-> i, generation |-> generation, seq |-> s, life |-> stream[c].life]
<1>1. /\ stream[c] # NoStream /\ p # <<>>
      /\ cursor' = [cursor EXCEPT ![c] = id]
      /\ backlog' = [backlog EXCEPT ![c] = Tail(p)]
      /\ UNCHANGED <<stream, next, records, subs, log, life, generation>>
  BY DEF Receive, hub, truth
<1>2. /\ ClientTypes /\ Attached /\ NotAhead
      /\ generation \in Nat /\ life \in [VMs -> Nat]
  BY DEF FollowInv, HubInv, HubTypes
<1>3. /\ stream[c] \in Stream /\ i \in VMs /\ stream[c].life \in Nat
      /\ p \in Seq(Record)
  BY <1>1, <1>2 DEF ClientTypes, Stream
<1>4. s \in Nat /\ Tail(p) \in Seq(Record)
  BY <1>1, <1>3, LastIs, HeadTailProperties
<1> HIDE DEF s, p
<1>5. id \in Cursor /\ id # NoCursor
  <2>1. id \in Cursor
    BY <1>2, <1>3, <1>4 DEF Cursor
  <2> QED BY <2>1, NoneAssumption
<1>6. /\ cursor'[c] = id /\ backlog'[c] = Tail(p)
      /\ \A d \in Clients \ {c} : cursor'[d] = cursor[d] /\ backlog'[d] = backlog[d]
  BY <1>1, <1>2 DEF ClientTypes
<1>7. ClientTypes'
  BY <1>1, <1>2, <1>4, <1>5 DEF ClientTypes
<1>8. Attached'
  BY <1>1, <1>2 DEF Attached
<1>9. Current(c) =>
        /\ 0 < s /\ s <= next[i]
        /\ Ordered(Tail(p), next[i], log[i]) /\ Starts(Tail(p), s, log[i])
        /\ (c \in subs[i] => Reaches(Tail(p), next[i], log[i]) /\ Ends(Tail(p), s, next[i], log[i]))
  <2> SUFFICES ASSUME Current(c)
               PROVE  /\ 0 < s /\ s <= next[i]
                      /\ Ordered(Tail(p), next[i], log[i]) /\ Starts(Tail(p), s, log[i])
                      /\ (c \in subs[i] => /\ Reaches(Tail(p), next[i], log[i])
                                           /\ Ends(Tail(p), s, next[i], log[i]))
    OBVIOUS
  <2>1. Ordered(p, next[i], log[i]) /\ (c \in subs[i] => Reaches(p, next[i], log[i]))
    BY ConnectionIs DEF InOrder, p
  <2> DEFINE n == next[i]
             l == log[i]
  <2> HIDE DEF n, l
  <2>2. /\ 0 < s /\ s <= n
        /\ Ordered(Tail(p), n, l) /\ Starts(Tail(p), s, l)
        /\ (Reaches(p, n, l) => Reaches(Tail(p), n, l) /\ Ends(Tail(p), s, n, l))
    BY <1>1, <1>3, <2>1, OrderedTail DEF s, n, l
  <2> QED BY <2>1, <2>2 DEF n, l
<1>10. id.inst = i /\ id.seq = s /\ id.life = stream[c].life /\ id.generation = generation
  OBVIOUS
<1> HIDE DEF id
<1>11. NotAhead'
  <2> SUFFICES ASSUME NEW d \in Clients, cursor'[d] # NoCursor
               PROVE  /\ cursor'[d].life <= life[cursor'[d].inst]
                      /\ (cursor'[d].life = life[cursor'[d].inst] =>
                            0 < cursor'[d].seq /\ cursor'[d].seq <= next[cursor'[d].inst])
    BY <1>1, <1>2 DEF NotAhead
  <2>1. CASE d = c
    <3>1. cursor'[d].life = stream[c].life /\ cursor'[d].inst = i /\ cursor'[d].seq = s
      BY <1>6, <1>10, <2>1
    <3>2. stream[c].life <= life[i]
      BY <1>1, <1>2 DEF NotAhead
    <3>3. stream[c].life = life[i] => Current(c)
      BY <1>1 DEF Current
    <3> QED BY <1>9, <3>1, <3>2, <3>3
  <2>2. CASE d # c
    BY <1>2, <1>6, <2>2 DEF NotAhead
  <2> QED BY <2>1, <2>2
<1>12. ASSUME Current(c)' PROVE InOrder(c)' /\ Joined(c)'
  <2>1. Current(c)
    BY <1>1, <1>12 DEF Current
  <2>2. Known(c)' = s
    BY <1>1, <1>5, <1>6, <1>10 DEF Known
  <2>3. InOrder(c)'
    BY <1>1, <1>6, <1>9, <2>1 DEF InOrder
  <2>4. Joined(c)'
    BY <1>1, <1>6, <1>9, <2>1, <2>2 DEF Joined
  <2> QED BY <2>3, <2>4
<1>13. ASSUME NEW d \in Clients \ {c}, Current(d)' PROVE InOrder(d)' /\ (~Outlived(d)' => Joined(d)')
  <2>1. Current(d)
    BY <1>1, <1>13 DEF Current
  <2> QED BY <1>1, <1>6, <2>1, IdleFollows
<1> QED BY <1>7, <1>8, <1>11, <1>12, <1>13 DEF FollowInv

LEMMA LeaveFollows ==
    ASSUME HubInv, FollowInv, NEW c \in Clients, Disconnect(c) \/ EndOfStream(c)
    PROVE  FollowInv'
<1>1. /\ stream[c] # NoStream
      /\ stream' = [stream EXCEPT ![c] = NoStream]
      /\ backlog' = [backlog EXCEPT ![c] = <<>>]
      /\ UNCHANGED <<cursor, generation, next, log, life>>
  BY DEF Disconnect, EndOfStream, Leave, hub, truth
<1>2. /\ ClientTypes /\ Attached /\ NotAhead
      /\ subs \in [VMs -> SUBSET Clients]
  BY DEF FollowInv, HubInv, HubTypes
<1>3. ClientTypes'
  BY <1>1, <1>2, EmptyHistory DEF ClientTypes
<1>4. /\ stream'[c] = NoStream
      /\ \A d \in Clients \ {c} : stream'[d] = stream[d] /\ backlog'[d] = backlog[d]
  BY <1>1, <1>2 DEF ClientTypes
<1>5. ASSUME NEW j \in VMs PROVE subs'[j] \subseteq subs[j] \ {c}
  <2>1. c \in subs[j] => stream[c].inst = j
    <3>1. c \in subs[j] => stream[c] = [inst |-> j, life |-> life[j]]
      BY <1>2 DEF Attached
    <3> QED BY <3>1
  <2>2. CASE Disconnect(c)
    <3>1. subs' = [subs EXCEPT ![stream[c].inst] = @ \ {c}]
      BY <2>2 DEF Disconnect
    <3> QED BY <1>2, <2>1, <3>1
  <2>3. CASE EndOfStream(c)
    BY <2>1, <2>3 DEF EndOfStream, hub
  <2> QED BY <2>2, <2>3
<1>6. Attached'
  BY <1>1, <1>2, <1>4, <1>5 DEF Attached
<1>7. NotAhead'
  <2>1. \A d \in Clients : stream'[d] # NoStream => stream'[d] = stream[d]
    BY <1>4
  <2> QED BY <1>1, <1>2, <2>1 DEF NotAhead
<1>8. ~Current(c)'
  BY <1>4 DEF Current
<1>9. ASSUME NEW d \in Clients \ {c}, Current(d)' PROVE InOrder(d)' /\ (~Outlived(d)' => Joined(d)')
  <2>1. Current(d)
    BY <1>1, <1>4, <1>9 DEF Current
  <2>2. stream[d].inst \in VMs
    BY <2>1, ConnectionIs
  <2>3. d \in subs'[stream[d].inst] => d \in subs[stream[d].inst]
    BY <1>5, <2>2
  <2> QED BY <1>1, <1>4, <2>1, <2>3, IdleFollows
<1> QED BY <1>3, <1>6, <1>7, <1>8, <1>9 DEF FollowInv

LEMMA RemoveFollows ==
    ASSUME HubInv, FollowInv, NEW i \in VMs, RemoveInstance(i)
    PROVE  FollowInv'
<1>1. /\ life' = [life EXCEPT ![i] = @ + 1] /\ next' = [next EXCEPT ![i] = 0]
      /\ log' = [log EXCEPT ![i] = <<>>] /\ subs' = [subs EXCEPT ![i] = {}]
      /\ UNCHANGED <<generation, stream, backlog, cursor>>
  BY DEF RemoveInstance, Close, clients
<1>2. /\ ClientTypes /\ Attached /\ NotAhead
      /\ life \in [VMs -> Nat] /\ next \in [VMs -> Nat]
      /\ log \in [VMs -> Seq(Kinds)] /\ subs \in [VMs -> SUBSET Clients]
  BY DEF FollowInv, HubInv, HubTypes
<1>3. ClientTypes'
  BY <1>1, <1>2 DEF ClientTypes
<1>4. Attached'
  <2> SUFFICES ASSUME NEW j \in VMs, NEW d \in subs'[j]
               PROVE  stream[d] = [inst |-> j, life |-> life'[j]]
    BY <1>1 DEF Attached
  <2>1. j # i /\ d \in subs[j] /\ life'[j] = life[j]
    BY <1>1, <1>2
  <2> QED BY <1>2, <2>1 DEF Attached
<1>5. \A j \in VMs : /\ life[j] \in Nat /\ life'[j] = (IF j = i THEN life[j] + 1 ELSE life[j])
                           /\ (j # i => next'[j] = next[j] /\ log'[j] = log[j] /\ subs'[j] = subs[j])
  BY <1>1, <1>2
<1>6. NotAhead'
  <2> SUFFICES ASSUME NEW d \in Clients
               PROVE  /\ stream[d] # NoStream => stream[d].life <= life'[stream[d].inst]
                      /\ cursor[d] # NoCursor =>
                           /\ cursor[d].life <= life'[cursor[d].inst]
                           /\ (cursor[d].life = life'[cursor[d].inst] =>
                                 0 < cursor[d].seq /\ cursor[d].seq <= next'[cursor[d].inst])
    BY <1>1 DEF NotAhead
  <2>1. ASSUME stream[d] # NoStream PROVE stream[d].life <= life'[stream[d].inst]
    <3>1. stream[d].inst \in VMs /\ stream[d].life \in Nat
      BY <1>2, <2>1 DEF ClientTypes, Stream
    <3>2. stream[d].life <= life[stream[d].inst]
      BY <1>2, <2>1 DEF NotAhead
    <3> QED BY <1>5, <3>1, <3>2
  <2>2. ASSUME cursor[d] # NoCursor
        PROVE  /\ cursor[d].life <= life'[cursor[d].inst]
               /\ (cursor[d].life = life'[cursor[d].inst] =>
                     0 < cursor[d].seq /\ cursor[d].seq <= next'[cursor[d].inst])
    <3>1. cursor[d].inst \in VMs /\ cursor[d].life \in Nat
      BY <1>2, <2>2 DEF ClientTypes, Cursor
    <3>2. /\ cursor[d].life <= life[cursor[d].inst]
          /\ (cursor[d].life = life[cursor[d].inst] =>
                0 < cursor[d].seq /\ cursor[d].seq <= next[cursor[d].inst])
      BY <1>2, <2>2 DEF NotAhead
    <3>3. CASE cursor[d].inst = i
      <4>1. cursor[d].life < life'[cursor[d].inst]
        BY <1>5, <3>1, <3>2, <3>3
      <4> QED BY <1>5, <3>1, <4>1
    <3>4. CASE cursor[d].inst # i
      BY <1>5, <3>1, <3>2, <3>4
    <3> QED BY <3>3, <3>4
  <2> QED BY <2>1, <2>2
<1>7. ASSUME NEW d \in Clients, Current(d)' PROVE InOrder(d)' /\ (~Outlived(d)' => Joined(d)')
  <2> DEFINE j == stream[d].inst
  <2>1. stream[d] # NoStream /\ stream[d].life = life'[j]
    BY <1>1, <1>7 DEF Current
  <2>2. j \in VMs /\ stream[d].life \in Nat /\ stream[d].life <= life[j]
    BY <1>2, <2>1 DEF ClientTypes, Stream, NotAhead
  <2>3. j # i
    BY <1>5, <2>1, <2>2
  <2>4. next'[j] = next[j] /\ log'[j] = log[j] /\ subs'[j] = subs[j] /\ Current(d)
    BY <1>5, <2>1, <2>2, <2>3 DEF Current
  <2> HIDE DEF j
  <2> QED BY <1>1, <2>4, IdleFollows DEF j
<1> QED BY <1>3, <1>4, <1>6, <1>7 DEF FollowInv

LEMMA RestartFollows ==
    ASSUME HubInv, FollowInv, Restart
    PROVE  FollowInv'
<1>1. /\ life' = [i \in VMs |-> life[i] + 1] /\ next' = [i \in VMs |-> 0]
      /\ subs' = [i \in VMs |-> {}]
      /\ stream' = [c \in Clients |-> NoStream] /\ backlog' = [c \in Clients |-> <<>>]
      /\ cursor' = cursor
  BY DEF Restart
<1>2. ClientTypes /\ NotAhead /\ life \in [VMs -> Nat]
  BY DEF FollowInv, HubInv, HubTypes
<1>3. ClientTypes'
  BY <1>1, <1>2, EmptyHistory DEF ClientTypes
<1>4. Attached'
  BY <1>1 DEF Attached
<1>5. NotAhead'
  <2> SUFFICES ASSUME NEW d \in Clients, cursor[d] # NoCursor
               PROVE  /\ cursor[d].life <= life'[cursor[d].inst]
                      /\ cursor[d].life # life'[cursor[d].inst]
    BY <1>1 DEF NotAhead
  <2>1. cursor[d].inst \in VMs /\ cursor[d].life \in Nat
    BY <1>2 DEF ClientTypes, Cursor
  <2>2. cursor[d].life <= life[cursor[d].inst]
    BY <1>2 DEF NotAhead
  <2>3. life'[cursor[d].inst] = life[cursor[d].inst] + 1 /\ life[cursor[d].inst] \in Nat
    BY <1>1, <1>2, <2>1
  <2> QED BY <2>1, <2>2, <2>3
<1>6. \A d \in Clients : ~Current(d)'
  BY <1>1 DEF Current
<1> QED BY <1>3, <1>4, <1>5, <1>6 DEF FollowInv

LEMMA FollowInit == EventsInit => FollowInv
<1> SUFFICES ASSUME EventsInit PROVE FollowInv
  OBVIOUS
<1>1. ClientTypes
  BY EmptyHistory DEF EventsInit, ClientTypes
<1>2. Attached /\ NotAhead /\ \A c \in Clients : ~Current(c)
  BY DEF EventsInit, Attached, NotAhead, Current
<1> QED BY <1>1, <1>2 DEF FollowInv

LEMMA FollowNext == HubInv /\ FollowInv /\ [EventsNext]_eventsVars => FollowInv'
<1> SUFFICES ASSUME HubInv, FollowInv, [EventsNext]_eventsVars PROVE FollowInv'
  OBVIOUS
<1>1. CASE UNCHANGED <<generation, next, log, life, subs, stream, backlog, cursor>>
  <2>1. ClientTypes' /\ Attached' /\ NotAhead'
    BY <1>1 DEF FollowInv, ClientTypes, Attached, NotAhead
  <2>2. ASSUME NEW c \in Clients, Current(c)' PROVE InOrder(c)' /\ (~Outlived(c)' => Joined(c)')
    <3>1. Current(c)
      BY <1>1, <2>2 DEF Current
    <3> QED BY <1>1, <3>1, IdleFollows
  <2> QED BY <2>1, <2>2 DEF FollowInv
<1>2. ASSUME NEW i \in VMs, CreateInstance(i) PROVE FollowInv'
  BY <1>1, <1>2 DEF CreateInstance, hub, clients
<1>3. CASE UNCHANGED eventsVars
  BY <1>1, <1>3 DEF eventsVars, hub, truth, clients
<1> QED BY <1>2, <1>3, PublishFollows, ResyncFollows, ReplayJoins, ReceiveFollows, LeaveFollows,
           RemoveFollows, RestartFollows DEF EventsNext

(* A client that stays connected, or comes back with the id of the last record it
   got, gets every event that it does not have, in order, or a snapshot instead:
   whatever was evicted meanwhile, however slow it was, wherever it was cut off.
   Only the id of a history that was deleted may be taken for one of its
   successor, under the same instance id. *)
THEOREM MissesNothing == EventsSpec => []Complete
<1>1. EventsInit => HubInv /\ FollowInv
  BY HubInit, FollowInit
<1>2. HubInv /\ FollowInv /\ [EventsNext]_eventsVars => (HubInv /\ FollowInv)'
  BY HubNext, FollowNext
<1>3. HubInv /\ FollowInv => Complete
  BY FollowsIs
<1> QED BY <1>1, <1>2, <1>3, PTL DEF EventsSpec
=============================================================================
