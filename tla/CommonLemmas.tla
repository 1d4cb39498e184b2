------------------------------ MODULE CommonLemmas ------------------------------
(***************************************************************************)
(* Lemmas that the proofs of several components use: times compared as     *)
(* texts, times cut to the minute, the smaller of two numbers, induction   *)
(* over numbers and finite sets by least counterexamples, sums over finite *)
(* sets, and sequences that are sorted.                                    *)
(***************************************************************************)
EXTENDS TimeText, FiniteSetsExt, Functions, FiniteSetTheorems, TLAPS

--------------------------------------------------------------------------------
\* Numbers.

\* The smaller of two numbers.
LEMMA MinOfTwo == ASSUME NEW a \in Nat, NEW b \in Nat
    PROVE Min({a, b}) \in Nat /\ Min({a, b}) <= a /\ Min({a, b}) <= b
<1>1. \E x \in {a, b} : \A y \in {a, b} : x <= y
  <2>1. CASE a <= b
    BY <2>1
  <2>2. CASE b <= a
    BY <2>2
  <2>3. QED
    BY <2>1, <2>2
<1>2. Min({a, b}) \in {a, b} /\ \A y \in {a, b} : Min({a, b}) <= y
  BY <1>1 DEF Min
<1>3. QED
  BY <1>2

\* A product with a natural number keeps the order.
LEMMA ProductKeepsOrder ==
    ASSUME NEW a \in Int, NEW b \in Int, NEW m \in Nat, a <= b
    PROVE  a * m \in Int /\ b * m \in Int /\ a * m <= b * m
OBVIOUS

\* A time cut to the minute is not after the time and not negative.
LEMMA CutIsBefore == ASSUME NEW t \in Int, NEW m \in Nat \ {0}
    PROVE /\ t - (t % m) \in Int /\ t - (t % m) <= t
          /\ t \in Nat => t - (t % m) \in 0 .. t
OBVIOUS

\* Whole minutes keep the order of times, and times of the same one are less
\* than a minute apart.
LEMMA WholeMinutes ==
    ASSUME NEW s \in Nat, NEW t \in Nat, NEW m \in Nat \ {0}
    PROVE  /\ s \div m \in Nat /\ t \div m \in Nat
           /\ s <= t => s \div m <= t \div m
           /\ s \div m = t \div m => s < t + m
<1> DEFINE a == s \div m
           b == t \div m
<1>1. a \in Nat /\ a * m <= s /\ s < a * m + m /\ b \in Nat /\ b * m <= t /\ t < b * m + m
  OBVIOUS
<1> HIDE DEF a, b
<1>2. b + 1 <= a => b * m + m <= a * m
  <2>1. SUFFICES ASSUME b + 1 <= a PROVE b * m + m <= a * m
    OBVIOUS
  <2>2. PICK d \in Nat : a = b + 1 + d
    <3>1. a - b - 1 \in Nat /\ a = b + 1 + (a - b - 1)
      BY <1>1, <2>1
    <3>2. QED
      BY <3>1
  <2>3. a * m = b * m + m + d * m /\ d * m \in Nat /\ b * m \in Nat
    BY <1>1, <2>2
  <2>4. QED
    BY <2>3
<1>3. a * m \in Nat /\ b * m \in Nat
  BY <1>1
<1>4. s <= t => a <= b
  BY <1>1, <1>2, <1>3
<1>5. a = b => s < t + m
  BY <1>1, <1>3
<1>6. QED
  BY <1>1, <1>4, <1>5 DEF a, b

\* Cutting to the minute keeps the order of times.
LEMMA CutKeepsOrder ==
    ASSUME NEW s \in Int, NEW t \in Int, NEW m \in Nat \ {0}, s <= t
    PROVE  s - (s % m) <= t - (t % m)
<1>1. /\ s \div m \in Int /\ s - (s % m) = (s \div m) * m /\ (s \div m) * m <= s
      /\ t \div m \in Int /\ t - (t % m) = (t \div m) * m /\ t < (t \div m) * m + m
  OBVIOUS
<1>2. \A a, b \in Int : a * m <= s /\ t < b * m + m => a * m <= b * m
  <2>1. SUFFICES ASSUME NEW a \in Int, NEW b \in Int, a * m <= s, t < b * m + m
                 PROVE  a * m <= b * m
    OBVIOUS
  <2>2. CASE a <= b
    BY <2>2
  <2>3. CASE b + 1 <= a
    <3>1. b * m + m <= a * m
      BY <2>3
    <3>2. QED
      BY <2>1, <3>1
  <2>4. QED
    BY <2>2, <2>3
<1>3. QED
  BY <1>1, <1>2

\* What is cut is a whole number of minutes, and cutting it again changes nothing.
LEMMA CutIsWhole ==
    ASSUME NEW t \in Int, NEW m \in Nat \ {0}
    PROVE  LET c == t - (t % m)
           IN  c \in Int /\ c <= t /\ c % m = 0 /\ c = (t \div m) * m /\ t \div m \in Int
<1> DEFINE k == t \div m
           c == t - (t % m)
<1>1. k \in Int /\ c = k * m /\ c <= t /\ c \in Int
  OBVIOUS
<1>2. c \div m \in Int /\ c % m \in 0 .. m - 1 /\ c = (c \div m) * m + (c % m)
  BY <1>1
<1> HIDE DEF k, c
<1>3. PICK j \in Int, r \in 0 .. m - 1 : j = c \div m /\ r = c % m /\ k * m = j * m + r
  BY <1>1, <1>2
<1>4. PICK d \in Int : d = k - j /\ d * m = r
  <2>1. k - j \in Int /\ (k - j) * m = k * m - j * m
    BY <1>1
  <2>2. j * m \in Int /\ k * m \in Int
    BY <1>1
  <2>3. (k - j) * m = r
    BY <1>3, <2>1, <2>2
  <2>4. QED
    BY <2>1, <2>3
<1>5. d * m = 0
  <2>1. CASE d >= 1
    <3>1. d * m >= m
      BY <2>1
    <3>2. QED
      BY <1>4, <3>1
  <2>2. CASE d <= -1
    <3>1. d * m <= -m
      BY <2>2
    <3>2. QED
      BY <1>4, <3>1
  <2>3. CASE d = 0
    BY <2>3
  <2>4. QED
    BY <2>1, <2>2, <2>3
<1>6. c % m = 0
  BY <1>3, <1>4, <1>5
<1>7. QED
  BY <1>1, <1>6 DEF c, k

--------------------------------------------------------------------------------
\* Times as texts.

\* Half seconds a and b whose whole seconds are k and m.
LEMMA SecondsApart ==
    ASSUME NEW a \in Int, NEW b \in Int, NEW k \in Int, NEW m \in Int,
           2 * k <= a, a <= 2 * k + 1, 2 * m <= b, b <= 2 * m + 1
    PROVE  /\ k <= m => a <= b + 1
           /\ m <= k => b - 1 <= a
OBVIOUS

\* Times cut to the second, by their parity.
LEMMA WholeSeconds == ASSUME NEW a \in Int
    PROVE a \div 2 \in Int /\ 2 * (a \div 2) <= a /\ a <= 2 * (a \div 2) + 1
OBVIOUS

\* Texts and times order alike what is a second apart.
LEMMA TextBeforeIsClose ==
    ASSUME NEW a \in Int, NEW b \in Int
    PROVE  /\ ~ TextBefore(a, b) => b - 1 <= a
           /\ TextBefore(a, b) => a <= b + 1
<1>1. \A k, m \in Int : 2 * k <= a /\ a <= 2 * k + 1 /\ 2 * m <= b /\ b <= 2 * m + 1
                       => (k <= m => a <= b + 1) /\ (m <= k => b - 1 <= a)
  BY SecondsApart
<1>2. /\ a \div 2 \in Int /\ 2 * (a \div 2) <= a /\ a <= 2 * (a \div 2) + 1
      /\ b \div 2 \in Int /\ 2 * (b \div 2) <= b /\ b <= 2 * (b \div 2) + 1
  BY WholeSeconds
<1>3. /\ a \div 2 <= b \div 2 => a <= b + 1
      /\ b \div 2 <= a \div 2 => b - 1 <= a
  BY ONLY <1>1, <1>2, ZenonT(20)
<1>4. /\ TextBefore(a, b) => a \div 2 <= b \div 2
      /\ ~ TextBefore(a, b) => b \div 2 <= a \div 2
  BY <1>2 DEF TextBefore
<1>5. QED
  BY <1>3, <1>4

\* Texts do not tell the minutes of two times otherwise than the times do, as a
\* minute is whole seconds.
LEMMA TextsKeepMinutes ==
    ASSUME NEW a \in Int, NEW b \in Int, NEW m \in Nat \ {0}, m % 2 = 0, ~ TextBefore(b, a)
    PROVE  a - (a % m) <= b - (b % m)
<1> DEFINE c == a - (a % m)
<1>1. /\ a \div 2 \in Int /\ 2 * (a \div 2) <= a /\ a <= 2 * (a \div 2) + 1
      /\ b \div 2 \in Int /\ 2 * (b \div 2) <= b /\ b <= 2 * (b \div 2) + 1
  BY WholeSeconds
<1>2. a \div 2 <= b \div 2
  BY <1>1 DEF TextBefore
<1>3. c \in Int /\ c <= a /\ c % m = 0 /\ c = (a \div m) * m /\ a \div m \in Int
  BY CutIsWhole
<1>4. PICK h \in Int : m = 2 * h
  <2>1. m \div 2 \in Int /\ m = 2 * (m \div 2)
    OBVIOUS
  <2>2. QED
    BY <2>1
<1>5. PICK e \in Int : c = 2 * e
  <2>1. (a \div m) * h \in Int /\ c = 2 * ((a \div m) * h)
    BY <1>3, <1>4
  <2>2. QED
    BY <2>1
<1> HIDE DEF c
<1>6. c <= b
  <2>1. \A e1, k, n \in Int : 2 * e1 <= a /\ a <= 2 * k + 1 /\ k <= n /\ 2 * n <= b => 2 * e1 <= b
    OBVIOUS
  <2>2. QED
    BY <1>1, <1>2, <1>3, <1>5, <2>1
<1>7. c - (c % m) <= b - (b % m)
  BY <1>3, <1>6, CutKeepsOrder
<1>8. QED
  BY <1>3, <1>7 DEF c

\* Texts order any two times, and a time is not before itself.
LEMMA TextOrder ==
    ASSUME NEW a \in Int, NEW b \in Int
    PROVE  /\ ~ TextBefore(a, a)
           /\ TextBefore(a, b) => ~ TextBefore(b, a)
           /\ a # b => TextBefore(a, b) \/ TextBefore(b, a)
<1>1. a \div 2 \in Int /\ a % 2 \in Int /\ 0 <= a % 2 /\ a % 2 < 2 /\ a = 2 * (a \div 2) + (a % 2)
  OBVIOUS
<1>2. b \div 2 \in Int /\ b % 2 \in Int /\ 0 <= b % 2 /\ b % 2 < 2 /\ b = 2 * (b \div 2) + (b % 2)
  OBVIOUS
<1>3. QED
  BY <1>1, <1>2 DEF TextBefore

--------------------------------------------------------------------------------
\* Induction, by least counterexamples: the library's relations are well founded.

\* A non-empty set of natural numbers has a least element.
LEMMA LeastNatural ==
    ASSUME NEW T \in SUBSET Nat, T # {}
    PROVE  \E m \in T : \A n \in T : m <= n
<1>1. PICK m \in T : \A n \in T : ~ (<<n, m>> \in OpToRel(<, Nat))
  BY WFMin, NatLessThanWellFounded, Zenon
<1>2. \A n \in T : ~ (n < m)
  BY <1>1 DEF OpToRel
<1>3. QED
  BY <1>2

\* A set of natural numbers with 0 and the successor of each of its members.
LEMMA AllNaturals ==
    ASSUME NEW T \in SUBSET Nat, 0 \in T, \A n \in T : n + 1 \in T
    PROVE  T = Nat
<1>1. SUFFICES ASSUME Nat \ T # {} PROVE FALSE
  OBVIOUS
<1>2. PICK m \in Nat \ T : \A n \in Nat \ T : m <= n
  BY <1>1, LeastNatural
<1>3. m - 1 \in Nat /\ m - 1 \notin T
  BY <1>2
<1>4. QED
  BY <1>2, <1>3

\* A non-empty set of finite sets has a member no other member is a part of.
LEMMA LeastSet ==
    ASSUME NEW S, IsFiniteSet(S), NEW U \in SUBSET SUBSET S, U # {}
    PROVE  \E s \in U : \A t \in SUBSET s : t \in U => t = s
<1>1. IsWellFoundedOn(StrictSubsetOrdering(S), FiniteSubsetsOf(S))
  BY FS_StrictSubsetOrderingWellFounded
<1>2. U \subseteq FiniteSubsetsOf(S)
  BY FS_Subset DEF FiniteSubsetsOf
<1>3. PICK s \in U : \A t \in U : ~ (<<t, s>> \in StrictSubsetOrdering(S))
  BY <1>1, <1>2, WFMin, Zenon
<1>4. QED
  BY <1>3 DEF StrictSubsetOrdering

\* A set with the empty set and, with each of its members, each subset of S that
\* has one element more.
LEMMA AllSubsets ==
    ASSUME NEW S, IsFiniteSet(S), NEW U \in SUBSET SUBSET S, {} \in U,
           \A s \in U : \A x \in S \ s : s \cup {x} \in U
    PROVE  U = SUBSET S
<1> DEFINE V == (SUBSET S) \ U
<1>1. SUFFICES ASSUME V # {} PROVE FALSE
  OBVIOUS
<1>2. V \in SUBSET SUBSET S
  OBVIOUS
<1> HIDE DEF V
<1>3. PICK t \in V : \A s \in SUBSET t : s \in V => s = t
  BY <1>1, <1>2, LeastSet
<1>4. t \in SUBSET S /\ t \notin U /\ t # {}
  BY DEF V
<1>5. PICK x \in t : TRUE
  BY <1>4
<1>6. t \ {x} \in SUBSET t /\ t \ {x} # t /\ t \ {x} \in SUBSET S /\ x \in S \ (t \ {x})
  BY <1>4, <1>5
<1>7. t \ {x} \in U
  BY <1>3, <1>6 DEF V
<1>8. (t \ {x}) \cup {x} \in U /\ (t \ {x}) \cup {x} = t
  BY <1>5, <1>6, <1>7
<1>9. QED
  BY <1>4, <1>8

--------------------------------------------------------------------------------
\* Sums: the recursion the library's fold is defined by has a solution on the
\* subsets of any finite set, and with it what a sum is follows by the least set
\* for which it would be otherwise.

\* The element that a fold takes next, and the function it computes with.
Taken(s) == CHOOSE x \in s : TRUE
Total(f, g, s) == IF s = {} THEN 0 ELSE f[Taken(s)] + g[s \ {Taken(s)}]
Totals(f, S) == CHOOSE g : g = [s \in SUBSET S |-> Total(f, g, s)]

LEMMA SumIsTotal ==
    ASSUME NEW f, NEW S PROVE SumFunctionOnSet(f, S) = Totals(f, S)[S]
BY DEF SumFunctionOnSet, FoldFunctionOnSet, MapThenFoldSet, Totals, Total, Taken

LEMMA TakenIsMember == ASSUME NEW s, s # {} PROVE Taken(s) \in s
BY DEF Taken

\* There is such a function, and the fold uses it: if there is one for the subsets of up to n elements,
\* there is one for those of up to n + 1.
LEMMA TotalsUnfold ==
    ASSUME NEW f, NEW S, IsFiniteSet(S)
    PROVE  Totals(f, S) = [s \in SUBSET S |-> Total(f, Totals(f, S), s)]
<1> DEFINE UpTo(n) == {s \in SUBSET S : Cardinality(s) <= n}
           Has(n) == \E g : g = [s \in UpTo(n) |-> Total(f, g, s)]
           T == {n \in Nat : Has(n)}
<1>1. \A s \in SUBSET S : /\ IsFiniteSet(s) /\ Cardinality(s) \in Nat /\ Cardinality(s) <= Cardinality(S)
                          /\ s # {} => /\ Taken(s) \in s /\ s \ {Taken(s)} \in SUBSET S
                                       /\ Cardinality(s \ {Taken(s)}) = Cardinality(s) - 1
  <2>1. SUFFICES ASSUME NEW s \in SUBSET S
                 PROVE /\ IsFiniteSet(s) /\ Cardinality(s) \in Nat /\ Cardinality(s) <= Cardinality(S)
                       /\ s # {} => /\ Taken(s) \in s
                                    /\ Cardinality(s \ {Taken(s)}) = Cardinality(s) - 1
    OBVIOUS
  <2>2. IsFiniteSet(s) /\ Cardinality(s) <= Cardinality(S)
    BY FS_Subset
  <2>3. QED
    BY <2>2, FS_CardinalityType, FS_RemoveElement, TakenIsMember
<1>2. 0 \in T
  <2>1. \A s \in UpTo(0) : s = {}
    <3>1. SUFFICES ASSUME NEW s \in SUBSET S, Cardinality(s) <= 0 PROVE s = {}
      OBVIOUS
    <3>2. IsFiniteSet(s) /\ Cardinality(s) \in Nat
      BY <1>1
    <3>4. Cardinality(s) = 0
      BY <3>1, <3>2
    <3>3. QED
      BY <3>2, <3>4, FS_EmptySet
  <2> DEFINE h == [s \in UpTo(0) |-> 0]
  <2>2. \A s \in UpTo(0) : Total(f, h, s) = 0
    BY <2>1 DEF Total
  <2>3. h = [s \in UpTo(0) |-> Total(f, h, s)]
    BY <2>2
  <2>4. Has(0)
    BY <2>3
  <2>5. QED
    BY <2>4
<1>3. ASSUME NEW n \in T PROVE n + 1 \in T
  <2>1. PICK g : g = [s \in UpTo(n) |-> Total(f, g, s)]
    BY <1>3
  <2> DEFINE h == [s \in UpTo(n + 1) |-> Total(f, g, s)]
  <2>2. \A s \in UpTo(n + 1) : s # {} => s \ {Taken(s)} \in UpTo(n)
    BY <1>1
  <2>3. UpTo(n) \subseteq UpTo(n + 1)
    BY <1>1, \A k \in Nat : k <= n => k <= n + 1
  <2>4. \A s \in UpTo(n) : h[s] = g[s]
    BY <2>1, <2>3
  <2>5. \A s \in UpTo(n + 1) : Total(f, g, s) = Total(f, h, s)
    BY <2>2, <2>4 DEF Total
  <2>6. h = [s \in UpTo(n + 1) |-> Total(f, h, s)]
    BY <2>5
  <2>7. Has(n + 1)
    BY <2>6
  <2>8. n + 1 \in Nat
    OBVIOUS
  <2>9. QED
    BY <2>7, <2>8, Zenon
<1>4. T = Nat
  <2> HIDE DEF T
  <2>1. T \in SUBSET Nat
    BY DEF T
  <2>2. QED
    BY <1>2, <1>3, <2>1, AllNaturals
<1>5. Has(Cardinality(S)) /\ UpTo(Cardinality(S)) = SUBSET S
  BY <1>1, <1>4, FS_CardinalityType
<1>6. \E g : g = [s \in SUBSET S |-> Total(f, g, s)]
  BY <1>5, Zenon
<1>7. Totals(f, S) = CHOOSE g : g = [s \in SUBSET S |-> Total(f, g, s)]
  BY DEF Totals
<1>8. QED
  BY <1>6, <1>7, Zenon

\* The recursion of a sum, over a set whose element Taken is left out.
LEMMA SumUnfolds ==
    ASSUME NEW f, NEW S, IsFiniteSet(S)
    PROVE  SumFunctionOnSet(f, S) = IF S = {} THEN 0
                                    ELSE f[Taken(S)] + SumFunctionOnSet(f, S \ {Taken(S)})
<1>1. \A U : IsFiniteSet(U) => Totals(f, U) = [s \in SUBSET U |-> Total(f, Totals(f, U), s)]
  BY TotalsUnfold
<1>2. CASE S = {}
  <2>1. Totals(f, S)[S] = Total(f, Totals(f, S), S)
    BY <1>1
  <2>2. QED
    BY <1>2, <2>1, SumIsTotal DEF Total
<1>3. CASE S # {}
  <2> DEFINE R == S \ {Taken(S)}
             V == {s \in SUBSET R : Totals(f, S)[s] # Totals(f, R)[s]}
  <2>1. Taken(S) \in S /\ R \in SUBSET S /\ IsFiniteSet(R)
    BY <1>3, TakenIsMember, FS_Subset
  <2>2. \A s \in SUBSET R : /\ s \in SUBSET S
                            /\ s # {} => Taken(s) \in s /\ s \ {Taken(s)} \in SUBSET R
    BY <2>1, TakenIsMember
  <2>3. Totals(f, S) = [s \in SUBSET S |-> Total(f, Totals(f, S), s)]
    BY <1>1
  <2>4. Totals(f, R) = [s \in SUBSET R |-> Total(f, Totals(f, R), s)]
    BY <1>1, <2>1
  <2>5. \A s \in SUBSET R : /\ Totals(f, S)[s] = Total(f, Totals(f, S), s)
                            /\ Totals(f, R)[s] = Total(f, Totals(f, R), s)
    <3> HIDE DEF R
    <3>1. QED
      BY <2>2, <2>3, <2>4
  <2>6. V = {}
    <3>1. SUFFICES ASSUME V # {} PROVE FALSE
      OBVIOUS
    <3>2. V \in SUBSET SUBSET R
      OBVIOUS
    <3> HIDE DEF V, R
    <3>3. PICK s \in V : \A t \in SUBSET s : t \in V => t = s
      BY <2>1, <3>1, <3>2, LeastSet
    <3>4. s \in SUBSET R /\ Totals(f, S)[s] # Totals(f, R)[s]
      BY DEF V
    <3>5. s # {} /\ Taken(s) \in s /\ s \ {Taken(s)} \in SUBSET R
      BY <2>2, <2>5, <3>4 DEF Total
    <3>6. Totals(f, S)[s \ {Taken(s)}] = Totals(f, R)[s \ {Taken(s)}]
      BY <3>3, <3>5 DEF V
    <3>7. QED
      BY <2>5, <3>4, <3>5, <3>6 DEF Total
  <2>7. Totals(f, S)[R] = Totals(f, R)[R]
    <3>1. R \in SUBSET R
      OBVIOUS
    <3> HIDE DEF R
    <3>2. QED
      BY <2>6, <3>1
  <2>8. Totals(f, S)[S] = f[Taken(S)] + Totals(f, S)[R]
    <3>1. Totals(f, S)[S] = Total(f, Totals(f, S), S)
      BY <2>3
    <3>2. QED
      BY <1>3, <3>1 DEF Total
  <2>9. QED
    BY <1>3, <2>7, <2>8, SumIsTotal
<1>4. QED
  BY <1>2, <1>3

\* The sum over the empty set.
LEMMA SumEmpty == ASSUME NEW f PROVE SumFunctionOnSet(f, {}) = 0
BY SumUnfolds, FS_EmptySet

\* A sum of natural numbers is one.
LEMMA SumType ==
    ASSUME NEW f, NEW S, IsFiniteSet(S), \A x \in S : f[x] \in Nat
    PROVE  SumFunctionOnSet(f, S) \in Nat
<1> DEFINE V == {s \in SUBSET S : SumFunctionOnSet(f, s) \notin Nat}
<1>1. SUFFICES ASSUME V # {} PROVE FALSE
  OBVIOUS
<1>2. V \in SUBSET SUBSET S
  OBVIOUS
<1> HIDE DEF V
<1>3. PICK s \in V : \A t \in SUBSET s : t \in V => t = s
  BY <1>1, <1>2, LeastSet
<1>4. s \in SUBSET S /\ SumFunctionOnSet(f, s) \notin Nat /\ IsFiniteSet(s)
  BY FS_Subset DEF V
<1>5. s # {}
  BY <1>4, SumEmpty
<1>6. /\ Taken(s) \in s /\ s \ {Taken(s)} \in SUBSET s /\ s \ {Taken(s)} # s
      /\ f[Taken(s)] \in Nat
  BY <1>4, <1>5, TakenIsMember
<1>7. SumFunctionOnSet(f, s \ {Taken(s)}) \in Nat
  BY <1>3, <1>4, <1>6 DEF V
<1>8. SumFunctionOnSet(f, s) = f[Taken(s)] + SumFunctionOnSet(f, s \ {Taken(s)})
  BY <1>4, <1>5, SumUnfolds
<1>9. QED
  BY <1>4, <1>6, <1>7, <1>8

\* Any element may be the one that is left out.
LEMMA SumRemove ==
    ASSUME NEW f, NEW S, IsFiniteSet(S), \A x \in S : f[x] \in Nat, NEW y \in S
    PROVE  /\ SumFunctionOnSet(f, S \ {y}) \in Nat
           /\ SumFunctionOnSet(f, S) = f[y] + SumFunctionOnSet(f, S \ {y})
<1> DEFINE Right(s, x) == SumFunctionOnSet(f, s) = f[x] + SumFunctionOnSet(f, s \ {x})
           V == {s \in SUBSET S : \E x \in s : ~ Right(s, x)}
<1>1. V = {}
  <2>1. SUFFICES ASSUME V # {} PROVE FALSE
    OBVIOUS
  <2>2. V \in SUBSET SUBSET S
    OBVIOUS
  <2> HIDE DEF V
  <2>3. PICK s \in V : \A t \in SUBSET s : t \in V => t = s
    BY <2>1, <2>2, LeastSet
  <2>4. s \in SUBSET S /\ IsFiniteSet(s)
    BY FS_Subset DEF V
  <2>5. PICK x \in s : ~ Right(s, x)
    BY DEF V
  <2> DEFINE t == Taken(s)
  <2>6. t \in s /\ Right(s, t) /\ x # t
    BY <2>4, <2>5, SumUnfolds, TakenIsMember
  <2> HIDE DEF t
  <2>7. Right(s \ {t}, x) /\ Right(s \ {x}, t)
    <3>1. s \ {t} \in SUBSET s /\ s \ {t} # s /\ x \in s \ {t} /\ s \ {t} \in SUBSET S
      BY <2>4, <2>5, <2>6
    <3>2. s \ {x} \in SUBSET s /\ s \ {x} # s /\ t \in s \ {x} /\ s \ {x} \in SUBSET S
      BY <2>4, <2>5, <2>6
    <3> HIDE DEF Right
    <3>3. s \ {t} \notin V /\ s \ {x} \notin V
      BY <2>3, <3>1, <3>2
    <3>4. QED
      BY <3>1, <3>2, <3>3 DEF V
  <2>8. (s \ {t}) \ {x} = (s \ {x}) \ {t}
    OBVIOUS
  <2>9. /\ f[x] \in Nat /\ f[t] \in Nat
        /\ SumFunctionOnSet(f, (s \ {t}) \ {x}) \in Nat
    <3>1. (s \ {t}) \ {x} \in SUBSET S
      BY <2>4
    <3>2. IsFiniteSet((s \ {t}) \ {x}) /\ \A e \in (s \ {t}) \ {x} : f[e] \in Nat
      BY <3>1, FS_Subset
    <3>3. QED
      BY <2>4, <2>5, <2>6, <3>2, SumType
  <2>10. QED
    BY <2>5, <2>6, <2>7, <2>8, <2>9
<1>2. Right(S, y)
  BY <1>1
<1>3. IsFiniteSet(S \ {y}) /\ \A x \in S \ {y} : f[x] \in Nat
  BY FS_Subset
<1>4. QED
  BY <1>2, <1>3, SumType

\* An element more.
LEMMA SumAdd ==
    ASSUME NEW f, NEW S, IsFiniteSet(S), NEW y, y \notin S, \A x \in S \cup {y} : f[x] \in Nat
    PROVE  SumFunctionOnSet(f, S \cup {y}) = f[y] + SumFunctionOnSet(f, S)
<1>1. IsFiniteSet(S \cup {y}) /\ y \in S \cup {y} /\ (S \cup {y}) \ {y} = S
  BY FS_AddElement
<1>2. SumFunctionOnSet(f, S \cup {y}) = f[y] + SumFunctionOnSet(f, (S \cup {y}) \ {y})
  BY <1>1, SumRemove
<1>3. QED
  BY <1>1, <1>2

\* The sum is of the values on the set, whatever function has them.
LEMMA SumSame ==
    ASSUME NEW f, NEW g, NEW S, IsFiniteSet(S), \A x \in S : f[x] \in Nat /\ g[x] = f[x]
    PROVE  SumFunctionOnSet(g, S) = SumFunctionOnSet(f, S)
<1> DEFINE U == {s \in SUBSET S : SumFunctionOnSet(g, s) = SumFunctionOnSet(f, s)}
<1>1. U \in SUBSET SUBSET S /\ {} \in U
  BY SumEmpty
<1>2. ASSUME NEW s \in U, NEW x \in S \ s PROVE s \cup {x} \in U
  <2>1. /\ s \in SUBSET S /\ IsFiniteSet(s) /\ x \notin s /\ s \cup {x} \in SUBSET S
        /\ \A e \in s \cup {x} : f[e] \in Nat /\ g[e] \in Nat /\ g[x] = f[x]
    BY FS_Subset
  <2>2. SumFunctionOnSet(f, s \cup {x}) = f[x] + SumFunctionOnSet(f, s)
    BY <2>1, SumAdd
  <2>3. SumFunctionOnSet(g, s \cup {x}) = g[x] + SumFunctionOnSet(g, s)
    BY <2>1, SumAdd
  <2>4. QED
    BY <2>1, <2>2, <2>3
<1>3. U = SUBSET S
  <2> HIDE DEF U
  <2>1. QED
    BY <1>1, <1>2, AllSubsets
<1>4. QED
  BY <1>3

\* Smaller numbers have a smaller sum.
LEMMA SumSmaller ==
    ASSUME NEW f, NEW g, NEW S, IsFiniteSet(S),
           \A x \in S : f[x] \in Nat /\ g[x] \in Nat /\ f[x] <= g[x]
    PROVE  SumFunctionOnSet(f, S) <= SumFunctionOnSet(g, S)
<1> DEFINE U == {s \in SUBSET S : SumFunctionOnSet(f, s) <= SumFunctionOnSet(g, s)}
<1>1. U \in SUBSET SUBSET S /\ {} \in U
  BY SumEmpty
<1>2. ASSUME NEW s \in U, NEW x \in S \ s PROVE s \cup {x} \in U
  <2>1. /\ s \in SUBSET S /\ IsFiniteSet(s)
        /\ \A y \in s \cup {x} : f[y] \in Nat /\ g[y] \in Nat /\ f[y] <= g[y]
    BY FS_Subset
  <2>2. /\ SumFunctionOnSet(f, s \cup {x}) = f[x] + SumFunctionOnSet(f, s)
        /\ SumFunctionOnSet(g, s \cup {x}) = g[x] + SumFunctionOnSet(g, s)
    BY <2>1, SumAdd
  <2>3. SumFunctionOnSet(f, s) \in Nat /\ SumFunctionOnSet(g, s) \in Nat
    BY <2>1, SumType
  <2>4. f[x] + SumFunctionOnSet(f, s) <= g[x] + SumFunctionOnSet(g, s)
    BY <2>1, <2>3
  <2>5. QED
    BY <2>1, <2>2, <2>4
<1> HIDE DEF U
<1>3. U = SUBSET S
  BY <1>1, <1>2, AllSubsets
<1>4. QED
  BY <1>3 DEF U

\* The sum over two sets that have nothing in common.
LEMMA SumUnion ==
    ASSUME NEW f, NEW S, NEW T, IsFiniteSet(S), IsFiniteSet(T), S \cap T = {},
           \A x \in S \cup T : f[x] \in Nat
    PROVE  SumFunctionOnSet(f, S \cup T) = SumFunctionOnSet(f, S) + SumFunctionOnSet(f, T)
<1> DEFINE U == {t \in SUBSET T : SumFunctionOnSet(f, S \cup t)
                                     = SumFunctionOnSet(f, S) + SumFunctionOnSet(f, t)}
<1>1. U \in SUBSET SUBSET T /\ {} \in U
  <2>1. SumFunctionOnSet(f, S) \in Nat /\ S \cup {} = S
    BY SumType
  <2>2. QED
    BY <2>1, SumEmpty
<1>2. ASSUME NEW t \in U, NEW x \in T \ t PROVE t \cup {x} \in U
  <2>1. /\ t \in SUBSET T /\ IsFiniteSet(t) /\ t \cup {x} \in SUBSET T
        /\ IsFiniteSet(S \cup t) /\ x \notin S \cup t
    BY FS_Subset, FS_Union
  <2>2. \A e \in (S \cup t) \cup {x} : f[e] \in Nat
    BY <2>1
  <2>3. SumFunctionOnSet(f, t \cup {x}) = f[x] + SumFunctionOnSet(f, t)
    BY <2>1, <2>2, SumAdd
  <2>4. SumFunctionOnSet(f, (S \cup t) \cup {x}) = f[x] + SumFunctionOnSet(f, S \cup t)
    BY <2>1, <2>2, SumAdd
  <2>5. /\ SumFunctionOnSet(f, S) \in Nat /\ SumFunctionOnSet(f, t) \in Nat /\ f[x] \in Nat
        /\ (S \cup t) \cup {x} = S \cup (t \cup {x})
    BY <2>1, <2>2, SumType
  <2>6. SumFunctionOnSet(f, S \cup t) = SumFunctionOnSet(f, S) + SumFunctionOnSet(f, t)
    OBVIOUS
  <2>7. SumFunctionOnSet(f, S \cup (t \cup {x}))
          = SumFunctionOnSet(f, S) + SumFunctionOnSet(f, t \cup {x})
    <3>1. \A a, b, c, d, e, g \in Nat : a = c + b /\ b = d + e /\ g = c + e => a = d + g
      OBVIOUS
    <3>2. /\ SumFunctionOnSet(f, (S \cup t) \cup {x}) \in Nat /\ SumFunctionOnSet(f, S \cup t) \in Nat
          /\ SumFunctionOnSet(f, t \cup {x}) \in Nat
      BY <2>3, <2>4, <2>5, <2>6
    <3>3. SumFunctionOnSet(f, (S \cup t) \cup {x})
             = SumFunctionOnSet(f, S) + SumFunctionOnSet(f, t \cup {x})
      BY ONLY <2>3, <2>4, <2>5, <2>6, <3>1, <3>2
    <3>4. QED
      BY ONLY <2>5, <3>3
  <2>8. QED
    BY <2>1, <2>7
<1>3. U = SUBSET T
  <2> HIDE DEF U
  <2>1. QED
    BY <1>1, <1>2, AllSubsets
<1>4. QED
  BY <1>3

\* A part has no greater sum.
LEMMA SumOfPart ==
    ASSUME NEW f, NEW S, IsFiniteSet(S), \A x \in S : f[x] \in Nat, NEW T \in SUBSET S
    PROVE  /\ SumFunctionOnSet(f, T) \in Nat /\ SumFunctionOnSet(f, S) \in Nat
           /\ SumFunctionOnSet(f, S) = SumFunctionOnSet(f, T) + SumFunctionOnSet(f, S \ T)
           /\ SumFunctionOnSet(f, T) <= SumFunctionOnSet(f, S)
<1>1. IsFiniteSet(T) /\ IsFiniteSet(S \ T) /\ T \cup (S \ T) = S /\ T \cap (S \ T) = {}
  BY FS_Subset
<1>2. SumFunctionOnSet(f, T \cup (S \ T)) = SumFunctionOnSet(f, T) + SumFunctionOnSet(f, S \ T)
  BY <1>1, SumUnion
<1>3. SumFunctionOnSet(f, T) \in Nat /\ SumFunctionOnSet(f, S \ T) \in Nat
  BY <1>1, SumType
<1>4. QED
  BY <1>1, <1>2, <1>3

\* The value of one element changes.
LEMMA SumChange ==
    ASSUME NEW f, NEW g, NEW S, IsFiniteSet(S), NEW y \in S, g[y] \in Nat,
           \A x \in S : f[x] \in Nat /\ (x # y => g[x] = f[x])
    PROVE  /\ SumFunctionOnSet(f, S) \in Nat /\ SumFunctionOnSet(g, S) \in Nat
           /\ SumFunctionOnSet(g, S) = SumFunctionOnSet(f, S) - f[y] + g[y]
<1>1. \A x \in S : g[x] \in Nat
  OBVIOUS
<1>2. /\ SumFunctionOnSet(f, S \ {y}) \in Nat
      /\ SumFunctionOnSet(f, S) = f[y] + SumFunctionOnSet(f, S \ {y})
  BY SumRemove
<1>3. SumFunctionOnSet(g, S) = g[y] + SumFunctionOnSet(g, S \ {y})
  BY <1>1, SumRemove
<1>4. IsFiniteSet(S \ {y}) /\ \A x \in S \ {y} : f[x] \in Nat /\ g[x] = f[x]
  BY FS_Subset
<1>5. SumFunctionOnSet(g, S \ {y}) = SumFunctionOnSet(f, S \ {y})
  BY <1>4, SumSame
<1>6. QED
  BY <1>2, <1>3, <1>5

\* The sums over parts that have nothing in common add up to that of the whole.
LEMMA SumOfParts ==
    ASSUME NEW f, NEW S, IsFiniteSet(S), \A x \in S : f[x] \in Nat,
           NEW M, IsFiniteSet(M), NEW part \in [M -> SUBSET S], NEW h,
           \A m \in M : h[m] = SumFunctionOnSet(f, part[m]),
           \A m, n \in M : m # n => part[m] \cap part[n] = {}
    PROVE  SumFunctionOnSet(h, M) = SumFunctionOnSet(f, UNION {part[m] : m \in M})
<1> DEFINE Whole(s) == UNION {part[m] : m \in s}
           U == {s \in SUBSET M : SumFunctionOnSet(h, s) = SumFunctionOnSet(f, Whole(s))}
<1>1. \A T \in SUBSET S : IsFiniteSet(T) /\ \A x \in T : f[x] \in Nat
  BY FS_Subset
<1>2. U \in SUBSET SUBSET M /\ {} \in U
  BY SumEmpty
<1>3. ASSUME NEW s \in U, NEW x \in M \ s PROVE s \cup {x} \in U
  <2>1. /\ s \in SUBSET M /\ IsFiniteSet(s) /\ s \cup {x} \in SUBSET M
        /\ Whole(s) \in SUBSET S /\ part[x] \in SUBSET S
    BY FS_Subset
  <2>2. Whole(s \cup {x}) = Whole(s) \cup part[x] /\ Whole(s) \cap part[x] = {}
    BY <2>1
  <2>3. SumFunctionOnSet(f, Whole(s \cup {x})) = SumFunctionOnSet(f, Whole(s)) + h[x]
    <3> HIDE DEF Whole
    <3>1. SumFunctionOnSet(f, Whole(s) \cup part[x])
             = SumFunctionOnSet(f, Whole(s)) + SumFunctionOnSet(f, part[x])
      <4>1. \A e \in Whole(s) \cup part[x] : f[e] \in Nat
        BY <1>1, <2>1
      <4>2. IsFiniteSet(Whole(s)) /\ IsFiniteSet(part[x])
        BY <1>1, <2>1
      <4>3. QED
        BY <2>2, <4>1, <4>2, SumUnion
    <3>2. QED
      BY <2>2, <3>1
  <2>4. \A m \in s \cup {x} : h[m] \in Nat
    BY <1>1, <2>1, SumType
  <2>5. SumFunctionOnSet(h, s \cup {x}) = h[x] + SumFunctionOnSet(h, s)
    BY <2>1, <2>4, SumAdd
  <2>6. SumFunctionOnSet(f, Whole(s)) = SumFunctionOnSet(h, s)
    OBVIOUS
  <2>7. SumFunctionOnSet(h, s) \in Nat /\ h[x] \in Nat
    BY <2>1, <2>4, SumType
  <2>8. QED
    BY <2>1, <2>3, <2>5, <2>6, <2>7
<1>4. U = SUBSET M
  <2> HIDE DEF U
  <2>1. QED
    BY <1>2, <1>3, AllSubsets
<1>5. QED
  BY <1>4

--------------------------------------------------------------------------------
\* Counting.

\* A set cut into K parts of no more than m elements has no more than K * m.
LEMMA PartsBound ==
    ASSUME NEW S, IsFiniteSet(S), NEW K \in Nat, NEW m \in Nat, NEW f \in [S -> 0 .. K - 1],
           \A j \in 0 .. K - 1 : Cardinality({x \in S : f[x] = j}) <= m
    PROVE  Cardinality(S) <= K * m
<1> DEFINE Below(n) == {x \in S : f[x] < n}
           T == {n \in Nat : n <= K => Cardinality(Below(n)) <= n * m}
<1>1. 0 \in T
  <2>1. Below(0) = {}
    OBVIOUS
  <2>2. Cardinality(Below(0)) = 0 /\ 0 * m = 0
    BY <2>1, FS_EmptySet
  <2> HIDE DEF Below
  <2>3. QED
    BY <2>2
<1>2. ASSUME NEW n \in T PROVE n + 1 \in T
  <2>1. SUFFICES ASSUME n + 1 <= K PROVE Cardinality(Below(n + 1)) <= (n + 1) * m
    OBVIOUS
  <2> DEFINE part == {x \in S : f[x] = n}
  <2>2. Below(n + 1) = Below(n) \cup part /\ Below(n) \cap part = {}
    OBVIOUS
  <2>3. IsFiniteSet(Below(n)) /\ IsFiniteSet(part)
    BY FS_Subset
  <2>4. Cardinality(Below(n)) <= n * m /\ Cardinality(part) <= m
    BY <2>1
  <2> HIDE DEF Below, part
  <2>5. Cardinality(Below(n) \cup part) = Cardinality(Below(n)) + Cardinality(part)
    <3>1. Cardinality(Below(n) \cap part) = 0
      BY <2>2, FS_EmptySet
    <3>2. Cardinality(Below(n) \cup part)
             = Cardinality(Below(n)) + Cardinality(part) - Cardinality(Below(n) \cap part)
      BY <2>3, FS_Union
    <3>3. QED
      BY <2>3, <3>1, <3>2, FS_CardinalityType
  <2>6. (n + 1) * m = n * m + m /\ n * m \in Nat
    OBVIOUS
  <2>7. Cardinality(Below(n)) \in Nat /\ Cardinality(part) \in Nat
    BY <2>3, FS_CardinalityType
  <2>8. QED
    <3>1. \A a, b, c, d \in Nat : a <= c /\ b <= d => a + b <= c + d
      OBVIOUS
    <3>2. Cardinality(Below(n)) + Cardinality(part) <= n * m + m
      BY ONLY <2>4, <2>6, <2>7, <3>1, m \in Nat
    <3>3. QED
      BY ONLY <2>2, <2>5, <2>6, <3>2
<1>3. T = Nat
  <2> HIDE DEF T
  <2>1. T \in SUBSET Nat
    BY DEF T
  <2>2. QED
    BY <1>1, <1>2, <2>1, AllNaturals
<1>4. K \in T
  <2> HIDE DEF T
  <2>1. QED
    BY <1>3
<1>5. Below(K) = S
  OBVIOUS
<1>6. Cardinality(Below(K)) <= K * m
  BY <1>4
<1>7. QED
  BY ONLY <1>5, <1>6

\* A set in which any two elements are the same has at most one.
LEMMA AtMostOne == ASSUME NEW S, \A x, y \in S : x = y
    PROVE IsFiniteSet(S) /\ Cardinality(S) \in Nat /\ Cardinality(S) <= 1
<1>1. CASE S = {}
  BY <1>1, FS_EmptySet
<1>2. CASE S # {}
  <2>1. PICK x \in S : TRUE
    BY <1>2
  <2>2. S = {x}
    BY <2>1
  <2>3. QED
    BY <2>2, FS_Singleton
<1>3. QED
  BY <1>1, <1>2

\* What the places from a to b hold.
HeldFrom(f, a, b) == {f[j] : j \in a .. b}

\* As many elements as places, if no two places hold the same.
LEMMA PlacesCount ==
    ASSUME NEW f, NEW a \in Int, NEW b \in Int,
           \A j, k \in a .. b : f[j] = f[k] => j = k
    PROVE  /\ IsFiniteSet(HeldFrom(f, a, b))
           /\ Cardinality(HeldFrom(f, a, b)) = IF a > b THEN 0 ELSE b - a + 1
<1> DEFINE T == {f[j] : j \in a .. b}
           g == [j \in a .. b |-> f[j]]
<1>1. g \in [a .. b -> T] /\ (\A j, k \in a .. b : g[j] = g[k] => j = k)
      /\ \A x \in T : \E j \in a .. b : g[j] = x
  OBVIOUS
<1>2. g \in Bijection(a .. b, T)
  BY <1>1 DEF Bijection, Injection, Surjection, IsInjective
<1>3. IsFiniteSet(a .. b) /\ Cardinality(a .. b) = IF a > b THEN 0 ELSE b - a + 1
  BY FS_Interval
<1>4. ExistsBijection(a .. b, T)
  BY <1>2 DEF ExistsBijection
<1> HIDE DEF T, g
<1>5. IsFiniteSet(T) /\ Cardinality(T) = Cardinality(a .. b)
  BY <1>3, <1>4, FS_Bijection
<1>6. T = HeldFrom(f, a, b)
  BY DEF T, HeldFrom
<1>7. QED
  BY <1>3, <1>5, <1>6

\* The elements that come before x in the order R.
Ahead(S, R, x) == {y \in S : <<y, x>> \in R}

\* A finite set with a strict total order can be written down in that order.
LEMMA SortedExists ==
    ASSUME NEW S, IsFiniteSet(S), NEW R,
           \A a \in S : <<a, a>> \notin R,
           \A a, b \in S : a # b => <<a, b>> \in R \/ <<b, a>> \in R,
           \A a, b, c \in S : <<a, b>> \in R /\ <<b, c>> \in R => <<a, c>> \in R
    PROVE  \E s \in [1 .. Cardinality(S) -> S] :
              \A i, j \in 1 .. Cardinality(S) : i < j => <<s[i], s[j]>> \in R
<1> DEFINE n == Cardinality(S)
           rank == [x \in S |-> Cardinality(Ahead(S, R, x)) + 1]
<1>1. n \in Nat
  BY FS_CardinalityType
<1>2. ASSUME NEW x \in S
      PROVE  /\ IsFiniteSet(Ahead(S, R, x)) /\ Cardinality(Ahead(S, R, x)) \in Nat
             /\ Cardinality(Ahead(S, R, x)) < n
  <2>1. Ahead(S, R, x) \in SUBSET S /\ Ahead(S, R, x) # S
    BY DEF Ahead
  <2>2. QED
    BY <2>1, FS_Subset, FS_CardinalityType
<1>3. ASSUME NEW a \in S, NEW b \in S, <<a, b>> \in R
      PROVE  rank[a] < rank[b]
  <2>1. Ahead(S, R, a) \subseteq Ahead(S, R, b) /\ a \in Ahead(S, R, b) /\ a \notin Ahead(S, R, a)
    BY <1>3 DEF Ahead
  <2>2. Cardinality(Ahead(S, R, a)) < Cardinality(Ahead(S, R, b))
    BY <1>2, <2>1, FS_Subset
  <2>3. QED
    BY <1>2, <2>2
<1>4. rank \in [S -> 1 .. n]
  BY <1>1, <1>2
<1> HIDE DEF rank, n
<1>5. rank \in Injection(S, 1 .. n)
  <2>1. \A a, b \in S : rank[a] = rank[b] => a = b
    <3>1. SUFFICES ASSUME NEW a \in S, NEW b \in S, a # b PROVE rank[a] # rank[b]
      OBVIOUS
    <3>2. rank[a] \in Int /\ rank[b] \in Int
      BY <1>1, <1>4
    <3>3. <<a, b>> \in R \/ <<b, a>> \in R
      BY <3>1
    <3>4. QED
      BY <1>3, <3>2, <3>3
  <2>2. QED
    BY <1>4, <2>1 DEF Injection, IsInjective
<1>6. rank \in Surjection(S, 1 .. n)
  <2>1. IsFiniteSet(1 .. n) /\ Cardinality(1 .. n) = Cardinality(S)
    BY <1>1, FS_Interval DEF n
  <2>2. QED
    BY <1>5, <2>1, FS_Injection
<1>7. \A i \in 1 .. n : \E x \in S : rank[x] = i
  BY <1>6 DEF Surjection
<1> DEFINE s == [i \in 1 .. n |-> CHOOSE x \in S : rank[x] = i]
<1>8. s \in [1 .. n -> S] /\ \A i \in 1 .. n : rank[s[i]] = i
  BY <1>7
<1> HIDE DEF s
<1>9. ASSUME NEW i \in 1 .. n, NEW j \in 1 .. n, i < j PROVE <<s[i], s[j]>> \in R
  <2>1. s[i] \in S /\ s[j] \in S /\ s[i] # s[j]
    BY <1>8, <1>9
  <2>2. ~ (<<s[j], s[i]>> \in R)
    BY <1>3, <1>8, <1>9, <2>1
  <2>3. QED
    BY <2>1, <2>2
<1>10. QED
  BY <1>8, <1>9 DEF n
================================================================================
