-------------------------------- MODULE Sums --------------------------------
(***************************************************************************)
(* Facts about SumFunctionOnSet, the sum of a function's values on a       *)
(* finite set.  The sum is a fold, and a fold is a recursive function,     *)
(* which is a CHOOSE: that there is such a function, and that the order in *)
(* which it takes the elements does not matter, is proved here, by         *)
(* induction on the number of elements.                                    *)
(***************************************************************************)
EXTENDS Integers, FiniteSetsExt, FiniteSetTheorems, WellFoundedInduction, TLAPS

\* The order of the numbers, as a relation.
Below == {ss \in Nat \X Nat : ss[1] < ss[2]}

\* Induction, for a set of numbers.
LEMMA Induction ==
    ASSUME NEW N, 0 \in N, \A n \in Nat : n \in N => n + 1 \in N
    PROVE  \A n \in Nat : n \in N
<1> DEFINE T == {n \in Nat : n \notin N}
<1> SUFFICES ASSUME T # {} PROVE FALSE
  OBVIOUS
<1>1. IsWellFoundedOn(Below, Nat)
  BY NatLessThanWellFounded DEF OpToRel, Below
<1>2. PICK x \in T : \A y \in T : ~ (<<y, x>> \in Below)
  BY <1>1, WFMin
<1>3. x \in Nat /\ x # 0 /\ x \notin N
  OBVIOUS
<1>4. x - 1 \in Nat /\ x - 1 < x /\ (x - 1) + 1 = x
  BY <1>3
<1>5. x - 1 \in T
  BY <1>3, <1>4
<1> QED BY <1>2, <1>3, <1>4, <1>5 DEF Below

-----------------------------------------------------------------------------
\* The element a fold takes first.
Pick(s) == CHOOSE x \in s : TRUE

\* h is the sum of g on each of the sets of D.
SumsOf(h, g, D) ==
    h = [s \in D |-> IF s = {} THEN 0 ELSE g[Pick(s)] + h[s \ {Pick(s)}]]

\* h is the sum of g on each subset of S.
SumsOn(h, g, S) == SumsOf(h, g, SUBSET S)

\* The subsets with at most n elements.
UpTo(S, n) == {s \in SUBSET S : Cardinality(s) <= n}

\* What is left after an element was taken out.
LEMMA Smaller ==
    ASSUME NEW S, IsFiniteSet(S), NEW s \in SUBSET S, NEW x \in s
    PROVE  /\ IsFiniteSet(s) /\ s \ {x} \in SUBSET S /\ IsFiniteSet(s \ {x})
           /\ Cardinality(s) \in Nat /\ Cardinality(s \ {x}) \in Nat
           /\ Cardinality(s \ {x}) = Cardinality(s) - 1
BY FS_Subset, FS_RemoveElement, FS_CardinalityType

\* Induction goes from a set to the set without an element.
LEMMA StepDown ==
    ASSUME NEW S, IsFiniteSet(S), NEW n \in Nat, NEW s \in UpTo(S, n + 1), NEW x \in s
    PROVE  s \in SUBSET S /\ s \ {x} \in UpTo(S, n)
<1>1. s \in SUBSET S /\ Cardinality(s) <= n + 1
  BY DEF UpTo
<1>2. /\ Cardinality(s) \in Nat /\ s \ {x} \in SUBSET S
      /\ Cardinality(s \ {x}) = Cardinality(s) - 1
  BY <1>1, Smaller
<1>3. Cardinality(s \ {x}) <= n
  BY <1>1, <1>2
<1> QED BY <1>1, <1>2, <1>3 DEF UpTo

\* The sums exist, on the subsets of a finite set.
LEMMA SumsExist ==
    ASSUME NEW g, NEW S, IsFiniteSet(S)
    PROVE  \E h : SumsOn(h, g, S)
<1> DEFINE N == {n \in Nat : \E h : SumsOf(h, g, UpTo(S, n))}
<1>0. \A s \in SUBSET S : IsFiniteSet(s) /\ Cardinality(s) \in Nat
                         /\ (Cardinality(s) = 0 => s = {})
  BY FS_Subset, FS_CardinalityType, FS_EmptySet
<1>1. 0 \in N
  <2> DEFINE h == [s \in UpTo(S, 0) |-> 0]
  <2>1. \A s \in UpTo(S, 0) : s = {}
    BY <1>0 DEF UpTo
  <2>2. SumsOf(h, g, UpTo(S, 0))
    BY <2>1 DEF SumsOn, SumsOf
  <2> QED BY <2>2
<1>2. ASSUME NEW n \in Nat, n \in N PROVE n + 1 \in N
  <2>1. PICK h : SumsOf(h, g, UpTo(S, n))
    BY <1>2
  <2> DEFINE k == [s \in UpTo(S, n + 1) |->
                     IF s = {} THEN 0 ELSE g[Pick(s)] + h[s \ {Pick(s)}]]
  <2>2. ASSUME NEW s \in UpTo(S, n) PROVE s \in UpTo(S, n + 1) /\ k[s] = h[s]
    <3>1. s \in UpTo(S, n + 1)
      BY <1>0 DEF UpTo
    <3> QED BY <2>1, <3>1 DEF SumsOn, SumsOf
  <2>3. ASSUME NEW s \in UpTo(S, n + 1), s # {}
        PROVE  s \ {Pick(s)} \in UpTo(S, n)
    <3>1. Pick(s) \in s
      BY <2>3 DEF Pick
    <3> QED BY <3>1, StepDown
  <2>4. SumsOf(k, g, UpTo(S, n + 1))
    <3>1. \A s \in UpTo(S, n + 1) :
             k[s] = IF s = {} THEN 0 ELSE g[Pick(s)] + k[s \ {Pick(s)}]
      BY <2>2, <2>3
    <3> HIDE DEF k
    <3>2. k = [s \in UpTo(S, n + 1) |-> k[s]]
      BY DEF k
    <3> QED BY <3>1, <3>2 DEF SumsOn, SumsOf
  <2> HIDE DEF k
  <2> QED BY <2>4
<1> HIDE DEF N
<1>3. Cardinality(S) \in N
  BY <1>1, <1>2, FS_CardinalityType, Induction
<1>4. UpTo(S, Cardinality(S)) = SUBSET S
  BY FS_Subset DEF UpTo
<1> QED BY <1>3, <1>4 DEF N, SumsOn

\* There is one sum only: two functions that are sums agree where both are.
LEMMA SumsAgree ==
    ASSUME NEW f, NEW g, NEW S, IsFiniteSet(S), NEW R \in SUBSET S,
           NEW h, NEW k, SumsOn(h, f, S), SumsOn(k, g, R),
           \A x \in R : f[x] = g[x]
    PROVE  h[R] = k[R]
<1> DEFINE N == {n \in Nat : \A s \in UpTo(R, n) : h[s] = k[s]}
<1>0. /\ IsFiniteSet(R) /\ \A s \in SUBSET R : s \in SUBSET S
      /\ \A s \in SUBSET R : IsFiniteSet(s) /\ Cardinality(s) \in Nat
                             /\ (Cardinality(s) = 0 => s = {})
  BY FS_Subset, FS_CardinalityType, FS_EmptySet
<1>e. h[{}] = 0 /\ k[{}] = 0
  BY <1>0 DEF SumsOn, SumsOf
<1>1. 0 \in N
  <2>1. ASSUME NEW s \in UpTo(R, 0) PROVE s = {}
    <3>1. s \in SUBSET R /\ Cardinality(s) <= 0
      BY DEF UpTo
    <3> HIDE DEF N
    <3> QED BY <1>0, <3>1
  <2> QED BY <1>e, <2>1
<1>2. ASSUME NEW n \in Nat, n \in N PROVE n + 1 \in N
  <2>1. ASSUME NEW s \in UpTo(R, n + 1), s # {} PROVE h[s] = k[s]
    <3> DEFINE x == Pick(s)
    <3>1. x \in s /\ x \in R /\ s \in SUBSET R
      BY <2>1 DEF Pick, UpTo
    <3>2. s \ {x} \in UpTo(R, n)
      BY <1>0, <3>1, StepDown
    <3>3. h[s \ {x}] = k[s \ {x}] /\ f[x] = g[x]
      BY <1>2, <3>1, <3>2
    <3>4. h[s] = f[x] + h[s \ {x}] /\ k[s] = g[x] + k[s \ {x}]
      BY <1>0, <2>1, <3>1 DEF SumsOn, SumsOf
    <3> QED BY <3>3, <3>4
  <2> QED BY <1>e, <2>1
<1> HIDE DEF N
<1>3. Cardinality(R) \in N
  BY <1>0, <1>1, <1>2, FS_CardinalityType, Induction
<1> QED BY <1>0, <1>3 DEF N, UpTo

\* The fold is one of these sums.
LEMMA SumIs ==
    ASSUME NEW g, NEW S, IsFiniteSet(S)
    PROVE  \E h : SumsOn(h, g, S) /\ SumFunctionOnSet(g, S) = h[S]
<1>1. SumFunctionOnSet(g, S) = (CHOOSE h : SumsOf(h, g, SUBSET S))[S]
  BY DEF SumFunctionOnSet, FoldFunctionOnSet, MapThenFoldSet, SumsOf, Pick
<1>2. \E h : SumsOf(h, g, SUBSET S)
  BY SumsExist DEF SumsOn
<1> DEFINE c == CHOOSE h : SumsOf(h, g, SUBSET S)
<1>3. SumsOf(c, g, SUBSET S)
  BY <1>2
<1>4. SumFunctionOnSet(g, S) = c[S]
  BY <1>1
<1> HIDE DEF c
<1>5. SumsOn(c, g, S)
  BY <1>3 DEF SumsOn
<1> QED BY <1>4, <1>5

\* Nothing sums up to nothing.
LEMMA SumEmpty == ASSUME NEW g PROVE SumFunctionOnSet(g, {}) = 0
<1>1. PICK h : SumsOn(h, g, {}) /\ SumFunctionOnSet(g, {}) = h[{}]
  BY SumIs, FS_EmptySet
<1> QED BY <1>1 DEF SumsOn, SumsOf

\* A sum depends on the values of its set only.
LEMMA SumSame ==
    ASSUME NEW f, NEW g, NEW S, IsFiniteSet(S), \A x \in S : f[x] = g[x]
    PROVE  SumFunctionOnSet(f, S) = SumFunctionOnSet(g, S)
<1>1. PICK h : SumsOn(h, f, S) /\ SumFunctionOnSet(f, S) = h[S]
  BY SumIs
<1>2. PICK k : SumsOn(k, g, S) /\ SumFunctionOnSet(g, S) = k[S]
  BY SumIs
<1> QED BY <1>1, <1>2, SumsAgree

\* What a fold does first.
LEMMA SumPick ==
    ASSUME NEW g, NEW S, IsFiniteSet(S), S # {}
    PROVE  /\ Pick(S) \in S
           /\ SumFunctionOnSet(g, S) = g[Pick(S)] + SumFunctionOnSet(g, S \ {Pick(S)})
<1> DEFINE x == Pick(S)
<1>1. x \in S
  BY DEF Pick
<1>2. PICK h : SumsOn(h, g, S) /\ SumFunctionOnSet(g, S) = h[S]
  BY SumIs
<1>3. IsFiniteSet(S \ {x})
  BY FS_Subset
<1>4. PICK k : SumsOn(k, g, S \ {x}) /\ SumFunctionOnSet(g, S \ {x}) = k[S \ {x}]
  BY <1>3, SumIs
<1>5. h[S \ {x}] = k[S \ {x}]
  <2> DEFINE R == S \ {x}
             f == g
  <2>1. R \in SUBSET S /\ \A z \in R : f[z] = g[z]
    OBVIOUS
  <2>2. SumsOn(h, f, S) /\ SumsOn(k, g, R)
    BY <1>2, <1>4
  <2> HIDE DEF R, f
  <2>3. h[R] = k[R]
    BY <2>1, <2>2, SumsAgree
  <2> QED BY <2>3 DEF R
<1>6. h[S] = g[x] + h[S \ {x}]
  BY <1>1, <1>2 DEF SumsOn, SumsOf
<1> QED BY <1>1, <1>2, <1>4, <1>5, <1>6

\* A sum of integers is one, and of numbers that are not negative not negative.
LEMMA SumType ==
    ASSUME NEW g, NEW S, IsFiniteSet(S), \A x \in S : g[x] \in Int
    PROVE  /\ SumFunctionOnSet(g, S) \in Int
           /\ (\A x \in S : g[x] \in Nat) => SumFunctionOnSet(g, S) \in Nat
<1> DEFINE P(s) == /\ SumFunctionOnSet(g, s) \in Int
                   /\ (\A x \in s : g[x] \in Nat) => SumFunctionOnSet(g, s) \in Nat
           N == {n \in Nat : \A s \in UpTo(S, n) : P(s)}
<1>0. \A s \in SUBSET S : IsFiniteSet(s) /\ Cardinality(s) \in Nat
                         /\ (Cardinality(s) = 0 => s = {})
  BY FS_Subset, FS_CardinalityType, FS_EmptySet
<1>1. 0 \in N
  BY <1>0, SumEmpty DEF UpTo
<1> HIDE DEF P
<1>2. ASSUME NEW n \in Nat, n \in N PROVE n + 1 \in N
  <2> USE DEF P
  <2>1. ASSUME NEW s \in UpTo(S, n + 1), s # {} PROVE P(s)
    <3> DEFINE x == Pick(s)
    <3>1. s \in SUBSET S /\ IsFiniteSet(s)
      BY <1>0 DEF UpTo
    <3>2. x \in s /\ SumFunctionOnSet(g, s) = g[x] + SumFunctionOnSet(g, s \ {x})
      BY <2>1, <3>1, SumPick
    <3>3. s \ {x} \in UpTo(S, n)
      BY <3>2, StepDown
    <3>4. P(s \ {x}) /\ g[x] \in Int
      BY <1>2, <3>1, <3>2, <3>3
    <3> HIDE DEF x
    <3> QED BY <3>2, <3>4
  <2>2. P({})
    BY SumEmpty
  <2> HIDE DEF P
  <2> QED BY <2>1, <2>2
<1> HIDE DEF N
<1>3. Cardinality(S) \in N
  BY <1>1, <1>2, FS_CardinalityType, Induction
<1> QED BY <1>0, <1>3, FS_CardinalityType DEF N, P, UpTo

\* Any element may be taken out first.
LEMMA SumWithout ==
    ASSUME NEW g, NEW S, IsFiniteSet(S), \A x \in S : g[x] \in Int, NEW y \in S
    PROVE  SumFunctionOnSet(g, S) = g[y] + SumFunctionOnSet(g, S \ {y})
<1> DEFINE N == {n \in Nat : \A s \in UpTo(S, n) : \A x \in s :
                    SumFunctionOnSet(g, s) = g[x] + SumFunctionOnSet(g, s \ {x})}
<1>0. \A s \in SUBSET S : IsFiniteSet(s) /\ Cardinality(s) \in Nat
                         /\ (Cardinality(s) = 0 => s = {})
  BY FS_Subset, FS_CardinalityType, FS_EmptySet
<1>1. 0 \in N
  BY <1>0 DEF UpTo
<1>2. ASSUME NEW n \in Nat, n \in N PROVE n + 1 \in N
  <2>1. ASSUME NEW s \in UpTo(S, n + 1), NEW x \in s
        PROVE  SumFunctionOnSet(g, s) = g[x] + SumFunctionOnSet(g, s \ {x})
    <3> DEFINE c == Pick(s)
    <3>1. s \in SUBSET S /\ IsFiniteSet(s)
      BY <1>0 DEF UpTo
    <3>2. c \in s /\ SumFunctionOnSet(g, s) = g[c] + SumFunctionOnSet(g, s \ {c})
      BY <3>1, SumPick
    <3>3. s \ {c} \in UpTo(S, n) /\ s \ {x} \in UpTo(S, n)
      BY <3>2, StepDown
    <3>4. CASE c = x
      BY <3>2, <3>4
    <3>5. CASE c # x
      <4>1. SumFunctionOnSet(g, s \ {c}) = g[x] + SumFunctionOnSet(g, (s \ {c}) \ {x})
        BY <1>2, <3>3, <3>5
      <4>2. SumFunctionOnSet(g, s \ {x}) = g[c] + SumFunctionOnSet(g, (s \ {x}) \ {c})
        BY <1>2, <3>2, <3>3, <3>5
      <4>3. (s \ {x}) \ {c} = (s \ {c}) \ {x}
        OBVIOUS
      <4>4. SumFunctionOnSet(g, (s \ {c}) \ {x}) \in Int
        <5>1. IsFiniteSet((s \ {c}) \ {x})
          BY <3>1, FS_Subset
        <5>2. \A z \in (s \ {c}) \ {x} : g[z] \in Int
          BY <3>1
        <5> QED BY <5>1, <5>2, SumType
      <4>5. g[x] \in Int /\ g[c] \in Int
        BY <3>1, <3>2
      <4>6. SumFunctionOnSet(g, (s \ {x}) \ {c}) = SumFunctionOnSet(g, (s \ {c}) \ {x})
        BY <4>3
      <4> DEFINE u == SumFunctionOnSet(g, (s \ {c}) \ {x})
      <4>7. /\ SumFunctionOnSet(g, s) = g[c] + (g[x] + u)
            /\ SumFunctionOnSet(g, s \ {x}) = g[c] + u
        BY <3>2, <4>1, <4>2, <4>6
      <4> HIDE DEF c, u
      <4>8. g[c] + (g[x] + u) = g[x] + (g[c] + u)
        BY <4>4, <4>5 DEF u
      <4> QED BY <4>7, <4>8
    <3> QED BY <3>4, <3>5
  <2> QED BY <2>1
<1> HIDE DEF N
<1>3. Cardinality(S) \in N
  BY <1>1, <1>2, FS_CardinalityType, Induction
<1> QED BY <1>0, <1>3, FS_CardinalityType DEF N, UpTo

\* One more element.
LEMMA SumWith ==
    ASSUME NEW g, NEW S, IsFiniteSet(S), \A x \in S : g[x] \in Int, NEW y, y \notin S,
           g[y] \in Int
    PROVE  SumFunctionOnSet(g, S \cup {y}) = g[y] + SumFunctionOnSet(g, S)
<1>1. IsFiniteSet(S \cup {y}) /\ (S \cup {y}) \ {y} = S
  BY FS_AddElement
<1>2. \A x \in S \cup {y} : g[x] \in Int
  OBVIOUS
<1> QED BY <1>1, <1>2, SumWithout

\* What a set has of one element's value.
Share(g, S, x) == IF x \in S THEN g[x] ELSE 0

\* A sum without an element is less by what the element had in it.
LEMMA SumApart ==
    ASSUME NEW g, NEW S, IsFiniteSet(S), \A z \in S : g[z] \in Int, NEW x
    PROVE  /\ IsFiniteSet(S \ {x})
           /\ SumFunctionOnSet(g, S \ {x}) \in Int
           /\ SumFunctionOnSet(g, S) = Share(g, S, x) + SumFunctionOnSet(g, S \ {x})
<1>1. IsFiniteSet(S \ {x})
  BY FS_Subset
<1>2. SumFunctionOnSet(g, S \ {x}) \in Int
  BY <1>1, SumType
<1>3. CASE x \in S
  BY <1>1, <1>2, <1>3, SumWithout DEF Share
<1>4. CASE x \notin S
  <2>1. S \ {x} = S
    BY <1>4
  <2>2. SumFunctionOnSet(g, S) = SumFunctionOnSet(g, S \ {x})
    BY <2>1
  <2> DEFINE u == SumFunctionOnSet(g, S \ {x})
  <2> HIDE DEF u
  <2>3. u = 0 + u
    BY <1>2 DEF u
  <2> QED BY <1>1, <1>2, <1>4, <2>2, <2>3 DEF Share, u
<1> QED BY <1>3, <1>4

\* One element comes, goes or changes its value.
LEMMA SumMoves ==
    ASSUME NEW f, NEW g, NEW S, NEW T, IsFiniteSet(S), IsFiniteSet(T), NEW x,
           S \ {x} = T \ {x}, \A z \in S : f[z] \in Int, \A z \in T : g[z] \in Int,
           \A z \in S \ {x} : f[z] = g[z]
    PROVE  /\ SumFunctionOnSet(f, S) \in Int /\ SumFunctionOnSet(g, T) \in Int
           /\ SumFunctionOnSet(g, T)
                = SumFunctionOnSet(f, S) + Share(g, T, x) - Share(f, S, x)
<1> DEFINE R == S \ {x}
           a == SumFunctionOnSet(f, S)
           b == SumFunctionOnSet(g, T)
           u == SumFunctionOnSet(f, R)
           v == SumFunctionOnSet(g, R)
<1>1. IsFiniteSet(R) /\ u \in Int /\ a = Share(f, S, x) + u
  <2>1. /\ IsFiniteSet(S \ {x}) /\ SumFunctionOnSet(f, S \ {x}) \in Int
        /\ SumFunctionOnSet(f, S) = Share(f, S, x) + SumFunctionOnSet(f, S \ {x})
    <3> DEFINE h == f
    <3>1. \A z \in S : h[z] \in Int
      OBVIOUS
    <3> HIDE DEF h
    <3>2. /\ IsFiniteSet(S \ {x}) /\ SumFunctionOnSet(h, S \ {x}) \in Int
          /\ SumFunctionOnSet(h, S) = Share(h, S, x) + SumFunctionOnSet(h, S \ {x})
      BY <3>1, SumApart
    <3> QED BY <3>2 DEF h
  <2> QED BY <2>1
<1>2. v \in Int /\ b = Share(g, T, x) + v
  <2>1. /\ SumFunctionOnSet(g, T \ {x}) \in Int
        /\ b = Share(g, T, x) + SumFunctionOnSet(g, T \ {x})
    BY SumApart
  <2> QED BY <2>1
<1>3. u = v
  BY <1>1, SumSame
<1>4. Share(f, S, x) \in Int /\ Share(g, T, x) \in Int
  BY DEF Share
<1> HIDE DEF R, a, b, u, v
<1>5. a \in Int /\ b \in Int /\ b = a + Share(g, T, x) - Share(f, S, x)
  BY <1>1, <1>2, <1>3, <1>4
<1> QED BY <1>5 DEF a, b
\* The elements of A that m keeps are moved into B, and nothing else in B is negative.
Moves(m, K, g, A, B) ==
    /\ \A s \in A : s \in K => m[s] \in B
    /\ \A t \in B : g[t] \in Nat \/ \E s \in A : s \in K /\ m[s] = t

\* A sum does not fall when some elements are moved to where they are worth as much or
\* more, each to a place of its own, when those that go were worth nothing or less, and
\* those that come are worth nothing or more.
LEMMA SumGrows ==
    ASSUME NEW f, NEW g, NEW m, NEW K, NEW S, NEW T, IsFiniteSet(S), IsFiniteSet(T),
           \A s \in S : f[s] \in Int, \A t \in T : g[t] \in Int,
           \A s \in S : IF s \in K THEN f[s] <= g[m[s]] ELSE f[s] <= 0,
           \A r, s \in S : r \in K /\ s \in K /\ m[r] = m[s] => r = s,
           Moves(m, K, g, S, T)
    PROVE  SumFunctionOnSet(f, S) <= SumFunctionOnSet(g, T)
<1> DEFINE N == {n \in Nat : \A A \in UpTo(S, n) : \A B \in SUBSET T :
                    Moves(m, K, g, A, B) =>
                        SumFunctionOnSet(f, A) <= SumFunctionOnSet(g, B)}
<1>0. \A s \in SUBSET S : IsFiniteSet(s) /\ Cardinality(s) \in Nat
                         /\ (Cardinality(s) = 0 => s = {})
  BY FS_Subset, FS_CardinalityType, FS_EmptySet
<1>1. ASSUME NEW B \in SUBSET T, Moves(m, K, g, {}, B)
      PROVE  SumFunctionOnSet(f, {}) <= SumFunctionOnSet(g, B)
  <2>1. IsFiniteSet(B) /\ \A t \in B : g[t] \in Int /\ g[t] \in Nat
    BY <1>1, FS_Subset DEF Moves
  <2>2. SumFunctionOnSet(g, B) \in Nat
    BY <2>1, SumType
  <2> QED BY <2>2, SumEmpty
<1>2. 0 \in N
  BY <1>0, <1>1 DEF UpTo
<1>3. ASSUME NEW n \in Nat, n \in N PROVE n + 1 \in N
  <2>1. ASSUME NEW A \in UpTo(S, n + 1), A # {}, NEW B \in SUBSET T, Moves(m, K, g, A, B)
        PROVE  SumFunctionOnSet(f, A) <= SumFunctionOnSet(g, B)
    <3>1. A \in SUBSET S /\ IsFiniteSet(A) /\ IsFiniteSet(B)
      BY <1>0, FS_Subset DEF UpTo
    <3>2. PICK y : y \in A
      BY <2>1
    <3> DEFINE C == A \ {y}
               D == IF y \in K THEN B \ {m[y]} ELSE B
               a == SumFunctionOnSet(f, A)
               c == SumFunctionOnSet(f, C)
               b == SumFunctionOnSet(g, B)
               d == SumFunctionOnSet(g, D)
               u == f[y]
               v == IF y \in K THEN g[m[y]] ELSE 0
    <3>3. C \in UpTo(S, n) /\ C \in SUBSET S /\ D \in SUBSET T /\ IsFiniteSet(C) /\ IsFiniteSet(D)
      BY <1>0, <3>1, <3>2, StepDown, FS_Subset
    <3>4. Moves(m, K, g, C, D)
      <4>1. \A s \in C : s \in K => m[s] \in D
        BY <2>1, <3>1, <3>2 DEF Moves
      <4>2. \A t \in D : g[t] \in Nat \/ \E s \in C : s \in K /\ m[s] = t
        BY <2>1, <3>1, <3>2 DEF Moves
      <4> QED BY <4>1, <4>2 DEF Moves
    <3>5. c <= d
      BY <1>3, <3>3, <3>4
    <3>6. a = u + c /\ u \in Int
      BY <3>1, <3>2, SumWithout
    <3>7. b = v + d /\ v \in Int /\ u <= v
      <4>1. CASE y \in K
        <5>1. m[y] \in B /\ u <= g[m[y]]
          BY <2>1, <3>1, <3>2, <4>1 DEF Moves
        <5>2. \A t \in B : g[t] \in Int
          OBVIOUS
        <5>3. SumFunctionOnSet(g, B) = g[m[y]] + SumFunctionOnSet(g, B \ {m[y]})
          BY <3>1, <5>1, <5>2, SumWithout
        <5> QED BY <4>1, <5>1, <5>2, <5>3
      <4>2. CASE y \notin K
        <5>1. u <= 0 /\ SumFunctionOnSet(g, B) \in Int
          BY <3>1, <3>2, <4>2, SumType
        <5> QED BY <4>2, <5>1
      <4> QED BY <4>1, <4>2
    <3>8. c \in Int /\ d \in Int
      <4>1. \A s \in C : f[s] \in Int
        BY <3>3
      <4>2. \A t \in D : g[t] \in Int
        BY <3>3
      <4> HIDE DEF C, D
      <4> QED BY <3>3, <4>1, <4>2, SumType
    <3> HIDE DEF a, b, c, d, u, v
    <3>9. a <= b
      BY <3>5, <3>6, <3>7, <3>8
    <3> QED BY <3>9 DEF a, b
  <2>2. ASSUME NEW A \in UpTo(S, n + 1), NEW B \in SUBSET T, Moves(m, K, g, A, B)
        PROVE  SumFunctionOnSet(f, A) <= SumFunctionOnSet(g, B)
    <3>1. CASE A = {}
      BY <1>1, <2>2, <3>1
    <3>2. CASE A # {}
      BY <2>1, <2>2, <3>2
    <3> QED BY <3>1, <3>2
  <2> QED BY <2>2
<1> HIDE DEF N
<1>4. Cardinality(S) \in N
  BY <1>2, <1>3, FS_CardinalityType, Induction
<1>5. S \in UpTo(S, Cardinality(S)) /\ Cardinality(S) \in Nat
  BY FS_CardinalityType DEF UpTo
<1> QED BY <1>4, <1>5 DEF N

=============================================================================
