----------------------------- MODULE PagesProofs -----------------------------
(***************************************************************************)
(* Theorems about Pages, for any number of players, properties, changes    *)
(* and breaks: its types, and what a page that missed nothing shows of the *)
(* turn and of the properties, of the player's hand and of the start       *)
(* bonus.                                                                  *)
(***************************************************************************)
EXTENDS Pages, Sums

Abouts == Deeds \cup {"turn"}

About(a) == {m \in Message : m.about = a}

-----------------------------------------------------------------------------
(* Turns and their holders. *)

LEMMA Constants ==
    /\ N \in Nat /\ N > 1 /\ IsFiniteSet(Deeds) /\ NoDeed \notin Deeds
    /\ "turn" \notin Deeds /\ "claim" \notin Deeds /\ NoDeed # "turn"
    /\ MaxChanges \in Nat /\ MaxLevel \in Nat /\ MaxBreaks \in Nat
BY PagesAssumption

LEMMA HolderIsPlayer == \A t \in Nat : Holder(t) \in Players
<1> SUFFICES ASSUME NEW t \in Nat PROVE Holder(t) \in Players
  OBVIOUS
<1>1. t % N \in 0 .. N - 1
  BY Constants
<1> QED BY <1>1, Constants DEF Holder, Players

\* Nobody passes the turn to oneself.
LEMMA HolderMoves == \A t \in Nat : Holder(t + 1) # Holder(t)
<1> SUFFICES ASSUME NEW t \in Nat, Holder(t + 1) = Holder(t) PROVE FALSE
  OBVIOUS
<1> DEFINE q == t \div N  r == t % N  k == (t + 1) \div N  s == (t + 1) % N
<1>1. /\ q \in Int /\ k \in Int /\ r \in Int /\ s \in Int
      /\ t = N * q + r /\ t + 1 = N * k + s
  BY Constants
<1>2. r = s
  BY <1>1 DEF Holder
<1>3. N * (k - q) = 1
  <2> HIDE DEF q, r, k, s
  <2>1. N * k - N * q = 1
    BY <1>1, <1>2, Constants
  <2>2. N * (k - q) = N * k - N * q
    BY <1>1, Constants
  <2> QED BY <2>1, <2>2
<1> DEFINE z == k - q
<1>4. z \in Int
  BY <1>1
<1> HIDE DEF z
<1>5. CASE z <= 0
  <2>1. N * z <= 0
    BY <1>4, <1>5, Constants
  <2> QED BY <1>3, <2>1 DEF z
<1>6. CASE z >= 1
  <2>1. N * z >= N
    BY <1>4, <1>6, Constants
  <2> QED BY <1>3, <2>1, Constants DEF z
<1> QED BY <1>4, <1>5, <1>6

-----------------------------------------------------------------------------
(* Sequences of messages: a message comes to the end, and leaves from anywhere. *)

\* The place of a message before the one at i was removed.
Before(k, i) == IF k < i THEN k ELSE k + 1

LEMMA Appended ==
    ASSUME NEW S, NEW s \in Seq(S), NEW e \in S
    PROVE  /\ Append(s, e) \in Seq(S)
           /\ Len(s) \in Nat /\ DOMAIN s = 1 .. Len(s)
           /\ DOMAIN Append(s, e) = 1 .. Len(s) + 1
           /\ \A k \in DOMAIN s : Append(s, e)[k] = s[k]
           /\ Append(s, e)[Len(s) + 1] = e
OBVIOUS

LEMMA Removed ==
    ASSUME NEW S, NEW s \in Seq(S), NEW i \in DOMAIN s
    PROVE  /\ RemoveAt(s, i) \in Seq(S)
           /\ i \in Nat /\ DOMAIN s \subseteq Nat
           /\ \A k \in DOMAIN RemoveAt(s, i) :
                 /\ k \in Nat /\ Before(k, i) \in DOMAIN s \ {i}
                 /\ RemoveAt(s, i)[k] = s[Before(k, i)]
           /\ \A j \in DOMAIN s \ {i} :
                 \E k \in DOMAIN RemoveAt(s, i) : Before(k, i) = j
<1> DEFINE a == SubSeq(s, 1, i - 1)  b == SubSeq(s, i + 1, Len(s))
<1>1. /\ Len(s) \in Nat /\ DOMAIN s = 1 .. Len(s) /\ i \in 1 .. Len(s)
  OBVIOUS
<1>2. /\ a \in Seq(S) /\ Len(a) = i - 1 /\ \A k \in 1 .. i - 1 : a[k] = s[k]
  BY <1>1
<1>3. /\ b \in Seq(S) /\ Len(b) = Len(s) - i
      /\ \A k \in 1 .. Len(s) - i : b[k] = s[i + k]
  BY <1>1
<1> HIDE DEF a, b
<1>4. /\ a \o b \in Seq(S) /\ Len(a \o b) = Len(a) + Len(b)
      /\ \A k \in 1 .. Len(a) + Len(b) :
            (a \o b)[k] = IF k <= Len(a) THEN a[k] ELSE b[k - Len(a)]
  BY <1>2, <1>3
<1> DEFINE r == a \o b
<1>7. RemoveAt(s, i) = r
  BY DEF RemoveAt, a, b
<1>8. r \in Seq(S)
  BY <1>4
<1>r. /\ Len(r) = Len(a) + Len(b)
      /\ \A k \in 1 .. Len(a) + Len(b) : r[k] = IF k <= Len(a) THEN a[k] ELSE b[k - Len(a)]
  BY <1>4
<1> HIDE DEF r
<1>l. Len(a) = i - 1 /\ Len(b) = Len(s) - i /\ Len(r) = Len(s) - 1 /\ Len(s) \in Nat
  BY <1>1, <1>2, <1>3, <1>r
<1>5. DOMAIN r = 1 .. Len(s) - 1
  BY <1>8, <1>l
<1>6. ASSUME NEW k \in 1 .. Len(s) - 1 PROVE r[k] = s[Before(k, i)]
  <2>1. CASE k < i
    BY <1>1, <1>2, <1>l, <1>r, <2>1 DEF Before
  <2>2. CASE ~(k < i)
    <3>1. r[k] = b[k - (i - 1)]
      BY <1>1, <1>l, <1>r, <2>2
    <3>2. k - (i - 1) \in 1 .. Len(s) - i /\ i + (k - (i - 1)) = k + 1
      BY <1>1, <1>l, <2>2
    <3> QED BY <1>3, <2>2, <3>1, <3>2 DEF Before
  <2> QED BY <2>1, <2>2
<1>9. ASSUME NEW j \in DOMAIN s \ {i} PROVE \E k \in DOMAIN r : Before(k, i) = j
  <2>1. CASE j < i
    <3>1. j \in DOMAIN r /\ Before(j, i) = j
      BY <1>1, <1>5, <2>1 DEF Before
    <3> QED BY <3>1
  <2>2. CASE j > i
    <3>1. j - 1 \in DOMAIN r /\ Before(j - 1, i) = j
      BY <1>1, <1>5, <2>2 DEF Before
    <3> QED BY <3>1
  <2> QED BY <1>1, <2>1, <2>2
<1> QED BY <1>1, <1>5, <1>6, <1>7, <1>8, <1>9 DEF Before

\* The first message leaves.
LEMMA HeadRemoved ==
    ASSUME NEW S, NEW s \in Seq(S), s # <<>>
    PROVE  /\ Tail(s) \in Seq(S) /\ Head(s) \in S /\ Head(s) = s[1] /\ 1 \in DOMAIN s
           /\ DOMAIN s \subseteq Nat
           /\ \A k \in DOMAIN Tail(s) :
                 k \in Nat /\ k + 1 \in DOMAIN s /\ Tail(s)[k] = s[k + 1]
           /\ \A j \in DOMAIN s \ {1} : j - 1 \in DOMAIN Tail(s)
OBVIOUS

\* Whether a message of M is among s, and the last one that is.
Has(s, M)    == \E i \in DOMAIN s : s[i] \in M
IsLatest(s, M, i) == i \in DOMAIN s /\ s[i] \in M /\ \A j \in DOMAIN s : s[j] \in M => j <= i
Latest(s, M) == s[CHOOSE i \in DOMAIN s : IsLatest(s, M, i)]

LEMMA LatestIs ==
    ASSUME NEW S, NEW s \in Seq(S), NEW M, NEW i, IsLatest(s, M, i)
    PROVE  Latest(s, M) = s[i] /\ Has(s, M)
<1> DEFINE c == CHOOSE j \in DOMAIN s : IsLatest(s, M, j)
<1>1. IsLatest(s, M, c)
  BY DEF IsLatest
<1>2. DOMAIN s \subseteq Nat
  OBVIOUS
<1> HIDE DEF c
<1>3. c <= i /\ i <= c /\ c \in Nat /\ i \in Nat
  BY <1>1, <1>2 DEF IsLatest
<1>4. c = i
  BY <1>3
<1> QED BY <1>4 DEF Latest, Has, IsLatest, c

LEMMA LatestExists ==
    ASSUME NEW S, NEW s \in Seq(S), NEW M, Has(s, M)
    PROVE  \E i : IsLatest(s, M, i)
<1> DEFINE P == {n \in Nat : (\E i \in DOMAIN s : s[i] \in M /\ Len(s) - i <= n)
                               => \E i : IsLatest(s, M, i)}
<1>0. Len(s) \in Nat /\ DOMAIN s = 1 .. Len(s)
  OBVIOUS
<1>1. 0 \in P
  BY <1>0 DEF IsLatest
<1>2. ASSUME NEW n \in Nat, n \in P PROVE n + 1 \in P
  <2> SUFFICES ASSUME NEW i \in DOMAIN s, s[i] \in M, Len(s) - i <= n + 1
               PROVE  \E j : IsLatest(s, M, j)
    OBVIOUS
  <2>1. CASE \E j \in DOMAIN s : s[j] \in M /\ j > i
    <3>1. PICK j \in DOMAIN s : s[j] \in M /\ j > i
      BY <2>1
    <3>2. Len(s) - j <= n
      BY <1>0, <3>1
    <3> QED BY <1>2, <3>1, <3>2
  <2>2. CASE \A j \in DOMAIN s : s[j] \in M => ~(j > i)
    <3>1. IsLatest(s, M, i)
      BY <1>0, <2>2 DEF IsLatest
    <3> QED BY <3>1
  <2> QED BY <2>1, <2>2
<1> HIDE DEF P
<1>3. \A n \in Nat : n \in P
  BY <1>1, <1>2, Induction
<1>4. PICK i \in DOMAIN s : s[i] \in M
  BY DEF Has
<1>5. Len(s) - i \in Nat
  BY <1>0
<1>6. Len(s) - i \in P
  BY <1>3, <1>5
<1> QED BY <1>0, <1>4, <1>5, <1>6 DEF P

LEMMA LatestIn ==
    ASSUME NEW S, NEW s \in Seq(S), NEW M, Has(s, M)
    PROVE  Latest(s, M) \in M /\ Latest(s, M) \in S
<1>1. PICK i : IsLatest(s, M, i)
  BY LatestExists
<1>2. Latest(s, M) = s[i]
  BY <1>1, LatestIs
<1> QED BY <1>1, <1>2 DEF IsLatest

LEMMA LatestAppended ==
    ASSUME NEW S, NEW s \in Seq(S), NEW m \in S, NEW M
    PROVE  /\ Has(Append(s, m), M) <=> Has(s, M) \/ m \in M
           /\ m \in M => Latest(Append(s, m), M) = m
           /\ m \notin M /\ Has(s, M) => Latest(Append(s, m), M) = Latest(s, M)
<1> DEFINE r == Append(s, m)
<1>1. /\ r \in Seq(S) /\ Len(s) \in Nat /\ DOMAIN s = 1 .. Len(s)
      /\ DOMAIN r = 1 .. Len(s) + 1
      /\ \A k \in DOMAIN s : r[k] = s[k]
      /\ r[Len(s) + 1] = m
  BY Appended
<1> HIDE DEF r
<1>2. Has(r, M) <=> Has(s, M) \/ m \in M
  BY <1>1 DEF Has
<1>3. ASSUME m \in M PROVE Latest(r, M) = m
  <2>1. IsLatest(r, M, Len(s) + 1)
    BY <1>1, <1>3 DEF IsLatest
  <2> QED BY <1>1, <2>1, LatestIs
<1>4. ASSUME m \notin M, Has(s, M) PROVE Latest(r, M) = Latest(s, M)
  <2>1. PICK i : IsLatest(s, M, i)
    BY <1>4, LatestExists
  <2>2. IsLatest(r, M, i)
    BY <1>1, <1>4, <2>1 DEF IsLatest
  <2>3. Latest(r, M) = r[i]
    BY <1>1, <2>2, LatestIs
  <2>4. Latest(s, M) = s[i]
    BY <2>1, LatestIs
  <2> QED BY <1>1, <2>1, <2>3, <2>4 DEF IsLatest
<1> QED BY <1>2, <1>3, <1>4 DEF r

\* A message that leaves, the first of its kind.
LEMMA LatestRemoved ==
    ASSUME NEW S, NEW s \in Seq(S), NEW i \in DOMAIN s, NEW M,
           \A j \in DOMAIN s : s[i] \in M /\ s[j] \in M => i <= j
    PROVE  /\ Has(RemoveAt(s, i), M) => Has(s, M)
           /\ Has(RemoveAt(s, i), M) => Latest(RemoveAt(s, i), M) = Latest(s, M)
           /\ s[i] \notin M /\ Has(s, M) => Has(RemoveAt(s, i), M)
           /\ s[i] \in M /\ ~Has(RemoveAt(s, i), M) => Latest(s, M) = s[i]
<1> DEFINE r == RemoveAt(s, i)
<1>1. /\ r \in Seq(S) /\ i \in Nat /\ DOMAIN s \subseteq Nat
      /\ \A k \in DOMAIN r : /\ k \in Nat /\ Before(k, i) \in DOMAIN s \ {i}
                              /\ r[k] = s[Before(k, i)]
      /\ \A j \in DOMAIN s \ {i} : \E k \in DOMAIN r : Before(k, i) = j
  BY Removed
<1> HIDE DEF r
<1>2. Has(r, M) => Has(s, M)
  BY <1>1 DEF Has
<1>3. s[i] \notin M /\ Has(s, M) => Has(r, M)
  BY <1>1 DEF Has
<1>4. ASSUME s[i] \in M, ~Has(r, M) PROVE Latest(s, M) = s[i]
  <2>1. \A j \in DOMAIN s \ {i} : s[j] \notin M
    BY <1>1, <1>4 DEF Has
  <2>2. IsLatest(s, M, i)
    BY <1>1, <1>4, <2>1 DEF IsLatest
  <2> QED BY <2>2, LatestIs
<1>5. ASSUME Has(r, M) PROVE Latest(r, M) = Latest(s, M)
  <2>1. PICK k : IsLatest(r, M, k)
    BY <1>1, <1>5, LatestExists
  <2> DEFINE b == Before(k, i)
  <2>2. /\ k \in DOMAIN r /\ k \in Nat /\ b \in DOMAIN s /\ b # i /\ r[k] = s[b] /\ s[b] \in M
    BY <1>1, <2>1 DEF IsLatest
  <2>3. ASSUME NEW j \in DOMAIN s, s[j] \in M PROVE j <= b
    <3>1. CASE j = i
      BY <1>1, <2>2, <2>3, <3>1
    <3>2. CASE j # i
      <4>1. PICK l \in DOMAIN r : Before(l, i) = j
        BY <1>1, <3>2
      <4>2. l <= k /\ l \in Nat
        BY <1>1, <2>1, <2>3, <4>1 DEF IsLatest
      <4> QED BY <1>1, <2>2, <4>1, <4>2 DEF Before
    <3> QED BY <3>1, <3>2
  <2>4. IsLatest(s, M, b)
    BY <2>2, <2>3 DEF IsLatest
  <2>5. Latest(s, M) = s[b]
    BY <2>4, LatestIs
  <2>6. Latest(r, M) = r[k]
    BY <1>1, <2>1, LatestIs
  <2> QED BY <2>2, <2>5, <2>6
<1> QED BY <1>2, <1>3, <1>4, <1>5 DEF r

\* The first message of all leaves.
LEMMA LatestTail ==
    ASSUME NEW S, NEW s \in Seq(S), s # <<>>, NEW M
    PROVE  /\ Has(Tail(s), M) => Has(s, M)
           /\ Has(Tail(s), M) => Latest(Tail(s), M) = Latest(s, M)
           /\ Head(s) \notin M /\ Has(s, M) => Has(Tail(s), M)
           /\ Head(s) \in M => Has(s, M)
           /\ Head(s) \in M /\ ~Has(Tail(s), M) => Latest(s, M) = Head(s)
<1> DEFINE r == Tail(s)
<1>1. /\ r \in Seq(S) /\ Head(s) = s[1] /\ 1 \in DOMAIN s /\ DOMAIN s \subseteq Nat
      /\ \A k \in DOMAIN r : k \in Nat /\ k + 1 \in DOMAIN s /\ r[k] = s[k + 1]
      /\ \A j \in DOMAIN s \ {1} : j - 1 \in DOMAIN r
  BY HeadRemoved
<1>0. \A j \in DOMAIN s : j \in Nat /\ 1 <= j
  OBVIOUS
<1> HIDE DEF r
<1>2. Has(r, M) => Has(s, M)
  BY <1>1 DEF Has
<1>a. \A j \in DOMAIN s \ {1} : r[j - 1] = s[j]
  BY <1>0, <1>1
<1>3. s[1] \notin M /\ Has(s, M) => Has(r, M)
  BY <1>1, <1>a DEF Has
<1>4. ASSUME s[1] \in M, ~Has(r, M) PROVE Latest(s, M) = s[1]
  <2>1. \A j \in DOMAIN s \ {1} : s[j] \notin M
    BY <1>1, <1>4, <1>a DEF Has
  <2>2. IsLatest(s, M, 1)
    BY <1>1, <1>4, <2>1 DEF IsLatest
  <2> QED BY <2>2, LatestIs
<1>5. ASSUME Has(r, M) PROVE Latest(r, M) = Latest(s, M)
  <2>1. PICK k : IsLatest(r, M, k)
    BY <1>1, <1>5, LatestExists
  <2>2. /\ k \in DOMAIN r /\ k \in Nat /\ k + 1 \in DOMAIN s /\ r[k] = s[k + 1] /\ s[k + 1] \in M
    BY <1>1, <2>1 DEF IsLatest
  <2>3. ASSUME NEW j \in DOMAIN s, s[j] \in M PROVE j <= k + 1
    <3>1. CASE j = 1
      BY <2>2, <3>1
    <3>2. CASE j # 1
      <4>1. j - 1 \in DOMAIN r /\ r[j - 1] \in M
        BY <1>1, <1>a, <2>3, <3>2
      <4>2. j - 1 <= k
        BY <2>1, <4>1 DEF IsLatest
      <4> QED BY <1>0, <2>2, <4>2
    <3> QED BY <3>1, <3>2
  <2>4. IsLatest(s, M, k + 1)
    BY <2>2, <2>3 DEF IsLatest
  <2>5. Latest(s, M) = s[k + 1]
    BY <2>4, LatestIs
  <2>6. Latest(r, M) = r[k]
    BY <1>1, <2>1, LatestIs
  <2> QED BY <2>2, <2>5, <2>6
<1>6. s[1] \in M => Has(s, M)
  BY <1>1 DEF Has
<1> QED BY <1>1, <1>2, <1>3, <1>4, <1>5, <1>6 DEF r

-----------------------------------------------------------------------------
(* FoldLeft, step by step.  A fold is a recursive function on the sets of   *)
(* places, hence a CHOOSE; its values on 1 .. k are those of a loop.        *)

LEMMA MaxOfPlaces ==
    ASSUME NEW n \in Nat
    PROVE  \A s \in SUBSET (1 .. n) : s # {} => Max(s) \in s /\ \A y \in s : Max(s) >= y
<1> DEFINE P == {k \in Nat : \A s \in SUBSET (1 .. k) : s # {} =>
                               \E x \in s : \A y \in s : x >= y}
<1>1. 0 \in P
  <2>1. 1 .. 0 = {}
    OBVIOUS
  <2> QED BY <2>1
<1>2. ASSUME NEW k \in Nat, k \in P PROVE k + 1 \in P
  <2> SUFFICES ASSUME NEW s \in SUBSET (1 .. k + 1), s # {}
               PROVE  \E x \in s : \A y \in s : x >= y
    OBVIOUS
  <2>1. CASE k + 1 \in s
    BY <2>1
  <2>2. CASE k + 1 \notin s
    <3>1. s \in SUBSET (1 .. k)
      BY <2>2
    <3> QED BY <1>2, <3>1
  <2> QED BY <2>1, <2>2
<1> HIDE DEF P
<1>3. n \in P
  BY <1>1, <1>2, Induction
<1> QED BY <1>3 DEF P, Max

\* All sets of places of q, folded with F.
FoldsOf(h, F, base, q) ==
    h = [s \in SUBSET (DOMAIN q) |->
            IF s = {} THEN base ELSE F[<<h[s \ {Max(s)}], q[Max(s)]>>]]

PartFold(h, k, X, F, base, q) ==
    /\ h \in [SUBSET (1 .. k) -> X]
    /\ \A s \in SUBSET (1 .. k) :
          h[s] = IF s = {} THEN base ELSE F[<<h[s \ {Max(s)}], q[Max(s)]>>]

LEMMA WithoutMax ==
    ASSUME NEW k \in Nat, NEW s \in SUBSET (1 .. k + 1), s # {}
    PROVE  Max(s) \in 1 .. k + 1 /\ s \ {Max(s)} \in SUBSET (1 .. k)
<1> DEFINE x == Max(s)
<1>1. k + 1 \in Nat
  OBVIOUS
<1>2. x \in s /\ \A y \in s : x >= y
  BY <1>1, MaxOfPlaces
<1> HIDE DEF x
<1>3. ASSUME NEW y \in s, y # x PROVE y \in 1 .. k
  <2>1. x \in 1 .. k + 1 /\ y \in 1 .. k + 1 /\ x >= y
    BY <1>2
  <2> QED BY <1>3, <2>1
<1>4. x \in 1 .. k + 1 /\ s \ {x} \in SUBSET (1 .. k)
  BY <1>2, <1>3
<1> QED BY <1>4 DEF x

LEMMA FoldGrows ==
    ASSUME NEW E, NEW q \in Seq(E), NEW X, NEW base \in X, NEW F \in [X \X E -> X],
           NEW k \in Nat, k + 1 <= Len(q), NEW h, PartFold(h, k, X, F, base, q)
    PROVE  \E g : PartFold(g, k + 1, X, F, base, q)
<1> DEFINE g == [s \in SUBSET (1 .. k + 1) |->
                   IF s = {} THEN base ELSE F[<<h[s \ {Max(s)}], q[Max(s)]>>]]
<1>0. \A i \in 1 .. k + 1 : q[i] \in E
  OBVIOUS
<1>1. /\ h \in [SUBSET (1 .. k) -> X]
      /\ \A s \in SUBSET (1 .. k) :
            h[s] = IF s = {} THEN base ELSE F[<<h[s \ {Max(s)}], q[Max(s)]>>]
  BY DEF PartFold
<1>2. ASSUME NEW s \in SUBSET (1 .. k) PROVE s \in SUBSET (1 .. k + 1) /\ g[s] = h[s]
  <2>1. s \in SUBSET (1 .. k + 1)
    OBVIOUS
  <2> QED BY <1>1, <2>1
<1>3. ASSUME NEW s \in SUBSET (1 .. k + 1)
      PROVE  /\ g[s] \in X
             /\ g[s] = IF s = {} THEN base ELSE F[<<g[s \ {Max(s)}], q[Max(s)]>>]
  <2>1. CASE s = {}
    BY <2>1
  <2>2. CASE s # {}
    <3>1. Max(s) \in 1 .. k + 1 /\ s \ {Max(s)} \in SUBSET (1 .. k)
      BY <2>2, WithoutMax
    <3>2. /\ g[s \ {Max(s)}] = h[s \ {Max(s)}] /\ h[s \ {Max(s)}] \in X
          /\ q[Max(s)] \in E
      BY <1>0, <1>1, <1>2, <3>1
    <3>3. g[s] = F[<<h[s \ {Max(s)}], q[Max(s)]>>]
      BY <2>2
    <3> QED BY <2>2, <3>2, <3>3
  <2> QED BY <2>1, <2>2
<1>4. DOMAIN g = SUBSET (1 .. k + 1) /\ g = [s \in SUBSET (1 .. k + 1) |-> g[s]]
  OBVIOUS
<1> HIDE DEF g
<1>5. g \in [SUBSET (1 .. k + 1) -> X]
  BY <1>3, <1>4
<1>6. PartFold(g, k + 1, X, F, base, q)
  BY <1>3, <1>5 DEF PartFold
<1> QED BY <1>6

LEMMA FoldsExist ==
    ASSUME NEW E, NEW q \in Seq(E), NEW X, NEW base \in X, NEW F \in [X \X E -> X]
    PROVE  \E h \in [SUBSET (DOMAIN q) -> X] : FoldsOf(h, F, base, q)
<1> DEFINE P == {k \in Nat : k <= Len(q) => \E h : PartFold(h, k, X, F, base, q)}
<1>0. /\ Len(q) \in Nat /\ DOMAIN q = 1 .. Len(q)
  OBVIOUS
<1>1. 0 \in P
  <2>1. 1 .. 0 = {} /\ SUBSET {} = {{}}
    OBVIOUS
  <2>2. PartFold([s \in SUBSET (1 .. 0) |-> base], 0, X, F, base, q)
    BY <2>1 DEF PartFold
  <2> QED BY <2>2
<1>2. ASSUME NEW k \in Nat, k \in P PROVE k + 1 \in P
  <2>1. ASSUME k + 1 <= Len(q) PROVE \E h : PartFold(h, k + 1, X, F, base, q)
    <3>1. PICK h : PartFold(h, k, X, F, base, q)
      BY <1>0, <1>2, <2>1
    <3> QED BY <2>1, <3>1, FoldGrows
  <2> QED BY <2>1
<1> HIDE DEF P
<1>3. Len(q) \in P
  BY <1>0, <1>1, <1>2, Induction
<1>4. PICK h : PartFold(h, Len(q), X, F, base, q)
  BY <1>0, <1>3 DEF P
<1>5. /\ h \in [SUBSET (1 .. Len(q)) -> X]
      /\ h = [s \in SUBSET (1 .. Len(q)) |-> h[s]]
      /\ \A s \in SUBSET (1 .. Len(q)) :
            h[s] = IF s = {} THEN base ELSE F[<<h[s \ {Max(s)}], q[Max(s)]>>]
  BY <1>4 DEF PartFold
<1>6. h = [s \in SUBSET (1 .. Len(q)) |->
              IF s = {} THEN base ELSE F[<<h[s \ {Max(s)}], q[Max(s)]>>]]
  BY <1>5
<1> QED BY <1>0, <1>5, <1>6 DEF FoldsOf

\* The loop takes one place after the other.
LEMMA PlacesBelow ==
    ASSUME NEW k \in Nat
    PROVE  /\ 1 .. k + 1 # {} /\ Max(1 .. k + 1) = k + 1
           /\ (1 .. k + 1) \ {k + 1} = 1 .. k
<1>1. 1 .. k + 1 # {} /\ k + 1 \in 1 .. k + 1
  OBVIOUS
<1>2. Max(1 .. k + 1) \in 1 .. k + 1 /\ Max(1 .. k + 1) >= k + 1
  <2>1. k + 1 \in Nat
    OBVIOUS
  <2>2. \A s \in SUBSET (1 .. k + 1) : s # {} => Max(s) \in s /\ \A y \in s : Max(s) >= y
    BY <2>1, MaxOfPlaces
  <2> QED BY <1>1, <2>2
<1> QED BY <1>1, <1>2

Copies == [Deeds -> Card]

\* Positions are of the cards on a page.
LEMMA HandIsFinite ==
    ASSUME NEW c, NEW p
    PROVE  IsFiniteSet(Hand(c, p)) /\ Cardinality(Hand(c, p)) \in Nat
BY Constants, FS_Subset, FS_CardinalityType DEF Hand

LEMMA ClosedType ==
    ASSUME NEW c \in Copies, NEW p \in Players, NEW pos \in Nat
    PROVE  Closed(c, p, pos) \in Copies
<1> USE DEF Copies
<1>1. ASSUME NEW d \in Deeds, c[d].position > pos
      PROVE  [c[d] EXCEPT !.position = @ - 1] \in Card
  BY <1>1 DEF Card
<1> QED BY <1>1 DEF Closed

\* Closing a gap moves cards, not owners or capacities.
LEMMA ClosedKeeps ==
    ASSUME NEW c \in Copies, NEW p \in Players, NEW pos \in Nat, NEW d \in Deeds
    PROVE  Closed(c, p, pos)[d].owner = c[d].owner /\ Closed(c, p, pos)[d].level = c[d].level
BY DEF Closed, Copies, Card

\* repositionProperties, as a loop: t[k] is the copy after k rounds.
RoundsOf(h, c, p, q) ==
    h = [s \in SUBSET (DOMAIN q) |->
            IF s = {} THEN c ELSE Closed(h[s \ {Max(s)}], p, q[Max(s)] - 1)]

LEMMA RepositionedIs ==
    ASSUME NEW c \in Copies, NEW p \in Players
    PROVE  \E t \in [0 .. Cardinality(Hand(c, p)) -> Copies] :
              /\ t[0] = c
              /\ \A k \in 1 .. Cardinality(Hand(c, p)) : t[k] = Closed(t[k - 1], p, k - 1)
              /\ Repositioned(c, p) = t[Cardinality(Hand(c, p))]
<1> DEFINE n == Cardinality(Hand(c, p))
           q == [i \in 1 .. n |-> i]
<1>0. n \in Nat
  BY HandIsFinite
<1>1. Repositioned(c, p) = (CHOOSE h : RoundsOf(h, c, p, q))[DOMAIN q]
  BY DEF Repositioned, FoldLeft, MapThenFoldSet, RoundsOf
<1>2. q \in Seq(1 .. n) /\ DOMAIN q = 1 .. n /\ \A i \in 1 .. n : q[i] = i
  BY <1>0
<1> HIDE DEF n, q
<1> DEFINE F == [z \in Copies \X (1 .. n) |-> Closed(z[1], p, z[2] - 1)]
<1>3. F \in [Copies \X (1 .. n) -> Copies]
  <2>1. ASSUME NEW z \in Copies \X (1 .. n) PROVE Closed(z[1], p, z[2] - 1) \in Copies
    <3>1. z[1] \in Copies /\ z[2] - 1 \in Nat
      BY <1>0
    <3> QED BY <3>1, ClosedType
  <2> QED BY <2>1
<1>4. PICK h \in [SUBSET (DOMAIN q) -> Copies] : FoldsOf(h, F, c, q)
  BY <1>2, <1>3, FoldsExist
<1>5. RoundsOf(h, c, p, q)
  <2>1. ASSUME NEW s \in SUBSET (DOMAIN q), s # {}
        PROVE  F[<<h[s \ {Max(s)}], q[Max(s)]>>] = Closed(h[s \ {Max(s)}], p, q[Max(s)] - 1)
    <3>1. Max(s) \in 1 .. n /\ s \ {Max(s)} \in SUBSET (DOMAIN q)
      BY <1>0, <1>2, <2>1, MaxOfPlaces
    <3>2. h[s \ {Max(s)}] \in Copies /\ q[Max(s)] \in 1 .. n
      BY <1>2, <1>4, <3>1
    <3> QED BY <3>2
  <2> HIDE DEF F
  <2> QED BY <1>4, <2>1 DEF FoldsOf, RoundsOf
<1> DEFINE g == CHOOSE h_1 : RoundsOf(h_1, c, p, q)
<1>6. RoundsOf(g, c, p, q)
  BY <1>5
<1>7. Repositioned(c, p) = g[1 .. n]
  BY <1>1, <1>2
<1> HIDE DEF g
<1> DEFINE t == [k \in 0 .. n |-> g[1 .. k]]
<1>8. ASSUME NEW k \in Nat, k <= n PROVE 1 .. k \in SUBSET (DOMAIN q)
  BY <1>0, <1>2, <1>8
<1>9. g[1 .. 0] = c
  <2>1. 1 .. 0 = {} /\ 1 .. 0 \in SUBSET (DOMAIN q)
    BY <1>0, <1>8
  <2> QED BY <1>6, <2>1 DEF RoundsOf
<1>10. ASSUME NEW k \in Nat, k + 1 <= n PROVE g[1 .. k + 1] = Closed(g[1 .. k], p, k)
  <2>1. 1 .. k + 1 \in SUBSET (DOMAIN q) /\ q[k + 1] = k + 1 /\ (k + 1) - 1 = k
    BY <1>0, <1>2, <1>8, <1>10
  <2>2. g[1 .. k + 1] = Closed(g[(1 .. k + 1) \ {Max(1 .. k + 1)}], p, q[Max(1 .. k + 1)] - 1)
    BY <1>6, <2>1, PlacesBelow DEF RoundsOf
  <2>3. (1 .. k + 1) \ {Max(1 .. k + 1)} = 1 .. k /\ q[Max(1 .. k + 1)] - 1 = k
    BY <2>1, PlacesBelow
  <2> QED BY <2>2, <2>3
<1>11. \A k \in Nat : k <= n => g[1 .. k] \in Copies
  <2> DEFINE P == {k \in Nat : k <= n => g[1 .. k] \in Copies}
  <2>1. 0 \in P
    BY <1>9
  <2>2. ASSUME NEW k \in Nat, k \in P PROVE k + 1 \in P
    BY <1>0, <1>10, <2>2, ClosedType
  <2> HIDE DEF P
  <2>3. \A k \in Nat : k \in P
    BY <2>1, <2>2, Induction
  <2> QED BY <2>3 DEF P
<1>12. t \in [0 .. n -> Copies] /\ t[0] = c /\ t[n] = g[1 .. n]
  BY <1>0, <1>9, <1>11
<1>13. ASSUME NEW k \in 1 .. n PROVE t[k] = Closed(t[k - 1], p, k - 1)
  <2>1. k - 1 \in Nat /\ (k - 1) + 1 = k /\ k <= n /\ k \in 0 .. n /\ k - 1 \in 0 .. n
    BY <1>0
  <2>2. g[1 .. (k - 1) + 1] = Closed(g[1 .. k - 1], p, k - 1)
    BY <1>10, <2>1
  <2> QED BY <2>1, <2>2
<1> HIDE DEF t
<1> QED BY <1>7, <1>12, <1>13 DEF n

LEMMA RepositionedKeeps ==
    ASSUME NEW c \in Copies, NEW p \in Players
    PROVE  /\ Repositioned(c, p) \in Copies
           /\ \A d \in Deeds : /\ Repositioned(c, p)[d].owner = c[d].owner
                              /\ Repositioned(c, p)[d].level = c[d].level
<1> DEFINE n == Cardinality(Hand(c, p))
<1>0. n \in Nat
  BY HandIsFinite
<1>1. PICK t \in [0 .. n -> Copies] :
         /\ t[0] = c /\ \A k \in 1 .. n : t[k] = Closed(t[k - 1], p, k - 1)
         /\ Repositioned(c, p) = t[n]
  BY RepositionedIs
<1> HIDE DEF n
<1> DEFINE P == {k \in Nat : k <= n => \A d \in Deeds : /\ t[k][d].owner = c[d].owner
                                                    /\ t[k][d].level = c[d].level}
<1>2. 0 \in P
  BY <1>1
<1>3. ASSUME NEW k \in Nat, k \in P PROVE k + 1 \in P
  <2> SUFFICES ASSUME k + 1 <= n, NEW d \in Deeds
               PROVE  t[k + 1][d].owner = c[d].owner /\ t[k + 1][d].level = c[d].level
    OBVIOUS
  <2>1. k + 1 \in 1 .. n /\ k \in 0 .. n /\ (k + 1) - 1 = k /\ k <= n
    BY <1>0
  <2>2. t[k + 1] = Closed(t[k], p, k) /\ t[k] \in Copies
    BY <1>1, <2>1
  <2>3. t[k][d].owner = c[d].owner /\ t[k][d].level = c[d].level
    BY <1>3, <2>1
  <2> HIDE DEF P
  <2> QED BY <2>2, <2>3, ClosedKeeps
<1> HIDE DEF P
<1>4. n \in P
  BY <1>0, <1>2, <1>3, Induction
<1>5. n \in 0 .. n
  BY <1>0
<1> QED BY <1>1, <1>4, <1>5 DEF P

-----------------------------------------------------------------------------
(* The hand: cards lie one on the other, or all but one gap. *)

Apart(c, p)   == \A d, e \in Hand(c, p) : c[d].position = c[e].position => d = e
Stacked(c, p) == Apart(c, p) /\ Positions(c, p) = 0 .. Cardinality(Hand(c, p)) - 1

\* The one position up to the number of cards that is empty is k.
Gapped(c, p, k) == /\ Apart(c, p) /\ k \in 0 .. Cardinality(Hand(c, p))
                   /\ Positions(c, p) = (0 .. Cardinality(Hand(c, p))) \ {k}

\* The cards above the gap come down.
Lowered(c, p, k) ==
    [d \in Deeds |-> IF c[d].owner = p /\ c[d].position > k
                     THEN [c[d] EXCEPT !.position = @ - 1] ELSE c[d]]

LEMMA LoweredIs ==
    ASSUME NEW c \in Copies, NEW p \in Players, NEW k \in Nat
    PROVE  /\ Lowered(c, p, k) \in Copies
           /\ Hand(Lowered(c, p, k), p) = Hand(c, p)
           /\ \A d \in Hand(c, p) : /\ c[d].position \in Nat
                 /\ Lowered(c, p, k)[d].position =
                       IF c[d].position > k THEN c[d].position - 1 ELSE c[d].position
<1>1. ASSUME NEW d \in Deeds
      PROVE  /\ c[d] \in Card /\ c[d].position \in Nat
             /\ Lowered(c, p, k)[d] \in Card
             /\ Lowered(c, p, k)[d].owner = c[d].owner
             /\ c[d].owner = p => Lowered(c, p, k)[d].position =
                   IF c[d].position > k THEN c[d].position - 1 ELSE c[d].position
  <2>1. c[d] \in Card
    BY DEF Copies
  <2>2. CASE c[d].owner = p /\ c[d].position > k
    <3>1. Lowered(c, p, k)[d] = [c[d] EXCEPT !.position = @ - 1]
      BY <2>2 DEF Lowered
    <3> QED BY <2>1, <2>2, <3>1 DEF Card
  <2>3. CASE ~(c[d].owner = p /\ c[d].position > k)
    <3>1. Lowered(c, p, k)[d] = c[d]
      BY <2>3 DEF Lowered
    <3> QED BY <2>1, <2>3, <3>1 DEF Card
  <2> QED BY <2>2, <2>3
<1>2. DOMAIN Lowered(c, p, k) = Deeds /\ Lowered(c, p, k) = [d \in Deeds |-> Lowered(c, p, k)[d]]
  BY DEF Lowered
<1>3. Lowered(c, p, k) \in Copies
  BY <1>1, <1>2 DEF Copies
<1>4. Hand(Lowered(c, p, k), p) = Hand(c, p)
  BY <1>1 DEF Hand
<1> QED BY <1>1, <1>3, <1>4 DEF Hand

\* The loop of repositionProperties closes the gap.
LEMMA GapCloses ==
    ASSUME NEW c \in Copies, NEW p \in Players, NEW k, Gapped(c, p, k)
    PROVE  Stacked(Repositioned(c, p), p)
<1> DEFINE n == Cardinality(Hand(c, p))
           low == Lowered(c, p, k)
<1>0. n \in Nat /\ k \in Nat /\ k <= n
  BY HandIsFinite DEF Gapped
<1>1. PICK t \in [0 .. n -> Copies] :
         /\ t[0] = c /\ \A i \in 1 .. n : t[i] = Closed(t[i - 1], p, i - 1)
         /\ Repositioned(c, p) = t[n]
  BY RepositionedIs
<1>2. /\ low \in Copies /\ Hand(low, p) = Hand(c, p)
      /\ \A d \in Hand(c, p) : /\ c[d].position \in Nat
            /\ low[d].position = IF c[d].position > k THEN c[d].position - 1 ELSE c[d].position
  BY <1>0, LoweredIs
<1>3. Positions(c, p) = (0 .. n) \ {k} /\ Apart(c, p)
  BY DEF Gapped
<1>4. \A x : x \in Positions(c, p) <=> \E d \in Hand(c, p) : c[d].position = x
  BY DEF Positions
<1>5. \A x : x \in Positions(low, p) <=> \E d \in Hand(c, p) : low[d].position = x
  BY <1>2 DEF Positions
<1>c. Closed(c, p, k) = low
  BY <1>3 DEF Closed, Lowered
<1> HIDE DEF n, low
<1>6. Positions(low, p) = 0 .. n - 1
  <2>1. ASSUME NEW x \in Positions(low, p) PROVE x \in 0 .. n - 1
    <3>1. PICK d \in Hand(c, p) : low[d].position = x
      BY <1>5
    <3>2. c[d].position \in (0 .. n) \ {k}
      BY <1>3, <1>4
    <3> QED BY <1>0, <1>2, <3>1, <3>2
  <2>2. ASSUME NEW x \in 0 .. n - 1 PROVE x \in Positions(low, p)
    <3> DEFINE y == IF x < k THEN x ELSE x + 1
    <3>1. y \in (0 .. n) \ {k}
      BY <1>0
    <3>2. PICK d \in Hand(c, p) : c[d].position = y
      BY <1>3, <1>4, <3>1
    <3>3. low[d].position = x
      BY <1>0, <1>2, <3>2
    <3> QED BY <1>5, <3>3
  <2> QED BY <2>1, <2>2
<1>7. Apart(low, p)
  <2> SUFFICES ASSUME NEW d \in Hand(c, p), NEW e \in Hand(c, p),
                      low[d].position = low[e].position
               PROVE  d = e
    BY <1>2 DEF Apart
  <2>1. c[d].position # k /\ c[e].position # k
    BY <1>3, <1>4
  <2>2. c[d].position = c[e].position
    BY <1>0, <1>2, <2>1
  <2> QED BY <1>3, <2>2 DEF Apart
<1> DEFINE P == {i \in Nat : i <= n => t[i] = IF i <= k THEN c ELSE low}
<1>8. 0 \in P
  BY <1>0, <1>1
<1>9. ASSUME NEW i \in Nat, i \in P PROVE i + 1 \in P
  <2> SUFFICES ASSUME i + 1 <= n PROVE t[i + 1] = IF i + 1 <= k THEN c ELSE low
    OBVIOUS
  <2>1. i + 1 \in 1 .. n /\ (i + 1) - 1 = i /\ i <= n
    BY <1>0
  <2>2. t[i + 1] = Closed(t[i], p, i)
    BY <1>1, <2>1
  <2>3. t[i] = IF i <= k THEN c ELSE low
    BY <1>9, <2>1
  <2> HIDE DEF P
  <2>4. CASE i < k
    <3>1. i \in Positions(c, p)
      BY <1>0, <1>3, <2>1, <2>4
    <3> QED BY <1>0, <2>2, <2>3, <2>4, <3>1 DEF Closed
  <2>5. CASE i = k
    BY <1>0, <1>c, <2>2, <2>3, <2>5
  <2>6. CASE i > k
    <3>1. i \in Positions(low, p)
      BY <1>0, <1>6, <2>1
    <3> QED BY <1>0, <2>2, <2>3, <2>6, <3>1 DEF Closed
  <2> QED BY <1>0, <2>4, <2>5, <2>6
<1> HIDE DEF P
<1>10. n \in P
  BY <1>0, <1>8, <1>9, Induction
<1>11. Repositioned(c, p) = IF n <= k THEN c ELSE low
  BY <1>0, <1>1, <1>10 DEF P
<1>12. CASE n <= k
  <2>1. k = n /\ (0 .. n) \ {k} = 0 .. n - 1
    BY <1>0, <1>12
  <2> QED BY <1>3, <1>11, <1>12, <2>1 DEF Stacked, n
<1>13. CASE ~(n <= k)
  BY <1>2, <1>6, <1>7, <1>11, <1>13 DEF Stacked, n
<1> QED BY <1>12, <1>13

LEMMA StackedIsGapped ==
    ASSUME NEW c, NEW p, Stacked(c, p)
    PROVE  Gapped(c, p, Cardinality(Hand(c, p)))
<1>1. Cardinality(Hand(c, p)) \in Nat
  BY HandIsFinite
<1> DEFINE n == Cardinality(Hand(c, p))
<1>2. Positions(c, p) = 0 .. n - 1 /\ Apart(c, p)
  BY DEF Stacked
<1> HIDE DEF n
<1>3. n \in 0 .. n /\ 0 .. n - 1 = (0 .. n) \ {n}
  BY <1>1 DEF n
<1> QED BY <1>2, <1>3 DEF Gapped, n

\* updateGameProperties takes at most one card from the hand, or puts one on top.
LEMMA UpdatedIs ==
    ASSUME NEW c \in Copies, NEW p \in Players, NEW d \in Deeds,
           NEW owner \in Players, NEW level \in Nat
    PROVE  /\ Updated(c, p, d, owner, level) \in Copies
           /\ Updated(c, p, d, owner, level)[d].owner = owner
           /\ Updated(c, p, d, owner, level)[d].level = level
           /\ Updated(c, p, d, owner, level)[d].position =
                  IF owner # p THEN 0
                  ELSE IF c[d].owner = p THEN c[d].position ELSE Cardinality(Hand(c, p))
           /\ \A e \in Deeds \ {d} : Updated(c, p, d, owner, level)[e] = c[e]
BY HandIsFinite DEF Updated, Copies, Card

\* A card that was not in the hand goes on top of it, or elsewhere.
LEMMA UpdatedTops ==
    ASSUME NEW c \in Copies, NEW p \in Players, NEW d \in Deeds,
           NEW owner \in Players, NEW level \in Nat, Stacked(c, p), d \notin Hand(c, p)
    PROVE  Stacked(Updated(c, p, d, owner, level), p)
<1> DEFINE u == Updated(c, p, d, owner, level)
           n == Cardinality(Hand(c, p))
<1>1. /\ u \in Copies /\ u[d].owner = owner
      /\ u[d].position = IF owner # p THEN 0
                         ELSE IF c[d].owner = p THEN c[d].position ELSE n
      /\ \A e \in Deeds \ {d} : u[e] = c[e]
  BY UpdatedIs
<1>2. /\ n \in Nat /\ IsFiniteSet(Hand(c, p))
      /\ Apart(c, p) /\ Positions(c, p) = 0 .. n - 1
  BY HandIsFinite DEF Stacked
<1>3. /\ \A x : x \in Positions(c, p) <=> \E e \in Hand(c, p) : c[e].position = x
      /\ \A x : x \in Positions(u, p) <=> \E e \in Hand(u, p) : u[e].position = x
      /\ \A e : e \in Hand(c, p) <=> e \in Deeds /\ c[e].owner = p
      /\ \A e : e \in Hand(u, p) <=> e \in Deeds /\ u[e].owner = p
  BY DEF Positions, Hand
<1> HIDE DEF u, n
<1>4. CASE owner # p
  <2>1. Hand(u, p) = Hand(c, p) /\ \A e \in Hand(c, p) : u[e].position = c[e].position
    BY <1>1, <1>3, <1>4
  <2>2. Apart(u, p)
    BY <1>2, <2>1 DEF Apart
  <2>3. Positions(u, p) = Positions(c, p)
    BY <2>1 DEF Positions
  <2>4. Stacked(u, p)
    BY <1>2, <2>1, <2>2, <2>3 DEF Stacked, n
  <2> QED BY <2>4 DEF u
<1>6. CASE owner = p
  <2>1. /\ Hand(u, p) = Hand(c, p) \cup {d} /\ u[d].position = n
        /\ \A e \in Hand(c, p) : u[e].position = c[e].position
    BY <1>1, <1>3, <1>6
  <2>2. Cardinality(Hand(u, p)) = n + 1
    BY <1>2, <1>6, <2>1, FS_AddElement DEF n
  <2>3. \A e \in Hand(c, p) : u[e].position \in 0 .. n - 1
    BY <1>2, <1>3, <2>1
  <2>4. Apart(u, p)
    <3>1. ASSUME NEW e \in Hand(u, p), NEW f \in Hand(u, p), u[e].position = u[f].position
          PROVE  e = f
      <4>1. CASE e = d
        BY <1>2, <2>1, <2>3, <3>1, <4>1
      <4>2. CASE f = d
        BY <1>2, <2>1, <2>3, <3>1, <4>2
      <4>3. CASE e # d /\ f # d
        BY <1>2, <2>1, <3>1, <4>3 DEF Apart
      <4> QED BY <4>1, <4>2, <4>3
    <3> QED BY <3>1 DEF Apart
  <2>5. Positions(u, p) = 0 .. n
    <3>1. ASSUME NEW x \in Positions(u, p) PROVE x \in 0 .. n
      BY <1>2, <1>3, <2>1, <2>3
    <3>2. ASSUME NEW x \in 0 .. n PROVE x \in Positions(u, p)
      <4>1. CASE x = n
        BY <1>3, <2>1, <4>1
      <4>2. CASE x # n
        <5>1. x \in 0 .. n - 1
          BY <1>2, <4>2
        <5>2. PICK e \in Hand(c, p) : c[e].position = x
          BY <1>2, <1>3, <5>1
        <5> QED BY <1>3, <2>1, <5>2
      <4> QED BY <4>1, <4>2
    <3> QED BY <3>1, <3>2
  <2>6. 0 .. Cardinality(Hand(u, p)) - 1 = 0 .. n
    BY <1>2, <2>2
  <2>7. Stacked(u, p)
    BY <2>4, <2>5, <2>6 DEF Stacked
  <2> QED BY <2>7 DEF u
<1> QED BY <1>4, <1>6

LEMMA UpdatedStacks ==
    ASSUME NEW c \in Copies, NEW p \in Players, NEW d \in Deeds,
           NEW owner \in Players, NEW level \in Nat, Stacked(c, p)
    PROVE  \E k : Gapped(Updated(c, p, d, owner, level), p, k)
<1> DEFINE u == Updated(c, p, d, owner, level)
           n == Cardinality(Hand(c, p))
<1>1. /\ u \in Copies /\ u[d].owner = owner
      /\ u[d].position = IF owner # p THEN 0
                         ELSE IF c[d].owner = p THEN c[d].position ELSE n
      /\ \A e \in Deeds \ {d} : u[e] = c[e]
  BY UpdatedIs
<1>2. /\ n \in Nat /\ IsFiniteSet(Hand(c, p))
      /\ Apart(c, p) /\ Positions(c, p) = 0 .. n - 1
  BY HandIsFinite DEF Stacked
<1>3. /\ \A x : x \in Positions(c, p) <=> \E e \in Hand(c, p) : c[e].position = x
      /\ \A x : x \in Positions(u, p) <=> \E e \in Hand(u, p) : u[e].position = x
      /\ \A e : e \in Hand(c, p) <=> e \in Deeds /\ c[e].owner = p
      /\ \A e : e \in Hand(u, p) <=> e \in Deeds /\ u[e].owner = p
  BY DEF Positions, Hand
<1> HIDE DEF u, n
<1>4. CASE owner = p /\ d \in Hand(c, p)
  <2>a. \A e \in Deeds : u[e].owner = p <=> c[e].owner = p
    BY <1>1, <1>3, <1>4
  <2>b. Hand(u, p) = Hand(c, p)
    BY <1>3, <2>a
  <2>1. Hand(u, p) = Hand(c, p) /\ \A e \in Hand(c, p) : u[e].position = c[e].position
    BY <1>1, <1>3, <1>4, <2>b
  <2>2. Apart(u, p)
    BY <1>2, <2>1 DEF Apart
  <2>3. Positions(u, p) = Positions(c, p)
    BY <2>1 DEF Positions
  <2>4. Stacked(u, p)
    BY <1>2, <2>1, <2>2, <2>3 DEF Stacked, n
  <2> QED BY <2>4, StackedIsGapped DEF u
<1>5. CASE owner # p /\ d \in Hand(c, p)
  <2> DEFINE k == c[d].position
  <2>1. Hand(u, p) = Hand(c, p) \ {d} /\ \A e \in Hand(u, p) : u[e].position = c[e].position
    BY <1>1, <1>3, <1>5
  <2>2. Cardinality(Hand(u, p)) = n - 1
    BY <1>2, <1>5, <2>1, FS_RemoveElement DEF n
  <2>3. k \in 0 .. n - 1
    BY <1>2, <1>3, <1>5
  <2>4. Apart(u, p)
    BY <1>2, <2>1 DEF Apart
  <2>5. Positions(u, p) = (0 .. n - 1) \ {k}
    BY <1>2, <1>3, <1>5, <2>1 DEF Apart
  <2> QED BY <2>2, <2>3, <2>4, <2>5 DEF Gapped, u
<1>6. CASE d \notin Hand(c, p)
  BY <1>6, UpdatedTops, StackedIsGapped DEF u
<1> QED BY <1>4, <1>5, <1>6

-----------------------------------------------------------------------------
(* The properties table, and what a load makes of it. *)

\* RowsOf and RowOf, of any table.
RowsIn(R, d)  == {i \in DOMAIN R : R[i].deed = d}
FirstIn(R, d) == R[CHOOSE i \in RowsIn(R, d) : \A j \in RowsIn(R, d) : i <= j]

LEMMA RowsAre ==
    \A d : RowsOf(d) = RowsIn(rows, d) /\ RowOf(d) = FirstIn(rows, d)
BY DEF RowsOf, RowsIn, RowOf, FirstIn

LEMMA FirstPlace ==
    ASSUME NEW R \in Seq(Row), NEW d \in Deeds, RowsIn(R, d) # {}
    PROVE  \E i \in RowsIn(R, d) : \A j \in RowsIn(R, d) : i <= j
<1> DEFINE P == {n \in Nat : (\E i \in RowsIn(R, d) : i <= n)
                               => \E i \in RowsIn(R, d) : \A j \in RowsIn(R, d) : i <= j}
<1>0. DOMAIN R = 1 .. Len(R) /\ Len(R) \in Nat
  OBVIOUS
<1>1. RowsIn(R, d) \subseteq 1 .. Len(R)
  BY <1>0 DEF RowsIn
<1>2. 0 \in P
  BY <1>0, <1>1
<1>3. ASSUME NEW n \in Nat, n \in P PROVE n + 1 \in P
  <2> SUFFICES ASSUME NEW i \in RowsIn(R, d), i <= n + 1
               PROVE  \E l \in RowsIn(R, d) : \A j \in RowsIn(R, d) : l <= j
    OBVIOUS
  <2>1. CASE \E l \in RowsIn(R, d) : l < i
    <3>1. PICK l \in RowsIn(R, d) : l < i
      BY <2>1
    <3>2. l <= n
      BY <1>0, <1>1, <3>1
    <3> QED BY <1>3, <3>2
  <2>2. CASE \A l \in RowsIn(R, d) : ~(l < i)
    BY <1>0, <1>1, <2>2
  <2> QED BY <2>1, <2>2
<1> HIDE DEF P
<1>4. \A n \in Nat : n \in P
  BY <1>2, <1>3, Induction
<1> QED BY <1>0, <1>1, <1>4 DEF P

LEMMA FirstIs ==
    ASSUME NEW R \in Seq(Row), NEW d \in Deeds, NEW i \in RowsIn(R, d),
           \A j \in RowsIn(R, d) : i <= j
    PROVE  FirstIn(R, d) = R[i]
<1> DEFINE k == CHOOSE n \in RowsIn(R, d) : \A j \in RowsIn(R, d) : n <= j
<1>1. k \in RowsIn(R, d) /\ \A j \in RowsIn(R, d) : k <= j
  OBVIOUS
<1>2. k \in Nat /\ i \in Nat
  BY <1>1 DEF RowsIn
<1>3. k <= i /\ i <= k
  BY <1>1
<1>4. FirstIn(R, d) = R[k]
  BY DEF FirstIn
<1> HIDE DEF k
<1> QED BY <1>2, <1>3, <1>4

Once(d) == \A i, j \in RowsOf(d) : i = j

LEMMA FirstRow ==
    ASSUME rows \in Seq(Row), NEW d \in Deeds, RowsOf(d) # {}
    PROVE  /\ RowOf(d) \in Row
           /\ \E i \in RowsOf(d) : RowOf(d) = rows[i] /\ \A j \in RowsOf(d) : i <= j
<1> DEFINE R == rows
<1>1. RowsOf(d) = RowsIn(R, d) /\ RowOf(d) = FirstIn(R, d) /\ R \in Seq(Row)
  BY RowsAre
<1> HIDE DEF R
<1>2. PICK i \in RowsIn(R, d) : \A j \in RowsIn(R, d) : i <= j
  BY <1>1, FirstPlace
<1>3. FirstIn(R, d) = R[i] /\ i \in DOMAIN R
  BY <1>1, <1>2, FirstIs DEF RowsIn
<1> QED BY <1>1, <1>2, <1>3 DEF R

LEMMA OnlyRow ==
    ASSUME rows \in Seq(Row), NEW d \in Deeds, NEW i \in RowsOf(d), Once(d)
    PROVE  RowOf(d) = rows[i]
BY FirstRow DEF Once

LEMMA RowSeen ==
    ASSUME NEW x \in Copies, NEW p \in Players, NEW r \in Row, NEW u,
           u = Updated(x, p, r.deed, r.owner, r.level)
    PROVE  /\ u \in Copies /\ r.deed \in Deeds
           /\ u[r.deed].owner = r.owner /\ u[r.deed].level = r.level
           /\ \A e \in Deeds \ {r.deed} : u[e] = x[e]
<1> DEFINE d == r.deed  o == r.owner  l == r.level
<1>1. d \in Deeds /\ o \in Players /\ l \in Nat /\ u = Updated(x, p, d, o, l)
  BY DEF Row
<1> HIDE DEF d, o, l
<1> DEFINE v == Updated(x, p, d, o, l)
<1>2. /\ v \in Copies /\ v[d].owner = o /\ v[d].level = l
      /\ \A e \in Deeds \ {d} : v[e] = x[e]
  BY <1>1, UpdatedIs
<1> QED BY <1>1, <1>2 DEF d, o, l

\* fetchProperties, as a loop over the rows.
SeenOf(h, c, p) ==
    h = [s \in SUBSET (DOMAIN rows) |->
            IF s = {} THEN c
            ELSE Updated(h[s \ {Max(s)}], p, rows[Max(s)].deed, rows[Max(s)].owner,
                         rows[Max(s)].level)]

LEMMA FetchedIs ==
    ASSUME rows \in Seq(Row), NEW c \in Copies, NEW p \in Players
    PROVE  \E t \in [0 .. Len(rows) -> Copies] :
              /\ t[0] = c
              /\ \A k \in 1 .. Len(rows) :
                    t[k] = Updated(t[k - 1], p, rows[k].deed, rows[k].owner, rows[k].level)
              /\ Fetched(c, p) = Repositioned(t[Len(rows)], p)
<1> DEFINE n == Len(rows)
<1>0. n \in Nat /\ DOMAIN rows = 1 .. n /\ \A i \in 1 .. n : rows[i] \in Row
  OBVIOUS
<1>1. Fetched(c, p) = Repositioned((CHOOSE h : SeenOf(h, c, p))[DOMAIN rows], p)
  BY DEF Fetched, FoldLeft, MapThenFoldSet, SeenOf
<1> HIDE DEF n
<1> DEFINE F == [z \in Copies \X Row |-> Updated(z[1], p, z[2].deed, z[2].owner, z[2].level)]
<1>2. ASSUME NEW x \in Copies, NEW r \in Row
      PROVE  Updated(x, p, r.deed, r.owner, r.level) \in Copies
  <2>1. r.deed \in Deeds /\ r.owner \in Players /\ r.level \in Nat
    BY DEF Row
  <2> QED BY <2>1, UpdatedIs
<1>3. F \in [Copies \X Row -> Copies]
  <2>1. ASSUME NEW z \in Copies \X Row
        PROVE  Updated(z[1], p, z[2].deed, z[2].owner, z[2].level) \in Copies
    BY <1>2
  <2> QED BY <2>1
<1>4. PICK h \in [SUBSET (DOMAIN rows) -> Copies] : FoldsOf(h, F, c, rows)
  BY <1>3, FoldsExist
<1>5. SeenOf(h, c, p)
  <2>1. ASSUME NEW s \in SUBSET (DOMAIN rows), s # {}
        PROVE  F[<<h[s \ {Max(s)}], rows[Max(s)]>>] =
               Updated(h[s \ {Max(s)}], p, rows[Max(s)].deed, rows[Max(s)].owner,
                       rows[Max(s)].level)
    <3>1. Max(s) \in 1 .. n /\ s \ {Max(s)} \in SUBSET (DOMAIN rows)
      BY <1>0, <2>1, MaxOfPlaces
    <3>2. h[s \ {Max(s)}] \in Copies /\ rows[Max(s)] \in Row
      BY <1>0, <1>4, <3>1
    <3> QED BY <3>2
  <2> HIDE DEF F
  <2> QED BY <1>4, <2>1 DEF FoldsOf, SeenOf
<1> DEFINE g == CHOOSE h_1 : SeenOf(h_1, c, p)
<1>6. SeenOf(g, c, p)
  BY <1>5
<1>7. Fetched(c, p) = Repositioned(g[1 .. n], p)
  BY <1>0, <1>1
<1> HIDE DEF g
<1> DEFINE t == [k \in 0 .. n |-> g[1 .. k]]
<1>8. ASSUME NEW k \in Nat, k <= n PROVE 1 .. k \in SUBSET (DOMAIN rows)
  BY <1>0, <1>8
<1>9. g[1 .. 0] = c
  <2>1. 1 .. 0 = {} /\ 1 .. 0 \in SUBSET (DOMAIN rows)
    BY <1>0, <1>8
  <2> QED BY <1>6, <2>1 DEF SeenOf
<1>10. ASSUME NEW k \in Nat, k + 1 <= n
       PROVE  g[1 .. k + 1] = Updated(g[1 .. k], p, rows[k + 1].deed, rows[k + 1].owner,
                                      rows[k + 1].level)
  <2>1. 1 .. k + 1 \in SUBSET (DOMAIN rows)
    BY <1>0, <1>8, <1>10
  <2> DEFINE s == 1 .. k + 1
  <2>2. s # {} /\ Max(s) = k + 1 /\ s \ {k + 1} = 1 .. k
    BY PlacesBelow
  <2> HIDE DEF s
  <2>3. g[s] = Updated(g[s \ {Max(s)}], p, rows[Max(s)].deed, rows[Max(s)].owner,
                       rows[Max(s)].level)
    BY <1>6, <2>1, <2>2 DEF SeenOf, s
  <2> QED BY <2>2, <2>3 DEF s
<1>11. \A k \in Nat : k <= n => g[1 .. k] \in Copies
  <2> DEFINE P == {k \in Nat : k <= n => g[1 .. k] \in Copies}
  <2>1. 0 \in P
    BY <1>9
  <2>2. ASSUME NEW k \in Nat, k \in P PROVE k + 1 \in P
    <3>1. ASSUME k + 1 <= n PROVE g[1 .. k + 1] \in Copies
      <4>1. g[1 .. k] \in Copies /\ rows[k + 1] \in Row
        BY <1>0, <2>2, <3>1
      <4> QED BY <1>2, <1>10, <3>1, <4>1
    <3> QED BY <3>1
  <2> HIDE DEF P
  <2>3. \A k \in Nat : k \in P
    BY <2>1, <2>2, Induction
  <2> QED BY <2>3 DEF P
<1>12. t \in [0 .. n -> Copies] /\ t[0] = c /\ t[n] = g[1 .. n]
  BY <1>0, <1>9, <1>11
<1>13. ASSUME NEW k \in 1 .. n
       PROVE  t[k] = Updated(t[k - 1], p, rows[k].deed, rows[k].owner, rows[k].level)
  <2>1. k - 1 \in Nat /\ (k - 1) + 1 = k /\ k <= n /\ k \in 0 .. n /\ k - 1 \in 0 .. n
    BY <1>0
  <2> DEFINE j == k - 1
  <2>2. g[1 .. j + 1] = Updated(g[1 .. j], p, rows[j + 1].deed, rows[j + 1].owner,
                                rows[j + 1].level)
    BY <1>10, <2>1
  <2>3. t[k] = g[1 .. k] /\ t[j] = g[1 .. j]
    BY <2>1
  <2> QED BY <2>1, <2>2, <2>3
<1> HIDE DEF t
<1> QED BY <1>7, <1>12, <1>13 DEF n

\* A load shows what the table has: of each property with one row, its owner and
\* capacity; it forgets nothing of the others.
LEMMA FetchedShows ==
    ASSUME rows \in Seq(Row), NEW c \in Copies, NEW p \in Players
    PROVE  /\ Fetched(c, p) \in Copies
           /\ \A d \in Deeds :
                 /\ RowsOf(d) = {} => Fetched(c, p)[d].owner = c[d].owner
                 /\ Once(d) /\ RowsOf(d) # {} =>
                       /\ Fetched(c, p)[d].owner = RowOf(d).owner
                       /\ Fetched(c, p)[d].level = RowOf(d).level
<1> DEFINE n == Len(rows)
<1>0. n \in Nat /\ DOMAIN rows = 1 .. n /\ \A i \in 1 .. n : rows[i] \in Row
  OBVIOUS
<1>1. PICK t \in [0 .. n -> Copies] :
         /\ t[0] = c
         /\ \A k \in 1 .. n :
               t[k] = Updated(t[k - 1], p, rows[k].deed, rows[k].owner, rows[k].level)
         /\ Fetched(c, p) = Repositioned(t[n], p)
  BY FetchedIs
<1> HIDE DEF n
<1>2. t[n] \in Copies
  BY <1>0
<1>3. ASSUME NEW d \in Deeds
      PROVE  /\ RowsOf(d) = {} => t[n][d].owner = c[d].owner
             /\ Once(d) /\ RowsOf(d) # {} =>
                   t[n][d].owner = RowOf(d).owner /\ t[n][d].level = RowOf(d).level
  <2> DEFINE P == {k \in Nat : k <= n =>
                     /\ RowsOf(d) = {} => t[k][d].owner = c[d].owner
                     /\ \A i \in RowsOf(d) : Once(d) /\ i <= k =>
                           t[k][d].owner = rows[i].owner /\ t[k][d].level = rows[i].level}
  <2>0. RowsOf(d) = {i \in 1 .. n : rows[i].deed = d}
    BY <1>0 DEF RowsOf
  <2>1. 0 \in P
    BY <1>0, <1>1, <2>0
  <2>2. ASSUME NEW k \in Nat, k \in P PROVE k + 1 \in P
    <3> SUFFICES ASSUME k + 1 <= n
                 PROVE  /\ RowsOf(d) = {} => t[k + 1][d].owner = c[d].owner
                        /\ \A i \in RowsOf(d) : Once(d) /\ i <= k + 1 =>
                              /\ t[k + 1][d].owner = rows[i].owner
                              /\ t[k + 1][d].level = rows[i].level
      OBVIOUS
    <3> DEFINE r == rows[k + 1]
    <3>1. k + 1 \in 1 .. n /\ k \in 0 .. n /\ (k + 1) - 1 = k /\ k <= n
      BY <1>0
    <3>2. /\ t[k + 1] = Updated(t[k], p, r.deed, r.owner, r.level) /\ t[k] \in Copies
          /\ r.deed \in Deeds /\ r.owner \in Players /\ r.level \in Nat
      BY <1>0, <1>1, <3>1 DEF Row
    <3>3. /\ RowsOf(d) = {} => t[k][d].owner = c[d].owner
          /\ \A i \in RowsOf(d) : Once(d) /\ i <= k =>
                t[k][d].owner = rows[i].owner /\ t[k][d].level = rows[i].level
      BY <2>2, <3>1
    <3> HIDE DEF P
    <3>e. /\ t[k + 1][r.deed].owner = r.owner /\ t[k + 1][r.deed].level = r.level
          /\ \A e \in Deeds \ {r.deed} : t[k + 1][e] = t[k][e]
      <4>1. r \in Row /\ t[k] \in Copies /\ t[k + 1] = Updated(t[k], p, r.deed, r.owner, r.level)
        BY <1>0, <3>1, <3>2
      <4> QED BY <4>1, RowSeen
    <3>4. CASE r.deed = d
      <4>1. k + 1 \in RowsOf(d)
        BY <2>0, <3>1, <3>4
      <4>2. t[k + 1][d].owner = r.owner /\ t[k + 1][d].level = r.level
        BY <3>e, <3>4
      <4> QED BY <4>1, <4>2 DEF Once
    <3>5. CASE r.deed # d
      <4>1. t[k + 1][d] = t[k][d]
        BY <3>e, <3>5
      <4>2. k + 1 \notin RowsOf(d)
        BY <2>0, <3>5
      <4>3. \A i \in RowsOf(d) : i <= k + 1 => i <= k
        BY <1>0, <2>0, <4>2
      <4> QED BY <3>3, <4>1, <4>3
    <3> QED BY <3>4, <3>5
  <2> HIDE DEF P
  <2>3. n \in P
    BY <1>0, <2>1, <2>2, Induction
  <2>4. \A i \in RowsOf(d) : Once(d) => RowOf(d) = rows[i]
    BY OnlyRow
  <2> QED BY <1>0, <2>0, <2>3, <2>4 DEF P
<1> QED BY <1>1, <1>2, <1>3, RepositionedKeeps

\* With each property in the table once, what the first load deals is stacked.
LEMMA DealtStacks ==
    ASSUME rows \in Seq(Row), \A d \in Deeds : Once(d), NEW c \in Copies, NEW p \in Players,
           \A d \in Deeds : c[d].owner = 0
    PROVE  Stacked(Fetched(c, p), p)
<1> DEFINE n == Len(rows)
<1>0. n \in Nat /\ DOMAIN rows = 1 .. n /\ \A i \in 1 .. n : rows[i] \in Row
  OBVIOUS
<1>1. PICK t \in [0 .. n -> Copies] :
         /\ t[0] = c
         /\ \A k \in 1 .. n :
               t[k] = Updated(t[k - 1], p, rows[k].deed, rows[k].owner, rows[k].level)
         /\ Fetched(c, p) = Repositioned(t[n], p)
  BY FetchedIs
<1> HIDE DEF n
<1> DEFINE P == {k \in Nat : k <= n =>
                   /\ Stacked(t[k], p)
                   /\ \A d \in Deeds : (\A i \in RowsOf(d) : k < i) => t[k][d].owner = 0}
<1>2. 0 \in P
  <2>1. Hand(c, p) = {}
    BY DEF Hand, Players
  <2>2. Cardinality(Hand(c, p)) = 0
    BY <2>1, FS_EmptySet
  <2>3. Stacked(c, p)
    BY <2>1, <2>2 DEF Stacked, Apart, Positions
  <2> QED BY <1>1, <2>3
<1>3. ASSUME NEW k \in Nat, k \in P PROVE k + 1 \in P
  <2> SUFFICES ASSUME k + 1 <= n
               PROVE  /\ Stacked(t[k + 1], p)
                      /\ \A d \in Deeds : (\A i \in RowsOf(d) : k + 1 < i)
                                            => t[k + 1][d].owner = 0
    OBVIOUS
  <2> DEFINE r == rows[k + 1]
             d == r.deed
  <2>1. k + 1 \in 1 .. n /\ k \in 0 .. n /\ (k + 1) - 1 = k /\ k <= n
    BY <1>0
  <2>2. /\ t[k + 1] = Updated(t[k], p, d, r.owner, r.level) /\ t[k] \in Copies
        /\ d \in Deeds /\ r.owner \in Players /\ r.level \in Nat
    BY <1>0, <1>1, <2>1 DEF Row
  <2>3. /\ Stacked(t[k], p)
        /\ \A e \in Deeds : (\A i \in RowsOf(e) : k < i) => t[k][e].owner = 0
    BY <1>3, <2>1
  <2> HIDE DEF P
  <2>4. k + 1 \in RowsOf(d)
    BY <1>0, <2>1 DEF RowsOf
  <2>5. t[k][d].owner = 0
    <3>1. \A i \in RowsOf(d) : i = k + 1
      BY <2>2, <2>4 DEF Once
    <3> QED BY <2>2, <2>3, <3>1
  <2> DEFINE u == t[k + 1]
  <2>6. /\ u \in Copies /\ u[d].owner = r.owner /\ \A e \in Deeds \ {d} : u[e] = t[k][e]
    <3>1. r \in Row /\ t[k] \in Copies /\ u = Updated(t[k], p, r.deed, r.owner, r.level)
      BY <1>0, <2>1, <2>2
    <3> QED BY <3>1, RowSeen
  <2>7. \A e \in Deeds : (\A i \in RowsOf(e) : k + 1 < i) => u[e].owner = 0
    <3>1. ASSUME NEW e \in Deeds, \A i \in RowsOf(e) : k + 1 < i PROVE u[e].owner = 0
      <4>1. e # d
        BY <1>0, <2>1, <2>4, <3>1
      <4>2. \A i \in RowsOf(e) : k < i
        <5>1. \A i \in RowsOf(e) : i \in Nat
          BY <1>0 DEF RowsOf
        <5> QED BY <3>1, <5>1
      <4> QED BY <2>3, <2>6, <4>1, <4>2
    <3> QED BY <3>1
  <2>8. Stacked(u, p)
    <3> DEFINE x == t[k]
    <3>1. x \in Copies /\ Stacked(x, p) /\ x[d].owner = 0 /\ u = Updated(x, p, d, r.owner, r.level)
      BY <2>2, <2>3, <2>5
    <3> HIDE DEF x, u, d, r
    <3>2. d \notin Hand(x, p)
      BY <3>1 DEF Hand, Players
    <3> QED BY <2>2, <3>1, <3>2, UpdatedTops
  <2> QED BY <2>7, <2>8
<1> HIDE DEF P
<1>4. n \in P
  BY <1>0, <1>2, <1>3, Induction
<1>5. t[n] \in Copies /\ Stacked(t[n], p)
  BY <1>0, <1>4 DEF P
<1> QED BY <1>1, <1>5, StackedIsGapped, GapCloses

-----------------------------------------------------------------------------
(* Types. *)

\* A purchase that has looked up its property knows where it is.
DealsOK ==
    \A p \in Players :
        /\ page[p].deal = NoDeed <=> page[p].step = "no"
        /\ page[p].step = "owner" => RowsOf(page[p].deal) # {}

TypeInv == TypeOK /\ DealsOK

LEMMA MessageType ==
    \A m \in Message :
        /\ m.about \in Abouts /\ m.by \in Players /\ m.load \in Nat
        /\ m.about = "turn" => m.turn \in Nat
        /\ m.about # "turn" => /\ m.about \in Deeds /\ m.owner \in Players /\ m.level \in Nat
                               /\ m.sale \in BOOLEAN
BY Constants DEF Message, Abouts

LEMMA MessageMade ==
    ASSUME NEW p \in Players, NEW l \in Nat
    PROVE  /\ \A t \in Nat : [about |-> "turn", by |-> p, load |-> l, turn |-> t] \in Message
           /\ \A d \in Deeds, v \in Nat, x \in BOOLEAN :
                 [about |-> d, by |-> p, load |-> l, owner |-> p, level |-> v, sale |-> x]
                    \in Message
BY DEF Message

LEMMA MissingType ==
    ASSUME TypeOK, NEW p \in Players, NEW what \in SUBSET Abouts
    PROVE  /\ Missing(p, what) \in SUBSET (Deeds \cup {"turn", "claim"})
           /\ missed[p] \subseteq Missing(p, what) /\ what \subseteq Missing(p, what)
BY DEF TypeOK, Missing, Abouts

LEMMA PageType ==
    ASSUME TypeOK, NEW p \in Players
    PROVE  /\ page[p] \in Page /\ copy[p] \in Copies
           /\ page[p].turn \in Nat /\ page[p].looked \in Nat /\ page[p].loads \in Nat
           /\ page[p].first \in BOOLEAN /\ page[p].claiming \in BOOLEAN /\ page[p].hears \in BOOLEAN
           /\ page[p].deal \in Deeds \cup {NoDeed}
BY DEF TypeOK, Page, Copies

\* Changes of one page.
LEMMA PageFields ==
    ASSUME NEW g \in Page
    PROVE  /\ \A x \in {"away", "turn", "deeds", "live"} : [g EXCEPT !.at = x] \in Page
           /\ \A x \in BOOLEAN : /\ [g EXCEPT !.hears = x] \in Page
                                 /\ [g EXCEPT !.first = x] \in Page
                                 /\ [g EXCEPT !.claiming = x] \in Page
           /\ \A x \in Nat : /\ [g EXCEPT !.turn = x] \in Page
                             /\ [g EXCEPT !.looked = x] \in Page
                             /\ [g EXCEPT !.loads = x] \in Page
           /\ \A x \in {"no", "asked", "failed"} : [g EXCEPT !.passing = x] \in Page
           /\ \A x \in Deeds \cup {NoDeed} : [g EXCEPT !.deal = x] \in Page
           /\ \A x \in {"no", "market", "owner", "asked"} : [g EXCEPT !.step = x] \in Page
<1>1. \A x \in {"away", "turn", "deeds", "live"} : [g EXCEPT !.at = x] \in Page
  BY DEF Page
<1>2. \A x \in BOOLEAN : [g EXCEPT !.hears = x] \in Page
  BY DEF Page
<1>3. \A x \in BOOLEAN : [g EXCEPT !.first = x] \in Page
  BY DEF Page
<1>4. \A x \in BOOLEAN : [g EXCEPT !.claiming = x] \in Page
  BY DEF Page
<1>5. \A x \in Nat : [g EXCEPT !.turn = x] \in Page
  BY DEF Page
<1>6. \A x \in Nat : [g EXCEPT !.looked = x] \in Page
  BY DEF Page
<1>7. \A x \in Nat : [g EXCEPT !.loads = x] \in Page
  BY DEF Page
<1>8. \A x \in {"no", "asked", "failed"} : [g EXCEPT !.passing = x] \in Page
  BY DEF Page
<1>9. \A x \in Deeds \cup {NoDeed} : [g EXCEPT !.deal = x] \in Page
  BY DEF Page
<1>10. \A x \in {"no", "market", "owner", "asked"} : [g EXCEPT !.step = x] \in Page
  BY DEF Page
<1> QED BY <1>1, <1>2, <1>3, <1>4, <1>5, <1>6, <1>7, <1>8, <1>9, <1>10

LEMMA PageChanged ==
    ASSUME page \in [Players -> Page], NEW p \in Players, NEW g \in Page,
           page' = [page EXCEPT ![p] = g]
    PROVE  /\ page' \in [Players -> Page] /\ page'[p] = g
           /\ \A q \in Players \ {p} : page'[q] = page[q]
OBVIOUS

\* What each action does to a page.
LEMMA PassTurnPage ==
    ASSUME TypeOK, NEW p \in Players, PassTurn(p)
    PROVE  /\ page' \in [Players -> Page]
           /\ \A q \in Players \ {p} : page'[q] = page[q]
           /\ page'[p].passing = (IF Holder(turn) = p THEN "asked" ELSE "failed")
           /\ page'[p].at = page[p].at /\ page'[p].hears = page[p].hears
           /\ page'[p].turn = page[p].turn /\ page'[p].first = page[p].first
           /\ page'[p].claiming = page[p].claiming /\ page'[p].deal = page[p].deal
           /\ page'[p].step = page[p].step /\ page'[p].looked = page[p].looked
           /\ page'[p].loads = page[p].loads
<1>1. p \in Players /\ page[p] \in Page /\ page \in [Players -> Page]
  BY PageType DEF TypeOK
<1>t. TRUE
  OBVIOUS
<1> DEFINE g1 == [page[p] EXCEPT !.passing = (IF Holder(turn) = p THEN "asked" ELSE "failed")]
<1>2. page' = [page EXCEPT ![p] = g1]
  BY <1>1 DEF PassTurn
<1>3. /\ g1 \in Page /\ g1.passing = (IF Holder(turn) = p THEN "asked" ELSE "failed")
      /\ g1.at = page[p].at /\ g1.hears = page[p].hears /\ g1.turn = page[p].turn
      /\ g1.first = page[p].first /\ g1.claiming = page[p].claiming
      /\ g1.deal = page[p].deal /\ g1.step = page[p].step /\ g1.looked = page[p].looked
      /\ g1.loads = page[p].loads
  <2>1. g1 \in Page
    BY <1>1, <1>t, PageFields
  <2> QED BY <1>1, <2>1 DEF Page
<1> HIDE DEF g1
<1> QED BY <1>1, <1>2, <1>3, PageChanged

LEMMA ClaimPage ==
    ASSUME TypeOK, NEW p \in Players, Claim(p)
    PROVE  /\ page' \in [Players -> Page]
           /\ \A q \in Players \ {p} : page'[q] = page[q]
           /\ page'[p].claiming = TRUE
           /\ page'[p].at = page[p].at /\ page'[p].hears = page[p].hears
           /\ page'[p].turn = page[p].turn /\ page'[p].first = page[p].first
           /\ page'[p].passing = page[p].passing /\ page'[p].deal = page[p].deal
           /\ page'[p].step = page[p].step /\ page'[p].looked = page[p].looked
           /\ page'[p].loads = page[p].loads
<1>1. p \in Players /\ page[p] \in Page /\ page \in [Players -> Page]
  BY PageType DEF TypeOK
<1>t. TRUE
  OBVIOUS
<1> DEFINE g1 == [page[p] EXCEPT !.claiming = TRUE]
<1>2. page' = [page EXCEPT ![p] = g1]
  BY <1>1 DEF Claim
<1>3. /\ g1 \in Page /\ g1.claiming = TRUE
      /\ g1.at = page[p].at /\ g1.hears = page[p].hears /\ g1.turn = page[p].turn
      /\ g1.first = page[p].first /\ g1.passing = page[p].passing /\ g1.deal = page[p].deal
      /\ g1.step = page[p].step /\ g1.looked = page[p].looked /\ g1.loads = page[p].loads
  <2>1. g1 \in Page
    BY <1>1, <1>t, PageFields
  <2> QED BY <1>1, <2>1 DEF Page
<1> HIDE DEF g1
<1> QED BY <1>1, <1>2, <1>3, PageChanged

LEMMA ClaimPaidPage ==
    ASSUME TypeOK, NEW p \in Players, ClaimPaid(p)
    PROVE  /\ page' \in [Players -> Page]
           /\ \A q \in Players \ {p} : page'[q] = page[q]
           /\ page'[p].claiming = FALSE
           /\ page'[p].first = FALSE
           /\ page'[p].at = page[p].at /\ page'[p].hears = page[p].hears
           /\ page'[p].turn = page[p].turn /\ page'[p].passing = page[p].passing
           /\ page'[p].deal = page[p].deal /\ page'[p].step = page[p].step
           /\ page'[p].looked = page[p].looked /\ page'[p].loads = page[p].loads
<1>1. p \in Players /\ page[p] \in Page /\ page \in [Players -> Page]
  BY PageType DEF TypeOK
<1>t. TRUE
  OBVIOUS
<1> DEFINE g1 == [page[p] EXCEPT !.claiming = FALSE]
           g2 == [g1 EXCEPT !.first = FALSE]
<1>2. page' = [page EXCEPT ![p] = g2]
  BY <1>1 DEF ClaimPaid
<1>3. /\ g1 \in Page /\ g1.claiming = FALSE
      /\ g1.at = page[p].at /\ g1.hears = page[p].hears /\ g1.turn = page[p].turn
      /\ g1.first = page[p].first /\ g1.passing = page[p].passing /\ g1.deal = page[p].deal
      /\ g1.step = page[p].step /\ g1.looked = page[p].looked /\ g1.loads = page[p].loads
  <2>1. g1 \in Page
    BY <1>1, <1>t, PageFields
  <2> QED BY <1>1, <2>1 DEF Page
<1> HIDE DEF g1
<1>4. /\ g2 \in Page /\ g2.first = FALSE
      /\ g2.at = g1.at /\ g2.hears = g1.hears /\ g2.turn = g1.turn
      /\ g2.claiming = g1.claiming /\ g2.passing = g1.passing /\ g2.deal = g1.deal
      /\ g2.step = g1.step /\ g2.looked = g1.looked /\ g2.loads = g1.loads
  <2>1. g2 \in Page
    BY <1>3, <1>t, PageFields
  <2> QED BY <1>3, <2>1 DEF Page
<1> HIDE DEF g2
<1> QED BY <1>1, <1>2, <1>3, <1>4, PageChanged

LEMMA LookPage ==
    ASSUME TypeOK, NEW p \in Players, NEW d \in Deeds, Look(p, d), RowsOf(d) # {} => RowOf(d).level \in Nat
    PROVE  /\ page' \in [Players -> Page]
           /\ \A q \in Players \ {p} : page'[q] = page[q]
           /\ page'[p].deal = d
           /\ page'[p].step = (IF RowsOf(d) = {} THEN "market" ELSE "owner")
           /\ page'[p].looked = (IF RowsOf(d) = {} THEN 0 ELSE RowOf(d).level)
           /\ page'[p].at = page[p].at /\ page'[p].hears = page[p].hears
           /\ page'[p].turn = page[p].turn /\ page'[p].first = page[p].first
           /\ page'[p].claiming = page[p].claiming /\ page'[p].passing = page[p].passing
           /\ page'[p].loads = page[p].loads
<1>1. p \in Players /\ page[p] \in Page /\ page \in [Players -> Page]
  BY PageType DEF TypeOK
<1>t. (IF RowsOf(d) = {} THEN 0 ELSE RowOf(d).level) \in Nat
  OBVIOUS
<1> DEFINE g1 == [page[p] EXCEPT !.deal = d]
           g2 == [g1 EXCEPT !.step = (IF RowsOf(d) = {} THEN "market" ELSE "owner")]
           g3 == [g2 EXCEPT !.looked = (IF RowsOf(d) = {} THEN 0 ELSE RowOf(d).level)]
<1>2. page' = [page EXCEPT ![p] = g3]
  BY <1>1 DEF Look
<1>3. /\ g1 \in Page /\ g1.deal = d
      /\ g1.at = page[p].at /\ g1.hears = page[p].hears /\ g1.turn = page[p].turn
      /\ g1.first = page[p].first /\ g1.claiming = page[p].claiming
      /\ g1.passing = page[p].passing /\ g1.step = page[p].step
      /\ g1.looked = page[p].looked /\ g1.loads = page[p].loads
  <2>1. g1 \in Page
    BY <1>1, <1>t, PageFields
  <2> QED BY <1>1, <2>1 DEF Page
<1> HIDE DEF g1
<1>4. /\ g2 \in Page /\ g2.step = (IF RowsOf(d) = {} THEN "market" ELSE "owner")
      /\ g2.at = g1.at /\ g2.hears = g1.hears /\ g2.turn = g1.turn /\ g2.first = g1.first
      /\ g2.claiming = g1.claiming /\ g2.passing = g1.passing /\ g2.deal = g1.deal
      /\ g2.looked = g1.looked /\ g2.loads = g1.loads
  <2>1. g2 \in Page
    BY <1>3, <1>t, PageFields
  <2> QED BY <1>3, <2>1 DEF Page
<1> HIDE DEF g2
<1>5. /\ g3 \in Page /\ g3.looked = (IF RowsOf(d) = {} THEN 0 ELSE RowOf(d).level)
      /\ g3.at = g2.at /\ g3.hears = g2.hears /\ g3.turn = g2.turn /\ g3.first = g2.first
      /\ g3.claiming = g2.claiming /\ g3.passing = g2.passing /\ g3.deal = g2.deal
      /\ g3.step = g2.step /\ g3.loads = g2.loads
  <2>1. g3 \in Page
    BY <1>4, <1>t, PageFields
  <2> QED BY <1>4, <2>1 DEF Page
<1> HIDE DEF g3
<1> QED BY <1>1, <1>2, <1>3, <1>4, <1>5, PageChanged

LEMMA TakePage ==
    ASSUME TypeOK, NEW p \in Players, Take(p)
    PROVE  /\ page' \in [Players -> Page]
           /\ \A q \in Players \ {p} : page'[q] = page[q]
           /\ page'[p].step = "asked"
           /\ page'[p].at = page[p].at /\ page'[p].hears = page[p].hears
           /\ page'[p].turn = page[p].turn /\ page'[p].first = page[p].first
           /\ page'[p].claiming = page[p].claiming /\ page'[p].passing = page[p].passing
           /\ page'[p].deal = page[p].deal /\ page'[p].looked = page[p].looked
           /\ page'[p].loads = page[p].loads
<1>1. p \in Players /\ page[p] \in Page /\ page \in [Players -> Page]
  BY PageType DEF TypeOK
<1>t. TRUE
  OBVIOUS
<1> DEFINE g1 == [page[p] EXCEPT !.step = "asked"]
<1>2. page' = [page EXCEPT ![p] = g1]
  BY <1>1 DEF Take
<1>3. /\ g1 \in Page /\ g1.step = "asked"
      /\ g1.at = page[p].at /\ g1.hears = page[p].hears /\ g1.turn = page[p].turn
      /\ g1.first = page[p].first /\ g1.claiming = page[p].claiming
      /\ g1.passing = page[p].passing /\ g1.deal = page[p].deal
      /\ g1.looked = page[p].looked /\ g1.loads = page[p].loads
  <2>1. g1 \in Page
    BY <1>1, <1>t, PageFields
  <2> QED BY <1>1, <2>1 DEF Page
<1> HIDE DEF g1
<1> QED BY <1>1, <1>2, <1>3, PageChanged

LEMMA UpgradePage ==
    ASSUME TypeOK, NEW p \in Players, NEW d \in Deeds, Upgrade(p, d)
    PROVE  /\ page' \in [Players -> Page]
           /\ \A q \in Players \ {p} : page'[q] = page[q]
           /\ page'[p].deal = d
           /\ page'[p].step = "asked"
           /\ page'[p].at = page[p].at /\ page'[p].hears = page[p].hears
           /\ page'[p].turn = page[p].turn /\ page'[p].first = page[p].first
           /\ page'[p].claiming = page[p].claiming /\ page'[p].passing = page[p].passing
           /\ page'[p].looked = page[p].looked /\ page'[p].loads = page[p].loads
<1>1. p \in Players /\ page[p] \in Page /\ page \in [Players -> Page]
  BY PageType DEF TypeOK
<1>t. TRUE
  OBVIOUS
<1> DEFINE g1 == [page[p] EXCEPT !.deal = d]
           g2 == [g1 EXCEPT !.step = "asked"]
<1>2. page' = [page EXCEPT ![p] = g2]
  BY <1>1 DEF Upgrade
<1>3. /\ g1 \in Page /\ g1.deal = d
      /\ g1.at = page[p].at /\ g1.hears = page[p].hears /\ g1.turn = page[p].turn
      /\ g1.first = page[p].first /\ g1.claiming = page[p].claiming
      /\ g1.passing = page[p].passing /\ g1.step = page[p].step
      /\ g1.looked = page[p].looked /\ g1.loads = page[p].loads
  <2>1. g1 \in Page
    BY <1>1, <1>t, PageFields
  <2> QED BY <1>1, <2>1 DEF Page
<1> HIDE DEF g1
<1>4. /\ g2 \in Page /\ g2.step = "asked"
      /\ g2.at = g1.at /\ g2.hears = g1.hears /\ g2.turn = g1.turn /\ g2.first = g1.first
      /\ g2.claiming = g1.claiming /\ g2.passing = g1.passing /\ g2.deal = g1.deal
      /\ g2.looked = g1.looked /\ g2.loads = g1.loads
  <2>1. g2 \in Page
    BY <1>3, <1>t, PageFields
  <2> QED BY <1>3, <2>1 DEF Page
<1> HIDE DEF g2
<1> QED BY <1>1, <1>2, <1>3, <1>4, PageChanged

LEMMA FailsTurnPage ==
    ASSUME TypeOK, NEW p \in Players, NEW i \in DOMAIN outbox, NotifyFails(i), Waiting(outbox[i]),
           outbox[i].about = "turn", p = outbox[i].by
    PROVE  /\ page' \in [Players -> Page]
           /\ \A q \in Players \ {p} : page'[q] = page[q]
           /\ page'[p].passing = "failed"
           /\ page'[p].at = page[p].at /\ page'[p].hears = page[p].hears
           /\ page'[p].turn = page[p].turn /\ page'[p].first = page[p].first
           /\ page'[p].claiming = page[p].claiming /\ page'[p].deal = page[p].deal
           /\ page'[p].step = page[p].step /\ page'[p].looked = page[p].looked
           /\ page'[p].loads = page[p].loads
<1>1. p \in Players /\ page[p] \in Page /\ page \in [Players -> Page]
  BY PageType DEF TypeOK
<1>t. TRUE
  OBVIOUS
<1> DEFINE g1 == [page[p] EXCEPT !.passing = "failed"]
<1>2. page' = [page EXCEPT ![p] = g1]
  BY <1>1 DEF NotifyFails
<1>3. /\ g1 \in Page /\ g1.passing = "failed"
      /\ g1.at = page[p].at /\ g1.hears = page[p].hears /\ g1.turn = page[p].turn
      /\ g1.first = page[p].first /\ g1.claiming = page[p].claiming
      /\ g1.deal = page[p].deal /\ g1.step = page[p].step /\ g1.looked = page[p].looked
      /\ g1.loads = page[p].loads
  <2>1. g1 \in Page
    BY <1>1, <1>t, PageFields
  <2> QED BY <1>1, <2>1 DEF Page
<1> HIDE DEF g1
<1> QED BY <1>1, <1>2, <1>3, PageChanged

LEMMA FailsDeedPage ==
    ASSUME TypeOK, NEW p \in Players, NEW i \in DOMAIN outbox, NotifyFails(i), Waiting(outbox[i]),
           outbox[i].about # "turn", p = outbox[i].by
    PROVE  /\ page' \in [Players -> Page]
           /\ \A q \in Players \ {p} : page'[q] = page[q]
           /\ page'[p].deal = NoDeed
           /\ page'[p].step = "no"
           /\ page'[p].at = page[p].at /\ page'[p].hears = page[p].hears
           /\ page'[p].turn = page[p].turn /\ page'[p].first = page[p].first
           /\ page'[p].claiming = page[p].claiming /\ page'[p].passing = page[p].passing
           /\ page'[p].looked = page[p].looked /\ page'[p].loads = page[p].loads
<1>1. p \in Players /\ page[p] \in Page /\ page \in [Players -> Page]
  BY PageType DEF TypeOK
<1>t. TRUE
  OBVIOUS
<1> DEFINE g1 == [page[p] EXCEPT !.deal = NoDeed]
           g2 == [g1 EXCEPT !.step = "no"]
<1>2. page' = [page EXCEPT ![p] = g2]
  BY <1>1 DEF NotifyFails
<1>3. /\ g1 \in Page /\ g1.deal = NoDeed
      /\ g1.at = page[p].at /\ g1.hears = page[p].hears /\ g1.turn = page[p].turn
      /\ g1.first = page[p].first /\ g1.claiming = page[p].claiming
      /\ g1.passing = page[p].passing /\ g1.step = page[p].step
      /\ g1.looked = page[p].looked /\ g1.loads = page[p].loads
  <2>1. g1 \in Page
    BY <1>1, <1>t, PageFields
  <2> QED BY <1>1, <2>1 DEF Page
<1> HIDE DEF g1
<1>4. /\ g2 \in Page /\ g2.step = "no"
      /\ g2.at = g1.at /\ g2.hears = g1.hears /\ g2.turn = g1.turn /\ g2.first = g1.first
      /\ g2.claiming = g1.claiming /\ g2.passing = g1.passing /\ g2.deal = g1.deal
      /\ g2.looked = g1.looked /\ g2.loads = g1.loads
  <2>1. g2 \in Page
    BY <1>3, <1>t, PageFields
  <2> QED BY <1>3, <2>1 DEF Page
<1> HIDE DEF g2
<1> QED BY <1>1, <1>2, <1>3, <1>4, PageChanged

LEMMA HearPage ==
    ASSUME TypeOK, NEW p \in Players, NEW t \in Nat, page' = [page EXCEPT ![p] = TurnHeard(@, p, t)]
    PROVE  /\ page' \in [Players -> Page]
           /\ \A q \in Players \ {p} : page'[q] = page[q]
           /\ page'[p].turn = t
           /\ page'[p].first = (page[p].first \/ Holder(t) = p)
           /\ page'[p].at = page[p].at /\ page'[p].hears = page[p].hears
           /\ page'[p].claiming = page[p].claiming /\ page'[p].passing = page[p].passing
           /\ page'[p].deal = page[p].deal /\ page'[p].step = page[p].step
           /\ page'[p].looked = page[p].looked /\ page'[p].loads = page[p].loads
<1>1. p \in Players /\ page[p] \in Page /\ page \in [Players -> Page]
  BY PageType DEF TypeOK
<1>t. (page[p].first \/ Holder(t) = p) \in BOOLEAN
  BY PageType
<1> DEFINE g1 == [page[p] EXCEPT !.turn = t]
           g2 == [g1 EXCEPT !.first = (page[p].first \/ Holder(t) = p)]
<1>2. page' = [page EXCEPT ![p] = g2]
  BY <1>1 DEF TurnHeard
<1>3. /\ g1 \in Page /\ g1.turn = t
      /\ g1.at = page[p].at /\ g1.hears = page[p].hears /\ g1.first = page[p].first
      /\ g1.claiming = page[p].claiming /\ g1.passing = page[p].passing
      /\ g1.deal = page[p].deal /\ g1.step = page[p].step /\ g1.looked = page[p].looked
      /\ g1.loads = page[p].loads
  <2>1. g1 \in Page
    BY <1>1, <1>t, PageFields
  <2> QED BY <1>1, <2>1 DEF Page
<1> HIDE DEF g1
<1>4. /\ g2 \in Page /\ g2.first = (page[p].first \/ Holder(t) = p)
      /\ g2.at = g1.at /\ g2.hears = g1.hears /\ g2.turn = g1.turn
      /\ g2.claiming = g1.claiming /\ g2.passing = g1.passing /\ g2.deal = g1.deal
      /\ g2.step = g1.step /\ g2.looked = g1.looked /\ g2.loads = g1.loads
  <2>1. g2 \in Page
    BY <1>3, <1>t, PageFields
  <2> QED BY <1>3, <2>1 DEF Page
<1> HIDE DEF g2
<1> QED BY <1>1, <1>2, <1>3, <1>4, PageChanged

LEMMA AnswerTurnPage ==
    ASSUME TypeOK, NEW p \in Players, NEW t \in Nat,
           page' = [page EXCEPT ![p].turn = t, ![p].passing = "no"]
    PROVE  /\ page' \in [Players -> Page]
           /\ \A q \in Players \ {p} : page'[q] = page[q]
           /\ page'[p].turn = t
           /\ page'[p].passing = "no"
           /\ page'[p].at = page[p].at /\ page'[p].hears = page[p].hears
           /\ page'[p].first = page[p].first /\ page'[p].claiming = page[p].claiming
           /\ page'[p].deal = page[p].deal /\ page'[p].step = page[p].step
           /\ page'[p].looked = page[p].looked /\ page'[p].loads = page[p].loads
<1>1. p \in Players /\ page[p] \in Page /\ page \in [Players -> Page]
  BY PageType DEF TypeOK
<1>t. TRUE
  OBVIOUS
<1> DEFINE g1 == [page[p] EXCEPT !.turn = t]
           g2 == [g1 EXCEPT !.passing = "no"]
<1>2. page' = [page EXCEPT ![p] = g2]
  BY <1>1 DEF Page
<1>3. /\ g1 \in Page /\ g1.turn = t
      /\ g1.at = page[p].at /\ g1.hears = page[p].hears /\ g1.first = page[p].first
      /\ g1.claiming = page[p].claiming /\ g1.passing = page[p].passing
      /\ g1.deal = page[p].deal /\ g1.step = page[p].step /\ g1.looked = page[p].looked
      /\ g1.loads = page[p].loads
  <2>1. g1 \in Page
    BY <1>1, <1>t, PageFields
  <2> QED BY <1>1, <2>1 DEF Page
<1> HIDE DEF g1
<1>4. /\ g2 \in Page /\ g2.passing = "no"
      /\ g2.at = g1.at /\ g2.hears = g1.hears /\ g2.turn = g1.turn /\ g2.first = g1.first
      /\ g2.claiming = g1.claiming /\ g2.deal = g1.deal /\ g2.step = g1.step
      /\ g2.looked = g1.looked /\ g2.loads = g1.loads
  <2>1. g2 \in Page
    BY <1>3, <1>t, PageFields
  <2> QED BY <1>3, <2>1 DEF Page
<1> HIDE DEF g2
<1> QED BY <1>1, <1>2, <1>3, <1>4, PageChanged

LEMMA AnswerDeedPage ==
    ASSUME TypeOK, NEW p \in Players, page' = [page EXCEPT ![p].deal = NoDeed, ![p].step = "no"]
    PROVE  /\ page' \in [Players -> Page]
           /\ \A q \in Players \ {p} : page'[q] = page[q]
           /\ page'[p].deal = NoDeed
           /\ page'[p].step = "no"
           /\ page'[p].at = page[p].at /\ page'[p].hears = page[p].hears
           /\ page'[p].turn = page[p].turn /\ page'[p].first = page[p].first
           /\ page'[p].claiming = page[p].claiming /\ page'[p].passing = page[p].passing
           /\ page'[p].looked = page[p].looked /\ page'[p].loads = page[p].loads
<1>1. p \in Players /\ page[p] \in Page /\ page \in [Players -> Page]
  BY PageType DEF TypeOK
<1>t. TRUE
  OBVIOUS
<1> DEFINE g1 == [page[p] EXCEPT !.deal = NoDeed]
           g2 == [g1 EXCEPT !.step = "no"]
<1>2. page' = [page EXCEPT ![p] = g2]
  BY <1>1 DEF Page
<1>3. /\ g1 \in Page /\ g1.deal = NoDeed
      /\ g1.at = page[p].at /\ g1.hears = page[p].hears /\ g1.turn = page[p].turn
      /\ g1.first = page[p].first /\ g1.claiming = page[p].claiming
      /\ g1.passing = page[p].passing /\ g1.step = page[p].step
      /\ g1.looked = page[p].looked /\ g1.loads = page[p].loads
  <2>1. g1 \in Page
    BY <1>1, <1>t, PageFields
  <2> QED BY <1>1, <2>1 DEF Page
<1> HIDE DEF g1
<1>4. /\ g2 \in Page /\ g2.step = "no"
      /\ g2.at = g1.at /\ g2.hears = g1.hears /\ g2.turn = g1.turn /\ g2.first = g1.first
      /\ g2.claiming = g1.claiming /\ g2.passing = g1.passing /\ g2.deal = g1.deal
      /\ g2.looked = g1.looked /\ g2.loads = g1.loads
  <2>1. g2 \in Page
    BY <1>3, <1>t, PageFields
  <2> QED BY <1>3, <2>1 DEF Page
<1> HIDE DEF g2
<1> QED BY <1>1, <1>2, <1>3, <1>4, PageChanged

LEMMA LeavePage ==
    ASSUME TypeOK, NEW p \in Players, Leave(p)
    PROVE  /\ page' \in [Players -> Page]
           /\ \A q \in Players \ {p} : page'[q] = page[q]
           /\ page'[p].at = "away"
           /\ page'[p].hears = FALSE
           /\ page'[p].passing = "no"
           /\ page'[p].claiming = FALSE
           /\ page'[p].deal = NoDeed
           /\ page'[p].step = "no"
           /\ page'[p].loads = (page[p].loads + 1)
           /\ page'[p].turn = page[p].turn /\ page'[p].first = page[p].first
           /\ page'[p].looked = page[p].looked
<1>1. p \in Players /\ page[p] \in Page /\ page \in [Players -> Page]
  BY PageType DEF TypeOK
<1>t. page[p].loads + 1 \in Nat
  BY PageType
<1> DEFINE g1 == [page[p] EXCEPT !.at = "away"]
           g2 == [g1 EXCEPT !.hears = FALSE]
           g3 == [g2 EXCEPT !.passing = "no"]
           g4 == [g3 EXCEPT !.claiming = FALSE]
           g5 == [g4 EXCEPT !.deal = NoDeed]
           g6 == [g5 EXCEPT !.step = "no"]
           g7 == [g6 EXCEPT !.loads = page[p].loads + 1]
<1>2. page' = [page EXCEPT ![p] = g7]
  BY <1>1 DEF Leave
<1>3. /\ g1 \in Page /\ g1.at = "away"
      /\ g1.hears = page[p].hears /\ g1.turn = page[p].turn /\ g1.first = page[p].first
      /\ g1.claiming = page[p].claiming /\ g1.passing = page[p].passing
      /\ g1.deal = page[p].deal /\ g1.step = page[p].step /\ g1.looked = page[p].looked
      /\ g1.loads = page[p].loads
  <2>1. g1 \in Page
    BY <1>1, <1>t, PageFields
  <2> QED BY <1>1, <2>1 DEF Page
<1> HIDE DEF g1
<1>4. /\ g2 \in Page /\ g2.hears = FALSE
      /\ g2.at = g1.at /\ g2.turn = g1.turn /\ g2.first = g1.first
      /\ g2.claiming = g1.claiming /\ g2.passing = g1.passing /\ g2.deal = g1.deal
      /\ g2.step = g1.step /\ g2.looked = g1.looked /\ g2.loads = g1.loads
  <2>1. g2 \in Page
    BY <1>3, <1>t, PageFields
  <2> QED BY <1>3, <2>1 DEF Page
<1> HIDE DEF g2
<1>5. /\ g3 \in Page /\ g3.passing = "no"
      /\ g3.at = g2.at /\ g3.hears = g2.hears /\ g3.turn = g2.turn /\ g3.first = g2.first
      /\ g3.claiming = g2.claiming /\ g3.deal = g2.deal /\ g3.step = g2.step
      /\ g3.looked = g2.looked /\ g3.loads = g2.loads
  <2>1. g3 \in Page
    BY <1>4, <1>t, PageFields
  <2> QED BY <1>4, <2>1 DEF Page
<1> HIDE DEF g3
<1>6. /\ g4 \in Page /\ g4.claiming = FALSE
      /\ g4.at = g3.at /\ g4.hears = g3.hears /\ g4.turn = g3.turn /\ g4.first = g3.first
      /\ g4.passing = g3.passing /\ g4.deal = g3.deal /\ g4.step = g3.step
      /\ g4.looked = g3.looked /\ g4.loads = g3.loads
  <2>1. g4 \in Page
    BY <1>5, <1>t, PageFields
  <2> QED BY <1>5, <2>1 DEF Page
<1> HIDE DEF g4
<1>7. /\ g5 \in Page /\ g5.deal = NoDeed
      /\ g5.at = g4.at /\ g5.hears = g4.hears /\ g5.turn = g4.turn /\ g5.first = g4.first
      /\ g5.claiming = g4.claiming /\ g5.passing = g4.passing /\ g5.step = g4.step
      /\ g5.looked = g4.looked /\ g5.loads = g4.loads
  <2>1. g5 \in Page
    BY <1>6, <1>t, PageFields
  <2> QED BY <1>6, <2>1 DEF Page
<1> HIDE DEF g5
<1>8. /\ g6 \in Page /\ g6.step = "no"
      /\ g6.at = g5.at /\ g6.hears = g5.hears /\ g6.turn = g5.turn /\ g6.first = g5.first
      /\ g6.claiming = g5.claiming /\ g6.passing = g5.passing /\ g6.deal = g5.deal
      /\ g6.looked = g5.looked /\ g6.loads = g5.loads
  <2>1. g6 \in Page
    BY <1>7, <1>t, PageFields
  <2> QED BY <1>7, <2>1 DEF Page
<1> HIDE DEF g6
<1>9. /\ g7 \in Page /\ g7.loads = page[p].loads + 1
      /\ g7.at = g6.at /\ g7.hears = g6.hears /\ g7.turn = g6.turn /\ g7.first = g6.first
      /\ g7.claiming = g6.claiming /\ g7.passing = g6.passing /\ g7.deal = g6.deal
      /\ g7.step = g6.step /\ g7.looked = g6.looked
  <2>1. g7 \in Page
    BY <1>8, <1>t, PageFields
  <2> QED BY <1>8, <2>1 DEF Page
<1> HIDE DEF g7
<1> QED BY <1>1, <1>2, <1>3, <1>4, <1>5, <1>6, <1>7, <1>8, <1>9, PageChanged

LEMMA FetchTurnPage ==
    ASSUME TypeOK, NEW p \in Players, FetchTurn(p)
    PROVE  /\ page' \in [Players -> Page]
           /\ \A q \in Players \ {p} : page'[q] = page[q]
           /\ page'[p].turn = turn
           /\ page'[p].first = (page[p].first \/ (Holder(turn) = p /\ Holder(page[p].turn) # p))
           /\ page'[p].at = "turn"
           /\ page'[p].hears = page[p].hears /\ page'[p].claiming = page[p].claiming
           /\ page'[p].passing = page[p].passing /\ page'[p].deal = page[p].deal
           /\ page'[p].step = page[p].step /\ page'[p].looked = page[p].looked
           /\ page'[p].loads = page[p].loads
<1>1. p \in Players /\ page[p] \in Page /\ page \in [Players -> Page]
  BY PageType DEF TypeOK
<1>t. turn \in Nat /\ (page[p].first \/ (Holder(turn) = p /\ Holder(page[p].turn) # p)) \in BOOLEAN
  BY PageType DEF TypeOK
<1> DEFINE g1 == [page[p] EXCEPT !.turn = turn]
           g2 == [g1 EXCEPT !.first = (page[p].first \/ (Holder(turn) = p /\ Holder(page[p].turn) # p))]
           g3 == [g2 EXCEPT !.at = "turn"]
<1>2. page' = [page EXCEPT ![p] = g3]
  BY <1>1 DEF FetchTurn, TurnFetched
<1>3. /\ g1 \in Page /\ g1.turn = turn
      /\ g1.at = page[p].at /\ g1.hears = page[p].hears /\ g1.first = page[p].first
      /\ g1.claiming = page[p].claiming /\ g1.passing = page[p].passing
      /\ g1.deal = page[p].deal /\ g1.step = page[p].step /\ g1.looked = page[p].looked
      /\ g1.loads = page[p].loads
  <2>1. g1 \in Page
    BY <1>1, <1>t, PageFields
  <2> QED BY <1>1, <2>1 DEF Page
<1> HIDE DEF g1
<1>4. /\ g2 \in Page /\ g2.first = (page[p].first \/ (Holder(turn) = p /\ Holder(page[p].turn) # p))
      /\ g2.at = g1.at /\ g2.hears = g1.hears /\ g2.turn = g1.turn
      /\ g2.claiming = g1.claiming /\ g2.passing = g1.passing /\ g2.deal = g1.deal
      /\ g2.step = g1.step /\ g2.looked = g1.looked /\ g2.loads = g1.loads
  <2>1. g2 \in Page
    BY <1>3, <1>t, PageFields
  <2> QED BY <1>3, <2>1 DEF Page
<1> HIDE DEF g2
<1>5. /\ g3 \in Page /\ g3.at = "turn"
      /\ g3.hears = g2.hears /\ g3.turn = g2.turn /\ g3.first = g2.first
      /\ g3.claiming = g2.claiming /\ g3.passing = g2.passing /\ g3.deal = g2.deal
      /\ g3.step = g2.step /\ g3.looked = g2.looked /\ g3.loads = g2.loads
  <2>1. g3 \in Page
    BY <1>4, <1>t, PageFields
  <2> QED BY <1>4, <2>1 DEF Page
<1> HIDE DEF g3
<1> QED BY <1>1, <1>2, <1>3, <1>4, <1>5, PageChanged

LEMMA FetchPropertiesPage ==
    ASSUME TypeOK, NEW p \in Players, FetchProperties(p)
    PROVE  /\ page' \in [Players -> Page]
           /\ \A q \in Players \ {p} : page'[q] = page[q]
           /\ page'[p].at = "deeds"
           /\ page'[p].hears = page[p].hears /\ page'[p].turn = page[p].turn
           /\ page'[p].first = page[p].first /\ page'[p].claiming = page[p].claiming
           /\ page'[p].passing = page[p].passing /\ page'[p].deal = page[p].deal
           /\ page'[p].step = page[p].step /\ page'[p].looked = page[p].looked
           /\ page'[p].loads = page[p].loads
<1>1. p \in Players /\ page[p] \in Page /\ page \in [Players -> Page]
  BY PageType DEF TypeOK
<1>t. TRUE
  OBVIOUS
<1> DEFINE g1 == [page[p] EXCEPT !.at = "deeds"]
<1>2. page' = [page EXCEPT ![p] = g1]
  BY <1>1 DEF FetchProperties
<1>3. /\ g1 \in Page /\ g1.at = "deeds"
      /\ g1.hears = page[p].hears /\ g1.turn = page[p].turn /\ g1.first = page[p].first
      /\ g1.claiming = page[p].claiming /\ g1.passing = page[p].passing
      /\ g1.deal = page[p].deal /\ g1.step = page[p].step /\ g1.looked = page[p].looked
      /\ g1.loads = page[p].loads
  <2>1. g1 \in Page
    BY <1>1, <1>t, PageFields
  <2> QED BY <1>1, <2>1 DEF Page
<1> HIDE DEF g1
<1> QED BY <1>1, <1>2, <1>3, PageChanged

LEMMA ConnectPage ==
    ASSUME TypeOK, NEW p \in Players, Connect(p)
    PROVE  /\ page' \in [Players -> Page]
           /\ \A q \in Players \ {p} : page'[q] = page[q]
           /\ page'[p].at = "live"
           /\ page'[p].hears = TRUE
           /\ page'[p].turn = page[p].turn /\ page'[p].first = page[p].first
           /\ page'[p].claiming = page[p].claiming /\ page'[p].passing = page[p].passing
           /\ page'[p].deal = page[p].deal /\ page'[p].step = page[p].step
           /\ page'[p].looked = page[p].looked /\ page'[p].loads = page[p].loads
<1>1. p \in Players /\ page[p] \in Page /\ page \in [Players -> Page]
  BY PageType DEF TypeOK
<1>t. TRUE
  OBVIOUS
<1> DEFINE g1 == [page[p] EXCEPT !.at = "live"]
           g2 == [g1 EXCEPT !.hears = TRUE]
<1>2. page' = [page EXCEPT ![p] = g2]
  BY <1>1 DEF Connect
<1>3. /\ g1 \in Page /\ g1.at = "live"
      /\ g1.hears = page[p].hears /\ g1.turn = page[p].turn /\ g1.first = page[p].first
      /\ g1.claiming = page[p].claiming /\ g1.passing = page[p].passing
      /\ g1.deal = page[p].deal /\ g1.step = page[p].step /\ g1.looked = page[p].looked
      /\ g1.loads = page[p].loads
  <2>1. g1 \in Page
    BY <1>1, <1>t, PageFields
  <2> QED BY <1>1, <2>1 DEF Page
<1> HIDE DEF g1
<1>4. /\ g2 \in Page /\ g2.hears = TRUE
      /\ g2.at = g1.at /\ g2.turn = g1.turn /\ g2.first = g1.first
      /\ g2.claiming = g1.claiming /\ g2.passing = g1.passing /\ g2.deal = g1.deal
      /\ g2.step = g1.step /\ g2.looked = g1.looked /\ g2.loads = g1.loads
  <2>1. g2 \in Page
    BY <1>3, <1>t, PageFields
  <2> QED BY <1>3, <2>1 DEF Page
<1> HIDE DEF g2
<1> QED BY <1>1, <1>2, <1>3, <1>4, PageChanged

LEMMA DropPage ==
    ASSUME TypeOK, NEW p \in Players, Drop(p)
    PROVE  /\ page' \in [Players -> Page]
           /\ \A q \in Players \ {p} : page'[q] = page[q]
           /\ page'[p].hears = FALSE
           /\ page'[p].at = page[p].at /\ page'[p].turn = page[p].turn
           /\ page'[p].first = page[p].first /\ page'[p].claiming = page[p].claiming
           /\ page'[p].passing = page[p].passing /\ page'[p].deal = page[p].deal
           /\ page'[p].step = page[p].step /\ page'[p].looked = page[p].looked
           /\ page'[p].loads = page[p].loads
<1>1. p \in Players /\ page[p] \in Page /\ page \in [Players -> Page]
  BY PageType DEF TypeOK
<1>t. TRUE
  OBVIOUS
<1> DEFINE g1 == [page[p] EXCEPT !.hears = FALSE]
<1>2. page' = [page EXCEPT ![p] = g1]
  BY <1>1 DEF Drop
<1>3. /\ g1 \in Page /\ g1.hears = FALSE
      /\ g1.at = page[p].at /\ g1.turn = page[p].turn /\ g1.first = page[p].first
      /\ g1.claiming = page[p].claiming /\ g1.passing = page[p].passing
      /\ g1.deal = page[p].deal /\ g1.step = page[p].step /\ g1.looked = page[p].looked
      /\ g1.loads = page[p].loads
  <2>1. g1 \in Page
    BY <1>1, <1>t, PageFields
  <2> QED BY <1>1, <2>1 DEF Page
<1> HIDE DEF g1
<1> QED BY <1>1, <1>2, <1>3, PageChanged

\* A request that was written sends a message.
LEMMA SendType ==
    ASSUME TypeOK, NEW p \in Players, NEW m \in Message, Send(p, m)
    PROVE  /\ outbox' \in Seq(Message)
           /\ count' \in [changes : 0 .. MaxChanges, breaks : 0 .. MaxBreaks]
           /\ missed' \in [Players -> SUBSET (Deeds \cup {"turn", "claim"})]
<1>1. m.about \in Abouts
  BY MessageType
<1>2. Missing(p, {m.about}) \in SUBSET (Deeds \cup {"turn", "claim"})
  BY <1>1, MissingType
<1>3. outbox' \in Seq(Message)
  BY DEF Send, TypeOK
<1>4. missed' \in [Players -> SUBSET (Deeds \cup {"turn", "claim"})]
  BY <1>2 DEF Send, TypeOK
<1>5. count' \in [changes : 0 .. MaxChanges, breaks : 0 .. MaxBreaks]
  <2>1. /\ count \in [changes : 0 .. MaxChanges, breaks : 0 .. MaxBreaks]
        /\ count.changes < MaxChanges /\ count' = [count EXCEPT !.changes = @ + 1]
    BY DEF Send, TypeOK
  <2>2. count.changes + 1 \in 0 .. MaxChanges
    BY <2>1, Constants
  <2> QED BY <2>1, <2>2
<1> QED BY <1>3, <1>4, <1>5


\* Pages that are not p's keep their deals, and no property leaves the table.
LEMMA DealsKept ==
    ASSUME TypeInv, NEW p \in Players,
           \A q \in Players \ {p} : page'[q] = page[q],
           page'[p].deal = NoDeed <=> page'[p].step = "no",
           page'[p].step = "owner" => page[p].step = "owner" /\ page'[p].deal = page[p].deal,
           \A e \in Deeds : RowsOf(e) # {} => RowsOf(e)' # {}
    PROVE  DealsOK'
<1>1. ASSUME NEW q \in Players
      PROVE  /\ page'[q].deal = NoDeed <=> page'[q].step = "no"
             /\ page'[q].step = "owner" => RowsOf(page[q].deal)' # {}
  <2>1. DealsOK /\ page[q].deal \in Deeds \cup {NoDeed}
    BY PageType DEF TypeInv
  <2>2. page'[q].step = "owner" => page[q].step = "owner" /\ page'[q].deal = page[q].deal
    BY <1>1
  <2>3. page[q].step = "owner" => page[q].deal \in Deeds /\ RowsOf(page[q].deal) # {}
    BY <2>1 DEF DealsOK
  <2>4. \A e \in Deeds : e = page[q].deal /\ RowsOf(e) # {} => RowsOf(e)' # {}
    OBVIOUS
  <2>5. page'[q].deal = NoDeed <=> page'[q].step = "no"
    BY <1>1, <2>1 DEF DealsOK
  <2>6. page'[q].step = "owner" => RowsOf(page[q].deal)' # {}
    BY <2>2, <2>3, <2>4 DEF RowsOf
  <2> QED BY <2>5, <2>6
<1> QED BY <1>1 DEF DealsOK, RowsOf

LEMMA RowsSame ==
    ASSUME rows' = rows
    PROVE  \A e \in Deeds : RowsOf(e)' = RowsOf(e)
BY DEF RowsOf

LEMMA PassTurnType ==
    ASSUME TypeInv, NEW p \in Players, PassTurn(p)
    PROVE  TypeInv'
<1>1. TypeOK /\ DealsOK
  BY DEF TypeInv
<1>2. /\ page' \in [Players -> Page] /\ \A q \in Players \ {p} : page'[q] = page[q]
      /\ page'[p].deal = page[p].deal /\ page'[p].step = page[p].step
  BY <1>1, PassTurnPage
<1>3. /\ turn' \in Nat /\ outbox' \in Seq(Message)
      /\ count' \in [changes : 0 .. MaxChanges, breaks : 0 .. MaxBreaks]
      /\ missed' \in [Players -> SUBSET (Deeds \cup {"turn", "claim"})]
  <2>1. CASE Holder(turn) # p
    BY <1>1, <2>1 DEF PassTurn, TypeOK
  <2>2. CASE Holder(turn) = p
    <3> DEFINE m == [about |-> "turn", by |-> p, load |-> page[p].loads, turn |-> turn + 1]
    <3>1. m \in Message
      <4>1. turn + 1 \in Nat /\ page[p].loads \in Nat
        BY <1>1, PageType DEF TypeOK
      <4> QED BY <4>1, MessageMade
    <3>2. Send(p, m) /\ turn' = turn + 1
      BY <2>2 DEF PassTurn
    <3> HIDE DEF m
    <3> QED BY <1>1, <3>1, <3>2, SendType DEF TypeOK
  <2> QED BY <2>1, <2>2
<1>4. UNCHANGED <<rows, answers, queue, registered, lingering, copy, claimed>>
  BY DEF PassTurn
<1>5. TypeOK'
  BY <1>1, <1>2, <1>3, <1>4 DEF TypeOK
<1>6. DealsOK'
  BY <1>1, <1>2, <1>4, DealsKept, RowsSame DEF DealsOK
<1> QED BY <1>5, <1>6 DEF TypeInv

LEMMA ClaimType ==
    ASSUME TypeInv, NEW p \in Players, Claim(p) \/ ClaimPaid(p)
    PROVE  TypeInv'
<1>1. TypeOK /\ DealsOK
  BY DEF TypeInv
<1>2. /\ page' \in [Players -> Page] /\ \A q \in Players \ {p} : page'[q] = page[q]
      /\ page'[p].deal = page[p].deal /\ page'[p].step = page[p].step
  BY <1>1, ClaimPage, ClaimPaidPage
<1>3. /\ missed' = missed \/ missed' = [missed EXCEPT ![p] = missed[p] \cup {"claim"}]
      /\ claimed' = claimed \/ claimed' = [claimed EXCEPT ![p] = page[p].turn]
  BY DEF Claim, ClaimPaid
<1>4. claimed' \in [Players -> Nat]
  BY <1>1, <1>3, PageType DEF TypeOK
<1>5. missed' \in [Players -> SUBSET (Deeds \cup {"turn", "claim"})]
  <2> DEFINE x == missed[p] \cup {"claim"}
  <2>1. x \in SUBSET (Deeds \cup {"turn", "claim"})
    BY <1>1 DEF TypeOK
  <2>2. missed' = missed \/ missed' = [missed EXCEPT ![p] = x]
    BY <1>3
  <2> HIDE DEF x
  <2> QED BY <1>1, <2>1, <2>2 DEF TypeOK
<1>6. UNCHANGED <<server, network, copy, count>>
  BY DEF Claim, ClaimPaid
<1>7. TypeOK'
  BY <1>1, <1>2, <1>4, <1>5, <1>6 DEF TypeOK, server, network
<1>8. DealsOK'
  BY <1>1, <1>2, <1>6, DealsKept, RowsSame DEF DealsOK, server
<1> QED BY <1>7, <1>8 DEF TypeInv

LEMMA LookType ==
    ASSUME TypeInv, NEW p \in Players, NEW d \in Deeds, Look(p, d)
    PROVE  TypeInv'
<1>1. TypeOK /\ DealsOK
  BY DEF TypeInv
<1>2. RowsOf(d) # {} => RowOf(d).level \in Nat
  BY <1>1, FirstRow DEF Row, TypeOK
<1>3. /\ page' \in [Players -> Page] /\ \A q \in Players \ {p} : page'[q] = page[q]
      /\ page'[p].deal = d /\ page'[p].step = IF RowsOf(d) = {} THEN "market" ELSE "owner"
  BY <1>1, <1>2, LookPage
<1>4. UNCHANGED <<server, network, copy, history>>
  BY DEF Look
<1>5. TypeOK'
  BY <1>1, <1>3, <1>4 DEF TypeOK, server, network, history
<1>6. DealsOK'
  BY <1>1, <1>3, <1>4, Constants DEF DealsOK, RowsOf, server
<1> QED BY <1>5, <1>6 DEF TypeInv

-----------------------------------------------------------------------------
(* Writes to the properties table. *)

\* Rows that are changed keep their place and their property.
LEMMA RowsChanged ==
    ASSUME NEW R \in Seq(Row), NEW T \in Seq(Row), DOMAIN T = DOMAIN R,
           \A i \in DOMAIN R : T[i].deed = R[i].deed
    PROVE  \A e \in Deeds :
              /\ RowsIn(T, e) = RowsIn(R, e)
              /\ RowsIn(R, e) # {} => \E i \in RowsIn(R, e) :
                    FirstIn(R, e) = R[i] /\ FirstIn(T, e) = T[i]
<1>1. TAKE e \in Deeds
<1>2. RowsIn(T, e) = RowsIn(R, e)
  BY DEF RowsIn
<1>3. ASSUME RowsIn(R, e) # {}
      PROVE  \E i \in RowsIn(R, e) : FirstIn(R, e) = R[i] /\ FirstIn(T, e) = T[i]
  <2>1. PICK i \in RowsIn(R, e) : \A j \in RowsIn(R, e) : i <= j
    BY <1>3, FirstPlace
  <2>2. FirstIn(R, e) = R[i] /\ FirstIn(T, e) = T[i]
    BY <1>2, <2>1, FirstIs
  <2> QED BY <2>2
<1> QED BY <1>2, <1>3

LEMMA RowAdded ==
    ASSUME NEW R \in Seq(Row), NEW r \in Row, NEW T \in Seq(Row), T = Append(R, r)
    PROVE  /\ T \in Seq(Row)
           /\ \A e \in Deeds : /\ RowsIn(R, e) \subseteq RowsIn(T, e)
                               /\ e # r.deed => RowsIn(T, e) = RowsIn(R, e)
                               /\ RowsIn(R, e) # {} => FirstIn(T, e) = FirstIn(R, e)
           /\ \E n \in RowsIn(T, r.deed) : n \notin DOMAIN R
           /\ RowsIn(R, r.deed) = {} => FirstIn(T, r.deed) = r
<1>1. /\ T \in Seq(Row) /\ Len(R) \in Nat /\ DOMAIN R = 1 .. Len(R)
      /\ DOMAIN T = 1 .. Len(R) + 1 /\ \A k \in DOMAIN R : T[k] = R[k]
      /\ T[Len(R) + 1] = r
  BY Appended
<1>2. r.deed \in Deeds
  BY DEF Row
<1>3. ASSUME NEW e \in Deeds
      PROVE  RowsIn(R, e) \subseteq RowsIn(T, e) /\ (e # r.deed => RowsIn(T, e) = RowsIn(R, e))
  BY <1>1 DEF RowsIn
<1>4. ASSUME NEW e \in Deeds, RowsIn(R, e) # {} PROVE FirstIn(T, e) = FirstIn(R, e)
  <2>1. PICK i \in RowsIn(R, e) : \A j \in RowsIn(R, e) : i <= j
    BY <1>4, FirstPlace
  <2>2. i \in RowsIn(T, e) /\ i \in DOMAIN R
    BY <1>3, <2>1 DEF RowsIn
  <2>3. ASSUME NEW j \in RowsIn(T, e) PROVE i <= j
    <3>1. CASE j \in DOMAIN R
      BY <1>1, <2>1, <3>1 DEF RowsIn
    <3>2. CASE j \notin DOMAIN R
      <4>1. j \in 1 .. Len(R) + 1 /\ j \notin 1 .. Len(R)
        BY <1>1, <3>2 DEF RowsIn
      <4> QED BY <1>1, <2>2, <4>1
    <3> QED BY <3>1, <3>2
  <2>4. FirstIn(R, e) = R[i] /\ FirstIn(T, e) = T[i]
    BY <1>1, <2>1, <2>2, <2>3, FirstIs
  <2> QED BY <1>1, <2>2, <2>4
<1>5. \E n \in RowsIn(T, r.deed) : n \notin DOMAIN R
  BY <1>1 DEF RowsIn
<1>6. ASSUME RowsIn(R, r.deed) = {} PROVE FirstIn(T, r.deed) = r
  <2> DEFINE n == Len(R) + 1
  <2>1. n \in RowsIn(T, r.deed)
    BY <1>1 DEF RowsIn
  <2>2. ASSUME NEW j \in RowsIn(T, r.deed) PROVE j = n
    <3>1. j \in DOMAIN T /\ T[j].deed = r.deed
      BY DEF RowsIn
    <3>2. j \in DOMAIN R => j \in RowsIn(R, r.deed)
      BY <1>1, <3>1 DEF RowsIn
    <3> QED BY <1>1, <1>6, <3>1, <3>2
  <2>3. \A j \in RowsIn(T, r.deed) : n <= j
    BY <1>1, <2>2
  <2> QED BY <1>1, <1>2, <2>1, <2>3, FirstIs
<1> QED BY <1>1, <1>3, <1>4, <1>5, <1>6

\* Rows of one property are changed, in place.
LEMMA RowsSet ==
    ASSUME NEW R \in Seq(Row), NEW T \in Seq(Row), NEW d \in Deeds, DOMAIN T = DOMAIN R,
           \A i \in DOMAIN R : T[i].deed = R[i].deed /\ (i \notin RowsIn(R, d) => T[i] = R[i])
    PROVE  /\ \A e \in Deeds : /\ RowsIn(T, e) = RowsIn(R, e)
                               /\ e # d /\ RowsIn(R, e) # {} => FirstIn(T, e) = FirstIn(R, e)
           /\ RowsIn(R, d) # {} => \E i \in RowsIn(R, d) :
                 FirstIn(R, d) = R[i] /\ FirstIn(T, d) = T[i]
<1>1. \A e \in Deeds :
         /\ RowsIn(T, e) = RowsIn(R, e)
         /\ RowsIn(R, e) # {} => \E i \in RowsIn(R, e) :
               FirstIn(R, e) = R[i] /\ FirstIn(T, e) = T[i]
  BY RowsChanged
<1>2. \A e \in Deeds : \A i \in RowsIn(R, e) : i \in DOMAIN R /\ (e # d => i \notin RowsIn(R, d))
  BY DEF RowsIn
<1> QED BY <1>1, <1>2

\* Such a write is a table again.
LEMMA RowsTable ==
    ASSUME NEW R \in Seq(Row), NEW f \in [DOMAIN R -> Row], NEW W, NEW T,
           T = [i \in DOMAIN R |-> IF i \in W THEN f[i] ELSE R[i]]
    PROVE  /\ T \in Seq(Row) /\ DOMAIN T = DOMAIN R
           /\ \A i \in DOMAIN R : T[i] = IF i \in W THEN f[i] ELSE R[i]
<1>1. DOMAIN R = 1 .. Len(R) /\ Len(R) \in Nat /\ \A i \in DOMAIN R : R[i] \in Row
  OBVIOUS
<1>2. DOMAIN T = DOMAIN R /\ \A i \in DOMAIN R : T[i] = IF i \in W THEN f[i] ELSE R[i]
  OBVIOUS
<1>3. T = [i \in 1 .. Len(R) |-> T[i]] /\ \A i \in 1 .. Len(R) : T[i] \in Row
  BY <1>1, <1>2
<1> QED BY <1>1, <1>2, <1>3

LEMMA RowsAreNext ==
    \A d : RowsOf(d)' = RowsIn(rows', d) /\ RowOf(d)' = FirstIn(rows', d)
BY DEF RowsOf, RowsIn, RowOf, FirstIn

\* A message about a property is sent by who owns it then.
OwnerSent(m) == m.about # "turn" => m.owner = m.by

\* What is sent of a purchase or an upgrade.
Sold(p, d, l, v) ==
    [about |-> d, by |-> p, load |-> l, owner |-> p, level |-> v, sale |-> TRUE]
Raised(p, d, l, v) ==
    [about |-> d, by |-> p, load |-> l, owner |-> p, level |-> v, sale |-> FALSE]

LEMMA SoldIs ==
    ASSUME NEW p \in Players, NEW d \in Deeds, NEW l \in Nat, NEW v \in Nat
    PROVE  /\ Sold(p, d, l, v) \in Message
           /\ Sold(p, d, l, v).about = d /\ Sold(p, d, l, v).by = p /\ Sold(p, d, l, v).load = l
           /\ Sold(p, d, l, v).owner = p /\ Sold(p, d, l, v).level = v
           /\ Sold(p, d, l, v).sale /\ OwnerSent(Sold(p, d, l, v))
BY MessageMade DEF Sold, OwnerSent

LEMMA RaisedIs ==
    ASSUME NEW p \in Players, NEW d \in Deeds, NEW l \in Nat, NEW v \in Nat
    PROVE  /\ Raised(p, d, l, v) \in Message
           /\ Raised(p, d, l, v).about = d /\ Raised(p, d, l, v).by = p /\ Raised(p, d, l, v).load = l
           /\ Raised(p, d, l, v).owner = p /\ Raised(p, d, l, v).level = v
           /\ ~Raised(p, d, l, v).sale /\ OwnerSent(Raised(p, d, l, v))
BY MessageMade DEF Raised, OwnerSent

\* A purchase: the property has a row, and the last one to say so is the buyer.
LEMMA TakeWrites ==
    ASSUME TypeInv, NEW p \in Players, NEW d, d = page[p].deal, Take(p)
    PROVE  /\ d \in Deeds /\ rows' \in Seq(Row) /\ RowsOf(d)' # {}
           /\ \A e \in Deeds : RowsOf(e) \subseteq RowsOf(e)'
           /\ \A e \in Deeds \ {d} : /\ RowsOf(e)' = RowsOf(e)
                                     /\ RowsOf(e) # {} => RowOf(e)' = RowOf(e)
           /\ Once(d)' => Once(d) /\ (page[p].step = "market" => RowsOf(d) = {})
           /\ \E v \in Nat :
                 /\ Send(p, Sold(p, d, page[p].loads, v))
                 /\ v = IF page[p].step = "market" THEN 0 ELSE RowOf(d).level
                 /\ Once(d)' => RowOf(d)'.owner = p /\ RowOf(d)'.level = v
<1> DEFINE R == rows  T == rows'
<1>1. TypeOK /\ DealsOK /\ R \in Seq(Row) /\ d \in Deeds /\ page[p].loads \in Nat
  BY PageType DEF TypeInv, TypeOK, Take, DealsOK
<1>2. /\ \A e : RowsOf(e) = RowsIn(R, e) /\ RowOf(e) = FirstIn(R, e)
      /\ \A e : RowsOf(e)' = RowsIn(T, e) /\ RowOf(e)' = FirstIn(T, e)
  BY RowsAre, RowsAreNext
<1>3. page[p].step = "market" \/ (page[p].step = "owner" /\ RowsIn(R, d) # {})
  BY <1>1, <1>2 DEF Take, DealsOK
<1> DEFINE v == IF page[p].step = "market" THEN 0 ELSE FirstIn(R, d).level
           m == Sold(p, d, page[p].loads, v)
<1>4. v \in Nat
  <2>1. RowsIn(R, d) # {} => FirstIn(R, d) \in Row
    BY <1>1, <1>2, FirstRow
  <2> QED BY <1>3, <2>1 DEF Row
<1>5. Send(p, m)
  BY <1>2 DEF Take, Sold
<1>6. /\ T \in Seq(Row) /\ \A e \in Deeds : RowsIn(R, e) \subseteq RowsIn(T, e)
      /\ RowsIn(T, d) # {}
      /\ \A e \in Deeds \ {d} : /\ RowsIn(T, e) = RowsIn(R, e)
                                /\ RowsIn(R, e) # {} => FirstIn(T, e) = FirstIn(R, e)
      /\ (\A i, j \in RowsIn(T, d) : i = j) =>
            /\ \A i, j \in RowsIn(R, d) : i = j
            /\ page[p].step = "market" => RowsIn(R, d) = {}
            /\ FirstIn(T, d).owner = p /\ FirstIn(T, d).level = v
  <2>1. CASE page[p].step = "market"
    <3> DEFINE r == [deed |-> d, owner |-> p, level |-> 0]
    <3>1. r \in Row /\ r.deed = d /\ r.owner = p /\ r.level = 0
      BY <1>1 DEF Row
    <3>2. T = Append(R, r) /\ v = 0
      BY <1>1, <2>1 DEF Take
    <3>a. Append(R, r) \in Seq(Row)
      BY <1>1, <3>1, Appended
    <3>b. T \in Seq(Row)
      BY <3>a, <3>2
    <3> HIDE DEF r, T, R, v
    <3>c. R \in Seq(Row) /\ r \in Row /\ T = Append(R, r)
      BY <1>1, <3>1, <3>2
    <3>3. /\ T \in Seq(Row)
          /\ \A e \in Deeds : /\ RowsIn(R, e) \subseteq RowsIn(T, e)
                              /\ e # r.deed => RowsIn(T, e) = RowsIn(R, e)
                              /\ RowsIn(R, e) # {} => FirstIn(T, e) = FirstIn(R, e)
          /\ \E n \in RowsIn(T, r.deed) : n \notin DOMAIN R
          /\ RowsIn(R, r.deed) = {} => FirstIn(T, r.deed) = r
      BY <3>b, <3>c, RowAdded
    <3>4. PICK n \in RowsIn(T, d) : n \notin DOMAIN R
      BY <3>1, <3>3
    <3>5. n \notin RowsIn(R, d)
      BY <3>4 DEF RowsIn
    <3>6. (\A i, j \in RowsIn(T, d) : i = j) => RowsIn(R, d) = {}
      BY <1>1, <3>3, <3>4, <3>5
    <3> QED BY <1>1, <3>1, <3>2, <3>3, <3>4, <3>6
  <2>2. CASE page[p].step # "market"
    <3> DEFINE f == [i \in DOMAIN R |-> [R[i] EXCEPT !.owner = p]]
    <3>1. RowsIn(R, d) # {} /\ v = FirstIn(R, d).level
      BY <1>3, <2>2
    <3>2. T = [i \in DOMAIN R |-> IF i \in RowsIn(R, d) THEN f[i] ELSE R[i]]
      BY <1>1, <1>2, <2>2 DEF Take
    <3>3. ASSUME NEW i \in DOMAIN R
          PROVE  f[i] \in Row /\ f[i].deed = R[i].deed /\ f[i].owner = p /\ f[i].level = R[i].level
      <4>1. R[i] \in Row
        BY <1>1
      <4>2. f[i] = [R[i] EXCEPT !.owner = p]
        OBVIOUS
      <4> HIDE DEF f, R
      <4> QED BY <4>1, <4>2 DEF Row
    <3>4. f \in [DOMAIN R -> Row]
      BY <3>3
    <3> HIDE DEF f, R, v
    <3>5. /\ T \in Seq(Row) /\ DOMAIN T = DOMAIN R
          /\ \A i \in DOMAIN R : T[i] = IF i \in RowsIn(R, d) THEN f[i] ELSE R[i]
      <4> DEFINE W == RowsIn(R, d)
      <4>1. T = [i \in DOMAIN R |-> IF i \in W THEN f[i] ELSE R[i]]
        BY <3>2
      <4> HIDE DEF W, T
      <4>2. /\ T \in Seq(Row) /\ DOMAIN T = DOMAIN R
            /\ \A i \in DOMAIN R : T[i] = IF i \in W THEN f[i] ELSE R[i]
        BY <1>1, <3>4, <4>1, RowsTable
      <4> QED BY <4>2 DEF W
    <3> HIDE DEF T
    <3>6. \A i \in RowsIn(R, d) : i \in DOMAIN R /\ T[i] = f[i]
      BY <3>5 DEF RowsIn
    <3>7. /\ \A e \in Deeds : /\ RowsIn(T, e) = RowsIn(R, e)
                              /\ e # d /\ RowsIn(R, e) # {} => FirstIn(T, e) = FirstIn(R, e)
          /\ RowsIn(R, d) # {} => \E i \in RowsIn(R, d) :
                FirstIn(R, d) = R[i] /\ FirstIn(T, d) = T[i]
      BY <1>1, <3>3, <3>5, RowsSet
    <3>8. PICK i \in RowsIn(R, d) : FirstIn(R, d) = R[i] /\ FirstIn(T, d) = T[i]
      BY <3>1, <3>7
    <3> QED BY <1>1, <2>2, <3>1, <3>3, <3>5, <3>6, <3>7, <3>8
  <2> QED BY <2>1, <2>2
<1>8. v = IF page[p].step = "market" THEN 0 ELSE RowOf(d).level
  BY <1>2
<1>9. (Once(d) <=> \A i, j \in RowsIn(R, d) : i = j) /\ (Once(d)' <=> \A i, j \in RowsIn(T, d) : i = j)
  BY <1>2 DEF Once
<1>10. Once(d)' => RowOf(d)'.owner = p /\ RowOf(d)'.level = v
  BY <1>2, <1>6, <1>9
<1> HIDE DEF v, R, T
<1>11. /\ RowsOf(d)' # {}
       /\ \A e \in Deeds : RowsOf(e) \subseteq RowsOf(e)'
       /\ \A e \in Deeds \ {d} : /\ RowsOf(e)' = RowsOf(e)
                                 /\ RowsOf(e) # {} => RowOf(e)' = RowOf(e)
  BY <1>2, <1>6
<1>12. Once(d)' => Once(d) /\ (page[p].step = "market" => RowsOf(d) = {})
  BY <1>2, <1>6, <1>9
<1> QED BY <1>1, <1>4, <1>5, <1>6, <1>8, <1>10, <1>11, <1>12 DEF T

\* An upgrade: the property's capacity is one more, and its owner the same.
LEMMA UpgradeWrites ==
    ASSUME TypeInv, NEW p \in Players, NEW d \in Deeds, Upgrade(p, d)
    PROVE  /\ rows' \in Seq(Row)
           /\ \A e \in Deeds : /\ RowsOf(e)' = RowsOf(e)
                               /\ e # d /\ RowsOf(e) # {} => RowOf(e)' = RowOf(e)
           /\ RowsOf(d) # {} /\ RowOf(d).owner = p
           /\ \E v \in Nat : /\ Send(p, Raised(p, d, page[p].loads, v))
                            /\ RowOf(d)'.owner = p /\ RowOf(d)'.level = v
<1> DEFINE R == rows  T == rows'
<1>1. TypeOK /\ R \in Seq(Row) /\ page[p].loads \in Nat
  BY PageType DEF TypeInv, TypeOK
<1>2. /\ \A e : RowsOf(e) = RowsIn(R, e) /\ RowOf(e) = FirstIn(R, e)
      /\ \A e : RowsOf(e)' = RowsIn(T, e) /\ RowOf(e)' = FirstIn(T, e)
  BY RowsAre, RowsAreNext
<1>3. RowsIn(R, d) # {} /\ FirstIn(R, d).owner = p
  BY <1>2 DEF Upgrade
<1> DEFINE v == FirstIn(R, d).level + 1
           m == Raised(p, d, page[p].loads, v)
<1>4. v \in Nat
  <2>1. FirstIn(R, d) \in Row
    BY <1>1, <1>2, <1>3, FirstRow
  <2> QED BY <2>1 DEF Row
<1>5. Send(p, m)
  BY <1>2 DEF Upgrade, Raised
<1> DEFINE f == [i \in DOMAIN R |-> [R[i] EXCEPT !.level = v]]
<1>6. T = [i \in DOMAIN R |-> IF i \in RowsIn(R, d) THEN f[i] ELSE R[i]]
  BY <1>1, <1>2 DEF Upgrade
<1> HIDE DEF v
<1>8. ASSUME NEW i \in DOMAIN R
      PROVE  f[i] \in Row /\ f[i].deed = R[i].deed /\ f[i].owner = R[i].owner /\ f[i].level = v
  <2>1. R[i] \in Row
    BY <1>1
  <2>2. f[i] = [R[i] EXCEPT !.level = v]
    OBVIOUS
  <2> HIDE DEF f, R
  <2> QED BY <1>4, <2>1, <2>2 DEF Row
<1>9. f \in [DOMAIN R -> Row]
  BY <1>8
<1> HIDE DEF f, R
<1>10. /\ T \in Seq(Row) /\ DOMAIN T = DOMAIN R
       /\ \A i \in DOMAIN R : T[i] = IF i \in RowsIn(R, d) THEN f[i] ELSE R[i]
  <2> DEFINE W == RowsIn(R, d)
  <2>1. T = [i \in DOMAIN R |-> IF i \in W THEN f[i] ELSE R[i]]
    BY <1>6
  <2> HIDE DEF W, T
  <2>2. /\ T \in Seq(Row) /\ DOMAIN T = DOMAIN R
        /\ \A i \in DOMAIN R : T[i] = IF i \in W THEN f[i] ELSE R[i]
    BY <1>1, <1>9, <2>1, RowsTable
  <2> QED BY <2>2 DEF W
<1> HIDE DEF T
<1>11. /\ \A e \in Deeds : /\ RowsIn(T, e) = RowsIn(R, e)
                           /\ e # d /\ RowsIn(R, e) # {} => FirstIn(T, e) = FirstIn(R, e)
       /\ RowsIn(R, d) # {} => \E i \in RowsIn(R, d) :
             FirstIn(R, d) = R[i] /\ FirstIn(T, d) = T[i]
  BY <1>1, <1>8, <1>10, RowsSet
<1>12. PICK i \in RowsIn(R, d) : FirstIn(R, d) = R[i] /\ FirstIn(T, d) = T[i]
  BY <1>3, <1>11
<1>13. FirstIn(T, d).owner = p /\ FirstIn(T, d).level = v
  <2>1. i \in DOMAIN R /\ T[i] = f[i]
    BY <1>10, <1>12 DEF RowsIn
  <2> QED BY <1>3, <1>8, <1>12, <2>1
<1>14. RowOf(d)'.owner = p /\ RowOf(d)'.level = v
  BY <1>2, <1>13
<1>15. T = rows'
  BY DEF T
<1> QED BY <1>2, <1>3, <1>4, <1>5, <1>10, <1>11, <1>14, <1>15

LEMMA TakeType ==
    ASSUME TypeInv, NEW p \in Players, Take(p)
    PROVE  TypeInv'
<1>1. TypeOK /\ DealsOK
  BY DEF TypeInv
<1>2. /\ page' \in [Players -> Page] /\ \A q \in Players \ {p} : page'[q] = page[q]
      /\ page'[p].deal = page[p].deal /\ page'[p].step = "asked"
  BY <1>1, TakePage
<1>3. PICK d : d = page[p].deal
  OBVIOUS
<1>4. /\ d \in Deeds /\ rows' \in Seq(Row)
      /\ \A e \in Deeds : RowsOf(e) \subseteq RowsOf(e)'
      /\ \E m \in Message : Send(p, m)
  <2>1. PICK v \in Nat : Send(p, Sold(p, d, page[p].loads, v))
    BY <1>3, TakeWrites
  <2>2. d \in Deeds /\ page[p].loads \in Nat
    BY <1>1, <1>3, TakeWrites, PageType
  <2>3. Sold(p, d, page[p].loads, v) \in Message
    BY <2>2, SoldIs
  <2> QED BY <1>3, <2>1, <2>3, TakeWrites
<1>5. UNCHANGED <<turn, answers, queue, registered, lingering, copy, claimed>>
  BY DEF Take
<1>6. /\ outbox' \in Seq(Message) /\ count' \in [changes : 0 .. MaxChanges, breaks : 0 .. MaxBreaks]
      /\ missed' \in [Players -> SUBSET (Deeds \cup {"turn", "claim"})]
  BY <1>1, <1>4, SendType
<1>7. TypeOK'
  BY <1>1, <1>2, <1>4, <1>5, <1>6 DEF TypeOK
<1>8. DealsOK'
  <2>1. \A e \in Deeds : RowsOf(e) # {} => RowsOf(e)' # {}
    BY <1>4
  <2> QED BY <1>2, <1>3, <1>4, <2>1, DealsKept, Constants
<1> QED BY <1>7, <1>8 DEF TypeInv

LEMMA UpgradeType ==
    ASSUME TypeInv, NEW p \in Players, NEW d \in Deeds, Upgrade(p, d)
    PROVE  TypeInv'
<1>1. TypeOK /\ DealsOK
  BY DEF TypeInv
<1>2. /\ page' \in [Players -> Page] /\ \A q \in Players \ {p} : page'[q] = page[q]
      /\ page'[p].deal = d /\ page'[p].step = "asked"
  BY <1>1, UpgradePage
<1>3. /\ rows' \in Seq(Row) /\ \A e \in Deeds : RowsOf(e)' = RowsOf(e)
      /\ \E m \in Message : Send(p, m)
  <2>1. PICK v \in Nat : Send(p, Raised(p, d, page[p].loads, v))
    BY UpgradeWrites
  <2>2. page[p].loads \in Nat
    BY <1>1, PageType
  <2>3. Raised(p, d, page[p].loads, v) \in Message
    BY <2>2, RaisedIs
  <2> QED BY <2>1, <2>3, UpgradeWrites
<1>4. UNCHANGED <<turn, answers, queue, registered, lingering, copy, claimed>>
  BY DEF Upgrade
<1>5. /\ outbox' \in Seq(Message) /\ count' \in [changes : 0 .. MaxChanges, breaks : 0 .. MaxBreaks]
      /\ missed' \in [Players -> SUBSET (Deeds \cup {"turn", "claim"})]
  BY <1>1, <1>3, SendType
<1>6. TypeOK'
  BY <1>1, <1>2, <1>3, <1>4, <1>5 DEF TypeOK
<1>7. DealsOK'
  <2>1. \A e \in Deeds : RowsOf(e) # {} => RowsOf(e)' # {}
    BY <1>3
  <2> QED BY <1>2, <2>1, DealsKept, Constants
<1> QED BY <1>6, <1>7 DEF TypeInv

-----------------------------------------------------------------------------
(* Messages and answers, as the page writes them to its copy. *)

LEMMA BoughtIs ==
    ASSUME NEW c \in Copies, NEW p \in Players, NEW d \in Deeds, NEW owner \in Players,
           NEW level \in Nat, NEW b, b = Repositioned(Updated(c, p, d, owner, level), p)
    PROVE  /\ b \in Copies /\ b[d].owner = owner /\ b[d].level = level
           /\ \A e \in Deeds \ {d} : b[e].owner = c[e].owner /\ b[e].level = c[e].level
           /\ Stacked(c, p) => Stacked(b, p)
<1> DEFINE u == Updated(c, p, d, owner, level)
<1>1. /\ u \in Copies /\ u[d].owner = owner /\ u[d].level = level
      /\ \A e \in Deeds \ {d} : u[e] = c[e]
  BY UpdatedIs
<1>2. Stacked(c, p) => \E k : Gapped(u, p, k)
  BY UpdatedStacks
<1>3. b = Repositioned(u, p)
  OBVIOUS
<1> HIDE DEF u
<1> DEFINE v == Repositioned(u, p)
<1>4. /\ v \in Copies /\ \A e \in Deeds : v[e].owner = u[e].owner /\ v[e].level = u[e].level
  BY <1>1, RepositionedKeeps
<1>5. Stacked(c, p) => Stacked(v, p)
  BY <1>1, <1>2, GapCloses
<1>6. b = v
  BY <1>3
<1> HIDE DEF v
<1> QED BY <1>1, <1>4, <1>5, <1>6

LEMMA LeveledIs ==
    ASSUME NEW c \in Copies, NEW p \in Players, NEW m \in Message, m.about # "turn",
           NEW b, b = Leveled(c, m)
    PROVE  /\ b \in Copies /\ b[m.about].owner = c[m.about].owner
           /\ b[m.about].level = IF c[m.about].owner = m.owner THEN m.level ELSE c[m.about].level
           /\ \A e \in Deeds \ {m.about} : b[e].owner = c[e].owner /\ b[e].level = c[e].level
           /\ Stacked(c, p) => Stacked(b, p)
<1>1. PICK d \in Deeds : d = m.about
  BY MessageType
<1>2. m.level \in Nat /\ c[d] \in Card
  BY <1>1, MessageType DEF Copies
<1>3. CASE c[d].owner # m.owner
  BY <1>1, <1>3 DEF Leveled
<1>4. CASE c[d].owner = m.owner
  <2> DEFINE r == [c[d] EXCEPT !.level = m.level]
  <2>1. r \in Card /\ r.owner = c[d].owner /\ r.position = c[d].position /\ r.level = m.level
    BY <1>2 DEF Card
  <2>2. b = [c EXCEPT ![d] = r]
    BY <1>1, <1>4 DEF Leveled
  <2> HIDE DEF r
  <2>3. b \in Copies /\ b[d] = r /\ \A e \in Deeds \ {d} : b[e] = c[e]
    BY <2>1, <2>2 DEF Copies
  <2>4. Hand(b, p) = Hand(c, p) /\ \A e \in Deeds : b[e].position = c[e].position
    BY <2>1, <2>3 DEF Hand
  <2>5. Positions(b, p) = Positions(c, p)
    BY <2>4 DEF Positions, Hand
  <2>6. Stacked(c, p) => Stacked(b, p)
    <3>1. \A e \in Hand(c, p) : e \in Deeds
      BY DEF Hand
    <3> QED BY <2>4, <2>5, <3>1 DEF Stacked, Apart
  <2> QED BY <1>1, <1>4, <2>1, <2>3, <2>6
<1> QED BY <1>3, <1>4

LEMMA DeedHeardIs ==
    ASSUME NEW c \in Copies, NEW p \in Players, NEW m \in Message, m.about # "turn",
           NEW b, b = DeedHeard(c, p, m)
    PROVE  /\ b \in Copies
           /\ m.sale => b[m.about].owner = m.owner /\ b[m.about].level = m.level
           /\ ~m.sale => /\ b[m.about].owner = c[m.about].owner
                         /\ c[m.about].owner = m.owner => b[m.about].level = m.level
           /\ \A e \in Deeds \ {m.about} : b[e].owner = c[e].owner /\ b[e].level = c[e].level
           /\ Stacked(c, p) => Stacked(b, p)
<1>1. m.about \in Deeds /\ m.owner \in Players /\ m.level \in Nat /\ m.sale \in BOOLEAN
  BY MessageType
<1>2. CASE m.sale
  <2>1. b = Repositioned(Updated(c, p, m.about, m.owner, m.level), p)
    BY <1>2 DEF DeedHeard
  <2> QED BY <1>1, <1>2, <2>1, BoughtIs
<1>3. CASE ~m.sale
  <2>1. b = Leveled(c, m)
    BY <1>3 DEF DeedHeard
  <2> QED BY <1>1, <1>3, <2>1, LeveledIs
<1> QED BY <1>2, <1>3

\* The answer to the page's own request.
AnswerWritten(c, p, m, looked) ==
    IF m.sale THEN Repositioned(Updated(c, p, m.about, p, looked), p) ELSE Leveled(c, m)

LEMMA AnswerWrittenIs ==
    ASSUME NEW c \in Copies, NEW p \in Players, NEW m \in Message, m.about # "turn",
           NEW looked \in Nat, NEW b, b = AnswerWritten(c, p, m, looked)
    PROVE  /\ b \in Copies
           /\ m.sale => b[m.about].owner = p /\ b[m.about].level = looked
           /\ ~m.sale => /\ b[m.about].owner = c[m.about].owner
                         /\ c[m.about].owner = m.owner => b[m.about].level = m.level
           /\ \A e \in Deeds \ {m.about} : b[e].owner = c[e].owner /\ b[e].level = c[e].level
           /\ Stacked(c, p) => Stacked(b, p)
<1>1. m.about \in Deeds /\ m.owner \in Players /\ m.level \in Nat /\ m.sale \in BOOLEAN
  BY MessageType
<1>2. CASE m.sale
  <2>1. b = Repositioned(Updated(c, p, m.about, p, looked), p)
    BY <1>2 DEF AnswerWritten
  <2> QED BY <1>1, <1>2, <2>1, BoughtIs
<1>3. CASE ~m.sale
  <2>1. b = Leveled(c, m)
    BY <1>3 DEF AnswerWritten
  <2> QED BY <1>1, <1>3, <2>1, LeveledIs
<1> QED BY <1>2, <1>3

-----------------------------------------------------------------------------
(* Types, of the messages on their way. *)

\* What Notify and NotifyFails do to the network, to whom they tell m.
LEMMA MessageLeaves ==
    ASSUME TypeOK, NEW i \in DOMAIN outbox, NEW m, m = outbox[i], NEW told \in SUBSET Players,
           outbox' = RemoveAt(outbox, i),
           queue' = [q \in Players |-> IF q \in told THEN Append(queue[q], m) ELSE queue[q]]
    PROVE  /\ m \in Message /\ m.by \in Players /\ m.about \in Abouts
           /\ outbox' \in Seq(Message) /\ queue' \in [Players -> Seq(Message)]
<1>1. outbox \in Seq(Message) /\ queue \in [Players -> Seq(Message)]
  BY DEF TypeOK
<1>2. m \in Message
  BY <1>1
<1>3. outbox' \in Seq(Message)
  BY <1>1, Removed
<1>4. \A q \in Players : queue[q] \in Seq(Message) /\ Append(queue[q], m) \in Seq(Message)
  BY <1>1, <1>2
<1> QED BY <1>2, <1>3, <1>4, MessageType

\* Who is not made unsure was told, in order, or has sent it.
LEMMA SentMissed ==
    ASSUME TypeOK, NEW i \in DOMAIN outbox, NEW m, m = outbox[i], NEW told \in SUBSET Players,
           Sent(i, told)
    PROVE  /\ missed' \in [Players -> SUBSET (Deeds \cup {"turn", "claim"})]
           /\ \A q \in Players : missed[q] \subseteq missed'[q]
           /\ \A q \in Players : m.about \notin missed'[q] =>
                 /\ \A j \in DOMAIN outbox : outbox[j].about = m.about => i <= j
                 /\ q = m.by \/ (q \in told /\ q \notin Exposed(m.about))
           /\ m.about = "turn" => \A q \in Players : "claim" \notin missed'[q] =>
                 /\ \A j \in DOMAIN outbox : outbox[j].about = m.about => i <= j
                 /\ \/ q = m.by \/ (q \in told /\ q \notin Exposed(m.about))
                    \/ Holder(page[q].turn) # q
<1> DEFINE overtakes == Overtakes(i)
           unsure == IF overtakes THEN Players
                     ELSE ((Players \ told) \cup Exposed(m.about)) \ {m.by}
           x == Doubt(i)
           w == {m.about}
<1>1. missed' = [q \in Players |-> IF q \notin unsure THEN missed[q] ELSE Missing(q, w) \cup x]
  BY DEF Sent
<1>2. m \in Message /\ m.about \in Abouts /\ DOMAIN outbox = 1 .. Len(outbox) /\ Len(outbox) \in Nat
  BY MessageType DEF TypeOK
<1>3. ~overtakes => \A j \in DOMAIN outbox : outbox[j].about = m.about => i <= j
  BY <1>2 DEF Overtakes
<1>4. overtakes => unsure = Players
  OBVIOUS
<1>5. ~overtakes => \A q \in Players : q \notin unsure =>
         q = m.by \/ (q \in told /\ q \notin Exposed(m.about))
  OBVIOUS
<1>6. x \in SUBSET (Deeds \cup {"turn", "claim"}) /\ (overtakes /\ m.about = "turn" => "claim" \in x)
  BY DEF Doubt
<1>7. w \in SUBSET Abouts /\ m.about \in w
  BY <1>2
<1> HIDE DEF overtakes, unsure, x
<1>8. ASSUME NEW q \in Players
      PROVE  /\ missed[q] \in SUBSET (Deeds \cup {"turn", "claim"})
             /\ Missing(q, w) \in SUBSET (Deeds \cup {"turn", "claim"})
             /\ missed[q] \subseteq Missing(q, w) /\ m.about \in Missing(q, w)
             /\ m.about = "turn" /\ Holder(page[q].turn) = q => "claim" \in Missing(q, w)
  <2>1. /\ Missing(q, w) \in SUBSET (Deeds \cup {"turn", "claim"})
        /\ missed[q] \subseteq Missing(q, w) /\ w \subseteq Missing(q, w)
    <3> HIDE DEF w
    <3> QED BY <1>7, MissingType
  <2>2. m.about = "turn" /\ Holder(page[q].turn) = q => "claim" \in Missing(q, w)
    BY <1>7 DEF Missing
  <2>3. missed[q] \in SUBSET (Deeds \cup {"turn", "claim"})
    BY DEF TypeOK
  <2> QED BY <1>7, <2>1, <2>2, <2>3
<1> HIDE DEF w
<1>9. missed' \in [Players -> SUBSET (Deeds \cup {"turn", "claim"})]
  BY <1>1, <1>6, <1>8
<1>10. \A q \in Players : missed[q] \subseteq missed'[q]
  BY <1>1, <1>8
<1>11. ASSUME NEW q \in Players, m.about \notin missed'[q]
       PROVE  /\ \A j \in DOMAIN outbox : outbox[j].about = m.about => i <= j
              /\ q = m.by \/ (q \in told /\ q \notin Exposed(m.about))
  <2>1. q \notin unsure
    BY <1>1, <1>8, <1>11
  <2>2. ~overtakes
    BY <1>4, <2>1
  <2> QED BY <1>3, <1>5, <2>1, <2>2
<1>12. ASSUME m.about = "turn", NEW q \in Players, "claim" \notin missed'[q]
       PROVE  /\ \A j \in DOMAIN outbox : outbox[j].about = m.about => i <= j
              /\ \/ q = m.by \/ (q \in told /\ q \notin Exposed(m.about))
                 \/ Holder(page[q].turn) # q
  <2>1. q \notin unsure \/ Holder(page[q].turn) # q
    BY <1>1, <1>8, <1>12
  <2>2. ~overtakes
    BY <1>1, <1>4, <1>6, <1>12
  <2> QED BY <1>3, <1>5, <2>1, <2>2
<1> QED BY <1>9, <1>10, <1>11, <1>12

\* A message that fails leaves everybody unsure.
LEMMA FailsMissed ==
    ASSUME TypeOK, NEW i \in DOMAIN outbox, NEW m, m = outbox[i],
           missed' = [q \in Players |-> Missing(q, {m.about}) \cup Doubt(i)]
    PROVE  /\ missed' \in [Players -> SUBSET (Deeds \cup {"turn", "claim"})]
           /\ \A q \in Players : m.about \in missed'[q] /\ missed[q] \subseteq missed'[q]
<1> DEFINE w == {m.about}  x == Doubt(i)
<1>1. missed' = [q \in Players |-> Missing(q, w) \cup x]
  OBVIOUS
<1>2. m \in Message /\ m.about \in Abouts
  BY MessageType DEF TypeOK
<1>3. x \in SUBSET (Deeds \cup {"turn", "claim"})
  BY DEF Doubt
<1>4. w \in SUBSET Abouts /\ m.about \in w
  BY <1>2
<1> HIDE DEF x, w
<1>5. ASSUME NEW q \in Players
      PROVE  /\ Missing(q, w) \in SUBSET (Deeds \cup {"turn", "claim"})
             /\ missed[q] \subseteq Missing(q, w) /\ w \subseteq Missing(q, w)
  BY <1>4, MissingType
<1>6. missed' \in [Players -> SUBSET (Deeds \cup {"turn", "claim"})]
  BY <1>1, <1>3, <1>5
<1>7. \A q \in Players : m.about \in missed'[q] /\ missed[q] \subseteq missed'[q]
  BY <1>1, <1>4, <1>5
<1> QED BY <1>6, <1>7

LEMMA NotifyType ==
    ASSUME TypeInv, NEW i \in DOMAIN outbox, Notify(i)
    PROVE  TypeInv'
<1>1. TypeOK /\ DealsOK
  BY DEF TypeInv
<1>2. PICK m : m = outbox[i]
  OBVIOUS
<1>3. PICK told \in SUBSET Players : told = Recipients(m)
  BY DEF Recipients
<1>4. /\ outbox' = RemoveAt(outbox, i)
      /\ queue' = [q \in Players |-> IF q \in told THEN Append(queue[q], m) ELSE queue[q]]
  BY <1>2, <1>3 DEF Notify, Sent
<1>5. /\ m \in Message /\ m.by \in Players /\ m.about \in Abouts
      /\ outbox' \in Seq(Message) /\ queue' \in [Players -> Seq(Message)]
  BY <1>1, <1>2, <1>4, MessageLeaves
<1>6. answers' \in [Players -> SUBSET Message]
  BY <1>1, <1>2, <1>5 DEF Notify, TypeOK
<1>7. missed' \in [Players -> SUBSET (Deeds \cup {"turn", "claim"})]
  BY <1>1, <1>2, <1>3, SentMissed DEF Notify
<1>8. UNCHANGED <<server, registered, lingering, page, copy, claimed, count>>
  BY DEF Notify
<1>9. TypeOK'
  BY <1>1, <1>5, <1>6, <1>7, <1>8 DEF TypeOK, server
<1>10. DealsOK'
  BY <1>1, <1>8 DEF DealsOK, RowsOf, server
<1> QED BY <1>9, <1>10 DEF TypeInv

LEMMA NotifyFailsType ==
    ASSUME TypeInv, NEW i \in DOMAIN outbox, NotifyFails(i)
    PROVE  TypeInv'
<1>1. TypeOK /\ DealsOK
  BY DEF TypeInv
<1>2. PICK m : m = outbox[i]
  OBVIOUS
<1>3. PICK told \in SUBSET Recipients(m) :
         /\ outbox' = RemoveAt(outbox, i)
         /\ queue' = [q \in Players |-> IF q \in told THEN Append(queue[q], m) ELSE queue[q]]
         /\ missed' = [q \in Players |-> Missing(q, {m.about}) \cup Doubt(i)]
  BY <1>2 DEF NotifyFails
<1>4. told \in SUBSET Players
  BY DEF Recipients
<1>5. /\ m \in Message /\ m.by \in Players /\ m.about \in Abouts
      /\ outbox' \in Seq(Message) /\ queue' \in [Players -> Seq(Message)]
  BY <1>1, <1>2, <1>3, <1>4, MessageLeaves
<1>6. missed' \in [Players -> SUBSET (Deeds \cup {"turn", "claim"})]
  BY <1>1, <1>2, <1>3, FailsMissed
<1>7. UNCHANGED <<server, answers, registered, lingering, copy, claimed, count>>
  BY DEF NotifyFails
<1>8. /\ page' \in [Players -> Page] /\ \A q \in Players \ {m.by} : page'[q] = page[q]
      /\ page'[m.by].deal = NoDeed <=> page'[m.by].step = "no"
      /\ page'[m.by].step = "owner" => /\ page[m.by].step = "owner"
                                       /\ page'[m.by].deal = page[m.by].deal
  <2>1. CASE ~Waiting(m)
    <3>1. page' = page
      BY <1>2, <2>1 DEF NotifyFails
    <3> QED BY <1>1, <1>5, <3>1 DEF TypeOK, DealsOK
  <2>2. CASE Waiting(m) /\ m.about = "turn"
    <3>1. /\ page' \in [Players -> Page] /\ \A q \in Players \ {m.by} : page'[q] = page[q]
          /\ page'[m.by].deal = page[m.by].deal /\ page'[m.by].step = page[m.by].step
      BY <1>1, <1>2, <1>5, <2>2, FailsTurnPage
    <3> QED BY <1>1, <1>5, <3>1 DEF DealsOK
  <2>3. CASE Waiting(m) /\ m.about # "turn"
    BY <1>1, <1>2, <1>5, <2>3, FailsDeedPage
  <2> QED BY <2>1, <2>2, <2>3
<1>9. TypeOK'
  BY <1>1, <1>5, <1>6, <1>7, <1>8 DEF TypeOK, server
<1>10. DealsOK'
  BY <1>1, <1>5, <1>7, <1>8, DealsKept, RowsSame DEF server
<1> QED BY <1>9, <1>10 DEF TypeInv

LEMMA DeliverIs ==
    ASSUME TypeOK, NEW p \in Players, NEW m, m = Head(queue[p]), Deliver(p)
    PROVE  /\ m \in Message /\ queue[p] \in Seq(Message) /\ queue[p] # <<>>
           /\ queue' \in [Players -> Seq(Message)] /\ queue'[p] = Tail(queue[p])
           /\ \A q \in Players \ {p} : queue'[q] = queue[q]
           /\ page' \in [Players -> Page] /\ \A q \in Players \ {p} : page'[q] = page[q]
           /\ /\ page'[p].at = page[p].at /\ page'[p].hears = page[p].hears
              /\ page'[p].claiming = page[p].claiming /\ page'[p].passing = page[p].passing
              /\ page'[p].deal = page[p].deal /\ page'[p].step = page[p].step
              /\ page'[p].looked = page[p].looked /\ page'[p].loads = page[p].loads
           /\ m.about = "turn" =>
                 /\ page'[p].turn = m.turn /\ m.turn \in Nat /\ copy' = copy
                 /\ page'[p].first = (page[p].first \/ Holder(m.turn) = p)
           /\ m.about # "turn" =>
                 /\ page'[p].turn = page[p].turn /\ page'[p].first = page[p].first
                 /\ copy'[p] = DeedHeard(copy[p], p, m)
           /\ copy' \in [Players -> Copies] /\ \A q \in Players \ {p} : copy'[q] = copy[q]
           /\ UNCHANGED <<server, outbox, answers, registered, lingering, history>>
<1>1. /\ queue \in [Players -> Seq(Message)] /\ page \in [Players -> Page]
      /\ copy \in [Players -> Copies] /\ queue[p] \in Seq(Message) /\ queue[p] # <<>>
  BY DEF TypeOK, Copies, Deliver
<1>2. m \in Message /\ Tail(queue[p]) \in Seq(Message)
  BY <1>1, HeadRemoved
<1>3. queue' = [queue EXCEPT ![p] = Tail(queue[p])]
  BY DEF Deliver, Hear
<1>4. /\ queue' \in [Players -> Seq(Message)] /\ queue'[p] = Tail(queue[p])
      /\ \A q \in Players \ {p} : queue'[q] = queue[q]
  BY <1>1, <1>2, <1>3
<1>5. CASE m.about = "turn"
  <2>1. m.turn \in Nat
    BY <1>2, <1>5, MessageType
  <2>2. page' = [page EXCEPT ![p] = TurnHeard(@, p, m.turn)] /\ copy' = copy
    BY <1>5 DEF Deliver, Hear
  <2>3. PICK t \in Nat : t = m.turn
    BY <2>1
  <2>4. page' = [page EXCEPT ![p] = TurnHeard(@, p, t)]
    BY <2>2, <2>3
  <2>5. /\ page' \in [Players -> Page] /\ \A q \in Players \ {p} : page'[q] = page[q]
        /\ page'[p].turn = t /\ page'[p].first = (page[p].first \/ Holder(t) = p)
        /\ page'[p].at = page[p].at /\ page'[p].hears = page[p].hears
        /\ page'[p].claiming = page[p].claiming /\ page'[p].passing = page[p].passing
        /\ page'[p].deal = page[p].deal /\ page'[p].step = page[p].step
        /\ page'[p].looked = page[p].looked /\ page'[p].loads = page[p].loads
    BY <2>4, HearPage
  <2>6. UNCHANGED <<server, outbox, answers, registered, lingering, history>>
    BY DEF Deliver, Hear
  <2> QED BY <1>1, <1>2, <1>4, <1>5, <2>1, <2>2, <2>3, <2>5, <2>6
<1>6. CASE m.about # "turn"
  <2> DEFINE b == DeedHeard(copy[p], p, m)
  <2>1. copy' = [copy EXCEPT ![p] = b] /\ page' = page
    BY <1>6 DEF Deliver, Hear
  <2>2. copy[p] \in Copies
    BY <1>1
  <2>3. b \in Copies
    BY <1>2, <1>6, <2>2, DeedHeardIs
  <2>4. UNCHANGED <<server, outbox, answers, registered, lingering, history>>
    BY DEF Deliver, Hear
  <2> HIDE DEF b
  <2>5. copy' \in [Players -> Copies] /\ copy'[p] = b /\ \A q \in Players \ {p} : copy'[q] = copy[q]
    BY <1>1, <2>1, <2>3
  <2> QED BY <1>1, <1>2, <1>4, <1>6, <2>1, <2>4, <2>5 DEF b
<1> QED BY <1>5, <1>6

LEMMA AnswerIs ==
    ASSUME TypeOK, NEW p \in Players, Answer(p)
    PROVE  \E m \in answers[p] :
              /\ m \in Message
              /\ answers' \in [Players -> SUBSET Message] /\ answers'[p] = answers[p] \ {m}
              /\ \A q \in Players \ {p} : answers'[q] = answers[q]
              /\ page' \in [Players -> Page] /\ \A q \in Players \ {p} : page'[q] = page[q]
              /\ /\ page'[p].at = page[p].at /\ page'[p].hears = page[p].hears
                 /\ page'[p].claiming = page[p].claiming /\ page'[p].first = page[p].first
                 /\ page'[p].looked = page[p].looked /\ page'[p].loads = page[p].loads
              /\ m.about = "turn" =>
                    /\ page'[p].turn = m.turn /\ page'[p].passing = "no" /\ copy' = copy
                    /\ page'[p].deal = page[p].deal /\ page'[p].step = page[p].step
              /\ m.about # "turn" =>
                    /\ page'[p].turn = page[p].turn /\ page'[p].passing = page[p].passing
                    /\ page'[p].deal = NoDeed /\ page'[p].step = "no"
                    /\ copy'[p] = AnswerWritten(copy[p], p, m, page[p].looked)
              /\ copy' \in [Players -> Copies] /\ \A q \in Players \ {p} : copy'[q] = copy[q]
              /\ UNCHANGED <<server, outbox, queue, registered, lingering, history>>
<1>1. PICK m \in answers[p] :
        /\ answers' = [answers EXCEPT ![p] = answers[p] \ {m}]
        /\ \/ /\ m.about = "turn"
              /\ page' = [page EXCEPT ![p].turn = m.turn, ![p].passing = "no"]
              /\ UNCHANGED copy
           \/ /\ m.about # "turn"
              /\ copy' = [copy EXCEPT ![p] = AnswerWritten(@, p, m, page[p].looked)]
              /\ page' = [page EXCEPT ![p].deal = NoDeed, ![p].step = "no"]
        /\ UNCHANGED <<server, outbox, queue, registered, lingering, history>>
  BY DEF Answer, AnswerWritten
<1>2. /\ page \in [Players -> Page] /\ answers \in [Players -> SUBSET Message]
      /\ copy \in [Players -> Copies] /\ copy[p] \in Copies /\ page[p].looked \in Nat
  BY PageType DEF TypeOK, Copies
<1>3. m \in Message
  BY <1>2
<1>4. /\ answers' \in [Players -> SUBSET Message] /\ answers'[p] = answers[p] \ {m}
      /\ \A q \in Players \ {p} : answers'[q] = answers[q]
  <2> DEFINE x == answers[p] \ {m}
  <2>1. x \in SUBSET Message /\ answers' = [answers EXCEPT ![p] = x]
    BY <1>1, <1>2
  <2> HIDE DEF x
  <2>2. /\ answers' \in [Players -> SUBSET Message] /\ answers'[p] = x
        /\ \A q \in Players \ {p} : answers'[q] = answers[q]
    BY <1>2, <2>1
  <2> QED BY <2>2 DEF x
<1>5. CASE m.about = "turn"
  <2>1. PICK t \in Nat : t = m.turn
    BY <1>3, <1>5, MessageType
  <2>2. page' = [page EXCEPT ![p].turn = t, ![p].passing = "no"] /\ copy' = copy
    BY <1>1, <1>5, <2>1
  <2>3. /\ page' \in [Players -> Page] /\ \A q \in Players \ {p} : page'[q] = page[q]
        /\ page'[p].turn = t /\ page'[p].passing = "no"
        /\ page'[p].at = page[p].at /\ page'[p].hears = page[p].hears
        /\ page'[p].claiming = page[p].claiming /\ page'[p].first = page[p].first
        /\ page'[p].deal = page[p].deal /\ page'[p].step = page[p].step
        /\ page'[p].looked = page[p].looked /\ page'[p].loads = page[p].loads
    BY <2>2, AnswerTurnPage
  <2> QED BY <1>1, <1>2, <1>3, <1>4, <1>5, <2>1, <2>2, <2>3
<1>6. CASE m.about # "turn"
  <2> DEFINE b == AnswerWritten(copy[p], p, m, page[p].looked)
  <2>1. copy' = [copy EXCEPT ![p] = b]
    BY <1>1, <1>6
  <2>2. b \in Copies
    BY <1>2, <1>3, <1>6, AnswerWrittenIs
  <2> HIDE DEF b
  <2>3. copy' \in [Players -> Copies] /\ copy'[p] = b /\ \A q \in Players \ {p} : copy'[q] = copy[q]
    BY <1>2, <2>1, <2>2
  <2>4. page' = [page EXCEPT ![p].deal = NoDeed, ![p].step = "no"]
    BY <1>1, <1>6
  <2>5. /\ page' \in [Players -> Page] /\ \A q \in Players \ {p} : page'[q] = page[q]
        /\ page'[p].deal = NoDeed /\ page'[p].step = "no"
        /\ page'[p].at = page[p].at /\ page'[p].hears = page[p].hears
        /\ page'[p].turn = page[p].turn /\ page'[p].passing = page[p].passing
        /\ page'[p].claiming = page[p].claiming /\ page'[p].first = page[p].first
        /\ page'[p].looked = page[p].looked /\ page'[p].loads = page[p].loads
    BY <2>4, AnswerDeedPage
  <2>6. copy'[p] = AnswerWritten(copy[p], p, m, page[p].looked)
    BY <2>3 DEF b
  <2> QED BY <1>1, <1>3, <1>4, <1>6, <2>3, <2>5, <2>6
<1> QED BY <1>5, <1>6

LEMMA HearType ==
    ASSUME TypeInv, NEW p \in Players, Deliver(p) \/ Answer(p)
    PROVE  TypeInv'
<1>1. TypeOK /\ DealsOK
  BY DEF TypeInv
<1>2. CASE Deliver(p)
  <2>1. PICK m : m = Head(queue[p])
    OBVIOUS
  <2>2. /\ queue' \in [Players -> Seq(Message)]
        /\ page' \in [Players -> Page] /\ \A q \in Players \ {p} : page'[q] = page[q]
        /\ page'[p].deal = page[p].deal /\ page'[p].step = page[p].step
        /\ copy' \in [Players -> Copies]
        /\ UNCHANGED <<server, outbox, answers, registered, lingering, history>>
    BY <1>1, <1>2, <2>1, DeliverIs
  <2>3. TypeOK'
    BY <1>1, <2>2 DEF TypeOK, Copies, server, history
  <2>4. DealsOK'
    BY <1>1, <2>2, DealsKept, RowsSame DEF DealsOK, server
  <2> QED BY <2>3, <2>4 DEF TypeInv
<1>3. CASE Answer(p)
  <2>1. /\ answers' \in [Players -> SUBSET Message]
        /\ page' \in [Players -> Page] /\ \A q \in Players \ {p} : page'[q] = page[q]
        /\ \/ page'[p].deal = page[p].deal /\ page'[p].step = page[p].step
           \/ page'[p].deal = NoDeed /\ page'[p].step = "no"
        /\ copy' \in [Players -> Copies]
        /\ UNCHANGED <<server, outbox, queue, registered, lingering, history>>
    BY <1>1, <1>3, AnswerIs
  <2>2. TypeOK'
    BY <1>1, <2>1 DEF TypeOK, Copies, server, history
  <2>3. DealsOK'
    BY <1>1, <2>1, DealsKept, RowsSame DEF DealsOK, server
  <2> QED BY <2>2, <2>3 DEF TypeInv
<1> QED BY <1>2, <1>3

\* What is on its way to a page, as Missing takes it.
LEMMA AboutsOf ==
    ASSUME NEW s \in Seq(Message)
    PROVE  {s[i].about : i \in DOMAIN s} \in SUBSET Abouts
<1>1. \A i \in DOMAIN s : s[i] \in Message
  OBVIOUS
<1> QED BY <1>1, MessageType

LEMMA BreakType ==
    ASSUME TypeInv, NEW p \in Players, Leave(p) \/ Drop(p)
    PROVE  TypeInv'
<1>1. TypeOK /\ DealsOK
  BY DEF TypeInv
<1>2. /\ page' \in [Players -> Page] /\ \A q \in Players \ {p} : page'[q] = page[q]
      /\ \/ page'[p].deal = page[p].deal /\ page'[p].step = page[p].step
         \/ page'[p].deal = NoDeed /\ page'[p].step = "no"
  BY <1>1, LeavePage, DropPage
<1>3. missed' \in [Players -> SUBSET (Deeds \cup {"turn", "claim"})]
  <2> DEFINE w == {queue[p][i].about : i \in DOMAIN queue[p]}
  <2>1. w \in SUBSET Abouts
    <3>1. queue[p] \in Seq(Message)
      BY <1>1 DEF TypeOK
    <3> QED BY <3>1, AboutsOf
  <2>2. PICK x \in SUBSET {"claim"} : missed' = [missed EXCEPT ![p] = Missing(p, w) \cup x]
    <3>1. CASE Leave(p)
      <4> DEFINE y == IF page[p].passing # "no" \/ page[p].claiming THEN {"claim"} ELSE {}
      <4>1. missed' = [missed EXCEPT ![p] = Missing(p, w) \cup y]
        BY <3>1 DEF Leave
      <4>2. y \in SUBSET {"claim"}
        OBVIOUS
      <4> HIDE DEF y, w
      <4> QED BY <4>1, <4>2
    <3>2. CASE Drop(p)
      <4>1. missed' = [missed EXCEPT ![p] = Missing(p, w)]
        BY <3>2 DEF Drop
      <4>2. Missing(p, w) \cup {} = Missing(p, w)
        OBVIOUS
      <4> HIDE DEF w
      <4> QED BY <4>1, <4>2
    <3> QED BY <3>1, <3>2
  <2> HIDE DEF w
  <2>3. Missing(p, w) \in SUBSET (Deeds \cup {"turn", "claim"})
    BY <1>1, <2>1, MissingType
  <2> DEFINE v == Missing(p, w) \cup x
  <2>4. v \in SUBSET (Deeds \cup {"turn", "claim"}) /\ missed' = [missed EXCEPT ![p] = v]
    BY <2>2, <2>3
  <2> HIDE DEF v
  <2> QED BY <1>1, <2>4 DEF TypeOK
<1>4. count' \in [changes : 0 .. MaxChanges, breaks : 0 .. MaxBreaks]
  <2>1. /\ count \in [changes : 0 .. MaxChanges, breaks : 0 .. MaxBreaks]
        /\ count.breaks < MaxBreaks /\ count' = [count EXCEPT !.breaks = @ + 1]
    BY <1>1 DEF Leave, Drop, TypeOK
  <2>2. count.breaks + 1 \in 0 .. MaxBreaks
    BY <2>1, Constants
  <2> QED BY <2>1, <2>2
<1>5. /\ answers' = answers \/ answers' = [answers EXCEPT ![p] = {}]
      /\ queue' = [queue EXCEPT ![p] = <<>>]
      /\ lingering' = [lingering EXCEPT ![p] = TRUE]
      /\ registered' = registered \/ registered' = [registered EXCEPT ![p] = TRUE]
      /\ UNCHANGED <<server, outbox, copy, claimed>>
  BY DEF Leave, Drop
<1>6. TypeOK'
  <2>1. answers' \in [Players -> SUBSET Message] /\ queue' \in [Players -> Seq(Message)]
    <3>1. {} \in SUBSET Message /\ <<>> \in Seq(Message)
      OBVIOUS
    <3>2. answers \in [Players -> SUBSET Message] /\ queue \in [Players -> Seq(Message)]
      BY <1>1 DEF TypeOK
    <3>3. answers' \in [Players -> SUBSET Message]
      BY <1>5, <3>1, <3>2
    <3>4. queue' \in [Players -> Seq(Message)]
      BY <1>5, <3>1, <3>2
    <3> QED BY <3>3, <3>4
  <2>2. lingering' \in [Players -> BOOLEAN] /\ registered' \in [Players -> BOOLEAN]
    BY <1>1, <1>5 DEF TypeOK
  <2> QED BY <1>1, <1>2, <1>3, <1>4, <1>5, <2>1, <2>2 DEF TypeOK, server
<1>7. DealsOK'
  BY <1>1, <1>2, <1>5, DealsKept, RowsSame DEF DealsOK, server
<1> QED BY <1>6, <1>7 DEF TypeInv

LEMMA LoadType ==
    ASSUME TypeInv, NEW p \in Players, Load(p) \/ Disconnect(p)
    PROVE  TypeInv'
<1>1. TypeOK /\ DealsOK
  BY DEF TypeInv
<1>2. /\ page' \in [Players -> Page] /\ \A q \in Players \ {p} : page'[q] = page[q]
      /\ page'[p].deal = page[p].deal /\ page'[p].step = page[p].step
  <2>1. CASE Disconnect(p)
    BY <1>1, <2>1 DEF Disconnect, TypeOK
  <2> QED BY <1>1, <2>1, FetchTurnPage, FetchPropertiesPage, ConnectPage DEF Load
<1>3. copy' \in [Players -> Copies]
  <2>1. copy \in [Players -> Copies] /\ copy[p] \in Copies /\ rows \in Seq(Row)
    BY <1>1 DEF TypeOK, Copies
  <2>2. CASE FetchProperties(p)
    <3> DEFINE f == Fetched(copy[p], p)
    <3>1. f \in Copies /\ copy' = [copy EXCEPT ![p] = f]
      BY <2>1, <2>2, FetchedShows DEF FetchProperties
    <3> HIDE DEF f
    <3> QED BY <2>1, <3>1
  <2>3. CASE ~FetchProperties(p)
    BY <2>1, <2>3 DEF Load, FetchTurn, Connect, Disconnect
  <2> QED BY <2>2, <2>3
<1>4. missed' \in [Players -> SUBSET (Deeds \cup {"turn", "claim"})]
  <2>1. PICK v \in SUBSET (Deeds \cup {"turn", "claim"}) : missed' = [missed EXCEPT ![p] = v]
    <3>1. missed \in [Players -> SUBSET (Deeds \cup {"turn", "claim"})]
      BY <1>1 DEF TypeOK
    <3>2. CASE FetchTurn(p)
      <4>1. missed[p] \ {"turn"} \in SUBSET (Deeds \cup {"turn", "claim"})
        BY <3>1
      <4>2. missed' = [missed EXCEPT ![p] = missed[p] \ {"turn"}]
        BY <3>2 DEF FetchTurn
      <4> QED BY <4>1, <4>2
    <3>3. CASE FetchProperties(p)
      <4>1. missed[p] \ Deeds \in SUBSET (Deeds \cup {"turn", "claim"})
        BY <3>1
      <4>2. missed' = [missed EXCEPT ![p] = missed[p] \ Deeds]
        BY <3>3 DEF FetchProperties
      <4> QED BY <4>1, <4>2
    <3>4. CASE Connect(p)
      <4> DEFINE late == {outbox[i].about : i \in DOMAIN outbox}
                 v == missed[p] \cup late \cup (IF "turn" \in late THEN {"claim"} ELSE {})
      <4>1. late \in SUBSET Abouts
        BY <1>1, AboutsOf DEF TypeOK
      <4>2. missed' = [missed EXCEPT ![p] = v]
        BY <3>4 DEF Connect
      <4> HIDE DEF late
      <4>3. v \in SUBSET (Deeds \cup {"turn", "claim"})
        BY <3>1, <4>1 DEF Abouts
      <4> HIDE DEF v
      <4> QED BY <4>2, <4>3
    <3>5. CASE Disconnect(p)
      BY <3>1, <3>5 DEF Disconnect, history
    <3> QED BY <3>2, <3>3, <3>4, <3>5 DEF Load
  <2> QED BY <1>1, <2>1 DEF TypeOK
<1>5. /\ UNCHANGED <<server, outbox, answers, queue, claimed, count>>
      /\ registered' \in [Players -> BOOLEAN] /\ lingering' \in [Players -> BOOLEAN]
  BY <1>1 DEF Load, FetchTurn, FetchProperties, Connect, Disconnect, TypeOK, network, history
<1>6. TypeOK'
  BY <1>1, <1>2, <1>3, <1>4, <1>5 DEF TypeOK, Copies, server
<1>7. DealsOK'
  BY <1>1, <1>2, <1>5, DealsKept, RowsSame DEF DealsOK, server
<1> QED BY <1>6, <1>7 DEF TypeInv

\* A copy that shows no property yet.
Blank == [d \in Deeds |-> [owner |-> 0, level |-> 0, position |-> 0]]

LEMMA InitType == Init => TypeInv
<1> SUFFICES ASSUME Init PROVE TypeInv
  OBVIOUS
<1>1. turn \in Nat /\ rows \in Seq(Row) /\ outbox \in Seq(Message)
  <2>1. Row = [deed : Deeds, owner : 1 .. N, level : Nat]
    BY DEF Row, Players
  <2>2. rows = Dealt /\ Dealt \in Seq(Row)
    BY <2>1, PagesAssumption DEF Init
  <2>3. turn = 0 /\ outbox = <<>>
    BY DEF Init
  <2> QED BY <2>2, <2>3
<1>2. /\ answers \in [Players -> SUBSET Message] /\ queue \in [Players -> Seq(Message)]
      /\ registered \in [Players -> BOOLEAN] /\ lingering \in [Players -> BOOLEAN]
      /\ missed \in [Players -> SUBSET (Deeds \cup {"turn", "claim"})]
      /\ claimed \in [Players -> Nat]
  BY Constants DEF Init
<1>3. page \in [Players -> Page] /\ \A p \in Players : page[p].deal = NoDeed /\ page[p].step = "no"
  BY DEF Init, Page
<1>4. copy \in [Players -> [Deeds -> Card]]
  <2>1. Blank \in Copies
    BY DEF Copies, Card, Blank
  <2>2. \A p \in Players : Fetched(Blank, p) \in Copies
    BY <1>1, <2>1, FetchedShows
  <2>3. copy = [p \in Players |-> Fetched(Blank, p)]
    BY DEF Init, Blank
  <2> QED BY <2>2, <2>3 DEF Copies
<1>5. count \in [changes : 0 .. MaxChanges, breaks : 0 .. MaxBreaks]
  BY Constants DEF Init
<1>6. TypeOK
  BY <1>1, <1>2, <1>3, <1>4, <1>5 DEF TypeOK
<1>7. DealsOK
  BY <1>3 DEF DealsOK
<1> QED BY <1>6, <1>7 DEF TypeInv

LEMMA NextType == TypeInv /\ [Next]_vars => TypeInv'
<1> SUFFICES ASSUME TypeInv, [Next]_vars PROVE TypeInv'
  OBVIOUS
<1>1. ASSUME NEW i \in DOMAIN outbox, Notify(i) \/ NotifyFails(i) PROVE TypeInv'
  BY <1>1, NotifyType, NotifyFailsType
<1>2. ASSUME NEW p \in Players, PassTurn(p) \/ Claim(p) \/ ClaimPaid(p) \/ Take(p) PROVE TypeInv'
  BY <1>2, PassTurnType, ClaimType, TakeType
<1>3. ASSUME NEW p \in Players, NEW d \in Deeds, Look(p, d) \/ Upgrade(p, d) PROVE TypeInv'
  BY <1>3, LookType, UpgradeType
<1>4. ASSUME NEW p \in Players, Deliver(p) \/ Answer(p) PROVE TypeInv'
  BY <1>4, HearType
<1>5. ASSUME NEW p \in Players, Leave(p) \/ Drop(p) PROVE TypeInv'
  BY <1>5, BreakType
<1>6. ASSUME NEW p \in Players, Load(p) \/ Disconnect(p) PROVE TypeInv'
  BY <1>6, LoadType
<1>7. CASE UNCHANGED vars
  BY <1>7 DEF TypeInv, TypeOK, DealsOK, RowsOf, vars, server, network, history
<1> QED BY <1>1, <1>2, <1>3, <1>4, <1>5, <1>6, <1>7 DEF Next

\* The pages, what they keep and what is on its way to them stay what they are,
\* however the turn, the purchases and the connections interleave.
THEOREM TypeCorrect == Spec => []TypeOK
<1>1. Init => TypeInv
  BY InitType
<1>2. TypeInv /\ [Next]_vars => TypeInv'
  BY NextType
<1>3. TypeInv => TypeOK
  BY DEF TypeInv
<1> QED BY <1>1, <1>2, <1>3, PTL DEF Spec

-----------------------------------------------------------------------------
(* The cards on the table. *)

\* The table that the model begins with has each property once.
DealtOnce == \A i, j \in DOMAIN Dealt : Dealt[i].deed = Dealt[j].deed => i = j

\* No two cards of the hand overlap, on a page that was loaded once.
PileInv ==
    \A p \in Players : page[p].loads = 0 => page[p].at = "live" /\ Stacked(copy[p], p)

LEMMA InitPile ==
    ASSUME DealtOnce, Init
    PROVE  PileInv
<1>1. TypeInv
  BY InitType
<1>2. rows \in Seq(Row) /\ rows = Dealt
  BY <1>1 DEF TypeInv, TypeOK, Init
<1>3. \A d \in Deeds : Once(d)
  BY <1>2 DEF DealtOnce, Once, RowsOf
<1>4. Blank \in Copies /\ \A d \in Deeds : Blank[d].owner = 0
  BY DEF Copies, Card, Blank
<1>5. \A p \in Players : Stacked(Fetched(Blank, p), p)
  BY <1>2, <1>3, <1>4, DealtStacks
<1>6. \A p \in Players : copy[p] = Fetched(Blank, p) /\ page[p].at = "live"
  BY DEF Init, Blank
<1> QED BY <1>5, <1>6 DEF PileInv

\* The other pages, and a page whose copy and load stay, are as they were.
LEMMA PileKept ==
    ASSUME PileInv, NEW p \in Players,
           \A q \in Players \ {p} : page'[q] = page[q] /\ copy'[q] = copy[q],
           page'[p].loads = 0 => /\ page[p].loads = 0 /\ page'[p].at = page[p].at
                                 /\ Stacked(copy[p], p) => Stacked(copy'[p], p)
    PROVE  PileInv'
<1>1. ASSUME NEW q \in Players, page'[q].loads = 0
      PROVE  page'[q].at = "live" /\ Stacked(copy'[q], q)
  <2>1. CASE q = p
    BY <1>1, <2>1 DEF PileInv
  <2>2. CASE q # p
    BY <1>1, <2>2 DEF PileInv
  <2> QED BY <2>1, <2>2
<1>2. ASSUME NEW q \in Players, page'[q].loads = 0
      PROVE  page'[q].at = "live" /\ Stacked(copy[q], q)'
  <2>1. Stacked(copy[q], q)' <=> Stacked(copy'[q], q)
    BY DEF Stacked, Apart, Hand, Positions
  <2> QED BY <1>1, <1>2, <2>1
<1> QED BY <1>2 DEF PileInv, Stacked, Apart, Hand, Positions

LEMMA NextPile == TypeInv /\ PileInv /\ [Next]_vars => PileInv'
<1> SUFFICES ASSUME TypeInv, PileInv, [Next]_vars PROVE PileInv'
  OBVIOUS
<1>0. TypeOK /\ copy \in [Players -> Copies]
  BY DEF TypeInv, TypeOK, Copies
<1>a. \A p \in Players : page[p].loads \in Nat
  BY <1>0, PageType
<1>1. ASSUME NEW i \in DOMAIN outbox, Notify(i) \/ NotifyFails(i) PROVE PileInv'
  <2>1. PICK m \in Message : m = outbox[i]
    BY <1>0 DEF TypeOK
  <2>2. PICK p \in Players : p = m.by
    BY MessageType
  <2>3. copy' = copy /\ \A q \in Players \ {p} : page'[q] = page[q]
    BY <1>0, <1>1, <2>1, <2>2, FailsTurnPage, FailsDeedPage DEF Notify, NotifyFails
  <2>4. page'[p].loads = page[p].loads /\ page'[p].at = page[p].at
    BY <1>0, <1>1, <2>1, <2>2, FailsTurnPage, FailsDeedPage DEF Notify, NotifyFails
  <2> QED BY <2>3, <2>4, PileKept
<1>2. ASSUME NEW p \in Players, PassTurn(p) \/ Claim(p) \/ ClaimPaid(p) \/ Take(p) PROVE PileInv'
  <2>1. copy' = copy
    BY <1>2 DEF PassTurn, Claim, ClaimPaid, Take
  <2>2. /\ \A q \in Players \ {p} : page'[q] = page[q]
        /\ page'[p].loads = page[p].loads /\ page'[p].at = page[p].at
    BY <1>0, <1>2, PassTurnPage, ClaimPage, ClaimPaidPage, TakePage
  <2> QED BY <2>1, <2>2, PileKept
<1>3. ASSUME NEW p \in Players, NEW d \in Deeds, Look(p, d) \/ Upgrade(p, d) PROVE PileInv'
  <2>1. copy' = copy
    BY <1>3 DEF Look, Upgrade
  <2>2. RowsOf(d) # {} => RowOf(d).level \in Nat
    BY <1>0, FirstRow DEF Row, TypeOK
  <2>3. /\ \A q \in Players \ {p} : page'[q] = page[q]
        /\ page'[p].loads = page[p].loads /\ page'[p].at = page[p].at
    BY <1>0, <1>3, <2>2, LookPage, UpgradePage
  <2> QED BY <2>1, <2>3, PileKept
<1>4. ASSUME NEW p \in Players, Deliver(p) PROVE PileInv'
  <2>1. PICK m : m = Head(queue[p])
    OBVIOUS
  <2>2. /\ m \in Message /\ \A q \in Players \ {p} : page'[q] = page[q] /\ copy'[q] = copy[q]
        /\ page'[p].loads = page[p].loads /\ page'[p].at = page[p].at
        /\ m.about = "turn" => copy' = copy
        /\ m.about # "turn" => copy'[p] = DeedHeard(copy[p], p, m)
    BY <1>0, <1>4, <2>1, DeliverIs
  <2>3. Stacked(copy[p], p) => Stacked(copy'[p], p)
    BY <1>0, <2>2, DeedHeardIs
  <2> QED BY <2>2, <2>3, PileKept
<1>5. ASSUME NEW p \in Players, Answer(p) PROVE PileInv'
  <2>1. PICK m \in Message :
          /\ \A q \in Players \ {p} : page'[q] = page[q] /\ copy'[q] = copy[q]
          /\ page'[p].loads = page[p].loads /\ page'[p].at = page[p].at
          /\ m.about = "turn" => copy' = copy
          /\ m.about # "turn" => copy'[p] = AnswerWritten(copy[p], p, m, page[p].looked)
    BY <1>0, <1>5, AnswerIs
  <2>2. page[p].looked \in Nat
    BY <1>0, PageType
  <2>3. Stacked(copy[p], p) => Stacked(copy'[p], p)
    BY <1>0, <2>1, <2>2, AnswerWrittenIs
  <2> QED BY <2>1, <2>3, PileKept
<1>6. ASSUME NEW p \in Players, Leave(p) PROVE PileInv'
  <2>1. copy' = copy
    BY <1>6 DEF Leave
  <2>2. (\A q \in Players \ {p} : page'[q] = page[q]) /\ page'[p].loads = page[p].loads + 1
    BY <1>0, <1>6, LeavePage
  <2>3. page'[p].loads # 0
    BY <1>a, <2>2
  <2> QED BY <2>1, <2>2, <2>3, PileKept
<1>7. ASSUME NEW p \in Players, Load(p) PROVE PileInv'
  <2>1. page[p].at # "live"
    BY <1>7 DEF Load, FetchTurn, FetchProperties, Connect
  <2>2. /\ \A q \in Players \ {p} : page'[q] = page[q] /\ copy'[q] = copy[q]
        /\ page'[p].loads = page[p].loads
    BY <1>0, <1>7, FetchTurnPage, FetchPropertiesPage, ConnectPage
       DEF Load, FetchTurn, FetchProperties, Connect
  <2>3. page'[p].loads # 0
    BY <2>1, <2>2 DEF PileInv
  <2> QED BY <2>2, <2>3, PileKept
<1>8. ASSUME NEW p \in Players, Drop(p) \/ Disconnect(p) PROVE PileInv'
  <2>1. copy' = copy
    BY <1>8 DEF Drop, Disconnect
  <2>2. /\ \A q \in Players \ {p} : page'[q] = page[q]
        /\ page'[p].loads = page[p].loads /\ page'[p].at = page[p].at
    BY <1>0, <1>8, DropPage DEF Disconnect
  <2> QED BY <2>1, <2>2, PileKept
<1>9. CASE UNCHANGED vars
  <2>1. page' = page /\ copy' = copy
    BY <1>9 DEF vars
  <2>2. PICK p : p \in Players
    BY Constants DEF Players
  <2> QED BY <2>1, <2>2, PileKept
<1> QED BY <1>1, <1>2, <1>3, <1>4, <1>5, <1>6, <1>7, <1>8, <1>9 DEF Next

\* repositionProperties leaves a player's cards of a color one on the other,
\* without gaps or overlaps, whatever is bought and sold, and whichever order the
\* messages and answers come in: on a page that was loaded once.
THEOREM HandIsStacked ==
    ASSUME DealtOnce
    PROVE  Spec => []HandStacked
<1>1. Init => TypeInv /\ PileInv
  BY InitType, InitPile
<1>2. TypeInv /\ PileInv /\ [Next]_vars => TypeInv' /\ PileInv'
  BY NextType, NextPile
<1>3. TypeInv /\ PileInv => HandStacked
  BY DEF PileInv, HandStacked, Stacked
<1> QED BY <1>1, <1>2, <1>3, PTL DEF Spec

-----------------------------------------------------------------------------
(* Requests and their answers.  The operators of this section are about one page *)
(* g, of player p: o is the outbox, q what is queued for the page, A the answers *)
(* that are on their way to it.                                                  *)

Idle(g)      == g.passing = "no" /\ g.deal = NoDeed /\ g.claiming = FALSE
Asking(g, a) == IF a = "turn" THEN g.passing = "asked" ELSE g.deal = a /\ g.step = "asked"

\* A page that loads asks for nothing and is sent nothing; a request that the page
\* waits for is answered once, and was sent by this load of it.
AwayOK(q, A, g)  == g.at # "live" => q = <<>> /\ A = {} /\ Idle(g)
AnswersOK(p, A, g) ==
    \A m \in A : /\ m.by = p /\ Asking(g, m.about) /\ OwnerSent(m)
                 /\ \A k \in A : k.about = m.about => k = m
SentOK(p, o, A, g) ==
    \A i \in DOMAIN o : o[i].by = p =>
        /\ OwnerSent(o[i]) /\ o[i].load <= g.loads
        /\ o[i].load = g.loads =>
              /\ g.at = "live" /\ Asking(g, o[i].about)
              /\ \A m \in A : m.about # o[i].about
              /\ \A j \in DOMAIN o : o[j].by = p /\ o[j].load = g.loads
                                        /\ o[j].about = o[i].about => j = i
PageOK(p, o, q, A, g) == AwayOK(q, A, g) /\ AnswersOK(p, A, g) /\ SentOK(p, o, A, g)

RequestsInv == \A p \in Players : PageOK(p, outbox, queue[p], answers[p], page[p])

\* The page itself asks for nothing else.
LEMMA PageKept ==
    ASSUME NEW p, NEW o, NEW q, NEW A \in SUBSET Message, NEW g \in Page, NEW h \in Page,
           PageOK(p, o, q, A, g),
           h.at = g.at, h.loads = g.loads, \A a \in Abouts : Asking(h, a) <=> Asking(g, a),
           g.at # "live" => Idle(h), o \in Seq(Message)
    PROVE  PageOK(p, o, q, A, h)
<1>1. \A i \in DOMAIN o : o[i] \in Message /\ o[i].about \in Abouts
  BY MessageType
<1>2. \A m \in A : m.about \in Abouts
  BY MessageType
<1>3. AwayOK(q, A, h)
  BY DEF PageOK, AwayOK
<1>4. AnswersOK(p, A, h)
  BY <1>2 DEF PageOK, AnswersOK
<1>5. SentOK(p, o, A, h)
  BY <1>1 DEF PageOK, SentOK
<1> QED BY <1>3, <1>4, <1>5 DEF PageOK

\* Another page sends a message.
LEMMA OtherSends ==
    ASSUME NEW p, NEW o \in Seq(Message), NEW q, NEW A, NEW g, PageOK(p, o, q, A, g),
           NEW m \in Message, m.by # p
    PROVE  PageOK(p, Append(o, m), q, A, g)
<1> DEFINE r == Append(o, m)
<1>1. /\ Len(o) \in Nat /\ DOMAIN o = 1 .. Len(o) /\ DOMAIN r = 1 .. Len(o) + 1
      /\ \A k \in DOMAIN o : r[k] = o[k]
      /\ r[Len(o) + 1] = m
  BY Appended
<1> HIDE DEF r
<1>2. \A i \in DOMAIN r : r[i].by = p => i \in DOMAIN o /\ r[i] = o[i]
  BY <1>1
<1>3. SentOK(p, r, A, g)
  BY <1>2 DEF PageOK, SentOK
<1> QED BY <1>3 DEF PageOK, r

\* The page itself does, and waits for the answer.
LEMMA PageSends ==
    ASSUME NEW p, NEW o \in Seq(Message), NEW q, NEW A \in SUBSET Message,
           NEW g \in Page, NEW h \in Page, PageOK(p, o, q, A, g),
           NEW m \in Message, m.by = p, m.load = g.loads, OwnerSent(m),
           g.at = "live", h.at = "live", h.loads = g.loads,
           ~Asking(g, m.about), Asking(h, m.about),
           \A a \in Abouts \ {m.about} : Asking(h, a) <=> Asking(g, a)
    PROVE  PageOK(p, Append(o, m), q, A, h)
<1> DEFINE r == Append(o, m)
<1>1. /\ Len(o) \in Nat /\ DOMAIN o = 1 .. Len(o) /\ DOMAIN r = 1 .. Len(o) + 1
      /\ \A k \in DOMAIN o : r[k] = o[k]
      /\ r[Len(o) + 1] = m
  BY Appended
<1> HIDE DEF r
<1>2. /\ \A i \in DOMAIN o : o[i].about \in Abouts
      /\ \A k \in A : k.about \in Abouts
      /\ g.loads \in Nat
  BY MessageType DEF Page
<1>3. /\ \A k \in A : k.about # m.about
      /\ \A i \in DOMAIN o : o[i].by = p /\ o[i].load = g.loads => o[i].about # m.about
  BY DEF PageOK, AnswersOK, SentOK
<1>4. AwayOK(q, A, h)
  BY DEF AwayOK
<1>5. AnswersOK(p, A, h)
  BY <1>2, <1>3 DEF PageOK, AnswersOK
<1>6. ASSUME NEW i \in DOMAIN r, r[i].by = p
      PROVE  /\ OwnerSent(r[i]) /\ r[i].load <= h.loads
             /\ r[i].load = h.loads =>
                   /\ h.at = "live" /\ Asking(h, r[i].about)
                   /\ \A k \in A : k.about # r[i].about
                   /\ \A j \in DOMAIN r : r[j].by = p /\ r[j].load = h.loads
                                             /\ r[j].about = r[i].about => j = i
  <2>1. CASE i = Len(o) + 1
    <3>1. \A j \in DOMAIN r : j # i => j \in DOMAIN o /\ r[j] = o[j]
      BY <1>1, <2>1
    <3> QED BY <1>1, <1>2, <1>3, <2>1, <3>1
  <2>2. CASE i \in DOMAIN o
    <3>1. r[i] = o[i] /\ SentOK(p, o, A, g)
      BY <1>1, <2>2 DEF PageOK
    <3>2. OwnerSent(r[i]) /\ r[i].load <= h.loads
      BY <1>6, <2>2, <3>1 DEF SentOK
    <3>3. ASSUME r[i].load = h.loads
          PROVE  /\ h.at = "live" /\ Asking(h, r[i].about)
                 /\ \A k \in A : k.about # r[i].about
                 /\ \A j \in DOMAIN r : r[j].by = p /\ r[j].load = h.loads
                                           /\ r[j].about = r[i].about => j = i
      <4>1. r[i].about # m.about /\ r[i].about \in Abouts
        BY <1>2, <1>3, <1>6, <2>2, <3>1, <3>3
      <4>2. Asking(g, r[i].about) /\ \A k \in A : k.about # r[i].about
        BY <1>6, <2>2, <3>1, <3>3 DEF SentOK
      <4>3. ASSUME NEW j \in DOMAIN r, r[j].by = p, r[j].load = h.loads, r[j].about = r[i].about
            PROVE  j = i
        <5>1. j \in DOMAIN o /\ r[j] = o[j]
          BY <1>1, <4>1, <4>3
        <5> QED BY <1>6, <2>2, <3>1, <3>3, <4>3, <5>1 DEF SentOK
      <4> QED BY <4>1, <4>2, <4>3
    <3> QED BY <3>2, <3>3
  <2> QED BY <1>1, <2>1, <2>2
<1>7. SentOK(p, r, A, h)
  BY <1>6 DEF SentOK
<1> QED BY <1>4, <1>5, <1>7 DEF PageOK, r

\* A message leaves the outbox.
LEMMA SentLeaves ==
    ASSUME NEW p, NEW o \in Seq(Message), NEW A, NEW g, SentOK(p, o, A, g), NEW i \in DOMAIN o
    PROVE  SentOK(p, RemoveAt(o, i), A, g)
<1> DEFINE r == RemoveAt(o, i)
<1>1. /\ \A k \in DOMAIN r : k \in Nat /\ Before(k, i) \in DOMAIN o \ {i} /\ r[k] = o[Before(k, i)]
      /\ i \in Nat
  BY Removed
<1> HIDE DEF r
<1>2. \A k, j \in DOMAIN r : Before(k, i) = Before(j, i) => k = j
  BY <1>1 DEF Before
<1>3. ASSUME NEW k \in DOMAIN r, r[k].by = p
      PROVE  /\ OwnerSent(r[k]) /\ r[k].load <= g.loads
             /\ r[k].load = g.loads =>
                   /\ g.at = "live" /\ Asking(g, r[k].about)
                   /\ \A m \in A : m.about # r[k].about
                   /\ \A j \in DOMAIN r : r[j].by = p /\ r[j].load = g.loads
                                             /\ r[j].about = r[k].about => j = k
  <2>1. Before(k, i) \in DOMAIN o /\ r[k] = o[Before(k, i)]
    BY <1>1
  <2> QED BY <1>1, <1>2, <1>3, <2>1 DEF SentOK
<1> QED BY <1>3 DEF SentOK, r

\* The message is no request that the page waits for; it may be told the page.
LEMMA OtherLeaves ==
    ASSUME NEW p, NEW o \in Seq(Message), NEW q, NEW z, NEW A, NEW g, PageOK(p, o, q, A, g),
           NEW i \in DOMAIN o, z = q \/ g.at = "live"
    PROVE  PageOK(p, RemoveAt(o, i), z, A, g)
<1>1. SentOK(p, RemoveAt(o, i), A, g)
  BY SentLeaves DEF PageOK
<1> QED BY <1>1 DEF PageOK, AwayOK

\* The request of the page is answered.
LEMMA RequestAnswered ==
    ASSUME NEW p, NEW o \in Seq(Message), NEW q, NEW A \in SUBSET Message, NEW g \in Page,
           PageOK(p, o, q, A, g), NEW i \in DOMAIN o,
           NEW m, m = o[i], m.by = p, g.loads = m.load
    PROVE  PageOK(p, RemoveAt(o, i), q, A \cup {m}, g)
<1> DEFINE r == RemoveAt(o, i)
<1>1. /\ OwnerSent(m) /\ g.at = "live" /\ Asking(g, m.about) /\ \A k \in A : k.about # m.about
      /\ \A j \in DOMAIN o : o[j].by = p /\ o[j].load = g.loads /\ o[j].about = m.about => j = i
  BY DEF PageOK, SentOK
<1>2. AwayOK(q, A \cup {m}, g)
  BY <1>1 DEF AwayOK
<1>3. AnswersOK(p, A \cup {m}, g)
  BY <1>1 DEF PageOK, AnswersOK
<1>4. SentOK(p, r, A, g)
  BY SentLeaves DEF PageOK
<1>5. \A k \in DOMAIN r : Before(k, i) \in DOMAIN o \ {i} /\ r[k] = o[Before(k, i)]
  BY Removed
<1> HIDE DEF r
<1>6. \A k \in DOMAIN r : r[k].by = p /\ r[k].load = g.loads => r[k].about # m.about
  BY <1>1, <1>5
<1>7. SentOK(p, r, A \cup {m}, g)
  BY <1>4, <1>6 DEF SentOK
<1> QED BY <1>2, <1>3, <1>7 DEF PageOK, r

\* The page no longer waits: it was answered, or its request failed.
LEMMA AnswerTaken ==
    ASSUME NEW p, NEW o \in Seq(Message), NEW q, NEW A \in SUBSET Message, NEW B \in SUBSET A,
           NEW g \in Page, NEW h \in Page, PageOK(p, o, q, A, g), NEW a \in Abouts,
           \A k \in B : k.about # a,
           \A i \in DOMAIN o : o[i].by = p /\ o[i].load = g.loads => o[i].about # a,
           h.at = g.at, h.loads = g.loads, g.at = "live",
           \A b \in Abouts \ {a} : Asking(h, b) <=> Asking(g, b)
    PROVE  PageOK(p, o, q, B, h)
<1>1. (\A i \in DOMAIN o : o[i].about \in Abouts) /\ \A k \in A : k.about \in Abouts
  BY MessageType
<1>2. AwayOK(q, B, h)
  BY DEF AwayOK
<1>3. AnswersOK(p, B, h)
  BY <1>1 DEF PageOK, AnswersOK
<1>4. SentOK(p, o, B, h)
  BY <1>1 DEF PageOK, SentOK
<1> QED BY <1>2, <1>3, <1>4 DEF PageOK

\* The page is loaded again, or for the first time.
LEMMA PageLeft ==
    ASSUME NEW p, NEW o \in Seq(Message), NEW q, NEW A, NEW g \in Page, NEW h \in Page,
           PageOK(p, o, q, A, g), h.loads = g.loads + 1, Idle(h)
    PROVE  PageOK(p, o, <<>>, {}, h)
<1>1. g.loads \in Nat /\ \A i \in DOMAIN o : o[i].load \in Nat
  BY MessageType DEF Page
<1>2. \A i \in DOMAIN o : o[i].by = p => o[i].load <= g.loads /\ OwnerSent(o[i])
  BY DEF PageOK, SentOK
<1>3. SentOK(p, o, {}, h)
  BY <1>1, <1>2 DEF SentOK
<1> QED BY <1>3 DEF PageOK, AwayOK, AnswersOK

LEMMA PageLoads ==
    ASSUME NEW p, NEW o \in Seq(Message), NEW q, NEW A, NEW g \in Page, NEW h \in Page,
           PageOK(p, o, q, A, g), h.loads = g.loads, g.at # "live",
           h.passing = g.passing, h.deal = g.deal, h.claiming = g.claiming
    PROVE  PageOK(p, o, q, A, h)
<1>1. q = <<>> /\ A = {} /\ Idle(h)
  BY DEF PageOK, AwayOK, Idle
<1>2. SentOK(p, o, A, h)
  BY DEF PageOK, SentOK
<1> QED BY <1>1, <1>2 DEF PageOK, AwayOK, AnswersOK

\* What is queued for a page that is loaded may be lost or taken.
LEMMA QueueChanges ==
    ASSUME NEW p, NEW o, NEW q, NEW z, NEW A, NEW g, PageOK(p, o, q, A, g),
           g.at = "live" \/ z = q
    PROVE  PageOK(p, o, z, A, g)
BY DEF PageOK, AwayOK

\* What a request leaves alone.
LEMMA RequestSent ==
    ASSUME TypeOK, RequestsInv, NEW p \in Players, NEW m \in Message, Send(p, m), m.by = p,
           m.load = page[p].loads, OwnerSent(m), UNCHANGED <<queue, answers>>,
           page' \in [Players -> Page], \A x \in Players \ {p} : page'[x] = page[x],
           page[p].at = "live", page'[p].at = "live", page'[p].loads = page[p].loads,
           ~Asking(page[p], m.about), Asking(page'[p], m.about),
           \A a \in Abouts \ {m.about} : Asking(page'[p], a) <=> Asking(page[p], a)
    PROVE  RequestsInv'
<1>1. /\ outbox \in Seq(Message) /\ outbox' = Append(outbox, m)
      /\ \A x \in Players : answers[x] \in SUBSET Message /\ page[x] \in Page /\ page'[x] \in Page
  BY DEF TypeOK, Send
<1>2. ASSUME NEW x \in Players
      PROVE  PageOK(x, outbox', queue'[x], answers'[x], page'[x])
  <2>1. PageOK(x, outbox, queue[x], answers[x], page[x])
    BY DEF RequestsInv
  <2>2. CASE x # p
    <3>1. PageOK(x, Append(outbox, m), queue[x], answers[x], page[x])
      BY <1>1, <2>1, <2>2, OtherSends
    <3> QED BY <1>1, <2>2, <3>1
  <2>3. CASE x = p
    <3>1. PageOK(p, Append(outbox, m), queue[p], answers[p], page'[p])
      BY <1>1, <2>1, <2>3, PageSends
    <3> QED BY <1>1, <2>3, <3>1
  <2> QED BY <2>2, <2>3
<1> QED BY <1>2 DEF RequestsInv

\* A step of one page only, which asks for nothing and gets no answer.
LEMMA RequestsKept ==
    ASSUME TypeOK, RequestsInv, NEW p \in Players, outbox' = outbox,
           page' \in [Players -> Page],
           \A x \in Players \ {p} : /\ page'[x] = page[x] /\ queue'[x] = queue[x]
                                    /\ answers'[x] = answers[x],
           PageOK(p, outbox, queue'[p], answers'[p], page'[p])
    PROVE  RequestsInv'
<1>1. ASSUME NEW x \in Players
      PROVE  PageOK(x, outbox', queue'[x], answers'[x], page'[x])
  BY DEF RequestsInv
<1> QED BY <1>1 DEF RequestsInv

LEMMA PlayRequests ==
    ASSUME TypeInv, RequestsInv, NEW p \in Players,
           PassTurn(p) \/ Claim(p) \/ ClaimPaid(p) \/ Take(p)
    PROVE  RequestsInv'
<1>1. TypeOK /\ DealsOK /\ page[p] \in Page /\ outbox \in Seq(Message) /\ answers[p] \in SUBSET Message
  BY PageType DEF TypeInv, TypeOK
<1>2. PageOK(p, outbox, queue[p], answers[p], page[p])
  BY DEF RequestsInv
<1>3. page[p].deal # "turn"
  BY <1>1, PageType, Constants
<1>4. CASE PassTurn(p)
  <2>1. /\ page' \in [Players -> Page] /\ \A x \in Players \ {p} : page'[x] = page[x]
        /\ page'[p].passing = (IF Holder(turn) = p THEN "asked" ELSE "failed")
        /\ page'[p].at = page[p].at /\ page'[p].loads = page[p].loads
        /\ page'[p].deal = page[p].deal /\ page'[p].step = page[p].step
    BY <1>1, <1>4, PassTurnPage
  <2>2. page[p].at = "live" /\ page[p].passing = "no" /\ UNCHANGED <<queue, answers>>
    BY <1>4 DEF PassTurn, MyTurn
  <2>3. \A a \in Abouts \ {"turn"} : Asking(page'[p], a) <=> Asking(page[p], a)
    BY <2>1 DEF Asking
  <2>4. CASE Holder(turn) = p
    <3> DEFINE m == [about |-> "turn", by |-> p, load |-> page[p].loads, turn |-> turn + 1]
    <3>1. m \in Message
      <4>1. turn + 1 \in Nat /\ page[p].loads \in Nat
        BY <1>1, PageType DEF TypeOK
      <4> QED BY <4>1, MessageMade
    <3>2. Send(p, m)
      BY <1>4, <2>4 DEF PassTurn
    <3>3. m.about = "turn" /\ m.by = p /\ m.load = page[p].loads
      OBVIOUS
    <3> HIDE DEF m
    <3>4. ~Asking(page[p], m.about) /\ Asking(page'[p], m.about) /\ OwnerSent(m)
      BY <2>1, <2>2, <2>4, <3>3 DEF Asking, OwnerSent
    <3> QED BY <1>1, <2>1, <2>2, <2>3, <3>1, <3>2, <3>3, <3>4, RequestSent
  <2>5. CASE Holder(turn) # p
    <3>1. outbox' = outbox
      BY <1>4, <2>5 DEF PassTurn
    <3>2. \A a \in Abouts : Asking(page'[p], a) <=> Asking(page[p], a)
      BY <2>1, <2>2, <2>5 DEF Asking
    <3>3. page'[p] \in Page
      BY <2>1
    <3>4. PageOK(p, outbox, queue[p], answers[p], page'[p])
      BY <1>1, <1>2, <2>1, <2>2, <3>2, <3>3, PageKept
    <3> QED BY <1>1, <2>1, <2>2, <3>1, <3>4, RequestsKept
  <2> QED BY <2>4, <2>5
<1>5. CASE Claim(p) \/ ClaimPaid(p)
  <2>1. /\ page' \in [Players -> Page] /\ \A x \in Players \ {p} : page'[x] = page[x]
        /\ page'[p].passing = page[p].passing
        /\ page'[p].at = page[p].at /\ page'[p].loads = page[p].loads
        /\ page'[p].deal = page[p].deal /\ page'[p].step = page[p].step
    BY <1>1, <1>5, ClaimPage, ClaimPaidPage
  <2>2. UNCHANGED <<queue, answers, outbox>>
    BY <1>5 DEF Claim, ClaimPaid, network
  <2>3. \A a \in Abouts : Asking(page'[p], a) <=> Asking(page[p], a)
    BY <2>1 DEF Asking
  <2>4. page[p].at = "live"
    <3>1. CASE Claim(p)
      BY <3>1 DEF Claim, MyTurn
    <3>2. CASE ClaimPaid(p)
      BY <1>2, <3>2 DEF ClaimPaid, PageOK, AwayOK, Idle
    <3> QED BY <1>5, <3>1, <3>2
  <2>5. page'[p] \in Page
    BY <2>1
  <2>6. PageOK(p, outbox, queue[p], answers[p], page'[p])
    BY <1>1, <1>2, <2>1, <2>3, <2>4, <2>5, PageKept
  <2> QED BY <1>1, <2>1, <2>2, <2>6, RequestsKept
<1>6. CASE Take(p)
  <2>1. /\ page' \in [Players -> Page] /\ \A x \in Players \ {p} : page'[x] = page[x]
        /\ page'[p].step = "asked" /\ page'[p].passing = page[p].passing
        /\ page'[p].at = page[p].at /\ page'[p].loads = page[p].loads
        /\ page'[p].deal = page[p].deal
    BY <1>1, <1>6, TakePage
  <2>2. page[p].step \in {"market", "owner"} /\ UNCHANGED <<queue, answers>>
    BY <1>6 DEF Take
  <2>3. PICK d : d = page[p].deal
    OBVIOUS
  <2>4. d \in Deeds
    BY <1>6, <2>3, TakeWrites
  <2>5. PICK v \in Nat : Send(p, Sold(p, d, page[p].loads, v))
    BY <1>6, <2>3, TakeWrites
  <2> DEFINE m == Sold(p, d, page[p].loads, v)
  <2>a. page[p].loads \in Nat
    BY <1>1, PageType
  <2>b. /\ m \in Message /\ m.about = d /\ m.by = p /\ m.load = page[p].loads /\ OwnerSent(m)
        /\ Send(p, m)
    BY <2>4, <2>5, <2>a, SoldIs
  <2> HIDE DEF m
  <2>6. page[p].at = "live"
    BY <1>2, <2>3, <2>4, Constants DEF PageOK, AwayOK, Idle
  <2>7. ~Asking(page[p], d) /\ Asking(page'[p], d)
    BY <1>3, <2>1, <2>2, <2>3 DEF Asking
  <2>8. \A a \in Abouts \ {d} : Asking(page'[p], a) <=> Asking(page[p], a)
    BY <2>1, <2>3 DEF Asking
  <2> QED BY <1>1, <2>1, <2>2, <2>b, <2>6, <2>7, <2>8, RequestSent
<1> QED BY <1>4, <1>5, <1>6

LEMMA DealRequests ==
    ASSUME TypeInv, RequestsInv, NEW p \in Players, NEW d \in Deeds, Look(p, d) \/ Upgrade(p, d)
    PROVE  RequestsInv'
<1>1. TypeOK /\ DealsOK /\ page[p] \in Page /\ outbox \in Seq(Message) /\ answers[p] \in SUBSET Message
  BY PageType DEF TypeInv, TypeOK
<1>2. PageOK(p, outbox, queue[p], answers[p], page[p])
  BY DEF RequestsInv
<1>3. page[p].deal = NoDeed /\ page[p].at = "live" /\ UNCHANGED <<queue, answers>>
  BY DEF Look, Upgrade, MyTurn, network
<1>4. CASE Look(p, d)
  <2>1. RowsOf(d) # {} => RowOf(d).level \in Nat
    BY <1>1, FirstRow DEF Row, TypeOK
  <2>2. /\ page' \in [Players -> Page] /\ \A x \in Players \ {p} : page'[x] = page[x]
        /\ page'[p].step = IF RowsOf(d) = {} THEN "market" ELSE "owner"
        /\ page'[p].passing = page[p].passing
        /\ page'[p].at = page[p].at /\ page'[p].loads = page[p].loads
    BY <1>1, <1>4, <2>1, LookPage
  <2>3. outbox' = outbox
    BY <1>4 DEF Look, network
  <2>4. \A a \in Abouts : Asking(page'[p], a) <=> Asking(page[p], a)
    BY <1>3, <2>2, Constants DEF Asking, Abouts
  <2>5. page'[p] \in Page
    BY <2>2
  <2>6. PageOK(p, outbox, queue[p], answers[p], page'[p])
    BY <1>1, <1>2, <1>3, <2>2, <2>4, <2>5, PageKept
  <2> QED BY <1>1, <1>3, <2>2, <2>3, <2>6, RequestsKept
<1>5. CASE Upgrade(p, d)
  <2>1. /\ page' \in [Players -> Page] /\ \A x \in Players \ {p} : page'[x] = page[x]
        /\ page'[p].step = "asked" /\ page'[p].deal = d
        /\ page'[p].passing = page[p].passing
        /\ page'[p].at = page[p].at /\ page'[p].loads = page[p].loads
    BY <1>1, <1>5, UpgradePage
  <2>2. PICK v \in Nat : Send(p, Raised(p, d, page[p].loads, v))
    BY <1>5, UpgradeWrites
  <2> DEFINE m == Raised(p, d, page[p].loads, v)
  <2>a. page[p].loads \in Nat
    BY <1>1, PageType
  <2>b. /\ m \in Message /\ m.about = d /\ m.by = p /\ m.load = page[p].loads /\ OwnerSent(m)
        /\ Send(p, m)
    BY <2>2, <2>a, RaisedIs
  <2> HIDE DEF m
  <2>3. ~Asking(page[p], d) /\ Asking(page'[p], d)
    BY <1>3, <2>1, Constants DEF Asking
  <2>4. \A a \in Abouts \ {d} : Asking(page'[p], a) <=> Asking(page[p], a)
    BY <1>3, <2>1, Constants DEF Asking, Abouts
  <2> QED BY <1>1, <1>3, <2>1, <2>b, <2>3, <2>4, RequestSent
<1> QED BY <1>4, <1>5

\* Who is told of a message has a page that is live.
LEMMA ToldAreLive ==
    ASSUME NEW m, NEW told \in SUBSET Recipients(m)
    PROVE  told \in SUBSET Players /\ \A x \in told : page[x].at = "live" /\ x # m.by
BY DEF Recipients, Hears

LEMMA NotifyRequests ==
    ASSUME TypeInv, RequestsInv, NEW i \in DOMAIN outbox, Notify(i) \/ NotifyFails(i)
    PROVE  RequestsInv'
<1>1. TypeOK /\ DealsOK /\ outbox \in Seq(Message)
  BY DEF TypeInv, TypeOK
<1>2. PICK m \in Message : m = outbox[i]
  BY <1>1
<1>3. PICK told \in SUBSET Recipients(m) :
         /\ outbox' = RemoveAt(outbox, i)
         /\ queue' = [x \in Players |-> IF x \in told THEN Append(queue[x], m) ELSE queue[x]]
  <2>1. CASE Notify(i)
    BY <1>2, <2>1 DEF Notify, Sent
  <2>2. CASE NotifyFails(i)
    BY <1>2, <2>2 DEF NotifyFails
  <2> QED BY <2>1, <2>2
<1>4. /\ \A x \in told : page[x].at = "live" /\ x # m.by
      /\ \A x \in Players : queue'[x] = queue[x] \/ x \in told
  BY <1>3, ToldAreLive
<1>5. PICK p \in Players : p = m.by
  BY MessageType
<1>6. PICK a \in Abouts : a = m.about
  BY MessageType
<1>7. /\ \A x \in Players : PageOK(x, outbox, queue[x], answers[x], page[x])
      /\ page[p] \in Page /\ answers[p] \in SUBSET Message
  BY <1>1, PageType DEF RequestsInv, TypeOK
<1>8. ASSUME NEW x \in Players, answers'[x] = answers[x], page'[x] = page[x]
      PROVE  PageOK(x, outbox', queue'[x], answers'[x], page'[x])
  <2>1. queue'[x] = queue[x] \/ page[x].at = "live"
    BY <1>4
  <2>2. PageOK(x, RemoveAt(outbox, i), queue'[x], answers[x], page[x])
    BY <1>1, <1>7, <2>1, OtherLeaves
  <2> QED BY <1>3, <1>8, <2>2
<1>9. CASE ~Waiting(m)
  <2>1. answers' = answers /\ page' = page
    BY <1>2, <1>9 DEF Notify, NotifyFails
  <2> QED BY <1>8, <2>1 DEF RequestsInv
<1>10. CASE Waiting(m) /\ Notify(i)
  <2>1. answers' = [answers EXCEPT ![p] = answers[p] \cup {m}] /\ page' = page
    BY <1>2, <1>5, <1>10 DEF Notify
  <2> DEFINE B == answers[p] \cup {m}
  <2>2. answers'[p] = B /\ \A x \in Players \ {p} : answers'[x] = answers[x]
    BY <1>1, <2>1 DEF TypeOK
  <2>3. page[p].loads = m.load
    BY <1>5, <1>10 DEF Waiting
  <2>4. PageOK(p, RemoveAt(outbox, i), queue[p], B, page[p])
    BY <1>1, <1>2, <1>5, <1>7, <2>3, RequestAnswered
  <2>5. queue'[p] = queue[p]
    BY <1>4, <1>5
  <2>6. \A x \in Players : PageOK(x, outbox', queue'[x], answers'[x], page'[x])
    <3> HIDE DEF B
    <3> QED BY <1>3, <1>8, <2>1, <2>2, <2>4, <2>5
  <2> QED BY <2>6 DEF RequestsInv
<1>11. CASE Waiting(m) /\ NotifyFails(i)
  <2>1. answers' = answers
    BY <1>11 DEF NotifyFails
  <2>2. /\ page' \in [Players -> Page] /\ \A x \in Players \ {p} : page'[x] = page[x]
        /\ page'[p].at = page[p].at /\ page'[p].loads = page[p].loads
        /\ a = "turn" => /\ page'[p].passing = "failed"
                         /\ page'[p].deal = page[p].deal /\ page'[p].step = page[p].step
        /\ a # "turn" => /\ page'[p].passing = page[p].passing
                         /\ page'[p].deal = NoDeed /\ page'[p].step = "no"
    <3>1. CASE a = "turn"
      BY <1>1, <1>2, <1>5, <1>6, <1>11, <3>1, FailsTurnPage
    <3>2. CASE a # "turn"
      BY <1>1, <1>2, <1>5, <1>6, <1>11, <3>2, FailsDeedPage
    <3> QED BY <3>1, <3>2
  <2>3. page[p].at = "live" /\ page[p].loads = m.load
    BY <1>5, <1>11 DEF Waiting
  <2>4. /\ Asking(page[p], a) /\ \A k \in answers[p] : k.about # a
        /\ \A j \in DOMAIN outbox : outbox[j].by = p /\ outbox[j].load = page[p].loads
                                       /\ outbox[j].about = a => j = i
    BY <1>2, <1>5, <1>6, <1>7, <2>3 DEF PageOK, SentOK
  <2>5. \A b \in Abouts \ {a} : Asking(page'[p], b) <=> Asking(page[p], b)
    BY <2>2, <2>4, Constants DEF Asking, Abouts
  <2> DEFINE r == RemoveAt(outbox, i)
  <2>6. /\ r \in Seq(Message)
        /\ \A k \in DOMAIN r : Before(k, i) \in DOMAIN outbox \ {i} /\ r[k] = outbox[Before(k, i)]
    BY <1>1, Removed
  <2>7. PageOK(p, r, queue[p], answers[p], page[p])
    BY <1>1, <1>7, OtherLeaves
  <2> HIDE DEF r
  <2>8. \A k \in DOMAIN r : r[k].by = p /\ r[k].load = page[p].loads => r[k].about # a
    BY <2>4, <2>6
  <2>9. page'[p] \in Page
    BY <2>2
  <2>10. PageOK(p, r, queue[p], answers[p], page'[p])
    BY <1>7, <2>2, <2>3, <2>4, <2>5, <2>6, <2>7, <2>8, <2>9, AnswerTaken
  <2>11. queue'[p] = queue[p] /\ outbox' = r
    BY <1>3, <1>4, <1>5 DEF r
  <2>12. \A x \in Players : PageOK(x, outbox', queue'[x], answers'[x], page'[x])
    BY <1>8, <2>1, <2>2, <2>10, <2>11
  <2> QED BY <2>12 DEF RequestsInv
<1> QED BY <1>9, <1>10, <1>11

LEMMA HearRequests ==
    ASSUME TypeInv, RequestsInv, NEW p \in Players, Deliver(p) \/ Answer(p)
    PROVE  RequestsInv'
<1>1. TypeOK /\ page[p] \in Page /\ outbox \in Seq(Message) /\ answers[p] \in SUBSET Message
  BY PageType DEF TypeInv, TypeOK
<1>2. PageOK(p, outbox, queue[p], answers[p], page[p])
  BY DEF RequestsInv
<1>3. CASE Deliver(p)
  <2>1. PICK m : m = Head(queue[p])
    OBVIOUS
  <2>2. /\ queue[p] # <<>> /\ \A x \in Players \ {p} : queue'[x] = queue[x] /\ page'[x] = page[x]
        /\ page' \in [Players -> Page]
        /\ page'[p].at = page[p].at /\ page'[p].claiming = page[p].claiming
        /\ page'[p].passing = page[p].passing /\ page'[p].loads = page[p].loads
        /\ page'[p].deal = page[p].deal /\ page'[p].step = page[p].step
        /\ UNCHANGED <<outbox, answers>>
    BY <1>1, <1>3, <2>1, DeliverIs
  <2>3. page[p].at = "live"
    BY <1>2, <2>2 DEF PageOK, AwayOK
  <2>4. page'[p] \in Page /\ \A a \in Abouts : Asking(page'[p], a) <=> Asking(page[p], a)
    BY <2>2 DEF Asking
  <2>5. PageOK(p, outbox, queue[p], answers[p], page'[p])
    BY <1>1, <1>2, <2>2, <2>3, <2>4, PageKept
  <2>6. PageOK(p, outbox, queue'[p], answers[p], page'[p])
    BY <2>2, <2>3, <2>5, QueueChanges
  <2> QED BY <1>1, <2>2, <2>6, RequestsKept
<1>4. CASE Answer(p)
  <2>1. PICK m \in answers[p] :
          /\ m \in Message /\ answers'[p] = answers[p] \ {m}
          /\ \A x \in Players \ {p} : answers'[x] = answers[x] /\ page'[x] = page[x]
          /\ page' \in [Players -> Page]
          /\ page'[p].at = page[p].at /\ page'[p].loads = page[p].loads
          /\ m.about = "turn" =>
                /\ page'[p].passing = "no"
                /\ page'[p].deal = page[p].deal /\ page'[p].step = page[p].step
          /\ m.about # "turn" =>
                /\ page'[p].passing = page[p].passing
                /\ page'[p].deal = NoDeed /\ page'[p].step = "no"
          /\ UNCHANGED <<outbox, queue>>
    BY <1>1, <1>4, AnswerIs
  <2>2. PICK a \in Abouts : a = m.about
    BY <2>1, MessageType
  <2>3. /\ Asking(page[p], a) /\ \A k \in answers[p] : k.about = a => k = m
        /\ \A i \in DOMAIN outbox : outbox[i].by = p /\ outbox[i].load = page[p].loads
                                      => outbox[i].about # a
        /\ page[p].at = "live"
    <3>1. AwayOK(queue[p], answers[p], page[p]) /\ AnswersOK(p, answers[p], page[p])
          /\ SentOK(p, outbox, answers[p], page[p])
      BY <1>2 DEF PageOK
    <3>2. m \in answers[p] /\ m.about = a
      BY <2>1, <2>2
    <3> QED BY <3>1, <3>2 DEF AwayOK, AnswersOK, SentOK
  <2>4. \A b \in Abouts \ {a} : Asking(page'[p], b) <=> Asking(page[p], b)
    BY <2>1, <2>2, <2>3, Constants DEF Asking, Abouts
  <2> DEFINE B == answers[p] \ {m}
  <2>5. B \in SUBSET answers[p] /\ (\A k \in B : k.about # a) /\ answers'[p] = B
    BY <2>1, <2>3
  <2>6. page'[p] \in Page
    BY <2>1
  <2> HIDE DEF B
  <2>7. PageOK(p, outbox, queue[p], B, page'[p])
    BY <1>1, <1>2, <2>1, <2>3, <2>4, <2>5, <2>6, AnswerTaken
  <2> QED BY <1>1, <2>1, <2>5, <2>7, RequestsKept
<1> QED BY <1>3, <1>4

LEMMA LoadRequests ==
    ASSUME TypeInv, RequestsInv, NEW p \in Players,
           Leave(p) \/ Drop(p) \/ Load(p) \/ Disconnect(p)
    PROVE  RequestsInv'
<1>1. TypeOK /\ page[p] \in Page /\ outbox \in Seq(Message) /\ answers[p] \in SUBSET Message
      /\ page \in [Players -> Page]
  BY PageType DEF TypeInv, TypeOK
<1>2. PageOK(p, outbox, queue[p], answers[p], page[p])
  BY DEF RequestsInv
<1>3. CASE Leave(p)
  <2>1. /\ page' \in [Players -> Page] /\ \A x \in Players \ {p} : page'[x] = page[x]
        /\ page'[p].loads = page[p].loads + 1 /\ Idle(page'[p])
    BY <1>1, <1>3, LeavePage DEF Idle
  <2>2. /\ queue' = [queue EXCEPT ![p] = <<>>] /\ answers' = [answers EXCEPT ![p] = {}]
        /\ outbox' = outbox
    BY <1>3 DEF Leave
  <2>3. /\ queue'[p] = <<>> /\ answers'[p] = {}
        /\ \A x \in Players \ {p} : queue'[x] = queue[x] /\ answers'[x] = answers[x]
    BY <1>1, <2>2 DEF TypeOK
  <2>4. page'[p] \in Page
    BY <2>1
  <2>5. PageOK(p, outbox, <<>>, {}, page'[p])
    BY <1>1, <1>2, <2>1, <2>4, PageLeft
  <2> QED BY <1>1, <2>1, <2>2, <2>3, <2>5, RequestsKept
<1>4. CASE Load(p)
  <2>1. /\ page' \in [Players -> Page] /\ \A x \in Players \ {p} : page'[x] = page[x]
        /\ page'[p].loads = page[p].loads /\ page'[p].passing = page[p].passing
        /\ page'[p].deal = page[p].deal /\ page'[p].claiming = page[p].claiming
    BY <1>1, <1>4, FetchTurnPage, FetchPropertiesPage, ConnectPage DEF Load
  <2>2. page[p].at # "live" /\ UNCHANGED <<queue, answers, outbox>>
    BY <1>4 DEF Load, FetchTurn, FetchProperties, Connect, network
  <2>3. page'[p] \in Page
    BY <2>1
  <2>4. PageOK(p, outbox, queue[p], answers[p], page'[p])
    BY <1>1, <1>2, <2>1, <2>2, <2>3, PageLoads
  <2> QED BY <1>1, <2>1, <2>2, <2>4, RequestsKept
<1>5. CASE Drop(p)
  <2>1. /\ page' \in [Players -> Page] /\ \A x \in Players \ {p} : page'[x] = page[x]
        /\ page'[p].loads = page[p].loads /\ page'[p].passing = page[p].passing
        /\ page'[p].deal = page[p].deal /\ page'[p].step = page[p].step
        /\ page'[p].at = page[p].at
    BY <1>1, <1>5, DropPage
  <2>2. page[p].at = "live" /\ queue' = [queue EXCEPT ![p] = <<>>] /\ UNCHANGED <<answers, outbox>>
    BY <1>5 DEF Drop
  <2>3. \A x \in Players \ {p} : queue'[x] = queue[x]
    BY <1>1, <2>2 DEF TypeOK
  <2>4. page'[p] \in Page /\ \A a \in Abouts : Asking(page'[p], a) <=> Asking(page[p], a)
    BY <2>1 DEF Asking
  <2>5. PageOK(p, outbox, queue[p], answers[p], page'[p])
    BY <1>1, <1>2, <2>1, <2>2, <2>4, PageKept
  <2>6. PageOK(p, outbox, queue'[p], answers[p], page'[p])
    BY <2>1, <2>2, <2>5, QueueChanges
  <2> QED BY <1>1, <2>1, <2>2, <2>3, <2>6, RequestsKept
<1>6. CASE Disconnect(p)
  BY <1>1, <1>2, <1>6, RequestsKept DEF Disconnect
<1> QED BY <1>3, <1>4, <1>5, <1>6

LEMMA InitRequests == Init => RequestsInv
BY DEF Init, RequestsInv, PageOK, AwayOK, AnswersOK, SentOK

LEMMA NextRequests == TypeInv /\ RequestsInv /\ [Next]_vars => RequestsInv'
<1> SUFFICES ASSUME TypeInv, RequestsInv, [Next]_vars PROVE RequestsInv'
  OBVIOUS
<1>1. CASE UNCHANGED vars
  BY <1>1 DEF RequestsInv, vars, network
<1> QED BY <1>1, PlayRequests, DealRequests, NotifyRequests, HearRequests, LoadRequests DEF Next

-----------------------------------------------------------------------------
(* What is on its way to a page.  The messages of M among the outbox o, then the *)
(* queue q, and the answers A tell it, in this order, one of which is in G when  *)
(* it is the last to come: G are those that say how things are now.              *)

Flow(o, q, A, M, G) ==
    /\ Has(o, M) => Latest(o, M) \in G
    /\ ~Has(o, M) /\ Has(q, M) => Latest(q, M) \in G
    /\ ~Has(o, M) => \A m \in A : m \in M => m \in G

\* Nothing of M is.
Quiet(o, q, A, M) == ~Has(o, M) /\ ~Has(q, M) /\ \A m \in A : m \notin M

LEMMA FlowSent ==
    ASSUME NEW o \in Seq(Message), NEW q, NEW A, NEW M, NEW G, NEW m \in Message
    PROVE  /\ m \in M /\ m \in G => Flow(Append(o, m), q, A, M, G)
           /\ m \in M => Has(Append(o, m), M)
           /\ m \notin M /\ Flow(o, q, A, M, G) => Flow(Append(o, m), q, A, M, G)
           /\ m \notin M => (Has(Append(o, m), M) <=> Has(o, M))
BY LatestAppended DEF Flow

\* The message is told the page.
LEMMA FlowTold ==
    ASSUME NEW o \in Seq(Message), NEW q \in Seq(Message), NEW A, NEW M, NEW G,
           NEW i \in DOMAIN o, NEW m, m = o[i], Flow(o, q, A, M, G),
           m \in M => \A j \in DOMAIN o : o[j] \in M => i <= j,
           m \in M => \A k \in A : k \notin M
    PROVE  /\ Flow(RemoveAt(o, i), Append(q, m), A, M, G)
           /\ m \in M => Has(Append(q, m), M)
           /\ m \notin M => /\ Has(RemoveAt(o, i), M) <=> Has(o, M)
                            /\ Has(Append(q, m), M) <=> Has(q, M)
<1> DEFINE r == RemoveAt(o, i)
           z == Append(q, m)
<1>1. m \in Message
  OBVIOUS
<1>2. /\ Has(z, M) <=> Has(q, M) \/ m \in M
      /\ m \in M => Latest(z, M) = m
      /\ m \notin M /\ Has(q, M) => Latest(z, M) = Latest(q, M)
  BY <1>1, LatestAppended
<1>3. /\ Has(r, M) => Has(o, M)
      /\ Has(r, M) => Latest(r, M) = Latest(o, M)
      /\ m \notin M /\ Has(o, M) => Has(r, M)
      /\ m \in M /\ ~Has(r, M) => Latest(o, M) = m
  BY LatestRemoved
<1>4. m \in M => Has(o, M)
  BY DEF Has
<1> HIDE DEF r, z
<1>5. Flow(r, z, A, M, G)
  BY <1>2, <1>3, <1>4 DEF Flow
<1> QED BY <1>2, <1>3, <1>5 DEF r, z

\* The message is not, and is about something else.
LEMMA FlowPasses ==
    ASSUME NEW o \in Seq(Message), NEW q, NEW A, NEW B, NEW M, NEW G, NEW i \in DOMAIN o,
           NEW m, m = o[i], Flow(o, q, A, M, G), m \notin M, \A k \in B : k \in A \/ k = m
    PROVE  /\ Flow(RemoveAt(o, i), q, B, M, G)
           /\ Has(RemoveAt(o, i), M) <=> Has(o, M)
<1> DEFINE r == RemoveAt(o, i)
<1>1. /\ Has(r, M) => Has(o, M)
      /\ Has(r, M) => Latest(r, M) = Latest(o, M)
      /\ Has(o, M) => Has(r, M)
  BY LatestRemoved
<1> HIDE DEF r
<1>2. Flow(r, q, B, M, G)
  BY <1>1 DEF Flow
<1> QED BY <1>1, <1>2 DEF r

\* The message is the answer that the page waits for.
LEMMA FlowAnswered ==
    ASSUME NEW o \in Seq(Message), NEW q, NEW A, NEW M, NEW G, NEW i \in DOMAIN o,
           NEW m, m = o[i], m \in M, Flow(o, q, A, M, G),
           \A j \in DOMAIN o : o[j] \in M => i <= j,
           ~Has(q, M), \A k \in A : k \notin M
    PROVE  Flow(RemoveAt(o, i), q, A \cup {m}, M, G)
<1> DEFINE r == RemoveAt(o, i)
<1>1. /\ Has(r, M) => Has(o, M)
      /\ Has(r, M) => Latest(r, M) = Latest(o, M)
      /\ ~Has(r, M) => Latest(o, M) = m
  BY LatestRemoved
<1>2. Has(o, M)
  BY DEF Has
<1> HIDE DEF r
<1>3. Flow(r, q, A \cup {m}, M, G)
  BY <1>1, <1>2 DEF Flow
<1> QED BY <1>3 DEF r

LEMMA FlowTaken ==
    ASSUME NEW o, NEW q \in Seq(Message), NEW A, NEW M, NEW G, q # <<>>, NEW m, m = Head(q),
           Flow(o, q, A, M, G)
    PROVE  /\ Flow(o, Tail(q), A, M, G)
           /\ Quiet(o, Tail(q), A, M) => Quiet(o, q, A, M) \/ (m \in M /\ m \in G)
           /\ m \notin M /\ Quiet(o, Tail(q), A, M) => Quiet(o, q, A, M)
           /\ Has(Tail(q), M) => Has(q, M)
<1>1. /\ Has(Tail(q), M) => Has(q, M)
      /\ Has(Tail(q), M) => Latest(Tail(q), M) = Latest(q, M)
      /\ m \notin M /\ Has(q, M) => Has(Tail(q), M)
      /\ m \in M => Has(q, M)
      /\ m \in M /\ ~Has(Tail(q), M) => Latest(q, M) = m
  BY LatestTail
<1>2. Flow(o, Tail(q), A, M, G)
  BY <1>1 DEF Flow
<1> QED BY <1>1, <1>2 DEF Flow, Quiet

LEMMA FlowAnswerTaken ==
    ASSUME NEW o, NEW q, NEW A, NEW M, NEW G, NEW m \in A, Flow(o, q, A, M, G)
    PROVE  /\ Flow(o, q, A \ {m}, M, G)
           /\ Quiet(o, q, A \ {m}, M) => Quiet(o, q, A, M) \/ (m \in M /\ m \in G)
           /\ m \notin M /\ Quiet(o, q, A \ {m}, M) => Quiet(o, q, A, M)
BY DEF Flow, Quiet

LEMMA NothingQueued == \A M : ~Has(<<>>, M)
BY DEF Has

-----------------------------------------------------------------------------
(* Whose turn it is. *)

Others(p, o, a)      == \E i \in DOMAIN o : o[i].about = a /\ o[i].by # p
OwnWaits(p, o, g, a) == \A i \in DOMAIN o : o[i].about = a /\ o[i].by = p => o[i].load = g.loads

Turns      == About("turn")
Telling(t) == {m \in Message : m.about = "turn" /\ m.turn = t}

\* Page g of p is told that turn t is on, or shows it.
TurnOK(p, o, q, A, g, t) ==
    /\ g.at \in {"turn", "deeds"} => g.turn = t \/ Others(p, o, "turn")
    /\ g.at = "live" => /\ Flow(o, q, A, Turns, Telling(t))
                        /\ Quiet(o, q, A, Turns) => g.turn = t
                        /\ OwnWaits(p, o, g, "turn")
                        /\ g.passing = "asked" => ~Has(q, Turns)

TurnsInv ==
    \A p \in Players : "turn" \notin missed[p]
        => TurnOK(p, outbox, queue[p], answers[p], page[p], turn)

LEMMA InTurns == \A m \in Message : m \in Turns <=> m.about = "turn"
BY DEF Turns, About

LEMMA OthersSent ==
    ASSUME NEW p, NEW o \in Seq(Message), NEW m \in Message, NEW g, NEW a
    PROVE  /\ Others(p, o, a) => Others(p, Append(o, m), a)
           /\ m.about = a /\ m.by # p => Others(p, Append(o, m), a)
           /\ OwnWaits(p, o, g, a) /\ (m.about = a /\ m.by = p => m.load = g.loads)
                 => OwnWaits(p, Append(o, m), g, a)
<1> DEFINE r == Append(o, m)
<1>1. /\ Len(o) \in Nat /\ DOMAIN o = 1 .. Len(o) /\ DOMAIN r = 1 .. Len(o) + 1
      /\ \A k \in DOMAIN o : r[k] = o[k]
      /\ r[Len(o) + 1] = m
  BY Appended
<1> HIDE DEF r
<1>2. Len(o) + 1 \in DOMAIN r /\ \A k \in DOMAIN o : k \in DOMAIN r
  BY <1>1
<1>3. \A k \in DOMAIN r : k \in DOMAIN o \/ r[k] = m
  BY <1>1
<1> QED BY <1>1, <1>2, <1>3 DEF Others, OwnWaits, r

LEMMA OthersLeave ==
    ASSUME NEW p, NEW o \in Seq(Message), NEW i \in DOMAIN o, NEW g, NEW a
    PROVE  /\ Others(p, o, a) /\ ~(o[i].about = a /\ o[i].by # p) => Others(p, RemoveAt(o, i), a)
           /\ OwnWaits(p, o, g, a) => OwnWaits(p, RemoveAt(o, i), g, a)
<1> DEFINE r == RemoveAt(o, i)
<1>1. /\ \A k \in DOMAIN r : Before(k, i) \in DOMAIN o \ {i} /\ r[k] = o[Before(k, i)]
      /\ \A j \in DOMAIN o \ {i} : \E k \in DOMAIN r : Before(k, i) = j
  BY Removed
<1> HIDE DEF r
<1>2. ASSUME NEW j \in DOMAIN o, o[j].about = a, o[j].by # p, j # i
      PROVE  Others(p, r, a)
  <2>1. PICK k \in DOMAIN r : Before(k, i) = j
    BY <1>1, <1>2
  <2>2. r[k] = o[j]
    BY <1>1, <2>1
  <2> QED BY <1>2, <2>2 DEF Others
<1>3. OwnWaits(p, o, g, a) => OwnWaits(p, r, g, a)
  BY <1>1 DEF OwnWaits
<1> QED BY <1>2, <1>3 DEF Others, r

\* The page changes, in what does not matter here.
LEMMA TurnKept ==
    ASSUME NEW p, NEW o, NEW q, NEW A, NEW g, NEW t, TurnOK(p, o, q, A, g, t), NEW h,
           h.at = g.at, h.turn = g.turn, h.loads = g.loads,
           h.passing = "asked" => g.passing = "asked"
    PROVE  TurnOK(p, o, q, A, h, t)
BY DEF TurnOK, OwnWaits

\* A message about a property is sent, by anyone.
LEMMA TurnDealSent ==
    ASSUME NEW p, NEW o \in Seq(Message), NEW q, NEW A, NEW g, NEW t, TurnOK(p, o, q, A, g, t),
           NEW m \in Message, m.about # "turn"
    PROVE  TurnOK(p, Append(o, m), q, A, g, t)
<1> DEFINE r == Append(o, m)  M == Turns  G == Telling(t)
<1>1. m \notin M
  BY InTurns
<1>2. /\ Flow(o, q, A, M, G) => Flow(r, q, A, M, G)
      /\ Has(r, M) <=> Has(o, M)
  BY <1>1, FlowSent
<1>3. /\ Others(p, o, "turn") => Others(p, r, "turn")
      /\ OwnWaits(p, o, g, "turn") => OwnWaits(p, r, g, "turn")
  BY OthersSent
<1> HIDE DEF r
<1> QED BY <1>2, <1>3 DEF TurnOK, Quiet, r

\* The turn is passed.
LEMMA TurnPassed ==
    ASSUME NEW p, NEW o \in Seq(Message), NEW q, NEW A, NEW g, NEW t, TurnOK(p, o, q, A, g, t),
           NEW h, NEW u, NEW m \in Message, m.about = "turn", m.turn = u,
           h.at = g.at, h.loads = g.loads,
           m.by = p => h.at = "live" /\ m.load = g.loads /\ ~Has(q, Turns),
           m.by # p => h = g
    PROVE  TurnOK(p, Append(o, m), q, A, h, u)
<1> DEFINE r == Append(o, m)  M == Turns  G == Telling(u)
<1>1. m \in M /\ m \in G
  BY InTurns DEF Telling
<1>2. Flow(r, q, A, M, G) /\ Has(r, M)
  BY <1>1, FlowSent
<1>3. /\ m.by # p => Others(p, r, "turn")
      /\ OwnWaits(p, o, g, "turn") => OwnWaits(p, r, g, "turn")
  BY OthersSent
<1> HIDE DEF r
<1>4. OwnWaits(p, r, g, "turn") => OwnWaits(p, r, h, "turn")
  BY DEF OwnWaits
<1>5. CASE m.by = p
  BY <1>2, <1>3, <1>4, <1>5 DEF TurnOK, Quiet, r
<1>6. CASE m.by # p
  BY <1>2, <1>3, <1>4, <1>6 DEF TurnOK, Quiet, r
<1> QED BY <1>5, <1>6

\* A message about a property leaves the outbox: the page may be told, or answered.
LEMMA TurnDealLeaves ==
    ASSUME NEW p, NEW o \in Seq(Message), NEW q \in Seq(Message), NEW A, NEW g, NEW t,
           TurnOK(p, o, q, A, g, t), NEW i \in DOMAIN o, NEW m, m = o[i], m.about # "turn",
           NEW z, z = q \/ z = Append(q, m), NEW B, \A k \in B : k \in A \/ k = m,
           \A k \in A : k \in B
    PROVE  TurnOK(p, RemoveAt(o, i), z, B, g, t)
<1> DEFINE r == RemoveAt(o, i)  M == Turns  G == Telling(t)
<1>1. m \in Message /\ m \notin M /\ \A k \in A \cup {m} : k \in A \/ k = m
  BY InTurns
<1>2. /\ Flow(o, q, A, M, G) => Flow(r, q, B, M, G)
      /\ Flow(o, q, A, M, G) => (Has(r, M) <=> Has(o, M))
  BY <1>1, FlowPasses
<1>3. Has(Append(q, m), M) <=> Has(q, M)
  BY <1>1, LatestAppended
<1>4. Has(q, M) => Latest(Append(q, m), M) = Latest(q, M)
  BY <1>1, LatestAppended
<1>5. /\ Has(z, M) <=> Has(q, M)
      /\ Has(q, M) => Latest(z, M) = Latest(q, M)
  BY <1>3, <1>4
<1>6. /\ Others(p, o, "turn") => Others(p, r, "turn")
      /\ OwnWaits(p, o, g, "turn") => OwnWaits(p, r, g, "turn")
  BY OthersLeave
<1> HIDE DEF r
<1>7. Flow(o, q, A, M, G) => Flow(r, z, B, M, G)
  BY <1>2, <1>5 DEF Flow
<1>8. Flow(o, q, A, M, G) /\ Quiet(r, z, B, M) => Quiet(o, q, A, M)
  BY <1>1, <1>2, <1>5 DEF Quiet
<1> QED BY <1>5, <1>6, <1>7, <1>8 DEF TurnOK, r

\* The page is told whose turn it is.
LEMMA TurnTold ==
    ASSUME NEW p, NEW o \in Seq(Message), NEW q \in Seq(Message), NEW A, NEW g, NEW t,
           TurnOK(p, o, q, A, g, t), NEW i \in DOMAIN o, NEW m, m = o[i], m.about = "turn",
           \A j \in DOMAIN o : o[j].about = "turn" => i <= j,
           g.at = "live", g.passing # "asked", \A k \in A : k.about # "turn"
    PROVE  TurnOK(p, RemoveAt(o, i), Append(q, m), A, g, t)
<1> DEFINE r == RemoveAt(o, i)  z == Append(q, m)  M == Turns  G == Telling(t)
<1>1. /\ m \in Message /\ m \in M
      /\ \A j \in DOMAIN o : o[j] \in M => i <= j
      /\ \A k \in A : k \notin M
  BY InTurns DEF Turns, About
<1>2. Flow(o, q, A, M, G)
  BY DEF TurnOK
<1>3. Flow(r, z, A, M, G) /\ Has(z, M)
  BY <1>1, <1>2, FlowTold
<1>4. OwnWaits(p, o, g, "turn") => OwnWaits(p, r, g, "turn")
  BY OthersLeave
<1> HIDE DEF r, z
<1> QED BY <1>3, <1>4 DEF TurnOK, Quiet, r, z

\* The page that passed it is answered, or its old load is.
LEMMA TurnAnswered ==
    ASSUME NEW p, NEW o \in Seq(Message), NEW q, NEW A, NEW g, NEW t,
           TurnOK(p, o, q, A, g, t), NEW i \in DOMAIN o, NEW m, m = o[i], m.about = "turn",
           \A j \in DOMAIN o : o[j].about = "turn" => i <= j, m.by = p,
           NEW B, g.at = "live" => /\ g.passing = "asked" /\ \A k \in A : k.about # "turn"
                                   /\ B = A \cup {m}
    PROVE  TurnOK(p, RemoveAt(o, i), q, B, g, t)
<1> DEFINE r == RemoveAt(o, i)  M == Turns  G == Telling(t)
<1>1. m \in Message /\ m \in M /\ (\A j \in DOMAIN o : o[j] \in M => i <= j)
  BY InTurns DEF Turns, About
<1>2. /\ Others(p, o, "turn") => Others(p, r, "turn")
      /\ OwnWaits(p, o, g, "turn") => OwnWaits(p, r, g, "turn")
  BY OthersLeave
<1>3. CASE g.at = "live"
  <2>1. Flow(o, q, A, M, G) /\ ~Has(q, M) /\ (\A k \in A : k \notin M) /\ B = A \cup {m}
    BY <1>3 DEF TurnOK, Turns, About
  <2>2. Flow(r, q, A \cup {m}, M, G)
    BY <1>1, <2>1, FlowAnswered
  <2> HIDE DEF r
  <2>3. ~Quiet(r, q, B, M)
    BY <1>1, <2>1 DEF Quiet
  <2> QED BY <1>2, <1>3, <2>1, <2>2, <2>3 DEF TurnOK, r
<1>4. CASE g.at # "live"
  BY <1>2, <1>4 DEF TurnOK
<1> QED BY <1>3, <1>4

\* The page takes a message from its queue, or its answer.
LEMMA TurnTaken ==
    ASSUME NEW p, NEW o, NEW q \in Seq(Message), NEW A, NEW g, NEW t, TurnOK(p, o, q, A, g, t),
           q # <<>>, NEW m, m = Head(q), m \in Message, NEW h, h.at = "live", g.at = "live",
           h.loads = g.loads, h.passing = g.passing,
           m.about = "turn" => h.turn = m.turn, m.about # "turn" => h.turn = g.turn
    PROVE  TurnOK(p, o, Tail(q), A, h, t)
<1> DEFINE z == Tail(q)  M == Turns  G == Telling(t)
<1>1. Flow(o, q, A, M, G)
  BY DEF TurnOK
<1>2. /\ Flow(o, z, A, M, G)
      /\ Quiet(o, z, A, M) => Quiet(o, q, A, M) \/ (m \in M /\ m \in G)
      /\ m \notin M /\ Quiet(o, z, A, M) => Quiet(o, q, A, M)
      /\ Has(z, M) => Has(q, M)
  BY <1>1, FlowTaken
<1>3. m \in M => Has(q, M)
  <2>1. 1 \in DOMAIN q /\ q[1] = m
    BY HeadRemoved
  <2> QED BY <2>1 DEF Has
<1>4. (m \in M <=> m.about = "turn") /\ (m \in G => m.turn = t)
  BY InTurns DEF Telling
<1> HIDE DEF z
<1>5. Quiet(o, z, A, M) => h.turn = t
  BY <1>2, <1>3, <1>4 DEF TurnOK, Quiet
<1> QED BY <1>2, <1>5 DEF TurnOK, OwnWaits, z

LEMMA TurnAnswerTaken ==
    ASSUME NEW p, NEW o, NEW q, NEW A, NEW g, NEW t, TurnOK(p, o, q, A, g, t),
           NEW m \in A, m \in Message, NEW h, h.at = "live", g.at = "live", h.loads = g.loads,
           h.passing = "asked" => g.passing = "asked",
           m.about = "turn" => h.turn = m.turn, m.about # "turn" => h.turn = g.turn
    PROVE  TurnOK(p, o, q, A \ {m}, h, t)
<1> DEFINE B == A \ {m}  M == Turns  G == Telling(t)
<1>1. Flow(o, q, A, M, G)
  BY DEF TurnOK
<1>2. /\ Flow(o, q, B, M, G)
      /\ Quiet(o, q, B, M) => Quiet(o, q, A, M) \/ (m \in M /\ m \in G)
      /\ m \notin M /\ Quiet(o, q, B, M) => Quiet(o, q, A, M)
  BY <1>1, FlowAnswerTaken
<1>3. (m \in M <=> m.about = "turn") /\ (m \in G => m.turn = t)
  BY InTurns DEF Telling
<1>4. m \in M => ~Quiet(o, q, A, M)
  BY DEF Quiet
<1> HIDE DEF B
<1>5. Quiet(o, q, B, M) => h.turn = t
  BY <1>2, <1>3, <1>4 DEF TurnOK
<1> QED BY <1>2, <1>5 DEF TurnOK, OwnWaits, B

\* Who sends, and is not made unsure, waits for nobody else.
LEMMA SendMissed ==
    ASSUME TypeOK, NEW p \in Players, NEW m \in Message, Send(p, m)
    PROVE  /\ \A x \in Players : missed[x] \subseteq missed'[x]
           /\ m.about \notin missed'[p] => ~Overdue(p, m.about)
           /\ m.about = "turn" /\ Holder(page[p].turn) = p /\ "claim" \notin missed'[p]
                 => ~Overdue(p, m.about)
<1> DEFINE w == {m.about}  v == Missing(p, w)
<1>1. missed' = (IF Overdue(p, m.about) THEN [missed EXCEPT ![p] = v] ELSE missed)
  BY DEF Send
<1>2. w \in SUBSET Abouts
  BY MessageType
<1>3. missed \in [Players -> SUBSET (Deeds \cup {"turn", "claim"})]
  BY DEF TypeOK
<1>4. m.about = "turn" /\ Holder(page[p].turn) = p => "claim" \in v
  BY DEF Missing
<1>5. missed[p] \subseteq v /\ m.about \in v
  <2>1. m.about \in w
    OBVIOUS
  <2> HIDE DEF w
  <2> QED BY <1>2, <2>1, MissingType
<1> HIDE DEF v
<1> QED BY <1>1, <1>3, <1>4, <1>5

\* Only a load makes a page sure of what it missed.
LEMMA MissedStays ==
    ASSUME TypeInv, NEW p \in Players,
           PassTurn(p) \/ Claim(p) \/ ClaimPaid(p) \/ Take(p) \/ Deliver(p) \/ Answer(p)
             \/ Leave(p) \/ Drop(p) \/ Disconnect(p) \/ Connect(p)
             \/ \E d \in Deeds : Look(p, d) \/ Upgrade(p, d)
    PROVE  \A x \in Players : missed[x] \subseteq missed'[x]
<1>1. TypeOK /\ missed \in [Players -> SUBSET (Deeds \cup {"turn", "claim"})]
  BY DEF TypeInv, TypeOK
<1>2. ASSUME NEW v, missed' = [missed EXCEPT ![p] = v], missed[p] \subseteq v
      PROVE  \A x \in Players : missed[x] \subseteq missed'[x]
  BY <1>1, <1>2
<1>3. CASE PassTurn(p)
  <2>1. CASE Holder(turn) = p
    <3> DEFINE m == [about |-> "turn", by |-> p, load |-> page[p].loads, turn |-> turn + 1]
    <3>1. m \in Message
      <4>1. turn + 1 \in Nat /\ page[p].loads \in Nat
        BY <1>1, PageType DEF TypeOK
      <4> QED BY <4>1, MessageMade
    <3>2. Send(p, m)
      BY <1>3, <2>1 DEF PassTurn
    <3> HIDE DEF m
    <3> QED BY <1>1, <3>1, <3>2, SendMissed
  <2>2. CASE Holder(turn) # p
    BY <1>3, <2>2 DEF PassTurn
  <2> QED BY <2>1, <2>2
<1>4. CASE Claim(p) \/ Disconnect(p) \/ \E d \in Deeds : Look(p, d)
  BY <1>4 DEF Claim, Disconnect, Look, history
<1>5. CASE ClaimPaid(p)
  <2>1. missed' = missed \/ missed' = [missed EXCEPT ![p] = missed[p] \cup {"claim"}]
    BY <1>5 DEF ClaimPaid
  <2>2. missed[p] \subseteq missed[p] \cup {"claim"}
    OBVIOUS
  <2> QED BY <1>2, <2>1, <2>2
<1>6. CASE Take(p)
  <2>1. PICK d : d = page[p].deal
    OBVIOUS
  <2>2. PICK v \in Nat : Send(p, Sold(p, d, page[p].loads, v))
    BY <1>6, <2>1, TakeWrites
  <2>3. d \in Deeds /\ page[p].loads \in Nat
    BY <1>1, <1>6, <2>1, TakeWrites, PageType
  <2>4. Sold(p, d, page[p].loads, v) \in Message
    BY <2>3, SoldIs
  <2> QED BY <1>1, <2>2, <2>4, SendMissed
<1>7. ASSUME NEW d \in Deeds, Upgrade(p, d)
      PROVE  \A x \in Players : missed[x] \subseteq missed'[x]
  <2>1. PICK v \in Nat : Send(p, Raised(p, d, page[p].loads, v))
    BY <1>7, UpgradeWrites
  <2>2. page[p].loads \in Nat
    BY <1>1, PageType
  <2>3. Raised(p, d, page[p].loads, v) \in Message
    BY <2>2, RaisedIs
  <2> QED BY <1>1, <2>1, <2>3, SendMissed
<1>8. CASE Deliver(p)
  BY <1>8 DEF Deliver, Hear, history
<1>9. CASE Answer(p)
  BY <1>9 DEF Answer, history
<1>10. CASE Leave(p)
  <2> DEFINE w == {queue[p][i].about : i \in DOMAIN queue[p]}
             v == Missing(p, w) \cup (IF page[p].passing # "no" \/ page[p].claiming
                                      THEN {"claim"} ELSE {})
  <2>1. missed' = [missed EXCEPT ![p] = v]
    BY <1>10 DEF Leave
  <2>2. missed[p] \subseteq v
    BY DEF Missing
  <2> HIDE DEF v
  <2> QED BY <1>2, <2>1, <2>2
<1>11. CASE Drop(p)
  <2> DEFINE w == {queue[p][i].about : i \in DOMAIN queue[p]}
             v == Missing(p, w)
  <2>1. missed' = [missed EXCEPT ![p] = v]
    BY <1>11 DEF Drop
  <2>2. missed[p] \subseteq v
    BY DEF Missing
  <2> HIDE DEF v
  <2> QED BY <1>2, <2>1, <2>2
<1>12. CASE Connect(p)
  <2> DEFINE late == {outbox[i].about : i \in DOMAIN outbox}
             v == missed[p] \cup late \cup (IF "turn" \in late THEN {"claim"} ELSE {})
  <2>1. missed' = [missed EXCEPT ![p] = v]
    BY <1>12 DEF Connect
  <2>2. missed[p] \subseteq v
    OBVIOUS
  <2> HIDE DEF v
  <2> QED BY <1>2, <2>1, <2>2
<1> QED BY <1>3, <1>4, <1>5, <1>6, <1>7, <1>8, <1>9, <1>10, <1>11, <1>12

\* What a page that is left or disconnected had in its queue.
LEMMA BreakMissed ==
    ASSUME TypeOK, NEW p \in Players, Leave(p) \/ Drop(p)
    PROVE  \A a \in Abouts : a \notin missed'[p] => ~Has(queue[p], About(a))
<1> DEFINE w == {queue[p][i].about : i \in DOMAIN queue[p]}
<1>1. queue[p] \in Seq(Message)
  BY DEF TypeOK
<1>2. \A a \in Abouts : Has(queue[p], About(a)) => a \in w
  BY <1>1 DEF Has, About
<1>3. w \subseteq missed'[p]
  <2>1. w \subseteq Missing(p, w)
    BY DEF Missing
  <2>2. \E v : missed' = [missed EXCEPT ![p] = Missing(p, w) \cup v]
    <3>1. CASE Leave(p)
      BY <3>1 DEF Leave
    <3>2. CASE Drop(p)
      <4>1. missed' = [missed EXCEPT ![p] = Missing(p, w)]
        BY <3>2 DEF Drop
      <4>2. Missing(p, w) = Missing(p, w) \cup {}
        OBVIOUS
      <4> QED BY <4>1, <4>2
    <3> QED BY <3>1, <3>2
  <2>3. missed \in [Players -> SUBSET (Deeds \cup {"turn", "claim"})]
    BY DEF TypeOK
  <2> HIDE DEF w
  <2> QED BY <2>1, <2>2, <2>3
<1> QED BY <1>2, <1>3

\* What may come late to a page that connects.
LEMMA ConnectMissed ==
    ASSUME TypeOK, NEW p \in Players, Connect(p)
    PROVE  /\ \A i \in DOMAIN outbox : outbox[i].about \in missed'[p]
           /\ "claim" \notin missed'[p] => \A i \in DOMAIN outbox : outbox[i].about # "turn"
           /\ \A x \in Players \ {p} : missed'[x] = missed[x]
<1> DEFINE late == {outbox[i].about : i \in DOMAIN outbox}
           v == missed[p] \cup late \cup (IF "turn" \in late THEN {"claim"} ELSE {})
<1>1. missed' = [missed EXCEPT ![p] = v]
  BY DEF Connect
<1>2. /\ \A i \in DOMAIN outbox : outbox[i].about \in v
      /\ "claim" \notin v => \A i \in DOMAIN outbox : outbox[i].about # "turn"
  OBVIOUS
<1>3. missed \in [Players -> SUBSET (Deeds \cup {"turn", "claim"})]
  BY DEF TypeOK
<1> HIDE DEF v
<1> QED BY <1>1, <1>2, <1>3

\* A step of p alone, which passes no turn; it may send a message about a property.
LEMMA TurnsKept ==
    ASSUME TypeOK, TurnsInv, NEW p \in Players, UNCHANGED <<turn, queue, answers>>,
           outbox' = outbox
             \/ \E m \in Message : m.about # "turn" /\ outbox' = Append(outbox, m),
           \A x \in Players \ {p} : page'[x] = page[x],
           page'[p].at = page[p].at, page'[p].turn = page[p].turn,
           page'[p].loads = page[p].loads,
           page'[p].passing = "asked" => page[p].passing = "asked",
           \A x \in Players : missed[x] \subseteq missed'[x]
    PROVE  TurnsInv'
<1>1. outbox \in Seq(Message)
  BY DEF TypeOK
<1>2. ASSUME NEW x \in Players, "turn" \notin missed'[x]
      PROVE  TurnOK(x, outbox', queue'[x], answers'[x], page'[x], turn')
  <2>1. TurnOK(x, outbox, queue[x], answers[x], page[x], turn)
    BY <1>2 DEF TurnsInv
  <2>2. TurnOK(x, outbox', queue[x], answers[x], page[x], turn)
    BY <1>1, <2>1, TurnDealSent
  <2>3. /\ page'[x].at = page[x].at /\ page'[x].turn = page[x].turn
        /\ page'[x].loads = page[x].loads
        /\ page'[x].passing = "asked" => page[x].passing = "asked"
    BY <1>2
  <2> QED BY <2>2, <2>3, TurnKept
<1> QED BY <1>2 DEF TurnsInv

LEMMA PassTurns ==
    ASSUME TypeInv, TurnsInv, NEW p \in Players, PassTurn(p)
    PROVE  TurnsInv'
<1>1. TypeOK /\ outbox \in Seq(Message) /\ turn \in Nat
  BY DEF TypeInv, TypeOK
<1>2. /\ \A x \in Players \ {p} : page'[x] = page[x]
      /\ page'[p].passing = (IF Holder(turn) = p THEN "asked" ELSE "failed")
      /\ page'[p].at = page[p].at /\ page'[p].loads = page[p].loads
      /\ page'[p].turn = page[p].turn
  BY <1>1, PassTurnPage
<1>3. page[p].at = "live" /\ UNCHANGED <<queue, answers>>
  BY DEF PassTurn, MyTurn
<1>4. \A x \in Players : missed[x] \subseteq missed'[x]
  BY MissedStays
<1>5. CASE Holder(turn) # p
  <2>1. outbox' = outbox /\ turn' = turn
    BY <1>5 DEF PassTurn
  <2> QED BY <1>1, <1>2, <1>3, <1>4, <1>5, <2>1, TurnsKept
<1>6. CASE Holder(turn) = p
  <2> DEFINE m == [about |-> "turn", by |-> p, load |-> page[p].loads, turn |-> turn + 1]
  <2>1. m \in Message
    <3>1. turn + 1 \in Nat /\ page[p].loads \in Nat
      BY <1>1, PageType
    <3> QED BY <3>1, MessageMade
  <2>2. Send(p, m) /\ turn' = turn + 1
    BY <1>6 DEF PassTurn
  <2>3. m.about = "turn" /\ m.by = p /\ m.load = page[p].loads /\ m.turn = turn + 1
    OBVIOUS
  <2> HIDE DEF m
  <2>4. outbox' = Append(outbox, m)
    BY <2>2 DEF Send
  <2>5. "turn" \notin missed'[p] => ~Has(queue[p], Turns)
    <3>1. "turn" \notin missed'[p] => ~Overdue(p, "turn")
      BY <1>1, <2>1, <2>2, <2>3, SendMissed
    <3> QED BY <3>1 DEF Overdue, Has, Turns, About
  <2>6. ASSUME NEW x \in Players, "turn" \notin missed'[x]
        PROVE  TurnOK(x, outbox', queue'[x], answers'[x], page'[x], turn')
    <3>1. TurnOK(x, outbox, queue[x], answers[x], page[x], turn)
      BY <1>4, <2>6 DEF TurnsInv
    <3>2. /\ page'[x].at = page[x].at /\ page'[x].loads = page[x].loads
          /\ m.by # x => page'[x] = page[x]
          /\ m.by = x => /\ page'[x].at = "live" /\ m.load = page[x].loads
                         /\ ~Has(queue[x], Turns)
      BY <1>2, <1>3, <2>3, <2>5, <2>6
    <3>3. TurnOK(x, Append(outbox, m), queue[x], answers[x], page'[x], turn')
      BY <1>1, <2>1, <2>2, <2>3, <3>1, <3>2, TurnPassed
    <3> QED BY <1>3, <2>4, <3>3
  <2> QED BY <2>6 DEF TurnsInv
<1> QED BY <1>5, <1>6

LEMMA DealTurns ==
    ASSUME TypeInv, TurnsInv, NEW p \in Players,
           Claim(p) \/ ClaimPaid(p) \/ Take(p) \/ \E d \in Deeds : Look(p, d) \/ Upgrade(p, d)
    PROVE  TurnsInv'
<1>1. TypeOK
  BY DEF TypeInv
<1>2. \A x \in Players : missed[x] \subseteq missed'[x]
  BY MissedStays
<1>3. CASE Claim(p) \/ ClaimPaid(p)
  <2>1. /\ \A x \in Players \ {p} : page'[x] = page[x]
        /\ page'[p].passing = page[p].passing /\ page'[p].at = page[p].at
        /\ page'[p].loads = page[p].loads /\ page'[p].turn = page[p].turn
    BY <1>1, <1>3, ClaimPage, ClaimPaidPage
  <2>2. UNCHANGED <<turn, queue, answers, outbox>>
    BY <1>3 DEF Claim, ClaimPaid, server, network
  <2> QED BY <1>1, <1>2, <2>1, <2>2, TurnsKept
<1>4. CASE Take(p)
  <2>1. PICK d : d = page[p].deal
    OBVIOUS
  <2>2. PICK v \in Nat : Send(p, Sold(p, d, page[p].loads, v))
    BY <1>4, <2>1, TakeWrites
  <2>3. d \in Deeds /\ page[p].loads \in Nat
    BY <1>1, <1>4, <2>1, TakeWrites, PageType
  <2>4. PICK m \in Message : m.about # "turn" /\ Send(p, m)
    BY <2>2, <2>3, SoldIs, Constants
  <2>5. outbox' = Append(outbox, m)
    BY <2>4 DEF Send
  <2>6. /\ \A x \in Players \ {p} : page'[x] = page[x]
        /\ page'[p].passing = page[p].passing /\ page'[p].at = page[p].at
        /\ page'[p].loads = page[p].loads /\ page'[p].turn = page[p].turn
    BY <1>1, <1>4, TakePage
  <2>7. UNCHANGED <<turn, queue, answers>>
    BY <1>4 DEF Take
  <2> QED BY <1>1, <1>2, <2>4, <2>5, <2>6, <2>7, TurnsKept
<1>5. ASSUME NEW d \in Deeds, Look(p, d)
      PROVE  TurnsInv'
  <2>1. RowsOf(d) # {} => RowOf(d).level \in Nat
    BY <1>1, FirstRow DEF TypeOK, Row
  <2>2. /\ \A x \in Players \ {p} : page'[x] = page[x]
        /\ page'[p].passing = page[p].passing /\ page'[p].at = page[p].at
        /\ page'[p].loads = page[p].loads /\ page'[p].turn = page[p].turn
    BY <1>1, <1>5, <2>1, LookPage
  <2>3. UNCHANGED <<turn, queue, answers, outbox>>
    BY <1>5 DEF Look, server, network
  <2> QED BY <1>1, <1>2, <2>2, <2>3, TurnsKept
<1>6. ASSUME NEW d \in Deeds, Upgrade(p, d)
      PROVE  TurnsInv'
  <2>1. PICK v \in Nat : Send(p, Raised(p, d, page[p].loads, v))
    BY <1>6, UpgradeWrites
  <2>2. page[p].loads \in Nat
    BY <1>1, PageType
  <2>3. PICK m \in Message : m.about # "turn" /\ Send(p, m)
    BY <2>1, <2>2, RaisedIs, Constants
  <2>4. outbox' = Append(outbox, m)
    BY <2>3 DEF Send
  <2>5. /\ \A x \in Players \ {p} : page'[x] = page[x]
        /\ page'[p].passing = page[p].passing /\ page'[p].at = page[p].at
        /\ page'[p].loads = page[p].loads /\ page'[p].turn = page[p].turn
    BY <1>1, <1>6, UpgradePage
  <2>6. UNCHANGED <<turn, queue, answers>>
    BY <1>6 DEF Upgrade
  <2> QED BY <1>1, <1>2, <2>3, <2>4, <2>5, <2>6, TurnsKept
<1> QED BY <1>3, <1>4, <1>5, <1>6

LEMMA NotifyTurns ==
    ASSUME TypeInv, RequestsInv, TurnsInv, NEW i \in DOMAIN outbox, Notify(i)
    PROVE  TurnsInv'
<1>1. TypeOK /\ outbox \in Seq(Message)
  BY DEF TypeInv, TypeOK
<1>2. PICK m \in Message : m = outbox[i]
  BY <1>1
<1>3. PICK told \in SUBSET Players : told = Recipients(m)
  BY DEF Recipients
<1>4. /\ outbox' = RemoveAt(outbox, i) /\ Sent(i, told) /\ UNCHANGED <<turn, page>>
      /\ queue' = [x \in Players |-> IF x \in told THEN Append(queue[x], m) ELSE queue[x]]
      /\ answers' = IF Waiting(m) THEN [answers EXCEPT ![m.by] = answers[m.by] \cup {m}]
                                  ELSE answers
  BY <1>2, <1>3 DEF Notify, Sent, server
<1>5. \A x \in told : page[x].at = "live" /\ x # m.by
  BY <1>3, ToldAreLive
<1>6. ASSUME NEW x \in Players
      PROVE  /\ answers'[x] = answers[x] \/ (x = m.by /\ Waiting(m) /\ answers'[x] = answers[x] \cup {m})
             /\ x = m.by /\ Waiting(m) => answers'[x] = answers[x] \cup {m}
  <2>1. answers \in [Players -> SUBSET Message]
    BY <1>1 DEF TypeOK
  <2>2. m.by \in Players
    BY MessageType
  <2> QED BY <1>4, <2>1, <2>2
<1>7. ASSUME NEW x \in Players, "turn" \notin missed'[x]
      PROVE  TurnOK(x, outbox', queue'[x], answers'[x], page'[x], turn')
  <2>1. /\ "turn" \notin missed[x]
        /\ m.about = "turn" =>
              /\ \A j \in DOMAIN outbox : outbox[j].about = "turn" => i <= j
              /\ x = m.by \/ (x \in told /\ x \notin Exposed("turn"))
    BY <1>1, <1>2, <1>4, <1>7, SentMissed
  <2>2. TurnOK(x, outbox, queue[x], answers[x], page[x], turn)
    BY <2>1 DEF TurnsInv
  <2>3. PageOK(x, outbox, queue[x], answers[x], page[x])
    BY DEF RequestsInv
  <2>4. queue[x] \in Seq(Message)
    BY <1>1 DEF TypeOK
  <2>5. CASE m.about # "turn"
    <3>1. queue'[x] = queue[x] \/ queue'[x] = Append(queue[x], m)
      BY <1>4
    <3>2. /\ \A k \in answers'[x] : k \in answers[x] \/ k = m
          /\ \A k \in answers[x] : k \in answers'[x]
      BY <1>6
    <3>3. TurnOK(x, RemoveAt(outbox, i), queue'[x], answers'[x], page[x], turn)
      BY <1>1, <1>2, <2>2, <2>4, <2>5, <3>1, <3>2, TurnDealLeaves
    <3> QED BY <1>4, <3>3
  <2>6. CASE m.about = "turn" /\ x # m.by
    <3>1. x \in told /\ page[x].at = "live" /\ page[x].passing # "asked"
      BY <1>5, <2>1, <2>6 DEF Exposed, Awaits
    <3>2. \A k \in answers[x] : k.about # "turn"
      BY <2>3, <3>1 DEF PageOK, AnswersOK, Asking
    <3>3. TurnOK(x, RemoveAt(outbox, i), Append(queue[x], m), answers[x], page[x], turn)
      BY <1>1, <1>2, <2>1, <2>2, <2>4, <2>6, <3>1, <3>2, TurnTold
    <3>4. queue'[x] = Append(queue[x], m) /\ answers'[x] = answers[x]
      BY <1>4, <1>6, <2>6, <3>1
    <3> QED BY <1>4, <3>3, <3>4
  <2>7. CASE m.about = "turn" /\ x = m.by
    <3>1. queue'[x] = queue[x]
      BY <1>4, <1>5, <2>7
    <3>2. ASSUME page[x].at = "live"
          PROVE  /\ page[x].passing = "asked" /\ \A k \in answers[x] : k.about # "turn"
                 /\ answers'[x] = answers[x] \cup {m}
      <4>1. m.load = page[x].loads
        BY <1>2, <2>2, <2>7, <3>2 DEF TurnOK, OwnWaits
      <4>2. Asking(page[x], m.about) /\ \A k \in answers[x] : k.about # m.about
        BY <1>2, <2>3, <2>7, <4>1 DEF PageOK, SentOK
      <4>3. Waiting(m)
        BY <2>7, <3>2, <4>1 DEF Waiting
      <4> QED BY <1>6, <2>7, <4>2, <4>3 DEF Asking
    <3>3. TurnOK(x, RemoveAt(outbox, i), queue[x], answers'[x], page[x], turn)
      BY <1>1, <1>2, <2>1, <2>2, <2>7, <3>2, TurnAnswered
    <3> QED BY <1>4, <3>1, <3>3
  <2> QED BY <2>5, <2>6, <2>7
<1> QED BY <1>7 DEF TurnsInv

LEMMA NotifyFailsTurns ==
    ASSUME TypeInv, TurnsInv, NEW i \in DOMAIN outbox, NotifyFails(i)
    PROVE  TurnsInv'
<1>1. TypeOK /\ outbox \in Seq(Message)
  BY DEF TypeInv, TypeOK
<1>2. PICK m \in Message : m = outbox[i]
  BY <1>1
<1>3. PICK told \in SUBSET Recipients(m) :
         /\ outbox' = RemoveAt(outbox, i)
         /\ queue' = [x \in Players |-> IF x \in told THEN Append(queue[x], m) ELSE queue[x]]
         /\ missed' = [x \in Players |-> Missing(x, {m.about}) \cup Doubt(i)]
  BY <1>2 DEF NotifyFails
<1>4. UNCHANGED <<turn, answers>>
  BY DEF NotifyFails, server
<1>5. \A x \in Players : m.about \in missed'[x] /\ missed[x] \subseteq missed'[x]
  BY <1>1, <1>2, <1>3, FailsMissed
<1>6. PICK p \in Players : p = m.by
  BY MessageType
<1>7. ASSUME NEW x \in Players, "turn" \notin missed'[x]
      PROVE  TurnOK(x, outbox', queue'[x], answers'[x], page'[x], turn')
  <2>1. m.about # "turn"
    BY <1>5, <1>7
  <2>2. TurnOK(x, outbox, queue[x], answers[x], page[x], turn)
    BY <1>5, <1>7 DEF TurnsInv
  <2>3. queue'[x] = queue[x] \/ queue'[x] = Append(queue[x], m)
    BY <1>3
  <2>4. queue[x] \in Seq(Message)
    BY <1>1 DEF TypeOK
  <2>5. TurnOK(x, RemoveAt(outbox, i), queue'[x], answers[x], page[x], turn)
    BY <1>1, <1>2, <2>1, <2>2, <2>3, <2>4, TurnDealLeaves
  <2>6. /\ page'[x].at = page[x].at /\ page'[x].turn = page[x].turn
        /\ page'[x].loads = page[x].loads /\ page'[x].passing = page[x].passing
    <3>1. CASE Waiting(m)
      BY <1>1, <1>2, <1>6, <2>1, <3>1, FailsDeedPage
    <3>2. CASE ~Waiting(m)
      BY <1>2, <3>2 DEF NotifyFails
    <3> QED BY <3>1, <3>2
  <2>7. TurnOK(x, RemoveAt(outbox, i), queue'[x], answers[x], page'[x], turn)
    BY <2>5, <2>6, TurnKept
  <2> QED BY <1>3, <1>4, <2>7
<1> QED BY <1>7 DEF TurnsInv

LEMMA HearTurns ==
    ASSUME TypeInv, RequestsInv, TurnsInv, NEW p \in Players, Deliver(p) \/ Answer(p)
    PROVE  TurnsInv'
<1>1. TypeOK
  BY DEF TypeInv
<1>2. \A x \in Players : missed[x] \subseteq missed'[x]
  BY MissedStays
<1>3. PageOK(p, outbox, queue[p], answers[p], page[p])
  BY DEF RequestsInv
<1>4. CASE Deliver(p)
  <2>1. PICK m : m = Head(queue[p])
    OBVIOUS
  <2>2. /\ m \in Message /\ queue[p] \in Seq(Message) /\ queue[p] # <<>>
        /\ queue'[p] = Tail(queue[p])
        /\ \A x \in Players \ {p} : queue'[x] = queue[x] /\ page'[x] = page[x]
        /\ page'[p].at = page[p].at /\ page'[p].passing = page[p].passing
        /\ page'[p].loads = page[p].loads
        /\ m.about = "turn" => page'[p].turn = m.turn
        /\ m.about # "turn" => page'[p].turn = page[p].turn
        /\ UNCHANGED <<turn, outbox, answers>>
    BY <1>1, <1>4, <2>1, DeliverIs DEF server
  <2>3. page[p].at = "live"
    BY <1>3, <2>2 DEF PageOK, AwayOK
  <2>4. ASSUME NEW x \in Players, "turn" \notin missed'[x]
        PROVE  TurnOK(x, outbox', queue'[x], answers'[x], page'[x], turn')
    <3>1. TurnOK(x, outbox, queue[x], answers[x], page[x], turn)
      BY <1>2, <2>4 DEF TurnsInv
    <3>2. CASE x # p
      BY <2>2, <3>1, <3>2
    <3>3. CASE x = p
      <4>1. TurnOK(p, outbox, Tail(queue[p]), answers[p], page'[p], turn)
        BY <2>1, <2>2, <2>3, <3>1, <3>3, TurnTaken
      <4> QED BY <2>2, <3>3, <4>1
    <3> QED BY <3>2, <3>3
  <2> QED BY <2>4 DEF TurnsInv
<1>5. CASE Answer(p)
  <2>1. PICK m \in answers[p] :
          /\ m \in Message /\ answers'[p] = answers[p] \ {m}
          /\ \A x \in Players \ {p} : answers'[x] = answers[x] /\ page'[x] = page[x]
          /\ page'[p].at = page[p].at /\ page'[p].loads = page[p].loads
          /\ m.about = "turn" => page'[p].turn = m.turn /\ page'[p].passing = "no"
          /\ m.about # "turn" => /\ page'[p].turn = page[p].turn
                                 /\ page'[p].passing = page[p].passing
          /\ UNCHANGED <<turn, outbox, queue>>
    BY <1>1, <1>5, AnswerIs DEF server
  <2>2. page[p].at = "live"
    BY <1>3, <2>1 DEF PageOK, AwayOK
  <2>3. page'[p].passing = "asked" => page[p].passing = "asked"
    BY <2>1
  <2>4. ASSUME NEW x \in Players, "turn" \notin missed'[x]
        PROVE  TurnOK(x, outbox', queue'[x], answers'[x], page'[x], turn')
    <3>1. TurnOK(x, outbox, queue[x], answers[x], page[x], turn)
      BY <1>2, <2>4 DEF TurnsInv
    <3>2. CASE x # p
      BY <2>1, <3>1, <3>2
    <3>3. CASE x = p
      <4>1. TurnOK(p, outbox, queue[p], answers[p] \ {m}, page'[p], turn)
        BY <2>1, <2>2, <2>3, <3>1, <3>3, TurnAnswerTaken
      <4> QED BY <2>1, <3>3, <4>1
    <3> QED BY <3>2, <3>3
  <2> QED BY <2>4 DEF TurnsInv
<1> QED BY <1>4, <1>5

\* A step of p's page alone.
LEMMA TurnsAlone ==
    ASSUME TurnsInv, NEW p \in Players, UNCHANGED <<turn, outbox>>,
           \A x \in Players \ {p} : /\ page'[x] = page[x] /\ queue'[x] = queue[x]
                                    /\ answers'[x] = answers[x]
                                    /\ missed[x] \subseteq missed'[x],
           "turn" \notin missed'[p] =>
                TurnOK(p, outbox, queue'[p], answers'[p], page'[p], turn)
    PROVE  TurnsInv'
<1>1. ASSUME NEW x \in Players, "turn" \notin missed'[x]
      PROVE  TurnOK(x, outbox', queue'[x], answers'[x], page'[x], turn')
  <2>1. CASE x = p
    BY <1>1, <2>1
  <2>2. CASE x # p
    <3>1. TurnOK(x, outbox, queue[x], answers[x], page[x], turn)
      BY <1>1, <2>2 DEF TurnsInv
    <3> QED BY <2>2, <3>1
  <2> QED BY <2>1, <2>2
<1> QED BY <1>1 DEF TurnsInv

LEMMA LoadTurns ==
    ASSUME TypeInv, RequestsInv, TurnsInv, NEW p \in Players,
           Leave(p) \/ Drop(p) \/ Load(p) \/ Disconnect(p)
    PROVE  TurnsInv'
<1>1. /\ TypeOK /\ queue \in [Players -> Seq(Message)] /\ answers \in [Players -> SUBSET Message]
      /\ missed \in [Players -> SUBSET (Deeds \cup {"turn", "claim"})]
  BY DEF TypeInv, TypeOK
<1>2. PageOK(p, outbox, queue[p], answers[p], page[p])
  BY DEF RequestsInv
<1>3. "turn" \notin missed[p] => TurnOK(p, outbox, queue[p], answers[p], page[p], turn)
  BY DEF TurnsInv
<1>4. CASE Leave(p)
  <2>1. (\A x \in Players \ {p} : page'[x] = page[x]) /\ page'[p].at = "away"
    BY <1>1, <1>4, LeavePage
  <2>2. /\ queue' = [queue EXCEPT ![p] = <<>>] /\ answers' = [answers EXCEPT ![p] = {}]
        /\ UNCHANGED <<turn, outbox>>
    BY <1>4 DEF Leave, server
  <2>3. \A x \in Players : missed[x] \subseteq missed'[x]
    BY <1>4, MissedStays
  <2>4. TurnOK(p, outbox, queue'[p], answers'[p], page'[p], turn)
    BY <2>1 DEF TurnOK
  <2> QED BY <1>1, <2>1, <2>2, <2>3, <2>4, TurnsAlone
<1>5. CASE Drop(p)
  <2>1. /\ \A x \in Players \ {p} : page'[x] = page[x]
        /\ page'[p].at = page[p].at /\ page'[p].turn = page[p].turn
        /\ page'[p].loads = page[p].loads /\ page'[p].passing = page[p].passing
    BY <1>1, <1>5, DropPage
  <2>2. /\ queue' = [queue EXCEPT ![p] = <<>>] /\ page[p].at = "live"
        /\ UNCHANGED <<turn, outbox, answers>>
    BY <1>5 DEF Drop, server
  <2>3. \A x \in Players : missed[x] \subseteq missed'[x]
    BY <1>5, MissedStays
  <2>4. ASSUME "turn" \notin missed'[p]
        PROVE  TurnOK(p, outbox, queue'[p], answers'[p], page'[p], turn)
    <3> DEFINE M == Turns  G == Telling(turn)
    <3>1. TurnOK(p, outbox, queue[p], answers[p], page[p], turn)
      BY <1>3, <2>3, <2>4
    <3>2. ~Has(queue[p], M) /\ ~Has(<<>>, M)
      BY <1>1, <1>5, <2>4, BreakMissed, NothingQueued DEF Abouts, Turns
    <3>3. /\ Flow(outbox, <<>>, answers[p], M, G)
          /\ Quiet(outbox, <<>>, answers[p], M) => Quiet(outbox, queue[p], answers[p], M)
      BY <2>2, <3>1, <3>2 DEF TurnOK, Flow, Quiet
    <3>4. queue'[p] = <<>>
      BY <1>1, <2>2
    <3>5. TurnOK(p, outbox, <<>>, answers[p], page[p], turn)
      BY <2>2, <3>1, <3>2, <3>3 DEF TurnOK
    <3>6. TurnOK(p, outbox, <<>>, answers[p], page'[p], turn)
      BY <2>1, <3>5, TurnKept
    <3> QED BY <2>2, <3>4, <3>6
  <2> QED BY <1>1, <2>1, <2>2, <2>3, <2>4, TurnsAlone
<1>6. CASE FetchTurn(p)
  <2>1. /\ \A x \in Players \ {p} : page'[x] = page[x]
        /\ page'[p].at = "turn" /\ page'[p].turn = turn
    BY <1>1, <1>6, FetchTurnPage
  <2>2. UNCHANGED <<turn, outbox, queue, answers>>
    BY <1>6 DEF FetchTurn, server, network
  <2>3. \A x \in Players \ {p} : missed'[x] = missed[x]
    BY <1>1, <1>6 DEF FetchTurn
  <2>4. TurnOK(p, outbox, queue'[p], answers'[p], page'[p], turn)
    BY <2>1 DEF TurnOK
  <2> QED BY <2>1, <2>2, <2>3, <2>4, TurnsAlone
<1>7. CASE FetchProperties(p)
  <2>1. /\ \A x \in Players \ {p} : page'[x] = page[x]
        /\ page[p].at = "turn" /\ page'[p].at = "deeds" /\ page'[p].turn = page[p].turn
    BY <1>1, <1>7, FetchPropertiesPage DEF FetchProperties
  <2>2. UNCHANGED <<turn, outbox, queue, answers>>
    BY <1>7 DEF FetchProperties, server, network
  <2>3. /\ \A x \in Players \ {p} : missed'[x] = missed[x]
        /\ "turn" \notin missed'[p] => "turn" \notin missed[p]
    BY <1>1, <1>7, Constants DEF FetchProperties
  <2>4. "turn" \notin missed'[p] => TurnOK(p, outbox, queue'[p], answers'[p], page'[p], turn)
    BY <1>3, <2>1, <2>3 DEF TurnOK
  <2> QED BY <2>1, <2>2, <2>3, <2>4, TurnsAlone
<1>8. CASE Connect(p)
  <2>1. /\ \A x \in Players \ {p} : page'[x] = page[x]
        /\ page[p].at = "deeds" /\ page'[p].at = "live" /\ page'[p].turn = page[p].turn
    BY <1>1, <1>8, ConnectPage DEF Connect
  <2>2. UNCHANGED <<turn, outbox, queue, answers>>
    BY <1>8 DEF Connect, server
  <2>3. /\ \A x \in Players : missed[x] \subseteq missed'[x]
        /\ \A j \in DOMAIN outbox : outbox[j].about \in missed'[p]
    BY <1>1, <1>8, MissedStays, ConnectMissed
  <2>4. ASSUME "turn" \notin missed'[p]
        PROVE  TurnOK(p, outbox, queue'[p], answers'[p], page'[p], turn)
    <3>1. TurnOK(p, outbox, queue[p], answers[p], page[p], turn)
      BY <1>3, <2>3, <2>4
    <3>2. \A j \in DOMAIN outbox : outbox[j].about # "turn"
      BY <2>3, <2>4
    <3>3. page'[p].turn = turn /\ ~Has(outbox, Turns) /\ OwnWaits(p, outbox, page'[p], "turn")
      BY <2>1, <3>1, <3>2 DEF TurnOK, Others, Has, Turns, About, OwnWaits
    <3>4. queue'[p] = <<>> /\ answers'[p] = {}
      BY <1>2, <2>1, <2>2 DEF PageOK, AwayOK
    <3> QED BY <2>1, <3>3, <3>4, NothingQueued DEF TurnOK, Flow
  <2> QED BY <2>1, <2>2, <2>3, <2>4, TurnsAlone
<1>9. CASE Disconnect(p)
  <2>1. UNCHANGED <<turn, outbox, queue, answers, page, missed>>
    BY <1>9 DEF Disconnect, server, history
  <2> QED BY <1>3, <2>1, TurnsAlone
<1> QED BY <1>4, <1>5, <1>6, <1>7, <1>8, <1>9 DEF Load

LEMMA InitTurns == Init => TurnsInv
<1> SUFFICES ASSUME Init PROVE TurnsInv
  OBVIOUS
<1>1. ASSUME NEW p \in Players
      PROVE  TurnOK(p, outbox, queue[p], answers[p], page[p], turn)
  <2>1. /\ outbox = <<>> /\ queue[p] = <<>> /\ answers[p] = {}
        /\ page[p].at = "live" /\ page[p].turn = turn
    BY DEF Init
  <2> QED BY <2>1, NothingQueued DEF TurnOK, Flow, OwnWaits
<1> QED BY <1>1 DEF TurnsInv

LEMMA NextTurns == TypeInv /\ RequestsInv /\ TurnsInv /\ [Next]_vars => TurnsInv'
<1> SUFFICES ASSUME TypeInv, RequestsInv, TurnsInv, [Next]_vars PROVE TurnsInv'
  OBVIOUS
<1>1. CASE UNCHANGED vars
  <2>1. UNCHANGED <<turn, outbox, queue, answers, page, missed>>
    BY <1>1 DEF vars, server, network, history
  <2> QED BY <2>1 DEF TurnsInv
<1> QED BY <1>1, PassTurns, DealTurns, NotifyTurns, NotifyFailsTurns, HearTurns, LoadTurns DEF Next

LEMMA TurnsShow == TypeInv /\ RequestsInv /\ TurnsInv => TurnShown
<1> SUFFICES ASSUME TypeInv, RequestsInv, TurnsInv, NEW p \in Players, Settled(p, "turn")
             PROVE  page[p].turn = turn
  BY DEF TurnShown
<1>1. /\ TurnOK(p, outbox, queue[p], answers[p], page[p], turn) /\ page[p].at = "live"
      /\ ~Has(outbox, Turns) /\ ~Has(queue[p], Turns) /\ page[p].passing # "asked"
  BY DEF TurnsInv, Settled, Awaits, Has, Turns, About
<1>2. AnswersOK(p, answers[p], page[p])
  BY DEF RequestsInv, PageOK
<1>3. Quiet(outbox, queue[p], answers[p], Turns)
  BY <1>1, <1>2 DEF Quiet, AnswersOK, Asking, Turns, About
<1> QED BY <1>1, <1>3 DEF TurnOK

\* A page that missed nothing of the turn, and on its way to which there is nothing
\* about it, shows whose turn it is: whatever the other players do meanwhile, whichever
\* pages are loaded again and connections lost, and though a page's own request is
\* answered while the messages of others are on their way.
THEOREM TurnIsShown == Spec => []TurnShown
<1>1. Init => TypeInv /\ RequestsInv /\ TurnsInv
  BY InitType, InitRequests, InitTurns
<1>2. TypeInv /\ RequestsInv /\ TurnsInv /\ [Next]_vars
        => TypeInv' /\ RequestsInv' /\ TurnsInv'
  BY NextType, NextRequests, NextTurns
<1> QED BY <1>1, <1>2, TurnsShow, PTL DEF Spec

-----------------------------------------------------------------------------
(* Who owns a property, with which mining capacity.  Card c of p's page is its   *)
(* copy of the property d that w owns with capacity v.                           *)

Sales(d)      == {m \in Message : m.about = d /\ m.sale}
Says(d, w, v) == {m \in Message : m.about = d /\ m.owner = w /\ m.level = v}
Owns(d, w)    == {m \in Message : m.about = d /\ m.owner = w}

\* What the page bought has the capacity it looked up, and what it is buying has
\* that still, or will be told to have another.
Looks(p, o, A, g, d) ==
    /\ \A m \in A : m \in Sales(d) => g.looked = m.level
    /\ \A i \in DOMAIN o : o[i] \in Sales(d) /\ o[i].by = p => g.looked = o[i].level
Buying(g, d)     == g.deal = d /\ g.step \in {"market", "owner"}
Deals(o, g, d, v) ==
    Buying(g, d) => Has(o, About(d)) \/ (g.step = "owner" /\ g.looked = v)

DeedLive(p, o, q, A, g, c, d, w, v) ==
    /\ Flow(o, q, A, About(d), Says(d, w, v))
    /\ Flow(o, q, A, Sales(d), Owns(d, w))
    /\ Quiet(o, q, A, About(d)) => c.owner = w /\ c.level = v
    /\ Quiet(o, q, A, Sales(d)) => c.owner = w
    /\ OwnWaits(p, o, g, d)
    /\ Asking(g, d) => ~Has(q, About(d))
    /\ Looks(p, o, A, g, d)
    /\ Deals(o, g, d, v)
DeedOK(p, o, q, A, g, c, d, w, v) ==
    /\ g.at = "deeds" => (c.owner = w /\ c.level = v) \/ Others(p, o, d)
    /\ g.at = "live" => DeedLive(p, o, q, A, g, c, d, w, v)

LEMMA InDeeds ==
    \A d, w, v : \A m \in Message :
        /\ m \in About(d) <=> m.about = d
        /\ m \in Sales(d) <=> m.about = d /\ m.sale
        /\ m \in Sales(d) => m \in About(d)
        /\ m \in Says(d, w, v) <=> m.about = d /\ m.owner = w /\ m.level = v
        /\ m \in Owns(d, w) <=> m.about = d /\ m.owner = w
BY DEF About, Sales, Says, Owns

LEMMA SalesAbout ==
    ASSUME NEW o, NEW q, NEW A, NEW d
    PROVE  /\ Has(q, Sales(d)) => Has(q, About(d))
           /\ Quiet(o, q, A, About(d)) => Quiet(o, q, A, Sales(d))
BY DEF Has, Quiet, Sales, About

\* The page changes, in what does not matter here.
LEMMA DeedKept ==
    ASSUME NEW p, NEW o, NEW q, NEW A, NEW g, NEW c, NEW d, NEW w, NEW v,
           DeedOK(p, o, q, A, g, c, d, w, v), NEW h, NEW b,
           h.at = g.at, h.loads = g.loads, h.looked = g.looked,
           b.owner = c.owner, b.level = c.level,
           Asking(h, d) => Asking(g, d), Buying(h, d) => Buying(g, d) /\ h.step = g.step
    PROVE  DeedOK(p, o, q, A, h, b, d, w, v)
BY DEF DeedOK, DeedLive, OwnWaits, Looks, Deals

\* The page looks a property up, with nothing about d asked for.
LEMMA DeedLooked ==
    ASSUME NEW p, NEW o, NEW q, NEW A, NEW g, NEW c, NEW d, NEW w, NEW v,
           DeedOK(p, o, q, A, g, c, d, w, v), NEW h, g.at = "live",
           h.at = g.at, h.loads = g.loads, ~Asking(h, d),
           \A m \in A : m \notin Sales(d),
           \A i \in DOMAIN o : o[i].by = p /\ o[i].load = g.loads => o[i].about # d,
           Buying(h, d) => h.step = "owner" /\ h.looked = v
    PROVE  DeedOK(p, o, q, A, h, c, d, w, v)
<1>1. \A i \in DOMAIN o : o[i].by = p => o[i] \notin Sales(d)
  BY DEF DeedOK, DeedLive, OwnWaits, Sales
<1> QED BY <1>1 DEF DeedOK, DeedLive, OwnWaits, Looks, Deals

\* A message about something else is sent, by anyone.
LEMMA DeedOtherSent ==
    ASSUME NEW p, NEW o \in Seq(Message), NEW q, NEW A, NEW g, NEW c, NEW d, NEW w, NEW v,
           DeedOK(p, o, q, A, g, c, d, w, v), NEW m \in Message, m.about # d
    PROVE  DeedOK(p, Append(o, m), q, A, g, c, d, w, v)
<1> DEFINE r == Append(o, m)  M == About(d)  G == Says(d, w, v)  S == Sales(d)  W == Owns(d, w)
<1>1. m \notin M /\ m \notin S
  BY InDeeds
<1>2. /\ Flow(o, q, A, M, G) => Flow(r, q, A, M, G)
      /\ Flow(o, q, A, S, W) => Flow(r, q, A, S, W)
      /\ Has(r, M) <=> Has(o, M)
      /\ Has(r, S) <=> Has(o, S)
  BY <1>1, FlowSent
<1>3. /\ Others(p, o, d) => Others(p, r, d)
      /\ OwnWaits(p, o, g, d) => OwnWaits(p, r, g, d)
  BY OthersSent
<1>4. Looks(p, o, A, g, d) => Looks(p, r, A, g, d)
  <2>1. /\ Len(o) \in Nat /\ DOMAIN o = 1 .. Len(o) /\ DOMAIN r = 1 .. Len(o) + 1
        /\ \A k \in DOMAIN o : r[k] = o[k]
        /\ r[Len(o) + 1] = m
    BY Appended
  <2> HIDE DEF r
  <2>2. \A k \in DOMAIN r : k \in DOMAIN o \/ r[k] = m
    BY <2>1
  <2> QED BY <1>1, <2>1, <2>2 DEF Looks
<1> HIDE DEF r, M, S, G, W
<1>5. /\ Quiet(r, q, A, M) => Quiet(o, q, A, M)
      /\ Quiet(r, q, A, S) => Quiet(o, q, A, S)
      /\ Deals(o, g, d, v) => Deals(r, g, d, v)
  BY <1>2 DEF Quiet, Deals, M
<1> QED BY <1>2, <1>3, <1>4, <1>5 DEF DeedOK, DeedLive, r, M, S, G, W

\* A message about it is sent; what is sent of an upgrade leaves it with its owner.
LEMMA DeedSent ==
    ASSUME NEW p, NEW o \in Seq(Message), NEW q, NEW A, NEW g, NEW c, NEW d, NEW w, NEW v,
           DeedOK(p, o, q, A, g, c, d, w, v), NEW m \in Message, m.about = d,
           NEW x, NEW u, x = m.owner, u = m.level, m \notin Sales(d) => x = w, NEW h,
           m.by # p => h = g,
           m.by = p => /\ h.at = "live" /\ g.at = "live" /\ h.loads = g.loads /\ h.looked = g.looked
                       /\ m.load = g.loads /\ ~Has(q, About(d)) /\ ~Buying(h, d)
                       /\ m \in Sales(d) => g.looked = u
    PROVE  DeedOK(p, Append(o, m), q, A, h, c, d, x, u)
<1> DEFINE r == Append(o, m)  M == About(d)  G == Says(d, x, u)  S == Sales(d)  W == Owns(d, x)
<1>1. m \in M /\ m \in G /\ m \in W
  BY InDeeds
<1>2. /\ Flow(r, q, A, M, G) /\ Has(r, M)
      /\ m \in S => Flow(r, q, A, S, W) /\ Has(r, S)
      /\ m \notin S /\ Flow(o, q, A, S, W) => Flow(r, q, A, S, W)
      /\ m \notin S => (Has(r, S) <=> Has(o, S))
  BY <1>1, FlowSent
<1>3. /\ m.by # p => Others(p, r, d)
      /\ OwnWaits(p, o, g, d) /\ (m.by = p => m.load = g.loads) => OwnWaits(p, r, g, d)
  BY OthersSent
<1>4. Looks(p, o, A, g, d) => Looks(p, r, A, g, d)
  <2>1. /\ Len(o) \in Nat /\ DOMAIN o = 1 .. Len(o) /\ DOMAIN r = 1 .. Len(o) + 1
        /\ \A k \in DOMAIN o : r[k] = o[k]
        /\ r[Len(o) + 1] = m
    BY Appended
  <2> HIDE DEF r
  <2>2. \A k \in DOMAIN r : k \in DOMAIN o \/ r[k] = m
    BY <2>1
  <2> QED BY <2>1, <2>2 DEF Looks
<1> HIDE DEF r, M, S, G, W
<1>5. /\ ~Quiet(r, q, A, M)
      /\ m \in S => ~Quiet(r, q, A, S)
      /\ m \notin S /\ Quiet(r, q, A, S) => Quiet(o, q, A, S)
  BY <1>2 DEF Quiet
<1>6. ASSUME g.at = "live"
      PROVE  /\ OwnWaits(p, r, h, d) /\ Looks(p, r, A, h, d) /\ Deals(r, h, d, u)
             /\ Flow(r, q, A, S, W)
             /\ Quiet(r, q, A, S) => c.owner = x
             /\ Asking(h, d) => ~Has(q, About(d))
  <2>1. DeedLive(p, o, q, A, g, c, d, w, v)
    BY <1>6 DEF DeedOK
  <2>2. OwnWaits(p, r, g, d) /\ Looks(p, r, A, g, d)
    BY <1>3, <1>4, <2>1 DEF DeedLive
  <2>3. OwnWaits(p, r, h, d) /\ Looks(p, r, A, h, d)
    <3>1. CASE m.by = p
      BY <2>2, <3>1 DEF OwnWaits, Looks
    <3>2. CASE m.by # p
      BY <2>2, <3>2
    <3> QED BY <3>1, <3>2
  <2>4. Deals(r, h, d, u)
    BY <1>2 DEF Deals, M
  <2>5. Flow(r, q, A, S, W) /\ (Quiet(r, q, A, S) => c.owner = x)
    BY <1>2, <1>5, <2>1 DEF DeedLive, S, W
  <2>6. Asking(h, d) => ~Has(q, About(d))
    BY <2>1 DEF DeedLive
  <2> QED BY <2>3, <2>4, <2>5, <2>6
<1>7. h.at = "live" => g.at = "live"
  OBVIOUS
<1>8. h.at = "deeds" => Others(p, r, d)
  BY <1>3
<1> QED BY <1>2, <1>5, <1>6, <1>7, <1>8 DEF DeedOK, DeedLive, r, M, S, G, W

\* The first message about it is.
LEMMA DeedFirst ==
    ASSUME NEW p, NEW o \in Seq(Message), NEW q, NEW A, NEW c, NEW d,
           Quiet(o, q, A, About(d)), NEW m \in Message, m \in Sales(d), m.about = d,
           NEW x, NEW u, x = m.owner, u = m.level, NEW h,
           m.by = p => h.at = "live" /\ m.load = h.loads /\ h.looked = u
    PROVE  DeedOK(p, Append(o, m), q, A, h, c, d, x, u)
<1> DEFINE r == Append(o, m)  M == About(d)  G == Says(d, x, u)  S == Sales(d)  W == Owns(d, x)
<1>1. m \in M /\ m \in G /\ m \in W /\ m \in S
  BY InDeeds
<1>2. /\ Flow(r, q, A, M, G) /\ Has(r, M)
      /\ Flow(r, q, A, S, W) /\ Has(r, S)
  BY <1>1, FlowSent
<1>3. /\ \A i \in DOMAIN o : o[i].about # d
      /\ ~Has(q, M) /\ \A k \in A : k \notin S
  <2>1. \A i \in DOMAIN o : o[i] \in Message
    OBVIOUS
  <2> QED BY <2>1 DEF Quiet, Has, Sales, About
<1>4. m.by # p => Others(p, r, d)
  BY OthersSent
<1>5. OwnWaits(p, r, h, d) /\ Looks(p, r, A, h, d)
  <2>1. /\ Len(o) \in Nat /\ DOMAIN o = 1 .. Len(o) /\ DOMAIN r = 1 .. Len(o) + 1
        /\ \A k \in DOMAIN o : r[k] = o[k]
        /\ r[Len(o) + 1] = m
    BY Appended
  <2> HIDE DEF r
  <2>2. \A k \in DOMAIN r : k \in DOMAIN o \/ r[k] = m
    BY <2>1
  <2>3. \A k \in DOMAIN o : r[k].about # d /\ r[k] \notin S
    BY <1>3, <2>1 DEF Sales
  <2> QED BY <1>3, <2>1, <2>2, <2>3 DEF OwnWaits, Looks
<1> HIDE DEF r, M, S, G, W
<1>6. /\ ~Quiet(r, q, A, M)
      /\ ~Quiet(r, q, A, S)
      /\ Deals(r, h, d, u)
  BY <1>2 DEF Quiet, Deals, M
<1>7. h.at = "deeds" => Others(p, r, d)
  BY <1>4
<1> QED BY <1>2, <1>3, <1>5, <1>6, <1>7 DEF DeedOK, DeedLive, r, M, S, G, W

LEMMA LooksLeaves ==
    ASSUME NEW p, NEW o \in Seq(Message), NEW A, NEW B, NEW g, NEW d, Looks(p, o, A, g, d),
           NEW i \in DOMAIN o, \A k \in B : k \in A \/ (k = o[i] /\ (k.about = d => k.by = p))
    PROVE  Looks(p, RemoveAt(o, i), B, g, d)
<1> DEFINE r == RemoveAt(o, i)
<1>1. \A k \in DOMAIN r : Before(k, i) \in DOMAIN o /\ r[k] = o[Before(k, i)]
  BY Removed
<1> HIDE DEF r
<1>2. \A k \in DOMAIN r : r[k] \in Sales(d) /\ r[k].by = p => g.looked = r[k].level
  BY <1>1 DEF Looks
<1>3. \A k \in B : k \in Sales(d) => g.looked = k.level
  BY DEF Looks, Sales
<1> QED BY <1>2, <1>3 DEF Looks, r

\* A message about something else leaves the outbox.
LEMMA DeedOtherLeaves ==
    ASSUME NEW p, NEW o \in Seq(Message), NEW q \in Seq(Message), NEW A, NEW g, NEW c, NEW d,
           NEW w, NEW v, DeedOK(p, o, q, A, g, c, d, w, v),
           NEW i \in DOMAIN o, NEW m, m = o[i], m.about # d,
           NEW z, z = q \/ z = Append(q, m), NEW B, \A k \in B : k \in A \/ k = m,
           \A k \in A : k \in B
    PROVE  DeedOK(p, RemoveAt(o, i), z, B, g, c, d, w, v)
<1> DEFINE r == RemoveAt(o, i)
           M == About(d)  G == Says(d, w, v)  S == Sales(d)  W == Owns(d, w)
<1>1. m \in Message /\ m \notin M /\ m \notin S /\ \A k \in A \cup {m} : k \in A \/ k = m
  BY InDeeds
<1>2. /\ Flow(o, q, A, M, G) => Flow(r, q, B, M, G) /\ (Has(r, M) <=> Has(o, M))
      /\ Flow(o, q, A, S, W) => Flow(r, q, B, S, W) /\ (Has(r, S) <=> Has(o, S))
  BY <1>1, FlowPasses
<1>3. /\ Has(Append(q, m), M) <=> Has(q, M)
      /\ Has(Append(q, m), S) <=> Has(q, S)
      /\ Has(q, M) => Latest(Append(q, m), M) = Latest(q, M)
      /\ Has(q, S) => Latest(Append(q, m), S) = Latest(q, S)
  BY <1>1, LatestAppended
<1>4. /\ Has(z, M) <=> Has(q, M)
      /\ Has(z, S) <=> Has(q, S)
      /\ Has(q, M) => Latest(z, M) = Latest(q, M)
      /\ Has(q, S) => Latest(z, S) = Latest(q, S)
  BY <1>3
<1>5. /\ Others(p, o, d) => Others(p, r, d)
      /\ OwnWaits(p, o, g, d) => OwnWaits(p, r, g, d)
  BY OthersLeave
<1>6. Looks(p, o, A, g, d) => Looks(p, r, B, g, d)
  BY LooksLeaves
<1> HIDE DEF r, M, G, S, W
<1>7. /\ Flow(o, q, A, M, G) => Flow(r, z, B, M, G)
      /\ Flow(o, q, A, S, W) => Flow(r, z, B, S, W)
  BY <1>2, <1>4 DEF Flow
<1>8. /\ Flow(o, q, A, M, G) /\ Quiet(r, z, B, M) => Quiet(o, q, A, M)
      /\ Flow(o, q, A, S, W) /\ Quiet(r, z, B, S) => Quiet(o, q, A, S)
  BY <1>1, <1>2, <1>4 DEF Quiet
<1>9. Flow(o, q, A, M, G) /\ Deals(o, g, d, v) => Deals(r, g, d, v)
  BY <1>2 DEF Deals, M
<1> QED BY <1>4, <1>5, <1>6, <1>7, <1>8, <1>9 DEF DeedOK, DeedLive, r, M, G, S, W

\* The page, which asks for nothing of it, is told.
LEMMA DeedTold ==
    ASSUME NEW p, NEW o \in Seq(Message), NEW q \in Seq(Message), NEW A, NEW g, NEW c, NEW d,
           NEW w, NEW v, DeedOK(p, o, q, A, g, c, d, w, v),
           NEW i \in DOMAIN o, NEW m, m = o[i], m.about = d,
           \A j \in DOMAIN o : o[j].about = d => i <= j,
           g.at = "live", g.deal # d, d # "turn", \A k \in A : k.about # d
    PROVE  DeedOK(p, RemoveAt(o, i), Append(q, m), A, g, c, d, w, v)
<1> DEFINE r == RemoveAt(o, i)  z == Append(q, m)
           M == About(d)  G == Says(d, w, v)  S == Sales(d)  W == Owns(d, w)
<1>1. /\ m \in Message /\ m \in M
      /\ \A j \in DOMAIN o : o[j] \in M => i <= j
      /\ \A j \in DOMAIN o : o[j] \in S => i <= j
      /\ (\A k \in A : k \notin M) /\ \A k \in A : k \notin S
  BY InDeeds DEF About, Sales
<1>2. DeedLive(p, o, q, A, g, c, d, w, v)
  BY DEF DeedOK
<1>3. Flow(o, q, A, M, G) /\ Flow(o, q, A, S, W)
  BY <1>2 DEF DeedLive
<1>4. Flow(r, z, A, M, G) /\ Has(z, M)
  BY <1>1, <1>3, FlowTold
<1>5. /\ Flow(r, z, A, S, W)
      /\ m \in S => Has(z, S)
      /\ m \notin S => /\ Has(r, S) <=> Has(o, S)
                       /\ Has(z, S) <=> Has(q, S)
  BY <1>1, <1>3, FlowTold
<1>6. OwnWaits(p, r, g, d)
  BY <1>2, OthersLeave DEF DeedLive
<1>7. Looks(p, r, A, g, d)
  BY <1>2, LooksLeaves DEF DeedLive
<1> HIDE DEF r, z, M, G, S, W
<1>8. ~Quiet(r, z, A, M) /\ (Quiet(r, z, A, S) => Quiet(o, q, A, S))
  BY <1>4, <1>5 DEF Quiet
<1>9. ~Asking(g, d) /\ Deals(r, g, d, v)
  BY DEF Asking, Deals, Buying
<1> QED BY <1>2, <1>4, <1>5, <1>6, <1>7, <1>8, <1>9 DEF DeedOK, DeedLive, r, z, M, G, S, W

\* The page that asked is answered, or its old load is.
LEMMA DeedAnswered ==
    ASSUME NEW p, NEW o \in Seq(Message), NEW q, NEW A, NEW g, NEW c, NEW d,
           NEW w, NEW v, DeedOK(p, o, q, A, g, c, d, w, v),
           NEW i \in DOMAIN o, NEW m, m = o[i], m.about = d, m.by = p,
           \A j \in DOMAIN o : o[j].about = d => i <= j,
           NEW B, g.at = "live" => /\ Asking(g, d) /\ ~Buying(g, d) /\ \A k \in A : k.about # d
                                   /\ B = A \cup {m}
    PROVE  DeedOK(p, RemoveAt(o, i), q, B, g, c, d, w, v)
<1> DEFINE r == RemoveAt(o, i)
           M == About(d)  G == Says(d, w, v)  S == Sales(d)  W == Owns(d, w)
<1>1. /\ m \in Message /\ m \in M
      /\ \A j \in DOMAIN o : o[j] \in M => i <= j
      /\ \A j \in DOMAIN o : o[j] \in S => i <= j
  BY InDeeds DEF About, Sales
<1>2. Others(p, o, d) => Others(p, r, d)
  BY OthersLeave
<1>3. CASE g.at = "live"
  <2>1. DeedLive(p, o, q, A, g, c, d, w, v)
    BY <1>3 DEF DeedOK
  <2>2. /\ Flow(o, q, A, M, G) /\ Flow(o, q, A, S, W) /\ ~Has(q, M)
        /\ (\A k \in A : k \notin M) /\ (\A k \in A : k \notin S) /\ B = A \cup {m}
    BY <1>3, <2>1 DEF DeedLive, About, Sales
  <2>3. ~Has(q, S)
    BY <2>2, SalesAbout
  <2>4. Flow(r, q, A \cup {m}, M, G)
    BY <1>1, <2>2, FlowAnswered
  <2>5. m \in S => Flow(r, q, A \cup {m}, S, W)
    BY <1>1, <2>2, <2>3, FlowAnswered
  <2>6. m \notin S => Flow(r, q, A \cup {m}, S, W) /\ (Has(r, S) <=> Has(o, S))
    <3> DEFINE D == A \cup {m}
    <3>1. \A k \in D : k \in A \/ k = m
      OBVIOUS
    <3> HIDE DEF D
    <3>2. m \notin S => Flow(r, q, D, S, W) /\ (Has(r, S) <=> Has(o, S))
      BY <1>1, <2>2, <3>1, FlowPasses
    <3> QED BY <3>2 DEF D
  <2>7. OwnWaits(p, r, g, d)
    BY <2>1, OthersLeave DEF DeedLive
  <2>8. Looks(p, r, B, g, d)
    <3>1. \A k \in B : k \in A \/ (k = o[i] /\ (k.about = d => k.by = p))
      BY <2>2
    <3> QED BY <2>1, <3>1, LooksLeaves DEF DeedLive
  <2> HIDE DEF r, M, G, S, W
  <2>9. ~Quiet(r, q, B, M) /\ (Quiet(r, q, B, S) => Quiet(o, q, A, S))
    BY <1>1, <2>2, <2>6 DEF Quiet
  <2>10. Deals(r, g, d, v)
    BY <1>3 DEF Deals
  <2> QED BY <1>3, <2>1, <2>2, <2>4, <2>5, <2>6, <2>7, <2>8, <2>9, <2>10
          DEF DeedOK, DeedLive, r, M, G, S, W
<1>4. CASE g.at # "live"
  BY <1>2, <1>4 DEF DeedOK
<1> QED BY <1>3, <1>4

\* What the page writes to its card when it is told or answered.
Writes(b, c, m) ==
    /\ m.sale  => b.owner = m.owner /\ b.level = m.level
    /\ ~m.sale => b.owner = c.owner /\ (c.owner = m.owner => b.level = m.level)

\* The page takes a message from its queue.
LEMMA DeedTaken ==
    ASSUME NEW p, NEW o, NEW q \in Seq(Message), NEW A, NEW g, NEW c, NEW d,
           NEW w, NEW v, DeedOK(p, o, q, A, g, c, d, w, v),
           q # <<>>, NEW m, m = Head(q), m \in Message, g.at = "live", NEW b,
           m.about = d => Writes(b, c, m),
           m.about # d => b.owner = c.owner /\ b.level = c.level
    PROVE  DeedOK(p, o, Tail(q), A, g, b, d, w, v)
<1> DEFINE z == Tail(q)  M == About(d)  G == Says(d, w, v)  S == Sales(d)  W == Owns(d, w)
<1>1. DeedLive(p, o, q, A, g, c, d, w, v)
  BY DEF DeedOK
<1>2. Flow(o, q, A, M, G) /\ Flow(o, q, A, S, W)
  BY <1>1 DEF DeedLive
<1>3. /\ Flow(o, z, A, M, G)
      /\ Quiet(o, z, A, M) => Quiet(o, q, A, M) \/ (m \in M /\ m \in G)
      /\ m \notin M /\ Quiet(o, z, A, M) => Quiet(o, q, A, M)
      /\ Has(z, M) => Has(q, M)
  BY <1>2, FlowTaken
<1>4. /\ Flow(o, z, A, S, W)
      /\ Quiet(o, z, A, S) => Quiet(o, q, A, S) \/ (m \in S /\ m \in W)
      /\ m \notin S /\ Quiet(o, z, A, S) => Quiet(o, q, A, S)
  BY <1>2, FlowTaken
<1>5. /\ m \in M => Has(q, M)
      /\ m \in S => Has(q, S)
  <2>1. 1 \in DOMAIN q /\ q[1] = m
    BY HeadRemoved
  <2> QED BY <2>1 DEF Has
<1>6. /\ m \in M <=> m.about = d
      /\ m \in S <=> m.about = d /\ m.sale
      /\ m \in G => m.owner = w /\ m.level = v
      /\ m \in W => m.owner = w
  BY InDeeds
<1>7. Quiet(o, z, A, M) => Quiet(o, z, A, S)
  BY SalesAbout
<1> HIDE DEF z, M, G, S, W
<1>8. Quiet(o, z, A, S) => b.owner = w
  <2> SUFFICES ASSUME Quiet(o, z, A, S) PROVE b.owner = w
    OBVIOUS
  <2>1. CASE m \in S
    BY <1>4, <1>5, <1>6, <2>1 DEF Quiet, Writes
  <2>2. CASE m \notin S
    <3>1. c.owner = w
      BY <1>1, <1>4, <2>2 DEF DeedLive, S
    <3> QED BY <1>6, <2>2, <3>1 DEF Writes
  <2> QED BY <2>1, <2>2
<1>9. Quiet(o, z, A, M) => b.owner = w /\ b.level = v
  <2> SUFFICES ASSUME Quiet(o, z, A, M) PROVE b.owner = w /\ b.level = v
    OBVIOUS
  <2>1. CASE m \in M
    <3>1. m \in G
      BY <1>3, <1>5, <2>1 DEF Quiet
    <3>2. CASE m \in S
      BY <1>6, <2>1, <3>1, <3>2 DEF Writes
    <3>3. CASE m \notin S
      <4>1. c.owner = w
        BY <1>1, <1>4, <1>7, <3>3 DEF DeedLive, S
      <4> QED BY <1>6, <2>1, <3>1, <3>3, <4>1 DEF Writes
    <3> QED BY <3>2, <3>3
  <2>2. CASE m \notin M
    BY <1>1, <1>3, <1>6, <2>2 DEF DeedLive, M
  <2> QED BY <2>1, <2>2
<1> QED BY <1>1, <1>3, <1>4, <1>8, <1>9 DEF DeedOK, DeedLive, z, M, G, S, W

\* The page takes an answer: of a purchase, it writes the capacity it looked up.
LEMMA DeedAnswerTaken ==
    ASSUME NEW p, NEW o, NEW q, NEW A, NEW g, NEW c, NEW d, NEW w, NEW v,
           DeedOK(p, o, q, A, g, c, d, w, v),
           NEW m \in A, m \in Message, g.at = "live", NEW b, NEW h,
           h.at = g.at, h.loads = g.loads, h.looked = g.looked,
           Asking(h, d) => Asking(g, d), Buying(h, d) => Buying(g, d) /\ h.step = g.step,
           m.about = d /\ m.sale => b.owner = m.owner /\ b.level = g.looked,
           m.about = d /\ ~m.sale => b.owner = c.owner /\ (c.owner = m.owner => b.level = m.level),
           m.about # d => b.owner = c.owner /\ b.level = c.level
    PROVE  DeedOK(p, o, q, A \ {m}, h, b, d, w, v)
<1> DEFINE B == A \ {m}  M == About(d)  G == Says(d, w, v)  S == Sales(d)  W == Owns(d, w)
<1>1. DeedLive(p, o, q, A, g, c, d, w, v)
  BY DEF DeedOK
<1>2. Flow(o, q, A, M, G) /\ Flow(o, q, A, S, W)
  BY <1>1 DEF DeedLive
<1>3. /\ Flow(o, q, B, M, G)
      /\ Quiet(o, q, B, M) => Quiet(o, q, A, M) \/ (m \in M /\ m \in G)
      /\ m \notin M /\ Quiet(o, q, B, M) => Quiet(o, q, A, M)
  BY <1>2, FlowAnswerTaken
<1>4. /\ Flow(o, q, B, S, W)
      /\ Quiet(o, q, B, S) => Quiet(o, q, A, S) \/ (m \in S /\ m \in W)
      /\ m \notin S /\ Quiet(o, q, B, S) => Quiet(o, q, A, S)
  BY <1>2, FlowAnswerTaken
<1>5. /\ m \in M => ~Quiet(o, q, A, M)
      /\ m \in S => ~Quiet(o, q, A, S)
  BY DEF Quiet
<1>6. /\ m \in M <=> m.about = d
      /\ m \in S <=> m.about = d /\ m.sale
      /\ m \in G => m.owner = w /\ m.level = v
      /\ m \in W => m.owner = w
  BY InDeeds
<1>7. Quiet(o, q, B, M) => Quiet(o, q, B, S)
  BY SalesAbout
<1>8. m \in S => b.level = m.level
  BY <1>1, <1>6 DEF DeedLive, Looks
<1>9. Looks(p, o, B, h, d) /\ OwnWaits(p, o, h, d) /\ Deals(o, h, d, v)
  BY <1>1 DEF DeedLive, Looks, OwnWaits, Deals
<1> HIDE DEF B, M, G, S, W
<1>10. Quiet(o, q, B, S) => b.owner = w
  <2> SUFFICES ASSUME Quiet(o, q, B, S) PROVE b.owner = w
    OBVIOUS
  <2>1. CASE m \in S
    BY <1>4, <1>5, <1>6, <2>1
  <2>2. CASE m \notin S
    <3>1. c.owner = w
      BY <1>1, <1>4, <2>2 DEF DeedLive, S
    <3> QED BY <1>6, <2>2, <3>1
  <2> QED BY <2>1, <2>2
<1>11. Quiet(o, q, B, M) => b.owner = w /\ b.level = v
  <2> SUFFICES ASSUME Quiet(o, q, B, M) PROVE b.owner = w /\ b.level = v
    OBVIOUS
  <2>1. CASE m \in M
    <3>1. m \in G
      BY <1>3, <1>5, <2>1
    <3>2. CASE m \in S
      BY <1>6, <1>8, <2>1, <3>1, <3>2
    <3>3. CASE m \notin S
      <4>1. c.owner = w
        BY <1>1, <1>4, <1>7, <3>3 DEF DeedLive, S
      <4> QED BY <1>6, <2>1, <3>1, <3>3, <4>1
    <3> QED BY <3>2, <3>3
  <2>2. CASE m \notin M
    BY <1>1, <1>3, <1>6, <2>2 DEF DeedLive, M
  <2> QED BY <2>1, <2>2
<1>12. Asking(h, d) => ~Has(q, M)
  BY <1>1 DEF DeedLive, M
<1> QED BY <1>3, <1>4, <1>9, <1>10, <1>11, <1>12 DEF DeedOK, DeedLive, B, M, G, S, W

-----------------------------------------------------------------------------
(* A property that is in the table is known as it is there, and one that is not *)
(* has never been heard of.                                                     *)

Unknown(p, d) == Quiet(outbox, queue[p], answers[p], About(d)) /\ copy[p][d].owner = 0
Known(p, d)   == DeedOK(p, outbox, queue[p], answers[p], page[p], copy[p][d],
                        d, RowOf(d).owner, RowOf(d).level)
KnownAt(p, d) ==
    /\ RowsOf(d) = {} => Unknown(p, d)
    /\ d \notin missed[p] /\ Once(d) /\ RowsOf(d) # {} => Known(p, d)
KnownInv  == \A p \in Players, d \in Deeds : KnownAt(p, d)
MarketInv == \A p \in Players : page[p].step = "market" => page[p].looked = 0

LEMMA QuietSent ==
    ASSUME NEW o \in Seq(Message), NEW q, NEW A, NEW d, Quiet(o, q, A, About(d)),
           NEW m \in Message, m.about # d
    PROVE  Quiet(Append(o, m), q, A, About(d))
<1> DEFINE r == Append(o, m)  M == About(d)
<1>1. m \notin M
  BY InDeeds
<1>2. Has(r, M) <=> Has(o, M)
  BY <1>1, FlowSent
<1> HIDE DEF r, M
<1> QED BY <1>2 DEF Quiet, r, M

LEMMA QuietLeaves ==
    ASSUME NEW o \in Seq(Message), NEW q \in Seq(Message), NEW A, NEW d,
           Quiet(o, q, A, About(d)), NEW i \in DOMAIN o, NEW m, m = o[i],
           NEW z, z = q \/ z = Append(q, m), NEW B, \A k \in B : k \in A \/ k = m
    PROVE  Quiet(RemoveAt(o, i), z, B, About(d)) /\ m.about # d
<1> DEFINE r == RemoveAt(o, i)  y == Append(q, m)  M == About(d)
<1>1. m \in Message /\ m \notin M
  BY DEF Quiet, Has
<1>2. m.about # d
  BY <1>1, InDeeds
<1> HIDE DEF M
<1>3. Has(r, M) => Has(o, M)
  BY <1>1, LatestRemoved
<1>4. Has(y, M) <=> Has(q, M)
  BY <1>1, LatestAppended
<1> HIDE DEF r, y
<1>5. Has(z, M) <=> Has(q, M)
  BY <1>4 DEF y
<1> QED BY <1>1, <1>2, <1>3, <1>5 DEF Quiet, r, M

LEMMA QuietTaken ==
    ASSUME NEW o, NEW q \in Seq(Message), NEW A, NEW d, Quiet(o, q, A, About(d))
    PROVE  /\ q # <<>> => Quiet(o, Tail(q), A, About(d)) /\ Head(q).about # d
           /\ Quiet(o, <<>>, A, About(d))
           /\ Quiet(o, <<>>, {}, About(d))
<1>1. ASSUME q # <<>>
      PROVE  Quiet(o, Tail(q), A, About(d)) /\ Head(q).about # d
  <2> DEFINE z == Tail(q)  m == Head(q)  M == About(d)
  <2>1. /\ Has(z, M) => Has(q, M)
        /\ m \in M => Has(q, M)
    BY <1>1, LatestTail
  <2>2. m \in Message
    BY <1>1
  <2>3. m.about = d => m \in M
    BY <2>2, InDeeds
  <2> HIDE DEF z, m, M
  <2> QED BY <2>1, <2>3 DEF Quiet, z, m, M
<1> QED BY <1>1, NothingQueued, InDeeds DEF Quiet

LEMMA QuietAnswered ==
    ASSUME NEW o, NEW q, NEW A, NEW d, Quiet(o, q, A, About(d)), NEW m \in A, m \in Message
    PROVE  Quiet(o, q, A \ {m}, About(d)) /\ m.about # d
BY InDeeds DEF Quiet

\* What a step has to be shown to do.
LEMMA KnownStep ==
    ASSUME KnownInv, NEW p \in Players, NEW d \in Deeds,
           RowsOf(d)' = RowsOf(d), RowsOf(d) # {} => RowOf(d)' = RowOf(d),
           d \notin missed'[p] => d \notin missed[p],
           Unknown(p, d) => Unknown(p, d)',
           Known(p, d) /\ d \notin missed'[p] /\ RowsOf(d) # {} =>
              DeedOK(p, outbox', queue'[p], answers'[p], page'[p], copy'[p][d],
                     d, RowOf(d).owner, RowOf(d).level)
    PROVE  KnownAt(p, d)'
<1>1. KnownAt(p, d)
  BY DEF KnownInv
<1>2. Once(d)' <=> Once(d)
  BY DEF Once
<1>3. RowsOf(d)' = {} => Unknown(p, d)'
  BY <1>1 DEF KnownAt
<1>4. ASSUME d \notin missed'[p], Once(d)', RowsOf(d)' # {}
      PROVE  Known(p, d)'
  <2>1. DeedOK(p, outbox', queue'[p], answers'[p], page'[p], copy'[p][d],
               d, RowOf(d).owner, RowOf(d).level)
    BY <1>1, <1>2, <1>4 DEF KnownAt
  <2>2. RowOf(d)' = RowOf(d)
    BY <1>4
  <2> QED BY <2>1, <2>2 DEF Known
<1> QED BY <1>3, <1>4 DEF KnownAt

\* A step of p that writes no copy and is not about d; it may send a message.
LEMMA KnownPlayed ==
    ASSUME TypeInv, KnownInv, NEW p \in Players, NEW d \in Deeds,
           RowsOf(d)' = RowsOf(d), RowsOf(d) # {} => RowOf(d)' = RowOf(d),
           UNCHANGED <<queue, answers, copy>>,
           outbox' = outbox \/ \E m \in Message : m.about # d /\ outbox' = Append(outbox, m),
           \A x \in Players \ {p} : page'[x] = page[x],
           page'[p].at = page[p].at, page'[p].loads = page[p].loads,
           page'[p].looked = page[p].looked, Asking(page'[p], d) => Asking(page[p], d),
           Buying(page'[p], d) => Buying(page[p], d) /\ page'[p].step = page[p].step,
           \A x \in Players : missed[x] \subseteq missed'[x]
    PROVE  \A x \in Players : KnownAt(x, d)'
<1> SUFFICES ASSUME NEW x \in Players PROVE KnownAt(x, d)'
  OBVIOUS
<1>1. outbox \in Seq(Message)
  BY DEF TypeInv, TypeOK
<1>2. Unknown(x, d) => Unknown(x, d)'
  BY <1>1, QuietSent DEF Unknown
<1>3. ASSUME Known(x, d)
      PROVE  DeedOK(x, outbox', queue'[x], answers'[x], page'[x], copy'[x][d],
                    d, RowOf(d).owner, RowOf(d).level)
  <2>1. DeedOK(x, outbox', queue[x], answers[x], page[x], copy[x][d],
               d, RowOf(d).owner, RowOf(d).level)
    BY <1>1, <1>3, DeedOtherSent DEF Known
  <2>2. /\ page'[x].at = page[x].at /\ page'[x].loads = page[x].loads
        /\ page'[x].looked = page[x].looked /\ (Asking(page'[x], d) => Asking(page[x], d))
        /\ Buying(page'[x], d) => Buying(page[x], d) /\ page'[x].step = page[x].step
    <3>1. CASE x = p
      BY <3>1
    <3>2. CASE x # p
      BY <3>2
    <3> QED BY <3>1, <3>2
  <2> QED BY <2>1, <2>2, DeedKept
<1> QED BY <1>2, <1>3, KnownStep

LEMMA PassKnown ==
    ASSUME TypeInv, KnownInv, NEW p \in Players,
           PassTurn(p) \/ Claim(p) \/ ClaimPaid(p) \/ Disconnect(p)
    PROVE  KnownInv'
<1>1. TypeOK
  BY DEF TypeInv
<1>2. /\ rows' = rows /\ UNCHANGED <<queue, answers, copy>>
      /\ \A x \in Players : missed[x] \subseteq missed'[x]
  <2>1. rows' = rows /\ UNCHANGED <<queue, answers, copy>>
    BY DEF PassTurn, Claim, ClaimPaid, Disconnect, server, network
  <2> QED BY <2>1, MissedStays
<1>3. /\ \A x \in Players \ {p} : page'[x] = page[x]
      /\ page'[p].at = page[p].at /\ page'[p].loads = page[p].loads
      /\ page'[p].looked = page[p].looked /\ page'[p].deal = page[p].deal
      /\ page'[p].step = page[p].step
  <2>1. CASE PassTurn(p)
    BY <1>1, <2>1, PassTurnPage
  <2>2. CASE Claim(p)
    BY <1>1, <2>2, ClaimPage
  <2>3. CASE ClaimPaid(p)
    BY <1>1, <2>3, ClaimPaidPage
  <2>4. CASE Disconnect(p)
    BY <2>4 DEF Disconnect
  <2> QED BY <2>1, <2>2, <2>3, <2>4
<1>4. outbox' = outbox \/ \E m \in Message : m.about = "turn" /\ outbox' = Append(outbox, m)
  <2>1. CASE PassTurn(p) /\ Holder(turn) = p
    <3> DEFINE m == [about |-> "turn", by |-> p, load |-> page[p].loads, turn |-> turn + 1]
    <3>1. m \in Message /\ m.about = "turn"
      <4>1. turn + 1 \in Nat /\ page[p].loads \in Nat
        BY <1>1, PageType DEF TypeOK
      <4> QED BY <4>1, MessageMade
    <3>2. outbox' = Append(outbox, m)
      BY <2>1 DEF PassTurn, Send
    <3> HIDE DEF m
    <3> QED BY <3>1, <3>2
  <2>2. CASE ~(PassTurn(p) /\ Holder(turn) = p)
    BY <2>2 DEF PassTurn, Claim, ClaimPaid, Disconnect, network
  <2> QED BY <2>1, <2>2
<1>5. ASSUME NEW d \in Deeds
      PROVE  \A x \in Players : KnownAt(x, d)'
  <2>1. RowsOf(d)' = RowsOf(d) /\ RowOf(d)' = RowOf(d)
    BY <1>2 DEF RowsOf, RowOf
  <2>2. /\ Asking(page'[p], d) => Asking(page[p], d)
        /\ Buying(page'[p], d) => Buying(page[p], d)
    BY <1>3, Constants DEF Asking, Buying
  <2>3. outbox' = outbox \/ \E m \in Message : m.about # d /\ outbox' = Append(outbox, m)
    BY <1>4, Constants
  <2> QED BY <1>2, <1>3, <2>1, <2>2, <2>3, KnownPlayed
<1> QED BY <1>5 DEF KnownInv

\* A page that buys or upgrades nothing, or has not asked yet, waits for no answer.
LEMMA NotAsked ==
    ASSUME TypeInv, RequestsInv, NEW p \in Players, NEW d \in Deeds, ~Asking(page[p], d)
    PROVE  /\ \A m \in answers[p] : m.about # d
           /\ \A i \in DOMAIN outbox : outbox[i].by = p /\ outbox[i].load = page[p].loads
                                         => outbox[i].about # d
BY DEF RequestsInv, PageOK, AnswersOK, SentOK

LEMMA LookKnown ==
    ASSUME TypeInv, RequestsInv, KnownInv, NEW p \in Players, NEW e \in Deeds, Look(p, e)
    PROVE  KnownInv'
<1>1. TypeOK /\ DealsOK
  BY DEF TypeInv
<1>2. RowsOf(e) # {} => RowOf(e).level \in Nat
  BY <1>1, FirstRow DEF Row, TypeOK
<1>3. /\ \A x \in Players \ {p} : page'[x] = page[x]
      /\ page'[p].at = page[p].at /\ page'[p].loads = page[p].loads /\ page'[p].deal = e
      /\ page'[p].step = (IF RowsOf(e) = {} THEN "market" ELSE "owner")
      /\ page'[p].looked = (IF RowsOf(e) = {} THEN 0 ELSE RowOf(e).level)
  BY <1>1, <1>2, LookPage
<1>4. /\ page[p].at = "live" /\ page[p].deal = NoDeed
      /\ UNCHANGED <<rows, outbox, queue, answers, copy, missed>>
  BY DEF Look, server, network, history
<1>5. ASSUME NEW x \in Players, NEW d \in Deeds
      PROVE  KnownAt(x, d)'
  <2>1. RowsOf(d)' = RowsOf(d) /\ RowOf(d)' = RowOf(d)
    BY <1>4 DEF RowsOf, RowOf
  <2>2. Unknown(x, d) => Unknown(x, d)'
    BY <1>4 DEF Unknown
  <2>3. ASSUME Known(x, d), RowsOf(d) # {}
        PROVE  DeedOK(x, outbox', queue'[x], answers'[x], page'[x], copy'[x][d],
                      d, RowOf(d).owner, RowOf(d).level)
    <3>1. DeedOK(x, outbox, queue[x], answers[x], page[x], copy[x][d],
                 d, RowOf(d).owner, RowOf(d).level)
      BY <2>3 DEF Known
    <3>2. CASE x # p
      BY <1>3, <1>4, <3>1, <3>2
    <3>3. CASE x = p
      <4>1. ~Asking(page[p], d) /\ ~Asking(page'[p], d)
        BY <1>3, <1>4, Constants DEF Asking
      <4>2. /\ \A m \in answers[p] : m \notin Sales(d)
            /\ \A i \in DOMAIN outbox : outbox[i].by = p /\ outbox[i].load = page[p].loads
                                          => outbox[i].about # d
        BY <4>1, NotAsked DEF Sales
      <4>3. Buying(page'[p], d) => page'[p].step = "owner" /\ page'[p].looked = RowOf(d).level
        BY <1>3, <2>3 DEF Buying
      <4>4. DeedOK(p, outbox, queue[p], answers[p], page'[p], copy[p][d],
                   d, RowOf(d).owner, RowOf(d).level)
        BY <1>3, <1>4, <3>1, <3>3, <4>1, <4>2, <4>3, DeedLooked
      <4> QED BY <1>4, <3>3, <4>4
    <3> QED BY <3>2, <3>3
  <2> QED BY <1>4, <2>1, <2>2, <2>3, KnownStep
<1> QED BY <1>5 DEF KnownInv

\* A sender that is not made unsure was told everything of it, and waits for it alone.
LEMMA SenderKnows ==
    ASSUME TypeInv, RequestsInv, NEW p \in Players, NEW d \in Deeds, NEW m \in Message,
           m.about = d, Send(p, m), d \notin missed'[p], ~Asking(page[p], d),
           OwnWaits(p, outbox, page[p], d)
    PROVE  ~Has(outbox, About(d)) /\ ~Has(queue[p], About(d))
<1>1. ~Overdue(p, d)
  BY SendMissed DEF TypeInv
<1>2. ~Has(queue[p], About(d))
  BY <1>1 DEF Overdue, Has, About
<1>3. \A i \in DOMAIN outbox : outbox[i].about = d => outbox[i].by = p
  BY <1>1 DEF Overdue
<1>4. \A i \in DOMAIN outbox : outbox[i].about # d
  BY <1>3, NotAsked DEF OwnWaits
<1> QED BY <1>2, <1>4 DEF Has, About

LEMMA UpgradeKnown ==
    ASSUME TypeInv, RequestsInv, KnownInv, NEW p \in Players, NEW e \in Deeds, Upgrade(p, e)
    PROVE  KnownInv'
<1>1. TypeOK /\ outbox \in Seq(Message)
  BY DEF TypeInv, TypeOK
<1>2. /\ \A d \in Deeds : /\ RowsOf(d)' = RowsOf(d)
                          /\ d # e /\ RowsOf(d) # {} => RowOf(d)' = RowOf(d)
      /\ RowsOf(e) # {} /\ RowOf(e).owner = p
  BY UpgradeWrites
<1>3. PICK v \in Nat : Send(p, Raised(p, e, page[p].loads, v))
                       /\ RowOf(e)'.owner = p /\ RowOf(e)'.level = v
  BY UpgradeWrites
<1>4. PICK m \in Message : /\ m.about = e /\ m.by = p /\ m.load = page[p].loads
                           /\ m.owner = p /\ m.level = v /\ ~m.sale /\ Send(p, m)
  <2>1. page[p].loads \in Nat
    BY <1>1, PageType
  <2> QED BY <1>3, <2>1, RaisedIs
<1>5. /\ outbox' = Append(outbox, m) /\ UNCHANGED <<queue, answers, copy>>
      /\ page[p].at = "live" /\ page[p].deal = NoDeed
  BY <1>4 DEF Upgrade, Send, MyTurn
<1>6. /\ \A x \in Players \ {p} : page'[x] = page[x]
      /\ page'[p].at = page[p].at /\ page'[p].loads = page[p].loads
      /\ page'[p].looked = page[p].looked /\ page'[p].deal = e /\ page'[p].step = "asked"
  BY <1>1, UpgradePage
<1>7. \A x \in Players : missed[x] \subseteq missed'[x]
  BY MissedStays
<1>8. ASSUME NEW d \in Deeds \ {e}
      PROVE  \A x \in Players : KnownAt(x, d)'
  <2>1. ~Asking(page'[p], d) /\ ~Buying(page'[p], d)
    BY <1>6, Constants DEF Asking, Buying
  <2> QED BY <1>2, <1>4, <1>5, <1>6, <1>7, <2>1, KnownPlayed
<1>9. ASSUME NEW x \in Players
      PROVE  KnownAt(x, e)'
  <2>1. RowsOf(e)' # {} /\ (Once(e)' <=> Once(e))
    BY <1>2 DEF Once
  <2>2. ASSUME e \notin missed'[x], Once(e)'
        PROVE  DeedOK(x, outbox', queue'[x], answers'[x], page'[x], copy'[x][e], e, p, v)
    <3>1. DeedOK(x, outbox, queue[x], answers[x], page[x], copy[x][e], e, p, RowOf(e).level)
      <4>1. KnownAt(x, e) /\ e \notin missed[x]
        BY <1>7, <2>2 DEF KnownInv
      <4> QED BY <1>2, <2>1, <2>2, <4>1 DEF KnownAt, Known
    <3>2. m \notin Sales(e)
      BY <1>4, InDeeds
    <3>3. m.by # x => page'[x] = page[x]
      BY <1>4, <1>6
    <3>4. m.by = x => /\ page'[x].at = "live" /\ page[x].at = "live"
                      /\ page'[x].loads = page[x].loads /\ page'[x].looked = page[x].looked
                      /\ m.load = page[x].loads /\ ~Has(queue[x], About(e)) /\ ~Buying(page'[x], e)
      <4> SUFFICES ASSUME m.by = x
                   PROVE  ~Has(queue[p], About(e)) /\ ~Buying(page'[p], e)
        BY <1>4, <1>5, <1>6
      <4>1. ~Asking(page[p], e)
        BY <1>5, Constants DEF Asking
      <4>2. OwnWaits(p, outbox, page[p], e)
        BY <1>4, <1>5, <3>1 DEF DeedOK, DeedLive
      <4>3. ~Has(queue[p], About(e))
        BY <1>4, <2>2, <4>1, <4>2, SenderKnows
      <4> QED BY <1>6, <4>3 DEF Buying
    <3>5. DeedOK(x, Append(outbox, m), queue[x], answers[x], page'[x], copy[x][e], e, p, v)
      BY <1>1, <1>4, <3>1, <3>2, <3>3, <3>4, DeedSent
    <3> QED BY <1>5, <3>5
  <2> QED BY <1>3, <2>1, <2>2 DEF KnownAt, Known
<1> QED BY <1>8, <1>9 DEF KnownInv

LEMMA TakeKnown ==
    ASSUME TypeInv, RequestsInv, KnownInv, MarketInv, NEW p \in Players, Take(p)
    PROVE  KnownInv'
<1>1. TypeOK /\ DealsOK /\ outbox \in Seq(Message)
  BY DEF TypeInv, TypeOK
<1>2. PICK e : e = page[p].deal
  OBVIOUS
<1>3. /\ e \in Deeds /\ RowsOf(e)' # {}
      /\ \A d \in Deeds \ {e} : /\ RowsOf(d)' = RowsOf(d)
                                /\ RowsOf(d) # {} => RowOf(d)' = RowOf(d)
      /\ Once(e)' => Once(e) /\ (page[p].step = "market" => RowsOf(e) = {})
  BY <1>2, TakeWrites
<1>4. PICK v \in Nat :
         /\ Send(p, Sold(p, e, page[p].loads, v))
         /\ v = IF page[p].step = "market" THEN 0 ELSE RowOf(e).level
         /\ Once(e)' => RowOf(e)'.owner = p /\ RowOf(e)'.level = v
  BY <1>2, TakeWrites
<1>5. PICK m \in Message : /\ m.about = e /\ m.by = p /\ m.load = page[p].loads
                           /\ m.owner = p /\ m.level = v /\ m.sale /\ Send(p, m)
  <2>1. page[p].loads \in Nat
    BY <1>1, PageType
  <2> QED BY <1>3, <1>4, <2>1, SoldIs
<1>6. /\ outbox' = Append(outbox, m) /\ UNCHANGED <<queue, answers, copy>>
      /\ page[p].step \in {"market", "owner"}
  BY <1>5 DEF Take, Send
<1>7. /\ \A x \in Players \ {p} : page'[x] = page[x]
      /\ page'[p].at = page[p].at /\ page'[p].loads = page[p].loads
      /\ page'[p].looked = page[p].looked /\ page'[p].deal = e /\ page'[p].step = "asked"
  BY <1>1, <1>2, TakePage
<1>8. \A x \in Players : missed[x] \subseteq missed'[x]
  BY MissedStays
<1>9. page[p].at = "live"
  <2>1. AwayOK(queue[p], answers[p], page[p])
    BY DEF RequestsInv, PageOK
  <2> QED BY <1>2, <1>3, <2>1, Constants DEF AwayOK, Idle
<1>10. ASSUME NEW d \in Deeds \ {e}
       PROVE  \A x \in Players : KnownAt(x, d)'
  <2>1. ~Asking(page'[p], d) /\ ~Buying(page'[p], d)
    BY <1>7, Constants DEF Asking, Buying
  <2> QED BY <1>3, <1>5, <1>6, <1>7, <1>8, <2>1, KnownPlayed
<1>11. ASSUME NEW x \in Players
       PROVE  KnownAt(x, e)'
  <2>1. ASSUME e \notin missed'[x], Once(e)'
        PROVE  DeedOK(x, outbox', queue'[x], answers'[x], page'[x], copy'[x][e], e, p, v)
    <3>1. m \in Sales(e) /\ KnownAt(x, e)
      BY <1>3, <1>5, InDeeds DEF KnownInv
    <3>2. CASE RowsOf(e) = {}
      <4>1. page[p].step = "market"
        BY <1>1, <1>2, <1>6, <3>2 DEF DealsOK
      <4>2. Quiet(outbox, queue[x], answers[x], About(e))
        BY <3>1, <3>2 DEF KnownAt, Unknown
      <4>3. m.by = x => page'[x].at = "live" /\ m.load = page'[x].loads /\ page'[x].looked = v
        BY <1>4, <1>5, <1>7, <1>9, <4>1 DEF MarketInv
      <4>4. DeedOK(x, Append(outbox, m), queue[x], answers[x], page'[x], copy[x][e], e, p, v)
        BY <1>1, <1>5, <3>1, <4>2, <4>3, DeedFirst
      <4> QED BY <1>6, <4>4
    <3>3. CASE RowsOf(e) # {}
      <4>1. page[p].step = "owner" /\ v = RowOf(e).level
        BY <1>3, <1>4, <1>6, <2>1, <3>3
      <4>2. DeedOK(x, outbox, queue[x], answers[x], page[x], copy[x][e],
                   e, RowOf(e).owner, RowOf(e).level)
        BY <1>3, <1>8, <2>1, <3>1, <3>3 DEF KnownAt, Known
      <4>3. m.by # x => page'[x] = page[x]
        BY <1>5, <1>7
      <4>4. m.by = x => /\ page'[x].at = "live" /\ page[x].at = "live"
                        /\ page'[x].loads = page[x].loads /\ page'[x].looked = page[x].looked
                        /\ m.load = page[x].loads /\ ~Has(queue[x], About(e))
                        /\ ~Buying(page'[x], e) /\ page[x].looked = v
        <5> SUFFICES ASSUME m.by = x
                     PROVE  /\ ~Has(queue[p], About(e)) /\ ~Buying(page'[p], e)
                            /\ page[p].looked = v
          BY <1>5, <1>7, <1>9
        <5>1. ~Asking(page[p], e)
          BY <1>3, <4>1, Constants DEF Asking
        <5>2. DeedLive(p, outbox, queue[p], answers[p], page[p], copy[p][e],
                       e, RowOf(e).owner, RowOf(e).level)
          BY <1>5, <1>9, <4>2 DEF DeedOK
        <5>3. OwnWaits(p, outbox, page[p], e) /\ Deals(outbox, page[p], e, RowOf(e).level)
          BY <5>2 DEF DeedLive
        <5>4. ~Has(outbox, About(e)) /\ ~Has(queue[p], About(e))
          BY <1>3, <1>5, <2>1, <5>1, <5>3, SenderKnows
        <5>5. page[p].looked = v
          BY <1>2, <4>1, <5>3, <5>4 DEF Deals, Buying
        <5> QED BY <1>7, <5>4, <5>5 DEF Buying
      <4>5. DeedOK(x, Append(outbox, m), queue[x], answers[x], page'[x], copy[x][e], e, p, v)
        BY <1>1, <1>5, <3>1, <4>2, <4>3, <4>4, DeedSent
      <4> QED BY <1>6, <4>5
    <3> QED BY <3>2, <3>3
  <2> QED BY <1>3, <1>4, <2>1 DEF KnownAt, Known
<1> QED BY <1>10, <1>11 DEF KnownInv

LEMMA NotifyKnown ==
    ASSUME TypeInv, RequestsInv, KnownInv, NEW i \in DOMAIN outbox, Notify(i)
    PROVE  KnownInv'
<1>1. TypeOK /\ outbox \in Seq(Message)
  BY DEF TypeInv, TypeOK
<1>2. PICK m \in Message : m = outbox[i]
  BY <1>1
<1>3. PICK told \in SUBSET Players : told = Recipients(m)
  BY DEF Recipients
<1>4. /\ outbox' = RemoveAt(outbox, i) /\ Sent(i, told) /\ UNCHANGED <<rows, page, copy>>
      /\ queue' = [x \in Players |-> IF x \in told THEN Append(queue[x], m) ELSE queue[x]]
      /\ answers' = IF Waiting(m) THEN [answers EXCEPT ![m.by] = answers[m.by] \cup {m}]
                                  ELSE answers
  BY <1>2, <1>3 DEF Notify, Sent, server
<1>5. \A x \in told : page[x].at = "live" /\ x # m.by
  BY <1>3, ToldAreLive
<1>6. ASSUME NEW x \in Players
      PROVE  /\ answers'[x] = answers[x] \/ (x = m.by /\ answers'[x] = answers[x] \cup {m})
             /\ x = m.by /\ Waiting(m) => answers'[x] = answers[x] \cup {m}
  <2>1. answers \in [Players -> SUBSET Message]
    BY <1>1 DEF TypeOK
  <2>2. m.by \in Players
    BY MessageType
  <2> QED BY <1>4, <2>1, <2>2
<1>7. ASSUME NEW x \in Players, NEW d \in Deeds
      PROVE  KnownAt(x, d)'
  <2>1. RowsOf(d)' = RowsOf(d) /\ RowOf(d)' = RowOf(d)
    BY <1>4 DEF RowsOf, RowOf
  <2>2. /\ missed[x] \subseteq missed'[x]
        /\ d \notin missed'[x] /\ m.about = d =>
              /\ \A j \in DOMAIN outbox : outbox[j].about = d => i <= j
              /\ x = m.by \/ (x \in told /\ x \notin Exposed(d))
    BY <1>1, <1>2, <1>4, SentMissed
  <2>3. /\ queue[x] \in Seq(Message)
        /\ queue'[x] = queue[x] \/ queue'[x] = Append(queue[x], m)
    BY <1>1, <1>4 DEF TypeOK
  <2>4. /\ \A k \in answers'[x] : k \in answers[x] \/ k = m
        /\ \A k \in answers[x] : k \in answers'[x]
    BY <1>6
  <2>5. ASSUME Unknown(x, d)
        PROVE  Unknown(x, d)'
    <3>1. Quiet(RemoveAt(outbox, i), queue'[x], answers'[x], About(d))
      BY <1>1, <1>2, <2>3, <2>4, <2>5, QuietLeaves DEF Unknown
    <3> QED BY <1>4, <2>5, <3>1 DEF Unknown
  <2>6. ASSUME Known(x, d), d \notin missed'[x]
        PROVE  DeedOK(x, outbox', queue'[x], answers'[x], page'[x], copy'[x][d],
                      d, RowOf(d).owner, RowOf(d).level)
    <3>1. DeedOK(x, outbox, queue[x], answers[x], page[x], copy[x][d],
                 d, RowOf(d).owner, RowOf(d).level)
      BY <2>6 DEF Known
    <3>2. PageOK(x, outbox, queue[x], answers[x], page[x])
      BY DEF RequestsInv
    <3>3. CASE m.about # d
      <4>1. DeedOK(x, RemoveAt(outbox, i), queue'[x], answers'[x], page[x], copy[x][d],
                   d, RowOf(d).owner, RowOf(d).level)
        BY <1>1, <1>2, <2>3, <2>4, <3>1, <3>3, DeedOtherLeaves
      <4> QED BY <1>4, <4>1
    <3>4. CASE m.about = d /\ x # m.by
      <4>1. x \in told /\ page[x].at = "live" /\ page[x].deal # d
        BY <1>5, <2>2, <2>6, <3>4 DEF Exposed, Awaits
      <4>2. (\A k \in answers[x] : k.about # d) /\ d # "turn"
        BY <3>2, <4>1, Constants DEF PageOK, AnswersOK, Asking
      <4>3. DeedOK(x, RemoveAt(outbox, i), Append(queue[x], m), answers[x], page[x], copy[x][d],
                   d, RowOf(d).owner, RowOf(d).level)
        BY <1>1, <1>2, <2>2, <2>3, <2>6, <3>1, <3>4, <4>1, <4>2, DeedTold
      <4>4. queue'[x] = Append(queue[x], m) /\ answers'[x] = answers[x]
        BY <1>4, <1>6, <3>4, <4>1
      <4> QED BY <1>4, <4>3, <4>4
    <3>5. CASE m.about = d /\ x = m.by
      <4>1. queue'[x] = queue[x]
        BY <1>4, <1>5, <3>5
      <4>2. ASSUME page[x].at = "live"
            PROVE  /\ Asking(page[x], d) /\ ~Buying(page[x], d) /\ \A k \in answers[x] : k.about # d
                   /\ answers'[x] = answers[x] \cup {m}
        <5>1. m.load = page[x].loads
          BY <1>2, <3>1, <3>5, <4>2 DEF DeedOK, DeedLive, OwnWaits
        <5>2. Asking(page[x], d) /\ \A k \in answers[x] : k.about # d
          BY <1>2, <3>2, <3>5, <5>1 DEF PageOK, SentOK
        <5>3. ~Buying(page[x], d)
          BY <5>2, Constants DEF Asking, Buying
        <5>4. Waiting(m)
          BY <3>5, <4>2, <5>1 DEF Waiting
        <5> QED BY <1>6, <3>5, <5>2, <5>3, <5>4
      <4>3. DeedOK(x, RemoveAt(outbox, i), queue[x], answers'[x], page[x], copy[x][d],
                   d, RowOf(d).owner, RowOf(d).level)
        BY <1>1, <1>2, <2>2, <2>6, <3>1, <3>5, <4>2, DeedAnswered
      <4> QED BY <1>4, <4>1, <4>3
    <3> QED BY <3>3, <3>4, <3>5
  <2> QED BY <2>1, <2>2, <2>5, <2>6, KnownStep
<1> QED BY <1>7 DEF KnownInv

LEMMA NotifyFailsKnown ==
    ASSUME TypeInv, RequestsInv, KnownInv, NEW i \in DOMAIN outbox, NotifyFails(i)
    PROVE  KnownInv'
<1>1. TypeOK /\ outbox \in Seq(Message)
  BY DEF TypeInv, TypeOK
<1>2. PICK m \in Message : m = outbox[i]
  BY <1>1
<1>3. PICK told \in SUBSET Recipients(m) :
         /\ outbox' = RemoveAt(outbox, i)
         /\ queue' = [x \in Players |-> IF x \in told THEN Append(queue[x], m) ELSE queue[x]]
         /\ missed' = [x \in Players |-> Missing(x, {m.about}) \cup Doubt(i)]
  BY <1>2 DEF NotifyFails
<1>4. UNCHANGED <<rows, answers, copy>>
  BY DEF NotifyFails, server
<1>5. \A x \in Players : m.about \in missed'[x] /\ missed[x] \subseteq missed'[x]
  BY <1>1, <1>2, <1>3, FailsMissed
<1>6. PICK p \in Players : p = m.by
  BY MessageType
<1>7. ASSUME NEW x \in Players, NEW d \in Deeds
      PROVE  KnownAt(x, d)'
  <2>1. RowsOf(d)' = RowsOf(d) /\ RowOf(d)' = RowOf(d)
    BY <1>4 DEF RowsOf, RowOf
  <2>2. /\ queue[x] \in Seq(Message)
        /\ queue'[x] = queue[x] \/ queue'[x] = Append(queue[x], m)
    BY <1>1, <1>3 DEF TypeOK
  <2>3. ASSUME Unknown(x, d)
        PROVE  Unknown(x, d)'
    <3>1. Quiet(RemoveAt(outbox, i), queue'[x], answers[x], About(d))
      BY <1>1, <1>2, <2>2, <2>3, QuietLeaves DEF Unknown
    <3> QED BY <1>3, <1>4, <2>3, <3>1 DEF Unknown
  <2>4. ASSUME Known(x, d), d \notin missed'[x]
        PROVE  DeedOK(x, outbox', queue'[x], answers'[x], page'[x], copy'[x][d],
                      d, RowOf(d).owner, RowOf(d).level)
    <3>1. m.about # d
      BY <1>5, <2>4
    <3>2. DeedOK(x, RemoveAt(outbox, i), queue'[x], answers[x], page[x], copy[x][d],
                 d, RowOf(d).owner, RowOf(d).level)
      BY <1>1, <1>2, <2>2, <2>4, <3>1, DeedOtherLeaves DEF Known
    <3>3. /\ page'[x].at = page[x].at /\ page'[x].loads = page[x].loads
          /\ page'[x].looked = page[x].looked
          /\ page'[x].deal = NoDeed \/ (page'[x].deal = page[x].deal /\ page'[x].step = page[x].step)
      <4>1. CASE Waiting(m) /\ m.about = "turn"
        BY <1>1, <1>2, <1>6, <4>1, FailsTurnPage
      <4>2. CASE Waiting(m) /\ m.about # "turn"
        BY <1>1, <1>2, <1>6, <4>2, FailsDeedPage
      <4>3. CASE ~Waiting(m)
        BY <1>2, <4>3 DEF NotifyFails
      <4> QED BY <4>1, <4>2, <4>3
    <3>4. /\ Asking(page'[x], d) => Asking(page[x], d)
          /\ Buying(page'[x], d) => Buying(page[x], d) /\ page'[x].step = page[x].step
      BY <3>3, Constants DEF Asking, Buying
    <3>5. DeedOK(x, RemoveAt(outbox, i), queue'[x], answers[x], page'[x], copy[x][d],
                 d, RowOf(d).owner, RowOf(d).level)
      BY <3>2, <3>3, <3>4, DeedKept
    <3> QED BY <1>3, <1>4, <3>5
  <2> QED BY <1>5, <2>1, <2>3, <2>4, KnownStep
<1> QED BY <1>7 DEF KnownInv

LEMMA HearKnown ==
    ASSUME TypeInv, RequestsInv, KnownInv, NEW p \in Players, Deliver(p) \/ Answer(p)
    PROVE  KnownInv'
<1>1. TypeOK /\ copy[p] \in Copies /\ page[p].looked \in Nat
  BY PageType DEF TypeInv
<1>2. \A x \in Players : missed[x] \subseteq missed'[x]
  BY MissedStays
<1>3. PageOK(p, outbox, queue[p], answers[p], page[p])
  BY DEF RequestsInv
<1>4. CASE Deliver(p)
  <2>1. PICK m : m = Head(queue[p])
    OBVIOUS
  <2>2. /\ m \in Message /\ queue[p] \in Seq(Message) /\ queue[p] # <<>>
        /\ queue'[p] = Tail(queue[p])
        /\ \A x \in Players \ {p} : /\ queue'[x] = queue[x] /\ page'[x] = page[x]
                                    /\ copy'[x] = copy[x]
        /\ page'[p].at = page[p].at /\ page'[p].loads = page[p].loads
        /\ page'[p].looked = page[p].looked
        /\ page'[p].deal = page[p].deal /\ page'[p].step = page[p].step
        /\ m.about = "turn" => copy' = copy
        /\ m.about # "turn" => copy'[p] = DeedHeard(copy[p], p, m)
        /\ UNCHANGED <<rows, outbox, answers>>
    BY <1>1, <1>4, <2>1, DeliverIs DEF server
  <2>3. page[p].at = "live"
    BY <1>3, <2>2 DEF PageOK, AwayOK
  <2>4. ASSUME NEW d \in Deeds
        PROVE  /\ m.about = d => Writes(copy'[p][d], copy[p][d], m)
               /\ m.about # d => /\ copy'[p][d].owner = copy[p][d].owner
                                 /\ copy'[p][d].level = copy[p][d].level
    <3>1. CASE m.about = "turn"
      BY <2>2, <3>1, Constants
    <3>2. CASE m.about # "turn"
      BY <1>1, <2>2, <3>2, DeedHeardIs DEF Writes
    <3> QED BY <3>1, <3>2
  <2>5. ASSUME NEW x \in Players, NEW d \in Deeds
        PROVE  KnownAt(x, d)'
    <3>1. RowsOf(d)' = RowsOf(d) /\ RowOf(d)' = RowOf(d)
      BY <2>2 DEF RowsOf, RowOf
    <3>2. CASE x # p
      <4>1. /\ queue'[x] = queue[x] /\ page'[x] = page[x] /\ copy'[x] = copy[x]
            /\ answers'[x] = answers[x] /\ outbox' = outbox
        BY <2>2, <3>2
      <4> QED BY <1>2, <3>1, <4>1, KnownStep DEF Unknown, Known
    <3>3. CASE x = p
      <4>1. ASSUME Unknown(p, d)
            PROVE  Unknown(p, d)'
        <5>1. Quiet(outbox, queue[p], answers[p], About(d))
          BY <4>1 DEF Unknown
        <5>2. Quiet(outbox, Tail(queue[p]), answers[p], About(d)) /\ Head(queue[p]).about # d
          BY <2>2, <5>1, QuietTaken
        <5> QED BY <2>1, <2>2, <2>4, <4>1, <5>2 DEF Unknown
      <4>2. ASSUME Known(p, d)
            PROVE  DeedOK(p, outbox', queue'[p], answers'[p], page'[p], copy'[p][d],
                          d, RowOf(d).owner, RowOf(d).level)
        <5>1. DeedOK(p, outbox, Tail(queue[p]), answers[p], page[p], copy'[p][d],
                     d, RowOf(d).owner, RowOf(d).level)
          BY <2>1, <2>2, <2>3, <2>4, <4>2, DeedTaken DEF Known
        <5>2. /\ Asking(page'[p], d) => Asking(page[p], d)
              /\ Buying(page'[p], d) => Buying(page[p], d) /\ page'[p].step = page[p].step
          BY <2>2, Constants DEF Asking, Buying
        <5>3. DeedOK(p, outbox, Tail(queue[p]), answers[p], page'[p], copy'[p][d],
                     d, RowOf(d).owner, RowOf(d).level)
          BY <2>2, <5>1, <5>2, DeedKept
        <5> QED BY <2>2, <5>3
      <4> QED BY <1>2, <3>1, <3>3, <4>1, <4>2, KnownStep
    <3> QED BY <3>2, <3>3
  <2> QED BY <2>5 DEF KnownInv
<1>5. CASE Answer(p)
  <2>1. PICK m \in answers[p] :
          /\ m \in Message /\ answers'[p] = answers[p] \ {m}
          /\ \A x \in Players \ {p} : /\ answers'[x] = answers[x] /\ page'[x] = page[x]
                                      /\ copy'[x] = copy[x]
          /\ page'[p].at = page[p].at /\ page'[p].loads = page[p].loads
          /\ page'[p].looked = page[p].looked
          /\ m.about = "turn" => /\ copy' = copy
                                 /\ page'[p].deal = page[p].deal /\ page'[p].step = page[p].step
          /\ m.about # "turn" => /\ page'[p].deal = NoDeed
                                 /\ copy'[p] = AnswerWritten(copy[p], p, m, page[p].looked)
          /\ UNCHANGED <<rows, outbox, queue>>
    BY <1>1, <1>5, AnswerIs DEF server
  <2>2. page[p].at = "live" /\ m.by = p /\ OwnerSent(m)
    BY <1>3, <2>1 DEF PageOK, AwayOK, AnswersOK
  <2>3. ASSUME NEW d \in Deeds
        PROVE  /\ m.about = d /\ m.sale => copy'[p][d].owner = m.owner
                                           /\ copy'[p][d].level = page[p].looked
               /\ m.about = d /\ ~m.sale =>
                     /\ copy'[p][d].owner = copy[p][d].owner
                     /\ copy[p][d].owner = m.owner => copy'[p][d].level = m.level
               /\ m.about # d => /\ copy'[p][d].owner = copy[p][d].owner
                                 /\ copy'[p][d].level = copy[p][d].level
    <3>1. CASE m.about = "turn"
      BY <2>1, <3>1, Constants
    <3>2. CASE m.about # "turn"
      <4>1. m.owner = p
        BY <2>2, <3>2 DEF OwnerSent
      <4>2. PICK b : b = copy'[p]
        OBVIOUS
      <4>3. /\ m.sale => b[m.about].owner = p /\ b[m.about].level = page[p].looked
            /\ ~m.sale => /\ b[m.about].owner = copy[p][m.about].owner
                          /\ copy[p][m.about].owner = m.owner => b[m.about].level = m.level
            /\ \A e \in Deeds \ {m.about} : /\ b[e].owner = copy[p][e].owner
                                            /\ b[e].level = copy[p][e].level
        BY <1>1, <2>1, <3>2, <4>2, AnswerWrittenIs
      <4> QED BY <4>1, <4>2, <4>3
    <3> QED BY <3>1, <3>2
  <2>4. ASSUME NEW x \in Players, NEW d \in Deeds
        PROVE  KnownAt(x, d)'
    <3>1. RowsOf(d)' = RowsOf(d) /\ RowOf(d)' = RowOf(d)
      BY <2>1 DEF RowsOf, RowOf
    <3>2. CASE x # p
      <4>1. /\ queue'[x] = queue[x] /\ page'[x] = page[x] /\ copy'[x] = copy[x]
            /\ answers'[x] = answers[x] /\ outbox' = outbox
        BY <2>1, <3>2
      <4> QED BY <1>2, <3>1, <4>1, KnownStep DEF Unknown, Known
    <3>3. CASE x = p
      <4>1. queue[p] \in Seq(Message)
        BY <1>1 DEF TypeOK
      <4>2. ASSUME Unknown(p, d)
            PROVE  Unknown(p, d)'
        <5>1. Quiet(outbox, queue[p], answers[p] \ {m}, About(d)) /\ m.about # d
          BY <2>1, <4>2, QuietAnswered DEF Unknown
        <5> QED BY <2>1, <2>3, <4>2, <5>1 DEF Unknown
      <4>3. /\ Asking(page'[p], d) => Asking(page[p], d)
            /\ Buying(page'[p], d) => Buying(page[p], d) /\ page'[p].step = page[p].step
        BY <2>1, Constants DEF Asking, Buying
      <4>4. ASSUME Known(p, d)
            PROVE  DeedOK(p, outbox', queue'[p], answers'[p], page'[p], copy'[p][d],
                          d, RowOf(d).owner, RowOf(d).level)
        <5>1. DeedOK(p, outbox, queue[p], answers[p] \ {m}, page'[p], copy'[p][d],
                     d, RowOf(d).owner, RowOf(d).level)
          BY <2>1, <2>2, <2>3, <4>3, <4>4, DeedAnswerTaken DEF Known
        <5> QED BY <2>1, <5>1
      <4> QED BY <1>2, <3>1, <3>3, <4>2, <4>4, KnownStep
    <3> QED BY <3>2, <3>3
  <2> QED BY <2>4 DEF KnownInv
<1> QED BY <1>4, <1>5

\* The pages of the others.
LEMMA KnownOther ==
    ASSUME KnownInv, NEW p \in Players, UNCHANGED <<rows, outbox>>,
           \A x \in Players \ {p} : /\ page'[x] = page[x] /\ queue'[x] = queue[x]
                                    /\ answers'[x] = answers[x] /\ copy'[x] = copy[x]
                                    /\ missed[x] \subseteq missed'[x],
           \A d \in Deeds : KnownAt(p, d)'
    PROVE  KnownInv'
<1>1. ASSUME NEW x \in Players \ {p}, NEW d \in Deeds
      PROVE  KnownAt(x, d)'
  <2>1. RowsOf(d)' = RowsOf(d) /\ RowOf(d)' = RowOf(d)
    BY DEF RowsOf, RowOf
  <2>2. /\ queue'[x] = queue[x] /\ page'[x] = page[x] /\ copy'[x] = copy[x]
        /\ answers'[x] = answers[x] /\ missed[x] \subseteq missed'[x]
    BY <1>1
  <2> QED BY <2>1, <2>2, KnownStep DEF Unknown, Known
<1> QED BY <1>1 DEF KnownInv

LEMMA BreakKnown ==
    ASSUME TypeInv, RequestsInv, KnownInv, NEW p \in Players, Leave(p) \/ Drop(p)
    PROVE  KnownInv'
<1>1. /\ TypeOK /\ queue \in [Players -> Seq(Message)] /\ answers \in [Players -> SUBSET Message]
      /\ queue[p] \in Seq(Message)
  BY DEF TypeInv, TypeOK
<1>2. \A x \in Players : missed[x] \subseteq missed'[x]
  BY MissedStays
<1>3. /\ queue' = [queue EXCEPT ![p] = <<>>] /\ UNCHANGED <<rows, outbox, copy>>
      /\ answers' = answers \/ answers' = [answers EXCEPT ![p] = {}]
  BY DEF Leave, Drop, server
<1>4. \A x \in Players \ {p} : page'[x] = page[x]
  <2>1. CASE Leave(p)
    BY <1>1, <2>1, LeavePage
  <2>2. CASE Drop(p)
    BY <1>1, <2>2, DropPage
  <2> QED BY <2>1, <2>2
<1>5. /\ queue'[p] = <<>>
      /\ \A x \in Players \ {p} : queue'[x] = queue[x] /\ answers'[x] = answers[x]
  BY <1>1, <1>3
<1>6. ASSUME NEW d \in Deeds
      PROVE  KnownAt(p, d)'
  <2>1. RowsOf(d)' = RowsOf(d) /\ RowOf(d)' = RowOf(d)
    BY <1>3 DEF RowsOf, RowOf
  <2>2. Unknown(p, d) => Unknown(p, d)'
    BY <1>1, <1>3, <1>5, QuietTaken DEF Unknown
  <2>3. ASSUME Known(p, d), d \notin missed'[p]
        PROVE  DeedOK(p, outbox', queue'[p], answers'[p], page'[p], copy'[p][d],
                      d, RowOf(d).owner, RowOf(d).level)
    <3>1. CASE Leave(p)
      <4>1. page'[p].at = "away"
        BY <1>1, <3>1, LeavePage
      <4> QED BY <4>1 DEF DeedOK
    <3>2. CASE Drop(p)
      <4> DEFINE w == RowOf(d).owner  v == RowOf(d).level
                 M == About(d)  G == Says(d, w, v)  S == Sales(d)  W == Owns(d, w)
      <4>1. /\ page[p].at = "live" /\ answers' = answers
            /\ page'[p].at = page[p].at /\ page'[p].loads = page[p].loads
            /\ page'[p].looked = page[p].looked
            /\ page'[p].deal = page[p].deal /\ page'[p].step = page[p].step
        BY <1>1, <3>2, DropPage DEF Drop
      <4>2. DeedLive(p, outbox, queue[p], answers[p], page[p], copy[p][d], d, w, v)
        BY <2>3, <4>1 DEF Known, DeedOK
      <4>3. ~Has(queue[p], M) /\ ~Has(<<>>, M) /\ ~Has(<<>>, S)
        BY <1>1, <2>3, <3>2, BreakMissed, NothingQueued DEF Abouts
      <4>4. ~Has(queue[p], S)
        BY <4>3, SalesAbout
      <4> HIDE DEF M, G, S, W
      <4>5. /\ Flow(outbox, queue[p], answers[p], M, G) => Flow(outbox, <<>>, answers[p], M, G)
            /\ Flow(outbox, queue[p], answers[p], S, W) => Flow(outbox, <<>>, answers[p], S, W)
            /\ Quiet(outbox, <<>>, answers[p], M) => Quiet(outbox, queue[p], answers[p], M)
            /\ Quiet(outbox, <<>>, answers[p], S) => Quiet(outbox, queue[p], answers[p], S)
        BY <4>3, <4>4 DEF Flow, Quiet
      <4>6. DeedLive(p, outbox, <<>>, answers[p], page[p], copy[p][d], d, w, v)
        BY <4>2, <4>3, <4>5 DEF DeedLive, M, G, S, W
      <4>7. DeedOK(p, outbox, <<>>, answers[p], page[p], copy[p][d], d, w, v)
        BY <4>1, <4>6 DEF DeedOK
      <4>8. /\ Asking(page'[p], d) => Asking(page[p], d)
            /\ Buying(page'[p], d) => Buying(page[p], d)
        BY <4>1, Constants DEF Asking, Buying
      <4>9. DeedOK(p, outbox, <<>>, answers[p], page'[p], copy[p][d], d, w, v)
        BY <4>1, <4>7, <4>8, DeedKept
      <4>10. /\ outbox' = outbox /\ queue'[p] = <<>> /\ answers'[p] = answers[p]
             /\ copy'[p][d] = copy[p][d]
        BY <1>3, <1>5, <4>1
      <4>11. DeedOK(p, outbox, <<>>, answers[p], page'[p], copy[p][d],
                    d, RowOf(d).owner, RowOf(d).level)
        BY <4>9
      <4> QED BY <4>10, <4>11
    <3> QED BY <3>1, <3>2
  <2> QED BY <1>2, <2>1, <2>2, <2>3, KnownStep
<1> QED BY <1>2, <1>3, <1>4, <1>5, <1>6, KnownOther

LEMMA LoadKnown ==
    ASSUME TypeInv, RequestsInv, KnownInv, NEW p \in Players, Load(p)
    PROVE  KnownInv'
<1>1. /\ TypeOK /\ rows \in Seq(Row) /\ copy \in [Players -> Copies] /\ copy[p] \in Copies
      /\ missed \in [Players -> SUBSET (Deeds \cup {"turn", "claim"})]
  BY PageType DEF TypeInv, TypeOK, Copies
<1>2. UNCHANGED <<rows, outbox, queue, answers>>
  BY DEF Load, FetchTurn, FetchProperties, Connect, server, network
<1>3. \A x \in Players \ {p} : page'[x] = page[x]
  BY <1>1, FetchTurnPage, FetchPropertiesPage, ConnectPage DEF Load
<1>4. \A x \in Players \ {p} : copy'[x] = copy[x] /\ missed'[x] = missed[x]
  BY <1>1 DEF Load, FetchTurn, FetchProperties, Connect
<1>5. \A d \in Deeds : RowsOf(d)' = RowsOf(d) /\ RowOf(d)' = RowOf(d)
  BY <1>2 DEF RowsOf, RowOf
<1>6. CASE FetchTurn(p)
  <2>1. page'[p].at = "turn" /\ copy' = copy /\ \A d \in Deeds : d \in missed[p] => d \in missed'[p]
    <3>1. page'[p].at = "turn"
      BY <1>1, <1>6, FetchTurnPage
    <3>2. copy' = copy /\ missed' = [missed EXCEPT ![p] = missed[p] \ {"turn"}]
      BY <1>6 DEF FetchTurn
    <3>3. missed'[p] = missed[p] \ {"turn"}
      BY <1>1, <3>2
    <3>4. "turn" \notin Deeds
      BY Constants
    <3> QED BY <3>1, <3>2, <3>3, <3>4
  <2>2. ASSUME NEW d \in Deeds
        PROVE  KnownAt(p, d)'
    <3>1. Unknown(p, d) => Unknown(p, d)'
      BY <1>2, <2>1 DEF Unknown
    <3>2. DeedOK(p, outbox', queue'[p], answers'[p], page'[p], copy'[p][d],
                 d, RowOf(d).owner, RowOf(d).level)
      BY <2>1 DEF DeedOK
    <3> QED BY <1>5, <2>1, <3>1, <3>2, KnownStep
  <2> QED BY <1>2, <1>3, <1>4, <2>2, KnownOther
<1>7. CASE FetchProperties(p)
  <2>1. page'[p].at = "deeds" /\ copy'[p] = Fetched(copy[p], p)
    BY <1>1, <1>7, FetchPropertiesPage DEF FetchProperties
  <2>2. ASSUME NEW d \in Deeds
        PROVE  KnownAt(p, d)'
    <3>1. /\ RowsOf(d) = {} => copy'[p][d].owner = copy[p][d].owner
          /\ Once(d) /\ RowsOf(d) # {} => /\ copy'[p][d].owner = RowOf(d).owner
                                          /\ copy'[p][d].level = RowOf(d).level
      BY <1>1, <2>1, FetchedShows
    <3>2. RowsOf(d)' = {} => Unknown(p, d)'
      BY <1>2, <1>5, <3>1 DEF KnownInv, KnownAt, Unknown
    <3>3. ASSUME Once(d)', RowsOf(d)' # {}
          PROVE  Known(p, d)'
      <4>1. Once(d) /\ RowsOf(d) # {}
        BY <1>5, <3>3 DEF Once
      <4>2. DeedOK(p, outbox', queue'[p], answers'[p], page'[p], copy'[p][d],
                   d, RowOf(d).owner, RowOf(d).level)
        BY <2>1, <3>1, <4>1 DEF DeedOK
      <4> QED BY <1>5, <4>2 DEF Known
    <3> QED BY <3>2, <3>3 DEF KnownAt
  <2> QED BY <1>2, <1>3, <1>4, <2>2, KnownOther
<1>8. CASE Connect(p)
  <2>1. /\ page[p].at = "deeds" /\ page'[p].at = "live" /\ copy' = copy
        /\ page'[p].deal = page[p].deal
    BY <1>1, <1>8, ConnectPage DEF Connect
  <2>2. /\ missed[p] \subseteq missed'[p]
        /\ \A j \in DOMAIN outbox : outbox[j].about \in missed'[p]
    BY <1>1, <1>8, MissedStays, ConnectMissed
  <2>3. queue[p] = <<>> /\ answers[p] = {} /\ page[p].deal = NoDeed
    BY <2>1 DEF RequestsInv, PageOK, AwayOK, Idle
  <2>4. ASSUME NEW d \in Deeds
        PROVE  KnownAt(p, d)'
    <3>1. Unknown(p, d) => Unknown(p, d)'
      BY <1>2, <2>1 DEF Unknown
    <3>2. ASSUME Known(p, d), d \notin missed'[p]
          PROVE  DeedOK(p, outbox', queue'[p], answers'[p], page'[p], copy'[p][d],
                        d, RowOf(d).owner, RowOf(d).level)
      <4>1. \A j \in DOMAIN outbox : outbox[j].about # d
        BY <2>2, <3>2
      <4>2. copy[p][d].owner = RowOf(d).owner /\ copy[p][d].level = RowOf(d).level
        BY <2>1, <3>2, <4>1 DEF Known, DeedOK, Others
      <4>3. /\ ~Has(outbox, About(d)) /\ ~Has(outbox, Sales(d))
            /\ ~Has(queue[p], About(d)) /\ ~Has(queue[p], Sales(d))
        BY <2>3, <4>1, NothingQueued DEF Has, About, Sales
      <4>4. ~Asking(page'[p], d) /\ ~Buying(page'[p], d)
        BY <2>1, <2>3, Constants DEF Asking, Buying
      <4>5. OwnWaits(p, outbox, page'[p], d) /\ Looks(p, outbox, answers[p], page'[p], d)
        BY <2>3, <4>1 DEF OwnWaits, Looks, Sales
      <4>6. DeedOK(p, outbox, queue[p], answers[p], page'[p], copy[p][d],
                   d, RowOf(d).owner, RowOf(d).level)
        BY <2>1, <2>3, <4>2, <4>3, <4>4, <4>5 DEF DeedOK, DeedLive, Flow, Deals
      <4> QED BY <1>2, <2>1, <4>6
    <3> QED BY <1>5, <2>2, <3>1, <3>2, KnownStep
  <2> QED BY <1>2, <1>3, <1>4, <2>4, KnownOther
<1> QED BY <1>6, <1>7, <1>8 DEF Load

LEMMA InitKnown == Init => KnownInv /\ MarketInv
<1> SUFFICES ASSUME Init PROVE KnownInv /\ MarketInv
  OBVIOUS
<1>1. TypeInv /\ rows \in Seq(Row)
  BY InitType DEF TypeInv, TypeOK
<1>2. MarketInv
  BY DEF Init, MarketInv
<1>3. ASSUME NEW p \in Players, NEW d \in Deeds
      PROVE  KnownAt(p, d)
  <2>1. /\ outbox = <<>> /\ queue[p] = <<>> /\ answers[p] = {}
        /\ page[p].at = "live" /\ page[p].deal = NoDeed /\ copy[p] = Fetched(Blank, p)
    BY DEF Init, Blank
  <2>2. Blank \in Copies /\ Blank[d].owner = 0
    BY DEF Blank, Copies, Card
  <2>3. /\ RowsOf(d) = {} => copy[p][d].owner = 0
        /\ Once(d) /\ RowsOf(d) # {} => /\ copy[p][d].owner = RowOf(d).owner
                                        /\ copy[p][d].level = RowOf(d).level
    BY <1>1, <2>1, <2>2, FetchedShows
  <2>4. /\ ~Has(outbox, About(d)) /\ ~Has(outbox, Sales(d))
        /\ ~Has(queue[p], About(d)) /\ ~Has(queue[p], Sales(d))
    BY <2>1, NothingQueued
  <2>5. RowsOf(d) = {} => Unknown(p, d)
    BY <2>1, <2>3, <2>4 DEF Unknown, Quiet
  <2>6. ASSUME Once(d), RowsOf(d) # {}
        PROVE  Known(p, d)
    <3>1. ~Asking(page[p], d) /\ ~Buying(page[p], d)
      BY <2>1, Constants DEF Asking, Buying
    <3>2. OwnWaits(p, outbox, page[p], d) /\ Looks(p, outbox, answers[p], page[p], d)
      BY <2>1 DEF OwnWaits, Looks
    <3> QED BY <2>1, <2>3, <2>4, <2>6, <3>1, <3>2 DEF Known, DeedOK, DeedLive, Flow, Deals
  <2> QED BY <2>5, <2>6 DEF KnownAt
<1> QED BY <1>2, <1>3 DEF KnownInv

LEMMA NextMarket == TypeInv /\ MarketInv /\ [Next]_vars => MarketInv'
<1> SUFFICES ASSUME TypeInv, MarketInv, [Next]_vars PROVE MarketInv'
  OBVIOUS
<1>1. TypeOK
  BY DEF TypeInv
<1>2. ASSUME NEW p \in Players, \A x \in Players \ {p} : page'[x] = page[x],
             page'[p].step = "market" => page'[p].looked = 0 \/ (page[p].step = "market"
                                                        /\ page'[p].looked = page[p].looked)
      PROVE  MarketInv'
  BY <1>2 DEF MarketInv
<1>3. CASE page' = page
  BY <1>3 DEF MarketInv
<1>4. ASSUME NEW p \in Players,
             PassTurn(p) \/ Claim(p) \/ ClaimPaid(p) \/ Take(p) \/ Leave(p) \/ Load(p) \/ Drop(p)
      PROVE  MarketInv'
  <2>1. /\ \A x \in Players \ {p} : page'[x] = page[x]
        /\ page'[p].step = "market" => /\ page[p].step = "market"
                                       /\ page'[p].looked = page[p].looked
    <3>1. CASE PassTurn(p)
      BY <1>1, <3>1, PassTurnPage
    <3>2. CASE Claim(p)
      BY <1>1, <3>2, ClaimPage
    <3>3. CASE ClaimPaid(p)
      BY <1>1, <3>3, ClaimPaidPage
    <3>4. CASE Take(p)
      BY <1>1, <3>4, TakePage
    <3>5. CASE Leave(p)
      BY <1>1, <3>5, LeavePage
    <3>6. CASE Load(p)
      BY <1>1, <3>6, FetchTurnPage, FetchPropertiesPage, ConnectPage DEF Load
    <3>7. CASE Drop(p)
      BY <1>1, <3>7, DropPage
    <3> QED BY <1>4, <3>1, <3>2, <3>3, <3>4, <3>5, <3>6, <3>7
  <2> QED BY <1>2, <2>1
<1>5. ASSUME NEW p \in Players, NEW d \in Deeds, Look(p, d)
      PROVE  MarketInv'
  <2>1. RowsOf(d) # {} => RowOf(d).level \in Nat
    BY <1>1, FirstRow DEF Row, TypeOK
  <2>2. /\ \A x \in Players \ {p} : page'[x] = page[x]
        /\ page'[p].step = "market" => page'[p].looked = 0
    BY <1>1, <1>5, <2>1, LookPage
  <2> QED BY <1>2, <2>2
<1>6. ASSUME NEW p \in Players, NEW d \in Deeds, Upgrade(p, d)
      PROVE  MarketInv'
  <2>1. (\A x \in Players \ {p} : page'[x] = page[x]) /\ page'[p].step = "asked"
    BY <1>1, <1>6, UpgradePage
  <2> QED BY <1>2, <2>1
<1>7. ASSUME NEW p \in Players, Deliver(p)
      PROVE  MarketInv'
  <2>1. /\ \A x \in Players \ {p} : page'[x] = page[x]
        /\ page'[p].step = page[p].step /\ page'[p].looked = page[p].looked
    BY <1>1, <1>7, DeliverIs
  <2> QED BY <1>2, <2>1
<1>8. ASSUME NEW p \in Players, Answer(p)
      PROVE  MarketInv'
  <2>1. /\ \A x \in Players \ {p} : page'[x] = page[x]
        /\ page'[p].step = page[p].step \/ page'[p].step = "no"
        /\ page'[p].looked = page[p].looked
    BY <1>1, <1>8, AnswerIs
  <2> QED BY <1>2, <2>1
<1>9. ASSUME NEW i \in DOMAIN outbox, NotifyFails(i)
      PROVE  MarketInv'
  <2>1. PICK m \in Message : m = outbox[i]
    BY <1>1 DEF TypeOK
  <2>2. PICK p \in Players : p = m.by
    BY MessageType
  <2>3. CASE ~Waiting(m)
    BY <1>3, <1>9, <2>1, <2>3 DEF NotifyFails
  <2>4. CASE Waiting(m) /\ m.about = "turn"
    <3>1. /\ \A x \in Players \ {p} : page'[x] = page[x]
          /\ page'[p].step = page[p].step /\ page'[p].looked = page[p].looked
      BY <1>1, <1>9, <2>1, <2>2, <2>4, FailsTurnPage
    <3> QED BY <1>2, <3>1
  <2>5. CASE Waiting(m) /\ m.about # "turn"
    <3>1. (\A x \in Players \ {p} : page'[x] = page[x]) /\ page'[p].step = "no"
      BY <1>1, <1>9, <2>1, <2>2, <2>5, FailsDeedPage
    <3> QED BY <1>2, <3>1
  <2> QED BY <2>3, <2>4, <2>5
<1>10. ASSUME NEW p \in Players, Disconnect(p)
       PROVE  MarketInv'
  BY <1>3, <1>10 DEF Disconnect
<1>11. ASSUME NEW i \in DOMAIN outbox, Notify(i)
       PROVE  MarketInv'
  BY <1>3, <1>11 DEF Notify
<1>12. CASE UNCHANGED vars
  BY <1>3, <1>12 DEF vars
<1> QED BY <1>4, <1>5, <1>6, <1>7, <1>8, <1>9, <1>10, <1>11, <1>12 DEF Next

LEMMA NextKnown ==
    TypeInv /\ RequestsInv /\ KnownInv /\ MarketInv /\ [Next]_vars => KnownInv'
<1> SUFFICES ASSUME TypeInv, RequestsInv, KnownInv, MarketInv, [Next]_vars PROVE KnownInv'
  OBVIOUS
<1>1. CASE UNCHANGED vars
  <2>1. UNCHANGED <<rows, outbox, queue, answers, page, copy, missed>>
    BY <1>1 DEF vars, server, network, history
  <2>2. \A d \in Deeds : RowsOf(d)' = RowsOf(d) /\ RowOf(d)' = RowOf(d)
    BY <2>1 DEF RowsOf, RowOf
  <2>3. ASSUME NEW p \in Players, NEW d \in Deeds
        PROVE  KnownAt(p, d)'
    BY <2>1, <2>2, KnownStep DEF Unknown, Known
  <2> QED BY <2>3 DEF KnownInv
<1> QED BY <1>1, PassKnown, TakeKnown, LookKnown, UpgradeKnown, NotifyKnown, NotifyFailsKnown,
           HearKnown, BreakKnown, LoadKnown DEF Next

\* A page that missed nothing of a property, and on its way to which there is nothing
\* about it, shows who owns it with which mining capacity: though a purchase writes
\* the capacity read before it was paid, the messages say what was when they were sent,
\* and an upgrade is heard only where the page has the property with its owner.
THEOREM PropertiesAreShown == Spec => []PropertiesShown
<1> DEFINE I == TypeInv /\ RequestsInv /\ KnownInv /\ MarketInv
<1>1. Init => I
  BY InitType, InitRequests, InitKnown
<1>2. I /\ [Next]_vars => I'
  BY NextType, NextRequests, NextKnown, NextMarket
<1>3. I => PropertiesShown
  <2> SUFFICES ASSUME TypeInv, RequestsInv, KnownInv, NEW p \in Players, NEW d \in Deeds,
                      Settled(p, d), Cardinality(RowsOf(d)) <= 1
               PROVE  IF RowsOf(d) = {} THEN copy[p][d].owner = 0
                      ELSE /\ copy[p][d].owner = RowOf(d).owner
                           /\ copy[p][d].level = RowOf(d).level
    BY DEF PropertiesShown
  <2>1. KnownAt(p, d)
    BY DEF KnownInv
  <2>2. CASE RowsOf(d) = {}
    BY <2>1, <2>2 DEF KnownAt, Unknown
  <2>3. CASE RowsOf(d) # {}
    <3>1. Once(d)
      <4>1. IsFiniteSet(RowsOf(d))
        <5>1. IsFiniteSet(1 .. Len(rows)) /\ RowsOf(d) \subseteq 1 .. Len(rows)
          <6>1. rows \in Seq(Row)
            BY DEF TypeInv, TypeOK
          <6>2. Len(rows) \in Nat /\ DOMAIN rows = 1 .. Len(rows)
            BY <6>1
          <6>3. IsFiniteSet(1 .. Len(rows))
            BY <6>2, FS_Interval
          <6> QED BY <6>2, <6>3 DEF RowsOf
        <5> QED BY <5>1, FS_Subset
      <4>2. SUFFICES ASSUME NEW i \in RowsOf(d), NEW j \in RowsOf(d), i # j PROVE FALSE
        BY DEF Once
      <4>3. /\ {i, j} \subseteq RowsOf(d) /\ IsFiniteSet({i}) /\ j \notin {i}
            /\ {i, j} = {i} \cup {j} /\ IsFiniteSet({i} \cup {j})
        BY <4>1, <4>2, FS_Singleton, FS_AddElement
      <4>4. Cardinality({i, j}) = 2
        <5> DEFINE S == {i}
        <5>1. IsFiniteSet(S) /\ Cardinality(S) = 1 /\ j \notin S /\ {i, j} = S \cup {j}
          BY <4>3, FS_Singleton
        <5> HIDE DEF S
        <5>2. Cardinality(S \cup {j}) = Cardinality(S) + 1
          BY <5>1, FS_AddElement
        <5> QED BY <5>1, <5>2
      <4>5. Cardinality({i, j}) <= Cardinality(RowsOf(d)) /\ Cardinality(RowsOf(d)) \in Nat
        BY <4>1, <4>3, FS_Subset, FS_CardinalityType
      <4> QED BY <4>4, <4>5
    <3>2. Settled(p, d) => d \notin missed[p] /\ page[p].at = "live" /\ page[p].deal # d
      BY Constants DEF Settled, Awaits
    <3>3. DeedLive(p, outbox, queue[p], answers[p], page[p], copy[p][d],
                   d, RowOf(d).owner, RowOf(d).level)
      BY <2>1, <2>3, <3>1, <3>2 DEF KnownAt, Known, DeedOK
    <3>4. \A m \in answers[p] : m.about # d
      BY <3>2, NotAsked, Constants DEF Asking
    <3>5. Quiet(outbox, queue[p], answers[p], About(d))
      BY <3>4 DEF Settled, Quiet, Has, About
    <3> QED BY <2>3, <3>3, <3>5 DEF DeedLive
  <2> QED BY <2>2, <2>3
<1> QED BY <1>1, <1>2, <1>3, PTL DEF Spec

-----------------------------------------------------------------------------
(* Turns come in their order.  The messages about the turn leave the outbox o as *)
(* they came, unless one overtakes another, and come to the queue q of a page.   *)

TurnIn(s) == {i \in DOMAIN s : s[i].about = "turn"}
Rising(s) == \A i, j \in TurnIn(s) : i < j => s[i].turn < s[j].turn

\* Turns were passed by who had them, and none of them is still to come.
SentTurns(o, t) ==
    /\ Rising(o)
    /\ \A i \in TurnIn(o) : o[i].turn <= t /\ Holder(o[i].turn) # o[i].by
PastOK(p, q, A, g, t) ==
    /\ g.turn <= t
    /\ \A i \in TurnIn(q) : q[i].turn <= t
    /\ \A m \in A : m.about = "turn" => m.turn <= t /\ Holder(m.turn) # p

PastInv ==
    /\ turn <= count.changes
    /\ SentTurns(outbox, turn)
    /\ \A p \in Players : PastOK(p, queue[p], answers[p], page[p], turn)

LEMMA TurnTypes ==
    ASSUME NEW s \in Seq(Message)
    PROVE  \A i \in TurnIn(s) : /\ i \in DOMAIN s /\ i \in Nat /\ s[i] \in Message
                                /\ s[i].about = "turn" /\ s[i].turn \in Nat
<1>1. DOMAIN s \subseteq Nat /\ \A i \in DOMAIN s : s[i] \in Message
  OBVIOUS
<1> QED BY <1>1, MessageType DEF TurnIn

LEMMA TurnInSent ==
    ASSUME NEW s \in Seq(Message), NEW m \in Message
    PROVE  /\ \A k \in TurnIn(Append(s, m)) :
                 \/ k \in TurnIn(s) /\ Append(s, m)[k] = s[k]
                 \/ m.about = "turn" /\ Append(s, m)[k] = m
           /\ Rising(s) /\ (m.about = "turn" => \A k \in TurnIn(s) : s[k].turn < m.turn)
                 => Rising(Append(s, m))
           /\ \A k \in TurnIn(s) : k \in TurnIn(Append(s, m)) /\ Append(s, m)[k] = s[k]
<1> DEFINE r == Append(s, m)
<1>1. /\ Len(s) \in Nat /\ DOMAIN s = 1 .. Len(s) /\ DOMAIN r = 1 .. Len(s) + 1
      /\ \A k \in DOMAIN s : r[k] = s[k]
      /\ r[Len(s) + 1] = m
  BY Appended
<1> HIDE DEF r
<1>2. \A k \in TurnIn(r) : \/ k \in TurnIn(s) /\ r[k] = s[k]
                           \/ m.about = "turn" /\ r[k] = m /\ k = Len(s) + 1
  BY <1>1 DEF TurnIn
<1>3. \A k \in TurnIn(s) : k \in TurnIn(r) /\ r[k] = s[k] /\ k \in 1 .. Len(s)
  BY <1>1 DEF TurnIn
<1>4. ASSUME Rising(s), m.about = "turn" => \A k \in TurnIn(s) : s[k].turn < m.turn,
             NEW i \in TurnIn(r), NEW j \in TurnIn(r), i < j
      PROVE  r[i].turn < r[j].turn
  <2>1. i \in TurnIn(s) /\ r[i] = s[i]
    <3>1. CASE i = Len(s) + 1
      <4>1. j \in 1 .. Len(s) + 1
        BY <1>1 DEF TurnIn
      <4> QED BY <1>1, <1>4, <3>1, <4>1
    <3> QED BY <1>2, <3>1
  <2>2. CASE j \in TurnIn(s) /\ r[j] = s[j]
    BY <1>4, <2>1, <2>2 DEF Rising
  <2>3. CASE m.about = "turn" /\ r[j] = m
    BY <1>4, <2>1, <2>3
  <2> QED BY <1>2, <2>2, <2>3
<1> QED BY <1>2, <1>3, <1>4 DEF Rising, r

LEMMA TurnInLeaves ==
    ASSUME NEW s \in Seq(Message), NEW i \in DOMAIN s
    PROVE  /\ \A k \in TurnIn(RemoveAt(s, i)) :
                 \E j \in TurnIn(s) \ {i} : RemoveAt(s, i)[k] = s[j]
           /\ Rising(s) => Rising(RemoveAt(s, i))
<1> DEFINE r == RemoveAt(s, i)
<1>1. /\ \A k \in DOMAIN r : /\ k \in Nat /\ Before(k, i) \in DOMAIN s \ {i}
                             /\ r[k] = s[Before(k, i)]
      /\ i \in Nat
  BY Removed
<1> HIDE DEF r
<1>2. \A k \in TurnIn(r) : Before(k, i) \in TurnIn(s) \ {i} /\ r[k] = s[Before(k, i)] /\ k \in Nat
  BY <1>1 DEF TurnIn
<1>3. \A k, j \in Nat : k < j => Before(k, i) < Before(j, i)
  BY <1>1 DEF Before
<1>4. Rising(s) => Rising(r)
  BY <1>2, <1>3 DEF Rising
<1> QED BY <1>2, <1>4 DEF r

LEMMA TurnInTaken ==
    ASSUME NEW s \in Seq(Message), s # <<>>
    PROVE  /\ \A k \in TurnIn(Tail(s)) : k + 1 \in TurnIn(s) /\ Tail(s)[k] = s[k + 1] /\ k \in Nat
           /\ Rising(s) => /\ Rising(Tail(s))
                           /\ Head(s).about = "turn" =>
                                 \A k \in TurnIn(Tail(s)) : Head(s).turn < Tail(s)[k].turn
           /\ Head(s).about = "turn" => 1 \in TurnIn(s) /\ Head(s) = s[1]
<1> DEFINE r == Tail(s)
<1>1. /\ Head(s) = s[1] /\ 1 \in DOMAIN s
      /\ \A k \in DOMAIN r : k \in Nat /\ k + 1 \in DOMAIN s /\ r[k] = s[k + 1]
  BY HeadRemoved
<1>0. DOMAIN r \subseteq Nat \ {0}
  <2>1. r \in Seq(Message)
    BY HeadRemoved
  <2> HIDE DEF r
  <2> QED BY <2>1
<1> HIDE DEF r
<1>2. \A k \in TurnIn(r) : k + 1 \in TurnIn(s) /\ r[k] = s[k + 1] /\ k \in Nat /\ 1 < k + 1
  BY <1>0, <1>1 DEF TurnIn
<1>3. Head(s).about = "turn" => 1 \in TurnIn(s)
  BY <1>1 DEF TurnIn
<1>4. Rising(s) => Rising(r)
  <2> SUFFICES ASSUME Rising(s), NEW i \in TurnIn(r), NEW j \in TurnIn(r), i < j
               PROVE  r[i].turn < r[j].turn
    BY DEF Rising
  <2>1. i + 1 < j + 1 /\ i + 1 \in TurnIn(s) /\ j + 1 \in TurnIn(s)
    BY <1>2
  <2> QED BY <1>2, <2>1 DEF Rising
<1>5. ASSUME Rising(s), Head(s).about = "turn", NEW k \in TurnIn(r)
      PROVE  Head(s).turn < r[k].turn
  <2>1. 1 \in TurnIn(s) /\ k + 1 \in TurnIn(s) /\ 1 < k + 1
    BY <1>2, <1>3, <1>5
  <2> QED BY <1>1, <1>2, <1>5, <2>1 DEF Rising
<1> QED BY <1>1, <1>2, <1>3, <1>4, <1>5 DEF r

-----------------------------------------------------------------------------
(* The start bonus, on a page g of p that missed nothing of how the turn went    *)
(* from and to its player; c is the turn of the player's last claim.             *)

BonusOK(p, g, c, t) ==
    /\ c = MaxChanges + 1 \/ c <= g.turn
    /\ Holder(g.turn) = p => /\ g.turn = t \/ g.passing = "asked"
                             /\ ~g.first => c = g.turn
                             /\ g.first /\ ~g.claiming => c # g.turn
    /\ g.passing = "asked" => Holder(g.turn) = p

\* What is on its way to the page is newer than what it shows, and comes in order:
\* first the queue, then the outbox.  The turns that come are over, but for the last
\* one, or are the turns of others.
OrderOK(p, o, q, A, g, t) ==
    /\ \A i \in TurnIn(o) : /\ g.turn < o[i].turn
                            /\ \A j \in TurnIn(q) : q[j].turn < o[i].turn
                            /\ \A m \in A : m.about = "turn" => m.turn < o[i].turn
                            /\ o[i].by # p /\ Holder(o[i].turn) = p => o[i].turn = t
    /\ \A i \in TurnIn(o) : o[i].by = p =>
            o[i].load = g.loads /\ \A j \in TurnIn(o) : i <= j
    /\ Rising(q)
    /\ \A j \in TurnIn(q) : g.turn < q[j].turn /\ (Holder(q[j].turn) = p => q[j].turn = t)
    /\ \A m \in A : m.about = "turn" => g.turn < m.turn
    /\ g.passing = "asked" => TurnIn(q) = {}

ClaimOK(p, o, q, A, g, c, t) ==
    BonusOK(p, g, c, t) /\ (g.at = "live" => OrderOK(p, o, q, A, g, t))

ClaimsInv ==
    \A p \in Players : "claim" \notin missed[p]
        => ClaimOK(p, outbox, queue[p], answers[p], page[p], claimed[p], turn)

\* A message about a property.
LEMMA NotTurn ==
    ASSUME NEW s \in Seq(Message), NEW m \in Message, m.about # "turn"
    PROVE  \A k \in TurnIn(Append(s, m)) : k \in TurnIn(s) /\ Append(s, m)[k] = s[k]
BY TurnInSent

LEMMA OrderDealSent ==
    ASSUME NEW p, NEW o \in Seq(Message), NEW q, NEW A, NEW g, NEW t,
           OrderOK(p, o, q, A, g, t), NEW m \in Message, m.about # "turn"
    PROVE  OrderOK(p, Append(o, m), q, A, g, t)
<1> DEFINE r == Append(o, m)
<1>1. \A k \in TurnIn(r) : k \in TurnIn(o) /\ r[k] = o[k]
  BY NotTurn
<1> HIDE DEF r
<1>2. OrderOK(p, r, q, A, g, t)
  BY <1>1 DEF OrderOK
<1> QED BY <1>2 DEF r

LEMMA OrderDealQueued ==
    ASSUME NEW p, NEW o, NEW q \in Seq(Message), NEW A, NEW g, NEW t,
           OrderOK(p, o, q, A, g, t), NEW m \in Message, m.about # "turn"
    PROVE  OrderOK(p, o, Append(q, m), A, g, t)
<1> DEFINE r == Append(q, m)
<1>1. (\A k \in TurnIn(r) : k \in TurnIn(q) /\ r[k] = q[k]) /\ (Rising(q) => Rising(r))
  BY NotTurn, TurnInSent
<1> HIDE DEF r
<1>2. OrderOK(p, o, r, A, g, t)
  BY <1>1 DEF OrderOK
<1> QED BY <1>2 DEF r

LEMMA OrderAnswers ==
    ASSUME NEW p, NEW o, NEW q, NEW A, NEW B, NEW g, NEW t, OrderOK(p, o, q, A, g, t),
           \A m \in B : m.about = "turn" => m \in A
    PROVE  OrderOK(p, o, q, B, g, t)
BY DEF OrderOK

LEMMA OrderKept ==
    ASSUME NEW p, NEW o, NEW q, NEW A, NEW g, NEW h, NEW t, OrderOK(p, o, q, A, g, t),
           h.turn = g.turn, h.loads = g.loads, h.passing = "asked" => g.passing = "asked"
    PROVE  OrderOK(p, o, q, A, h, t)
BY DEF OrderOK

LEMMA OrderLeaves ==
    ASSUME NEW p, NEW o \in Seq(Message), NEW q, NEW A, NEW g, NEW t,
           OrderOK(p, o, q, A, g, t), NEW i \in DOMAIN o
    PROVE  OrderOK(p, RemoveAt(o, i), q, A, g, t)
<1> DEFINE r == RemoveAt(o, i)
<1>1. \A k \in TurnIn(r) : \E j \in TurnIn(o) \ {i} : r[k] = o[j]
  BY TurnInLeaves
<1>2. /\ \A k \in DOMAIN r : k \in Nat /\ Before(k, i) \in DOMAIN o \ {i} /\ r[k] = o[Before(k, i)]
      /\ i \in Nat
  BY Removed
<1> HIDE DEF r
<1>3. \A k \in TurnIn(r) : Before(k, i) \in TurnIn(o) /\ r[k] = o[Before(k, i)] /\ k \in Nat
  BY <1>2 DEF TurnIn
<1>4. \A k, j \in Nat : Before(k, i) <= Before(j, i) => k <= j
  BY <1>2 DEF Before
<1>5. \A k \in TurnIn(r) : r[k].by = p =>
            r[k].load = g.loads /\ \A j \in TurnIn(r) : k <= j
  BY <1>3, <1>4 DEF OrderOK
<1>6. OrderOK(p, r, q, A, g, t)
  BY <1>1, <1>5 DEF OrderOK
<1> QED BY <1>6 DEF r

\* Nothing about the turn is on its way.
LEMMA OrderNone ==
    ASSUME NEW p, NEW o, NEW q, NEW A, NEW g, NEW t, TurnIn(o) = {}, TurnIn(q) = {},
           \A m \in A : m.about # "turn"
    PROVE  OrderOK(p, o, q, A, g, t)
BY DEF OrderOK, Rising

\* The queue is lost.
LEMMA OrderDropped ==
    ASSUME NEW p, NEW o, NEW q, NEW A, NEW g, NEW t, OrderOK(p, o, q, A, g, t)
    PROVE  OrderOK(p, o, <<>>, A, g, t)
<1>1. TurnIn(<<>>) = {}
  BY DEF TurnIn
<1> QED BY <1>1 DEF OrderOK, Rising

\* Another player passes the turn.
LEMMA OrderPassedOn ==
    ASSUME NEW p, NEW o \in Seq(Message), NEW q \in Seq(Message), NEW A \in SUBSET Message,
           NEW g \in Page, NEW t \in Nat, OrderOK(p, o, q, A, g, t),
           SentTurns(o, t), PastOK(p, q, A, g, t), Holder(t) # p,
           NEW m \in Message, m.about = "turn", m.by # p, m.turn = t + 1
    PROVE  OrderOK(p, Append(o, m), q, A, g, t + 1)
<1> DEFINE r == Append(o, m)
<1>0. PICK u \in Nat : u = t + 1
  OBVIOUS
<1>1. \A k \in TurnIn(r) : (k \in TurnIn(o) /\ r[k] = o[k]) \/ r[k] = m
  BY TurnInSent
<1>2. /\ \A i \in TurnIn(o) : o[i].turn \in Nat /\ i \in Nat
      /\ \A i \in TurnIn(q) : q[i].turn \in Nat
      /\ \A k \in A : k.about = "turn" => k.turn \in Nat
      /\ g.turn \in Nat
  BY TurnTypes, MessageType DEF Page
<1>3. /\ g.turn < m.turn
      /\ \A j \in TurnIn(q) : q[j].turn < m.turn
      /\ \A k \in A : k.about = "turn" => k.turn < m.turn
  BY <1>2 DEF PastOK
<1>4. \A k \in TurnIn(r) : /\ g.turn < r[k].turn
                           /\ \A j \in TurnIn(q) : q[j].turn < r[k].turn
                           /\ \A x \in A : x.about = "turn" => x.turn < r[k].turn
  <2> HIDE DEF r
  <2> QED BY <1>1, <1>3 DEF OrderOK
<1>5. /\ \A i \in TurnIn(o) : o[i].by # p => Holder(o[i].turn) # p
      /\ \A j \in TurnIn(q) : Holder(q[j].turn) # p
  BY DEF OrderOK
<1>6. \A k \in TurnIn(r) : r[k].by # p /\ Holder(r[k].turn) = p => r[k].turn = u
  <2> HIDE DEF r
  <2> QED BY <1>0, <1>1, <1>5
<1>7. ASSUME NEW i \in TurnIn(r), r[i].by = p
      PROVE  r[i].load = g.loads /\ \A j \in TurnIn(r) : i <= j
  <2>1. /\ Len(o) \in Nat /\ DOMAIN o = 1 .. Len(o) /\ DOMAIN r = 1 .. Len(o) + 1
        /\ \A k \in DOMAIN o : r[k] = o[k]
        /\ r[Len(o) + 1] = m
    BY Appended
  <2> HIDE DEF r
  <2>2. i \in TurnIn(o) /\ r[i] = o[i] /\ i \in 1 .. Len(o)
    BY <1>1, <1>7, <2>1 DEF TurnIn
  <2>3. r[i].load = g.loads /\ \A j \in TurnIn(o) : i <= j
    BY <1>7, <2>2 DEF OrderOK
  <2>4. \A j \in TurnIn(r) : j \in TurnIn(o) \/ j = Len(o) + 1
    BY <2>1 DEF TurnIn
  <2> QED BY <2>1, <2>2, <2>3, <2>4
<1> HIDE DEF r
<1>8. OrderOK(p, r, q, A, g, u)
  BY <1>4, <1>5, <1>6, <1>7 DEF OrderOK
<1> QED BY <1>0, <1>8 DEF r

\* The player of the page does, who waits for nothing else.
LEMMA OrderPassed ==
    ASSUME NEW p, NEW o \in Seq(Message), NEW q, NEW A, NEW g \in Page, NEW t \in Nat,
           TurnIn(o) = {}, TurnIn(q) = {}, \A k \in A : k.about # "turn",
           NEW m \in Message, m.by = p, m.load = g.loads, g.turn = t, m.turn = t + 1
    PROVE  OrderOK(p, Append(o, m), q, A, g, t + 1)
<1> DEFINE r == Append(o, m)
<1>1. /\ Len(o) \in Nat /\ DOMAIN o = 1 .. Len(o) /\ DOMAIN r = 1 .. Len(o) + 1
      /\ \A k \in DOMAIN o : r[k] = o[k]
      /\ r[Len(o) + 1] = m
  BY Appended
<1> HIDE DEF r
<1>2. \A k \in TurnIn(r) : k = Len(o) + 1 /\ r[k] = m
  BY <1>1 DEF TurnIn
<1>3. g.turn < m.turn
  OBVIOUS
<1>4. PICK u \in Nat : u = t + 1
  OBVIOUS
<1>5. OrderOK(p, r, q, A, g, u)
  BY <1>1, <1>2, <1>3, <1>4 DEF OrderOK, Rising
<1> QED BY <1>4, <1>5 DEF r

LEMMA TurnQueued ==
    ASSUME NEW s \in Seq(Message), NEW m \in Message
    PROVE  \A k \in TurnIn(Append(s, m)) :
              (k \in TurnIn(s) /\ Append(s, m)[k] = s[k]) \/ Append(s, m)[k] = m
BY TurnInSent

\* A message about the turn comes to the queue.
LEMMA OrderQueued ==
    ASSUME NEW p, NEW r, NEW q \in Seq(Message), NEW A, NEW g, NEW t,
           OrderOK(p, r, q, A, g, t), NEW m \in Message, g.passing # "asked",
           g.turn < m.turn, Holder(m.turn) = p => m.turn = t,
           \A k \in TurnIn(q) : q[k].turn < m.turn,
           \A k \in TurnIn(r) : m.turn < r[k].turn
    PROVE  OrderOK(p, r, Append(q, m), A, g, t)
<1> DEFINE z == Append(q, m)
<1>1. \A k \in TurnIn(z) : (k \in TurnIn(q) /\ z[k] = q[k]) \/ z[k] = m
  BY TurnQueued
<1>2. Rising(z)
  BY TurnInSent DEF OrderOK
<1> HIDE DEF z
<1>3. \A k \in TurnIn(z) : g.turn < z[k].turn /\ (Holder(z[k].turn) = p => z[k].turn = t)
  BY <1>1 DEF OrderOK
<1>4. \A i \in TurnIn(r) : \A k \in TurnIn(z) : z[k].turn < r[i].turn
  BY <1>1 DEF OrderOK
<1>5. OrderOK(p, r, z, A, g, t)
  BY <1>2, <1>3, <1>4 DEF OrderOK
<1> QED BY <1>5 DEF z

\* The first message about the turn leaves the outbox, and the page is told.
LEMMA OrderTold ==
    ASSUME NEW p, NEW o \in Seq(Message), NEW q \in Seq(Message), NEW A, NEW g, NEW t,
           OrderOK(p, o, q, A, g, t), Rising(o), NEW i \in TurnIn(o), NEW m, m = o[i],
           \A j \in TurnIn(o) : i <= j, m.by # p, g.passing # "asked"
    PROVE  OrderOK(p, RemoveAt(o, i), Append(q, m), A, g, t)
<1> DEFINE r == RemoveAt(o, i)
<1>1. i \in DOMAIN o /\ i \in Nat /\ m \in Message /\ \A j \in TurnIn(o) : j \in Nat
  BY TurnTypes
<1>2. \A k \in TurnIn(r) : \E j \in TurnIn(o) \ {i} : r[k] = o[j]
  BY <1>1, TurnInLeaves
<1>3. OrderOK(p, r, q, A, g, t)
  BY <1>1, OrderLeaves
<1> HIDE DEF r
<1>4. \A j \in TurnIn(o) \ {i} : m.turn < o[j].turn
  BY <1>1 DEF Rising
<1>5. \A k \in TurnIn(r) : m.turn < r[k].turn
  BY <1>2, <1>4
<1>6. /\ g.turn < m.turn /\ (Holder(m.turn) = p => m.turn = t)
      /\ \A k \in TurnIn(q) : q[k].turn < m.turn
  BY DEF OrderOK
<1>7. OrderOK(p, r, Append(q, m), A, g, t)
  BY <1>1, <1>3, <1>5, <1>6, OrderQueued
<1> QED BY <1>7 DEF r

\* It is what the page waits for.
LEMMA OrderAnswered ==
    ASSUME NEW p, NEW o \in Seq(Message), NEW q, NEW A, NEW g, NEW t,
           OrderOK(p, o, q, A, g, t), Rising(o), NEW i \in TurnIn(o), NEW m, m = o[i],
           \A j \in TurnIn(o) : i <= j
    PROVE  OrderOK(p, RemoveAt(o, i), q, A \cup {m}, g, t)
<1> DEFINE r == RemoveAt(o, i)  B == A \cup {m}
<1>1. i \in DOMAIN o /\ i \in Nat /\ \A j \in TurnIn(o) : j \in Nat
  BY TurnTypes
<1>2. \A k \in TurnIn(r) : \E j \in TurnIn(o) \ {i} : r[k] = o[j]
  BY <1>1, TurnInLeaves
<1>3. OrderOK(p, r, q, A, g, t)
  BY <1>1, OrderLeaves
<1>4. \A k \in B : k \in A \/ k = m
  OBVIOUS
<1> HIDE DEF r, B
<1>5. \A j \in TurnIn(o) \ {i} : m.turn < o[j].turn
  BY <1>1 DEF Rising
<1>6. \A k \in TurnIn(r) : m.turn < r[k].turn
  BY <1>2, <1>5
<1>7. g.turn < m.turn
  BY DEF OrderOK
<1>8. OrderOK(p, r, q, B, g, t)
  BY <1>3, <1>4, <1>6, <1>7 DEF OrderOK
<1> QED BY <1>8 DEF r, B

\* The page takes a message from its queue.
LEMMA OrderTaken ==
    ASSUME NEW p, NEW o, NEW q \in Seq(Message), NEW A, NEW g, NEW h, NEW t,
           OrderOK(p, o, q, A, g, t), q # <<>>, NEW m, m = Head(q),
           h.loads = g.loads, h.passing = g.passing,
           m.about # "turn" => h.turn = g.turn,
           m.about = "turn" => h.turn = m.turn /\ \A k \in A : k.about # "turn"
    PROVE  OrderOK(p, o, Tail(q), A, h, t)
<1> DEFINE z == Tail(q)
<1>1. /\ \A k \in TurnIn(z) : k + 1 \in TurnIn(q) /\ z[k] = q[k + 1] /\ k \in Nat
      /\ Rising(q) => /\ Rising(z)
                      /\ m.about = "turn" => \A k \in TurnIn(z) : m.turn < z[k].turn
      /\ m.about = "turn" => 1 \in TurnIn(q) /\ m = q[1]
  BY TurnInTaken
<1>2. \A k \in TurnIn(z) : \E j \in TurnIn(q) : z[k] = q[j]
  BY <1>1
<1> HIDE DEF z
<1>3. g.passing = "asked" => TurnIn(z) = {}
  BY <1>2 DEF OrderOK
<1>4. CASE m.about # "turn"
  <2>1. Rising(z)
    BY <1>1 DEF OrderOK
  <2>2. OrderOK(p, o, z, A, g, t)
    BY <1>2, <1>3, <2>1 DEF OrderOK
  <2>3. OrderOK(p, o, z, A, h, t)
    BY <1>4, <2>2, OrderKept
  <2> QED BY <2>3 DEF z
<1>5. CASE m.about = "turn"
  <2>1. Rising(z) /\ \A k \in TurnIn(z) : h.turn < z[k].turn
    BY <1>1, <1>5 DEF OrderOK
  <2>2. \A i \in TurnIn(o) : h.turn < o[i].turn
    BY <1>1, <1>5 DEF OrderOK
  <2>3. \A k \in TurnIn(z) : Holder(z[k].turn) = p => z[k].turn = t
    BY <1>2 DEF OrderOK
  <2>4. \A k \in TurnIn(z) : \A i \in TurnIn(o) : z[k].turn < o[i].turn
    BY <1>2 DEF OrderOK
  <2>5. OrderOK(p, o, z, A, h, t)
    BY <1>3, <1>5, <2>1, <2>2, <2>3, <2>4 DEF OrderOK
  <2> QED BY <2>5 DEF z
<1> QED BY <1>4, <1>5

\* The page takes the answer it waits for.
LEMMA OrderAnswerTaken ==
    ASSUME NEW p, NEW o, NEW q, NEW A, NEW g, NEW h, NEW t, OrderOK(p, o, q, A, g, t),
           NEW m \in A, m.about = "turn", g.passing = "asked",
           \A k \in A : k.about = "turn" => k = m,
           h.loads = g.loads, h.passing = "no", h.turn = m.turn
    PROVE  OrderOK(p, o, q, A \ {m}, h, t)
<1>1. TurnIn(q) = {} /\ \A i \in TurnIn(o) : h.turn < o[i].turn
  BY DEF OrderOK
<1>2. \A k \in A \ {m} : k.about # "turn"
  OBVIOUS
<1> QED BY <1>1, <1>2 DEF OrderOK

LEMMA SentTurnsKept ==
    ASSUME NEW o \in Seq(Message), NEW t \in Nat, SentTurns(o, t)
    PROVE  /\ \A i \in DOMAIN o : SentTurns(RemoveAt(o, i), t)
           /\ \A m \in Message : m.about # "turn" => SentTurns(Append(o, m), t)
           /\ \A m \in Message : m.about = "turn" /\ m.turn = t + 1 /\ Holder(t + 1) # m.by
                 => SentTurns(Append(o, m), t + 1)
<1>1. \A i \in TurnIn(o) : o[i].turn \in Nat
  BY TurnTypes
<1>2. ASSUME NEW i \in DOMAIN o
      PROVE  SentTurns(RemoveAt(o, i), t)
  <2>1. /\ \A k \in TurnIn(RemoveAt(o, i)) :
             \E j \in TurnIn(o) \ {i} : RemoveAt(o, i)[k] = o[j]
        /\ Rising(o) => Rising(RemoveAt(o, i))
    BY TurnInLeaves
  <2> QED BY <2>1 DEF SentTurns
<1>3. ASSUME NEW m \in Message, m.about # "turn"
      PROVE  SentTurns(Append(o, m), t)
  <2>1. /\ \A k \in TurnIn(Append(o, m)) : k \in TurnIn(o) /\ Append(o, m)[k] = o[k]
        /\ Rising(o) => Rising(Append(o, m))
    BY <1>3, NotTurn, TurnInSent
  <2> QED BY <2>1 DEF SentTurns
<1>4. ASSUME NEW m \in Message, m.about = "turn", m.turn = t + 1, Holder(t + 1) # m.by
      PROVE  SentTurns(Append(o, m), t + 1)
  <2> DEFINE r == Append(o, m)
  <2>1. PICK u \in Nat : u = t + 1
    OBVIOUS
  <2>2. \A k \in TurnIn(o) : o[k].turn < m.turn
    BY <1>1, <1>4 DEF SentTurns
  <2>3. /\ \A k \in TurnIn(r) : (k \in TurnIn(o) /\ r[k] = o[k]) \/ r[k] = m
        /\ Rising(r)
    BY <1>4, <2>2, TurnInSent DEF SentTurns
  <2> HIDE DEF r
  <2>4. \A k \in TurnIn(r) : r[k].turn <= u /\ Holder(r[k].turn) # r[k].by
    BY <1>1, <1>4, <2>1, <2>3 DEF SentTurns
  <2>5. SentTurns(r, u)
    BY <2>3, <2>4 DEF SentTurns
  <2> QED BY <2>1, <2>5 DEF r
<1> QED BY <1>2, <1>3, <1>4

\* A step that passes no turn: a message may be sent about a property, or leave the
\* outbox, and the page shows, waits for and is told of what was there.
LEMMA PastKept ==
    ASSUME TypeOK, PastInv, turn' = turn, count.changes <= count'.changes,
           count' \in [changes : 0 .. MaxChanges, breaks : 0 .. MaxBreaks],
           \/ outbox' = outbox
           \/ \E i \in DOMAIN outbox : outbox' = RemoveAt(outbox, i)
           \/ \E m \in Message : m.about # "turn" /\ outbox' = Append(outbox, m),
           \A p \in Players : PastOK(p, queue'[p], answers'[p], page'[p], turn)
    PROVE  PastInv'
<1>1. outbox \in Seq(Message) /\ turn \in Nat /\ SentTurns(outbox, turn)
  BY DEF TypeOK, PastInv
<1>2. SentTurns(outbox', turn)
  BY <1>1, SentTurnsKept
<1>3. turn <= count'.changes
  <2>1. /\ turn <= count.changes /\ turn \in Nat /\ count.changes \in Nat
        /\ count'.changes \in Nat
    BY Constants DEF PastInv, TypeOK
  <2> QED BY <2>1
<1> QED BY <1>2, <1>3 DEF PastInv

\* The pages show what they did, and wait for what they did.
LEMMA PastPages ==
    ASSUME PastInv, NEW p \in Players, queue'[p] = queue[p] \/ queue'[p] = <<>>,
           answers'[p] = answers[p] \/ answers'[p] = {}, page'[p].turn = page[p].turn
    PROVE  PastOK(p, queue'[p], answers'[p], page'[p], turn)
<1>1. PastOK(p, queue[p], answers[p], page[p], turn)
  BY DEF PastInv
<1>2. TurnIn(<<>>) = {}
  BY DEF TurnIn
<1> QED BY <1>1, <1>2 DEF PastOK

LEMMA PassPast ==
    ASSUME TypeInv, PastInv, NEW p \in Players, PassTurn(p)
    PROVE  PastInv'
<1>1. TypeOK /\ outbox \in Seq(Message) /\ turn \in Nat
  BY DEF TypeInv, TypeOK
<1>2. UNCHANGED <<queue, answers>> /\ \A x \in Players : page'[x].turn = page[x].turn
  BY <1>1, PassTurnPage DEF PassTurn
<1>3. \A x \in Players : PastOK(x, queue'[x], answers'[x], page'[x], turn)
  BY <1>2, PastPages
<1>4. count' \in [changes : 0 .. MaxChanges, breaks : 0 .. MaxBreaks]
  BY NextType DEF Next, TypeInv, TypeOK
<1>5. CASE Holder(turn) # p
  <2>1. UNCHANGED <<turn, outbox, count>>
    BY <1>5 DEF PassTurn
  <2>2. count.changes <= count'.changes
    BY <1>1, <2>1 DEF TypeOK
  <2> QED BY <1>1, <1>3, <1>4, <2>1, <2>2, PastKept
<1>6. CASE Holder(turn) = p
  <2> DEFINE m == [about |-> "turn", by |-> p, load |-> page[p].loads, turn |-> turn + 1]
  <2>1. m \in Message
    <3>1. turn + 1 \in Nat /\ page[p].loads \in Nat
      BY <1>1, PageType
    <3> QED BY <3>1, MessageMade
  <2>2. Send(p, m) /\ turn' = turn + 1 /\ m.about = "turn" /\ m.by = p /\ m.turn = turn + 1
    BY <1>6 DEF PassTurn
  <2> HIDE DEF m
  <2>3. outbox' = Append(outbox, m) /\ count' = [count EXCEPT !.changes = @ + 1]
    BY <2>2 DEF Send
  <2>4. Holder(turn + 1) # p
    BY <1>1, <1>6, HolderMoves
  <2>5. SentTurns(outbox', turn')
    BY <1>1, <2>1, <2>2, <2>3, <2>4, SentTurnsKept DEF PastInv
  <2>6. turn' <= count'.changes
    <3>1. count'.changes = count.changes + 1 /\ count.changes \in Nat /\ turn <= count.changes
      BY <1>1, <2>3 DEF PastInv, TypeOK
    <3> QED BY <1>1, <2>2, <3>1
  <2>7. ASSUME NEW x \in Players
        PROVE  PastOK(x, queue'[x], answers'[x], page'[x], turn')
    <3>1. PastOK(x, queue[x], answers[x], page[x], turn) /\ page'[x].turn = page[x].turn
      BY <1>2 DEF PastInv
    <3>2. /\ page[x].turn \in Nat /\ queue[x] \in Seq(Message) /\ answers[x] \in SUBSET Message
      BY <1>1, PageType DEF TypeOK
    <3>3. /\ \A i \in TurnIn(queue[x]) : queue[x][i].turn \in Nat
          /\ \A k \in answers[x] : k.about = "turn" => k.turn \in Nat
      BY <3>2, TurnTypes, MessageType
    <3>4. PICK u \in Nat : u = turn + 1 /\ u = turn'
      BY <1>1, <2>2
    <3>5. /\ page[x].turn <= u
          /\ \A i \in TurnIn(queue[x]) : queue[x][i].turn <= u
          /\ \A k \in answers[x] : k.about = "turn" => k.turn <= u /\ Holder(k.turn) # x
      BY <1>1, <3>1, <3>2, <3>3, <3>4 DEF PastOK
    <3> QED BY <1>2, <3>1, <3>4, <3>5 DEF PastOK
  <2> QED BY <2>5, <2>6, <2>7 DEF PastInv
<1> QED BY <1>5, <1>6

LEMMA DealPast ==
    ASSUME TypeInv, PastInv, NEW p \in Players,
           Claim(p) \/ ClaimPaid(p) \/ Take(p) \/ \E d \in Deeds : Look(p, d) \/ Upgrade(p, d)
    PROVE  PastInv'
<1>1. TypeOK /\ count \in [changes : 0 .. MaxChanges, breaks : 0 .. MaxBreaks]
  BY DEF TypeInv, TypeOK
<1>2. count' \in [changes : 0 .. MaxChanges, breaks : 0 .. MaxBreaks]
  BY NextType DEF Next, TypeInv, TypeOK
<1>3. UNCHANGED <<turn, queue, answers>> /\ \A x \in Players : page'[x].turn = page[x].turn
  <2>1. CASE Claim(p) \/ ClaimPaid(p)
    BY <1>1, <2>1, ClaimPage, ClaimPaidPage DEF Claim, ClaimPaid, server, network
  <2>2. CASE Take(p)
    BY <1>1, <2>2, TakePage DEF Take
  <2>3. ASSUME NEW d \in Deeds, Look(p, d)
        PROVE  UNCHANGED <<turn, queue, answers>> /\ \A x \in Players : page'[x].turn = page[x].turn
    <3>1. RowsOf(d) # {} => RowOf(d).level \in Nat
      BY <1>1, FirstRow DEF TypeOK, Row
    <3>2. \A x \in Players : page'[x].turn = page[x].turn
      BY <1>1, <2>3, <3>1, LookPage
    <3> QED BY <2>3, <3>2 DEF Look, server, network
  <2>4. ASSUME NEW d \in Deeds, Upgrade(p, d)
        PROVE  UNCHANGED <<turn, queue, answers>> /\ \A x \in Players : page'[x].turn = page[x].turn
    <3>1. \A x \in Players : page'[x].turn = page[x].turn
      BY <1>1, <2>4, UpgradePage
    <3> QED BY <2>4, <3>1 DEF Upgrade
  <2> QED BY <2>1, <2>2, <2>3, <2>4
<1>4. \A x \in Players : PastOK(x, queue'[x], answers'[x], page'[x], turn)
  BY <1>3, PastPages
<1>5. ASSUME NEW m \in Message, m.about # "turn", Send(p, m)
      PROVE  PastInv'
  <2>1. outbox' = Append(outbox, m) /\ count' = [count EXCEPT !.changes = @ + 1]
    BY <1>5 DEF Send
  <2>2. count.changes <= count'.changes
    BY <1>1, <2>1
  <2> QED BY <1>1, <1>2, <1>3, <1>4, <1>5, <2>1, <2>2, PastKept
<1>6. ASSUME outbox' = outbox, count' = count
      PROVE  PastInv'
  <2>1. count.changes <= count'.changes
    BY <1>1, <1>6
  <2> QED BY <1>1, <1>2, <1>3, <1>4, <1>6, <2>1, PastKept
<1>7. CASE Claim(p) \/ ClaimPaid(p) \/ \E d \in Deeds : Look(p, d)
  <2>1. outbox' = outbox /\ count' = count
    BY <1>7 DEF Claim, ClaimPaid, Look, network, history
  <2> QED BY <1>6, <2>1
<1>8. CASE Take(p)
  <2>1. PICK d : d = page[p].deal
    OBVIOUS
  <2>2. PICK v \in Nat : Send(p, Sold(p, d, page[p].loads, v))
    BY <1>8, <2>1, TakeWrites
  <2>3. d \in Deeds /\ page[p].loads \in Nat
    BY <1>1, <1>8, <2>1, TakeWrites, PageType
  <2>4. PICK m \in Message : m.about # "turn" /\ Send(p, m)
    BY <2>2, <2>3, SoldIs, Constants
  <2> QED BY <1>5, <2>4
<1>9. ASSUME NEW d \in Deeds, Upgrade(p, d)
      PROVE  PastInv'
  <2>1. PICK v \in Nat : Send(p, Raised(p, d, page[p].loads, v))
    BY <1>9, UpgradeWrites
  <2>2. page[p].loads \in Nat
    BY <1>1, PageType
  <2>3. PICK m \in Message : m.about # "turn" /\ Send(p, m)
    BY <2>1, <2>2, RaisedIs, Constants
  <2> QED BY <1>5, <2>3
<1> QED BY <1>7, <1>8, <1>9

LEMMA NotifyPast ==
    ASSUME TypeInv, PastInv, NEW i \in DOMAIN outbox, Notify(i) \/ NotifyFails(i)
    PROVE  PastInv'
<1>1. /\ TypeOK /\ outbox \in Seq(Message) /\ turn \in Nat
      /\ count \in [changes : 0 .. MaxChanges, breaks : 0 .. MaxBreaks]
  BY DEF TypeInv, TypeOK
<1>2. PICK m \in Message : m = outbox[i]
  BY <1>1
<1>3. PICK told \in SUBSET Recipients(m) :
         /\ outbox' = RemoveAt(outbox, i)
         /\ queue' = [x \in Players |-> IF x \in told THEN Append(queue[x], m) ELSE queue[x]]
  <2>1. CASE Notify(i)
    <3>1. PICK told \in SUBSET Recipients(m) : told = Recipients(m)
      OBVIOUS
    <3> QED BY <1>2, <2>1, <3>1 DEF Notify, Sent
  <2>2. CASE NotifyFails(i)
    BY <1>2, <2>2 DEF NotifyFails
  <2> QED BY <2>1, <2>2
<1>4. turn' = turn /\ count' = count
  BY DEF Notify, NotifyFails, server
<1>5. \A x \in Players : page'[x].turn = page[x].turn
  <2>1. CASE Notify(i)
    BY <2>1 DEF Notify
  <2>2. CASE NotifyFails(i)
    <3>1. m.by \in Players
      BY MessageType
    <3>2. CASE ~Waiting(m)
      BY <1>2, <2>2, <3>2 DEF NotifyFails
    <3>3. CASE Waiting(m) /\ m.about = "turn"
      BY <1>1, <1>2, <2>2, <3>1, <3>3, FailsTurnPage
    <3>4. CASE Waiting(m) /\ m.about # "turn"
      BY <1>1, <1>2, <2>2, <3>1, <3>4, FailsDeedPage
    <3> QED BY <3>2, <3>3, <3>4
  <2> QED BY <2>1, <2>2
<1>6. \A x \in Players : answers'[x] = answers[x]
                      \/ (x = m.by /\ answers'[x] = answers[x] \cup {m})
  <2>1. answers \in [Players -> SUBSET Message]
    BY <1>1 DEF TypeOK
  <2>2. answers' = answers \/ answers' = [answers EXCEPT ![m.by] = @ \cup {m}]
    BY <1>2 DEF Notify, NotifyFails
  <2> QED BY <2>1, <2>2
<1>7. m.about = "turn" => m.turn <= turn /\ Holder(m.turn) # m.by
  BY <1>2 DEF PastInv, SentTurns, TurnIn
<1>8. ASSUME NEW x \in Players
      PROVE  PastOK(x, queue'[x], answers'[x], page'[x], turn)
  <2>1. PastOK(x, queue[x], answers[x], page[x], turn) /\ queue[x] \in Seq(Message)
    BY <1>1 DEF PastInv, TypeOK
  <2>2. page'[x].turn <= turn
    BY <1>5, <2>1 DEF PastOK
  <2>3. \A k \in answers'[x] : k.about = "turn" => k.turn <= turn /\ Holder(k.turn) # x
    BY <1>6, <1>7, <2>1 DEF PastOK
  <2>4. \A k \in TurnIn(Append(queue[x], m)) : Append(queue[x], m)[k].turn <= turn
    <3> DEFINE z == Append(queue[x], m)
    <3>1. \A k \in TurnIn(z) : \/ k \in TurnIn(queue[x]) /\ z[k] = queue[x][k]
                               \/ m.about = "turn" /\ z[k] = m
      BY <2>1, TurnInSent
    <3> HIDE DEF z
    <3>2. \A k \in TurnIn(z) : z[k].turn <= turn
      BY <1>7, <2>1, <3>1 DEF PastOK
    <3> QED BY <3>2 DEF z
  <2>5. queue'[x] = queue[x] \/ queue'[x] = Append(queue[x], m)
    BY <1>3
  <2>6. \A k \in TurnIn(queue'[x]) : queue'[x][k].turn <= turn
    BY <2>1, <2>4, <2>5 DEF PastOK
  <2> QED BY <2>2, <2>3, <2>6 DEF PastOK
<1>9. count.changes <= count'.changes
  BY <1>1, <1>4
<1> QED BY <1>1, <1>3, <1>4, <1>8, <1>9, PastKept

LEMMA HearPast ==
    ASSUME TypeInv, PastInv, NEW p \in Players, Deliver(p) \/ Answer(p)
    PROVE  PastInv'
<1>1. TypeOK /\ count \in [changes : 0 .. MaxChanges, breaks : 0 .. MaxBreaks]
  BY DEF TypeInv, TypeOK
<1>2. PastOK(p, queue[p], answers[p], page[p], turn)
  BY DEF PastInv
<1>3. CASE Deliver(p)
  <2>1. PICK m : m = Head(queue[p])
    OBVIOUS
  <2>2. /\ m \in Message /\ queue[p] \in Seq(Message) /\ queue[p] # <<>>
        /\ queue'[p] = Tail(queue[p])
        /\ \A x \in Players \ {p} : queue'[x] = queue[x] /\ page'[x] = page[x]
        /\ m.about = "turn" => page'[p].turn = m.turn
        /\ m.about # "turn" => page'[p].turn = page[p].turn
        /\ UNCHANGED <<turn, outbox, answers, count>>
    BY <1>1, <1>3, <2>1, DeliverIs DEF server, history
  <2>3. /\ \A k \in TurnIn(Tail(queue[p])) :
              k + 1 \in TurnIn(queue[p]) /\ Tail(queue[p])[k] = queue[p][k + 1]
        /\ m.about = "turn" => 1 \in TurnIn(queue[p]) /\ m = queue[p][1]
    BY <2>1, <2>2, TurnInTaken
  <2>4. PastOK(p, queue'[p], answers'[p], page'[p], turn)
    BY <1>2, <2>2, <2>3 DEF PastOK
  <2>5. \A x \in Players \ {p} : PastOK(x, queue'[x], answers'[x], page'[x], turn)
    BY <2>2, PastPages
  <2>6. \A x \in Players : PastOK(x, queue'[x], answers'[x], page'[x], turn)
    BY <2>4, <2>5
  <2>7. count.changes <= count'.changes
    BY <1>1, <2>2
  <2> QED BY <1>1, <2>2, <2>6, <2>7, PastKept
<1>4. CASE Answer(p)
  <2>1. PICK m \in answers[p] :
          /\ answers'[p] = answers[p] \ {m}
          /\ \A x \in Players \ {p} : answers'[x] = answers[x] /\ page'[x] = page[x]
          /\ m.about = "turn" => page'[p].turn = m.turn
          /\ m.about # "turn" => page'[p].turn = page[p].turn
          /\ UNCHANGED <<turn, outbox, queue, count>>
    BY <1>1, <1>4, AnswerIs DEF server, history
  <2>2. PastOK(p, queue'[p], answers'[p], page'[p], turn)
    BY <1>2, <2>1 DEF PastOK
  <2>3. \A x \in Players \ {p} : PastOK(x, queue'[x], answers'[x], page'[x], turn)
    BY <2>1, PastPages
  <2>4. \A x \in Players : PastOK(x, queue'[x], answers'[x], page'[x], turn)
    BY <2>2, <2>3
  <2>5. count.changes <= count'.changes
    BY <1>1, <2>1
  <2> QED BY <1>1, <2>1, <2>4, <2>5, PastKept
<1> QED BY <1>3, <1>4

LEMMA LoadPast ==
    ASSUME TypeInv, PastInv, NEW p \in Players,
           Leave(p) \/ Drop(p) \/ Load(p) \/ Disconnect(p)
    PROVE  PastInv'
<1>1. /\ TypeOK /\ queue \in [Players -> Seq(Message)] /\ answers \in [Players -> SUBSET Message]
      /\ count \in [changes : 0 .. MaxChanges, breaks : 0 .. MaxBreaks] /\ turn \in Nat
  BY DEF TypeInv, TypeOK
<1>2. outbox' = outbox /\ turn' = turn
  BY DEF Leave, Drop, Load, FetchTurn, FetchProperties, Connect, Disconnect, server, network
<1>3. count' = count \/ count' = [count EXCEPT !.breaks = @ + 1]
  BY DEF Leave, Drop, Load, FetchTurn, FetchProperties, Connect, Disconnect, history
<1>4. count' \in [changes : 0 .. MaxChanges, breaks : 0 .. MaxBreaks]
  BY NextType DEF Next, TypeInv, TypeOK
<1>5. count.changes <= count'.changes
  BY <1>1, <1>3
<1>6. \A x \in Players : queue'[x] = queue[x] \/ queue'[x] = <<>>
  BY <1>1 DEF Leave, Drop, Load, FetchTurn, FetchProperties, Connect, Disconnect, network
<1>7. \A x \in Players : answers'[x] = answers[x] \/ answers'[x] = {}
  BY <1>1 DEF Leave, Drop, Load, FetchTurn, FetchProperties, Connect, Disconnect, network
<1>8. \A x \in Players : page'[x].turn = page[x].turn \/ page'[x].turn = turn
  <2>1. CASE Leave(p)
    BY <1>1, <2>1, LeavePage
  <2>2. CASE Drop(p)
    BY <1>1, <2>2, DropPage
  <2>3. CASE FetchTurn(p)
    BY <1>1, <2>3, FetchTurnPage
  <2>4. CASE FetchProperties(p)
    BY <1>1, <2>4, FetchPropertiesPage
  <2>5. CASE Connect(p)
    BY <1>1, <2>5, ConnectPage
  <2>6. CASE Disconnect(p)
    BY <2>6 DEF Disconnect
  <2> QED BY <2>1, <2>2, <2>3, <2>4, <2>5, <2>6 DEF Load
<1>9. ASSUME NEW x \in Players
      PROVE  PastOK(x, queue'[x], answers'[x], page'[x], turn)
  <2>1. PastOK(x, queue[x], answers[x], page[x], turn) /\ TurnIn(<<>>) = {}
    BY DEF PastInv, TurnIn
  <2>2. page'[x].turn <= turn
    BY <1>1, <1>8, <2>1 DEF PastOK
  <2> QED BY <1>6, <1>7, <2>1, <2>2 DEF PastOK
<1> QED BY <1>1, <1>2, <1>4, <1>5, <1>9, PastKept

LEMMA InitPast == Init => PastInv
<1> SUFFICES ASSUME Init PROVE PastInv
  OBVIOUS
<1>1. /\ outbox = <<>> /\ turn = 0 /\ count.changes = 0
      /\ \A p \in Players : queue[p] = <<>> /\ answers[p] = {} /\ page[p].turn = 0
  BY DEF Init
<1>2. TurnIn(<<>>) = {}
  BY DEF TurnIn
<1> QED BY <1>1, <1>2 DEF PastInv, SentTurns, Rising, PastOK

LEMMA NextPast == TypeInv /\ PastInv /\ [Next]_vars => PastInv'
<1> SUFFICES ASSUME TypeInv, PastInv, [Next]_vars PROVE PastInv'
  OBVIOUS
<1>1. CASE UNCHANGED vars
  <2>1. UNCHANGED <<turn, outbox, queue, answers, page, count>>
    BY <1>1 DEF vars, server, network, history
  <2> QED BY <2>1 DEF PastInv
<1> QED BY <1>1, PassPast, DealPast, NotifyPast, HearPast, LoadPast DEF Next

-----------------------------------------------------------------------------
(* The start bonus, step by step. *)

LEMMA Turned ==
    ASSUME NEW s
    PROVE  /\ TurnIn(s) = {} <=> \A i \in DOMAIN s : s[i].about # "turn"
           /\ \A i \in DOMAIN s : s[i].about = "turn" => i \in TurnIn(s)
BY DEF TurnIn

\* The last claim was of an earlier turn than any that comes.
LEMMA ClaimIsOld ==
    ASSUME TypeInv, PastInv, NEW p \in Players, BonusOK(p, page[p], claimed[p], turn),
           NEW t \in Nat, page[p].turn < t, t <= turn
    PROVE  claimed[p] # t /\ (claimed[p] = MaxChanges + 1 \/ claimed[p] <= t)
<1>1. /\ turn \in Nat /\ count.changes \in 0 .. MaxChanges /\ turn <= count.changes
      /\ claimed[p] \in Nat /\ page[p].turn \in Nat /\ MaxChanges \in Nat
  BY Constants, PageType DEF TypeInv, TypeOK, PastInv
<1>2. t # MaxChanges + 1
  BY <1>1
<1>3. claimed[p] = MaxChanges + 1 \/ claimed[p] <= page[p].turn
  BY DEF BonusOK
<1> QED BY <1>1, <1>2, <1>3

\* The page changes in nothing that matters here, and messages about properties may
\* be sent; the queue may be lost.
LEMMA ClaimKept ==
    ASSUME NEW p, NEW o \in Seq(Message), NEW q, NEW A, NEW g, NEW h, NEW c, NEW t,
           ClaimOK(p, o, q, A, g, c, t), NEW r,
           r = o \/ \E m \in Message : m.about # "turn" /\ r = Append(o, m),
           NEW z, z = q \/ z = <<>>,
           h.at = g.at, h.turn = g.turn, h.loads = g.loads, h.passing = g.passing,
           h.first = g.first, h.claiming = g.claiming
    PROVE  ClaimOK(p, r, z, A, h, c, t)
<1>1. BonusOK(p, h, c, t)
  BY DEF ClaimOK, BonusOK
<1>2. ASSUME g.at = "live"
      PROVE  OrderOK(p, r, z, A, h, t)
  <2>1. OrderOK(p, o, q, A, g, t)
    BY <1>2 DEF ClaimOK
  <2>2. OrderOK(p, r, q, A, g, t)
    BY <2>1, OrderDealSent
  <2>3. OrderOK(p, r, z, A, g, t)
    BY <2>2, OrderDropped
  <2> QED BY <2>3, OrderKept
<1> QED BY <1>1, <1>2 DEF ClaimOK

\* A step of p alone, that passes no turn.
LEMMA ClaimsKept ==
    ASSUME TypeOK, ClaimsInv, NEW p \in Players, UNCHANGED <<turn, answers>>,
           outbox' = outbox \/ \E m \in Message : m.about # "turn" /\ outbox' = Append(outbox, m),
           \A x \in Players \ {p} :
              page'[x] = page[x] /\ queue'[x] = queue[x] /\ claimed'[x] = claimed[x],
           \A x \in Players : "claim" \notin missed'[x] => "claim" \notin missed[x],
           \/ /\ page'[p].at = page[p].at /\ page'[p].turn = page[p].turn
              /\ page'[p].loads = page[p].loads /\ page'[p].passing = page[p].passing
              /\ page'[p].first = page[p].first /\ page'[p].claiming = page[p].claiming
              /\ queue'[p] = queue[p] \/ queue'[p] = <<>>
              /\ claimed'[p] = claimed[p]
           \/ "claim" \notin missed'[p] =>
                 ClaimOK(p, outbox', queue'[p], answers'[p], page'[p], claimed'[p], turn)
    PROVE  ClaimsInv'
<1>1. outbox \in Seq(Message)
  BY DEF TypeOK
<1>2. ASSUME NEW x \in Players, "claim" \notin missed'[x]
      PROVE  ClaimOK(x, outbox', queue'[x], answers'[x], page'[x], claimed'[x], turn')
  <2>1. ClaimOK(x, outbox, queue[x], answers[x], page[x], claimed[x], turn)
    BY <1>2 DEF ClaimsInv
  <2>2. CASE /\ page'[x].at = page[x].at /\ page'[x].turn = page[x].turn
             /\ page'[x].loads = page[x].loads /\ page'[x].passing = page[x].passing
             /\ page'[x].first = page[x].first /\ page'[x].claiming = page[x].claiming
             /\ queue'[x] = queue[x] \/ queue'[x] = <<>>
             /\ claimed'[x] = claimed[x]
    <3>1. ClaimOK(x, outbox', queue'[x], answers[x], page'[x], claimed[x], turn)
      BY <1>1, <2>1, <2>2, ClaimKept
    <3> QED BY <2>2, <3>1
  <2>3. CASE x = p /\ ClaimOK(p, outbox', queue'[p], answers'[p], page'[p], claimed'[p], turn)
    BY <2>3
  <2> QED BY <1>2, <2>2, <2>3
<1> QED BY <1>2 DEF ClaimsInv

\* The turn is refused only to who is in doubt.
LEMMA PassClaims ==
    ASSUME TypeInv, RequestsInv, PastInv, ClaimsInv, NEW p \in Players, PassTurn(p)
    PROVE  ClaimsInv'
<1>1. TypeOK /\ outbox \in Seq(Message) /\ turn \in Nat
  BY DEF TypeInv, TypeOK
<1>2. /\ page' \in [Players -> Page]
      /\ \A x \in Players \ {p} : page'[x] = page[x]
      /\ page'[p].passing = (IF Holder(turn) = p THEN "asked" ELSE "failed")
      /\ page'[p].at = page[p].at /\ page'[p].loads = page[p].loads
      /\ page'[p].turn = page[p].turn /\ page'[p].first = page[p].first
      /\ page'[p].claiming = page[p].claiming
  BY <1>1, PassTurnPage
<1>3. /\ page[p].at = "live" /\ Holder(page[p].turn) = p /\ page[p].passing = "no"
      /\ UNCHANGED <<queue, answers, claimed>>
  BY DEF PassTurn, MyTurn
<1>4. \A x \in Players : missed[x] \subseteq missed'[x]
  BY <1>1, MissedStays
<1>5. "claim" \notin missed[p] =>
         page[p].turn = turn /\ OrderOK(p, outbox, queue[p], answers[p], page[p], turn)
  BY <1>3 DEF ClaimsInv, ClaimOK, BonusOK
<1>6. CASE Holder(turn) # p
  <2>1. UNCHANGED <<turn, outbox, missed>>
    BY <1>6 DEF PassTurn
  <2>2. "claim" \in missed'[p]
    BY <1>3, <1>5, <1>6, <2>1
  <2> QED BY <1>1, <1>2, <1>3, <2>1, <2>2, ClaimsKept
<1>7. CASE Holder(turn) = p
  <2> DEFINE m == [about |-> "turn", by |-> p, load |-> page[p].loads, turn |-> turn + 1]
  <2>1. m \in Message
    <3>1. turn + 1 \in Nat /\ page[p].loads \in Nat
      BY <1>1, PageType
    <3> QED BY <3>1, MessageMade
  <2>2. /\ Send(p, m) /\ turn' = turn + 1 /\ m.about = "turn" /\ m.by = p
        /\ m.load = page[p].loads /\ m.turn = turn + 1
    BY <1>7 DEF PassTurn
  <2> HIDE DEF m
  <2>3. outbox' = Append(outbox, m)
    BY <2>2 DEF Send
  <2>4. "claim" \notin missed'[p] => ~Overdue(p, "turn")
    BY <1>1, <1>3, <2>1, <2>2, SendMissed
  <2>5. ASSUME "claim" \notin missed'[p]
        PROVE  ClaimOK(p, outbox', queue'[p], answers'[p], page'[p], claimed'[p], turn')
    <3>1. /\ ClaimOK(p, outbox, queue[p], answers[p], page[p], claimed[p], turn)
          /\ page[p].turn = turn /\ OrderOK(p, outbox, queue[p], answers[p], page[p], turn)
      BY <1>4, <1>5, <2>5 DEF ClaimsInv
    <3>2. PageOK(p, outbox, queue[p], answers[p], page[p])
      BY DEF RequestsInv
    <3>3. \A k \in answers[p] : k.about # "turn"
      BY <1>3, <3>2 DEF PageOK, AnswersOK, Asking
    <3>4. TurnIn(queue[p]) = {} /\ \A i \in TurnIn(outbox) : outbox[i].by = p
      BY <2>4, <2>5 DEF Overdue, TurnIn
    <3>5. TurnIn(outbox) = {}
      <4> SUFFICES ASSUME NEW i \in TurnIn(outbox) PROVE FALSE
        OBVIOUS
      <4>1. outbox[i].by = p /\ outbox[i].load = page[p].loads
        BY <3>1, <3>4 DEF OrderOK
      <4>2. i \in DOMAIN outbox /\ outbox[i].about = "turn"
        BY DEF TurnIn
      <4>3. Asking(page[p], "turn")
        BY <3>2, <4>1, <4>2 DEF PageOK, SentOK
      <4> QED BY <1>3, <4>3 DEF Asking
    <3>6. page'[p] \in Page /\ page'[p].turn = turn /\ m.load = page'[p].loads
      BY <1>2, <2>2, <3>1
    <3>7. OrderOK(p, Append(outbox, m), queue[p], answers[p], page'[p], turn + 1)
      BY <1>1, <2>1, <2>2, <3>3, <3>4, <3>5, <3>6, OrderPassed
    <3>8. BonusOK(p, page'[p], claimed[p], turn')
      BY <1>2, <1>3, <1>7, <3>1 DEF ClaimOK, BonusOK
    <3> QED BY <1>3, <2>2, <2>3, <3>7, <3>8 DEF ClaimOK
  <2>6. ASSUME NEW x \in Players \ {p}, "claim" \notin missed'[x]
        PROVE  ClaimOK(x, outbox', queue'[x], answers'[x], page'[x], claimed'[x], turn')
    <3>1. /\ ClaimOK(x, outbox, queue[x], answers[x], page[x], claimed[x], turn)
          /\ PastOK(x, queue[x], answers[x], page[x], turn)
      BY <1>4, <2>6 DEF ClaimsInv, PastInv
    <3>2. Holder(turn) # x
      BY <1>7
    <3>3. BonusOK(x, page[x], claimed[x], turn')
      BY <3>1, <3>2 DEF ClaimOK, BonusOK
    <3>4. ASSUME page[x].at = "live"
          PROVE  OrderOK(x, outbox', queue[x], answers[x], page[x], turn')
      <4>1. OrderOK(x, outbox, queue[x], answers[x], page[x], turn) /\ SentTurns(outbox, turn)
        BY <3>1, <3>4 DEF ClaimOK, PastInv
      <4>2. queue[x] \in Seq(Message) /\ answers[x] \in SUBSET Message /\ page[x] \in Page
        BY <1>1 DEF TypeOK
      <4>3. OrderOK(x, Append(outbox, m), queue[x], answers[x], page[x], turn + 1)
        BY <1>1, <2>1, <2>2, <3>1, <3>2, <4>1, <4>2, OrderPassedOn
      <4> QED BY <2>2, <2>3, <4>3
    <3> QED BY <1>2, <1>3, <3>3, <3>4 DEF ClaimOK
  <2> QED BY <2>5, <2>6 DEF ClaimsInv
<1> QED BY <1>6, <1>7

LEMMA DealClaims ==
    ASSUME TypeInv, ClaimsInv, NEW p \in Players,
           Claim(p) \/ ClaimPaid(p) \/ Take(p) \/ \E d \in Deeds : Look(p, d) \/ Upgrade(p, d)
    PROVE  ClaimsInv'
<1>1. /\ TypeOK /\ claimed \in [Players -> Nat] /\ outbox \in Seq(Message) /\ page[p].turn \in Nat
      /\ missed \in [Players -> SUBSET (Deeds \cup {"turn", "claim"})]
      /\ page[p].claiming \in BOOLEAN /\ page[p].first \in BOOLEAN
  BY PageType DEF TypeInv, TypeOK
<1>2. \A x \in Players : "claim" \notin missed'[x] => "claim" \notin missed[x]
  BY MissedStays
<1>i. "claim" \notin missed[p] =>
         ClaimOK(p, outbox, queue[p], answers[p], page[p], claimed[p], turn)
  BY DEF ClaimsInv
<1>3. CASE Claim(p)
  <2>1. /\ \A x \in Players \ {p} : page'[x] = page[x]
        /\ page'[p].at = page[p].at /\ page'[p].turn = page[p].turn
        /\ page'[p].loads = page[p].loads /\ page'[p].passing = page[p].passing
        /\ page'[p].first = page[p].first /\ page'[p].claiming
    BY <1>1, <1>3, ClaimPage
  <2>2. /\ UNCHANGED <<turn, answers, queue, outbox, missed>> /\ page[p].first
        /\ claimed' = [claimed EXCEPT ![p] = page[p].turn]
    BY <1>3 DEF Claim, server, network
  <2>3. claimed'[p] = page[p].turn /\ \A x \in Players \ {p} : claimed'[x] = claimed[x]
    BY <1>1, <2>2
  <2>4. ASSUME "claim" \notin missed[p]
        PROVE  ClaimOK(p, outbox, queue[p], answers[p], page'[p], page[p].turn, turn)
    <3>1. BonusOK(p, page'[p], page[p].turn, turn)
      BY <1>1, <1>i, <2>1, <2>2, <2>4 DEF ClaimOK, BonusOK
    <3>2. page[p].at = "live" => OrderOK(p, outbox, queue[p], answers[p], page'[p], turn)
      BY <1>i, <2>1, <2>4, OrderKept DEF ClaimOK
    <3> QED BY <2>1, <3>1, <3>2 DEF ClaimOK
  <2> QED BY <1>1, <1>2, <2>1, <2>2, <2>3, <2>4, ClaimsKept
<1>4. CASE ClaimPaid(p)
  <2>1. /\ \A x \in Players \ {p} : page'[x] = page[x]
        /\ page'[p].at = page[p].at /\ page'[p].turn = page[p].turn
        /\ page'[p].loads = page[p].loads /\ page'[p].passing = page[p].passing
        /\ page'[p].first = FALSE /\ page'[p].claiming = FALSE
    BY <1>1, <1>4, ClaimPaidPage
  <2>2. UNCHANGED <<turn, answers, queue, outbox, claimed>>
    BY <1>4 DEF ClaimPaid, server, network
  <2>3. "claim" \notin missed'[p] => page[p].turn = claimed[p]
    <3>1. missed' = IF page[p].turn = claimed[p] THEN missed
                    ELSE [missed EXCEPT ![p] = @ \cup {"claim"}]
      BY <1>4 DEF ClaimPaid
    <3> QED BY <1>1, <3>1
  <2>4. ASSUME "claim" \notin missed'[p]
        PROVE  ClaimOK(p, outbox, queue[p], answers[p], page'[p], claimed[p], turn)
    <3>1. ClaimOK(p, outbox, queue[p], answers[p], page[p], claimed[p], turn)
      BY <1>2, <1>i, <2>4
    <3>2. BonusOK(p, page'[p], claimed[p], turn)
      BY <1>1, <2>1, <2>3, <2>4, <3>1 DEF ClaimOK, BonusOK
    <3>3. page[p].at = "live" => OrderOK(p, outbox, queue[p], answers[p], page'[p], turn)
      BY <2>1, <3>1, OrderKept DEF ClaimOK
    <3> QED BY <2>1, <3>2, <3>3 DEF ClaimOK
  <2> QED BY <1>1, <1>2, <2>1, <2>2, <2>4, ClaimsKept
<1>5. CASE Take(p)
  <2>1. PICK d : d = page[p].deal
    OBVIOUS
  <2>2. PICK v \in Nat : Send(p, Sold(p, d, page[p].loads, v))
    BY <1>5, <2>1, TakeWrites
  <2>3. d \in Deeds /\ page[p].loads \in Nat
    BY <1>1, <1>5, <2>1, TakeWrites, PageType
  <2>4. PICK m \in Message : m.about # "turn" /\ Send(p, m)
    BY <2>2, <2>3, SoldIs, Constants
  <2>5. outbox' = Append(outbox, m)
    BY <2>4 DEF Send
  <2>6. /\ \A x \in Players \ {p} : page'[x] = page[x]
        /\ page'[p].at = page[p].at /\ page'[p].turn = page[p].turn
        /\ page'[p].loads = page[p].loads /\ page'[p].passing = page[p].passing
        /\ page'[p].first = page[p].first /\ page'[p].claiming = page[p].claiming
    BY <1>1, <1>5, TakePage
  <2>7. UNCHANGED <<turn, queue, answers, claimed>>
    BY <1>5 DEF Take
  <2> QED BY <1>1, <1>2, <2>4, <2>5, <2>6, <2>7, ClaimsKept
<1>6. ASSUME NEW d \in Deeds, Look(p, d)
      PROVE  ClaimsInv'
  <2>1. RowsOf(d) # {} => RowOf(d).level \in Nat
    BY <1>1, FirstRow DEF TypeOK, Row
  <2>2. /\ \A x \in Players \ {p} : page'[x] = page[x]
        /\ page'[p].at = page[p].at /\ page'[p].turn = page[p].turn
        /\ page'[p].loads = page[p].loads /\ page'[p].passing = page[p].passing
        /\ page'[p].first = page[p].first /\ page'[p].claiming = page[p].claiming
    BY <1>1, <1>6, <2>1, LookPage
  <2>3. UNCHANGED <<turn, queue, answers, outbox, claimed>>
    BY <1>6 DEF Look, server, network, history
  <2> QED BY <1>1, <1>2, <2>2, <2>3, ClaimsKept
<1>7. ASSUME NEW d \in Deeds, Upgrade(p, d)
      PROVE  ClaimsInv'
  <2>1. PICK v \in Nat : Send(p, Raised(p, d, page[p].loads, v))
    BY <1>7, UpgradeWrites
  <2>2. page[p].loads \in Nat
    BY <1>1, PageType
  <2>3. PICK m \in Message : m.about # "turn" /\ Send(p, m)
    BY <2>1, <2>2, RaisedIs, Constants
  <2>4. outbox' = Append(outbox, m)
    BY <2>3 DEF Send
  <2>5. /\ \A x \in Players \ {p} : page'[x] = page[x]
        /\ page'[p].at = page[p].at /\ page'[p].turn = page[p].turn
        /\ page'[p].loads = page[p].loads /\ page'[p].passing = page[p].passing
        /\ page'[p].first = page[p].first /\ page'[p].claiming = page[p].claiming
    BY <1>1, <1>7, UpgradePage
  <2>6. UNCHANGED <<turn, queue, answers, claimed>>
    BY <1>7 DEF Upgrade
  <2> QED BY <1>1, <1>2, <2>3, <2>4, <2>5, <2>6, ClaimsKept
<1> QED BY <1>3, <1>4, <1>5, <1>6, <1>7

LEMMA NotifyClaims ==
    ASSUME TypeInv, RequestsInv, PastInv, ClaimsInv, NEW i \in DOMAIN outbox, Notify(i)
    PROVE  ClaimsInv'
<1>1. TypeOK /\ outbox \in Seq(Message)
  BY DEF TypeInv, TypeOK
<1>2. PICK m \in Message : m = outbox[i]
  BY <1>1
<1>3. PICK told \in SUBSET Players : told = Recipients(m)
  BY DEF Recipients
<1>4. /\ outbox' = RemoveAt(outbox, i) /\ Sent(i, told) /\ UNCHANGED <<turn, page, claimed>>
      /\ queue' = [x \in Players |-> IF x \in told THEN Append(queue[x], m) ELSE queue[x]]
      /\ answers' = IF Waiting(m) THEN [answers EXCEPT ![m.by] = answers[m.by] \cup {m}]
                                  ELSE answers
  BY <1>2, <1>3 DEF Notify, Sent, server
<1>5. \A x \in told : page[x].at = "live" /\ x # m.by
  BY <1>3, ToldAreLive
<1>6. ASSUME NEW x \in Players
      PROVE  /\ answers'[x] = answers[x] \/ (x = m.by /\ Waiting(m) /\ answers'[x] = answers[x] \cup {m})
             /\ x = m.by /\ Waiting(m) => answers'[x] = answers[x] \cup {m}
  <2>1. answers \in [Players -> SUBSET Message]
    BY <1>1 DEF TypeOK
  <2>2. m.by \in Players
    BY MessageType
  <2> QED BY <1>4, <2>1, <2>2
<1>7. ASSUME NEW x \in Players, "claim" \notin missed'[x], page[x].at = "live"
      PROVE  OrderOK(x, outbox', queue'[x], answers'[x], page[x], turn)
  <2>1. /\ missed[x] \subseteq missed'[x]
        /\ m.about = "turn" =>
              /\ \A j \in DOMAIN outbox : outbox[j].about = m.about => i <= j
              /\ x = m.by \/ (x \in told /\ x \notin Exposed(m.about)) \/ Holder(page[x].turn) # x
    BY <1>1, <1>2, <1>4, <1>7, SentMissed
  <2>2. /\ BonusOK(x, page[x], claimed[x], turn)
        /\ OrderOK(x, outbox, queue[x], answers[x], page[x], turn)
    BY <1>7, <2>1 DEF ClaimsInv, ClaimOK
  <2>3. PageOK(x, outbox, queue[x], answers[x], page[x])
    BY DEF RequestsInv
  <2>4. queue[x] \in Seq(Message) /\ Rising(outbox)
    BY <1>1 DEF TypeOK, PastInv, SentTurns
  <2>5. OrderOK(x, RemoveAt(outbox, i), queue[x], answers[x], page[x], turn)
    BY <1>1, <2>2, OrderLeaves
  <2>6. CASE m.about # "turn"
    <3>1. queue'[x] = queue[x] \/ queue'[x] = Append(queue[x], m)
      BY <1>4
    <3>2. \A k \in answers'[x] : k.about = "turn" => k \in answers[x]
      BY <1>6, <2>6
    <3>3. OrderOK(x, RemoveAt(outbox, i), queue'[x], answers[x], page[x], turn)
      BY <2>4, <2>5, <2>6, <3>1, OrderDealQueued
    <3>4. OrderOK(x, RemoveAt(outbox, i), queue'[x], answers'[x], page[x], turn)
      BY <3>2, <3>3, OrderAnswers
    <3> QED BY <1>4, <3>4
  <2>7. CASE m.about = "turn" /\ x # m.by
    <3>1. answers'[x] = answers[x]
      BY <1>6, <2>7
    <3>2. CASE x \notin told
      BY <1>4, <2>5, <3>1, <3>2
    <3>3. CASE x \in told
      <4>1. page[x].passing # "asked"
        BY <2>1, <2>2, <2>7 DEF Exposed, Awaits, BonusOK
      <4>2. i \in TurnIn(outbox) /\ \A j \in TurnIn(outbox) : i <= j
        BY <1>2, <2>1, <2>7 DEF TurnIn
      <4>3. OrderOK(x, RemoveAt(outbox, i), Append(queue[x], m), answers[x], page[x], turn)
        BY <1>1, <1>2, <2>2, <2>4, <2>7, <4>1, <4>2, OrderTold
      <4> QED BY <1>4, <3>1, <3>3, <4>3
    <3> QED BY <3>2, <3>3
  <2>8. CASE m.about = "turn" /\ x = m.by
    <3>1. i \in TurnIn(outbox) /\ \A j \in TurnIn(outbox) : i <= j
      BY <1>2, <2>1, <2>8 DEF TurnIn
    <3>2. OrderOK(x, RemoveAt(outbox, i), queue[x], answers[x] \cup {m}, page[x], turn)
      BY <1>1, <1>2, <2>2, <2>4, <3>1, OrderAnswered
    <3>3. queue'[x] = queue[x]
      BY <1>4, <1>5, <2>8
    <3> QED BY <1>4, <1>6, <2>5, <3>2, <3>3
  <2> QED BY <2>6, <2>7, <2>8
<1>8. ASSUME NEW x \in Players, "claim" \notin missed'[x]
      PROVE  ClaimOK(x, outbox', queue'[x], answers'[x], page'[x], claimed'[x], turn')
  <2>1. missed[x] \subseteq missed'[x]
    BY <1>1, <1>2, <1>4, SentMissed
  <2>2. BonusOK(x, page[x], claimed[x], turn)
    BY <1>8, <2>1 DEF ClaimsInv, ClaimOK
  <2> QED BY <1>4, <1>7, <1>8, <2>2 DEF ClaimOK
<1> QED BY <1>8 DEF ClaimsInv

LEMMA NotifyFailsClaims ==
    ASSUME TypeInv, RequestsInv, PastInv, ClaimsInv, NEW i \in DOMAIN outbox, NotifyFails(i)
    PROVE  ClaimsInv'
<1>1. TypeOK /\ outbox \in Seq(Message)
  BY DEF TypeInv, TypeOK
<1>2. PICK m \in Message : m = outbox[i]
  BY <1>1
<1>3. PICK told \in SUBSET Recipients(m) :
         /\ outbox' = RemoveAt(outbox, i)
         /\ queue' = [x \in Players |-> IF x \in told THEN Append(queue[x], m) ELSE queue[x]]
         /\ missed' = [x \in Players |-> Missing(x, {m.about}) \cup Doubt(i)]
  BY <1>2 DEF NotifyFails
<1>4. UNCHANGED <<turn, answers, claimed>>
  BY DEF NotifyFails, server
<1>5. /\ \A x \in Players : missed[x] \subseteq missed'[x]
      /\ m.about = "turn" => \A x \in Players : "claim" \notin missed'[x] =>
            /\ \A j \in DOMAIN outbox : outbox[j].about = m.about => i <= j
            /\ Holder(page[x].turn) # x
  <2>1. \A x \in Players : m.about \in missed'[x] /\ missed[x] \subseteq missed'[x]
    BY <1>1, <1>2, <1>3, FailsMissed
  <2>2. ASSUME m.about = "turn", NEW x \in Players, "claim" \notin missed'[x]
        PROVE  /\ \A j \in DOMAIN outbox : outbox[j].about = m.about => i <= j
               /\ Holder(page[x].turn) # x
    <3> DEFINE w == Missing(x, {m.about})  v == Doubt(i)
    <3>1. missed'[x] = w \cup v
      BY <1>3
    <3>2. "claim" \notin w => Holder(page[x].turn) # x
      BY <2>2 DEF Missing
    <3>3. "claim" \notin v => \A j \in DOMAIN outbox : outbox[j].about = m.about => i <= j
      <4>1. "claim" \notin v => ~Overtakes(i)
        BY <1>2, <2>2 DEF Doubt
      <4>2. Len(outbox) \in Nat /\ DOMAIN outbox = 1 .. Len(outbox)
        BY <1>1
      <4>3. ~Overtakes(i) => \A j \in DOMAIN outbox : outbox[j].about = m.about => i <= j
        BY <1>2, <4>2 DEF Overtakes
      <4> QED BY <4>1, <4>3
    <3> HIDE DEF w, v
    <3> QED BY <2>2, <3>1, <3>2, <3>3
  <2> QED BY <2>1, <2>2
<1>6. PICK p \in Players : p = m.by
  BY MessageType
<1>7. \A x \in told : page[x].at = "live" /\ x # p
  BY <1>3, <1>6, ToldAreLive
<1>8. ASSUME NEW x \in Players, "claim" \notin missed'[x]
      PROVE  ClaimOK(x, outbox', queue'[x], answers'[x], page'[x], claimed'[x], turn')
  <2>1. ClaimOK(x, outbox, queue[x], answers[x], page[x], claimed[x], turn)
    BY <1>5, <1>8 DEF ClaimsInv
  <2>2. PageOK(x, outbox, queue[x], answers[x], page[x])
    BY DEF RequestsInv
  <2>3. queue[x] \in Seq(Message) /\ Rising(outbox)
    BY <1>1 DEF TypeOK, PastInv, SentTurns
  <2>4. /\ page'[x].at = page[x].at /\ page'[x].turn = page[x].turn
        /\ page'[x].loads = page[x].loads /\ page'[x].passing = page[x].passing
        /\ page'[x].first = page[x].first /\ page'[x].claiming = page[x].claiming
    <3>1. CASE ~Waiting(m) \/ (m.about = "turn" /\ x # p)
      <4>1. ~Waiting(m) => page' = page
        BY <1>2 DEF NotifyFails
      <4>2. Waiting(m) /\ m.about = "turn" /\ x # p => page'[x] = page[x]
        BY <1>1, <1>2, <1>6, FailsTurnPage
      <4> QED BY <3>1, <4>1, <4>2
    <3>2. CASE Waiting(m) /\ m.about = "turn" /\ x = p
      <4>1. Asking(page[x], "turn")
        BY <1>2, <1>6, <2>2, <3>2 DEF PageOK, SentOK, Waiting
      <4>2. Holder(page[x].turn) = x
        BY <2>1, <4>1 DEF ClaimOK, BonusOK, Asking
      <4> QED BY <1>5, <1>8, <3>2, <4>2
    <3>3. CASE Waiting(m) /\ m.about # "turn"
      BY <1>1, <1>2, <1>6, <3>3, FailsDeedPage
    <3> QED BY <3>1, <3>2, <3>3
  <2>5. ASSUME page[x].at = "live"
        PROVE  OrderOK(x, RemoveAt(outbox, i), queue'[x], answers[x], page[x], turn)
    <3>1. OrderOK(x, outbox, queue[x], answers[x], page[x], turn)
      BY <2>1, <2>5 DEF ClaimOK
    <3>2. OrderOK(x, RemoveAt(outbox, i), queue[x], answers[x], page[x], turn)
      BY <1>1, <3>1, OrderLeaves
    <3>3. CASE x \notin told
      BY <1>3, <3>2, <3>3
    <3>4. CASE m.about # "turn"
      <4>1. queue'[x] = queue[x] \/ queue'[x] = Append(queue[x], m)
        BY <1>3
      <4> QED BY <2>3, <3>2, <3>4, <4>1, OrderDealQueued
    <3>5. CASE x \in told /\ m.about = "turn"
      <4>1. page[x].passing # "asked"
        BY <1>5, <1>8, <2>1, <3>5 DEF ClaimOK, BonusOK
      <4>2. i \in TurnIn(outbox) /\ \A j \in TurnIn(outbox) : i <= j
        BY <1>2, <1>5, <1>8, <3>5 DEF TurnIn
      <4>3. m.by # x
        BY <1>6, <1>7, <3>5
      <4>4. OrderOK(x, RemoveAt(outbox, i), Append(queue[x], m), answers[x], page[x], turn)
        BY <1>1, <1>2, <2>3, <3>1, <4>1, <4>2, <4>3, OrderTold
      <4> QED BY <1>3, <3>5, <4>4
    <3> QED BY <3>3, <3>4, <3>5
  <2>6. page[x].at = "live" => OrderOK(x, RemoveAt(outbox, i), queue'[x], answers[x], page'[x], turn)
    BY <2>4, <2>5, OrderKept
  <2>7. BonusOK(x, page'[x], claimed[x], turn)
    BY <2>1, <2>4 DEF ClaimOK, BonusOK
  <2> QED BY <1>3, <1>4, <2>4, <2>6, <2>7 DEF ClaimOK
<1> QED BY <1>8 DEF ClaimsInv

LEMMA HearClaims ==
    ASSUME TypeInv, RequestsInv, PastInv, ClaimsInv, NEW p \in Players, Deliver(p) \/ Answer(p)
    PROVE  ClaimsInv'
<1>1. /\ TypeOK /\ turn \in Nat /\ page[p].first \in BOOLEAN /\ page[p].claiming \in BOOLEAN
      /\ queue \in [Players -> Seq(Message)] /\ answers \in [Players -> SUBSET Message]
  BY PageType DEF TypeInv, TypeOK
<1>2. PageOK(p, outbox, queue[p], answers[p], page[p]) /\ PastOK(p, queue[p], answers[p], page[p], turn)
  BY DEF RequestsInv, PastInv
<1>3. "claim" \notin missed[p] =>
         ClaimOK(p, outbox, queue[p], answers[p], page[p], claimed[p], turn)
  BY DEF ClaimsInv
<1>4. ASSUME UNCHANGED <<turn, outbox, claimed, missed>>,
             \A x \in Players \ {p} : /\ page'[x] = page[x] /\ queue'[x] = queue[x]
                                      /\ answers'[x] = answers[x],
             "claim" \notin missed[p] =>
                 ClaimOK(p, outbox, queue'[p], answers'[p], page'[p], claimed[p], turn)
      PROVE  ClaimsInv'
  <2>1. ASSUME NEW x \in Players, "claim" \notin missed'[x]
        PROVE  ClaimOK(x, outbox', queue'[x], answers'[x], page'[x], claimed'[x], turn')
    <3>1. CASE x = p
      BY <1>4, <2>1, <3>1
    <3>2. CASE x # p
      <4>1. ClaimOK(x, outbox, queue[x], answers[x], page[x], claimed[x], turn)
        BY <1>4, <2>1 DEF ClaimsInv
      <4> QED BY <1>4, <3>2, <4>1
    <3> QED BY <3>1, <3>2
  <2> QED BY <2>1 DEF ClaimsInv
<1>5. CASE Deliver(p)
  <2>1. PICK m : m = Head(queue[p])
    OBVIOUS
  <2>2. /\ m \in Message /\ queue[p] \in Seq(Message) /\ queue[p] # <<>>
        /\ queue'[p] = Tail(queue[p])
        /\ \A x \in Players \ {p} : queue'[x] = queue[x] /\ page'[x] = page[x]
        /\ page'[p].at = page[p].at /\ page'[p].passing = page[p].passing
        /\ page'[p].loads = page[p].loads /\ page'[p].claiming = page[p].claiming
        /\ m.about = "turn" => /\ page'[p].turn = m.turn /\ m.turn \in Nat
                               /\ page'[p].first = (page[p].first \/ Holder(m.turn) = p)
        /\ m.about # "turn" => page'[p].turn = page[p].turn /\ page'[p].first = page[p].first
        /\ UNCHANGED <<turn, outbox, answers, missed, claimed>>
    BY <1>1, <1>5, <2>1, DeliverIs DEF server, history
  <2>3. page[p].at = "live"
    BY <1>2, <2>2 DEF PageOK, AwayOK
  <2>4. ASSUME "claim" \notin missed[p]
        PROVE  ClaimOK(p, outbox, queue'[p], answers[p], page'[p], claimed[p], turn)
    <3>1. /\ BonusOK(p, page[p], claimed[p], turn)
          /\ OrderOK(p, outbox, queue[p], answers[p], page[p], turn)
      BY <1>3, <2>3, <2>4 DEF ClaimOK
    <3>2. m.about = "turn" =>
             /\ 1 \in TurnIn(queue[p]) /\ m = queue[p][1]
             /\ page[p].turn < m.turn /\ (Holder(m.turn) = p => m.turn = turn)
             /\ page[p].passing # "asked" /\ m.turn <= turn
      <4>1. m.about = "turn" => 1 \in TurnIn(queue[p]) /\ m = queue[p][1]
        BY <2>1, <2>2, TurnInTaken
      <4> QED BY <1>2, <3>1, <4>1 DEF OrderOK, PastOK
    <3>3. m.about = "turn" => \A k \in answers[p] : k.about # "turn"
      BY <1>2, <3>2 DEF PageOK, AnswersOK, Asking
    <3>4. OrderOK(p, outbox, Tail(queue[p]), answers[p], page'[p], turn)
      BY <2>1, <2>2, <3>1, <3>3, OrderTaken
    <3>5. CASE m.about # "turn"
      <4>1. BonusOK(p, page'[p], claimed[p], turn)
        BY <2>2, <3>1, <3>5 DEF BonusOK
      <4> QED BY <2>2, <3>4, <4>1 DEF ClaimOK
    <3>6. CASE m.about = "turn"
      <4>1. claimed[p] # m.turn /\ (claimed[p] = MaxChanges + 1 \/ claimed[p] <= m.turn)
        BY <2>2, <3>1, <3>2, <3>6, ClaimIsOld
      <4>2. Holder(m.turn) = p => page'[p].first
        BY <2>2, <3>6
      <4>3. BonusOK(p, page'[p], claimed[p], turn)
        BY <2>2, <3>2, <3>6, <4>1, <4>2 DEF BonusOK
      <4> QED BY <2>2, <3>4, <4>3 DEF ClaimOK
    <3> QED BY <3>5, <3>6
  <2>5. /\ \A x \in Players \ {p} : /\ page'[x] = page[x] /\ queue'[x] = queue[x]
                                    /\ answers'[x] = answers[x]
        /\ answers'[p] = answers[p]
    BY <2>2
  <2> QED BY <1>4, <2>2, <2>4, <2>5
<1>6. CASE Answer(p)
  <2>1. PICK m \in answers[p] :
          /\ m \in Message /\ answers'[p] = answers[p] \ {m}
          /\ \A x \in Players \ {p} : answers'[x] = answers[x] /\ page'[x] = page[x]
          /\ page'[p].at = page[p].at /\ page'[p].loads = page[p].loads
          /\ page'[p].first = page[p].first /\ page'[p].claiming = page[p].claiming
          /\ m.about = "turn" => page'[p].turn = m.turn /\ page'[p].passing = "no"
          /\ m.about # "turn" => /\ page'[p].turn = page[p].turn
                                 /\ page'[p].passing = page[p].passing
          /\ UNCHANGED <<turn, outbox, queue, missed, claimed>>
    BY <1>1, <1>6, AnswerIs DEF server, history
  <2>2. page[p].at = "live"
    BY <1>2, <2>1 DEF PageOK, AwayOK
  <2>3. ASSUME "claim" \notin missed[p]
        PROVE  ClaimOK(p, outbox, queue[p], answers'[p], page'[p], claimed[p], turn)
    <3>1. /\ BonusOK(p, page[p], claimed[p], turn)
          /\ OrderOK(p, outbox, queue[p], answers[p], page[p], turn)
      BY <1>3, <2>2, <2>3 DEF ClaimOK
    <3>2. CASE m.about # "turn"
      <4>1. OrderOK(p, outbox, queue[p], answers'[p], page[p], turn)
        BY <2>1, <3>1, OrderAnswers
      <4>2. OrderOK(p, outbox, queue[p], answers'[p], page'[p], turn)
        BY <2>1, <3>2, <4>1, OrderKept
      <4>3. BonusOK(p, page'[p], claimed[p], turn)
        BY <2>1, <3>1, <3>2 DEF BonusOK
      <4> QED BY <4>2, <4>3 DEF ClaimOK
    <3>3. CASE m.about = "turn"
      <4>1. /\ page[p].passing = "asked" /\ \A k \in answers[p] : k.about = "turn" => k = m
            /\ page[p].turn < m.turn /\ m.turn <= turn /\ Holder(m.turn) # p /\ m.turn \in Nat
        BY <1>2, <2>1, <3>1, <3>3, MessageType DEF PageOK, AnswersOK, Asking, OrderOK, PastOK
      <4>2. OrderOK(p, outbox, queue[p], answers[p] \ {m}, page'[p], turn)
        BY <2>1, <3>1, <3>3, <4>1, OrderAnswerTaken
      <4>3. claimed[p] = MaxChanges + 1 \/ claimed[p] <= m.turn
        BY <3>1, <4>1, ClaimIsOld
      <4>4. BonusOK(p, page'[p], claimed[p], turn)
        BY <2>1, <3>3, <4>1, <4>3 DEF BonusOK
      <4> QED BY <2>1, <4>2, <4>4 DEF ClaimOK
    <3> QED BY <3>2, <3>3
  <2>4. /\ \A x \in Players \ {p} : /\ page'[x] = page[x] /\ queue'[x] = queue[x]
                                    /\ answers'[x] = answers[x]
        /\ queue'[p] = queue[p]
    BY <2>1
  <2> QED BY <1>4, <2>1, <2>3, <2>4
<1> QED BY <1>5, <1>6

LEMMA LoadClaims ==
    ASSUME TypeInv, RequestsInv, PastInv, ClaimsInv, NEW p \in Players,
           Leave(p) \/ Drop(p) \/ Load(p) \/ Disconnect(p)
    PROVE  ClaimsInv'
<1>1. /\ TypeOK /\ queue \in [Players -> Seq(Message)] /\ answers \in [Players -> SUBSET Message]
      /\ missed \in [Players -> SUBSET (Deeds \cup {"turn", "claim"})]
      /\ turn \in Nat /\ page[p].turn \in Nat
      /\ page[p].first \in BOOLEAN /\ page[p].claiming \in BOOLEAN
  BY PageType DEF TypeInv, TypeOK
<1>2. PageOK(p, outbox, queue[p], answers[p], page[p]) /\ PastOK(p, queue[p], answers[p], page[p], turn)
  BY DEF RequestsInv, PastInv
<1>3. "claim" \notin missed[p] =>
         ClaimOK(p, outbox, queue[p], answers[p], page[p], claimed[p], turn)
  BY DEF ClaimsInv
<1>4. ASSUME UNCHANGED <<turn, outbox, claimed>>,
             \A x \in Players \ {p} : /\ page'[x] = page[x] /\ queue'[x] = queue[x]
                                      /\ answers'[x] = answers[x]
                                      /\ missed[x] \subseteq missed'[x],
             "claim" \notin missed'[p] =>
                 ClaimOK(p, outbox, queue'[p], answers'[p], page'[p], claimed[p], turn)
      PROVE  ClaimsInv'
  <2>1. ASSUME NEW x \in Players, "claim" \notin missed'[x]
        PROVE  ClaimOK(x, outbox', queue'[x], answers'[x], page'[x], claimed'[x], turn')
    <3>1. CASE x = p
      BY <1>4, <2>1, <3>1
    <3>2. CASE x # p
      <4>1. ClaimOK(x, outbox, queue[x], answers[x], page[x], claimed[x], turn)
        BY <1>4, <2>1, <3>2 DEF ClaimsInv
      <4> QED BY <1>4, <3>2, <4>1
    <3> QED BY <3>1, <3>2
  <2> QED BY <2>1 DEF ClaimsInv
<1>5. CASE Leave(p)
  <2>1. /\ \A x \in Players \ {p} : page'[x] = page[x]
        /\ page'[p].at = "away" /\ page'[p].passing = "no" /\ page'[p].claiming = FALSE
        /\ page'[p].turn = page[p].turn /\ page'[p].first = page[p].first
    BY <1>1, <1>5, LeavePage
  <2>2. /\ queue' = [queue EXCEPT ![p] = <<>>] /\ answers' = [answers EXCEPT ![p] = {}]
        /\ UNCHANGED <<turn, outbox, claimed>>
    BY <1>5 DEF Leave, server
  <2>3. \A x \in Players : missed[x] \subseteq missed'[x]
    BY <1>5, MissedStays
  <2>4. "claim" \notin missed'[p] => page[p].passing = "no" /\ ~page[p].claiming
    <3> DEFINE w == Missing(p, {queue[p][i].about : i \in DOMAIN queue[p]})
               v == w \cup (IF page[p].passing # "no" \/ page[p].claiming THEN {"claim"} ELSE {})
    <3>1. missed' = [missed EXCEPT ![p] = v]
      BY <1>5 DEF Leave
    <3> HIDE DEF w
    <3>2. page[p].passing # "no" \/ page[p].claiming => "claim" \in v
      OBVIOUS
    <3> HIDE DEF v
    <3> QED BY <1>1, <3>1, <3>2
  <2>5. ASSUME "claim" \notin missed'[p]
        PROVE  BonusOK(p, page'[p], claimed[p], turn)
    <3>1. BonusOK(p, page[p], claimed[p], turn)
      BY <1>3, <2>3, <2>5 DEF ClaimOK
    <3> QED BY <1>1, <2>1, <2>4, <2>5, <3>1 DEF BonusOK
  <2>6. "claim" \notin missed'[p] =>
            ClaimOK(p, outbox, queue'[p], answers'[p], page'[p], claimed[p], turn)
    BY <2>1, <2>5 DEF ClaimOK
  <2>7. \A x \in Players \ {p} : queue'[x] = queue[x] /\ answers'[x] = answers[x]
    BY <1>1, <2>2
  <2> QED BY <1>4, <2>1, <2>2, <2>3, <2>6, <2>7
<1>6. CASE Drop(p)
  <2>1. /\ \A x \in Players \ {p} : page'[x] = page[x]
        /\ page'[p].at = page[p].at /\ page'[p].turn = page[p].turn
        /\ page'[p].loads = page[p].loads /\ page'[p].passing = page[p].passing
        /\ page'[p].first = page[p].first /\ page'[p].claiming = page[p].claiming
    BY <1>1, <1>6, DropPage
  <2>2. queue' = [queue EXCEPT ![p] = <<>>] /\ UNCHANGED <<turn, outbox, answers, claimed>>
    BY <1>6 DEF Drop, server
  <2>3. queue'[p] = <<>> /\ \A x \in Players \ {p} : queue'[x] = queue[x]
    BY <1>1, <2>2
  <2>4. \A x \in Players : "claim" \notin missed'[x] => "claim" \notin missed[x]
    BY <1>6, MissedStays
  <2> QED BY <1>1, <2>1, <2>2, <2>3, <2>4, ClaimsKept
<1>7. CASE FetchTurn(p)
  <2>1. /\ \A x \in Players \ {p} : page'[x] = page[x]
        /\ page'[p].at = "turn" /\ page'[p].turn = turn
        /\ page'[p].first = (page[p].first \/ (Holder(turn) = p /\ Holder(page[p].turn) # p))
        /\ page'[p].passing = page[p].passing /\ page'[p].claiming = page[p].claiming
        /\ page[p].at # "live"
    BY <1>1, <1>7, FetchTurnPage DEF FetchTurn
  <2>2. UNCHANGED <<turn, outbox, queue, answers, claimed>>
    BY <1>7 DEF FetchTurn, server, network
  <2>3. /\ \A x \in Players \ {p} : missed'[x] = missed[x]
        /\ "claim" \notin missed'[p] => "claim" \notin missed[p]
    BY <1>1, <1>7 DEF FetchTurn
  <2>4. ASSUME "claim" \notin missed'[p]
        PROVE  BonusOK(p, page'[p], claimed[p], turn)
    <3>1. BonusOK(p, page[p], claimed[p], turn)
      BY <1>3, <2>3, <2>4 DEF ClaimOK
    <3>2. page[p].passing = "no" /\ ~page[p].claiming /\ page[p].turn <= turn
      BY <1>2, <2>1 DEF PageOK, AwayOK, Idle, PastOK
    <3>3. CASE page[p].turn = turn
      BY <1>1, <2>1, <3>1, <3>2, <3>3 DEF BonusOK
    <3>4. CASE page[p].turn # turn
      <4>1. page[p].turn < turn
        BY <1>1, <3>2, <3>4
      <4>2. claimed[p] # turn /\ (claimed[p] = MaxChanges + 1 \/ claimed[p] <= turn)
        BY <1>1, <3>1, <4>1, ClaimIsOld
      <4>3. Holder(page[p].turn) # p
        BY <3>1, <3>2, <3>4 DEF BonusOK
      <4>4. Holder(turn) = p => page'[p].first
        BY <2>1, <4>3
      <4> QED BY <2>1, <3>2, <4>2, <4>4 DEF BonusOK
    <3> QED BY <3>3, <3>4
  <2>5. "claim" \notin missed'[p] =>
            ClaimOK(p, outbox, queue'[p], answers'[p], page'[p], claimed[p], turn)
    BY <2>1, <2>4 DEF ClaimOK
  <2> QED BY <1>4, <2>1, <2>2, <2>3, <2>5
<1>8. CASE FetchProperties(p)
  <2>1. /\ \A x \in Players \ {p} : page'[x] = page[x]
        /\ page'[p].at = "deeds" /\ page'[p].turn = page[p].turn
        /\ page'[p].passing = page[p].passing
        /\ page'[p].first = page[p].first /\ page'[p].claiming = page[p].claiming
    BY <1>1, <1>8, FetchPropertiesPage
  <2>2. UNCHANGED <<turn, outbox, queue, answers, claimed>>
    BY <1>8 DEF FetchProperties, server, network
  <2>3. /\ \A x \in Players \ {p} : missed'[x] = missed[x]
        /\ "claim" \notin missed'[p] => "claim" \notin missed[p]
    BY <1>1, <1>8, Constants DEF FetchProperties
  <2>4. "claim" \notin missed'[p] =>
            ClaimOK(p, outbox, queue'[p], answers'[p], page'[p], claimed[p], turn)
    <3> SUFFICES ASSUME "claim" \notin missed'[p]
                 PROVE  ClaimOK(p, outbox, queue'[p], answers'[p], page'[p], claimed[p], turn)
      OBVIOUS
    <3>1. BonusOK(p, page[p], claimed[p], turn)
      BY <1>3, <2>3 DEF ClaimOK
    <3>2. BonusOK(p, page'[p], claimed[p], turn)
      BY <2>1, <3>1 DEF BonusOK
    <3> QED BY <2>1, <3>2 DEF ClaimOK
  <2> QED BY <1>4, <2>1, <2>2, <2>3, <2>4
<1>9. CASE Connect(p)
  <2>1. /\ \A x \in Players \ {p} : page'[x] = page[x]
        /\ page[p].at # "live" /\ page'[p].turn = page[p].turn
        /\ page'[p].passing = page[p].passing
        /\ page'[p].first = page[p].first /\ page'[p].claiming = page[p].claiming
    BY <1>1, <1>9, ConnectPage DEF Connect
  <2>2. UNCHANGED <<turn, outbox, queue, answers, claimed>>
    BY <1>9 DEF Connect, server
  <2>3. /\ \A x \in Players : missed[x] \subseteq missed'[x]
        /\ "claim" \notin missed'[p] => \A j \in DOMAIN outbox : outbox[j].about # "turn"
    BY <1>1, <1>9, MissedStays, ConnectMissed
  <2>4. "claim" \notin missed'[p] =>
            ClaimOK(p, outbox, queue'[p], answers'[p], page'[p], claimed[p], turn)
    <3> SUFFICES ASSUME "claim" \notin missed'[p]
                 PROVE  ClaimOK(p, outbox, queue'[p], answers'[p], page'[p], claimed[p], turn)
      OBVIOUS
    <3>1. BonusOK(p, page[p], claimed[p], turn)
      BY <1>3, <2>3 DEF ClaimOK
    <3>2. BonusOK(p, page'[p], claimed[p], turn)
      BY <2>1, <3>1 DEF BonusOK
    <3>3. queue'[p] = <<>> /\ answers'[p] = {} /\ TurnIn(<<>>) = {}
      BY <1>2, <2>1, <2>2 DEF PageOK, AwayOK, TurnIn
    <3>4. TurnIn(outbox) = {}
      BY <2>3, Turned
    <3>5. OrderOK(p, outbox, queue'[p], answers'[p], page'[p], turn)
      BY <3>3, <3>4, OrderNone
    <3> QED BY <3>2, <3>5 DEF ClaimOK
  <2> QED BY <1>4, <2>1, <2>2, <2>3, <2>4
<1>10. CASE Disconnect(p)
  <2>1. UNCHANGED <<turn, outbox, queue, answers, page, missed, claimed>>
    BY <1>10 DEF Disconnect, server, history
  <2> QED BY <1>3, <1>4, <2>1
<1> QED BY <1>5, <1>6, <1>7, <1>8, <1>9, <1>10 DEF Load

LEMMA InitClaims == Init => ClaimsInv
<1> SUFFICES ASSUME Init, NEW p \in Players
             PROVE  ClaimOK(p, outbox, queue[p], answers[p], page[p], claimed[p], turn)
  BY DEF ClaimsInv
<1>1. /\ outbox = <<>> /\ queue[p] = <<>> /\ answers[p] = {} /\ turn = 0
      /\ page[p].turn = 0 /\ page[p].first /\ page[p].passing = "no"
      /\ claimed[p] = MaxChanges + 1
  BY DEF Init
<1>2. TurnIn(<<>>) = {}
  BY DEF TurnIn
<1>3. OrderOK(p, outbox, queue[p], answers[p], page[p], turn)
  BY <1>1, <1>2, OrderNone
<1>4. BonusOK(p, page[p], claimed[p], turn)
  BY <1>1, Constants DEF BonusOK
<1> QED BY <1>3, <1>4 DEF ClaimOK

LEMMA NextClaims ==
    TypeInv /\ RequestsInv /\ PastInv /\ ClaimsInv /\ [Next]_vars => ClaimsInv'
<1> SUFFICES ASSUME TypeInv, RequestsInv, PastInv, ClaimsInv, [Next]_vars PROVE ClaimsInv'
  OBVIOUS
<1>1. CASE UNCHANGED vars
  <2>1. UNCHANGED <<turn, outbox, queue, answers, page, missed, claimed>>
    BY <1>1 DEF vars, server, network, history
  <2> QED BY <2>1 DEF ClaimsInv
<1> QED BY <1>1, PassClaims, DealClaims, NotifyClaims, NotifyFailsClaims, HearClaims, LoadClaims
        DEF Next

BonusInv == TypeInv /\ RequestsInv /\ PastInv /\ ClaimsInv

LEMMA BonusKept == (Init => BonusInv) /\ (BonusInv /\ [Next]_vars => BonusInv')
<1>1. Init => BonusInv
  BY InitType, InitRequests, InitPast, InitClaims DEF BonusInv
<1>2. BonusInv /\ [Next]_vars => BonusInv'
  BY NextType, NextRequests, NextPast, NextClaims DEF BonusInv
<1> QED BY <1>1, <1>2

\* Nothing else asks for the bonus.
LEMMA OnlyClaims ==
    ASSUME TypeInv, Next, NEW p \in Players, ~page[p].claiming, page'[p].claiming
    PROVE  Claim(p)
<1>1. TypeOK
  BY DEF TypeInv
<1>2. ASSUME NEW i \in DOMAIN outbox, Notify(i)
      PROVE  FALSE
  BY <1>2 DEF Notify
<1>3. ASSUME NEW i \in DOMAIN outbox, NotifyFails(i)
      PROVE  FALSE
  <2>1. outbox[i] \in Message /\ outbox[i].by \in Players
    BY <1>1, MessageType DEF TypeOK
  <2>2. CASE ~Waiting(outbox[i])
    BY <1>3, <2>2 DEF NotifyFails
  <2>3. CASE Waiting(outbox[i]) /\ outbox[i].about = "turn"
    BY <1>1, <1>3, <2>1, <2>3, FailsTurnPage
  <2>4. CASE Waiting(outbox[i]) /\ outbox[i].about # "turn"
    BY <1>1, <1>3, <2>1, <2>4, FailsDeedPage
  <2> QED BY <2>2, <2>3, <2>4
<1>4. ASSUME NEW x \in Players, PassTurn(x)
      PROVE  FALSE
  BY <1>1, <1>4, PassTurnPage
<1>5. ASSUME NEW x \in Players, Claim(x)
      PROVE  Claim(p)
  BY <1>1, <1>5, ClaimPage
<1>6. ASSUME NEW x \in Players, ClaimPaid(x)
      PROVE  FALSE
  BY <1>1, <1>6, ClaimPaidPage
<1>7. ASSUME NEW x \in Players, Take(x)
      PROVE  FALSE
  BY <1>1, <1>7, TakePage
<1>8. ASSUME NEW x \in Players, NEW d \in Deeds, Look(x, d)
      PROVE  FALSE
  <2>1. RowsOf(d) # {} => RowOf(d).level \in Nat
    BY <1>1, FirstRow DEF TypeOK, Row
  <2> QED BY <1>1, <1>8, <2>1, LookPage
<1>9. ASSUME NEW x \in Players, NEW d \in Deeds, Upgrade(x, d)
      PROVE  FALSE
  BY <1>1, <1>9, UpgradePage
<1>10. ASSUME NEW x \in Players, Deliver(x)
       PROVE  FALSE
  <2>1. PICK m : m = Head(queue[x])
    OBVIOUS
  <2> QED BY <1>1, <1>10, <2>1, DeliverIs
<1>11. ASSUME NEW x \in Players, Answer(x)
       PROVE  FALSE
  BY <1>1, <1>11, AnswerIs
<1>12. ASSUME NEW x \in Players, Leave(x)
       PROVE  FALSE
  BY <1>1, <1>12, LeavePage
<1>13. ASSUME NEW x \in Players, Drop(x)
       PROVE  FALSE
  BY <1>1, <1>13, DropPage
<1>14. ASSUME NEW x \in Players, Disconnect(x)
       PROVE  FALSE
  BY <1>14 DEF Disconnect
<1>15. ASSUME NEW x \in Players, Load(x)
       PROVE  FALSE
  BY <1>1, <1>15, FetchTurnPage, FetchPropertiesPage, ConnectPage DEF Load
<1> QED BY <1>2, <1>3, <1>4, <1>5, <1>6, <1>7, <1>8, <1>9, <1>10, <1>11, <1>12, <1>13, <1>14,
           <1>15 DEF Next

\* A page that missed nothing of how the turn went has the start bonus, when the turn
\* comes back to its player, unless it was claimed in this very turn: the flags that the
\* turn's message, the next load and the payment of the bonus set do not undo each other.
THEOREM ClaimIsRestored == Spec => []ClaimRestored
<1>1. BonusInv /\ TurnsInv => ClaimRestored
  <2> SUFFICES ASSUME BonusInv, TurnsInv, NEW p \in Players, Settled(p, "turn"),
                      Holder(turn) = p, "claim" \notin missed[p], ~page[p].first
               PROVE  claimed[p] = turn
    BY DEF ClaimRestored
  <2>1. BonusOK(p, page[p], claimed[p], turn)
    BY DEF BonusInv, ClaimsInv, ClaimOK
  <2>2. page[p].turn = turn
    BY TurnsShow DEF BonusInv, TurnShown
  <2> QED BY <2>1, <2>2 DEF BonusOK
<1>2. Init => BonusInv /\ TurnsInv
  BY BonusKept, InitTurns
<1>3. BonusInv /\ TurnsInv /\ [Next]_vars => BonusInv' /\ TurnsInv'
  BY BonusKept, NextTurns DEF BonusInv
<1> QED BY <1>1, <1>2, <1>3, PTL DEF Spec

\* A player whose page missed nothing of the turn claims the start bonus once in a turn,
\* if each claim waits for the answer to the one before: neither a message that comes
\* late nor a page that is loaded again gives the button back.
THEOREM ClaimsOnce == Spec => ClaimedOnce
<1>1. ASSUME BonusInv, [Next]_vars
      PROVE  [ \A p \in Players :
                 ~page[p].claiming /\ page'[p].claiming /\ missed[p] \cap {"turn", "claim"} = {}
                   => claimed[p] # page[p].turn ]_vars
  <2> SUFFICES ASSUME Next, NEW p \in Players, ~page[p].claiming, page'[p].claiming,
                      missed[p] \cap {"turn", "claim"} = {}
               PROVE  claimed[p] # page[p].turn
    BY <1>1
  <2>1. BonusOK(p, page[p], claimed[p], turn)
    BY <1>1 DEF BonusInv, ClaimsInv, ClaimOK
  <2>2. TypeInv /\ TypeOK
    BY <1>1 DEF BonusInv, TypeInv
  <2>3. Claim(p)
    BY <2>2, OnlyClaims
  <2> QED BY <2>1, <2>3 DEF Claim, MyTurn, BonusOK
<1>2. Init => BonusInv
  BY BonusKept
<1>3. BonusInv /\ [Next]_vars => BonusInv'
  BY BonusKept
<1> QED BY <1>1, <1>2, <1>3, PTL DEF Spec, ClaimedOnce

=============================================================================
