----------------------------- MODULE BoardSums -----------------------------
(***************************************************************************)
(* Theorems about the sums of Board: what is in the pot, the income and    *)
(* the miners of a property, against what was paid for them.               *)
(***************************************************************************)
EXTENDS BoardProofs, Sums

USE BoardAssumption

-----------------------------------------------------------------------------
\* What is paid toward x and not told yet, and what is paid out and not written yet.
Owed(x) == SumFunctionOnSet(Amounts, Untold(x))
Claims  == SumFunctionOnSet(Amounts, PaidOut)

\* What one flow has in these sums.
Part(f, x) ==
    IF f.at \in {"save", "write"} /\ f.kind # "claim" /\ Thing(f) = x THEN f.amount ELSE 0
Out(f) == IF f.kind = "claim" /\ f.at = "write" THEN f.amount ELSE 0

\* The two fields a sum reads, for somebody who does not move.
Still(f, g) == f.kind = g.kind /\ f.at = g.at /\ f.deed = g.deed /\ f.amount = g.amount

\* The sums are over players, of whom there are finitely many.
LEMMA FinitelyMany ==
    ASSUME NEW x
    PROVE  /\ Untold(x) \subseteq Players /\ IsFiniteSet(Untold(x))
           /\ PaidOut \subseteq Players /\ IsFiniteSet(PaidOut)
<1>1. Untold(x) \subseteq Players /\ PaidOut \subseteq Players
  BY DEF Untold, PaidOut
<1> QED BY <1>1, FS_Subset

\* The sums are numbers.
LEMMA SumsAreNumbers ==
    ASSUME BoardInv, NEW x \in Things
    PROVE  Owed(x) \in Nat /\ Claims \in Nat /\ Told(x) = paid[x] - (lost[x] + Owed(x))
           /\ Told(x) \in Int
<1>1. \A q \in Players : Amounts[q] \in Nat
  BY DEF BoardInv, Flows, Flow, Amounts
<1>2. IsFiniteSet(Untold(x)) /\ Untold(x) \subseteq Players
  BY FinitelyMany
<1>3. IsFiniteSet(PaidOut) /\ PaidOut \subseteq Players
  BY FinitelyMany
<1>4. Owed(x) \in Nat
  <2>1. \A q \in Untold(x) : Amounts[q] \in Int /\ Amounts[q] \in Nat
    BY <1>1, <1>2
  <2> QED BY <1>2, <2>1, SumType DEF Owed
<1>5. Claims \in Nat
  <2>1. \A q \in PaidOut : Amounts[q] \in Int /\ Amounts[q] \in Nat
    BY <1>1, <1>3
  <2> QED BY <1>3, <2>1, SumType DEF Claims
<1>6. Told(x) = paid[x] - (lost[x] + Owed(x))
  BY DEF Told, Owed
<1>7. paid[x] \in Nat /\ lost[x] \in Nat
  BY DEF BoardInv, Recorded
<1> HIDE DEF Owed, Told
<1> QED BY <1>4, <1>5, <1>6, <1>7

\* When one player moves, the sums change by what that player has in them.
LEMMA OneSums ==
    ASSUME BoardInv, BoardInv', NEW p \in Players,
           \A q \in Players : q # p => Still(flow[q], flow'[q])
    PROVE  /\ \A x \in Things : Owed(x)' = Owed(x) + Part(flow'[p], x) - Part(flow[p], x)
           /\ Claims' = Claims + Out(flow'[p]) - Out(flow[p])
<1> DEFINE A == Amounts
           B == Amounts'
<1>1. \A q \in Players : /\ A[q] = flow[q].amount /\ B[q] = flow'[q].amount
                         /\ A[q] \in Int /\ B[q] \in Int
                         /\ q # p => A[q] = B[q]
  BY DEF BoardInv, Flows, Flow, Amounts, Still
<1>2. ASSUME NEW x \in Things
      PROVE  Owed(x)' = Owed(x) + Part(flow'[p], x) - Part(flow[p], x)
  <2> DEFINE S == Untold(x)
             T == Untold(x)'
  <2>0. S \subseteq Players /\ T \subseteq Players
    BY DEF Untold
  <2>1. IsFiniteSet(S) /\ IsFiniteSet(T)
    BY <2>0, FS_Subset
  <2>2. S \ {p} = T \ {p}
    BY DEF Untold, Still, Thing
  <2>3. Share(A, S, p) = Part(flow[p], x) /\ Share(B, T, p) = Part(flow'[p], x)
    BY <1>1 DEF Share, Part, Untold, Thing
  <2> HIDE DEF A, B, S, T
  <2>4. SumFunctionOnSet(B, T) = SumFunctionOnSet(A, S) + Share(B, T, p) - Share(A, S, p)
    BY <1>1, <2>0, <2>1, <2>2, SumMoves
  <2> QED BY <2>3, <2>4 DEF Owed, A, B, S, T
<1>3. Claims' = Claims + Out(flow'[p]) - Out(flow[p])
  <2> DEFINE S == PaidOut
             T == PaidOut'
  <2>0. S \subseteq Players /\ T \subseteq Players
    BY DEF PaidOut
  <2>1. IsFiniteSet(S) /\ IsFiniteSet(T)
    BY <2>0, FS_Subset
  <2>2. S \ {p} = T \ {p}
    BY DEF PaidOut, Still
  <2>3. Share(A, S, p) = Out(flow[p]) /\ Share(B, T, p) = Out(flow'[p])
    BY <1>1 DEF Share, Out, PaidOut
  <2> HIDE DEF A, B, S, T
  <2>4. SumFunctionOnSet(B, T) = SumFunctionOnSet(A, S) + Share(B, T, p) - Share(A, S, p)
    BY <1>1, <2>0, <2>1, <2>2, SumMoves
  <2> QED BY <2>3, <2>4 DEF Claims, A, B, S, T
<1> QED BY <1>2, <1>3

HIDE BoardAssumption

-----------------------------------------------------------------------------
\* The lesser of two numbers.
LEMMA MinOfTwo ==
    ASSUME NEW a \in Int, NEW b \in Int
    PROVE  Min({a, b}) = IF a <= b THEN a ELSE b
BY DEF Min

Due(d) == Min({5, FirstRank(d) + Told(<<"level", d>>)})

\* The rungs of the ladder, and what an upgrade does to the rung.
LEMMA Rungs ==
    ASSUME NEW l \in Levels
    PROVE  /\ Rank(l) \in 0 .. 5 /\ Upgraded(l) \in Levels
           /\ Rank(Upgraded(l)) = IF Rank(l) = 5 THEN 5 ELSE Rank(l) + 1
BY DEF Levels, Rank, Upgraded

\* The rung a property began on.
LEMMA FirstRung ==
    ASSUME NEW d \in Deeds
    PROVE  /\ FirstRank(d) \in 0 .. 5
           /\ ~(\E i \in DOMAIN Dealt : Dealt[i].deed = d) => FirstRank(d) = 0
<1> DEFINE dealt == {i \in DOMAIN Dealt : Dealt[i].deed = d}
           D == [deed : Deeds, owner : Players, level : {0, 1, 2, 3, 4, 10}, income : {0}]
<1>1. Dealt \in Seq(D) /\ dealt \in SUBSET Nat
  BY BoardAssumption
<1> HIDE DEF D
<1>2. CASE dealt = {}
  BY <1>2 DEF FirstRank
<1>3. CASE dealt # {}
  <2>1. Min(dealt) \in dealt
    BY <1>1, <1>3, FirstRow
  <2>2. Dealt[Min(dealt)] \in D
    BY <1>1, <2>1
  <2>3. Dealt[Min(dealt)].level \in Levels
    BY <2>2 DEF D, Levels
  <2>4. FirstRank(d) = Rank(Dealt[Min(dealt)].level)
    BY <1>3 DEF FirstRank
  <2>5. \E i \in DOMAIN Dealt : Dealt[i].deed = d
    BY <1>3
  <2> QED BY <2>3, <2>4, <2>5, Rungs
<1> QED BY <1>2, <1>3

\* What is due is a rank.
LEMMA DueIs ==
    ASSUME BoardInv, NEW d \in Deeds
    PROVE  /\ Due(d) \in Int /\ <<"level", d>> \in Things /\ Told(<<"level", d>>) \in Int
           /\ Due(d) = IF 5 <= FirstRank(d) + Told(<<"level", d>>) THEN 5
                       ELSE FirstRank(d) + Told(<<"level", d>>)
<1>1. <<"level", d>> \in Things
  BY DEF Things
<1>2. Told(<<"level", d>>) \in Int /\ FirstRank(d) \in Int
  BY <1>1, SumsAreNumbers, FirstRung
<1> DEFINE t == FirstRank(d) + Told(<<"level", d>>)
<1>3. t \in Int
  BY <1>2
<1> HIDE DEF t
<1>4. Min({5, t}) = IF 5 <= t THEN 5 ELSE t
  BY <1>3, MinOfTwo
<1>5. Due(d) \in Int /\ Due(d) = IF 5 <= t THEN 5 ELSE t
  BY <1>3, <1>4 DEF Due, t
<1> QED BY <1>1, <1>2, <1>5 DEF t

-----------------------------------------------------------------------------
\* What a request knows of the value it has read, as long as nobody else has written it,
\* and that an upgrade is paid for and never goes beyond what is due.
Fresh(f) ==
    /\ f.kind = "fine" /\ f.at = "write" /\ ~f.stale => f.seen = pot
    /\ f.kind = "claim" /\ Window(f) /\ ~f.stale => f.amount = pot
    /\ f.kind = "fee" /\ f.at = "write" /\ ~f.stale => f.seen = RowOf(f.deed).income
    /\ f.at = "look" => f.kind = "buy"
    /\ f.kind = "upgrade" => f.amount = 1
    /\ f.kind = "upgrade" /\ f.at = "write" =>
          /\ Rank(f.seen) <= Due(f.deed)
          /\ ~f.stale => f.seen = RowOf(f.deed).level

\* Nothing was paid for a property that is still the market's.
Vacant ==
    \A d \in Deeds : RowsOf(d) = {} =>
        /\ ~\E i \in DOMAIN Dealt : Dealt[i].deed = d
        /\ Told(<<"income", d>>) = 0 /\ Told(<<"level", d>>) = 0

Totals == Vacant /\ PotExact /\ IncomeExact /\ MinersPaid

\* The inductive invariant of the sums.
SumInv == Totals /\ \A p \in Players : Fresh(flow[p])

\* The values there are.
LEMMA ThingsAre ==
    /\ Pot \in Things
    /\ \A d \in Deeds : /\ <<"income", d>> \in Things /\ <<"level", d>> \in Things
                        /\ <<"owner", d>> \in Things
BY DEF Things, Pot

\* What was told changes with what was paid, lost, or is under way.
LEMMA ToldMoves ==
    ASSUME BoardInv, BoardInv', NEW p \in Players,
           \A q \in Players : q # p => Still(flow[q], flow'[q]), NEW x \in Things
    PROVE  /\ Told(x) \in Int /\ Told(x)' \in Int
           /\ Told(x)' = Told(x) + (paid'[x] - paid[x]) - (lost'[x] - lost[x])
                         - Part(flow'[p], x) + Part(flow[p], x)
<1>1. Owed(x)' = Owed(x) + Part(flow'[p], x) - Part(flow[p], x)
  BY OneSums
<1>2. Told(x) = paid[x] - (lost[x] + Owed(x)) /\ Owed(x) \in Nat
  BY SumsAreNumbers
<1>3. Told(x)' = paid'[x] - (lost'[x] + Owed(x)')
  BY DEF Told, Owed
<1>4. /\ paid[x] \in Nat /\ lost[x] \in Nat /\ paid'[x] \in Nat /\ lost'[x] \in Nat
  BY DEF BoardInv, Recorded
<1>5. Part(flow[p], x) \in Int /\ Part(flow'[p], x) \in Int
  BY DEF BoardInv, Flows, Flow, Part
<1> DEFINE a == Part(flow[p], x)
           b == Part(flow'[p], x)
           o == Owed(x)
           oo == Owed(x)'
           t == Told(x)
           tt == Told(x)'
           u == paid[x]
           uu == paid'[x]
           l == lost[x]
           ll == lost'[x]
<1>6. /\ oo = o + b - a /\ t = u - (l + o) /\ tt = uu - (ll + oo)
      /\ o \in Nat /\ a \in Int /\ b \in Int
      /\ u \in Nat /\ l \in Nat /\ uu \in Nat /\ ll \in Nat
  BY <1>1, <1>2, <1>3, <1>4, <1>5
<1> HIDE DEF a, b, o, oo, t, tt, u, uu, l, ll
<1>7. t \in Int /\ tt \in Int /\ tt = t + (uu - u) - (ll - l) - b + a
  BY <1>6
<1> QED BY <1>7 DEF a, b, t, tt, u, uu, l, ll

\* A step that writes nothing and tells nothing keeps the totals.
LEMMA QuietTotals ==
    ASSUME BoardInv, BoardInv', Totals, rows' = rows, pot' = pot, raced' = raced,
           \A x \in Things : Told(x)' = Told(x), claimed' - Claims' = claimed - Claims
    PROVE  /\ Totals'
           /\ \A d \in Deeds : Due(d)' = Due(d) /\ RowOf(d)' = RowOf(d)
<1>1. ASSUME NEW d \in Deeds
      PROVE  /\ RowsOf(d)' = RowsOf(d) /\ RowOf(d)' = RowOf(d)
             /\ Told(<<"income", d>>)' = Told(<<"income", d>>)
             /\ Told(<<"level", d>>)' = Told(<<"level", d>>)
             /\ Due(d)' = Due(d)
  BY ThingsAre DEF RowsOf, RowOf, Due, FirstRank
<1>2. Vacant'
  BY <1>1 DEF Totals, Vacant
<1>3. IncomeExact'
  BY <1>1 DEF Totals, IncomeExact
<1>4. MinersPaid'
  <2>1. \A d \in Deeds : RowsOf(d) # {} =>
              /\ Rank(RowOf(d).level) <= Due(d)
              /\ <<"level", d>> \notin raced => Rank(RowOf(d).level) = Due(d)
    BY DEF Totals, MinersPaid, Due
  <2>2. ASSUME NEW d \in Deeds, RowsOf(d)' # {}
        PROVE  /\ Rank(RowOf(d)'.level) <= Due(d)'
               /\ <<"level", d>> \notin raced' => Rank(RowOf(d)'.level) = Due(d)'
    BY <1>1, <2>1, <2>2
  <2> QED BY <2>2 DEF MinersPaid, Due, FirstRank
<1>5. PotExact'
  <2>1. Told(Pot)' = Told(Pot) /\ Told(Pot) \in Int
    BY ThingsAre, SumsAreNumbers
  <2>2. claimed \in Nat /\ claimed' \in Nat /\ pot \in Nat
    BY DEF BoardInv, Recorded, Tables
  <2>3. Claims \in Nat
    BY ThingsAre, SumsAreNumbers
  <2>4. Claims' \in Nat
    <3>1. \A q \in Players : Amounts'[q] \in Nat
      BY DEF BoardInv, Flows, Flow, Amounts
    <3>2. PaidOut' \subseteq Players
      BY DEF PaidOut
    <3>3. IsFiniteSet(PaidOut')
      BY <3>2, FS_Subset, BoardAssumption
    <3>4. \A q \in PaidOut' : Amounts'[q] \in Int /\ Amounts'[q] \in Nat
      BY <3>1, <3>2
    <3> DEFINE A == Amounts'
               S == PaidOut'
    <3>5. IsFiniteSet(S) /\ \A q \in S : A[q] \in Int /\ A[q] \in Nat
      BY <3>3, <3>4
    <3> HIDE DEF A, S
    <3>6. SumFunctionOnSet(A, S) \in Nat
      BY <3>5, SumType
    <3> QED BY <3>6 DEF A, S, Claims
  <2>5. Pot \notin raced => pot + claimed = Told(Pot) + Claims
    BY DEF Totals, PotExact, Claims
  <2>6. Pot \notin raced' => pot' + claimed' = Told(Pot)' + Claims'
    <3> DEFINE c == Claims
               cc == Claims'
               t == Told(Pot)
               tt == Told(Pot)'
             m == claimed
             mm == claimed'
             n == pot
             nn == pot'
    <3>1. /\ c \in Nat /\ cc \in Nat /\ t \in Int /\ tt = t
          /\ mm - cc = m - c /\ m \in Nat /\ mm \in Nat /\ n \in Nat /\ nn = n
      BY <2>1, <2>2, <2>3, <2>4
    <3>2. Pot \notin raced => n + m = t + c
      BY <2>5
    <3> HIDE DEF c, cc, t, tt, m, mm, n, nn
    <3>3. n + m = t + c => nn + mm = tt + cc
      BY <3>1
    <3>4. Pot \notin raced' => nn + mm = tt + cc
      BY <3>2, <3>3
    <3> QED BY <3>4 DEF c, cc, t, tt, m, mm, n, nn
  <2> QED BY <2>6 DEF PotExact, Claims, Pot
<1> QED BY <1>1, <1>2, <1>3, <1>4, <1>5 DEF Totals

\* A step of one player that writes nothing and tells nothing.
LEMMA QuietKeeps ==
    ASSUME BoardInv, BoardInv', SumInv, rows' = rows, pot' = pot, raced' = raced,
           NEW p \in Players, flow' = [flow EXCEPT ![p] = flow'[p]],
           \A x \in Things : paid'[x] - lost'[x] - Part(flow'[p], x)
                               = paid[x] - lost[x] - Part(flow[p], x),
           claimed' - Out(flow'[p]) = claimed - Out(flow[p]),
           Fresh(flow'[p])
    PROVE  SumInv'
<1>1. \A q \in Players : q # p => flow'[q] = flow[q]
  BY DEF BoardInv, Flows
<1>2. \A q \in Players : q # p => Still(flow[q], flow'[q])
  BY <1>1 DEF Still
<1>3. ASSUME NEW x \in Things PROVE Told(x)' = Told(x)
  <2>1. /\ Told(x) \in Int
        /\ Told(x)' = Told(x) + (paid'[x] - paid[x]) - (lost'[x] - lost[x])
                         - Part(flow'[p], x) + Part(flow[p], x)
    BY <1>2, ToldMoves
  <2>2. /\ paid[x] \in Nat /\ lost[x] \in Nat /\ paid'[x] \in Nat /\ lost'[x] \in Nat
    BY DEF BoardInv, Recorded
  <2>3. Part(flow[p], x) \in Int /\ Part(flow'[p], x) \in Int
    BY DEF BoardInv, Flows, Flow, Part
  <2>4. paid'[x] - lost'[x] - Part(flow'[p], x) = paid[x] - lost[x] - Part(flow[p], x)
    OBVIOUS
  <2> DEFINE a == Part(flow[p], x)
             b == Part(flow'[p], x)
             t == Told(x)
             tt == Told(x)'
             u == paid[x]
             uu == paid'[x]
             l == lost[x]
             ll == lost'[x]
  <2>5. /\ t \in Int /\ tt = t + (uu - u) - (ll - l) - b + a /\ uu - ll - b = u - l - a
        /\ u \in Nat /\ l \in Nat /\ uu \in Nat /\ ll \in Nat /\ a \in Int /\ b \in Int
    BY <2>1, <2>2, <2>3, <2>4
  <2> HIDE DEF a, b, t, tt, u, uu, l, ll
  <2>6. tt = t
    BY <2>5
  <2> QED BY <2>6 DEF t, tt
<1>4. claimed' - Claims' = claimed - Claims
  <2>1. Claims' = Claims + Out(flow'[p]) - Out(flow[p])
    BY <1>2, OneSums
  <2>2. Claims \in Nat
    BY ThingsAre, SumsAreNumbers
  <2>3. Out(flow[p]) \in Int /\ Out(flow'[p]) \in Int /\ claimed \in Nat /\ claimed' \in Nat
    BY DEF BoardInv, Flows, Flow, Out, Recorded
  <2>4. claimed' - Out(flow'[p]) = claimed - Out(flow[p])
    OBVIOUS
  <2> DEFINE a == Out(flow[p])
             b == Out(flow'[p])
             c == Claims
             cc == Claims'
             m == claimed
             mm == claimed'
  <2>5. /\ cc = c + b - a /\ c \in Nat /\ a \in Int /\ b \in Int /\ m \in Nat /\ mm \in Nat
        /\ mm - b = m - a
    BY <2>1, <2>2, <2>3, <2>4
  <2> HIDE DEF a, b, c, cc, m, mm
  <2>6. mm - cc = m - c
    BY <2>5
  <2> QED BY <2>6 DEF c, cc, m, mm
<1>5. Totals' /\ \A d \in Deeds : Due(d)' = Due(d) /\ RowOf(d)' = RowOf(d)
  BY <1>3, <1>4, QuietTotals DEF SumInv
<1>6. ASSUME NEW q \in Players PROVE Fresh(flow[q])'
  <2>1. Fresh(flow'[q])
    BY <1>1 DEF SumInv
  <2>2. flow'[q].kind \in {"upgrade", "fee"} => flow'[q].deed \in Deeds
    BY DEF BoardInv, Flows, Knowing
  <2> QED BY <1>5, <2>1, <2>2 DEF Fresh, Window
<1> QED BY <1>5, <1>6 DEF SumInv
-----------------------------------------------------------------------------
\* What a player begins is in no sum yet.
LEMMA BeginSums ==
    ASSUME BoardInv, BoardInv', SumInv, NEW p \in Players,
           \/ \E d \in Deeds : BeginPurchase(p, d) \/ BeginUpgrade(p, d) \/ BeginFee(p, d)
           \/ BeginFine(p) \/ BeginClaim(p)
    PROVE  SumInv'
<1>1. ASSUME NEW kind \in Kinds, NEW at \in {"look", "pay", "save"}, NEW d, NEW amount, NEW to,
             Begin(p, kind, at, d, amount, to), at = "save" <=> kind = "claim",
             at = "look" => kind = "buy", kind = "upgrade" => amount = 1
      PROVE  SumInv'
  <2> DEFINE g == [Idle EXCEPT !.kind = kind, !.at = at, !.deed = d, !.amount = amount, !.to = to]
  <2>1. /\ flow[p] = Idle /\ flow' = [flow EXCEPT ![p] = g]
        /\ UNCHANGED <<rows, pot, paid, lost, claimed, raced>>
    BY <1>1 DEF Begin, tables
  <2>2. g.kind = kind /\ g.at = at /\ g.amount = amount
    BY DEF Idle
  <2> HIDE DEF g
  <2>3. flow'[p] = g
    BY <2>1 DEF BoardInv, Flows
  <2>4. Fresh(g)
    BY <1>1, <2>2 DEF Fresh, Window
  <2>5. /\ \A x : Part(g, x) = 0 /\ Part(Idle, x) = 0
        /\ Out(g) = 0 /\ Out(Idle) = 0
    BY <1>1, <2>2 DEF Part, Out, Idle
  <2>6. flow' = [flow EXCEPT ![p] = flow'[p]] /\ Fresh(flow'[p])
    BY <2>1, <2>3, <2>4
  <2>7. \A x \in Things : paid'[x] - lost'[x] - Part(flow'[p], x) = paid[x] - lost[x] - Part(flow[p], x)
    BY <2>1, <2>3, <2>5
  <2>8. claimed' - Out(flow'[p]) = claimed - Out(flow[p])
    BY <2>1, <2>3, <2>5
  <2> QED BY <2>1, <2>6, <2>7, <2>8, QuietKeeps
<1>2. ASSUME NEW d \in Deeds, BeginPurchase(p, d) PROVE SumInv'
  BY <1>1, <1>2 DEF BeginPurchase, Kinds
<1>3. ASSUME NEW d \in Deeds, BeginUpgrade(p, d) PROVE SumInv'
  BY <1>1, <1>3 DEF BeginUpgrade, Kinds
<1>4. ASSUME NEW d \in Deeds, BeginFee(p, d) PROVE SumInv'
  BY <1>1, <1>4 DEF BeginFee, Kinds
<1>5. ASSUME BeginFine(p) PROVE SumInv'
  <2>1. PICK amount \in Fines : Begin(p, "fine", "pay", NoDeed, amount, Market)
    BY <1>5 DEF BeginFine
  <2> QED BY <1>1, <2>1 DEF Kinds
<1>6. ASSUME BeginClaim(p) PROVE SumInv'
  BY <1>1, <1>6 DEF BeginClaim, Kinds
<1> QED BY <1>2, <1>3, <1>4, <1>5, <1>6

\* A payment is in the sum of what was paid, and in that of what was not told.
LEMMA PaySums ==
    ASSUME BoardInv, BoardInv', SumInv, NEW p \in Players, Pay(p)
    PROVE  SumInv'
<1> DEFINE f == flow[p]
           s == IF f.kind = "claim" THEN "write" ELSE "save"
           g == [f EXCEPT !.at = s]
<1>1. f \in Flow /\ Fresh(f) /\ f.amount \in Nat
  BY DEF BoardInv, Flows, SumInv, Flow
<1>2. f.at = "pay" /\ flow' = [flow EXCEPT ![p] = g] /\ rows' = rows /\ pot' = pot /\ raced' = raced
      /\ lost' = lost
  BY DEF Pay, BoardInv, Flows, tables
<1>3. /\ g.at = s /\ g.kind = f.kind /\ g.deed = f.deed /\ g.amount = f.amount
      /\ g.stale = f.stale /\ Thing(g) = Thing(f)
  BY <1>1 DEF Flow, Thing
<1>4. flow'[p] = g /\ flow' = [flow EXCEPT ![p] = flow'[p]]
  BY <1>2 DEF BoardInv, Flows
<1>5. IF f.kind = "claim" THEN claimed' = claimed + f.amount /\ paid' = paid
      ELSE claimed' = claimed /\ paid' = [paid EXCEPT ![Thing(f)] = paid[Thing(f)] + f.amount]
  BY DEF Pay
<1> HIDE DEF g
<1>6. Fresh(g)
  BY <1>1, <1>2, <1>3 DEF Fresh, Window
<1>7. paid \in [Things -> Nat] /\ lost \in [Things -> Nat] /\ claimed \in Nat
  BY DEF BoardInv, Recorded
<1>8. ASSUME NEW x \in Things
      PROVE  paid'[x] - lost'[x] - Part(g, x) = paid[x] - lost[x] - Part(f, x)
  <2>1. Part(f, x) = 0
    BY <1>2 DEF Part
  <2>2. CASE f.kind # "claim" /\ Thing(f) = x
    <3>1. Part(g, x) = f.amount /\ paid'[x] = paid[x] + f.amount
      BY <1>3, <1>5, <1>7, <2>2 DEF Part
    <3> DEFINE u == paid[x]
               uu == paid'[x]
               l == lost[x]
               a == f.amount
               b == Part(g, x)
               c == Part(f, x)
    <3>2. b = a /\ uu = u + a /\ a \in Nat /\ u \in Nat /\ l \in Nat /\ c = 0 /\ lost'[x] = l
      BY <1>1, <1>2, <1>7, <2>1, <3>1
    <3> HIDE DEF u, uu, l, a, b, c, f
    <3>3. uu - l - b = u - l - c
      BY <3>2
    <3> QED BY <1>2, <3>3 DEF u, uu, l, b, c
  <2>3. CASE ~(f.kind # "claim" /\ Thing(f) = x)
    BY <1>2, <1>3, <1>5, <1>7, <2>1, <2>3 DEF Part
  <2> QED BY <2>2, <2>3
<1>9. claimed' - Out(g) = claimed - Out(f)
  <2>1. Out(f) = 0
    BY <1>2 DEF Out
  <2>2. Out(g) = IF f.kind = "claim" THEN f.amount ELSE 0
    BY <1>3 DEF Out
  <2> DEFINE a == f.amount
  <2> HIDE DEF a
  <2>3. CASE f.kind = "claim"
    <3>1. Out(g) = a /\ claimed' = claimed + a /\ a \in Nat
      BY <1>1, <1>5, <2>2, <2>3 DEF a
    <3> QED BY <1>7, <2>1, <3>1
  <2>4. CASE f.kind # "claim"
    BY <1>5, <2>1, <2>2, <2>4
  <2> QED BY <2>3, <2>4
<1> HIDE DEF f
<1> QED BY <1>2, <1>4, <1>6, <1>8, <1>9, QuietKeeps DEF f

\* What fails is in no sum afterwards: what had been paid is lost.
LEMMA FailSums ==
    ASSUME BoardInv, BoardInv', SumInv, NEW p \in Players, PayFails(p) \/ SaveFails(p)
    PROVE  SumInv'
<1> DEFINE f == flow[p]
<1>1. f \in Flow /\ f.amount \in Nat
  BY DEF BoardInv, Flows, Flow
<1>2. /\ flow' = [flow EXCEPT ![p] = Idle] /\ rows' = rows /\ pot' = pot /\ raced' = raced
      /\ paid' = paid /\ claimed' = claimed
  BY DEF PayFails, SaveFails, Over, tables, history
<1>3. \/ f.at \in {"look", "pay"} /\ lost' = lost
      \/ f.at = "save" /\ lost' = IF f.kind = "claim" THEN lost
               ELSE [lost EXCEPT ![Thing(f)] = lost[Thing(f)] + f.amount]
  BY DEF PayFails, SaveFails, history
<1>4. flow'[p] = Idle /\ flow' = [flow EXCEPT ![p] = flow'[p]]
  BY <1>2 DEF BoardInv, Flows
<1>5. Fresh(Idle) /\ Out(Idle) = 0 /\ \A x : Part(Idle, x) = 0
  BY DEF Fresh, Idle, Window, Part, Out
<1>6. paid \in [Things -> Nat] /\ lost \in [Things -> Nat] /\ claimed \in Nat
  BY DEF BoardInv, Recorded
<1>7. ASSUME NEW x \in Things
      PROVE  paid'[x] - lost'[x] - Part(Idle, x) = paid[x] - lost[x] - Part(f, x)
  <2>1. CASE f.at = "save" /\ f.kind # "claim" /\ Thing(f) = x
    <3>1. Part(f, x) = f.amount /\ lost'[x] = lost[x] + f.amount
      BY <1>3, <1>6, <2>1 DEF Part
    <3> DEFINE u == paid[x]
               l == lost[x]
               ll == lost'[x]
               a == f.amount
               b == Part(f, x)
               c == Part(Idle, x)
    <3>2. b = a /\ ll = l + a /\ a \in Nat /\ u \in Nat /\ l \in Nat /\ c = 0
      BY <1>1, <1>5, <1>6, <3>1
    <3> HIDE DEF u, l, ll, a, b, c, f
    <3>3. u - ll - c = u - l - b
      BY <3>2
    <3> QED BY <1>2, <3>3 DEF u, l, ll, b, c
  <2>2. CASE ~(f.at = "save" /\ f.kind # "claim" /\ Thing(f) = x)
    BY <1>2, <1>3, <1>5, <1>6, <2>2 DEF Part
  <2> QED BY <2>1, <2>2
<1>8. claimed' - Out(Idle) = claimed - Out(f)
  BY <1>2, <1>3, <1>5 DEF Out
<1> HIDE DEF f
<1> QED BY <1>2, <1>4, <1>5, <1>7, <1>8, QuietKeeps DEF f

\* Who reads knows what is there, until another writes.
LEMMA ReadSums ==
    ASSUME BoardInv, BoardInv', SumInv, NEW p \in Players, Read(p) \/ Look(p)
    PROVE  SumInv'
<1> DEFINE f == flow[p]
<1>1. f \in Flow /\ Knowing(f) /\ Fresh(f)
  BY DEF BoardInv, Flows, SumInv
<1>2. ASSUME NEW g, flow' = [flow EXCEPT ![p] = g], Fresh(g),
             \A x \in Things : Part(g, x) = Part(f, x), Out(g) = Out(f),
             UNCHANGED <<tables, history>>
      PROVE  SumInv'
  <2>1. flow'[p] = g /\ flow' = [flow EXCEPT ![p] = flow'[p]]
    BY <1>2 DEF BoardInv, Flows
  <2>2. \A x \in Things : paid'[x] - lost'[x] - Part(flow'[p], x)
                            = paid[x] - lost[x] - Part(flow[p], x)
    BY <1>2, <2>1 DEF history
  <2>3. claimed' - Out(flow'[p]) = claimed - Out(flow[p])
    BY <1>2, <2>1 DEF history
  <2> QED BY <1>2, <2>1, <2>2, <2>3, QuietKeeps DEF tables, history
<1>3. CASE Look(p)
  <2> DEFINE g == [f EXCEPT !.at = "pay", !.to = Seller(f.deed)]
  <2>1. f.at = "look" /\ flow' = [flow EXCEPT ![p] = g] /\ UNCHANGED <<tables, history>>
    BY <1>3 DEF Look, BoardInv, Flows
  <2>2. g.at = "pay" /\ g.kind = f.kind /\ f.kind = "buy"
    BY <1>1, <2>1 DEF Flow, Fresh
  <2> HIDE DEF g
  <2>3. Fresh(g) /\ Out(g) = Out(f) /\ \A x \in Things : Part(g, x) = Part(f, x)
    BY <2>1, <2>2 DEF Fresh, Window, Out, Part
  <2> QED BY <1>2, <2>1, <2>3
<1>4. CASE Read(p)
  <2> DEFINE g == CASE f.kind = "claim" -> [f EXCEPT !.at = "pay", !.amount = pot]
                    [] f.kind = "fine" -> [f EXCEPT !.at = "write", !.seen = pot]
                    [] f.kind = "fee" ->
                         [f EXCEPT !.at = "write", !.seen = RowOf(f.deed).income]
                    [] f.kind = "upgrade" ->
                         [f EXCEPT !.at = "write", !.seen = RowOf(f.deed).level]
                    [] f.kind = "buy" -> [f EXCEPT !.at = "write"]
  <2>1. f.at = "save" /\ flow' = [flow EXCEPT ![p] = g] /\ UNCHANGED <<tables, history>>
    BY <1>4 DEF Read
  <2>2. f.kind \in Kinds
    BY <1>1, <2>1 DEF Knowing
  <2>3. /\ g.kind = f.kind /\ g.deed = f.deed
        /\ IF f.kind = "claim" THEN g.at = "pay" /\ g.amount = pot
           ELSE g.at = "write" /\ g.amount = f.amount
        /\ f.kind = "fine" => g.seen = pot
        /\ f.kind = "fee" => g.seen = RowOf(f.deed).income
        /\ f.kind = "upgrade" => g.seen = RowOf(f.deed).level
    BY <1>1, <2>2 DEF Flow, Kinds
  <2> HIDE DEF g
  <2>4. f.kind = "upgrade" => Rank(RowOf(f.deed).level) <= Due(f.deed)
    BY <1>1 DEF Knowing, SumInv, Totals, MinersPaid, Due
  <2>5. Fresh(g)
    BY <1>1, <2>3, <2>4 DEF Fresh, Window
  <2>6. Out(g) = Out(f) /\ \A x \in Things : Part(g, x) = Part(f, x)
    BY <2>1, <2>3 DEF Out, Part, Thing
  <2> QED BY <1>2, <2>1, <2>5, <2>6
<1> QED BY <1>3, <1>4

-----------------------------------------------------------------------------
\* A write tells what its request had paid, and settles what it had paid out.
LEMMA CommitTells ==
    ASSUME BoardInv, BoardInv', NEW p \in Players, NEW ok \in BOOLEAN, Commit(p, ok)
    PROVE  /\ \A x \in Things : /\ Told(x) \in Int /\ Part(flow[p], x) \in Nat
                                /\ Told(x)' = Told(x) + Part(flow[p], x)
           /\ Claims \in Nat /\ Out(flow[p]) \in Nat /\ Claims' = Claims - Out(flow[p])
           /\ raced \subseteq raced'
           /\ \A x \in Things : x = Thing(flow[p]) /\ x \notin raced' => ~flow[p].stale
<1>1. \A q \in Players : flow[q] \in Flow /\ flow[q].amount \in Nat
  BY DEF BoardInv, Flows, Flow
<1>2. flow'[p] = Idle /\ \A q \in Players : q # p => Still(flow[q], flow'[q])
  BY <1>1 DEF Commit, Still, Flow
<1>3. paid' = paid /\ lost' = lost /\ claimed' = claimed
  BY DEF Commit
<1>4. Out(Idle) = 0 /\ \A x : Part(Idle, x) = 0
  BY DEF Idle, Out, Part
<1>5. ASSUME NEW x \in Things
      PROVE  /\ Told(x) \in Int /\ Part(flow[p], x) \in Nat
             /\ Told(x)' = Told(x) + Part(flow[p], x)
  <2>1. /\ Told(x) \in Int
        /\ Told(x)' = Told(x) + (paid'[x] - paid[x]) - (lost'[x] - lost[x])
                         - Part(flow'[p], x) + Part(flow[p], x)
    BY <1>2, ToldMoves
  <2>2. paid[x] \in Nat /\ lost[x] \in Nat /\ Part(flow[p], x) \in Nat
    BY <1>1 DEF BoardInv, Recorded, Part
  <2> DEFINE u == paid[x]
             l == lost[x]
             t == Told(x)
             tt == Told(x)'
             a == Part(flow[p], x)
  <2>3. t \in Int /\ u \in Nat /\ l \in Nat /\ a \in Nat /\ tt = t + (u - u) - (l - l) - 0 + a
    BY <1>2, <1>3, <1>4, <2>1, <2>2
  <2> HIDE DEF u, l, t, tt, a
  <2>4. tt = t + a
    BY <2>3
  <2> QED BY <2>1, <2>2, <2>4 DEF t, tt, a
<1>6. Claims \in Nat /\ Out(flow[p]) \in Nat /\ Claims' = Claims - Out(flow[p])
  <2>1. Claims' = Claims + Out(flow'[p]) - Out(flow[p])
    BY <1>2, OneSums
  <2>2. Claims \in Nat /\ Out(flow[p]) \in Nat /\ Out(flow'[p]) = 0
    BY <1>1, <1>2, <1>4, ThingsAre, SumsAreNumbers DEF Out
  <2> DEFINE c == Claims
             cc == Claims'
             a == Out(flow[p])
  <2>3. c \in Nat /\ a \in Nat /\ cc = c + 0 - a
    BY <2>1, <2>2
  <2> HIDE DEF c, cc, a
  <2>4. cc = c - a
    BY <2>3
  <2> QED BY <2>2, <2>4 DEF c, cc, a
<1>7. raced' = IF flow[p].stale THEN raced \cup {Thing(flow[p])} ELSE raced
  BY DEF Commit
<1> QED BY <1>5, <1>6, <1>7

\* What is due never falls when more was told.
LEMMA DueGrows ==
    ASSUME BoardInv, BoardInv', NEW d \in Deeds, NEW a \in Nat,
           Told(<<"level", d>>)' = Told(<<"level", d>>) + a
    PROVE  /\ Due(d) <= Due(d)' /\ Due(d)' \in Int
           /\ a = 0 => Due(d)' = Due(d)
           /\ a = 1 => Due(d)' = IF Due(d) = 5 THEN 5 ELSE Due(d) + 1
<1> DEFINE t == Told(<<"level", d>>)
           tt == Told(<<"level", d>>)'
           r == FirstRank(d)
           e == Due(d)
           ee == Due(d)'
<1>1. r \in Int /\ t \in Int /\ tt = t + a /\ e = IF 5 <= r + t THEN 5 ELSE r + t
  BY DueIs, FirstRung
<1>2. ee = IF 5 <= r + tt THEN 5 ELSE r + tt
  <2>1. r + tt \in Int
    BY <1>1
  <2>2. ee = Min({5, r + tt})
    BY DEF Due, FirstRank
  <2> DEFINE m == r + tt
  <2> HIDE DEF m
  <2>3. Min({5, m}) = IF 5 <= m THEN 5 ELSE m
    BY <2>1, MinOfTwo DEF m
  <2> QED BY <2>2, <2>3 DEF m
<1> HIDE DEF t, tt, r, e, ee
<1>3. /\ e <= ee /\ ee \in Int
      /\ a = 0 => ee = e
      /\ a = 1 => ee = IF e = 5 THEN 5 ELSE e + 1
  BY <1>1, <1>2
<1> QED BY <1>3 DEF e, ee

\* What the others have read is still there, or known to be stale.
LEMMA CommitFresh ==
    ASSUME BoardInv, BoardInv', NEW p \in Players, NEW ok \in BOOLEAN, Commit(p, ok),
           \A q \in Players : Fresh(flow[q]),
           Thing(flow[p]) # Pot => pot' = pot,
           \A d \in Deeds : RowsOf(d) # {} =>
               /\ Thing(flow[p]) # <<"income", d>> => RowOf(d)'.income = RowOf(d).income
               /\ Thing(flow[p]) # <<"level", d>> => RowOf(d)'.level = RowOf(d).level
    PROVE  \A q \in Players : Fresh(flow[q])'
<1>1. ASSUME NEW q \in Players PROVE Fresh(flow[q])'
  <2> DEFINE f == flow[q]
             g == flow'[q]
             x == Thing(flow[p])
  <2>1. f \in Flow /\ Knowing(f) /\ Fresh(f)
    BY DEF BoardInv, Flows
  <2>2. CASE q = p
    <3>1. g = Idle
      BY <2>2 DEF Commit
    <3> QED BY <3>1 DEF Fresh, Idle
  <2>3. CASE q # p
    <3>1. \/ g = f /\ ~(Window(f) /\ Thing(f) = x)
          \/ g = [f EXCEPT !.stale = TRUE]
      BY <2>3 DEF Commit
    <3>2. /\ g.kind = f.kind /\ g.at = f.at /\ g.deed = f.deed /\ g.seen = f.seen
          /\ g.amount = f.amount
          /\ ~g.stale => ~f.stale /\ ~(Window(f) /\ Thing(f) = x)
      BY <2>1, <3>1 DEF Flow
    <3> HIDE DEF g, x
    <3>3. ASSUME f.kind \in {"fine", "claim"}, Window(f), ~g.stale PROVE pot' = pot
      <4>1. Thing(f) = Pot
        BY <3>3 DEF Thing, Pot
      <4> QED BY <3>2, <3>3, <4>1 DEF x
    <3>4. ASSUME NEW d, d = f.deed, f.kind = "fee", Window(f), ~g.stale
          PROVE  RowOf(d)'.income = RowOf(d).income
      <4>1. Thing(f) = <<"income", d>> /\ d \in Deeds /\ RowsOf(d) # {}
        BY <2>1, <3>4 DEF Thing, Knowing
      <4> QED BY <3>2, <3>4, <4>1 DEF x
    <3>5. ASSUME NEW d, d = f.deed, f.kind = "upgrade", Window(f), ~g.stale
          PROVE  RowOf(d)'.level = RowOf(d).level
      <4>1. Thing(f) = <<"level", d>> /\ d \in Deeds /\ RowsOf(d) # {}
        BY <2>1, <3>5 DEF Thing, Knowing
      <4> QED BY <3>2, <3>5, <4>1 DEF x
    <3>6. ASSUME NEW d, d = f.deed, f.kind = "upgrade", f.at = "write"
          PROVE  Rank(f.seen) <= Due(d)'
      <4>1. d \in Deeds /\ f.seen \in Levels /\ <<"level", d>> \in Things
        BY <2>1, <3>6, ThingsAre DEF Knowing
      <4>2. PICK a \in Nat : Told(<<"level", d>>)' = Told(<<"level", d>>) + a
        BY <4>1, CommitTells
      <4>3. Due(d) <= Due(d)' /\ Due(d) \in Int /\ Due(d)' \in Int
        BY <4>1, <4>2, DueGrows, DueIs
      <4>4. Rank(f.seen) <= Due(d) /\ Rank(f.seen) \in Int
        BY <2>1, <3>6, <4>1, Rungs DEF Fresh
      <4> DEFINE r == Rank(f.seen)
                 e == Due(d)
                 ee == Due(d)'
      <4> HIDE DEF r, e, ee
      <4>5. r <= ee
        BY <4>3, <4>4 DEF r, e, ee
      <4> QED BY <4>5 DEF r, ee
    <3>7. f.at = "write" => Window(f) \/ f.kind \notin {"fine", "claim", "fee", "upgrade"}
      BY DEF Window
    <3> QED BY <2>1, <3>2, <3>3, <3>4, <3>5, <3>6, <3>7 DEF Fresh, Window, g, f
  <2> QED BY <2>2, <2>3
<1> QED BY <1>1

-----------------------------------------------------------------------------
\* A write that is about none of the values in a total keeps that total.
LEMMA OtherTotals ==
    ASSUME BoardInv, BoardInv', Totals, NEW p \in Players, NEW ok \in BOOLEAN, Commit(p, ok),
           flow[p].at \in {"save", "write"}
    PROVE  /\ \A x \in Things : Thing(flow[p]) # x \/ flow[p].kind = "claim" => Told(x)' = Told(x)
           /\ \A x \in Things : Thing(flow[p]) = x /\ flow[p].kind # "claim" =>
                 Told(x)' = Told(x) + flow[p].amount
           /\ Thing(flow[p]) # Pot /\ pot' = pot => PotExact'
<1>1. Thing(flow[p]) \in Things
  BY ThingIs
<1>2. \A x \in Things : Part(flow[p], x) =
        IF flow[p].kind # "claim" /\ Thing(flow[p]) = x THEN flow[p].amount ELSE 0
  BY DEF Part
<1>3. ASSUME NEW x \in Things, Thing(flow[p]) # x \/ flow[p].kind = "claim"
      PROVE  Told(x)' = Told(x)
  <2>1. Told(x) \in Int /\ Told(x)' = Told(x) + 0
    BY <1>2, <1>3, CommitTells
  <2> DEFINE t == Told(x)
             tt == Told(x)'
  <2> HIDE DEF t, tt
  <2>2. tt = t
    BY <2>1 DEF t, tt
  <2> QED BY <2>2 DEF t, tt
<1>4. ASSUME flow[p].kind # "claim"
      PROVE  \A x \in Things : x = Thing(flow[p]) => Told(x)' = Told(x) + flow[p].amount
  BY <1>2, <1>4, CommitTells
<1>5. ASSUME Thing(flow[p]) # Pot, pot' = pot, Pot \notin raced'
      PROVE  pot' + claimed' = Told(Pot)' + Claims'
  <2>1. Told(Pot)' = Told(Pot) /\ Told(Pot) \in Int
    BY <1>3, <1>5, ThingsAre, CommitTells
  <2>2. Out(flow[p]) = 0
    BY <1>5 DEF Out, Thing, Pot
  <2>3. Claims \in Nat /\ Claims' = Claims - 0 /\ Pot \notin raced
    BY <1>5, <2>2, CommitTells
  <2>4. pot + claimed = Told(Pot) + Claims /\ claimed' = claimed
    BY <2>3 DEF Totals, PotExact, Claims, Commit
  <2> DEFINE c == Claims
             cc == Claims'
             t == Told(Pot)
             tt == Told(Pot)'
  <2>5. c \in Nat /\ cc = c - 0
    BY <2>3
  <2> HIDE DEF c, cc, t, tt
  <2>6. cc = c
    BY <2>5
  <2>7. tt = t /\ pot + claimed = t + c
    BY <2>1, <2>4 DEF t, tt, c
  <2>8. pot' + claimed' = tt + cc
    BY <1>5, <2>4, <2>6, <2>7
  <2> QED BY <2>8 DEF tt, cc
<1> DEFINE q == Pot \notin raced' => pot' + claimed' = Told(Pot)' + Claims'
<1>6. q <=> PotExact'
  BY DEF PotExact, Claims, Pot
<1>7. Thing(flow[p]) # Pot /\ pot' = pot => q
  BY <1>5
<1> HIDE DEF q
<1> QED BY <1>3, <1>4, <1>6, <1>7

\* What an UPDATE sets, and what it leaves alone.
LEMMA Fields ==
    ASSUME BoardInv, NEW p \in Players, NEW ok \in BOOLEAN, WriteDeed(p, ok),
           NEW d \in Deeds, RowsOf(d) # {}
    PROVE  /\ RowOf(d)'.level = IF d = flow[p].deed /\ flow[p].kind = "upgrade"
                                THEN Upgraded(flow[p].seen) ELSE RowOf(d).level
           /\ RowOf(d)'.income = IF d = flow[p].deed /\ flow[p].kind = "fee"
                                 THEN flow[p].seen + flow[p].amount ELSE RowOf(d).income
<1> DEFINE f == flow[p]
           i == Min(RowsOf(d))
<1>1. i \in RowsOf(d) /\ i \in DOMAIN rows /\ rows[i] \in Row /\ RowOf(d) = rows[i] /\ rows[i].deed = d
  BY FoundRow DEF BoardInv, RowsOf, RowOf
<1>2. RowsOf(d)' = RowsOf(d)
  BY Written
<1>3. RowOf(d)' = rows'[i]
  BY <1>2 DEF RowOf
<1> HIDE DEF i
<1>4. rows'[i] = IF i \notin RowsOf(f.deed) THEN rows[i]
              ELSE CASE f.kind = "buy"     -> [rows[i] EXCEPT !.owner = p]
                     [] f.kind = "upgrade" -> [rows[i] EXCEPT !.level = Upgraded(f.seen)]
                     [] f.kind = "fee"     ->
                          [rows[i] EXCEPT !.income = Credited(f.seen, f.amount)]
  BY <1>1 DEF WriteDeed
<1>5. i \in RowsOf(f.deed) <=> d = f.deed
  BY <1>1 DEF RowsOf
<1>6. f.kind \in {"buy", "upgrade", "fee"}
  BY DEF WriteDeed
<1> HIDE DEF f
<1>7. rows'[i].level = IF d = f.deed /\ f.kind = "upgrade" THEN Upgraded(f.seen) ELSE rows[i].level
  BY <1>1, <1>4, <1>5, <1>6 DEF Row
<1>8. rows'[i].income = IF d = f.deed /\ f.kind = "fee" THEN f.seen + f.amount ELSE rows[i].income
  BY <1>1, <1>4, <1>5, <1>6 DEF Row, Credited
<1> QED BY <1>1, <1>3, <1>7, <1>8 DEF f

\* Nothing was paid yet for what is bought from the market, and it has no miners.
LEMMA RegisterSums ==
    ASSUME BoardInv, BoardInv', SumInv, NEW p \in Players, NEW ok \in BOOLEAN, Register(p, ok)
    PROVE  SumInv'
<1> DEFINE f == flow[p]
<1>1. /\ f.deed \in Deeds /\ f.at = "save" /\ f.kind = "buy" /\ Commit(p, ok) /\ pot' = pot
      /\ Thing(f) = <<"owner", f.deed>> /\ Totals /\ Thing(f) # Pot /\ Tables
  BY DEF Register, BoardInv, Flows, Knowing, Thing, Pot, SumInv
<1>2. /\ PotExact' /\ raced \subseteq raced'
      /\ \A d \in Deeds : /\ Told(<<"income", d>>)' = Told(<<"income", d>>)
                          /\ Told(<<"level", d>>)' = Told(<<"level", d>>)
  <2>1. PotExact' /\ \A x \in Things : Thing(f) # x => Told(x)' = Told(x)
    BY <1>1, OtherTotals
  <2>2. raced \subseteq raced'
    BY <1>1, CommitTells
  <2>3. \A d \in Deeds : Thing(f) # <<"income", d>> /\ Thing(f) # <<"level", d>>
    BY <1>1
  <2> QED BY <2>1, <2>2, <2>3, ThingsAre
<1>3. /\ \A d \in Deeds : RowsOf(d)' = IF d = f.deed THEN RowsOf(d) \cup {Len(rows) + 1} ELSE RowsOf(d)
      /\ \A d \in Deeds : RowsOf(d) # {} => RowOf(d)' = RowOf(d)
  BY <1>1, Registered
<1>4. ASSUME NEW d \in Deeds, RowsOf(d) = {}, RowsOf(d)' # {}
      PROVE  RowOf(d)'.level = 0 /\ RowOf(d)'.income = 0
  <2> DEFINE r == [deed |-> f.deed, owner |-> p, level |-> 0, income |-> 0]
             n == Len(rows) + 1
  <2>1. RowsOf(d)' = {n}
    BY <1>3, <1>4
  <2>2. n \in Nat /\ rows'[n] = r
    <3>1. rows \in Seq(Row) /\ rows' = Append(rows, r)
      BY <1>1 DEF Tables, Register
    <3> HIDE DEF r
    <3> QED BY <3>1
  <2>3. Min({n}) = n
    BY <2>2, FirstIs
  <2>4. RowOf(d)' = r
    BY <2>1, <2>2, <2>3 DEF RowOf
  <2> QED BY <2>4
<1>5. Vacant'
  BY <1>1, <1>2, <1>3 DEF Totals, Vacant
<1>6. IncomeExact'
  <2> SUFFICES ASSUME NEW d \in Deeds, RowsOf(d)' # {}, <<"income", d>> \notin raced'
               PROVE  RowOf(d)'.income = Told(<<"income", d>>)'
    BY DEF IncomeExact
  <2>1. CASE RowsOf(d) = {}
    BY <1>1, <1>2, <1>4, <2>1 DEF Totals, Vacant
  <2>2. CASE RowsOf(d) # {}
    BY <1>1, <1>2, <1>3, <2>2 DEF Totals, IncomeExact
  <2> QED BY <2>1, <2>2
<1>7. \A d \in Deeds : Due(d)' = Due(d)
  BY <1>2 DEF Due, FirstRank
<1>8. MinersPaid'
  <2>1. ASSUME NEW d \in Deeds, RowsOf(d)' # {}
        PROVE  /\ Rank(RowOf(d)'.level) <= Due(d)
               /\ <<"level", d>> \notin raced' => Rank(RowOf(d)'.level) = Due(d)
    <3>1. CASE RowsOf(d) = {}
      <4>1. FirstRank(d) = 0 /\ Told(<<"level", d>>) = 0
        BY <1>1, <3>1, FirstRung DEF Totals, Vacant
      <4>2. Due(d) = 0
        BY <4>1, MinOfTwo DEF Due
      <4> QED BY <1>4, <2>1, <3>1, <4>2 DEF Rank
    <3>2. CASE RowsOf(d) # {}
      BY <1>1, <1>2, <1>3, <3>2 DEF Totals, MinersPaid, Due
    <3> QED BY <3>1, <3>2
  <2> QED BY <1>7, <2>1 DEF MinersPaid, Due, FirstRank
<1>9. \A q \in Players : Fresh(flow[q])'
  BY <1>1, <1>3, CommitFresh DEF SumInv
<1> QED BY <1>2, <1>5, <1>6, <1>8, <1>9 DEF SumInv, Totals

\* A sale moves the property with its miners and its income, an upgrade adds the rung that
\* was paid for, and a fee adds itself.
LEMMA WriteSums ==
    ASSUME BoardInv, BoardInv', SumInv, NEW p \in Players, NEW ok \in BOOLEAN, WriteDeed(p, ok)
    PROVE  SumInv'
<1> DEFINE f == flow[p]
           x == Thing(f)
<1>1. /\ f \in Flow /\ Knowing(f) /\ Fresh(f) /\ f.at = "write" /\ Commit(p, ok) /\ pot' = pot
      /\ f.kind \in {"buy", "upgrade", "fee"} /\ f.deed \in Deeds /\ Totals /\ Tables
  BY DEF WriteDeed, BoardInv, Flows, Knowing, SumInv
<1>2. /\ f.kind = "buy" => x = <<"owner", f.deed>>
      /\ f.kind = "upgrade" => x = <<"level", f.deed>>
      /\ f.kind = "fee" => x = <<"income", f.deed>>
      /\ x # Pot
  BY <1>1 DEF Thing, Pot
<1>3. /\ \A y \in Things : x # y => Told(y)' = Told(y)
      /\ \A y \in Things : x = y => Told(y)' = Told(y) + f.amount
      /\ PotExact'
  BY <1>1, <1>2, OtherTotals
<1>4. /\ \A d \in Deeds : RowsOf(d)' = RowsOf(d)
      /\ \A d \in Deeds : RowsOf(d) # {} =>
           /\ RowOf(d)'.level = IF d = f.deed /\ f.kind = "upgrade" THEN Upgraded(f.seen)
                                ELSE RowOf(d).level
           /\ RowOf(d)'.income = IF d = f.deed /\ f.kind = "fee" THEN f.seen + f.amount
                                 ELSE RowOf(d).income
  BY <1>1, Written, Fields
<1>5. raced \subseteq raced' /\ \A y \in Things : y = x /\ y \notin raced' => ~f.stale
  BY <1>1, CommitTells
<1> HIDE DEF x
<1>6. ASSUME NEW d \in Deeds, RowsOf(d) # {}, <<"income", d>> \notin raced'
      PROVE  RowOf(d)'.income = Told(<<"income", d>>)'
  <2>1. RowOf(d).income = Told(<<"income", d>>) /\ <<"income", d>> \in Things
    BY <1>1, <1>5, <1>6, ThingsAre DEF Totals, IncomeExact
  <2>2. CASE f.kind = "fee" /\ d = f.deed
    <3>1. ~f.stale /\ x = <<"income", d>>
      BY <1>2, <1>5, <1>6, <2>1, <2>2
    <3>2. f.seen = RowOf(d).income
      BY <1>1, <2>2, <3>1 DEF Fresh
    <3> QED BY <1>3, <1>4, <1>6, <2>1, <2>2, <3>1, <3>2
  <2>3. CASE ~(f.kind = "fee" /\ d = f.deed)
    <3>1. x # <<"income", d>>
      BY <1>1, <1>2, <2>3
    <3> QED BY <1>3, <1>4, <1>6, <2>1, <2>3, <3>1
  <2> QED BY <2>2, <2>3
<1>7. ASSUME NEW d \in Deeds, RowsOf(d) # {}
      PROVE  /\ Rank(RowOf(d)'.level) <= Due(d)'
             /\ <<"level", d>> \notin raced' => Rank(RowOf(d)'.level) = Due(d)'
  <2>1. /\ Rank(RowOf(d).level) <= Due(d)
        /\ <<"level", d>> \notin raced => Rank(RowOf(d).level) = Due(d)
        /\ <<"level", d>> \in Things /\ Due(d) \in Int
    BY <1>1, <1>7, ThingsAre, DueIs DEF Totals, MinersPaid, Due
  <2>2. CASE f.kind = "upgrade" /\ d = f.deed
    <3>1. x = <<"level", d>> /\ f.amount = 1 /\ f.seen \in Levels /\ Rank(f.seen) <= Due(d)
          /\ RowOf(d)'.level = Upgraded(f.seen)
      BY <1>1, <1>2, <1>4, <1>7, <2>2 DEF Fresh, Knowing
    <3>2. Told(<<"level", d>>)' = Told(<<"level", d>>) + 1
      BY <1>3, <2>1, <3>1
    <3>3. Due(d)' = IF Due(d) = 5 THEN 5 ELSE Due(d) + 1
      BY <3>2, DueGrows
    <3>4. Rank(f.seen) \in 0 .. 5
          /\ Rank(RowOf(d)'.level) = IF Rank(f.seen) = 5 THEN 5 ELSE Rank(f.seen) + 1
      BY <3>1, Rungs
    <3>5. <<"level", d>> \notin raced' => Rank(f.seen) = Due(d)
      <4> SUFFICES ASSUME <<"level", d>> \notin raced' PROVE Rank(f.seen) = Due(d)
        OBVIOUS
      <4>1. ~f.stale /\ <<"level", d>> \notin raced
        BY <1>5, <2>1, <3>1
      <4>2. f.seen = RowOf(d).level
        BY <1>1, <2>2, <4>1 DEF Fresh
      <4> QED BY <2>1, <4>1, <4>2
    <3>6. Due(d) <= 5
      <4>1. FirstRank(d) \in Int /\ Told(<<"level", d>>) \in Int
        BY DueIs, FirstRung
      <4> DEFINE m == FirstRank(d) + Told(<<"level", d>>)
      <4>2. m \in Int /\ Due(d) = IF 5 <= m THEN 5 ELSE m
        BY <4>1, DueIs
      <4> HIDE DEF m
      <4> QED BY <4>2
    <3> DEFINE r == Rank(f.seen)
               rr == Rank(RowOf(d)'.level)
               e == Due(d)
               ee == Due(d)'
    <3>7. /\ r \in 0 .. 5 /\ e \in Int /\ r <= e /\ e <= 5
          /\ rr = IF r = 5 THEN 5 ELSE r + 1
          /\ ee = IF e = 5 THEN 5 ELSE e + 1
      BY <2>1, <3>1, <3>3, <3>4, <3>6
    <3>8. <<"level", d>> \notin raced' => r = e
      BY <3>5
    <3> HIDE DEF r, rr, e, ee
    <3>9. rr <= ee /\ (<<"level", d>> \notin raced' => rr = ee)
      BY <3>7, <3>8
    <3> QED BY <3>9 DEF rr, ee
  <2>3. CASE ~(f.kind = "upgrade" /\ d = f.deed)
    <3>1. x # <<"level", d>>
      BY <1>1, <1>2, <2>3
    <3>2. Told(<<"level", d>>)' = Told(<<"level", d>>)
      BY <1>3, <2>1, <3>1
    <3>3. Due(d)' = Due(d)
      BY <3>2 DEF Due, FirstRank
    <3>4. RowOf(d)'.level = RowOf(d).level
      BY <1>4, <1>7, <2>3
    <3> QED BY <1>5, <2>1, <3>3, <3>4
  <2> QED BY <2>2, <2>3
<1>8. Vacant'
  <2>1. ASSUME NEW d \in Deeds, RowsOf(d) = {}
        PROVE  /\ Told(<<"income", d>>)' = Told(<<"income", d>>)
               /\ Told(<<"level", d>>)' = Told(<<"level", d>>)
    <3>1. f.kind \in {"upgrade", "fee"} => d # f.deed
      BY <1>1, <2>1 DEF Knowing
    <3>2. x # <<"income", d>> /\ x # <<"level", d>>
      BY <1>1, <1>2, <3>1
    <3> QED BY <1>3, <3>2, ThingsAre
  <2> QED BY <1>1, <1>4, <2>1 DEF Totals, Vacant
<1>9. IncomeExact' /\ MinersPaid'
  BY <1>4, <1>6, <1>7 DEF IncomeExact, MinersPaid, Due, FirstRank
<1>10. \A q \in Players : Fresh(flow[q])'
  <2>1. \A d \in Deeds : RowsOf(d) # {} =>
               /\ x # <<"income", d>> => RowOf(d)'.income = RowOf(d).income
               /\ x # <<"level", d>> => RowOf(d)'.level = RowOf(d).level
    BY <1>1, <1>2, <1>4
  <2> QED BY <1>1, <2>1, CommitFresh DEF SumInv, x
<1> QED BY <1>3, <1>8, <1>9, <1>10 DEF SumInv, Totals

\* A fine goes into the pot, and a claim takes all of it out.
LEMMA PotSums ==
    ASSUME BoardInv, BoardInv', SumInv, NEW p \in Players, NEW ok \in BOOLEAN, WritePot(p, ok)
    PROVE  SumInv'
<1> DEFINE f == flow[p]
<1>1. /\ f \in Flow /\ f.amount \in Nat /\ Fresh(f) /\ f.at = "write" /\ f.kind \in {"fine", "claim"}
      /\ Commit(p, ok) /\ rows' = rows /\ Thing(f) = Pot /\ Totals
  BY DEF WritePot, BoardInv, Flows, Flow, SumInv, Thing, Pot
<1>2. /\ \A y \in Things : y # Pot => Told(y)' = Told(y)
      /\ f.kind = "claim" => Told(Pot)' = Told(Pot)
      /\ f.kind # "claim" => Told(Pot)' = Told(Pot) + f.amount
  BY <1>1, OtherTotals, ThingsAre
<1>3. /\ raced \subseteq raced' /\ (Pot \notin raced' => ~f.stale)
      /\ Claims \in Nat /\ Claims' = Claims - Out(f) /\ Told(Pot) \in Int
  BY <1>1, CommitTells, ThingsAre
<1>4. \A d \in Deeds : /\ RowsOf(d)' = RowsOf(d) /\ RowOf(d)' = RowOf(d)
                       /\ Told(<<"income", d>>)' = Told(<<"income", d>>)
                       /\ Told(<<"level", d>>)' = Told(<<"level", d>>)
  BY <1>1, <1>2, ThingsAre DEF RowsOf, RowOf, Pot
<1>5. \A d \in Deeds : Due(d)' = Due(d)
  BY <1>4 DEF Due, FirstRank
<1>6. Vacant' /\ IncomeExact'
  BY <1>1, <1>3, <1>4 DEF Totals, Vacant, IncomeExact
<1>7. MinersPaid'
  <2>1. \A d \in Deeds : RowsOf(d) # {} =>
              /\ Rank(RowOf(d).level) <= Due(d)
              /\ <<"level", d>> \notin raced => Rank(RowOf(d).level) = Due(d)
    BY <1>1 DEF Totals, MinersPaid, Due
  <2>2. ASSUME NEW d \in Deeds, RowsOf(d)' # {}
        PROVE  /\ Rank(RowOf(d)'.level) <= Due(d)'
               /\ <<"level", d>> \notin raced' => Rank(RowOf(d)'.level) = Due(d)'
    BY <1>3, <1>4, <1>5, <2>1, <2>2
  <2> QED BY <2>2 DEF MinersPaid, Due, FirstRank
<1>8. ASSUME Pot \notin raced' PROVE pot' + claimed' = Told(Pot)' + Claims'
  <2>1. ~f.stale /\ pot + claimed = Told(Pot) + Claims /\ claimed' = claimed
    BY <1>1, <1>3, <1>8 DEF Totals, PotExact, Claims, Commit
  <2>2. pot \in Nat /\ claimed \in Nat
    BY DEF BoardInv, Tables, Recorded
  <2> DEFINE a == f.amount
             c == Claims
             cc == Claims'
             t == Told(Pot)
             tt == Told(Pot)'
             n == pot
             nn == pot'
             m == claimed
  <2>3. CASE f.kind = "fine"
    <3>1. f.seen = pot /\ Out(f) = 0 /\ pot' = f.seen + f.amount
      BY <1>1, <2>1, <2>3 DEF Fresh, Out, WritePot, PotAfter
    <3>2. /\ nn = n + a /\ tt = t + a /\ cc = c - 0 /\ n + m = t + c
          /\ n \in Nat /\ a \in Nat /\ t \in Int /\ c \in Nat /\ m \in Nat
      BY <1>1, <1>2, <1>3, <2>1, <2>2, <2>3, <3>1
    <3> HIDE DEF a, c, cc, t, tt, n, nn, m
    <3>3. nn + m = tt + cc
      BY <3>2
    <3> QED BY <2>1, <3>3 DEF nn, m, tt, cc
  <2>4. CASE f.kind = "claim"
    <3>1. f.amount = pot /\ Out(f) = f.amount /\ pot' = 0
      BY <1>1, <2>1, <2>4 DEF Fresh, Window, Out, WritePot, PotAfter
    <3>2. /\ nn = 0 /\ tt = t /\ cc = c - a /\ n + m = t + c /\ a = n
          /\ n \in Nat /\ a \in Nat /\ t \in Int /\ c \in Nat /\ m \in Nat
      BY <1>1, <1>2, <1>3, <2>1, <2>2, <2>4, <3>1
    <3> HIDE DEF a, c, cc, t, tt, n, nn, m
    <3>3. nn + m = tt + cc
      BY <3>2
    <3> QED BY <2>1, <3>3 DEF nn, m, tt, cc
  <2> QED BY <1>1, <2>3, <2>4
<1>9. PotExact'
  BY <1>8 DEF PotExact, Claims, Pot
<1>10. \A q \in Players : Fresh(flow[q])'
  BY <1>1, <1>4, CommitFresh DEF SumInv
<1> QED BY <1>6, <1>7, <1>9, <1>10 DEF SumInv, Totals

-----------------------------------------------------------------------------
\* When the model begins nothing was paid, and the miners are those of the first rows.
LEMMA InitSums == Init => SumInv
<1> SUFFICES ASSUME Init PROVE SumInv
  OBVIOUS
<1>1. BoardInv /\ rows = Dealt /\ pot = 0 /\ claimed = 0
  BY InitBoard DEF Init
<1>2. \A p \in Players : flow[p] = Idle
  BY DEF Init
<1>3. PaidOut = {} /\ \A x \in Things : Untold(x) = {} /\ paid[x] = 0 /\ lost[x] = 0
  BY <1>2 DEF Init, PaidOut, Untold, Idle
<1>4. \A x \in Things : Told(x) = 0
  BY <1>3, SumEmpty DEF Told
<1>5. Claims = 0
  BY <1>3, SumEmpty DEF Claims
<1>6. \A d \in Deeds : RowsOf(d) = {i \in DOMAIN Dealt : Dealt[i].deed = d}
  BY <1>1 DEF RowsOf
<1>7. ASSUME NEW d \in Deeds, RowsOf(d) # {}
      PROVE  /\ RowOf(d).income = 0 /\ RowOf(d).level \in Levels
             /\ Rank(RowOf(d).level) = FirstRank(d)
  <2> DEFINE D == [deed : Deeds, owner : Players, level : {0, 1, 2, 3, 4, 10}, income : {0}]
  <2>1. Dealt \in Seq(D)
    BY BoardAssumption
  <2>2. Min(RowsOf(d)) \in DOMAIN Dealt /\ RowOf(d) = Dealt[Min(RowsOf(d))]
    BY <1>1, <1>7, FoundRow DEF RowsOf, RowOf, BoardInv
  <2> HIDE DEF D
  <2>3. RowOf(d) \in D
    BY <2>1, <2>2
  <2>4. FirstRank(d) = Rank(Dealt[Min(RowsOf(d))].level)
    BY <1>6, <1>7 DEF FirstRank
  <2> QED BY <2>2, <2>3, <2>4 DEF D, Levels
<1>8. Vacant
  BY <1>4, <1>6, ThingsAre DEF Vacant
<1>9. PotExact
  BY <1>1, <1>4, <1>5, ThingsAre DEF PotExact, Claims
<1>10. IncomeExact
  BY <1>4, <1>7, ThingsAre DEF IncomeExact
<1>11. MinersPaid
  <2>1. ASSUME NEW d \in Deeds, RowsOf(d) # {} PROVE Rank(RowOf(d).level) = Due(d)
    <3>1. FirstRank(d) \in 0 .. 5 /\ Told(<<"level", d>>) = 0
      BY <1>4, FirstRung, ThingsAre
    <3>2. Due(d) = FirstRank(d)
      BY <1>1, <3>1, DueIs
    <3> QED BY <1>7, <2>1, <3>2
  <2>2. \A d \in Deeds : RowsOf(d) # {} => Due(d) \in Int
    BY <1>1, DueIs
  <2>3. \A d \in Deeds : RowsOf(d) # {} =>
          Rank(RowOf(d).level) <= Due(d) /\ Rank(RowOf(d).level) = Due(d)
    BY <2>1, <2>2
  <2> QED BY <2>3 DEF MinersPaid, Due
<1>12. \A p \in Players : Fresh(flow[p])
  BY <1>2 DEF Fresh, Idle
<1> QED BY <1>8, <1>9, <1>10, <1>11, <1>12 DEF SumInv, Totals

\* Every step keeps the sums.
LEMMA NextSums == BoardInv /\ SumInv /\ [Next]_vars => SumInv'
<1> SUFFICES ASSUME BoardInv, SumInv, [Next]_vars PROVE SumInv'
  OBVIOUS
<1>1. BoardInv'
  BY NextBoard
<1>2. ASSUME NEW p \in Players, Serve(p) PROVE SumInv'
  BY <1>1, <1>2, RegisterSums, WriteSums, PotSums DEF Serve
<1>3. ASSUME NEW p \in Players, Progress(p) PROVE SumInv'
  BY <1>1, <1>2, <1>3, PaySums, FailSums, ReadSums DEF Progress
<1>4. ASSUME UNCHANGED <<tables, flow, history>> PROVE SumInv'
  <2>1. \A x \in Things : Told(x)' = Told(x)
    BY <1>4 DEF Told, Untold, Amounts, history
  <2>2. claimed' - Claims' = claimed - Claims
    BY <1>4 DEF Claims, PaidOut, Amounts, history
  <2>3. Totals' /\ \A d \in Deeds : Due(d)' = Due(d) /\ RowOf(d)' = RowOf(d)
    BY <1>1, <1>4, <2>1, <2>2, QuietTotals DEF SumInv, tables, history
  <2>4. ASSUME NEW q \in Players PROVE Fresh(flow[q])'
    <3>1. Fresh(flow[q]) /\ flow'[q] = flow[q] /\ pot' = pot
      BY <1>4 DEF SumInv, tables
    <3>2. flow[q].kind \in {"upgrade", "fee"} => flow[q].deed \in Deeds
      BY DEF BoardInv, Flows, Knowing
    <3> QED BY <2>3, <3>1, <3>2 DEF Fresh, Window
  <2> QED BY <2>3, <2>4 DEF SumInv
<1>5. ASSUME NEW p \in Players, Reload(p) PROVE SumInv'
  BY <1>4, <1>5 DEF Reload
<1>6. CASE UNCHANGED vars
  BY <1>4, <1>6 DEF vars
<1> QED BY <1>1, <1>3, <1>5, <1>6, BeginSums DEF Next

\* The sums hold in every state of a board.
LEMMA SumInvHolds == Spec => []SumInv
BY InitSums, NextSums, BoardInvHolds, PTL DEF Spec

\* What the sums say of each table.
LEMMA SumsSay == SumInv => PotExact /\ IncomeExact /\ MinersPaid
BY DEF SumInv, Totals

\* The pot and what was claimed of it are the fines that were paid and told, whatever fails,
\* as long as no two requests on the pot overlap (update_cumulated_fines,
\* claim_cumulated_fines).
THEOREM PotIsExact == Spec => []PotExact
BY SumInvHolds, SumsSay, PTL

\* The income of a property is what was paid for it, whatever fails and whoever owns it, as
\* long as no two fees of it overlap (update_property_income).
THEOREM IncomesAreExact == Spec => []IncomeExact
BY SumInvHolds, SumsSay, PTL

\* A property never has more miners than were paid for, whatever overlaps, and no fewer
\* unless two upgrades of it did (upgrade_property_miners).
THEOREM MinersArePaid == Spec => []MinersPaid
BY SumInvHolds, SumsSay, PTL

=============================================================================
