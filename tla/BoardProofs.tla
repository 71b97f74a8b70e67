----------------------------- MODULE BoardProofs -----------------------------
(***************************************************************************)
(* Theorems about Board, for any players, properties, fines and flows.     *)
(***************************************************************************)
EXTENDS Board, FiniteSetTheorems, WellFoundedInduction, TLAPS

USE BoardAssumption

\* The order of the numbers, as a relation.
Less == {ss \in Nat \X Nat : ss[1] < ss[2]}

\* Every set of numbers has a least one.
LEMMA LessWellFounded == IsWellFoundedOn(Less, Nat)
BY NatLessThanWellFounded DEF OpToRel, Less

\* The first of some rows is one of them.
LEMMA FirstRow ==
    ASSUME NEW S \in SUBSET Nat, S # {}
    PROVE  Min(S) \in S /\ \A y \in S : Min(S) <= y
<1>1. PICK x \in S : \A y \in S : ~ (<<y, x>> \in Less)
  BY LessWellFounded, WFMin
<1>2. ASSUME NEW y \in S PROVE x <= y
  <2>1. x \in Nat /\ y \in Nat /\ ~ (<<y, x>> \in Less)
    BY <1>1
  <2>2. ~ (y < x)
    BY <2>1 DEF Less
  <2> QED BY <2>1, <2>2
<1> QED BY <1>2 DEF Min

\* There is only one first row.
LEMMA FirstIs ==
    ASSUME NEW S \in SUBSET Nat, NEW x \in S, \A y \in S : x <= y
    PROVE  Min(S) = x
<1>1. Min(S) \in S /\ Min(S) <= x
  BY FirstRow
<1>2. x <= Min(S) /\ x \in Nat /\ Min(S) \in Nat
  BY <1>1
<1> QED BY <1>1, <1>2

Flow == [kind : Kinds \cup {"none"}, at : {"look", "pay", "save", "write", "done"},
         deed : Deeds \cup {NoDeed}, amount : Nat, to : Players \cup {Market},
         seen : Nat, stale : BOOLEAN]

\* What a player's flow knows of the tables: there is a row of what is upgraded or
\* charged for; a capacity that was read is one of the ladder; and a buyer who asked for
\* the owner pays the owner there is, as long as nobody else has bought since.
Knowing(f) ==
    /\ f.at # "done" => f.kind \in Kinds
    /\ f.kind \in {"buy", "upgrade", "fee"} => f.deed \in Deeds
    /\ f.kind \in {"upgrade", "fee"} => RowsOf(f.deed) # {}
    /\ f.kind = "upgrade" /\ f.at = "write" => f.seen \in Levels
    /\ f.kind = "buy" /\ Window(f) /\ ~f.stale => f.to = Seller(f.deed)

Tables   == rows \in Seq(Row) /\ pot \in Nat
Flows    == flow \in [Players -> Flow] /\ \A p \in Players : Knowing(flow[p])
Recorded ==
    /\ blocked \in [Players -> SUBSET {"fee", "fine"}]
    /\ paid \in [Things -> Nat] /\ lost \in [Things -> Nat] /\ claimed \in Nat
    /\ raced \subseteq Things /\ begun \in 0 .. MaxFlows

\* The inductive invariant.
BoardInv == Tables /\ Flows /\ Recorded

\* What the invariant says of types is the type invariant.
LEMMA BoardInvTypes == BoardInv => TypeOK
BY DEF BoardInv, Tables, Flows, Recorded, TypeOK, Flow

\* get_property returns a row of the property.
LEMMA FoundRow ==
    ASSUME Tables, NEW d \in Deeds, RowsOf(d) # {}
    PROVE  /\ RowOf(d) \in Row /\ RowOf(d).deed = d /\ RowOf(d).owner \in Players
           /\ RowOf(d).level \in Levels /\ RowOf(d).income \in Nat
           /\ Min(RowsOf(d)) \in RowsOf(d)
<1>1. RowsOf(d) \in SUBSET Nat
  BY DEF RowsOf, Tables
<1>2. Min(RowsOf(d)) \in RowsOf(d)
  BY <1>1, FirstRow
<1>3. RowOf(d) \in Row /\ RowOf(d).deed = d
  BY <1>2 DEF RowsOf, RowOf, Tables
<1> QED BY <1>2, <1>3 DEF Row

\* The market sells what has no row, and only that.
LEMMA SellerIs ==
    ASSUME Tables, NEW d \in Deeds
    PROVE  Seller(d) \in Players \cup {Market} /\ (Seller(d) = Market <=> RowsOf(d) = {})
BY FoundRow DEF Seller

\* The properties there are when the model begins have one row each.
LEMMA DealtOnce ==
    ASSUME Init
    PROVE  Tables /\ \A d \in Deeds : Cardinality(RowsOf(d)) <= 1
<1>1. Tables
  <2>1. DOMAIN Dealt = 1 .. Len(Dealt) /\ Len(Dealt) \in Nat
    OBVIOUS
  <2>2. \A i \in 1 .. Len(Dealt) : Dealt[i] \in Row
    <3> DEFINE D == [deed : Deeds, owner : Players, level : {0, 1, 2, 3, 4, 10},
                     income : {0}]
    <3>1. Dealt \in Seq(D)
      OBVIOUS
    <3>2. D \subseteq Row
      BY DEF Row, Levels
    <3> HIDE DEF D
    <3>3. \A i \in 1 .. Len(Dealt) : Dealt[i] \in D
      BY <3>1
    <3> QED BY <3>2, <3>3
  <2>3. Dealt \in Seq(Row)
    BY <2>1, <2>2
  <2> QED BY <2>3 DEF Init, Tables
<1>2. ASSUME NEW d \in Deeds PROVE Cardinality(RowsOf(d)) <= 1
  <2>1. \A i, j \in RowsOf(d) : i = j
    BY DEF Init, RowsOf
  <2>2. CASE RowsOf(d) = {}
    BY <2>2, FS_EmptySet
  <2>3. CASE RowsOf(d) # {}
    <3>1. PICK i : RowsOf(d) = {i}
      BY <2>1, <2>3
    <3>2. Cardinality({i}) = 1
      BY FS_Singleton
    <3> QED BY <3>1, <3>2
  <2> QED BY <2>2, <2>3
<1> QED BY <1>1, <1>2

\* The invariant holds when the model begins.
LEMMA InitBoard == Init => BoardInv
<1> SUFFICES ASSUME Init PROVE BoardInv
  OBVIOUS
<1>1. Idle \in Flow
  BY DEF Idle, Flow
<1>2. Knowing(Idle)
  BY DEF Idle, Knowing, Window
<1>3. Recorded
  BY DEF Init, Recorded
<1> QED BY <1>1, <1>2, <1>3, DealtOnce DEF Init, Flows, BoardInv

-----------------------------------------------------------------------------
\* A step of one player's flow that writes nothing.
LEMMA OneFlows ==
    ASSUME BoardInv, rows' = rows, pot' = pot, NEW p \in Players, NEW g \in Flow, Knowing(g),
           flow' = [flow EXCEPT ![p] = g]
    PROVE  Tables' /\ Flows'
<1>1. Tables'
  BY DEF BoardInv, Tables
<1>2. flow' \in [Players -> Flow]
  BY DEF BoardInv, Flows
<1>3. \A f : Knowing(f)' <=> Knowing(f)
  BY DEF Knowing, RowsOf, Seller, RowOf
<1>4. \A q \in Players : Knowing(flow'[q])
  BY DEF BoardInv, Flows
<1>5. ASSUME NEW q \in Players PROVE Knowing(flow[q])'
  BY <1>4 DEF Knowing, RowsOf, Seller, RowOf
<1> QED BY <1>1, <1>2, <1>5 DEF Flows

\* What a player begins, knows what it has to.
LEMMA BeginKeeps ==
    ASSUME BoardInv, NEW p \in Players,
           \/ \E d \in Deeds : BeginPurchase(p, d) \/ BeginUpgrade(p, d) \/ BeginFee(p, d)
           \/ BeginFine(p) \/ BeginClaim(p)
    PROVE  BoardInv'
<1> USE DEF BoardInv
<1>1. ASSUME NEW kind \in Kinds, NEW at \in {"look", "pay", "save"}, NEW d \in Deeds \cup {NoDeed},
             NEW amount \in Nat, NEW to \in Players \cup {Market}, Begin(p, kind, at, d, amount, to),
             kind \in {"buy", "upgrade", "fee"} => d \in Deeds,
             kind \in {"upgrade", "fee"} => RowsOf(d) # {},
             kind = "buy" => at = "look"
      PROVE  BoardInv'
  <2> DEFINE g == [Idle EXCEPT !.kind = kind, !.at = at, !.deed = d, !.amount = amount, !.to = to]
  <2>1. Idle \in Flow
    BY DEF Idle, Flow
  <2>4. /\ g \in Flow
        /\ g.kind = kind /\ g.at = at /\ g.deed = d
    BY <2>1 DEF Flow
  <2>2. flow' = [flow EXCEPT ![p] = g] /\ UNCHANGED <<rows, pot, blocked, paid, lost, claimed, raced>>
    BY <1>1 DEF Begin, tables
  <2>3. begun' \in 0 .. MaxFlows
    BY <1>1 DEF Begin, Recorded
  <2> HIDE DEF g
  <2>5. Knowing(g)
    BY <1>1, <2>4 DEF Knowing, Window
  <2>6. Tables' /\ Flows'
    BY <2>2, <2>4, <2>5, OneFlows
  <2> QED BY <2>2, <2>3, <2>6 DEF Recorded
<1>2. ASSUME NEW d \in Deeds, BeginPurchase(p, d) PROVE BoardInv'
  BY <1>1, <1>2 DEF BeginPurchase, Kinds
<1>3. ASSUME NEW d \in Deeds, BeginUpgrade(p, d) PROVE BoardInv'
  BY <1>1, <1>3 DEF BeginUpgrade, Kinds
<1>4. ASSUME NEW d \in Deeds, BeginFee(p, d) PROVE BoardInv'
  <2>1. RowsOf(d) # {} /\ RowOf(d).owner \in Players /\ RowOf(d).level \in Levels
    BY <1>4, FoundRow DEF BeginFee
  <2>2. Fee(RowOf(d).level) \in Nat
    BY <2>1 DEF Fee, Levels
  <2> QED BY <1>1, <1>4, <2>1, <2>2 DEF BeginFee, Kinds
<1>5. ASSUME BeginFine(p) PROVE BoardInv'
  <2>1. PICK amount \in Fines : Begin(p, "fine", "pay", NoDeed, amount, Market)
    BY <1>5 DEF BeginFine
  <2> QED BY <1>1, <2>1 DEF Kinds
<1>6. ASSUME BeginClaim(p) PROVE BoardInv'
  BY <1>1, <1>6 DEF BeginClaim, Kinds
<1> QED BY <1>2, <1>3, <1>4, <1>5, <1>6

\* The value a flow is about is one of the tables'.
LEMMA ThingIs ==
    ASSUME BoardInv, NEW p \in Players, flow[p].at # "done"
    PROVE  Thing(flow[p]) \in Things
BY DEF BoardInv, Flows, Knowing, Flow, Kinds, Thing, Things

\* A flow that is over knows nothing any more.
LEMMA OverKeeps ==
    ASSUME BoardInv, rows' = rows, pot' = pot, NEW p \in Players, NEW ok \in BOOLEAN, Over(p, ok)
    PROVE  Tables' /\ Flows' /\ blocked' \in [Players -> SUBSET {"fee", "fine"}]
<1>1. Idle \in Flow /\ Knowing(Idle)
  BY DEF Idle, Flow, Knowing, Window
<1>2. Tables' /\ Flows'
  BY <1>1, OneFlows DEF Over
<1>3. blocked' \in [Players -> SUBSET {"fee", "fine"}]
  BY DEF Over, Blocked, BoardInv, Recorded
<1> QED BY <1>2, <1>3

\* Asking for the owner, paying, and what fails before the server writes.
LEMMA AskKeeps ==
    ASSUME BoardInv, NEW p \in Players, Look(p) \/ Pay(p) \/ PayFails(p) \/ SaveFails(p)
    PROVE  BoardInv'
<1> USE DEF BoardInv
<1> DEFINE f == flow[p]
<1>1. f \in Flow /\ Knowing(f) /\ rows' = rows /\ pot' = pot
  BY DEF Flows, Look, Pay, PayFails, SaveFails, tables
<1>2. CASE Look(p)
  <2> DEFINE g == [f EXCEPT !.at = "pay", !.to = Seller(f.deed)]
  <2>1. f.at = "look" /\ flow' = [flow EXCEPT ![p] = g]
    BY <1>2 DEF Look, Flows
  <2>2. g.at = "pay" /\ g.to = Seller(g.deed) /\ g.kind = f.kind /\ g.deed = f.deed
    BY <1>1 DEF Flow
  <2>3. Seller(f.deed) \in Players \cup {Market}
    <3>1. CASE f.deed \in Deeds
      BY <3>1, SellerIs
    <3>2. CASE f.deed \notin Deeds
      <4>1. RowsOf(f.deed) = {}
        <5>1. \A i \in DOMAIN rows : rows[i] \in Row
          BY DEF Tables
        <5> QED BY <3>2, <5>1 DEF RowsOf, Row
      <4> QED BY <4>1 DEF Seller
    <3> QED BY <3>1, <3>2
  <2>4. g \in Flow
    BY <1>1, <2>3 DEF Flow
  <2>5. Knowing(g)
    BY <1>1, <2>1, <2>2 DEF Knowing
  <2> HIDE DEF g
  <2>6. Tables' /\ Flows'
    BY <1>1, <2>1, <2>4, <2>5, OneFlows
  <2> QED BY <1>2, <2>6 DEF Look, Recorded, history
<1>3. CASE Pay(p)
  <2> DEFINE s == IF f.kind = "claim" THEN "write" ELSE "save"
             g == [f EXCEPT !.at = s]
  <2>1. f.at = "pay" /\ flow' = [flow EXCEPT ![p] = g]
    BY <1>3 DEF Pay, Flows
  <2>2. g.at = s /\ g.to = f.to /\ g.kind = f.kind /\ g.deed = f.deed /\ g.stale = f.stale
    BY <1>1 DEF Flow
  <2>3. g \in Flow
    BY <1>1 DEF Flow
  <2>4. Knowing(g)
    BY <1>1, <2>1, <2>2 DEF Knowing, Window
  <2>5. paid' \in [Things -> Nat] /\ claimed' \in Nat
    <3>1. f.amount \in Nat
      BY <1>1 DEF Flow
    <3>2. \/ paid' = paid /\ claimed' = claimed + f.amount
          \/ paid' = [paid EXCEPT ![Thing(f)] = paid[Thing(f)] + f.amount] /\ claimed' = claimed
      BY <1>3 DEF Pay
    <3> HIDE DEF f
    <3> QED BY <3>1, <3>2 DEF Recorded
  <2> HIDE DEF g
  <2>6. Tables' /\ Flows'
    BY <1>1, <2>1, <2>3, <2>4, OneFlows
  <2> QED BY <1>3, <2>5, <2>6 DEF Pay, Recorded
<1>4. CASE PayFails(p)
  BY <1>1, <1>4, OverKeeps DEF PayFails, Recorded, history
<1>5. CASE SaveFails(p)
  <2>1. lost' \in [Things -> Nat]
    <3>1. f.amount \in Nat
      BY <1>1 DEF Flow
    <3>2. lost' = lost \/ lost' = [lost EXCEPT ![Thing(f)] = lost[Thing(f)] + f.amount]
      BY <1>5 DEF SaveFails
    <3> HIDE DEF f
    <3> QED BY <3>1, <3>2 DEF Recorded
  <2>2. Tables' /\ Flows' /\ blocked' \in [Players -> SUBSET {"fee", "fine"}]
    BY <1>1, <1>5, OverKeeps DEF SaveFails
  <2> QED BY <1>5, <2>1, <2>2 DEF SaveFails, Recorded
<1> QED BY <1>2, <1>3, <1>4, <1>5

\* The server reads what it will write.
LEMMA ReadKeeps ==
    ASSUME BoardInv, NEW p \in Players, Read(p)
    PROVE  BoardInv'
<1> USE DEF BoardInv
<1> DEFINE f == flow[p]
           g == CASE f.kind = "claim" -> [f EXCEPT !.at = "pay", !.amount = pot]
                [] f.kind = "fine" -> [f EXCEPT !.at = "write", !.seen = pot]
                [] f.kind = "fee" ->
                     [f EXCEPT !.at = "write", !.seen = RowOf(f.deed).income]
                [] f.kind = "upgrade" ->
                     [f EXCEPT !.at = "write", !.seen = RowOf(f.deed).level]
                [] f.kind = "buy" -> [f EXCEPT !.at = "write"]
<1>1. f \in Flow /\ Knowing(f) /\ rows' = rows /\ pot' = pot
  BY DEF Flows, Read, tables
<1>2. f.at = "save" /\ flow' = [flow EXCEPT ![p] = g] /\ UNCHANGED <<blocked, history>>
  BY DEF Read
<1>3. f.kind \in {"upgrade", "fee"} => RowOf(f.deed).level \in Levels /\ RowOf(f.deed).income \in Nat
  BY <1>1, FoundRow DEF Knowing
<1>4. pot \in Nat /\ Levels \subseteq Nat /\ f.kind \in Kinds
  BY <1>1, <1>2 DEF Tables, Levels, Knowing
<1>5. g \in Flow
  BY <1>1, <1>3, <1>4 DEF Flow, Kinds
<1>6. Knowing(g)
  <2>1. CASE f.kind = "claim"
    BY <1>1, <2>1 DEF Knowing, Flow, Kinds
  <2>2. CASE f.kind = "fine"
    BY <1>1, <2>2 DEF Knowing, Flow, Kinds
  <2>3. CASE f.kind = "fee"
    BY <1>1, <2>3 DEF Knowing, Flow, Kinds
  <2>4. CASE f.kind = "upgrade"
    BY <1>1, <1>3, <2>4 DEF Knowing, Flow, Kinds
  <2>5. CASE f.kind = "buy"
    <3>1. Window(f) /\ g.to = f.to /\ g.deed = f.deed /\ g.stale = f.stale /\ g.kind = f.kind
          /\ g.at = "write"
      BY <1>1, <1>2, <2>5 DEF Window, Flow
    <3> QED BY <1>1, <2>5, <3>1 DEF Knowing, Kinds
  <2> QED BY <1>4, <2>1, <2>2, <2>3, <2>4, <2>5 DEF Kinds
<1> HIDE DEF g
<1>7. Tables' /\ Flows'
  BY <1>1, <1>2, <1>5, <1>6, OneFlows
<1> QED BY <1>2, <1>7 DEF Recorded, history

-----------------------------------------------------------------------------
\* A write makes stale what others have read of the same value, and no more than that.
LEMMA CommitKeeps ==
    ASSUME BoardInv, NEW p \in Players, NEW ok \in BOOLEAN, flow[p].at # "done",
           Tables', Commit(p, ok),
           \A d \in Deeds : RowsOf(d) # {} => RowsOf(d)' # {},
           \A d \in Deeds : <<"owner", d>> # Thing(flow[p]) => Seller(d)' = Seller(d)
    PROVE  BoardInv'
<1> USE DEF BoardInv
<1> DEFINE x == Thing(flow[p])
<1>1. x \in Things
  BY ThingIs
<1>2. raced' = (IF flow[p].stale THEN raced \cup {x} ELSE raced) /\ raced' \subseteq Things
  BY <1>1 DEF Commit, Recorded
<1>3. blocked' \in [Players -> SUBSET {"fee", "fine"}]
  BY DEF Commit, Blocked, Recorded
<1>4. flow' = [q \in Players |->
              IF q = p THEN Idle
              ELSE IF Window(flow[q]) /\ Thing(flow[q]) = x
              THEN [flow[q] EXCEPT !.stale = TRUE] ELSE flow[q]]
  BY DEF Commit
<1> HIDE DEF x
<1>5. ASSUME NEW q \in Players
      PROVE  flow'[q] \in Flow /\ Knowing(flow[q])'
  <2> DEFINE f == flow[q]
             g == flow'[q]
  <2>1. f \in Flow /\ Knowing(f)
    BY DEF Flows
  <2>2. CASE q = p
    <3>1. g = Idle
      BY <1>4, <2>2
    <3>2. Idle \in Flow /\ Idle.at = "done" /\ Idle.kind = "none"
      BY DEF Idle, Flow
    <3> QED BY <3>1, <3>2 DEF Knowing
  <2>3. CASE q # p
    <3>1. \/ g = f /\ ~(Window(f) /\ Thing(f) = x)
          \/ g = [f EXCEPT !.stale = TRUE]
      BY <1>4, <2>3
    <3>2. /\ g \in Flow /\ g.kind = f.kind /\ g.at = f.at /\ g.deed = f.deed /\ g.to = f.to
          /\ g.seen = f.seen
          /\ ~g.stale => g = f /\ ~(Window(f) /\ Thing(f) = x)
      BY <2>1, <3>1 DEF Flow
    <3>3. \A d \in Deeds : g.kind \in {"upgrade", "fee"} /\ g.deed = d => RowsOf(d)' # {}
      BY <2>1, <3>2 DEF Knowing
    <3>4. \A d \in Deeds : g.kind = "buy" /\ Window(g) /\ ~g.stale /\ g.deed = d
                            => g.to = Seller(d)'
      <4> SUFFICES ASSUME NEW d \in Deeds, g.kind = "buy", Window(g), ~g.stale, g.deed = d
                   PROVE  g.to = Seller(d)'
        OBVIOUS
      <4>1. g = f /\ Thing(f) # x /\ f.to = Seller(d)
        BY <2>1, <3>2 DEF Knowing
      <4>2. Thing(f) = <<"owner", d>>
        BY <4>1 DEF Thing
      <4>3. Seller(d)' = Seller(d)
        BY <4>1, <4>2 DEF x
      <4> QED BY <4>1, <4>3
    <3>5. /\ g.at # "done" => g.kind \in Kinds
          /\ g.kind \in {"buy", "upgrade", "fee"} => g.deed \in Deeds
          /\ g.kind = "upgrade" /\ g.at = "write" => g.seen \in Levels
      BY <2>1, <3>2 DEF Knowing
    <3>6. Knowing(flow[q])'
      BY <3>3, <3>4, <3>5 DEF Knowing, Window, RowsOf, RowOf, Seller
    <3> QED BY <3>2, <3>6
  <2> QED BY <2>2, <2>3
<1>6. Flows'
  BY <1>4, <1>5 DEF Flows
<1> QED BY <1>2, <1>3, <1>6 DEF Commit, Recorded

\* What the insertion of a row does to the rows of each property: the first row there is
\* stays the first.
LEMMA Registered ==
    ASSUME Tables, NEW p \in Players, NEW ok \in BOOLEAN, Register(p, ok), flow[p].deed \in Deeds
    PROVE  /\ rows' \in Seq(Row)
           /\ Len(rows) + 1 \notin DOMAIN rows
           /\ \A d \in Deeds : RowsOf(d)' = IF d = flow[p].deed THEN RowsOf(d) \cup {Len(rows) + 1}
                                            ELSE RowsOf(d)
           /\ \A d \in Deeds : RowsOf(d) # {} => RowOf(d)' = RowOf(d)
<1> DEFINE r == [deed |-> flow[p].deed, owner |-> p, level |-> 0, income |-> 0]
           n == Len(rows) + 1
<1>1. r \in Row /\ r.deed = flow[p].deed
  BY DEF Row, Levels
<1>2. rows \in Seq(Row) /\ rows' = Append(rows, r)
  BY DEF Tables, Register
<1> HIDE DEF r
<1>3. /\ rows' \in Seq(Row) /\ DOMAIN rows = 1 .. Len(rows) /\ Len(rows) \in Nat
      /\ DOMAIN rows' = 1 .. Len(rows) + 1 /\ rows'[n] = r
      /\ \A i \in DOMAIN rows : rows'[i] = rows[i]
  BY <1>1, <1>2
<1>4. DOMAIN rows' = DOMAIN rows \cup {n} /\ n \notin DOMAIN rows
  BY <1>3
<1>5. ASSUME NEW d \in Deeds
      PROVE  RowsOf(d)' = IF d = flow[p].deed THEN RowsOf(d) \cup {n} ELSE RowsOf(d)
  BY <1>1, <1>3, <1>4 DEF RowsOf
<1>6. ASSUME NEW d \in Deeds, RowsOf(d) # {}
      PROVE  RowOf(d)' = RowOf(d)
  <2> DEFINE m == Min(RowsOf(d))
  <2>1. RowsOf(d) \in SUBSET Nat /\ RowsOf(d) \subseteq DOMAIN rows
    BY <1>3 DEF RowsOf
  <2>2. m \in RowsOf(d) /\ \A y \in RowsOf(d) : m <= y
    BY <1>6, <2>1, FirstRow
  <2>3. m \in Nat /\ m <= n
    BY <1>3, <2>1, <2>2
  <2>4. RowsOf(d)' \in SUBSET Nat /\ m \in RowsOf(d)' /\ \A y \in RowsOf(d)' : m <= y
    BY <1>3, <1>5, <2>1, <2>2, <2>3
  <2> HIDE DEF m
  <2>5. Min(RowsOf(d)') = m
    BY <2>4, FirstIs
  <2>6. rows'[m] = rows[m]
    BY <1>3, <2>1, <2>2
  <2> QED BY <2>5, <2>6 DEF RowOf, m
<1> QED BY <1>3, <1>4, <1>5, <1>6

\* A purchase from the market.
LEMMA RegisterKeeps ==
    ASSUME BoardInv, NEW p \in Players, NEW ok \in BOOLEAN, Register(p, ok)
    PROVE  BoardInv'
<1> USE DEF BoardInv
<1>1. flow[p].deed \in Deeds /\ flow[p].at # "done" /\ flow[p].kind = "buy"
  BY DEF Register, Flows, Knowing
<1>2. Tables'
  BY <1>1, Registered DEF Register, Tables
<1>3. \A d \in Deeds : RowsOf(d) # {} => RowsOf(d)' # {}
  BY <1>1, Registered
<1>4. ASSUME NEW d \in Deeds, <<"owner", d>> # Thing(flow[p])
      PROVE  Seller(d)' = Seller(d)
  <2>1. d # flow[p].deed
    BY <1>1, <1>4 DEF Thing
  <2>2. RowsOf(d)' = RowsOf(d) /\ (RowsOf(d) # {} => RowOf(d)' = RowOf(d))
    BY <1>1, <2>1, Registered
  <2> QED BY <2>2 DEF Seller
<1> QED BY <1>1, <1>2, <1>3, <1>4, CommitKeeps DEF Register

\* An UPDATE changes what it sets, in every row of its property.
LEMMA Written ==
    ASSUME BoardInv, NEW p \in Players, NEW ok \in BOOLEAN, WriteDeed(p, ok)
    PROVE  /\ rows' \in Seq(Row) /\ flow[p].deed \in Deeds
           /\ \A d \in Deeds : RowsOf(d)' = RowsOf(d)
           /\ \A d \in Deeds : RowsOf(d) # {} /\ RowOf(d)'.owner # RowOf(d).owner =>
                 /\ d = flow[p].deed /\ flow[p].kind = "buy" /\ RowOf(d)'.owner = p
<1> DEFINE f == flow[p]
<1>1. /\ f \in Flow /\ Knowing(f) /\ f.at = "write" /\ f.kind \in {"buy", "upgrade", "fee"}
      /\ f.deed \in Deeds
  BY DEF BoardInv, Flows, WriteDeed, Knowing
<1>2. /\ rows \in Seq(Row) /\ DOMAIN rows = 1 .. Len(rows) /\ Len(rows) \in Nat
      /\ \A i \in DOMAIN rows : rows[i] \in Row
  BY DEF BoardInv, Tables
<1>3. rows' = [i \in DOMAIN rows |->
              IF i \notin RowsOf(f.deed) THEN rows[i]
              ELSE CASE f.kind = "buy"     -> [rows[i] EXCEPT !.owner = p]
                     [] f.kind = "upgrade" -> [rows[i] EXCEPT !.level = Upgraded(f.seen)]
                     [] f.kind = "fee"     ->
                          [rows[i] EXCEPT !.income = Credited(f.seen, f.amount)]]
  BY DEF WriteDeed
<1>4. f.kind = "upgrade" => Upgraded(f.seen) \in Levels
  BY <1>1 DEF Knowing, Upgraded, Levels
<1>5. Credited(f.seen, f.amount) \in Nat
  BY <1>1 DEF Flow, Credited
<1> HIDE DEF f
<1>6. ASSUME NEW i \in DOMAIN rows
      PROVE  /\ rows'[i] \in Row /\ rows'[i].deed = rows[i].deed
             /\ rows'[i].owner # rows[i].owner =>
                   i \in RowsOf(f.deed) /\ f.kind = "buy" /\ rows'[i].owner = p
  <2>1. \/ rows'[i] = rows[i]
        \/ i \in RowsOf(f.deed) /\ f.kind = "buy" /\ rows'[i] = [rows[i] EXCEPT !.owner = p]
        \/ f.kind = "upgrade" /\ rows'[i] = [rows[i] EXCEPT !.level = Upgraded(f.seen)]
        \/ rows'[i] = [rows[i] EXCEPT !.income = Credited(f.seen, f.amount)]
    BY <1>1, <1>3
  <2>2. CASE rows'[i] = rows[i]
    BY <1>2, <2>2
  <2>3. CASE i \in RowsOf(f.deed) /\ f.kind = "buy" /\ rows'[i] = [rows[i] EXCEPT !.owner = p]
    BY <1>2, <2>3 DEF Row
  <2>4. CASE f.kind = "upgrade" /\ rows'[i] = [rows[i] EXCEPT !.level = Upgraded(f.seen)]
    BY <1>2, <1>4, <2>4 DEF Row
  <2>5. CASE rows'[i] = [rows[i] EXCEPT !.income = Credited(f.seen, f.amount)]
    BY <1>2, <1>5, <2>5 DEF Row
  <2> QED BY <2>1, <2>2, <2>3, <2>4, <2>5
<1>7. DOMAIN rows' = DOMAIN rows /\ rows' \in Seq(Row)
  <2>1. DOMAIN rows' = DOMAIN rows /\ rows' = [i \in DOMAIN rows |-> rows'[i]]
    <3> DEFINE g(i) == IF i \notin RowsOf(f.deed) THEN rows[i]
                       ELSE CASE f.kind = "buy"     -> [rows[i] EXCEPT !.owner = p]
                              [] f.kind = "upgrade" -> [rows[i] EXCEPT !.level = Upgraded(f.seen)]
                              [] f.kind = "fee"     ->
                                   [rows[i] EXCEPT !.income = Credited(f.seen, f.amount)]
    <3>1. rows' = [i \in DOMAIN rows |-> g(i)]
      BY <1>3
    <3> HIDE DEF g
    <3> QED BY <3>1
  <2>2. rows' \in [1 .. Len(rows) -> Row]
    BY <1>2, <1>6, <2>1
  <2> QED BY <1>2, <2>1, <2>2
<1>8. \A d \in Deeds : RowsOf(d)' = RowsOf(d)
  BY <1>6, <1>7 DEF RowsOf
<1>9. ASSUME NEW d \in Deeds, RowsOf(d) # {}, RowOf(d)'.owner # RowOf(d).owner
      PROVE  d = f.deed /\ f.kind = "buy" /\ RowOf(d)'.owner = p
  <2>1. Min(RowsOf(d)) \in RowsOf(d)
    BY <1>9, FoundRow DEF BoardInv
  <2>2. RowOf(d)' = rows'[Min(RowsOf(d))]
    BY <1>8 DEF RowOf
  <2> QED BY <1>6, <1>9, <2>1, <2>2 DEF RowOf, RowsOf
<1> QED BY <1>1, <1>7, <1>8, <1>9 DEF f

\* A sale by an owner, an upgrade, an income.
LEMMA WriteKeeps ==
    ASSUME BoardInv, NEW p \in Players, NEW ok \in BOOLEAN, WriteDeed(p, ok)
    PROVE  BoardInv'
<1> USE DEF BoardInv
<1>1. Tables'
  BY Written DEF WriteDeed, Tables
<1>2. \A d \in Deeds : RowsOf(d) # {} => RowsOf(d)' # {}
  BY Written
<1>3. ASSUME NEW d \in Deeds, <<"owner", d>> # Thing(flow[p])
      PROVE  Seller(d)' = Seller(d)
  <2>1. flow[p].kind = "buy" => d # flow[p].deed
    BY <1>3 DEF Thing
  <2>2. RowsOf(d)' = RowsOf(d) /\ (RowsOf(d) # {} => RowOf(d)'.owner = RowOf(d).owner)
    BY <2>1, Written
  <2> QED BY <2>2 DEF Seller
<1> QED BY <1>1, <1>2, <1>3, CommitKeeps DEF WriteDeed

\* The pot.
LEMMA PotKeeps ==
    ASSUME BoardInv, NEW p \in Players, NEW ok \in BOOLEAN, WritePot(p, ok)
    PROVE  BoardInv'
<1> USE DEF BoardInv
<1>1. flow[p].seen \in Nat /\ flow[p].amount \in Nat
  BY DEF Flows, Flow
<1>2. Tables'
  BY <1>1 DEF WritePot, PotAfter, Tables
<1>3. \A d \in Deeds : RowsOf(d)' = RowsOf(d) /\ Seller(d)' = Seller(d)
  BY DEF WritePot, RowsOf, RowOf, Seller
<1> QED BY <1>2, <1>3, CommitKeeps DEF WritePot

\* Every step keeps the invariant.
LEMMA NextBoard == BoardInv /\ [Next]_vars => BoardInv'
<1> SUFFICES ASSUME BoardInv, [Next]_vars PROVE BoardInv'
  OBVIOUS
<1>1. ASSUME NEW p \in Players, Serve(p) PROVE BoardInv'
  BY <1>1, RegisterKeeps, WriteKeeps, PotKeeps DEF Serve
<1>2. ASSUME NEW p \in Players, Reload(p) PROVE BoardInv'
  BY <1>2 DEF Reload, BoardInv, Tables, Flows, Recorded, Knowing, RowsOf, RowOf, Seller, tables,
     history
<1>3. CASE UNCHANGED vars
  BY <1>3 DEF vars, BoardInv, Tables, Flows, Recorded, Knowing, RowsOf, RowOf, Seller, tables,
     history
<1> QED BY <1>1, <1>2, <1>3, BeginKeeps, AskKeeps, ReadKeeps DEF Next, Progress

\* The invariant holds in every state of a board.
LEMMA BoardInvHolds == Spec => []BoardInv
BY InitBoard, NextBoard, PTL DEF Spec

\* The state has its types, whatever fails and overlaps: among others, no upgrade leaves
\* the ladder (upgrade_property_miners), and no request reads a row that is not there.
THEOREM TypeCorrect == Spec => []TypeOK
BY BoardInvHolds, BoardInvTypes, PTL

-----------------------------------------------------------------------------
\* A property gets a second row only from somebody who asked for its owner before
\* another purchase of it (purchaseProperty, register_property).
LEMMA OnceStep == BoardInv /\ RegisteredOnce /\ [Next]_vars => RegisteredOnce'
<1> SUFFICES ASSUME BoardInv, RegisteredOnce, [Next]_vars,
                    NEW d \in Deeds, <<"owner", d>> \notin raced'
             PROVE  Cardinality(RowsOf(d)') <= 1
  BY DEF RegisteredOnce
<1>1. CASE RowsOf(d)' = RowsOf(d) /\ raced \subseteq raced'
  BY <1>1 DEF RegisteredOnce
<1>2. ASSUME NEW p \in Players, NEW ok \in BOOLEAN, Register(p, ok)
      PROVE  Cardinality(RowsOf(d)') <= 1
  <2>1. /\ flow[p].deed \in Deeds /\ Knowing(flow[p]) /\ flow[p].kind = "buy" /\ flow[p].at = "save"
        /\ flow[p].to = Market /\ flow[p] \in Flow
    BY <1>2 DEF BoardInv, Flows, Knowing, Register
  <2>2. raced' = IF flow[p].stale THEN raced \cup {<<"owner", flow[p].deed>>} ELSE raced
    BY <1>2, <2>1 DEF Register, Commit, Thing
  <2>3. RowsOf(d)' = IF d = flow[p].deed THEN RowsOf(d) \cup {Len(rows) + 1} ELSE RowsOf(d)
    BY <1>2, <2>1, Registered DEF BoardInv
  <2>4. CASE d # flow[p].deed
    BY <1>1, <2>2, <2>3, <2>4
  <2>5. CASE d = flow[p].deed
    <3>1. ~flow[p].stale
      BY <2>2, <2>5
    <3>2. Seller(d) = Market
      BY <2>1, <2>5, <3>1 DEF Knowing, Window
    <3>3. RowsOf(d) = {}
      BY <3>2, SellerIs DEF BoardInv
    <3>4. RowsOf(d)' = {Len(rows) + 1}
      BY <2>3, <2>5, <3>3
    <3>5. Cardinality({Len(rows) + 1}) = 1
      BY FS_Singleton
    <3> QED BY <3>4, <3>5
  <2> QED BY <2>4, <2>5
<1>3. ASSUME NEW p \in Players, NEW ok \in BOOLEAN, WriteDeed(p, ok)
      PROVE  Cardinality(RowsOf(d)') <= 1
  <2>1. RowsOf(d)' = RowsOf(d)
    BY <1>3, Written
  <2>2. raced \subseteq raced'
    BY <1>3 DEF WriteDeed, Commit
  <2> QED BY <1>1, <2>1, <2>2
<1>4. ASSUME NEW p \in Players, NEW ok \in BOOLEAN, WritePot(p, ok)
      PROVE  Cardinality(RowsOf(d)') <= 1
  BY <1>1, <1>4 DEF WritePot, Commit, RowsOf
<1>5. ASSUME NEW p \in Players,
             \/ \E e \in Deeds : BeginPurchase(p, e) \/ BeginUpgrade(p, e) \/ BeginFee(p, e)
             \/ BeginFine(p) \/ BeginClaim(p)
             \/ Look(p) \/ Pay(p) \/ PayFails(p) \/ SaveFails(p) \/ Read(p) \/ Reload(p)
      PROVE  Cardinality(RowsOf(d)') <= 1
  <2>1. rows' = rows /\ raced' = raced
    BY <1>5
       DEF BeginPurchase, BeginUpgrade, BeginFee, BeginFine, BeginClaim, Begin, Look, Pay,
           PayFails, SaveFails, Read, Reload, tables, history
  <2> QED BY <1>1, <2>1 DEF RowsOf
<1>6. CASE UNCHANGED vars
  BY <1>1, <1>6 DEF vars, tables, history, RowsOf
<1> QED BY <1>2, <1>3, <1>4, <1>5, <1>6 DEF Next, Progress, Serve

\* The table has no key, and yet a property has one row as long as no two purchases of it
\* overlap, whatever else does (purchaseProperty, register_property).
THEOREM PropertiesAreRegisteredOnce == Spec => []RegisteredOnce
<1>1. Init => RegisteredOnce
  BY DealtOnce DEF RegisteredOnce
<1>2. BoardInv /\ RegisteredOnce /\ [Next]_vars => RegisteredOnce'
  BY OnceStep
<1> QED BY <1>1, <1>2, BoardInvHolds, PTL DEF Spec

\* Who becomes the owner has paid the one before, or somebody has bought in between.
PaidStep ==
    \A d \in Deeds :
      RowsOf(d) # {} /\ RowOf(d)'.owner # RowOf(d).owner =>
        LET buyer == flow[RowOf(d)'.owner]
        IN  /\ buyer.kind = "buy" /\ buyer.deed = d
            /\ buyer.to = RowOf(d).owner \/ <<"owner", d>> \in raced'

\* Only the UPDATE of a sale changes an owner, and it writes what its page had read.
LEMMA SaleStep == BoardInv /\ [Next]_vars => [PaidStep]_vars
<1> SUFFICES ASSUME BoardInv, Next,
                    NEW d \in Deeds, RowsOf(d) # {}, RowOf(d)'.owner # RowOf(d).owner
             PROVE  /\ flow[RowOf(d)'.owner].kind = "buy" /\ flow[RowOf(d)'.owner].deed = d
                    /\ \/ flow[RowOf(d)'.owner].to = RowOf(d).owner
                       \/ <<"owner", d>> \in raced'
  BY DEF PaidStep
<1>1. rows' # rows
  BY DEF RowOf, RowsOf
<1>2. PICK p \in Players, ok \in BOOLEAN : Register(p, ok) \/ WriteDeed(p, ok)
  BY <1>1
     DEF Next, Progress, Serve, BeginPurchase, BeginUpgrade, BeginFee, BeginFine, BeginClaim,
         Begin, Look, Pay, PayFails, SaveFails, Read, Reload, WritePot, tables
<1>3. ~Register(p, ok)
  <2> SUFFICES ASSUME Register(p, ok) PROVE FALSE
    OBVIOUS
  <2>1. flow[p].deed \in Deeds
    BY DEF BoardInv, Flows, Knowing, Register
  <2> QED BY <2>1, Registered DEF BoardInv
<1>4. d = flow[p].deed /\ flow[p].kind = "buy" /\ RowOf(d)'.owner = p
  BY <1>2, <1>3, Written
<1>5. Knowing(flow[p]) /\ flow[p].at = "write"
  BY <1>2, <1>3 DEF BoardInv, Flows, WriteDeed
<1>6. CASE flow[p].stale
  <2>1. <<"owner", d>> \in raced'
    BY <1>2, <1>3, <1>4, <1>6 DEF WriteDeed, Commit, Thing
  <2> QED BY <1>4, <2>1
<1>7. CASE ~flow[p].stale
  <2>1. flow[p].to = Seller(d)
    BY <1>4, <1>5, <1>7 DEF Knowing, Window
  <2> QED BY <1>4, <2>1 DEF Seller
<1> QED BY <1>6, <1>7

\* No sale puts a property into other hands without its owner having been paid, unless
\* another purchase of it came in between (purchaseProperty, transfer_property_ownership).
THEOREM OwnersArePaid == Spec => OwnerIsPaid
<1>1. BoardInv /\ [Next]_vars => [PaidStep]_vars
  BY SaleStep
<1>2. Spec => [][PaidStep]_vars
  BY <1>1, BoardInvHolds, PTL DEF Spec
<1> QED BY <1>2 DEF OwnerIsPaid, PaidStep
=============================================================================
