--------------------------- MODULE FiguresProofs ---------------------------
(***************************************************************************)
(* Proofs of what Consolidation states of a group's figures, for any       *)
(* number of entities and links and any amounts, shares and rates; of what *)
(* Statements states of a run's statements, for any horizon, figures and   *)
(* facilities; and therefore of the inputs that MCFigures picks.  Then of  *)
(* what Analysis states of heat maps, covenants and valuations, Investment *)
(* of ranks and regimes, and Markov of the numbers of its states.          *)
(*                                                                         *)
(* Balances, carried losses and the passes of the waterfall are each       *)
(* computed from the one before.  That such a recursion has a value, of    *)
(* the type its step keeps, is RecursionExists of Sums; what holds of      *)
(* every month then follows by StepInduction.                              *)
(***************************************************************************)
EXTENDS MCFigures, Sums, SequenceTheorems
-----------------------------------------------------------------------------
(* What a group adds up to.                                                *)

(* An entity as the code lets one be: a share from 0 to 100, a method it   *)
(* knows, whole amounts, in a currency of any set; and rates that are no   *)
(* less than zero.                                                         *)
Methods == {"full", "proportional", "equity_method", "not_consolidated"}
GroupMember(Currency) ==
    [currency : Currency, ownership_pct : 0..100, method : Methods,
     is : [{"net_income", "revenue"} -> Int], bs : [{"assets", "equity"} -> Int]]
WholeRates(rates) == \A p \in DOMAIN rates : rates[p] \in Nat

LEMMA GroupSum == \A w, S : Group!SumFunctionOnSet(w, S) = SumFunctionOnSet(w, S)
  BY DEF Group!SumFunctionOnSet, Group!FoldFunctionOnSet, Group!MapThenFoldSet,
         SumFunctionOnSet, FoldFunctionOnSet, MapThenFoldSet

(* An amount at a rate is whole, whichever way the rate is found.          *)
LEMMA RateIsWhole ==
    ASSUME NEW rates, WholeRates(rates), NEW from, NEW to, NEW amount \in Int
    PROVE  Group!AtRate(amount, Group!_get_rate(rates, from, to)) \in Int
  <1>1. \E n \in Nat, d \in Nat \ {0} : Group!_get_rate(rates, from, to) = <<n, d>>
    BY DEF WholeRates, Group!_get_rate
  <1>2. PICK n \in Nat, d \in Nat \ {0} : Group!_get_rate(rates, from, to) = <<n, d>>
    BY <1>1
  <1>3. (amount * n) \div d \in Int
    <2>1. amount * n \in Int
      OBVIOUS
    <2> DEFINE m == amount * n
    <2> HIDE DEF m
    <2>2. \A k \in Int : k \div d \in Int
      OBVIOUS
    <2>3. QED
      BY <2>1, <2>2
  <1>4. QED
    BY <1>2, <1>3 DEF Group!AtRate

(* The parts that consolidate adds up, and what should be left of them.    *)
Minority(e, amount) == IF Group!HasMinority(e) THEN amount - Group!PartOf(e, amount) ELSE 0
Associate(e, amount) == IF e.method = "equity_method" THEN Group!PartOf(e, amount) ELSE 0
Consolidated(e, amount) == IF e.method # "not_consolidated" THEN Group!PartOf(e, amount) ELSE 0

(* One entity: what is added, less the minority's part, and the share of   *)
(* an associate are the parent's part.                                     *)
LEMMA CountedOnce ==
    ASSUME NEW e, e.method \in Methods, e.ownership_pct \in 0..100, NEW amount \in Int
    PROVE  /\ Group!Added(e, amount) \in Int /\ Minority(e, amount) \in Int
           /\ Associate(e, amount) \in Int /\ Consolidated(e, amount) \in Int
           /\ Group!PartOf(e, amount) \in Int
           /\ Group!Added(e, amount) - Minority(e, amount) + Associate(e, amount) = Consolidated(e, amount)
  <1>1. Group!PartOf(e, amount) \in Int
    <2>1. amount * e.ownership_pct \in Int
      OBVIOUS
    <2> DEFINE m == amount * e.ownership_pct
    <2> HIDE DEF m
    <2>2. \A k \in Int : k \div 100 \in Int
      OBVIOUS
    <2>3. QED
      BY <2>1, <2>2 DEF Group!PartOf
  <1>2. e.ownership_pct = 100 => Group!PartOf(e, amount) = amount
    BY DEF Group!PartOf
  <1>3. e.ownership_pct < 100 \/ e.ownership_pct = 100
    OBVIOUS
  <1> DEFINE part_ == Group!PartOf(e, amount)
  <1> HIDE DEF part_
  <1>4. QED
    BY <1>1, <1>2, <1>3 DEF Methods, Group!Added, Minority, Associate, Consolidated, Group!HasMinority

(* One line of the group's statements.                                     *)
LEMMA LineCountedOnce ==
    ASSUME NEW S, IsFiniteSet(S), NEW es, NEW amount,
           \A i \in S : /\ es[i].method \in Methods /\ es[i].ownership_pct \in 0..100
                        /\ amount[i] \in Int
    PROVE  SumFunctionOnSet([i \in S |-> Group!Added(es[i], amount[i])], S)
             - SumFunctionOnSet([i \in S |-> Minority(es[i], amount[i])], S)
             + SumFunctionOnSet([i \in S |-> Associate(es[i], amount[i])], S)
           = SumFunctionOnSet([i \in {k \in S : es[k].method # "not_consolidated"} |-> Group!PartOf(es[i], amount[i])],
                              {k \in S : es[k].method # "not_consolidated"})
  <1> DEFINE a == [i \in S |-> Group!Added(es[i], amount[i])]
             b == [i \in S |-> Minority(es[i], amount[i])]
             c == [i \in S |-> Associate(es[i], amount[i])]
             d == [i \in S |-> Consolidated(es[i], amount[i])]
             T == {k \in S : es[k].method # "not_consolidated"}
             p == [i \in T |-> Group!PartOf(es[i], amount[i])]
  <1>1. \A i \in S :
            /\ Group!Added(es[i], amount[i]) \in Int /\ Minority(es[i], amount[i]) \in Int
            /\ Associate(es[i], amount[i]) \in Int /\ Consolidated(es[i], amount[i]) \in Int
            /\ Group!PartOf(es[i], amount[i]) \in Int
            /\ Group!Added(es[i], amount[i]) - Minority(es[i], amount[i]) + Associate(es[i], amount[i])
                 = Consolidated(es[i], amount[i])
    BY CountedOnce
  <1>2. /\ Numbers(a, S) /\ Numbers(b, S) /\ Numbers(c, S) /\ Numbers(d, S)
        /\ \A i \in S : a[i] - b[i] + c[i] = d[i]
    BY <1>1 DEF Numbers
  <1>3. /\ T \subseteq S /\ IsFiniteSet(T) /\ Numbers(p, T) /\ Numbers(d, T)
        /\ \A i \in T : p[i] = d[i]
        /\ \A i \in S \ T : d[i] = 0
    <2>1. T \subseteq S /\ IsFiniteSet(T)
      BY FS_Subset
    <2>2. QED
      BY <1>1, <2>1 DEF Numbers, Consolidated
  <1> HIDE DEF a, b, c, d, T, p
  <1>4. SumFunctionOnSet(a, S) - SumFunctionOnSet(b, S) + SumFunctionOnSet(c, S) = SumFunctionOnSet(d, S)
    BY <1>2, SumsCombine
  <1>5. SumFunctionOnSet(d, S) = SumFunctionOnSet(d, T)
    BY <1>2, <1>3, SumOfSubset
  <1>6. SumFunctionOnSet(p, T) = SumFunctionOnSet(d, T)
    BY <1>3, SumSame
  <1>7. SumFunctionOnSet(a, S) - SumFunctionOnSet(b, S) + SumFunctionOnSet(c, S) = SumFunctionOnSet(p, T)
    BY <1>4, <1>5, <1>6
  <1>8. QED
    BY <1>7 DEF a, b, c, T, p

(* Translation keeps what an entity is and makes whole amounts of whole    *)
(* ones.                                                                   *)
LEMMA TranslatedMember ==
    ASSUME NEW Currency, NEW e \in GroupMember(Currency),
           NEW avg, WholeRates(avg), NEW closing, WholeRates(closing), NEW to
    PROVE  LET t == Group!translate_statements(e, avg, closing, to)
           IN  /\ t.method = e.method /\ t.ownership_pct = e.ownership_pct
               /\ t.is.net_income \in Int /\ t.bs.equity \in Int
  <1>1. /\ Group!AtRate(e.is["net_income"], Group!_get_rate(avg, e.currency, to)) \in Int
        /\ Group!AtRate(e.bs["equity"], Group!_get_rate(closing, e.currency, to)) \in Int
    BY RateIsWhole DEF GroupMember
  <1>2. QED
    BY <1>1 DEF Group!translate_statements, GroupMember

(* Whatever entities a group has, with whatever methods, currencies and    *)
(* shares: what is left of its profit and its equity after the minority's, *)
(* with the associates', is the parent's part of every consolidated entity *)
(* (consolidate).                                                          *)
THEOREM GroupIsItsParts ==
    ASSUME NEW Currency, NEW n \in Nat, NEW entities \in [1..n -> GroupMember(Currency)],
           NEW avg, WholeRates(avg), NEW closing, WholeRates(closing), NEW to
    PROVE  Group!ParentsPartCountedOnce(entities, avg, closing, to)
  <1> DEFINE S == 1..n
             es == [i \in DOMAIN entities |-> Group!translate_statements(entities[i], avg, closing, to)]
             profit == [i \in S |-> es[i].is.net_income]
             equity == [i \in S |-> es[i].bs.equity]
             group == Group!consolidate(es, <<>>, TRUE)
             within == {i \in DOMAIN es : es[i].method # "not_consolidated"}
  <1>1. IsFiniteSet(S)
    BY FS_Interval
  <1>2. \A i \in S : /\ es[i].method \in Methods /\ es[i].ownership_pct \in 0..100
                     /\ es[i].is.net_income \in Int /\ es[i].bs.equity \in Int
    BY TranslatedMember DEF GroupMember
  <1>3. DOMAIN entities = S /\ DOMAIN es = S
    OBVIOUS
  <1> HIDE DEF es
  <1>4. /\ group.is.net_income = SumFunctionOnSet([i \in S |-> Group!Added(es[i], profit[i])], S)
        /\ group.nci_profit = SumFunctionOnSet([i \in S |-> Minority(es[i], profit[i])], S)
        /\ group.share_of_profit = SumFunctionOnSet([i \in S |-> Associate(es[i], profit[i])], S)
    BY <1>3, GroupSum DEF Group!consolidate, Group!Total, Minority, Associate
  <1>5. /\ group.bs.equity = SumFunctionOnSet([i \in S |-> Group!Added(es[i], equity[i])], S)
        /\ group.nci_equity = SumFunctionOnSet([i \in S |-> Minority(es[i], equity[i])], S)
        /\ group.investment = SumFunctionOnSet([i \in S |-> Associate(es[i], equity[i])], S)
    BY <1>3, GroupSum DEF Group!consolidate, Group!Total, Minority, Associate
  <1> DEFINE T == {k \in S : es[k].method # "not_consolidated"}
  <1>6. /\ within = T
        /\ \A i \in T : profit[i] = es[i].is.net_income /\ equity[i] = es[i].bs.equity
    BY <1>3
  <1>7. group.is.net_income - group.nci_profit + group.share_of_profit
          = Group!Total(LAMBDA i : Group!PartOf(es[i], es[i].is.net_income), within)
    <2>1. group.is.net_income - group.nci_profit + group.share_of_profit
            = SumFunctionOnSet([i \in T |-> Group!PartOf(es[i], profit[i])], T)
      <3> HIDE DEF group
      <3>1. \A i \in S : profit[i] \in Int
        BY <1>2
      <3> HIDE DEF profit, S
      <3>2. \A i \in S : /\ es[i].method \in Methods /\ es[i].ownership_pct \in 0..100
                         /\ profit[i] \in Int
        BY <1>2, <3>1
      <3>3. SumFunctionOnSet([i \in S |-> Group!Added(es[i], profit[i])], S)
              - SumFunctionOnSet([i \in S |-> Minority(es[i], profit[i])], S)
              + SumFunctionOnSet([i \in S |-> Associate(es[i], profit[i])], S)
            = SumFunctionOnSet([i \in T |-> Group!PartOf(es[i], profit[i])], T)
        BY <1>1, <3>2, LineCountedOnce, Zenon
      <3> HIDE DEF T
      <3>4. QED
        BY <1>4, <3>3
    <2>2. [i \in T |-> Group!PartOf(es[i], profit[i])] = [i \in T |-> Group!PartOf(es[i], es[i].is.net_income)]
      BY <1>6
    <2>3. Group!Total(LAMBDA i : Group!PartOf(es[i], es[i].is.net_income), within)
            = SumFunctionOnSet([i \in T |-> Group!PartOf(es[i], es[i].is.net_income)], T)
      BY <1>6, GroupSum DEF Group!Total
    <2> HIDE DEF T, group, profit
    <2>4. QED
      BY <2>1, <2>2, <2>3
  <1>8. group.bs.equity - group.nci_equity + group.investment
          = Group!Total(LAMBDA i : Group!PartOf(es[i], es[i].bs.equity), within)
    <2>1. group.bs.equity - group.nci_equity + group.investment
            = SumFunctionOnSet([i \in T |-> Group!PartOf(es[i], equity[i])], T)
      <3> HIDE DEF group
      <3>1. \A i \in S : equity[i] \in Int
        BY <1>2
      <3> HIDE DEF equity, S
      <3>2. \A i \in S : /\ es[i].method \in Methods /\ es[i].ownership_pct \in 0..100
                         /\ equity[i] \in Int
        BY <1>2, <3>1
      <3>3. SumFunctionOnSet([i \in S |-> Group!Added(es[i], equity[i])], S)
              - SumFunctionOnSet([i \in S |-> Minority(es[i], equity[i])], S)
              + SumFunctionOnSet([i \in S |-> Associate(es[i], equity[i])], S)
            = SumFunctionOnSet([i \in T |-> Group!PartOf(es[i], equity[i])], T)
        BY <1>1, <3>2, LineCountedOnce, Zenon
      <3> HIDE DEF T
      <3>4. QED
        BY <1>5, <3>3
    <2>2. [i \in T |-> Group!PartOf(es[i], equity[i])] = [i \in T |-> Group!PartOf(es[i], es[i].bs.equity)]
      BY <1>6
    <2>3. Group!Total(LAMBDA i : Group!PartOf(es[i], es[i].bs.equity), within)
            = SumFunctionOnSet([i \in T |-> Group!PartOf(es[i], es[i].bs.equity)], T)
      BY <1>6, GroupSum DEF Group!Total
    <2> HIDE DEF T, group, equity
    <2>4. QED
      BY <2>1, <2>2, <2>3
  <1>9. QED
    BY <1>7, <1>8 DEF Group!ParentsPartCountedOnce, es
-----------------------------------------------------------------------------
(* Intercompany links.                                                     *)

(* Whatever the link, its counterparts and the cash lose the same.         *)
LEMMA CounterpartsOfALink ==
    ASSUME NEW x
    PROVE  /\ \A p \in Group!Counterparts :
                 /\ p[1] \in Group!EliminatedLines /\ p[2] \in Group!EliminatedLines
                 /\ Group!TakenOut(x, p[1]) = Group!TakenOut(x, p[2])
           /\ Group!TakenOut(x, "Intercompany_operating") = Group!TakenOut(x, "Intercompany_revenue")
           /\ Group!TakenOut(x, "Dividends") = Group!TakenOut(x, "Dividend_income")
  <1>1. /\ Group!TakenOut(x, "Intercompany_revenue") = Group!TakenOut(x, "Intercompany_expense")
        /\ Group!TakenOut(x, "Intercompany_operating") = Group!TakenOut(x, "Intercompany_revenue")
    BY DEF Group!TakenOut
  <1>2. Group!TakenOut(x, "Intercompany_receivable") = Group!TakenOut(x, "Intercompany_payable")
    BY DEF Group!TakenOut
  <1>3. /\ Group!TakenOut(x, "Dividend_income") = Group!TakenOut(x, "Dividend_paid")
        /\ Group!TakenOut(x, "Dividends") = Group!TakenOut(x, "Dividend_income")
    BY DEF Group!TakenOut
  <1>4. /\ Group!TakenOut(x, "Intercompany_interest_income")
               = Group!TakenOut(x, "Intercompany_interest_expense")
        /\ Group!TakenOut(x, "Intercompany_loan_receivable")
               = Group!TakenOut(x, "Intercompany_loan_payable")
    BY DEF Group!TakenOut
  <1>5. ASSUME NEW p \in Group!Counterparts
        PROVE  /\ p[1] \in Group!EliminatedLines /\ p[2] \in Group!EliminatedLines
               /\ Group!TakenOut(x, p[1]) = Group!TakenOut(x, p[2])
    <2>1. CASE p = <<"Intercompany_revenue", "Intercompany_expense">>
      BY <1>1, <2>1 DEF Group!EliminatedLines
    <2>2. CASE p = <<"Intercompany_receivable", "Intercompany_payable">>
      BY <1>2, <2>2 DEF Group!EliminatedLines
    <2>3. CASE p = <<"Dividend_income", "Dividend_paid">>
      BY <1>3, <2>3 DEF Group!EliminatedLines
    <2>4. CASE p = <<"Intercompany_interest_income", "Intercompany_interest_expense">>
      BY <1>4, <2>4 DEF Group!EliminatedLines
    <2>5. CASE p = <<"Intercompany_loan_receivable", "Intercompany_loan_payable">>
      BY <1>4, <2>5 DEF Group!EliminatedLines
    <2>6. QED
      BY <2>1, <2>2, <2>3, <2>4, <2>5 DEF Group!Counterparts
  <1>6. QED
    BY <1>1, <1>3, <1>5

(* Over a year, what the periods have is what the link pays.               *)
LEMMA SpreadOverAYear ==
    ASSUME NEW link, link.amount \in Int, NEW granularity,
           (link.amount * Group!PerYear(link.frequency)) % Group!PerYear(granularity) = 0
    PROVE  Group!Spread(link, granularity) * Group!PerYear(granularity)
               = link.amount * Group!PerYear(link.frequency)
  <1>1. Group!PerYear(link.frequency) \in Nat /\ Group!PerYear(granularity) \in {1, 4, 12}
    BY DEF Group!PerYear
  <1>2. \A y \in Int, g \in {1, 4, 12} : y % g = 0 => (y \div g) * g = y
    OBVIOUS
  <1> DEFINE y == link.amount * Group!PerYear(link.frequency)
  <1>3. y \in Int
    BY <1>1
  <1>4. y % Group!PerYear(granularity) = 0 /\ Group!Spread(link, granularity) = y \div Group!PerYear(granularity)
    BY DEF Group!Spread
  <1> HIDE DEF y
  <1>5. Group!Spread(link, granularity) * Group!PerYear(granularity) = y
    BY <1>1, <1>2, <1>3, <1>4
  <1>6. QED
    BY <1>5 DEF y

(* Whatever links there are, each is eliminated once, profit and net       *)
(* assets stay, and the cash falls by what is received (consolidate and    *)
(* compute_intercompany_amounts).                                          *)
LEMMA LinksEliminatedOnce ==
    ASSUME NEW links, \A i \in DOMAIN links : links[i].amount \in Int, NEW granularity, NEW tax
    PROVE  Group!EliminatedOnce(links, granularity, tax)
  <1> DEFINE xs == [i \in DOMAIN links |-> Group!compute_intercompany_amounts(links[i], granularity, tax)]
             eliminated == Group!consolidate(<<>>, xs, TRUE).eliminated
             taken(l) == [i \in DOMAIN xs |-> Group!TakenOut(xs[i], l)]
  <1>1. \A i \in DOMAIN links : xs[i].amount = Group!Spread(links[i], granularity)
    BY DEF Group!compute_intercompany_amounts
  <1>2. ASSUME NEW i \in DOMAIN links,
               (links[i].amount * Group!PerYear(links[i].frequency)) % Group!PerYear(granularity) = 0
        PROVE  xs[i].amount * Group!PerYear(granularity) = links[i].amount * Group!PerYear(links[i].frequency)
    BY <1>1, <1>2, SpreadOverAYear
  <1>3. \A l \in Group!EliminatedLines :
           eliminated[l] = Group!SumFunctionOnSet(taken(l), DOMAIN xs)
    <2> HIDE DEF xs
    <2>1. QED
      BY DEF Group!consolidate, Group!Total
  <1>4. \A p \in Group!Counterparts :
           /\ p[1] \in Group!EliminatedLines /\ p[2] \in Group!EliminatedLines
           /\ taken(p[1]) = taken(p[2])
    <2> HIDE DEF xs
    <2>1. QED
      BY CounterpartsOfALink
  <1>5. /\ taken("Intercompany_operating") = taken("Intercompany_revenue")
        /\ taken("Dividends") = taken("Dividend_income")
    <2> HIDE DEF xs
    <2>1. QED
      BY CounterpartsOfALink
  <1>6. {"Intercompany_operating", "Intercompany_revenue", "Dividends", "Dividend_income"}
            \subseteq Group!EliminatedLines
    BY DEF Group!EliminatedLines
  <1> HIDE DEF taken
  <1>7. /\ \A p \in Group!Counterparts : eliminated[p[1]] = eliminated[p[2]]
        /\ eliminated["Intercompany_operating"] = eliminated["Intercompany_revenue"]
        /\ eliminated["Dividends"] = eliminated["Dividend_income"]
    <2> HIDE DEF xs, eliminated
    <2>1. QED
      BY <1>3, <1>4, <1>5, <1>6
  <1>8. QED
    BY <1>2, <1>7 DEF Group!EliminatedOnce
-----------------------------------------------------------------------------
(* The tree of ownership.                                                  *)

(* A structure: finitely many entities, roots and links among them.        *)
Structure(g) ==
    /\ IsFiniteSet(g.entities) /\ g.first \in g.entities /\ g.roots \subseteq g.entities
    /\ DOMAIN g.owned \subseteq g.entities \X g.entities

(* The paths of one entity more than those of P, which have k - 1.         *)
Longer(g, P, k) ==
    UNION {{Append(path, c) : c \in {m \in Group!Children(g, path[k - 1]) : Group!Unmet(path, m)}} : path \in P}
LevelOf(f, g, n, k) == IF k = 1 THEN {<<n>>} ELSE Longer(g, f[k - 1], k)
IsLevels(f, g, n, N) == f = [k \in 1..N |-> LevelOf(f, g, n, k)]

(* The levels of a tree are well defined, which the library shows by an    *)
(* induction whose claim is an operator; here it is a set of numbers.      *)
LEMMA LevelsExist ==
    ASSUME NEW g, NEW n, NEW N \in Nat
    PROVE  \E f : IsLevels(f, g, n, N)
  <1> DEFINE Upto(f, m) == /\ f = [k \in 1..N |-> f[k]]
                           /\ \A k \in 1..N : k <= m => f[k] = LevelOf(f, g, n, k)
             Q == {m \in Nat : \E f : Upto(f, m)}
  <1>1. 0 \in Q
    <2> DEFINE z == [k \in 1..N |-> {}]
    <2>1. Upto(z, 0)
      OBVIOUS
    <2>2. QED
      BY <2>1
  <1>2. ASSUME NEW m \in Nat, m \in Q PROVE m + 1 \in Q
    <2>1. PICK f : Upto(f, m)
      BY <1>2
    <2> DEFINE h == [k \in 1..N |-> IF k = m + 1 THEN LevelOf(f, g, n, k) ELSE f[k]]
    <2>2. ASSUME NEW k \in 1..N, k <= m + 1 PROVE h[k] = LevelOf(h, g, n, k)
      <3>1. h[k] = LevelOf(f, g, n, k)
        BY <2>1, <2>2
      <3>2. k # 1 => h[k - 1] = f[k - 1]
        BY <2>2
      <3> HIDE DEF h
      <3>3. QED
        BY <3>1, <3>2 DEF LevelOf
    <2>3. h = [k \in 1..N |-> h[k]]
      OBVIOUS
    <2> HIDE DEF h
    <2>4. Upto(h, m + 1)
      BY <2>2, <2>3
    <2>5. QED
      BY <2>4
  <1>3. N \in Q
    <2> HIDE DEF Q
    <2>1. QED
      BY <1>1, <1>2, NumberInduction
  <1>4. PICK f : Upto(f, N)
    BY <1>3
  <1>5. f = [k \in 1..N |-> LevelOf(f, g, n, k)]
    BY <1>4
  <1>6. QED
    BY <1>5 DEF IsLevels

LEMMA GroupCardinality == \A S : Group!Cardinality(S) = Cardinality(S)
  BY DEF Group!Cardinality, Cardinality

LEMMA TreeIs ==
    ASSUME NEW g, NEW n, Cardinality(g.entities) \in Nat
    PROVE  \E f : /\ IsLevels(f, g, n, Cardinality(g.entities))
                  /\ Group!TreePaths(g, n) = UNION {f[k] : k \in 1..Cardinality(g.entities)}
  <1> DEFINE N == Group!Cardinality(g.entities)
             level == CHOOSE f : IsLevels(f, g, n, N)
  <1>1. N = Cardinality(g.entities)
    BY GroupCardinality
  <1>2. IsLevels(level, g, n, N)
    <2>1. \E f : IsLevels(f, g, n, N)
      BY <1>1, LevelsExist
    <2>2. QED
      BY <2>1, Zenon
  <1>3. Group!TreePaths(g, n) = UNION {level[k] : k \in DOMAIN level}
    BY DEF Group!TreePaths, IsLevels, LevelOf, Longer
  <1>4. DOMAIN level = 1..N
    <2> HIDE DEF level
    <2>1. QED
      BY <1>2 DEF IsLevels
  <1> HIDE DEF level, N
  <1>5. QED
    BY <1>1, <1>2, <1>3, <1>4

(* A path of a level names k entities, none twice, and leads there through *)
(* entities that paths of the levels above lead to.                        *)
Leads(f, E, k, p) ==
    /\ p \in Seq(E) /\ Len(p) = k
    /\ \A i, j \in 1..k : p[i] = p[j] => i = j
    /\ \A i \in 1..k : \E q \in f[i] : q \in Seq(E) /\ Len(q) = i /\ q[i] = p[i]

LEMMA ChildrenAreEntities == \A g, n : Structure(g) => Group!Children(g, n) \subseteq g.entities
  BY DEF Structure, Group!Children

LEMMA AllLead ==
    ASSUME NEW g, Structure(g), NEW n \in g.entities, NEW N \in Nat, NEW f, IsLevels(f, g, n, N)
    PROVE  \A k \in 1..N : \A p \in f[k] : Leads(f, g.entities, k, p)
  <1> DEFINE E == g.entities
             Q == {m \in Nat : \A k \in 1..N : k <= m => \A p \in f[k] : Leads(f, E, k, p)}
  <1>1. 0 \in Q
    OBVIOUS
  <1>2. \A k \in 1..N : f[k] = LevelOf(f, g, n, k)
    BY DEF IsLevels
  <1>3. ASSUME NEW m \in Nat, m \in Q PROVE m + 1 \in Q
    <2> SUFFICES ASSUME m + 1 \in 1..N, NEW p \in f[m + 1] PROVE Leads(f, E, m + 1, p)
      BY <1>3
    <2>1. CASE m = 0
      <3>1. p = <<n>>
        BY <1>2, <2>1 DEF LevelOf
      <3>2. p \in Seq(E) /\ Len(p) = 1 /\ p[1] = n
        <4>1. n \in E
          OBVIOUS
        <4> HIDE DEF E
        <4>2. QED
          BY <3>1, <4>1
      <3>3. QED
        BY <2>1, <3>2 DEF Leads
    <2>2. CASE m # 0
      <3>1. f[m + 1] = Longer(g, f[m], m + 1)
        <4>1. m + 1 # 1 /\ m + 1 - 1 = m
          BY <2>2
        <4>2. QED
          BY <1>2, <4>1 DEF LevelOf
      <3>2. PICK path \in f[m] : \E c \in Group!Children(g, path[m]) : Group!Unmet(path, c) /\ p = Append(path, c)
        <4>1. m + 1 - 1 = m
          OBVIOUS
        <4>2. QED
          BY <3>1, <4>1 DEF Longer
      <3>0. PICK c \in Group!Children(g, path[m]) : Group!Unmet(path, c) /\ p = Append(path, c)
        BY <3>2
      <3>3. Leads(f, E, m, path)
        BY <1>3, <2>2
      <3>4. path \in Seq(E) /\ Len(path) = m /\ c \in E
        BY <3>3, ChildrenAreEntities DEF Leads
      <3>5. /\ p \in Seq(E) /\ Len(p) = m + 1 /\ p[m + 1] = c
            /\ \A i \in 1..m : p[i] = path[i] /\ p[i] # c
        <4>1. \A i \in 1..m : path[i] # c
          BY <3>0, <3>4 DEF Group!Unmet
        <4>2. /\ Append(path, c) \in Seq(E) /\ Len(Append(path, c)) = m + 1
              /\ Append(path, c)[m + 1] = c
              /\ \A i \in 1..m : Append(path, c)[i] = path[i]
          BY <3>4, AppendProperties
        <4>3. QED
          BY <3>0, <4>1, <4>2
      <3>6. \A i \in 1..(m + 1) : i \in 1..m \/ i = m + 1
        OBVIOUS
      <3>7. \A i, j \in 1..(m + 1) : p[i] = p[j] => i = j
        BY <3>3, <3>5, <3>6 DEF Leads
      <3>8. \A i \in 1..(m + 1) : \E q \in f[i] : q \in Seq(E) /\ Len(q) = i /\ q[i] = p[i]
        BY <3>3, <3>5, <3>6 DEF Leads
      <3>9. QED
        BY <3>5, <3>7, <3>8 DEF Leads
    <2>3. QED
      BY <2>1, <2>2
  <1>4. N \in Q
    <2> HIDE DEF Q
    <2>1. QED
      BY <1>1, <1>3, NumberInduction
  <1>5. QED
    BY <1>4

(* A path that names no entity twice is no longer than there are entities. *)
LEMMA PathsEnd ==
    ASSUME NEW E, IsFiniteSet(E), NEW k \in Nat, NEW p \in [1..k -> E], \A i, j \in 1..k : p[i] = p[j] => i = j
    PROVE  k <= Cardinality(E)
  <1>1. IsFiniteSet(1..k) /\ Cardinality(1..k) = k
    BY FS_Interval
  <1>2. Cardinality(E) \in Nat
    BY FS_CardinalityType
  <1>3. QED
    BY <1>1, <1>2, FS_PigeonHole

(* No entity a path leads to has a child that no path leads to.            *)
LEMMA TreeIsClosed ==
    ASSUME NEW g, Structure(g), NEW n \in g.entities, NEW p \in Group!TreePaths(g, n),
           NEW c \in Group!Children(g, p[Len(p)])
    PROVE  \E q \in Group!TreePaths(g, n) : q[Len(q)] = c
  <1> DEFINE E == g.entities
             N == Cardinality(E)
  <1>1. N \in Nat
    BY FS_CardinalityType DEF Structure
  <1>2. PICK f : IsLevels(f, g, n, N) /\ Group!TreePaths(g, n) = UNION {f[k] : k \in 1..N}
    BY <1>1, TreeIs
  <1>3. PICK k \in 1..N : p \in f[k]
    BY <1>2
  <1>4. k \in Nat /\ k >= 1 /\ k <= N
    BY <1>1, <1>3
  <1>5. \A i \in 1..N : \A q \in f[i] : Leads(f, E, i, q)
    BY <1>1, <1>2, AllLead
  <1>7. Leads(f, E, k, p) /\ p \in Seq(E) /\ Len(p) = k
    BY <1>3, <1>4, <1>5 DEF Leads
  <1>8. c \in E
    BY ChildrenAreEntities
  <1>9. CASE \E i \in 1..k : p[i] = c
    <2>1. PICK i \in 1..k : p[i] = c
      BY <1>9
    <2>2. PICK q \in f[i] : Len(q) = i /\ q[i] = c
      BY <1>7, <2>1 DEF Leads
    <2>3. i \in 1..N /\ i \in Nat
      BY <1>1, <1>4
    <2>4. q \in Group!TreePaths(g, n) /\ Len(q) = i
      BY <1>2, <2>2, <2>3
    <2>5. QED
      BY <2>2, <2>4
  <1>10. CASE \A i \in 1..k : p[i] # c
    <2> DEFINE q == Append(p, c)
    <2>1. q \in Seq(E) /\ Len(q) = k + 1 /\ q[k + 1] = c /\ \A i \in 1..k : q[i] = p[i]
      BY <1>7, <1>8, AppendProperties
    <2> HIDE DEF q
    <2>2. \A i \in 1..(k + 1) : i \in 1..k \/ i = k + 1
      BY <1>4
    <2>3. \A i, j \in 1..(k + 1) : q[i] = q[j] => i = j
      <3>1. \A i, j \in 1..k : p[i] = p[j] => i = j
        BY <1>7 DEF Leads
      <3>2. \A i \in 1..k : q[i] = p[i] /\ q[i] # q[k + 1]
        BY <1>10, <2>1
      <3>3. QED
        BY <2>2, <3>1, <3>2
    <2>4. k + 1 <= N
      <3>1. k + 1 \in Nat /\ IsFiniteSet(E) /\ q \in [1..(k + 1) -> E]
        BY <1>4, <2>1, LenProperties DEF Structure
      <3>2. QED
        BY <2>3, <3>1, PathsEnd
    <2>5. k + 1 \in 1..N /\ k + 1 # 1 /\ k + 1 - 1 = k
      BY <1>1, <1>4, <2>4
    <2>6. f[k + 1] = Longer(g, f[k], k + 1)
      <3>1. f[k + 1] = LevelOf(f, g, n, k + 1)
        BY <1>2, <2>5 DEF IsLevels
      <3>2. QED
        BY <2>5, <3>1 DEF LevelOf
    <2>7. Group!Unmet(p, c)
      BY <1>7, <1>10 DEF Group!Unmet
    <2>8. q \in f[k + 1]
      BY <1>3, <1>7, <2>5, <2>6, <2>7 DEF Longer, q
    <2>9. q \in Group!TreePaths(g, n) /\ Len(q) = k + 1
      BY <1>2, <2>1, <2>5, <2>8
    <2>10. QED
      BY <2>1, <2>9
  <1>11. QED
    BY <1>9, <1>10

LEMMA TreePathsAreSimple ==
    ASSUME NEW g, Structure(g), NEW n \in g.entities
    PROVE  /\ <<n>> \in Group!TreePaths(g, n)
           /\ \A p \in Group!TreePaths(g, n) : \A i, k \in DOMAIN p : p[i] = p[k] => i = k
  <1> DEFINE E == g.entities
             N == Cardinality(E)
  <1>1. N \in Nat /\ N # 0
    BY FS_CardinalityType, FS_EmptySet DEF Structure
  <1>2. PICK f : IsLevels(f, g, n, N) /\ Group!TreePaths(g, n) = UNION {f[k] : k \in 1..N}
    BY <1>1, TreeIs
  <1>3. <<n>> \in Group!TreePaths(g, n)
    <2>1. 1 \in 1..N
      BY <1>1
    <2>2. f[1] = {<<n>>}
      BY <1>2, <2>1 DEF IsLevels, LevelOf
    <2>3. QED
      BY <1>2, <2>1, <2>2
  <1>4. ASSUME NEW p \in Group!TreePaths(g, n), NEW i \in DOMAIN p, NEW j \in DOMAIN p, p[i] = p[j] PROVE i = j
    <2>1. PICK k \in 1..N : p \in f[k]
      BY <1>2
    <2>2. Leads(f, E, k, p)
      BY <1>1, <1>2, <2>1, AllLead
    <2>3. QED
      BY <1>4, <2>2 DEF Leads
  <1>5. QED
    BY <1>3, <1>4

(* Whatever structure, circles of ownership included: no entity is shown   *)
(* under itself, so that the tree ends, something is shown, and so is      *)
(* whatever a shown entity owns (get_hierarchy).                           *)
THEOREM TreesShowWhatIsOwned ==
    ASSUME NEW g, Structure(g)
    PROVE  Group!TreeShowsWhatIsOwned(g)
  <1> DEFINE shown == {p[Len(p)] : p \in Group!get_hierarchy(g)}
  <1>1. Group!TreeRoots(g) \subseteq g.entities /\ Group!TreeRoots(g) # {}
    BY DEF Structure, Group!TreeRoots
  <1>2. \A p \in Group!get_hierarchy(g) : \E n \in Group!TreeRoots(g) : p \in Group!TreePaths(g, n)
    BY DEF Group!get_hierarchy
  <1>3. \A n \in Group!TreeRoots(g) : Group!TreePaths(g, n) \subseteq Group!get_hierarchy(g)
    BY DEF Group!get_hierarchy
  <1>4. \A p \in Group!get_hierarchy(g) : \A i, k \in DOMAIN p : p[i] = p[k] => i = k
    BY <1>1, <1>2, TreePathsAreSimple
  <1>5. shown # {}
    <2>1. PICK n \in Group!TreeRoots(g) : n \in g.entities
      BY <1>1
    <2>2. <<n>> \in Group!get_hierarchy(g)
      BY <1>3, <2>1, TreePathsAreSimple
    <2>3. QED
      BY <2>2
  <1>7. \A n \in g.entities : \A p \in Group!TreePaths(g, n) : \A c \in Group!Children(g, p[Len(p)]) :
            \E q \in Group!TreePaths(g, n) : q[Len(q)] = c
    BY TreeIsClosed, Zenon
  <1>6. ASSUME NEW s \in shown, NEW c \in Group!Children(g, s) PROVE c \in shown
    <2>1. PICK p \in Group!get_hierarchy(g) : s = p[Len(p)]
      BY <1>6
    <2>2. PICK n \in Group!TreeRoots(g) : p \in Group!TreePaths(g, n)
      BY <1>2
    <2>3. \E q \in Group!TreePaths(g, n) : q[Len(q)] = c
      <3>1. n \in g.entities /\ c \in Group!Children(g, p[Len(p)])
        BY <1>1, <1>6, <2>1, <2>2
      <3>2. QED
        BY <1>7, <2>2, <3>1
    <2>4. QED
      BY <1>3, <2>3
  <1>8. QED
    BY <1>4, <1>5, <1>6 DEF Group!TreeShowsWhatIsOwned
-----------------------------------------------------------------------------
(* Debt.                                                                   *)
Scheduled == [limit : Nat, pik : BOOLEAN, grace : Nat, converts : Nat \cup {None},
              draws : [Month -> Nat], repays : [Month -> Nat]]

LEMMA ShareIs == /\ \A n \in Int : Share(n) \in Int
                 /\ \A n \in Nat : Share(n) \in 0..n
  BY DEF Share

LEMMA MonthsAre == Horizon \in Nat \ {0} /\ Month = 1..Horizon /\ IsFiniteSet(Month)
  BY HorizonAssumption, FS_Interval DEF Month

LEMMA DueIs ==
    ASSUME NEW f \in Scheduled, NEW t
    PROVE  DueNextYear(f, t) \in Nat
  <1> DEFINE S == {m \in Month : t < m /\ m <= t + Year}
             w == [m \in S |-> f.repays[m]]
  <1>1. IsFiniteSet(S) /\ S \subseteq Month
    BY MonthsAre, FS_Subset
  <1>2. \A m \in S : w[m] \in Nat
    BY <1>1 DEF Scheduled
  <1>3. DueNextYear(f, t) = SumFunctionOnSet(w, S)
    BY DEF DueNextYear, Total
  <1> HIDE DEF S, w
  <1>4. Numbers(w, S)
    BY <1>2 DEF Numbers
  <1>5. SumFunctionOnSet(w, S) \in Int
    BY <1>1, <1>4, SumTyped
  <1>6. SumFunctionOnSet(w, S) >= 0
    <2>1. SumFunctionOnSet(w, S) >= SumFunctionOnSet(w, {})
      BY <1>1, <1>2, <1>4, SumOfSubset
    <2>2. QED
      BY <2>1, SumEmpty
  <1>7. QED
    BY <1>3, <1>5, <1>6

(* One month of a facility whose balance was before.                       *)
LEMMA DebtRowIs ==
    ASSUME NEW f \in Scheduled, NEW before \in Nat, NEW t \in Month, NEW row, row = DebtRow(f, before, t)
    PROVE  /\ row.balance \in Nat /\ row.interest \in Int /\ row.draw \in Int /\ row.repaid \in Int
           /\ row.current \in 0..row.balance
           /\ Converting(f, t) => row.balance = 0
           /\ ~f.pik => row.balance <= f.limit
           /\ (~f.pik /\ ~Converting(f, t) /\ Asked(f, before, t) \in 0..f.limit)
                => row.balance = before + row.draw - row.repaid
           /\ (Converting(f, t) /\ (t = f.converts \/ before = 0))
                => row.balance = before + row.draw - row.repaid
  <1> DEFINE asked == Asked(f, before, t)
             principal == Clamp(asked, f.limit)
             kept == Capitalised(f, principal)
             due == DueNextYear(f, t)
             repaid == Repaid(f, t)
  <1>1. f.limit \in Nat /\ f.pik \in BOOLEAN /\ f.draws[t] \in Nat /\ f.grace \in Nat
    BY DEF Scheduled
  <1>2. repaid \in Nat
    <2>1. t \in 1..Horizon /\ (~(t <= f.grace) => t - f.grace \in Month)
      BY <1>1, MonthsAre
    <2>2. t - f.grace \in Month => f.repays[t - f.grace] \in Nat
      BY DEF Scheduled
    <2>3. QED
      BY <2>1, <2>2 DEF Repaid
  <1>3. asked \in Int /\ asked = before + f.draws[t] - repaid
    BY <1>1, <1>2 DEF Asked
  <1> HIDE DEF asked, repaid
  <1>4. /\ principal \in Nat /\ principal <= f.limit
        /\ asked \in 0..f.limit => principal = asked
    BY <1>1, <1>3 DEF Clamp, Positive, Least
  <1> HIDE DEF principal
  <1>5. kept \in 0..principal /\ (~f.pik => kept = 0)
    BY <1>1, <1>4, ShareIs DEF Capitalised
  <1>6. due \in Nat
    BY DueIs
  <1> HIDE DEF kept, due
  <1>7. Share(principal) \in Int
    BY <1>4, ShareIs
  <1>8. Least(principal + kept, due) \in 0..(principal + kept)
    BY <1>4, <1>5, <1>6 DEF Least
  <1>9. CASE Converting(f, t)
    <2>1. row = [balance |-> 0, interest |-> 0, draw |-> 0, current |-> 0,
                 repaid |-> IF t = f.converts THEN before ELSE 0]
      BY <1>9 DEF DebtRow
    <2>2. QED
      BY <1>1, <1>9, <2>1
  <1>10. CASE ~Converting(f, t)
    <2>1. row = [balance |-> principal + kept, interest |-> Share(principal) - kept,
                 draw |-> f.draws[t], current |-> Least(principal + kept, due), repaid |-> repaid]
      BY <1>10 DEF DebtRow, principal, kept, due, repaid, asked
    <2>2. /\ row.balance = principal + kept /\ row.interest = Share(principal) - kept
          /\ row.draw = f.draws[t] /\ row.current = Least(principal + kept, due) /\ row.repaid = repaid
      BY <2>1
    <2> HIDE DEF Least
    <2>3. QED
      BY <1>1, <1>2, <1>3, <1>4, <1>5, <1>7, <1>8, <1>10, <2>2 DEF asked
  <1>11. QED
    BY <1>9, <1>10

(* A schedule goes from balance to balance, each computed from the one     *)
(* before.                                                                 *)
LEMMA ScheduleIs ==
    ASSUME NEW f \in Scheduled
    PROVE  \E b \in [0..Horizon -> Nat] :
               /\ b[0] = 0
               /\ Schedule(f) = [t \in Month |-> DebtRow(f, b[t - 1], t)]
               /\ \A t \in Month : b[t] = DebtRow(f, b[t - 1], t).balance
  <1> DEFINE g == [p \in Nat \X Month |-> DebtRow(f, p[1], p[2]).balance]
             b == CHOOSE b : b = [t \in 0..Horizon |-> IF t = 0 THEN 0 ELSE DebtRow(f, b[t - 1], t).balance]
  <1>1. \A x \in Nat, t \in 1..Horizon : g[<<x, t>>] = DebtRow(f, x, t).balance /\ g[<<x, t>>] \in Nat
    <2>1. \A x \in Nat, t \in Month : g[<<x, t>>] = DebtRow(f, x, t).balance
      OBVIOUS
    <2>2. \A x \in Nat, t \in Month : DebtRow(f, x, t).balance \in Nat
      BY DebtRowIs
    <2> HIDE DEF g
    <2>3. QED
      BY <2>1, <2>2, MonthsAre
  <1> HIDE DEF g
  <1>2. PICK h : h \in [0..Horizon -> Nat] /\ StepByStep(h, 0, g, Horizon)
    <2>1. Horizon \in Nat /\ 0 \in Nat /\ KeepsIn(Nat, g, Horizon)
      BY <1>1, MonthsAre DEF KeepsIn
    <2>2. QED
      BY <2>1, RecursionExists, Zenon
  <1>3. h = [t \in 0..Horizon |-> IF t = 0 THEN 0 ELSE DebtRow(f, h[t - 1], t).balance]
    <2>1. \A t \in 0..Horizon : h[t] = IF t = 0 THEN 0 ELSE DebtRow(f, h[t - 1], t).balance
      <3> TAKE t \in 0..Horizon
      <3>1. h[0] = 0 /\ (t # 0 => h[t] = g[<<h[t - 1], t>>])
        BY <1>2, MonthsAre DEF StepByStep
      <3>2. t # 0 => t \in 1..Horizon /\ h[t - 1] \in Nat
        BY <1>2, MonthsAre
      <3>3. QED
        BY <1>1, <3>1, <3>2
    <2>2. QED
      BY <1>2, <2>1
  <1>4. b = [t \in 0..Horizon |-> IF t = 0 THEN 0 ELSE DebtRow(f, b[t - 1], t).balance]
    <2>1. \E k : k = [t \in 0..Horizon |-> IF t = 0 THEN 0 ELSE DebtRow(f, k[t - 1], t).balance]
      BY <1>3
    <2>2. QED
      BY <2>1, Zenon
  <1>5. Schedule(f) = <<>> \o [t \in 1..Horizon |-> DebtRow(f, b[t - 1], t)]
    BY DEF Schedule, Series, Each
  <1> HIDE DEF b
  <1>6. b[0] = 0 /\ \A t \in Month : b[t] = DebtRow(f, b[t - 1], t).balance
    BY <1>4, MonthsAre
  <1>7. \A t \in 0..Horizon : t \in {k \in 0..Horizon : b[k] \in Nat}
    <2> DEFINE P == {k \in 0..Horizon : b[k] \in Nat}
    <2>1. 0 \in P
      BY <1>6, MonthsAre
    <2>2. ASSUME NEW t \in 1..Horizon, t - 1 \in P PROVE t \in P
      <3>1. b[t - 1] \in Nat /\ t \in Month
        BY <2>2, MonthsAre
      <3>2. DebtRow(f, b[t - 1], t).balance \in Nat
        BY <3>1, DebtRowIs
      <3>3. QED
        BY <1>6, <3>1, <3>2
    <2> HIDE DEF P
    <2>3. QED
      BY <2>1, <2>2, MonthsAre, StepInduction DEF P
  <1>8. b \in [0..Horizon -> Nat]
    BY <1>4, <1>7
  <1>9. Schedule(f) = [t \in Month |-> DebtRow(f, b[t - 1], t)]
    BY <1>5, MonthsAre, Written
  <1>10. QED
    BY <1>6, <1>8, <1>9

(* What a schedule says of each month; when it is followed, a balance      *)
(* changes by what is drawn less what is repaid.                           *)
LEMMA FacilityIs ==
    ASSUME NEW f \in Scheduled, NEW s, s = Schedule(f)
    PROVE  /\ \A t \in Month :
                 /\ s[t].balance \in Nat /\ s[t].interest \in Int /\ s[t].draw \in Int /\ s[t].repaid \in Int
                 /\ s[t].current \in 0..s[t].balance
                 /\ Converting(f, t) => s[t].balance = 0
                 /\ ~f.pik => s[t].balance <= f.limit
           /\ Followed(f, s) => \A t \in Month :
                 s[t].balance - (IF t = 1 THEN 0 ELSE s[t - 1].balance) = s[t].draw - s[t].repaid
  <1>1. PICK b \in [0..Horizon -> Nat] :
            /\ b[0] = 0
            /\ s = [t \in Month |-> DebtRow(f, b[t - 1], t)]
            /\ \A t \in Month : b[t] = DebtRow(f, b[t - 1], t).balance
    BY ScheduleIs
  <1>2. \A t \in Month : s[t] = DebtRow(f, b[t - 1], t) /\ b[t] = s[t].balance /\ b[t - 1] \in Nat
    BY <1>1, MonthsAre
  <1>3. \A t \in Month : b[t - 1] = IF t = 1 THEN 0 ELSE s[t - 1].balance
    BY <1>1, <1>2, MonthsAre
  <1>4. ASSUME NEW t \in Month
        PROVE  /\ s[t].balance \in Nat /\ s[t].interest \in Int /\ s[t].draw \in Int /\ s[t].repaid \in Int
               /\ s[t].current \in 0..s[t].balance
               /\ Converting(f, t) => s[t].balance = 0
               /\ ~f.pik => s[t].balance <= f.limit
    <2>1. s[t] = DebtRow(f, b[t - 1], t) /\ b[t - 1] \in Nat
      BY <1>2
    <2> DEFINE before == b[t - 1]
    <2> HIDE DEF before
    <2>2. QED
      BY <2>1, DebtRowIs DEF before
  <1>5. ASSUME Followed(f, s), NEW t \in Month PROVE s[t].balance - b[t - 1] = s[t].draw - s[t].repaid
    <2>1. s[t].balance = b[t - 1] + s[t].draw - s[t].repaid
      <3>1. CASE Converting(f, t)
        <4>1. f.converts \in Nat /\ f.converts <= t
          BY <3>1, MonthsAre DEF Converting, Scheduled
        <4>2. t = f.converts \/ b[t - 1] = 0
          <5>1. CASE t = 1
            BY <1>1, <5>1
          <5>2. CASE t # 1 /\ t # f.converts
            <6>1. t - 1 \in Month /\ Converting(f, t - 1)
              BY <3>1, <4>1, <5>2, MonthsAre DEF Converting
            <6>2. QED
              BY <1>3, <1>4, <5>2, <6>1
          <5>3. QED
            BY <5>1, <5>2
        <4>3. QED
          BY <1>2, <3>1, <4>2, DebtRowIs
      <3>2. CASE ~Converting(f, t)
        <4>1. ~f.pik /\ Asked(f, b[t - 1], t) \in 0..f.limit
          <5>1. ~f.pik /\ Asked(f, IF t = 1 THEN 0 ELSE s[t - 1].balance, t) \in 0..f.limit
            BY <1>5, <3>2 DEF Followed
          <5>2. QED
            BY <1>3, <5>1
        <4>2. QED
          BY <1>2, <3>2, <4>1, DebtRowIs
      <3>3. QED
        BY <3>1, <3>2
    <2>2. QED
      BY <1>2, <1>4, <2>1
  <1>6. QED
    BY <1>3, <1>4, <1>5

(* A figure of each facility in a month, and what they add up to.          *)
FigureOf(fs, t, field) == [i \in DOMAIN fs |-> Schedule(fs[i])[t][field]]
SumOver(fs, t, field) == SumFunctionOnSet(FigureOf(fs, t, field), DOMAIN fs)

LEMMA SeriesTyped ==
    ASSUME NEW f \in [Month -> Int]
    PROVE  <<>> \o f = f
  BY MonthsAre, Written

LEMMA DebtIs ==
    ASSUME NEW fs \in Seq(Scheduled), NEW debt, debt = calculate_debt_schedule(fs)
    PROVE  /\ DOMAIN fs = 1..Len(fs) /\ Len(fs) \in Nat /\ IsFiniteSet(DOMAIN fs)
           /\ \A i \in DOMAIN fs : fs[i] \in Scheduled /\ debt.schedules[i] = Schedule(fs[i])
           /\ debt.interest \in [Month -> Int] /\ debt.draws \in [Month -> Int]
           /\ debt.repayments \in [Month -> Int] /\ debt.current \in [Month -> Int]
           /\ debt.non_current \in [Month -> Int]
           /\ \A t \in Month :
                 /\ debt.draws[t] = SumOver(fs, t, "draw")
                 /\ debt.repayments[t] = SumOver(fs, t, "repaid")
                 /\ debt.current[t] = SumOver(fs, t, "current")
                 /\ debt.current[t] + debt.non_current[t] = SumOver(fs, t, "balance")
                 /\ SumOver(fs, t, "balance") \in Int
  <1>1. DOMAIN fs = 1..Len(fs) /\ Len(fs) \in Nat /\ \A i \in DOMAIN fs : fs[i] \in Scheduled
    BY LenProperties, ElementOfSeq
  <1>2. IsFiniteSet(DOMAIN fs)
    BY <1>1, FS_Interval
  <1> DEFINE schedules == [i \in 1..Len(fs) |-> Schedule(fs[i])]
             D == DOMAIN fs
             balance(t) == SumFunctionOnSet([i \in D |-> schedules[i][t].balance], D)
             interest(t) == SumFunctionOnSet([i \in D |-> schedules[i][t].interest], D)
             draw(t) == SumFunctionOnSet([i \in D |-> schedules[i][t].draw], D)
             repaid(t) == SumFunctionOnSet([i \in D |-> schedules[i][t].repaid], D)
             current(t) == SumFunctionOnSet([i \in D |-> schedules[i][t].current], D)
  <1>3. ASSUME NEW t \in Month
        PROVE  /\ balance(t) \in Int /\ interest(t) \in Int /\ draw(t) \in Int /\ repaid(t) \in Int
               /\ current(t) \in Int
    <2>1. \A i \in D : /\ schedules[i][t].balance \in Int /\ schedules[i][t].interest \in Int
                       /\ schedules[i][t].draw \in Int /\ schedules[i][t].repaid \in Int
                       /\ schedules[i][t].current \in Int
      <3>1. \A i \in D : LET s == Schedule(fs[i])
                         IN  /\ s[t].balance \in Nat /\ s[t].interest \in Int /\ s[t].draw \in Int
                             /\ s[t].repaid \in Int /\ s[t].current \in 0..s[t].balance
        BY <1>1, FacilityIs
      <3>2. QED
        BY <1>1, <3>1
    <2> HIDE DEF schedules, D
    <2>2. IsFiniteSet(D)
      BY <1>2 DEF D
    <2>3. QED
      BY <2>1, <2>2, SumTyped DEF Numbers
  <1> HIDE DEF balance, interest, draw, repaid, current
  <1>4. schedules = <<>> \o schedules
    BY <1>1, Written
  <1>5. /\ debt.schedules = schedules
        /\ debt.interest = <<>> \o [t \in Month |-> interest(t)]
        /\ debt.draws = <<>> \o [t \in Month |-> draw(t)]
        /\ debt.repayments = <<>> \o [t \in Month |-> repaid(t)]
        /\ debt.current = <<>> \o [t \in Month |-> current(t)]
        /\ debt.non_current = <<>> \o [t \in Month |-> (<<>> \o [k \in Month |-> balance(k)])[t]
                                                       - (<<>> \o [k \in Month |-> current(k)])[t]]
    BY <1>4 DEF calculate_debt_schedule, Each, Series, Total, Month, balance, interest, draw, repaid, current
  <1> HIDE DEF schedules
  <1>6. /\ debt.interest = [t \in Month |-> interest(t)] /\ debt.draws = [t \in Month |-> draw(t)]
        /\ debt.repayments = [t \in Month |-> repaid(t)] /\ debt.current = [t \in Month |-> current(t)]
        /\ debt.non_current = [t \in Month |-> balance(t) - current(t)]
    BY <1>3, <1>5, SeriesTyped
  <1>7. ASSUME NEW t \in Month
        PROVE  /\ draw(t) = SumOver(fs, t, "draw")
               /\ repaid(t) = SumOver(fs, t, "repaid")
               /\ current(t) = SumOver(fs, t, "current")
               /\ balance(t) = SumOver(fs, t, "balance")
    <2>1. \A i \in D : schedules[i] = Schedule(fs[i])
      BY <1>1 DEF schedules
    <2>2. QED
      BY <2>1 DEF SumOver, FigureOf, draw, repaid, current, balance
  <1>8. \A i \in DOMAIN fs : debt.schedules[i] = Schedule(fs[i])
    BY <1>1, <1>5 DEF schedules
  <1>9. /\ debt.interest \in [Month -> Int] /\ debt.draws \in [Month -> Int]
        /\ debt.repayments \in [Month -> Int] /\ debt.current \in [Month -> Int]
        /\ debt.non_current \in [Month -> Int]
    BY <1>3, <1>6
  <1>10. \A t \in Month :
             /\ debt.draws[t] = draw(t) /\ debt.repayments[t] = repaid(t) /\ debt.current[t] = current(t)
             /\ debt.current[t] + debt.non_current[t] = balance(t) /\ balance(t) \in Int
    BY <1>3, <1>6
  <1> HIDE DEF SumOver
  <1>11. QED
    BY <1>1, <1>2, <1>7, <1>8, <1>9, <1>10

(* The schedules of a configuration keep the bounds, whatever is drawn     *)
(* and repaid when.                                                        *)
LEMMA DebtKeepsItsBounds ==
    ASSUME NEW c, c.facilities \in Seq(Scheduled), NEW s, s.debt = calculate_debt_schedule(c.facilities)
    PROVE  DebtHasItsBounds(c, s)
  <1> DEFINE fs == c.facilities
             D == DOMAIN fs
  <1>1. ASSUME NEW i \in D, NEW t \in Month
        PROVE  /\ s.debt.schedules[i][t].balance \in Nat
               /\ Converting(fs[i], t) => s.debt.schedules[i][t].balance = 0
               /\ ~fs[i].pik => s.debt.schedules[i][t].balance <= fs[i].limit
               /\ s.debt.schedules[i][t].current \in 0..s.debt.schedules[i][t].balance
               /\ s.debt.schedules[i] = Schedule(fs[i])
    <2>1. fs[i] \in Scheduled /\ s.debt.schedules[i] = Schedule(fs[i])
      BY DebtIs
    <2>2. QED
      BY <2>1, FacilityIs
  <1>2. ASSUME NEW t \in Month
        PROVE  /\ s.debt.current[t] >= 0 /\ s.debt.non_current[t] >= 0
               /\ s.debt.current[t] + s.debt.non_current[t]
                    = Total(LAMBDA i : s.debt.schedules[i][t].balance, D)
    <2> DEFINE b == [i \in D |-> s.debt.schedules[i][t].balance]
               k == [i \in D |-> s.debt.schedules[i][t].current]
    <2>1. b = FigureOf(fs, t, "balance") /\ k = FigureOf(fs, t, "current")
      BY <1>1 DEF FigureOf
    <2>2. /\ s.debt.current[t] = SumFunctionOnSet(k, D)
          /\ s.debt.current[t] + s.debt.non_current[t] = SumFunctionOnSet(b, D)
          /\ s.debt.current[t] \in Int /\ s.debt.non_current[t] \in Int
          /\ IsFiniteSet(D)
      BY <2>1, DebtIs DEF SumOver
    <2>3. \A i \in D : b[i] \in Nat /\ k[i] \in Nat /\ k[i] <= b[i]
      BY <1>1
    <2>4. Total(LAMBDA i : s.debt.schedules[i][t].balance, D) = SumFunctionOnSet(b, D)
      BY DEF Total
    <2> HIDE DEF b, k, D
    <2>5. Numbers(b, D) /\ Numbers(k, D)
      BY <2>3 DEF Numbers
    <2>6. SumFunctionOnSet(k, D) <= SumFunctionOnSet(b, D)
      BY <2>2, <2>3, <2>5, SumAtMost
    <2>7. SumFunctionOnSet(k, {}) <= SumFunctionOnSet(k, D)
      BY <2>2, <2>3, <2>5, SumOfSubset
    <2>8. QED
      BY <2>2, <2>4, <2>6, <2>7, SumEmpty
  <1>3. \A i \in D, t \in Month :
            /\ s.debt.schedules[i][t].balance >= 0
            /\ Converting(fs[i], t) => s.debt.schedules[i][t].balance = 0
            /\ ~fs[i].pik => s.debt.schedules[i][t].balance <= fs[i].limit
    BY <1>1
  <1> HIDE DEF fs
  <1>4. QED
    BY <1>2, <1>3 DEF DebtHasItsBounds, fs

(* What is owed changes by what is drawn less what is repaid.              *)
LEMMA DebtIsFollowed ==
    ASSUME NEW fs \in Seq(Scheduled), NEW debt, debt = calculate_debt_schedule(fs),
           \A i \in DOMAIN fs : Followed(fs[i], debt.schedules[i]), NEW t \in Month
    PROVE  debt.current[t] + debt.non_current[t]
             = (IF t = 1 THEN 0 ELSE debt.current[t - 1] + debt.non_current[t - 1])
               + debt.draws[t] - debt.repayments[t]
  <1> DEFINE D == DOMAIN fs
             a == FigureOf(fs, t, "balance")
             b == FigureOf(fs, t, "draw")
             r == FigureOf(fs, t, "repaid")
             d == IF t = 1 THEN [i \in D |-> 0] ELSE FigureOf(fs, t - 1, "balance")
  <1>1. t = 1 \/ t - 1 \in Month
    BY MonthsAre
  <1>2. ASSUME NEW i \in D
        PROVE  /\ Schedule(fs[i])[t].balance \in Int /\ Schedule(fs[i])[t].draw \in Int
               /\ Schedule(fs[i])[t].repaid \in Int
               /\ t # 1 => Schedule(fs[i])[t - 1].balance \in Int
               /\ Schedule(fs[i])[t].balance - (IF t = 1 THEN 0 ELSE Schedule(fs[i])[t - 1].balance)
                    = Schedule(fs[i])[t].draw - Schedule(fs[i])[t].repaid
    <2>1. fs[i] \in Scheduled /\ Followed(fs[i], Schedule(fs[i]))
      BY DebtIs
    <2> DEFINE s == Schedule(fs[i])
    <2>2. /\ \A m \in Month : s[m].balance \in Nat /\ s[m].draw \in Int /\ s[m].repaid \in Int
          /\ s[t].balance - (IF t = 1 THEN 0 ELSE s[t - 1].balance) = s[t].draw - s[t].repaid
      BY <2>1, FacilityIs
    <2> HIDE DEF s
    <2>3. QED
      BY <1>1, <2>2 DEF s
  <1>3. /\ Numbers(a, D) /\ Numbers(b, D) /\ Numbers(r, D) /\ Numbers(d, D)
        /\ \A i \in D : a[i] - b[i] + r[i] = d[i]
    <2>1. ASSUME NEW i \in D
          PROVE  a[i] \in Int /\ b[i] \in Int /\ r[i] \in Int /\ d[i] \in Int /\ a[i] - b[i] + r[i] = d[i]
      <3> DEFINE w == Schedule(fs[i])[t].balance
                 x == Schedule(fs[i])[t].draw
                 y == Schedule(fs[i])[t].repaid
                 z == IF t = 1 THEN 0 ELSE Schedule(fs[i])[t - 1].balance
      <3>1. w \in Int /\ x \in Int /\ y \in Int /\ z \in Int /\ w - z = x - y
        BY <1>2
      <3>2. a[i] = w /\ b[i] = x /\ r[i] = y /\ d[i] = z
        BY DEF FigureOf
      <3> HIDE DEF w, x, y, z
      <3>3. w - x + y = z
        BY <3>1
      <3> HIDE DEF a, b, r, d
      <3>4. QED
        BY <3>1, <3>2, <3>3
    <2>2. QED
      BY <2>1 DEF Numbers
  <1>4. /\ debt.current[t] + debt.non_current[t] = SumFunctionOnSet(a, D)
        /\ debt.draws[t] = SumFunctionOnSet(b, D)
        /\ debt.repayments[t] = SumFunctionOnSet(r, D)
        /\ IsFiniteSet(D)
    BY DebtIs DEF SumOver
  <1>5. SumFunctionOnSet(d, D) = IF t = 1 THEN 0 ELSE debt.current[t - 1] + debt.non_current[t - 1]
    <2>1. CASE t = 1
      <3>1. \A i \in D : d[i] = 0
        BY <2>1
      <3> HIDE DEF d, D
      <3>2. SumFunctionOnSet(d, D) = 0
        BY <1>4, <3>1, SumOfZeros
      <3>3. QED
        BY <2>1, <3>2
    <2>2. CASE t # 1
      <3>1. d = FigureOf(fs, t - 1, "balance")
        BY <2>2
      <3>2. debt.current[t - 1] + debt.non_current[t - 1]
              = SumFunctionOnSet(FigureOf(fs, t - 1, "balance"), D)
        BY <1>1, <2>2, DebtIs DEF SumOver
      <3> HIDE DEF d, D
      <3>3. QED
        BY <2>2, <3>1, <3>2
    <2>3. QED
      BY <2>1, <2>2
  <1> HIDE DEF a, b, r, d, D
  <1>6. SumFunctionOnSet(a, D) - SumFunctionOnSet(b, D) + SumFunctionOnSet(r, D) = SumFunctionOnSet(d, D)
    BY <1>3, <1>4, SumsCombine
  <1>7. /\ SumFunctionOnSet(a, D) \in Int /\ SumFunctionOnSet(b, D) \in Int
        /\ SumFunctionOnSet(r, D) \in Int /\ SumFunctionOnSet(d, D) \in Int
    BY <1>3, <1>4, SumTyped
  <1> DEFINE total == IF t = 1 THEN 0 ELSE debt.current[t - 1] + debt.non_current[t - 1]
  <1> HIDE DEF total
  <1>8. SumFunctionOnSet(d, D) = total
    BY <1>5 DEF total
  <1>9. debt.current[t] + debt.non_current[t] = total + debt.draws[t] - debt.repayments[t]
    BY <1>4, <1>6, <1>7, <1>8
  <1>10. QED
    BY <1>9 DEF total
-----------------------------------------------------------------------------
(* The income statement.                                                   *)

CashPlug == [limit : Nat, linked : BOOLEAN, type : Int]

(* A configuration: figures by month, purchases with a useful life,        *)
(* facilities with a limit and a schedule, plugs with a limit.             *)
Configuration(c) ==
    /\ c.revenue \in [Month -> Int] /\ c.cogs \in [Month -> Int] /\ c.opex \in [Month -> Int]
    /\ IsFiniteSet(c.capex)
    /\ \A p \in c.capex : p.month \in Int /\ p.life \in Nat \ {0} /\ p.amount \in Int
    /\ c.ar \in Int /\ c.ap \in Int /\ c.inv \in Int
    /\ c.facilities \in Seq(Scheduled) /\ c.raised \in Int /\ c.nol \in BOOLEAN
    /\ c.initial_equity \in Int /\ c.initial_cash \in Int
    /\ c.plugs \in Seq(CashPlug) /\ c.minimum \in Int

LEMMA DepreciationIs ==
    ASSUME NEW c, Configuration(c)
    PROVE  _compute_da_per_period(c) \in [Month -> Int]
  <1> DEFINE charge(t, p) == IF p.month <= t /\ t < p.month + p.life THEN p.amount \div p.life ELSE 0
             da(t) == SumFunctionOnSet([p \in c.capex |-> charge(t, p)], c.capex)
  <1>1. \A t \in Month : da(t) \in Int
    <2> TAKE t \in Month
    <2>1. \A p \in c.capex : charge(t, p) \in Int
      <3>1. \A k \in Int, n \in Nat \ {0} : k \div n \in Int
        OBVIOUS
      <3>2. \A p \in c.capex : p.amount \in Int /\ p.life \in Nat \ {0}
        BY DEF Configuration
      <3>3. \A p \in c.capex : p.amount \div p.life \in Int
        BY <3>1, <3>2
      <3>4. QED
        BY <3>3
    <2> HIDE DEF charge
    <2>2. Numbers([p \in c.capex |-> charge(t, p)], c.capex) /\ IsFiniteSet(c.capex)
      BY <2>1 DEF Numbers, Configuration
    <2>3. QED
      BY <2>2, SumTyped
  <1>2. _compute_da_per_period(c) = <<>> \o [t \in Month |-> da(t)]
    BY DEF _compute_da_per_period, Series, Each, Total, Month
  <1> HIDE DEF da
  <1>3. QED
    BY <1>1, <1>2, SeriesTyped

(* One month: what is not taxed of a profit is a loss of earlier months.   *)
LEMMA IncomeRowIs ==
    ASSUME NEW c, Configuration(c), NEW nol \in Nat, NEW da \in Int, NEW interest \in Int,
           NEW t \in Month, NEW row, row = IncomeRow(c, nol, da, interest, t)
    PROVE  /\ row.nol_balance \in Nat /\ row.ebt \in Int /\ row.taxable_income \in Int
           /\ row.net_income \in Int /\ row.dividends \in Int /\ row.da = da
           /\ c.nol => row.ebt = row.taxable_income - (row.nol_balance - nol)
  <1> DEFINE ebt == c.revenue[t] - c.cogs[t] - c.opex[t] - da - interest
             used == IF c.nol /\ ebt > 0 THEN Least(nol, ebt) ELSE 0
             taxable == Positive(ebt - used)
             net == ebt - Share(taxable)
             kept == IF c.nol THEN CarriedForward(nol, used, ebt) ELSE 0
  <1>1. row = [ebt |-> ebt, da |-> da, nol_offset |-> used, taxable_income |-> taxable,
               net_income |-> net, dividends |-> Dividend(c, net), nol_balance |-> kept]
    BY DEF IncomeRow
  <1>2. ebt \in Int
    <2>1. c.revenue[t] \in Int /\ c.cogs[t] \in Int /\ c.opex[t] \in Int
      BY DEF Configuration
    <2>2. QED
      BY <2>1
  <1> HIDE DEF ebt
  <1>3. /\ used \in Nat /\ used <= nol
        /\ c.nol /\ ebt > 0 => used <= ebt
        /\ ~(c.nol /\ ebt > 0) => used = 0
    BY <1>2 DEF Least
  <1> HIDE DEF used
  <1>4. /\ taxable \in Nat /\ kept \in Nat
        /\ c.nol => ebt = taxable - (kept - nol)
    BY <1>2, <1>3 DEF Positive, CarriedForward
  <1> HIDE DEF taxable, kept
  <1>5. net \in Int
    BY <1>2, <1>4, ShareIs
  <1> HIDE DEF net
  <1>6. Dividend(c, net) \in Int
    BY <1>5, ShareIs DEF Dividend, Positive
  <1>7. QED
    BY <1>1, <1>2, <1>4, <1>5, <1>6

(* The statement goes from carried losses to carried losses.               *)
LEMMA IncomeIs ==
    ASSUME NEW c, Configuration(c), NEW interest \in [Month -> Int]
    PROVE  \E b \in [0..Horizon -> Nat] :
               /\ b[0] = 0
               /\ _build_income_statement(c, interest)
                    = [t \in Month |-> IncomeRow(c, b[t - 1], _compute_da_per_period(c)[t], interest[t], t)]
               /\ \A t \in Month :
                     b[t] = IncomeRow(c, b[t - 1], _compute_da_per_period(c)[t], interest[t], t).nol_balance
  <1> DEFINE da == _compute_da_per_period(c)
             RowFor(x, t) == IncomeRow(c, x, da[t], interest[t], t)
             g == [p \in Nat \X Month |-> RowFor(p[1], p[2]).nol_balance]
             b == CHOOSE b : b = [t \in 0..Horizon |-> IF t = 0 THEN 0 ELSE RowFor(b[t - 1], t).nol_balance]
  <1>1. \A t \in Month : da[t] \in Int /\ interest[t] \in Int
    BY DepreciationIs
  <1> HIDE DEF da
  <1>2. \A x \in Nat, t \in Month : RowFor(x, t).nol_balance \in Nat
    BY <1>1, IncomeRowIs
  <1>3. _build_income_statement(c, interest) = <<>> \o [t \in 1..Horizon |-> RowFor(b[t - 1], t)]
    BY DEF _build_income_statement, Series, Each, da
  <1> HIDE DEF RowFor
  <1>4. \A x \in Nat, t \in 1..Horizon : g[<<x, t>>] = RowFor(x, t).nol_balance /\ g[<<x, t>>] \in Nat
    BY <1>2, MonthsAre
  <1> HIDE DEF g
  <1>5. PICK h : h \in [0..Horizon -> Nat] /\ StepByStep(h, 0, g, Horizon)
    <2>1. Horizon \in Nat /\ 0 \in Nat /\ KeepsIn(Nat, g, Horizon)
      BY <1>4, MonthsAre DEF KeepsIn
    <2>2. QED
      BY <2>1, RecursionExists, Zenon
  <1>6. h = [t \in 0..Horizon |-> IF t = 0 THEN 0 ELSE RowFor(h[t - 1], t).nol_balance]
    <2>1. \A t \in 0..Horizon : h[t] = IF t = 0 THEN 0 ELSE RowFor(h[t - 1], t).nol_balance
      <3> TAKE t \in 0..Horizon
      <3>1. h[0] = 0 /\ (t # 0 => h[t] = g[<<h[t - 1], t>>])
        BY <1>5, MonthsAre DEF StepByStep
      <3>2. t # 0 => t \in 1..Horizon /\ h[t - 1] \in Nat
        BY <1>5, MonthsAre
      <3>3. QED
        BY <1>4, <3>1, <3>2
    <2>2. QED
      BY <1>5, <2>1
  <1>7. b = [t \in 0..Horizon |-> IF t = 0 THEN 0 ELSE RowFor(b[t - 1], t).nol_balance]
    <2>1. \E k : k = [t \in 0..Horizon |-> IF t = 0 THEN 0 ELSE RowFor(k[t - 1], t).nol_balance]
      BY <1>6
    <2>2. QED
      BY <2>1, Zenon
  <1> HIDE DEF b
  <1>8. b[0] = 0 /\ \A t \in Month : b[t] = RowFor(b[t - 1], t).nol_balance
    BY <1>7, MonthsAre
  <1>9. \A t \in 0..Horizon : b[t] \in Nat
    <2> DEFINE P == {k \in 0..Horizon : b[k] \in Nat}
    <2>1. 0 \in P
      BY <1>8, MonthsAre
    <2>2. ASSUME NEW t \in 1..Horizon, t - 1 \in P PROVE t \in P
      <3>1. b[t - 1] \in Nat /\ t \in Month /\ t \in 0..Horizon
        BY <2>2, MonthsAre
      <3>2. QED
        BY <1>2, <1>8, <3>1
    <2> HIDE DEF P
    <2>3. QED
      BY <2>1, <2>2, MonthsAre, StepInduction DEF P
  <1>10. b \in [0..Horizon -> Nat]
    BY <1>7, <1>9
  <1>11. _build_income_statement(c, interest) = [t \in Month |-> RowFor(b[t - 1], t)]
    BY <1>3, MonthsAre, Written
  <1>12. QED
    BY <1>8, <1>10, <1>11 DEF RowFor, da

(* What an income statement's figures are.                                 *)
LEMMA IncomeTyped ==
    ASSUME NEW c, Configuration(c), NEW interest \in [Month -> Int],
           NEW is, is = _build_income_statement(c, interest), NEW t \in Month
    PROVE  /\ is[t].ebt \in Int /\ is[t].taxable_income \in Int /\ is[t].nol_balance \in Nat
           /\ is[t].net_income \in Int /\ is[t].dividends \in Int /\ is[t].da \in Int
  <1>1. PICK b \in [0..Horizon -> Nat] :
            is = [m \in Month |-> IncomeRow(c, b[m - 1], _compute_da_per_period(c)[m], interest[m], m)]
    BY IncomeIs
  <1> DEFINE x == b[t - 1]
             da == _compute_da_per_period(c)[t]
             cost == interest[t]
  <1>2. x \in Nat /\ da \in Int /\ cost \in Int
    BY DepreciationIs, MonthsAre
  <1>3. is[t] = IncomeRow(c, x, da, cost, t)
    BY <1>1
  <1> HIDE DEF x, da, cost
  <1>4. QED
    BY <1>2, <1>3, IncomeRowIs

LEMMA LossesAreSetOffOnce ==
    ASSUME NEW c, Configuration(c), NEW interest \in [Month -> Int],
           NEW s, s.is = _build_income_statement(c, interest)
    PROVE  LossesSetOffOnce(c, s)
  <1>1. SUFFICES ASSUME c.nol PROVE LossesSetOffOnce(c, s)
    BY DEF LossesSetOffOnce
  <1> DEFINE RowFor(x, t) == IncomeRow(c, x, _compute_da_per_period(c)[t], interest[t], t)
  <1>2. PICK b \in [0..Horizon -> Nat] :
            /\ b[0] = 0
            /\ s.is = [m \in Month |-> RowFor(b[m - 1], m)]
            /\ \A m \in Month : b[m] = RowFor(b[m - 1], m).nol_balance
    BY IncomeIs
  <1> DEFINE e == [t \in Month |-> s.is[t].ebt]
             w == [t \in Month |-> s.is[t].taxable_income]
  <1>3. ASSUME NEW t \in Month
        PROVE  /\ e[t] \in Int /\ w[t] \in Int /\ b[t] \in Nat /\ b[t - 1] \in Nat
               /\ s.is[t].nol_balance = b[t] /\ e[t] = w[t] - (b[t] - b[t - 1])
    <2> DEFINE x == b[t - 1]
               da == _compute_da_per_period(c)[t]
               cost == interest[t]
    <2>1. x \in Nat /\ da \in Int /\ cost \in Int /\ b[t] \in Nat
      BY DepreciationIs, MonthsAre
    <2>2. s.is[t] = IncomeRow(c, x, da, cost, t) /\ b[t] = IncomeRow(c, x, da, cost, t).nol_balance
      BY <1>2
    <2>3. e[t] = s.is[t].ebt /\ w[t] = s.is[t].taxable_income
      OBVIOUS
    <2> HIDE DEF da, cost, e, w
    <2>4. x = b[t - 1]
      OBVIOUS
    <2> HIDE DEF x
    <2>5. /\ s.is[t].ebt \in Int /\ s.is[t].taxable_income \in Int
          /\ s.is[t].ebt = s.is[t].taxable_income - (s.is[t].nol_balance - x)
      BY <1>1, <2>1, <2>2, IncomeRowIs
    <2>6. QED
      BY <2>1, <2>2, <2>3, <2>4, <2>5
  <1>4. LossesSetOffOnce(c, s)
          <=> /\ SumFunctionOnSet(e, Month) = SumFunctionOnSet(w, Month) - s.is[Horizon].nol_balance
              /\ \A t \in Month : s.is[t].nol_balance >= 0
    BY <1>1 DEF LossesSetOffOnce, Total
  <1> HIDE DEF e, w
  <1> DEFINE P == {t \in 0..Horizon : SumFunctionOnSet(e, 1..t) = SumFunctionOnSet(w, 1..t) - b[t]}
  <1>5. 0 \in P
    <2>1. SumFunctionOnSet(e, 1..0) = 0 /\ SumFunctionOnSet(w, 1..0) = 0
      <3>1. 1..0 = {}
        OBVIOUS
      <3>2. QED
        BY <3>1, SumEmpty
    <2>2. QED
      BY <1>2, <2>1, MonthsAre
  <1>6. ASSUME NEW t \in 1..Horizon, t - 1 \in P PROVE t \in P
    <2>1. t \in Nat /\ t # 0 /\ t \in Month /\ Numbers(e, 1..t) /\ Numbers(w, 1..t)
      BY <1>3, MonthsAre DEF Numbers
    <2> DEFINE E0 == SumFunctionOnSet(e, 1..(t - 1))
               W0 == SumFunctionOnSet(w, 1..(t - 1))
               E1 == SumFunctionOnSet(e, 1..t)
               W1 == SumFunctionOnSet(w, 1..t)
               ebt == e[t]
               taxed == w[t]
               before == b[t - 1]
               after == b[t]
    <2>2. E0 \in Int /\ W0 \in Int /\ E1 = E0 + ebt /\ W1 = W0 + taxed
      BY <2>1, SumUpTo
    <2>3. E0 = W0 - before
      BY <1>6
    <2>4. ebt \in Int /\ taxed \in Int /\ before \in Int /\ after \in Int /\ ebt = taxed - (after - before)
      BY <1>3, <2>1
    <2> HIDE DEF E0, W0, E1, W1, ebt, taxed, before, after
    <2>5. E1 = W1 - after
      BY <2>2, <2>3, <2>4
    <2>6. QED
      BY <2>5, MonthsAre DEF E1, W1, after
  <1>7. \A t \in 0..Horizon : t \in P
    <2> HIDE DEF P
    <2>1. QED
      BY <1>5, <1>6, MonthsAre, StepInduction
  <1>8. Horizon \in Month /\ Horizon \in 0..Horizon /\ Month = 1..Horizon
    BY MonthsAre
  <1>9. SumFunctionOnSet(e, Month) = SumFunctionOnSet(w, Month) - s.is[Horizon].nol_balance
    BY <1>3, <1>7, <1>8
  <1>10. QED
    BY <1>3, <1>4, <1>9
-----------------------------------------------------------------------------
(* The balance sheet.                                                      *)

(* What has accumulated by a month.                                        *)
ByMonth(w, t) == SumFunctionOnSet([k \in 1..t |-> w[k]], 1..t)

LEMMA Accumulates ==
    ASSUME NEW w \in [Month -> Int], NEW t \in Month
    PROVE  /\ ByMonth(w, t) \in Int
           /\ ByMonth(w, t) = (IF t = 1 THEN 0 ELSE ByMonth(w, t - 1)) + w[t]
  <1>1. \A n \in 0..Horizon : ByMonth(w, n) = SumFunctionOnSet(w, 1..n)
    <2> TAKE n \in 0..Horizon
    <2> DEFINE v == [k \in 1..n |-> w[k]]
               S == 1..n
    <2>1. IsFiniteSet(S)
      BY MonthsAre, FS_Interval
    <2>2. \A k \in S : v[k] = w[k] /\ v[k] \in Int
      BY MonthsAre
    <2>3. ByMonth(w, n) = SumFunctionOnSet(v, S)
      BY DEF ByMonth
    <2> HIDE DEF v, S
    <2>4. SumFunctionOnSet(v, S) = SumFunctionOnSet(w, S)
      BY <2>1, <2>2, SumSame DEF Numbers
    <2>5. QED
      BY <2>3, <2>4 DEF S
  <1>2. t \in Nat /\ t # 0 /\ t - 1 \in 0..Horizon /\ t \in 0..Horizon /\ Numbers(w, 1..t)
    BY MonthsAre DEF Numbers
  <1>3. /\ SumFunctionOnSet(w, 1..t) \in Int /\ SumFunctionOnSet(w, 1..(t - 1)) \in Int /\ w[t] \in Int
        /\ SumFunctionOnSet(w, 1..t) = SumFunctionOnSet(w, 1..(t - 1)) + w[t]
    BY <1>2, SumUpTo
  <1>4. ByMonth(w, t) = SumFunctionOnSet(w, 1..t) /\ ByMonth(w, t - 1) = SumFunctionOnSet(w, 1..(t - 1))
    BY <1>1, <1>2
  <1>5. t = 1 => SumFunctionOnSet(w, 1..(t - 1)) = 0
    <2>1. t = 1 => 1..(t - 1) = {}
      OBVIOUS
    <2>2. QED
      BY <2>1, SumEmpty
  <1>6. QED
    BY <1>3, <1>4, <1>5

(* Retained earnings and depreciation, month by month.                     *)
LEMMA RetainedIs ==
    ASSUME NEW c, Configuration(c), NEW raised \in [Month -> Int],
           NEW is, \A t \in Month : is[t].net_income \in Int /\ is[t].dividends \in Int
    PROVE  /\ _accumulate_re(c, is, raised) \in [Month -> Int]
           /\ \A t \in Month : _accumulate_re(c, is, raised)[t]
                = (IF t = 1 THEN c.initial_equity ELSE _accumulate_re(c, is, raised)[t - 1])
                  + (is[t].net_income - is[t].dividends + raised[t])
  <1> DEFINE w == [k \in Month |-> RetainedStep(is, raised, k)]
             sum(t) == SumFunctionOnSet([k \in 1..t |-> RetainedStep(is, raised, k)], 1..t)
             E == c.initial_equity
             re == _accumulate_re(c, is, raised)
  <1>1. \A t \in Month : w[t] = is[t].net_income - is[t].dividends + raised[t] /\ w[t] \in Int
    <2> TAKE t \in Month
    <2>1. w[t] = is[t].net_income - is[t].dividends + raised[t]
      BY DEF RetainedStep
    <2>2. raised[t] \in Int /\ is[t].net_income \in Int /\ is[t].dividends \in Int
      OBVIOUS
    <2> HIDE DEF w
    <2>3. QED
      BY <2>1, <2>2
  <1>2. w \in [Month -> Int]
    BY <1>1
  <1>3. \A t \in Month : sum(t) = ByMonth(w, t)
    <2> TAKE t \in Month
    <2>1. [k \in 1..t |-> RetainedStep(is, raised, k)] = [k \in 1..t |-> w[k]]
      BY MonthsAre
    <2>2. QED
      BY <2>1 DEF ByMonth
  <1>4. re = <<>> \o [t \in Month |-> c.initial_equity + sum(t)]
    BY DEF _accumulate_re, Series, Each, Total, Month
  <1>5. E \in Int
    BY DEF Configuration
  <1> HIDE DEF sum, w, re
  <1>6. \A t \in Month : ByMonth(w, t) \in Int
    BY <1>2, Accumulates
  <1>7. re = [t \in Month |-> E + sum(t)] /\ re \in [Month -> Int]
    BY <1>3, <1>4, <1>5, <1>6, SeriesTyped
  <1> HIDE DEF E
  <1>8. ASSUME NEW t \in Month
        PROVE  re[t] = (IF t = 1 THEN E ELSE re[t - 1]) + w[t]
    <2> DEFINE now == ByMonth(w, t)
               before == IF t = 1 THEN 0 ELSE ByMonth(w, t - 1)
               step == w[t]
    <2>1. now = before + step /\ now \in Int /\ step \in Int
      BY <1>2, Accumulates
    <2>2. before \in Int /\ E \in Int
      <3>1. t # 1 => t - 1 \in Month
        BY MonthsAre
      <3>2. QED
        BY <1>5, <1>6, <3>1 DEF E
    <2>3. re[t] = E + now /\ (IF t = 1 THEN E ELSE re[t - 1]) = E + before
      <3>1. t # 1 => t - 1 \in Month
        BY MonthsAre
      <3>2. re[t] = E + now
        BY <1>3, <1>7
      <3>3. t # 1 => re[t - 1] = E + ByMonth(w, t - 1)
        BY <1>3, <1>7, <3>1
      <3>4. QED
        BY <2>2, <3>2, <3>3
    <2> DEFINE earlier == IF t = 1 THEN E ELSE re[t - 1]
    <2>4. earlier = E + before
      BY <2>3
    <2> HIDE DEF now, before, step, earlier
    <2>5. re[t] = earlier + step
      BY <2>1, <2>2, <2>3, <2>4
    <2>6. QED
      BY <2>5 DEF earlier, step
  <1>9. QED
    BY <1>1, <1>7, <1>8 DEF re, E

(* The lines of a balance sheet, and the cash that makes it balance.       *)
Stated(is) == \A t \in Month : is[t].net_income \in Int /\ is[t].dividends \in Int /\ is[t].da \in Int
SheetBalances(c, is, bs, debt, raised, wf, t) ==
    /\ bs[t].cash \in Int /\ bs[t].ar \in Int /\ bs[t].ap \in Int /\ bs[t].inv \in Int
    /\ bs[t].ppe_gross \in Int
    /\ bs[t].cash = bs[t].ap + debt.current[t] + debt.non_current[t] + wf[t]
           + _accumulate_re(c, is, raised)[t]
           - (bs[t].ar + bs[t].inv + bs[t].ppe_gross - ByMonth([k \in Month |-> is[k].da], t))

LEMMA SheetIs ==
    ASSUME NEW c, Configuration(c), NEW raised \in [Month -> Int], NEW wf \in [Month -> Int],
           NEW debt, debt.current \in [Month -> Int], debt.non_current \in [Month -> Int],
           NEW is, Stated(is),
           NEW bs, bs = _build_balance_sheet(c, is, debt, raised, wf), NEW t \in Month
    PROVE  SheetBalances(c, is, bs, debt, raised, wf, t)
  <1> DEFINE re == _accumulate_re(c, is, raised)
             w == [k \in Month |-> is[k].da]
             gone(n) == SumFunctionOnSet([k \in 1..n |-> is[k].da], 1..n)
             bought == [p \in c.capex |-> IF p.month <= t THEN p.amount ELSE 0]
             ppe == SumFunctionOnSet(bought, c.capex)
             ar == c.ar * c.revenue[t]
             ap == c.ap * c.cogs[t]
             inv == c.inv * c.cogs[t]
             owed == ap + debt.current[t] + debt.non_current[t] + wf[t]
  <1>1. bs = <<>> \o [m \in Month |-> SheetRow(c, re[m], gone(m), debt, wf[m], m)]
    BY DEF _build_balance_sheet, Series, Each, Total, Month
  <1>2. bs = [m \in Month |-> SheetRow(c, re[m], gone(m), debt, wf[m], m)]
    <2> HIDE DEF re, gone
    <2>1. QED
      BY <1>1, MonthsAre, Written
  <1>3. gone(t) = ByMonth(w, t)
    <2>1. [k \in 1..t |-> is[k].da] = [k \in 1..t |-> w[k]]
      BY MonthsAre
    <2>2. QED
      BY <2>1 DEF ByMonth
  <1>4. bs[t] = [cash |-> owed + re[t] - (ar + inv + ppe - gone(t)),
                 ar |-> ar, ap |-> ap, inv |-> inv, ppe_gross |-> ppe,
                 total_liabilities |-> owed, total_equity |-> re[t]]
    BY <1>2 DEF SheetRow, Total
  <1>5. re[t] \in Int /\ ByMonth(w, t) \in Int
    <2>1. w \in [Month -> Int]
      BY DEF Stated
    <2> HIDE DEF w
    <2>2. QED
      BY <2>1, RetainedIs, Accumulates DEF Stated
  <1>6. ppe \in Int
    <2>1. IsFiniteSet(c.capex) /\ \A p \in c.capex : bought[p] \in Int
      BY DEF Configuration
    <2> HIDE DEF bought
    <2>2. QED
      BY <2>1, SumTyped DEF Numbers
  <1>7. ar \in Int /\ ap \in Int /\ inv \in Int /\ debt.current[t] \in Int /\ debt.non_current[t] \in Int /\ wf[t] \in Int
    <2>1. /\ c.ar \in Int /\ c.ap \in Int /\ c.inv \in Int /\ c.revenue[t] \in Int /\ c.cogs[t] \in Int
      BY DEF Configuration
    <2>2. \A x, y \in Int : x * y \in Int
      OBVIOUS
    <2>3. QED
      BY <2>1, <2>2
  <1>8. owed \in Int
    <2> HIDE DEF ap
    <2>1. QED
      BY <1>7
  <1> DEFINE acc == ByMonth(w, t)
             kept == re[t]
             cash == owed + kept - (ar + inv + ppe - acc)
  <1>9. /\ bs[t].cash = cash /\ bs[t].ar = ar /\ bs[t].ap = ap /\ bs[t].inv = inv /\ bs[t].ppe_gross = ppe
    <2> HIDE DEF ar, ap, inv, ppe, owed, re, gone, w
    <2>1. QED
      BY <1>3, <1>4
  <1>10. cash \in Int
    <2>1. acc \in Int /\ kept \in Int
      BY <1>5
    <2> HIDE DEF ar, inv, ppe, owed, acc, kept
    <2>2. QED
      BY <1>6, <1>7, <1>8, <2>1
  <1>11. bs[t].cash = bs[t].ap + debt.current[t] + debt.non_current[t] + wf[t] + kept
                      - (bs[t].ar + bs[t].inv + bs[t].ppe_gross - acc)
    <2> HIDE DEF ar, ap, inv, ppe, kept, acc
    <2>1. QED
      BY <1>9
  <1>12. QED
    <2> HIDE DEF ar, ap, inv, ppe, cash
    <2>1. QED
      BY <1>6, <1>7, <1>9, <1>10, <1>11 DEF kept, acc, re, w, SheetBalances
-----------------------------------------------------------------------------
(* The cash flow.                                                          *)

(* The arithmetic of one month: cash is what makes the sheet balance now   *)
(* and did before, and each line has changed by its step.                  *)
LEMMA OneMonth ==
    ASSUME NEW ap \in Int, NEW ar \in Int, NEW inv \in Int, NEW ppe \in Int, NEW acc \in Int,
           NEW owed \in Int, NEW wf \in Int, NEW re \in Int,
           NEW ap0 \in Int, NEW ar0 \in Int, NEW inv0 \in Int, NEW ppe0 \in Int, NEW acc0 \in Int,
           NEW owed0 \in Int, NEW wf0 \in Int, NEW re0 \in Int,
           NEW net \in Int, NEW div \in Int, NEW raised \in Int, NEW da \in Int,
           NEW draws \in Int, NEW repaid \in Int, NEW gap \in Int, NEW opening \in Int,
           NEW cash \in Int, cash = ap + owed + wf + re - (ar + inv + ppe - acc),
           opening = ap0 + owed0 + wf0 + re0 - (ar0 + inv0 + ppe0 - acc0) - gap,
           re = re0 + (net - div + raised), acc = acc0 + da, owed = owed0 + draws - repaid
    PROVE  cash - opening - (net + da - (ar - ar0) - (inv - inv0) + (ap - ap0)) - (-(ppe - ppe0))
             = draws - repaid + raised - div + (wf - wf0) + gap
  OBVIOUS

LEMMA FinancingAlwaysExplained ==
    ASSUME NEW c, Configuration(c), NEW raised \in [Month -> Int], NEW interest \in [Month -> Int],
           NEW s, NEW declared, s.wf \in [Month -> Int],
           s.debt = calculate_debt_schedule(c.facilities),
           s.is = _build_income_statement(c, interest),
           s.bs = _build_balance_sheet(c, s.is, s.debt, raised, s.wf),
           s.cf = _build_cash_flow(c, s.is, declared, s.bs, s.debt, raised)
    PROVE  FinancingIsExplained(c, s)
  <1> DEFINE is == s.is
             bs == s.bs
             cf == s.cf
             debt == s.debt
             wf == s.wf
             R == _accumulate_re(c, is, raised)
             A(t) == ByMonth([k \in Month |-> is[k].da], t)
  <1> SUFFICES ASSUME \A i \in DOMAIN c.facilities : Followed(c.facilities[i], debt.schedules[i]),
                      NEW t \in Month
               PROVE  cf[t].financing = cf[t].debt_draws - cf[t].debt_repayments
                          + cf[t].equity_raised - is[t].dividends + Change(wf, t)
                          + IF t = 1 THEN c.initial_equity - c.initial_cash ELSE 0
    BY DEF FinancingIsExplained
  <1>1. c.facilities \in Seq(Scheduled) /\ c.initial_equity \in Int /\ c.initial_cash \in Int
    BY DEF Configuration
  <1>2. cf[t] = CashRow(c, is, declared, bs, debt, raised, t)
    <2>1. cf = <<>> \o [m \in 1..Horizon |-> CashRow(c, is, declared, bs, debt, raised, m)]
      BY DEF _build_cash_flow, Series, Each
    <2>2. QED
      BY <2>1, MonthsAre, Written
  <1>3. \A m \in Month : is[m].net_income \in Int /\ is[m].dividends \in Int /\ is[m].da \in Int
    BY IncomeTyped
  <1>4. /\ debt.current \in [Month -> Int] /\ debt.non_current \in [Month -> Int]
        /\ debt.draws \in [Month -> Int] /\ debt.repayments \in [Month -> Int]
    BY <1>1, DebtIs
  <1>5. ASSUME NEW m \in Month
        PROVE  /\ bs[m].cash \in Int /\ bs[m].ar \in Int /\ bs[m].ap \in Int /\ bs[m].inv \in Int
               /\ bs[m].ppe_gross \in Int
               /\ bs[m].cash = bs[m].ap + debt.current[m] + debt.non_current[m] + wf[m] + R[m]
                               - (bs[m].ar + bs[m].inv + bs[m].ppe_gross - A(m))
    <2>1. wf \in [Month -> Int] /\ bs = _build_balance_sheet(c, is, debt, raised, wf)
      OBVIOUS
    <2> HIDE DEF is, bs, debt, wf, A, R
    <2>2. SheetBalances(c, is, bs, debt, raised, wf, m)
      <3>1. Stated(is)
        BY <1>3 DEF Stated
      <3>2. QED
        BY <1>4, <2>1, <3>1, SheetIs
    <2>3. QED
      BY <2>2 DEF R, A, SheetBalances
  <1>6. t = 1 \/ t - 1 \in Month
    BY MonthsAre
  <1>7. /\ R[t] \in Int /\ (t # 1 => R[t - 1] \in Int)
        /\ R[t] = (IF t = 1 THEN c.initial_equity ELSE R[t - 1])
                  + (is[t].net_income - is[t].dividends + raised[t])
    BY <1>3, <1>6, RetainedIs
  <1>8. A(t) \in Int /\ (t # 1 => A(t - 1) \in Int) /\ A(t) = (IF t = 1 THEN 0 ELSE A(t - 1)) + is[t].da
    <2> DEFINE w == [k \in Month |-> is[k].da]
    <2>1. w \in [Month -> Int] /\ w[t] = is[t].da
      BY <1>3
    <2> HIDE DEF w
    <2>2. /\ ByMonth(w, t) \in Int /\ (t # 1 => ByMonth(w, t - 1) \in Int)
          /\ ByMonth(w, t) = (IF t = 1 THEN 0 ELSE ByMonth(w, t - 1)) + w[t]
      BY <1>6, <2>1, Accumulates
    <2>3. QED
      BY <2>1, <2>2 DEF w
  <1> HIDE DEF R, A
  <1> DEFINE Was(x) == IF t = 1 THEN 0 ELSE x
             ap == bs[t].ap
             ap0 == Was(bs[t - 1].ap)
             ar == bs[t].ar
             ar0 == Was(bs[t - 1].ar)
             inv == bs[t].inv
             inv0 == Was(bs[t - 1].inv)
             ppe == bs[t].ppe_gross
             ppe0 == Was(bs[t - 1].ppe_gross)
             acc == A(t)
             acc0 == Was(A(t - 1))
             owed == debt.current[t] + debt.non_current[t]
             owed0 == Was(debt.current[t - 1] + debt.non_current[t - 1])
             debt_wf == wf[t]
             debt_wf0 == Was(wf[t - 1])
             re == R[t]
             re0 == IF t = 1 THEN c.initial_equity ELSE R[t - 1]
             net == is[t].net_income
             div == is[t].dividends
             extra == raised[t]
             da == is[t].da
             draws == debt.draws[t]
             repaid == debt.repayments[t]
             gap == IF t = 1 THEN c.initial_equity - c.initial_cash ELSE 0
             opening == IF t = 1 THEN c.initial_cash ELSE bs[t - 1].cash
             cash == bs[t].cash
  <1>9. /\ cf[t].financing = cash - opening - (net + da - (ar - ar0) - (inv - inv0) + (ap - ap0)) - (-(ppe - ppe0))
        /\ cf[t].debt_draws = draws /\ cf[t].debt_repayments = repaid /\ cf[t].equity_raised = extra
        /\ Change(wf, t) = debt_wf - debt_wf0
    <2>1. t \in 1..Horizon
      BY MonthsAre
    <2>2. ASSUME NEW name \in {"ar", "inv", "ap", "ppe_gross"}
          PROVE  Change([k \in Month |-> bs[k][name]], t) = bs[t][name] - Was(bs[t - 1][name])
      BY <1>6, <2>1 DEF Change, Before
    <2>3. Change(wf, t) = debt_wf - debt_wf0
      BY <2>1 DEF Change, Before
    <2> DEFINE operating == net + da - Change([k \in Month |-> bs[k]["ar"]], t)
                            - Change([k \in Month |-> bs[k]["inv"]], t) + Change([k \in Month |-> bs[k]["ap"]], t)
               investing == -Change([k \in Month |-> bs[k]["ppe_gross"]], t)
    <2>4. cf[t] = [operating |-> operating, investing |-> investing,
                   opening_cash |-> opening, closing_cash |-> cash,
                   financing |-> cash - opening - operating - investing,
                   debt_draws |-> draws, debt_repayments |-> repaid,
                   dividends_paid |-> declared[t].dividends, equity_raised |-> extra]
      BY <1>2 DEF CashRow
    <2>5. operating = net + da - (ar - ar0) - (inv - inv0) + (ap - ap0) /\ investing = -(ppe - ppe0)
      BY <2>2
    <2> HIDE DEF operating, investing, cash, opening, net, da, ar, ar0, inv, inv0, ap, ap0, ppe, ppe0, draws, repaid,
                 extra, div, debt_wf, debt_wf0
    <2>6. QED
      BY <2>3, <2>4, <2>5
  <1>10. /\ ap \in Int /\ ar \in Int /\ inv \in Int /\ ppe \in Int /\ cash \in Int
         /\ ap0 \in Int /\ ar0 \in Int /\ inv0 \in Int /\ ppe0 \in Int /\ opening \in Int
    BY <1>1, <1>5, <1>6
  <1>11. /\ acc \in Int /\ acc0 \in Int /\ re \in Int /\ re0 \in Int /\ gap \in Int
    BY <1>1, <1>7, <1>8
  <1>12. /\ owed \in Int /\ owed0 \in Int /\ debt_wf \in Int /\ debt_wf0 \in Int /\ draws \in Int /\ repaid \in Int
         /\ extra \in Int
    BY <1>4, <1>6
  <1>13. net \in Int /\ div \in Int /\ da \in Int
    BY <1>3
  <1>14. re = re0 + (net - div + extra) /\ acc = acc0 + da
    BY <1>7, <1>8
  <1>15. owed = owed0 + draws - repaid
    BY <1>1, DebtIsFollowed
  <1>16. cash = ap + owed + debt_wf + re - (ar + inv + ppe - acc)
    <2> DEFINE x == debt.current[t]
               y == debt.non_current[t]
    <2>1. x \in Int /\ y \in Int /\ owed = x + y
      BY <1>4
    <2>2. cash = ap + x + y + debt_wf + re - (ar + inv + ppe - acc)
      BY <1>5
    <2> HIDE DEF x, y, owed, cash, ap, debt_wf, re, ar, inv, ppe, acc
    <2>3. QED
      BY <1>10, <1>11, <1>12, <2>1, <2>2
  <1>17. opening = ap0 + owed0 + debt_wf0 + re0 - (ar0 + inv0 + ppe0 - acc0) - gap
    <2>1. CASE t = 1
      <3> DEFINE e == c.initial_equity
                 k == c.initial_cash
      <3>1. /\ ap0 = 0 /\ owed0 = 0 /\ debt_wf0 = 0 /\ re0 = e /\ ar0 = 0 /\ inv0 = 0 /\ ppe0 = 0 /\ acc0 = 0
            /\ gap = e - k /\ opening = k /\ e \in Int /\ k \in Int
        BY <1>1, <2>1
      <3> HIDE DEF e, k, ap0, owed0, debt_wf0, re0, ar0, inv0, ppe0, acc0, gap, opening
      <3>2. QED
        BY <3>1
    <2>2. CASE t # 1
      <3> DEFINE x == debt.current[t - 1]
                 y == debt.non_current[t - 1]
      <3>1. t - 1 \in Month
        BY <1>6, <2>2
      <3>2. x \in Int /\ y \in Int /\ owed0 = x + y /\ gap = 0
        BY <1>4, <2>2, <3>1
      <3>3. opening = ap0 + x + y + debt_wf0 + re0 - (ar0 + inv0 + ppe0 - acc0)
        BY <1>5, <2>2, <3>1
      <3> HIDE DEF x, y, ap0, owed0, debt_wf0, re0, ar0, inv0, ppe0, acc0, gap, opening
      <3>4. QED
        BY <1>10, <1>11, <1>12, <3>2, <3>3
    <2>3. QED
      BY <2>1, <2>2
  <1> HIDE DEF ap, ar, inv, ppe, acc, owed, debt_wf, re, ap0, ar0, inv0, ppe0, acc0, owed0, debt_wf0, re0,
               net, div, extra, da, draws, repaid, gap, opening, cash
  <1>18. cash - opening - (net + da - (ar - ar0) - (inv - inv0) + (ap - ap0)) - (-(ppe - ppe0))
           = draws - repaid + extra - div + (debt_wf - debt_wf0) + gap
    BY <1>10, <1>11, <1>12, <1>13, <1>14, <1>15, <1>16, <1>17, OneMonth
  <1>19. cf[t].financing = cf[t].debt_draws - cf[t].debt_repayments + cf[t].equity_raised - div + Change(wf, t) + gap
    BY <1>9, <1>18
  <1>20. QED
    BY <1>19 DEF div, gap
-----------------------------------------------------------------------------
(* One pass of the waterfall.                                              *)
Ceiling(f, t, assets) == IF f.linked THEN Least(f.limit, assets[t]) ELSE f.limit
Within(plugs, balance) == /\ balance \in [1..Len(plugs) -> Nat]
                          /\ \A i \in 1..Len(plugs) : balance[i] <= plugs[i].limit

LEMMA PlugsAre ==
    ASSUME NEW plugs \in Seq(CashPlug)
    PROVE  /\ Len(plugs) \in Nat /\ DOMAIN plugs = 1..Len(plugs) /\ IsFiniteSet(1..Len(plugs))
           /\ \A i \in 1..Len(plugs) : plugs[i].limit \in Nat /\ plugs[i].type \in Int
  <1>1. Len(plugs) \in Nat /\ DOMAIN plugs = 1..Len(plugs) /\ \A i \in 1..Len(plugs) : plugs[i] \in CashPlug
    BY LenProperties, ElementOfSeq
  <1>2. IsFiniteSet(1..Len(plugs))
    BY <1>1, FS_Interval
  <1>3. \A p \in CashPlug : p.limit \in Nat /\ p.type \in Int
    BY DEF CashPlug
  <1>4. QED
    BY <1>1, <1>2, <1>3

LEMMA AvailableIs ==
    ASSUME NEW f, f.limit \in Nat, NEW t \in Month, NEW assets \in [Month -> Int], NEW b \in Nat, b <= f.limit
    PROVE  /\ Ceiling(f, t, assets) \in Int /\ Available(f, b, t, assets) \in Nat
           /\ Available(f, b, t, assets) + b <= f.limit
           /\ Ceiling(f, t, assets) - (b + Available(f, b, t, assets)) <= 0
  <1> DEFINE a == assets[t]
             ceiling == Ceiling(f, t, assets)
  <1>1. a \in Int
    OBVIOUS
  <1>2. ceiling \in Int /\ ceiling <= f.limit
    <2>1. ceiling = IF f.linked THEN Least(f.limit, a) ELSE f.limit
      BY DEF Ceiling
    <2> HIDE DEF a, ceiling
    <2>2. QED
      BY <1>1, <2>1 DEF Least
  <1>3. Available(f, b, t, assets) = Positive(ceiling - b)
    BY DEF Available, Ceiling
  <1> HIDE DEF ceiling
  <1>4. Positive(ceiling - b) \in Nat /\ Positive(ceiling - b) + b <= f.limit
        /\ ceiling - (b + Positive(ceiling - b)) <= 0
    BY <1>2 DEF Positive
  <1>5. QED
    BY <1>2, <1>3, <1>4 DEF ceiling

(* What is drawn in turn: nothing beyond what is available, a later plug   *)
(* only when the earlier ones give all they have, and less than is short   *)
(* only when all do.                                                       *)
DrawnAsNeeded(d, all, N, shortfall) ==
    /\ \A i \in 1..N : /\ d[i] \in Nat /\ d[i] <= all[i]
                       /\ d[i] > 0 => \A k \in 1..(i - 1) : d[k] = all[k]
    /\ SumFunctionOnSet(d, 1..N) >= shortfall \/ \A i \in 1..N : d[i] = all[i]
    /\ SumFunctionOnSet(d, 1..N) \in Int

InTurn(d, left, all, N, shortfall) ==
    /\ left[0] = shortfall
    /\ \A n \in 1..N : /\ d[n] = Least(left[n - 1], all[n])
                       /\ left[n] = left[n - 1] - Least(left[n - 1], all[n])

LEMMA DrawnInTurn ==
    ASSUME NEW N \in Nat, NEW all, \A i \in 1..N : all[i] \in Nat, NEW shortfall \in Nat, NEW d, NEW left,
           InTurn(d, left, all, N, shortfall)
    PROVE  DrawnAsNeeded(d, all, N, shortfall)
  <1>1. left[0] = shortfall
        /\ \A n \in 1..N : left[n] = left[n - 1] - Least(left[n - 1], all[n]) /\ d[n] = Least(left[n - 1], all[n])
    BY DEF InTurn
  <1>2. ASSUME NEW n \in 1..N, left[n - 1] \in Nat
        PROVE  /\ left[n] \in Nat /\ left[n] <= left[n - 1] /\ d[n] \in Nat /\ d[n] <= all[n]
               /\ left[n] = left[n - 1] - d[n]
               /\ left[n] > 0 => d[n] = all[n]
               /\ d[n] > 0 => left[n - 1] > 0
    <2> DEFINE before == left[n - 1]
               after == left[n]
               a == all[n]
               x == d[n]
    <2>1. before \in Nat /\ a \in Nat /\ x = Least(before, a) /\ after = before - Least(before, a)
      BY <1>1, <1>2
    <2> HIDE DEF before, after, a, x
    <2>2. after \in Nat /\ after <= before /\ x \in Nat /\ x <= a /\ after = before - x
          /\ (after > 0 => x = a) /\ (x > 0 => before > 0)
      BY <2>1 DEF Least
    <2>3. QED
      BY <2>2 DEF before, after, a, x
  <1>3. \A n \in 0..N : left[n] \in Nat
    <2> DEFINE P == {n \in 0..N : left[n] \in Nat}
    <2>1. 0 \in P
      BY <1>1
    <2>2. ASSUME NEW n \in 1..N, n - 1 \in P PROVE n \in P
      BY <1>2, <2>2
    <2> HIDE DEF P
    <2>3. QED
      BY <2>1, <2>2, StepInduction DEF P
  <1>4. ASSUME NEW n \in 1..N
        PROVE  /\ left[n] \in Nat /\ left[n - 1] \in Nat /\ left[n] <= left[n - 1] /\ d[n] \in Nat /\ d[n] <= all[n]
               /\ left[n] = left[n - 1] - d[n]
               /\ left[n] > 0 => d[n] = all[n]
               /\ d[n] > 0 => left[n - 1] > 0
    <2>1. left[n - 1] \in Nat
      BY <1>3
    <2>2. QED
      BY <1>2, <2>1
  <1>5. \A n \in 0..N : \A k \in 0..n : left[n] <= left[k]
    <2> DEFINE P == {n \in 0..N : \A k \in 0..n : left[n] <= left[k]}
    <2>1. 0 \in P
      BY <1>3
    <2>2. ASSUME NEW n \in 1..N, n - 1 \in P PROVE n \in P
      <3>1. ASSUME NEW k \in 0..n PROVE left[n] <= left[k]
        <4>1. CASE k = n
          BY <1>3, <4>1
        <4>2. CASE k # n
          <5>1. k \in 0..(n - 1) /\ k \in 0..N
            BY <4>2
          <5>2. left[n - 1] <= left[k] /\ left[k] \in Nat
            BY <1>3, <2>2, <5>1
          <5> DEFINE x == left[n]
                     y == left[n - 1]
                     z == left[k]
          <5>3. x \in Nat /\ y \in Nat /\ z \in Nat /\ x <= y /\ y <= z
            BY <1>4, <5>2
          <5> HIDE DEF x, y, z
          <5>4. x <= z
            BY <5>3
          <5>5. QED
            BY <5>4 DEF x, z
        <4>3. QED
          BY <4>1, <4>2
      <3>2. QED
        BY <3>1
    <2> HIDE DEF P
    <2>3. QED
      BY <2>1, <2>2, StepInduction DEF P
  <1>6. ASSUME NEW i \in 1..N, d[i] > 0, NEW k \in 1..(i - 1) PROVE d[k] = all[k]
    <2>1. left[i - 1] > 0 /\ i - 1 \in 0..N /\ k \in 0..(i - 1) /\ k \in 1..N
      BY <1>4, <1>6
    <2>2. left[i - 1] <= left[k] /\ left[i - 1] \in Nat /\ left[k] \in Nat
      BY <1>3, <1>5, <2>1
    <2>3. left[k] > 0
      <3> DEFINE x == left[i - 1]
                 y == left[k]
      <3>1. x > 0 /\ x <= y /\ x \in Nat /\ y \in Nat
        BY <2>1, <2>2
      <3> HIDE DEF x, y
      <3>2. y > 0
        BY <3>1
      <3>3. QED
        BY <3>2 DEF y
    <2>4. QED
      BY <1>4, <2>1, <2>3
  <1>7. \A n \in 0..N : SumFunctionOnSet(d, 1..n) = shortfall - left[n]
    <2> DEFINE P == {n \in 0..N : SumFunctionOnSet(d, 1..n) = shortfall - left[n]}
    <2>1. 0 \in P
      <3>1. 1..0 = {}
        OBVIOUS
      <3>2. SumFunctionOnSet(d, 1..0) = 0
        BY <3>1, SumEmpty
      <3>3. QED
        BY <1>1, <3>2
    <2>2. ASSUME NEW n \in 1..N, n - 1 \in P PROVE n \in P
      <3> DEFINE s0 == SumFunctionOnSet(d, 1..(n - 1))
                 s1 == SumFunctionOnSet(d, 1..n)
                 before == left[n - 1]
                 after == left[n]
                 x == d[n]
      <3>1. n \in Nat /\ n # 0 /\ Numbers(d, 1..n)
        BY <1>4 DEF Numbers
      <3>2. s0 \in Int /\ s1 = s0 + x
        BY <3>1, SumUpTo
      <3>3. s0 = shortfall - before
        BY <2>2
      <3>4. before \in Nat /\ after \in Nat /\ x \in Nat /\ after = before - x
        BY <1>4
      <3> HIDE DEF s0, s1, before, after, x
      <3>5. s1 = shortfall - after
        BY <3>2, <3>3, <3>4
      <3>6. QED
        BY <3>5 DEF s1, after
    <2> HIDE DEF P
    <2>3. QED
      BY <2>1, <2>2, StepInduction DEF P
  <1>8. /\ SumFunctionOnSet(d, 1..N) \in Int
        /\ SumFunctionOnSet(d, 1..N) >= shortfall \/ \A i \in 1..N : d[i] = all[i]
    <2> DEFINE rest == left[N]
               s == SumFunctionOnSet(d, 1..N)
    <2>1. rest \in Nat /\ s = shortfall - rest
      BY <1>3, <1>7
    <2>2. CASE rest > 0
      <3>1. ASSUME NEW i \in 1..N PROVE d[i] = all[i]
        <4>1. rest <= left[i] /\ left[i] \in Nat
          BY <1>3, <1>5
        <4> DEFINE y == left[i]
        <4> HIDE DEF rest, y
        <4>2. y > 0
          BY <2>1, <2>2, <4>1 DEF y
        <4>3. QED
          BY <1>4, <4>2 DEF y
      <3> HIDE DEF rest, s
      <3>2. s \in Int
        BY <2>1
      <3>3. QED
        BY <3>1, <3>2 DEF s
    <2>3. CASE rest = 0
      <3> HIDE DEF rest, s
      <3>1. s \in Int /\ s >= shortfall
        BY <2>1, <2>3
      <3>2. QED
        BY <3>1 DEF s
    <2>4. QED
      BY <2>1, <2>2, <2>3
  <1>9. QED
    BY <1>4, <1>6, <1>8 DEF DrawnAsNeeded

(* What a list of this length is.                                          *)
LEMMA Listed ==
    ASSUME NEW n \in Nat, NEW f, f = [i \in 1..n |-> f[i]]
    PROVE  <<>> \o f = f /\ Len(f) = n /\ DOMAIN f = 1..n
  <1>1. <<>> \o f = f
    BY Written
  <1> DEFINE V == {f[i] : i \in 1..n}
  <1>2. f \in [1..n -> V]
    OBVIOUS
  <1> HIDE DEF V
  <1>3. Len(f) = n /\ DOMAIN f = 1..n
    <2>1. f \in Seq(V)
      BY <1>2, SeqDef
    <2>2. Len(f) \in Nat /\ DOMAIN f = 1..Len(f) /\ DOMAIN f = 1..n
      BY <1>2, <2>1, LenProperties
    <2>3. QED
      BY <2>2
  <1>4. QED
    BY <1>1, <1>3

Offered(plugs, balance, t, assets) == [n \in 1..Len(plugs) |-> Available(plugs[n], balance[n], t, assets)]

LEMMA OfferedIs ==
    ASSUME NEW plugs \in Seq(CashPlug), NEW balance, Within(plugs, balance), NEW t \in Month, NEW assets \in [Month -> Int],
           NEW i \in 1..Len(plugs)
    PROVE  LET all == Offered(plugs, balance, t, assets)[i]
               ceiling == Ceiling(plugs[i], t, assets)
           IN  /\ all = Available(plugs[i], balance[i], t, assets)
               /\ all \in Nat /\ ceiling \in Int /\ balance[i] \in Nat /\ plugs[i].limit \in Nat
               /\ all + balance[i] <= plugs[i].limit
               /\ ceiling - (balance[i] + all) <= 0
  <1>1. plugs[i].limit \in Nat /\ balance[i] \in Nat /\ balance[i] <= plugs[i].limit
    BY PlugsAre DEF Within
  <1>2. Offered(plugs, balance, t, assets)[i] = Available(plugs[i], balance[i], t, assets)
    BY DEF Offered
  <1>3. QED
    BY <1>1, <1>2, AvailableIs

LEMMA DrawIs ==
    ASSUME NEW plugs \in Seq(CashPlug), NEW balance, Within(plugs, balance), NEW t \in Month, NEW assets \in [Month -> Int],
           NEW shortfall \in Nat
    PROVE  LET d == DrawInTurn(plugs, balance, t, shortfall, assets)
           IN  /\ DrawnAsNeeded(d, Offered(plugs, balance, t, assets), Len(plugs), shortfall)
               /\ d = [i \in 1..Len(plugs) |-> d[i]]
  <1> DEFINE N == Len(plugs)
             a(n) == Available(plugs[n], balance[n], t, assets)
             g == [p \in Int \X (1..N) |-> p[1] - Least(p[1], a(p[2]))]
             left == CHOOSE left : left = [n \in 0..N |-> IF n = 0 THEN shortfall ELSE left[n - 1] - Least(left[n - 1], a(n))]
             d == [n \in 1..N |-> Least(left[n - 1], a(n))]
  <1>1. N \in Nat
    BY PlugsAre
  <1>2. \A n \in 1..N : a(n) \in Nat
    BY OfferedIs
  <1>3. DrawInTurn(plugs, balance, t, shortfall, assets) = <<>> \o d
    BY DEF DrawInTurn, Each
  <1>4. Offered(plugs, balance, t, assets) = [n \in 1..N |-> a(n)]
    BY DEF Offered
  <1> HIDE DEF N, a
  <1>5. \A x \in Int, n \in 1..N : g[<<x, n>>] = x - Least(x, a(n)) /\ g[<<x, n>>] \in Int
    BY <1>2 DEF Least
  <1> HIDE DEF g
  <1>6. PICK h : h \in [0..N -> Int] /\ StepByStep(h, shortfall, g, N)
    <2>1. KeepsIn(Int, g, N)
      BY <1>5 DEF KeepsIn
    <2>2. shortfall \in Int
      OBVIOUS
    <2>3. QED
      BY <1>1, <2>1, <2>2, RecursionExists, Zenon
  <1>7. h = [n \in 0..N |-> IF n = 0 THEN shortfall ELSE h[n - 1] - Least(h[n - 1], a(n))]
    <2>1. \A n \in 0..N : h[n] = IF n = 0 THEN shortfall ELSE h[n - 1] - Least(h[n - 1], a(n))
      <3> TAKE n \in 0..N
      <3>1. h[0] = shortfall /\ (n # 0 => h[n] = g[<<h[n - 1], n>>])
        BY <1>1, <1>6 DEF StepByStep
      <3>2. n # 0 => n \in 1..N /\ h[n - 1] \in Int
        BY <1>1, <1>6
      <3>3. QED
        BY <1>5, <3>1, <3>2
    <2>2. QED
      BY <1>6, <2>1
  <1>8. left = [n \in 0..N |-> IF n = 0 THEN shortfall ELSE left[n - 1] - Least(left[n - 1], a(n))]
    <2>1. \E k : k = [n \in 0..N |-> IF n = 0 THEN shortfall ELSE k[n - 1] - Least(k[n - 1], a(n))]
      BY <1>7
    <2>2. QED
      BY <2>1, Zenon
  <1> HIDE DEF left
  <1>9. left[0] = shortfall /\ \A n \in 1..N : left[n] = left[n - 1] - Least(left[n - 1], a(n))
    <2>1. 0 \in 0..N /\ \A n \in 1..N : n \in 0..N /\ n # 0
      BY <1>1
    <2>2. \A n \in 0..N : left[n] = IF n = 0 THEN shortfall ELSE left[n - 1] - Least(left[n - 1], a(n))
      BY <1>8
    <2>3. QED
      BY <2>1, <2>2, Zenon
  <1> DEFINE all == [n \in 1..N |-> a(n)]
  <1>10. \A n \in 1..N : d[n] = Least(left[n - 1], a(n)) /\ all[n] = a(n)
    OBVIOUS
  <1>11. d = [n \in 1..N |-> d[n]]
    OBVIOUS
  <1> HIDE DEF d, all
  <1>12. InTurn(d, left, all, N, shortfall) /\ \A n \in 1..N : all[n] \in Nat
    BY <1>2, <1>9, <1>10 DEF InTurn
  <1>13. DrawnAsNeeded(d, all, N, shortfall)
    BY <1>1, <1>12, DrawnInTurn
  <1>14. DrawInTurn(plugs, balance, t, shortfall, assets) = d
    BY <1>1, <1>3, <1>11, Listed
  <1>15. Offered(plugs, balance, t, assets) = all
    BY <1>4 DEF all
  <1>16. QED
    BY <1>11, <1>13, <1>14, <1>15 DEF N

(* What is repaid of a plug is part of what it owes, and something of it   *)
(* only when all is repaid of those that come before it.                   *)
LEMMA RepayIs ==
    ASSUME NEW plugs \in Seq(CashPlug), NEW balance, Within(plugs, balance), NEW excess \in Nat
    PROVE  LET r == RepayInTurn(plugs, balance, excess)
           IN  \A i \in 1..Len(plugs) :
                 /\ r[i] \in Nat /\ r[i] <= balance[i]
                 /\ r[i] > 0 => \A k \in 1..Len(plugs) : RepaidBefore(plugs, k, i) => r[k] = balance[k]
  <1> DEFINE n == Len(plugs)
             first(i) == {k \in DOMAIN balance : RepaidBefore(plugs, k, i)}
             owed(i) == Total(LAMBDA k : balance[k], first(i))
             r == [i \in 1..n |-> Least(balance[i], Positive(excess - owed(i)))]
  <1>0. n \in Nat /\ balance \in [1..n -> Nat] /\ \A i \in 1..n : plugs[i].type \in Int
    BY PlugsAre DEF Within
  <1> HIDE DEF n
  <1>1. Len(balance) = n /\ DOMAIN balance = 1..n
    <2>1. balance = [i \in 1..n |-> balance[i]]
      BY <1>0
    <2>2. QED
      BY <1>0, <2>1, Listed
  <1>2. \A i \in 1..n : /\ first(i) \subseteq 1..n /\ IsFiniteSet(first(i)) /\ Numbers(balance, first(i))
                        /\ owed(i) = SumFunctionOnSet(balance, first(i)) /\ owed(i) \in Int
    <2> TAKE i \in 1..n
    <2> DEFINE S == first(i)
               w == [k \in S |-> balance[k]]
    <2>1. S \subseteq 1..n /\ IsFiniteSet(S)
      <3>1. S \subseteq 1..n /\ IsFiniteSet(1..n)
        BY <1>0, <1>1, FS_Interval
      <3>2. QED
        BY <3>1, FS_Subset
    <2>2. Numbers(w, S) /\ Numbers(balance, S)
      BY <1>0, <2>1 DEF Numbers
    <2>3. owed(i) = SumFunctionOnSet(w, S)
      BY DEF Total
    <2>4. \A k \in S : w[k] = balance[k]
      OBVIOUS
    <2> HIDE DEF w, S, owed
    <2>5. SumFunctionOnSet(w, S) = SumFunctionOnSet(balance, S) /\ SumFunctionOnSet(w, S) \in Int
      BY <2>1, <2>2, <2>4, SumSame, SumTyped
    <2>6. QED
      BY <2>1, <2>2, <2>3, <2>5 DEF S
  <1>3. RepayInTurn(plugs, balance, excess) = <<>> \o [i \in 1..Len(balance) |-> Least(balance[i], Positive(excess - owed(i)))]
    BY DEF RepayInTurn, Each
  <1>9. \A i, k \in 1..n : RepaidBefore(plugs, k, i) => first(k) \cup {k} \subseteq first(i) /\ k \notin first(k)
    <2>1. \A i, k \in 1..n : first(k) = {j \in 1..n : RepaidBefore(plugs, j, k)}
      BY <1>1
    <2>2. \A i, k, j \in 1..n : RepaidBefore(plugs, k, i) /\ RepaidBefore(plugs, j, k) => RepaidBefore(plugs, j, i)
      <3> DEFINE type(i) == plugs[i].type
      <3>1. \A i \in 1..n : type(i) \in Int /\ i \in Int
        BY <1>0
      <3>2. \A i, k : RepaidBefore(plugs, k, i) <=> type(k) > type(i) \/ (type(k) = type(i) /\ k < i)
        BY DEF RepaidBefore
      <3> HIDE DEF type
      <3>3. QED
        BY <3>1, <3>2
    <2>3. \A k \in 1..n : ~RepaidBefore(plugs, k, k)
      BY <1>0 DEF RepaidBefore
    <2> HIDE DEF first
    <2>4. QED
      BY <2>1, <2>2, <2>3
  <1> HIDE DEF owed, first
  <1>4. r = [i \in 1..n |-> r[i]] /\ \A i \in 1..n : r[i] = Least(balance[i], Positive(excess - owed(i)))
    OBVIOUS
  <1>5. RepayInTurn(plugs, balance, excess) = <<>> \o r
    BY <1>1, <1>3
  <1> HIDE DEF r
  <1>6. RepayInTurn(plugs, balance, excess) = r
    BY <1>0, <1>4, <1>5, Listed
  <1>7. ASSUME NEW i \in 1..n
        PROVE  r[i] \in Nat /\ r[i] <= balance[i] /\ (r[i] > 0 => excess - owed(i) > 0)
    <2> DEFINE b == balance[i]
               e == owed(i)
               p == r[i]
    <2>1. b \in Nat /\ e \in Int /\ p = Least(b, Positive(excess - e))
      BY <1>0, <1>2, <1>4
    <2> HIDE DEF b, e, p
    <2>2. p \in Nat /\ p <= b /\ (p > 0 => excess - e > 0)
      BY <2>1 DEF Least, Positive
    <2>3. QED
      BY <2>2 DEF b, e, p
  <1>8. ASSUME NEW i \in 1..n, NEW k \in 1..n, RepaidBefore(plugs, k, i), r[i] > 0
        PROVE  r[k] = balance[k]
    <2> DEFINE b == balance[k]
               e == owed(k)
               all == owed(i)
               U == first(k) \cup {k}
               u == SumFunctionOnSet(balance, U)
               p == r[k]
    <2>1. b \in Nat /\ e \in Int /\ all \in Int /\ p = Least(b, Positive(excess - e)) /\ excess - all > 0
      BY <1>0, <1>2, <1>4, <1>7, <1>8
    <2>2. U \subseteq first(i) /\ k \notin first(k)
      BY <1>8, <1>9
    <2>3. u = b + e
      <3>1. IsFiniteSet(first(k)) /\ Numbers(balance, first(k)) /\ e = SumFunctionOnSet(balance, first(k)) /\ b \in Int
        BY <1>2, <2>1
      <3> HIDE DEF e
      <3>2. QED
        BY <2>2, <3>1, SumAdds
    <2>4. u <= all
      <3>1. /\ IsFiniteSet(first(i)) /\ Numbers(balance, first(i)) /\ all = SumFunctionOnSet(balance, first(i))
            /\ \A x \in first(i) : balance[x] >= 0
        BY <1>0, <1>2
      <3> HIDE DEF all, U
      <3>2. QED
        BY <2>2, <3>1, SumOfSubset
    <2> HIDE DEF b, e, all, u, p
    <2>5. p = b
      BY <2>1, <2>3, <2>4 DEF Least, Positive
    <2>6. QED
      BY <2>5 DEF p, b
  <1>10. QED
    BY <1>6, <1>7, <1>8 DEF n

(* A month of a pass, from balances within the limits.                     *)
InOrder(row, plugs, cash, minimum, t, assets) ==
    /\ Within(plugs, row.balance)
    /\ row.drawn = [i \in 1..Len(plugs) |-> row.drawn[i]]
    /\ \A i \in 1..Len(plugs) :
          /\ row.drawn[i] \in Nat
          /\ row.drawn[i] > 0 => \A k \in 1..(i - 1) : Ceiling(plugs[k], t, assets) - row.balance[k] <= 0
    /\ \/ cash + SumFunctionOnSet(row.drawn, 1..Len(plugs)) >= minimum
       \/ \A i \in 1..Len(plugs) : Ceiling(plugs[i], t, assets) - row.balance[i] <= 0

Returned(row, plugs, before) ==
    \A i, k \in 1..Len(plugs) :
        row.balance[i] < before[i] /\ RepaidBefore(plugs, k, i) => row.balance[k] = 0

LEMMA NothingMoved ==
    ASSUME NEW n \in Nat
    PROVE  LET none == Each(LAMBDA i : 0, n)
           IN  none = [i \in 1..n |-> 0] /\ SumFunctionOnSet(none, 1..n) = 0 /\ \A i \in 1..n : none[i] = 0
  <1> DEFINE none == [i \in 1..n |-> 0]
  <1>1. Each(LAMBDA i : 0, n) = <<>> \o none
    BY DEF Each
  <1>2. none = [i \in 1..n |-> none[i]] /\ \A i \in 1..n : none[i] = 0
    OBVIOUS
  <1>3. SumFunctionOnSet(none, 1..n) = 0
    <2> HIDE DEF none
    <2>1. IsFiniteSet(1..n) /\ Numbers(none, 1..n)
      BY <1>2, FS_Interval DEF Numbers
    <2>2. QED
      BY <1>2, <2>1, SumOfZeros
  <1>4. Each(LAMBDA i : 0, n) = none
    <2> HIDE DEF none
    <2>1. QED
      BY <1>1, <1>2, Listed
  <1>5. QED
    BY <1>2, <1>3, <1>4

LEMMA PassRowIs ==
    ASSUME NEW plugs \in Seq(CashPlug), NEW balance, Within(plugs, balance), NEW t \in Month, NEW assets \in [Month -> Int],
           NEW cash \in Int, NEW minimum \in Int
    PROVE  /\ InOrder(PassRow(plugs, balance, cash, minimum, assets, t), plugs, cash, minimum, t, assets)
           /\ Returned(PassRow(plugs, balance, cash, minimum, assets, t), plugs, balance)
  <1> DEFINE N == Len(plugs)
             none == Each(LAMBDA i : 0, N)
             drawn == IF cash < minimum THEN DrawInTurn(plugs, balance, t, minimum - cash, assets) ELSE none
             repaid == IF cash > minimum THEN RepayInTurn(plugs, balance, cash - minimum) ELSE none
             row == PassRow(plugs, balance, cash, minimum, assets, t)
             next == [i \in 1..N |-> balance[i] + drawn[i] - repaid[i]]
             all == Offered(plugs, balance, t, assets)
             room(i, b) == Ceiling(plugs[i], t, assets) - b
  <1>1. N \in Nat /\ balance \in [1..N -> Nat]
    BY PlugsAre DEF Within
  <1>2. row.drawn = drawn /\ row.balance = <<>> \o next
    BY DEF PassRow, Each
  <1>3. /\ none = [i \in 1..N |-> none[i]] /\ SumFunctionOnSet(none, 1..N) = 0
        /\ \A i \in 1..N : none[i] = 0
    <2> HIDE DEF N
    <2>1. none = [i \in 1..N |-> 0] /\ SumFunctionOnSet(none, 1..N) = 0 /\ \A i \in 1..N : none[i] = 0
      BY <1>1, NothingMoved
    <2>2. QED
      BY <2>1
  <1>4. row.balance = next
    <2>1. next = [i \in 1..N |-> next[i]]
      OBVIOUS
    <2> HIDE DEF next, N, row, drawn
    <2>2. QED
      BY <1>1, <1>2, <2>1, Listed
  <1>5. \A i \in 1..N : next[i] = balance[i] + drawn[i] - repaid[i]
    OBVIOUS
  <1>6. DOMAIN next = 1..N /\ next = [i \in 1..N |-> next[i]]
    OBVIOUS
  <1>7. \A i \in 1..N : /\ all[i] \in Nat /\ Ceiling(plugs[i], t, assets) \in Int /\ balance[i] \in Nat
                        /\ plugs[i].limit \in Nat /\ balance[i] <= plugs[i].limit
                        /\ all[i] + balance[i] <= plugs[i].limit
                        /\ Ceiling(plugs[i], t, assets) - (balance[i] + all[i]) <= 0
    BY OfferedIs DEF Within
  <1> HIDE DEF next, all, none, row
  <1>8. CASE cash < minimum
    <2>1. minimum - cash \in Nat
      BY <1>8
    <2>2. DrawnAsNeeded(drawn, all, N, minimum - cash) /\ drawn = [i \in 1..N |-> drawn[i]]
      <3> DEFINE d == DrawInTurn(plugs, balance, t, minimum - cash, assets)
      <3>1. DrawnAsNeeded(d, all, N, minimum - cash) /\ d = [i \in 1..N |-> d[i]]
        BY <2>1, DrawIs DEF all
      <3>2. drawn = d
        BY <1>8
      <3> HIDE DEF d, drawn
      <3>3. QED
        BY <3>1, <3>2
    <2>3. \A i \in 1..N : repaid[i] = 0
      BY <1>3, <1>8
    <2> HIDE DEF drawn, repaid, N
    <2>4. \A i \in 1..N : drawn[i] \in Nat /\ drawn[i] <= all[i]
      BY <2>2 DEF DrawnAsNeeded
    <2>5. ASSUME NEW i \in 1..N
          PROVE  next[i] \in Nat /\ next[i] <= plugs[i].limit
                 /\ (drawn[i] = all[i] => Ceiling(plugs[i], t, assets) - next[i] <= 0)
      <3> DEFINE x == next[i]
                 b == balance[i]
                 d == drawn[i]
                 a == all[i]
                 l == plugs[i].limit
                 c == Ceiling(plugs[i], t, assets)
      <3>1. x = b + d - repaid[i] /\ repaid[i] = 0
        BY <1>5, <2>3
      <3>2. b \in Nat /\ d \in Nat /\ a \in Nat /\ l \in Nat /\ c \in Int /\ d <= a /\ a + b <= l /\ c - (b + a) <= 0
        BY <1>7, <2>4
      <3> HIDE DEF x, b, d, a, l, c
      <3>3. x \in Nat /\ x <= l /\ (d = a => c - x <= 0)
        BY <3>1, <3>2
      <3>4. QED
        BY <3>3 DEF x, d, a, l, c
    <2>6. ASSUME NEW i \in 1..N, drawn[i] > 0, NEW k \in 1..(i - 1)
          PROVE  Ceiling(plugs[k], t, assets) - next[k] <= 0
      <3>1. k \in 1..N /\ drawn[k] = all[k]
        <4>1. \A m \in 1..N : drawn[m] > 0 => \A j \in 1..(m - 1) : drawn[j] = all[j]
          BY <2>2 DEF DrawnAsNeeded
        <4>2. drawn[k] = all[k]
          BY <2>6, <4>1
        <4>3. k \in 1..N
          <5> HIDE <2>6
          <5>1. QED
            BY <1>1
        <4>4. QED
          BY <4>2, <4>3
      <3>2. QED
        BY <2>5, <3>1
    <2>7. \/ cash + SumFunctionOnSet(drawn, 1..N) >= minimum
          \/ \A i \in 1..N : Ceiling(plugs[i], t, assets) - next[i] <= 0
      <3> DEFINE total == SumFunctionOnSet(drawn, 1..N)
      <3>1. total \in Int /\ (total >= minimum - cash \/ \A i \in 1..N : drawn[i] = all[i])
        BY <2>2 DEF DrawnAsNeeded
      <3>2. CASE \A i \in 1..N : drawn[i] = all[i]
        BY <2>5, <3>2
      <3>3. CASE total >= minimum - cash
        <4> HIDE DEF total
        <4>1. cash + total >= minimum
          BY <3>1, <3>3
        <4>2. QED
          BY <4>1 DEF total
      <3> HIDE DEF total
      <3>4. QED
        BY <3>1, <3>2, <3>3
    <2>8. Within(plugs, next)
      <3>1. next \in [1..N -> Nat]
        BY <1>6, <2>5
      <3>2. QED
        BY <2>5, <3>1 DEF Within, N
    <2>9. Returned(row, plugs, balance)
      <3>1. \A i \in 1..N : ~(next[i] < balance[i])
        BY <1>5, <1>7, <2>3, <2>4
      <3>2. QED
        BY <1>2, <1>4, <3>1 DEF Returned, N
    <2>10. QED
      BY <1>2, <1>4, <2>2, <2>4, <2>6, <2>7, <2>8, <2>9 DEF InOrder, N, row
  <1>9. CASE ~(cash < minimum)
    <2>1. drawn = none
      BY <1>9
    <2>2. \A i \in 1..N :
             /\ repaid[i] \in Nat /\ repaid[i] <= balance[i]
             /\ repaid[i] > 0 => \A k \in 1..N : RepaidBefore(plugs, k, i) => repaid[k] = balance[k]
      <3>1. CASE cash > minimum
        <4> DEFINE back == RepayInTurn(plugs, balance, cash - minimum)
        <4>1. repaid = back /\ cash - minimum \in Nat
          BY <3>1
        <4>2. \A i \in 1..N :
                 /\ back[i] \in Nat /\ back[i] <= balance[i]
                 /\ back[i] > 0 => \A k \in 1..N : RepaidBefore(plugs, k, i) => back[k] = balance[k]
          BY <4>1, RepayIs
        <4> HIDE DEF repaid, N, back
        <4>3. QED
          BY <4>1, <4>2
      <3>2. CASE ~(cash > minimum)
        <4>1. repaid = none
          BY <3>2
        <4> HIDE DEF repaid, N
        <4>2. QED
          BY <1>3, <1>7, <4>1
      <3>3. QED
        BY <3>1, <3>2
    <2> HIDE DEF drawn, repaid, N
    <2>3. ASSUME NEW i \in 1..N PROVE next[i] \in Nat /\ next[i] <= plugs[i].limit
      <3> DEFINE x == next[i]
                 b == balance[i]
                 r == repaid[i]
                 l == plugs[i].limit
      <3>1. x = b + drawn[i] - r /\ drawn[i] = 0 /\ r \in Nat /\ r <= b
        BY <1>3, <1>5, <2>1, <2>2
      <3>2. b \in Nat /\ l \in Nat /\ b <= l
        BY <1>7
      <3> HIDE DEF x, b, r, l
      <3>3. x \in Nat /\ x <= l
        BY <3>1, <3>2
      <3>4. QED
        BY <3>3 DEF x, l
    <2>4. Within(plugs, next)
      <3>1. next \in [1..N -> Nat]
        BY <1>6, <2>3
      <3>2. QED
        BY <2>3, <3>1 DEF Within, N
    <2>5. cash + SumFunctionOnSet(none, 1..N) >= minimum
      BY <1>3, <1>9
    <2>6. \A i \in 1..N : none[i] \in Nat /\ ~(none[i] > 0)
      BY <1>3
    <2>7. Returned(row, plugs, balance)
      <3>1. \A i \in 1..N : next[i] = balance[i] - repaid[i]
        BY <1>3, <1>5, <1>7, <2>1, <2>2
      <3>2. ASSUME NEW i \in 1..N, NEW k \in 1..N, next[i] < balance[i], RepaidBefore(plugs, k, i)
            PROVE  next[k] = 0
        <4>1. repaid[i] > 0
          BY <1>7, <2>2, <3>1, <3>2
        <4>2. repaid[k] = balance[k]
          BY <2>2, <3>2, <4>1
        <4>3. QED
          BY <1>7, <3>1, <4>2
      <3>3. QED
        BY <1>2, <1>4, <3>2 DEF Returned, N
    <2>8. QED
      BY <1>2, <1>3, <1>4, <2>1, <2>4, <2>5, <2>6, <2>7 DEF InOrder, N, row
  <1>10. QED
    BY <1>8, <1>9

LEMMA PassIs ==
    ASSUME NEW plugs \in Seq(CashPlug), NEW cash \in [Month -> Int], NEW assets \in [Month -> Int], NEW minimum \in Int
    PROVE  LET pass == apply_funding_waterfall(cash, plugs, minimum, assets)
           IN  \A t \in Month : /\ InOrder(pass[t], plugs, cash[t], minimum, t, assets)
                                /\ t > 1 => Returned(pass[t], plugs, pass[t - 1].balance)
  <1> DEFINE pass == apply_funding_waterfall(cash, plugs, minimum, assets)
             V == {x \in [1..Len(plugs) -> Nat] : \A i \in 1..Len(plugs) : x[i] <= plugs[i].limit}
             RowFor(x, t) == PassRow(plugs, x, cash[t], minimum, assets, t)
             none == Each(LAMBDA i : 0, Len(plugs))
             g == [p \in V \X Month |-> RowFor(p[1], p[2]).balance]
             b == CHOOSE b : b = [t \in 0..Horizon |-> IF t = 0 THEN none ELSE RowFor(b[t - 1], t).balance]
             rows == [t \in 1..Horizon |-> RowFor(b[t - 1], t)]
  <1>1. pass = <<>> \o rows
    BY DEF apply_funding_waterfall, Series, Each
  <1>2. \A x : x \in V <=> Within(plugs, x)
    BY DEF Within
  <1>3. none \in V
    <2>1. Len(plugs) \in Nat /\ \A i \in 1..Len(plugs) : plugs[i].limit \in Nat
      BY PlugsAre
    <2>2. none = [i \in 1..Len(plugs) |-> 0]
      BY <2>1, NothingMoved
    <2> HIDE DEF none
    <2>3. QED
      BY <2>1, <2>2
  <1>4. ASSUME NEW x \in V, NEW t \in Month
        PROVE  /\ InOrder(RowFor(x, t), plugs, cash[t], minimum, t, assets) /\ RowFor(x, t).balance \in V
               /\ Returned(RowFor(x, t), plugs, x)
    <2> DEFINE m == cash[t]
    <2>1. Within(plugs, x) /\ m \in Int
      BY <1>2, <1>4
    <2>2. RowFor(x, t) = PassRow(plugs, x, m, minimum, assets, t)
      OBVIOUS
    <2> HIDE DEF m, RowFor, V
    <2>3. InOrder(RowFor(x, t), plugs, m, minimum, t, assets) /\ Returned(RowFor(x, t), plugs, x)
      BY <2>1, <2>2, PassRowIs
    <2>4. QED
      BY <1>2, <2>3 DEF m, InOrder
  <1> HIDE DEF V, none
  <1>5. \A x \in V, t \in Month : g[<<x, t>>] = RowFor(x, t).balance
    OBVIOUS
  <1> HIDE DEF RowFor, g
  <1>6. \A x \in V, t \in 1..Horizon : g[<<x, t>>] = RowFor(x, t).balance /\ g[<<x, t>>] \in V
    BY <1>4, <1>5, MonthsAre
  <1>7. PICK h : h \in [0..Horizon -> V] /\ StepByStep(h, none, g, Horizon)
    <2>1. Horizon \in Nat /\ none \in V /\ KeepsIn(V, g, Horizon)
      BY <1>3, <1>6, MonthsAre DEF KeepsIn
    <2>2. QED
      BY <2>1, RecursionExists, Zenon
  <1>8. h = [t \in 0..Horizon |-> IF t = 0 THEN none ELSE RowFor(h[t - 1], t).balance]
    <2>1. \A t \in 0..Horizon : h[t] = IF t = 0 THEN none ELSE RowFor(h[t - 1], t).balance
      <3> TAKE t \in 0..Horizon
      <3>1. h[0] = none /\ (t # 0 => h[t] = g[<<h[t - 1], t>>])
        BY <1>7, MonthsAre DEF StepByStep
      <3>2. t # 0 => t \in 1..Horizon /\ h[t - 1] \in V
        BY <1>7, MonthsAre
      <3>3. QED
        BY <1>6, <3>1, <3>2
    <2>2. QED
      BY <1>7, <2>1
  <1>9. b = [t \in 0..Horizon |-> IF t = 0 THEN none ELSE RowFor(b[t - 1], t).balance]
    <2>1. \E k : k = [t \in 0..Horizon |-> IF t = 0 THEN none ELSE RowFor(k[t - 1], t).balance]
      BY <1>8
    <2>2. QED
      BY <2>1, Zenon
  <1> HIDE DEF b
  <1>10. b[0] = none /\ \A t \in Month : b[t] = RowFor(b[t - 1], t).balance
    <2>1. 0 \in 0..Horizon /\ \A t \in Month : t \in 0..Horizon /\ t # 0
      BY MonthsAre
    <2>2. \A t \in 0..Horizon : b[t] = IF t = 0 THEN none ELSE RowFor(b[t - 1], t).balance
      BY <1>9
    <2>3. QED
      BY <2>1, <2>2
  <1>11. \A t \in 0..Horizon : b[t] \in V
    <2> DEFINE P == {k \in 0..Horizon : b[k] \in V}
    <2>1. 0 \in P
      BY <1>3, <1>10, MonthsAre
    <2>2. ASSUME NEW t \in 1..Horizon, t - 1 \in P PROVE t \in P
      <3>1. b[t - 1] \in V /\ t \in Month /\ t \in 0..Horizon
        BY <2>2, MonthsAre
      <3>2. QED
        BY <1>4, <1>10, <3>1
    <2> HIDE DEF P
    <2>3. QED
      BY <2>1, <2>2, MonthsAre, StepInduction DEF P
  <1>12. rows = [t \in 1..Horizon |-> rows[t]] /\ \A t \in Month : rows[t] = RowFor(b[t - 1], t)
    BY MonthsAre
  <1> HIDE DEF rows, pass
  <1>13. pass = rows
    BY <1>1, <1>12, MonthsAre, Written
  <1>14. ASSUME NEW t \in Month
         PROVE  /\ InOrder(pass[t], plugs, cash[t], minimum, t, assets)
                /\ t > 1 => Returned(pass[t], plugs, pass[t - 1].balance)
    <2>1. b[t - 1] \in V
      BY <1>11, MonthsAre
    <2>2. t > 1 => b[t - 1] = pass[t - 1].balance
      <3>1. t > 1 => t - 1 \in Month
        BY MonthsAre
      <3>2. QED
        BY <1>10, <1>12, <1>13, <3>1
    <2>3. QED
      BY <1>4, <1>12, <1>13, <2>1, <2>2
  <1>15. QED
    BY <1>14 DEF pass

(* In one pass of the waterfall, from any cash and of any facilities, no   *)
(* facility is drawn beyond its limit, one that comes later only when      *)
(* those before it are exhausted, and cash stays short of the minimum only *)
(* when there is nothing left to draw; and one is repaid only when those   *)
(* that come before it in _sort_repay_order owe nothing                    *)
(* (apply_funding_waterfall).                                              *)
THEOREM WaterfallDrawsInOrder ==
    ASSUME NEW plugs \in Seq(CashPlug), NEW cash \in [Month -> Int], NEW assets \in [Month -> Int], NEW minimum \in Int
    PROVE  DrawnInOrder(cash, plugs, minimum, assets) /\ RepaidInOrder(cash, plugs, minimum, assets)
  <1> DEFINE pass == apply_funding_waterfall(cash, plugs, minimum, assets)
             N == Len(plugs)
             spare(i, t) == (IF plugs[i].linked THEN Least(plugs[i].limit, assets[t])
                             ELSE plugs[i].limit) - pass[t].balance[i]
  <1>1. N \in Nat /\ DOMAIN plugs = 1..N /\ \A i \in 1..N : plugs[i].limit \in Nat
    BY PlugsAre
  <1>2. \A t \in Month : /\ InOrder(pass[t], plugs, cash[t], minimum, t, assets)
                         /\ t > 1 => Returned(pass[t], plugs, pass[t - 1].balance)
    BY PassIs
  <1> HIDE DEF pass
  <1>3. \A i, t : spare(i, t) = Ceiling(plugs[i], t, assets) - pass[t].balance[i]
    BY DEF Ceiling
  <1>4. ASSUME NEW t \in Month
        PROVE  /\ \A i \in 1..N : /\ pass[t].balance[i] \in 0..plugs[i].limit
                                  /\ pass[t].drawn[i] > 0 => \A k \in 1..(i - 1) : spare(k, t) <= 0
               /\ \/ cash[t] + Total(LAMBDA i : pass[t].drawn[i], 1..N) >= minimum
                  \/ \A i \in 1..N : spare(i, t) <= 0
    <2> DEFINE row == pass[t]
               m == cash[t]
    <2>1. InOrder(row, plugs, m, minimum, t, assets)
      BY <1>2
    <2>2. \A i \in 1..N : row.balance[i] \in 0..plugs[i].limit
      <3>1. \A i \in 1..N : row.balance[i] \in Nat /\ row.balance[i] <= plugs[i].limit
        BY <2>1 DEF InOrder, Within
      <3> HIDE DEF N, row
      <3>2. QED
        BY <1>1, <3>1
    <2>3. Total(LAMBDA i : row.drawn[i], 1..N) = SumFunctionOnSet(row.drawn, 1..N)
      <3>1. row.drawn = [i \in 1..N |-> row.drawn[i]]
        BY <2>1 DEF InOrder
      <3>2. Total(LAMBDA i : row.drawn[i], 1..N) = SumFunctionOnSet([i \in 1..N |-> row.drawn[i]], 1..N)
        BY DEF Total
      <3>3. QED
        BY <3>1, <3>2, Zenon
    <2>4. /\ \A i \in 1..N : row.drawn[i] > 0 => \A k \in 1..(i - 1) : spare(k, t) <= 0
          /\ \/ m + SumFunctionOnSet(row.drawn, 1..N) >= minimum
             \/ \A i \in 1..N : spare(i, t) <= 0
      <3> HIDE DEF m, spare
      <3>1. QED
        BY <1>3, <2>1 DEF InOrder
    <2>5. QED
      BY <2>2, <2>3, <2>4
  <1>5. DrawnInOrder(cash, plugs, minimum, assets)
    BY <1>1, <1>4 DEF DrawnInOrder, pass
  <1>6. RepaidInOrder(cash, plugs, minimum, assets)
    <2> SUFFICES ASSUME NEW t \in Month, NEW i \in 1..N, NEW k \in 1..N, t > 1,
                        pass[t].balance[i] < pass[t - 1].balance[i], RepaidBefore(plugs, k, i)
                 PROVE  pass[t].balance[k] = 0
      BY <1>1 DEF RepaidInOrder, pass
    <2>1. Returned(pass[t], plugs, pass[t - 1].balance)
      BY <1>2
    <2>2. QED
      BY <2>1 DEF Returned
  <1>7. QED
    BY <1>5, <1>6
-----------------------------------------------------------------------------
(* The loop over passes, and the statements as a whole.                    *)

LEMMA RaisesAre ==
    ASSUME NEW c, Configuration(c), NEW debt, debt = calculate_debt_schedule(c.facilities)
    PROVE  _compute_equity_raises_per_period(c, debt) \in [Month -> Int]
  <1> DEFINE D == DOMAIN c.facilities
             turned(t) == [i \in D |-> Converted(c.facilities[i], debt.schedules[i], t)]
             raise(t) == (IF c.raise = t THEN c.raised ELSE 0) + SumFunctionOnSet(turned(t), D)
             w == [t \in Month |-> raise(t)]
  <1>1. c.facilities \in Seq(Scheduled) /\ c.raised \in Int
    BY DEF Configuration
  <1>2. IsFiniteSet(D) /\ \A i \in D : c.facilities[i] \in Scheduled /\ debt.schedules[i] = Schedule(c.facilities[i])
    BY <1>1, DebtIs
  <1>3. ASSUME NEW t \in Month, NEW i \in D PROVE Converted(c.facilities[i], debt.schedules[i], t) \in Int
    <2> DEFINE f == c.facilities[i]
               s == debt.schedules[i]
    <2>1. f \in Scheduled /\ s = Schedule(f)
      BY <1>2
    <2> HIDE DEF f, s
    <2>2. t > 1 => s[t - 1].balance \in Int
      <3>1. t > 1 => t - 1 \in Month
        BY MonthsAre
      <3>2. \A m \in Month : s[m].balance \in Nat
        BY <2>1, FacilityIs
      <3>3. QED
        BY <3>1, <3>2
    <2>3. f.draws[1] \in Int
      <3>1. 1 \in Month
        BY MonthsAre
      <3>2. QED
        BY <2>1, <3>1 DEF Scheduled
    <2>4. Converted(f, s, t) \in Int
      BY <2>2, <2>3 DEF Converted
    <2>5. QED
      BY <2>4 DEF f, s
  <1>4. \A t \in Month : raise(t) \in Int
    <2> TAKE t \in Month
    <2>1. \A i \in D : turned(t)[i] \in Int
      BY <1>3
    <2> HIDE DEF turned
    <2>2. SumFunctionOnSet(turned(t), D) \in Int
      BY <1>2, <2>1, SumTyped DEF Numbers
    <2>3. QED
      BY <1>1, <2>2
  <1>5. _compute_equity_raises_per_period(c, debt) = <<>> \o w
    BY DEF _compute_equity_raises_per_period, Series, Each, Total, Month
  <1> HIDE DEF raise
  <1>6. w \in [Month -> Int]
    BY <1>4
  <1> HIDE DEF w
  <1>7. QED
    BY <1>5, <1>6, SeriesTyped

LEMMA OwedIs ==
    ASSUME NEW plugs \in Seq(CashPlug), NEW cash \in [Month -> Int], NEW assets \in [Month -> Int], NEW minimum \in Int,
           NEW pass, pass = apply_funding_waterfall(cash, plugs, minimum, assets), NEW t \in Month
    PROVE  Owed(pass, t) \in Int
  <1> DEFINE b == pass[t].balance
             w == [i \in DOMAIN b |-> b[i]]
  <1>1. InOrder(pass[t], plugs, cash[t], minimum, t, assets)
    BY PassIs
  <1>2. b \in [1..Len(plugs) -> Nat]
    BY <1>1 DEF InOrder, Within
  <1>3. Owed(pass, t) = SumFunctionOnSet(w, DOMAIN b)
    BY DEF Owed, Total
  <1> HIDE DEF b
  <1>4. DOMAIN b = 1..Len(plugs) /\ IsFiniteSet(1..Len(plugs)) /\ \A i \in 1..Len(plugs) : w[i] \in Int
    BY <1>2, PlugsAre
  <1> HIDE DEF w
  <1>5. QED
    BY <1>3, <1>4, SumTyped DEF Numbers

(* What the passes have added so far.                                      *)
LoopState == [wf : [Month -> Int], interest : [Month -> Int], done : BOOLEAN]

LEMMA ZeroIs == Zero \in [Month -> Int]
  <1> DEFINE z == [t \in 1..Horizon |-> 0]
  <1>1. Zero = <<>> \o z
    BY DEF Zero, Series, Each
  <1>2. z \in [Month -> Int]
    BY DEF Month
  <1> HIDE DEF z
  <1>3. QED
    BY <1>1, <1>2, SeriesTyped

(* Statements that are built on what is owed and what it costs.            *)
Built(s, c, debt, raised) ==
    /\ s.wf \in [Month -> Int]
    /\ \E interest \in [Month -> Int] : s.is = _build_income_statement(c, interest)
    /\ s.bs = _build_balance_sheet(c, s.is, debt, raised, s.wf)

LEMMA BuiltFigures ==
    ASSUME NEW c, Configuration(c), NEW debt, debt = calculate_debt_schedule(c.facilities),
           NEW raised \in [Month -> Int], NEW s, Built(s, c, debt, raised), NEW t \in Month
    PROVE  s.bs[t].cash \in Int /\ s.bs[t].ar \in Int
  <1> DEFINE is == s.is
             bs == s.bs
             wf == s.wf
  <1>1. PICK interest \in [Month -> Int] : is = _build_income_statement(c, interest)
    BY DEF Built
  <1>2. wf \in [Month -> Int] /\ bs = _build_balance_sheet(c, is, debt, raised, wf)
    BY DEF Built
  <1>3. debt.current \in [Month -> Int] /\ debt.non_current \in [Month -> Int]
    <2>1. c.facilities \in Seq(Scheduled)
      BY DEF Configuration
    <2>2. QED
      BY <2>1, DebtIs
  <1> HIDE DEF is, bs, wf
  <1>4. Stated(is)
    BY <1>1, IncomeTyped DEF Stated
  <1>5. SheetBalances(c, is, bs, debt, raised, wf, t)
    BY <1>2, <1>3, <1>4, SheetIs
  <1>6. QED
    BY <1>5 DEF SheetBalances, bs

LEMMA LoopIs ==
    ASSUME NEW c, Configuration(c), NEW debt, debt = calculate_debt_schedule(c.facilities),
           NEW raised \in [Month -> Int]
    PROVE  Built(_apply_waterfall_loop(c, debt, raised), c, debt, raised)
  <1> DEFINE Costs(s) == Series(LAMBDA t : debt.interest[t] + s.interest[t])
             Income(s) == _build_income_statement(c, Costs(s))
             Sheet(s) == [is |-> Income(s), bs |-> _build_balance_sheet(c, Income(s), debt, raised, s.wf), wf |-> s.wf]
             Pass(bs) == apply_funding_waterfall(Series(LAMBDA t : bs[t].cash), c.plugs, c.minimum,
                                                 Series(LAMBDA t : bs[t].ar))
             Added(s, p) == IF Idle(p) THEN [s EXCEPT !.done = TRUE]
                            ELSE [wf |-> Series(LAMBDA t : s.wf[t] + Owed(p, t)), done |-> FALSE,
                                  interest |-> Series(LAMBDA t : s.interest[t] + Share(Owed(p, t)))]
             Step(s) == IF s.done THEN s ELSE Added(s, Pass(Sheet(s).bs))
             first == [wf |-> Zero, interest |-> Zero, done |-> FALSE]
             g == [p \in LoopState \X (1..5) |-> Step(p[1])]
             loop == CHOOSE loop : loop = [n \in 0..5 |-> IF n = 0 THEN first ELSE Step(loop[n - 1])]
  <1>1. _apply_waterfall_loop(c, debt, raised) = Sheet(loop[5])
    BY DEF _apply_waterfall_loop
  <1>2. debt.interest \in [Month -> Int] /\ c.plugs \in Seq(CashPlug) /\ c.minimum \in Int
    <2>1. c.facilities \in Seq(Scheduled)
      BY DEF Configuration
    <2>2. debt.interest \in [Month -> Int]
      BY <2>1, DebtIs
    <2>3. QED
      BY <2>2 DEF Configuration
  <1>3. ASSUME NEW s \in LoopState PROVE Built(Sheet(s), c, debt, raised)
    <2> DEFINE cost == [t \in Month |-> debt.interest[t] + s.interest[t]]
    <2>1. \A t \in Month : debt.interest[t] \in Int /\ s.interest[t] \in Int
      BY <1>2 DEF LoopState
    <2>2. Costs(s) = <<>> \o cost
      BY DEF Series, Each, Month
    <2>3. cost \in [Month -> Int]
      BY <2>1
    <2> HIDE DEF cost, Costs
    <2>4. Costs(s) \in [Month -> Int]
      BY <2>2, <2>3, SeriesTyped
    <2>5. s.wf \in [Month -> Int]
      BY DEF LoopState
    <2>6. QED
      BY <2>4, <2>5 DEF Built
  <1> HIDE DEF Costs
  <1>4. ASSUME NEW s \in LoopState, NEW t \in Month PROVE Owed(Pass(Sheet(s).bs), t) \in Int
    <2> DEFINE sheet == Sheet(s)
               bs == sheet.bs
               cash == [m \in Month |-> bs[m].cash]
               assets == [m \in Month |-> bs[m].ar]
    <2>1. Built(sheet, c, debt, raised)
      BY <1>3
    <2> HIDE DEF sheet
    <2>2. \A m \in Month : bs[m].cash \in Int /\ bs[m].ar \in Int
      BY <2>1, BuiltFigures
    <2> HIDE DEF bs
    <2>3. /\ Series(LAMBDA m : bs[m].cash) = <<>> \o cash
          /\ Series(LAMBDA m : bs[m].ar) = <<>> \o assets
      BY DEF Series, Each, Month
    <2>4. cash \in [Month -> Int] /\ assets \in [Month -> Int]
      BY <2>2
    <2> HIDE DEF cash, assets
    <2>5. Series(LAMBDA m : bs[m].cash) = cash /\ Series(LAMBDA m : bs[m].ar) = assets
      BY <2>3, <2>4, SeriesTyped
    <2>6. Pass(bs) = apply_funding_waterfall(cash, c.plugs, c.minimum, assets)
      BY <2>5
    <2> HIDE DEF Pass
    <2>7. Owed(Pass(bs), t) \in Int
      BY <1>2, <2>4, <2>6, OwedIs
    <2>8. QED
      BY <2>7 DEF bs, sheet
  <1> HIDE DEF Pass, Sheet
  <1>5. ASSUME NEW s \in LoopState PROVE Step(s) \in LoopState
    <2> DEFINE p == Pass(Sheet(s).bs)
               o == [t \in Month |-> s.wf[t] + Owed(p, t)]
               i == [t \in Month |-> s.interest[t] + Share(Owed(p, t))]
    <2>1. \A t \in Month : Owed(p, t) \in Int /\ s.wf[t] \in Int /\ s.interest[t] \in Int /\ Share(Owed(p, t)) \in Int
      <3>1. \A t \in Month : Owed(p, t) \in Int
        BY <1>4
      <3> HIDE DEF p
      <3>2. QED
        BY <3>1, ShareIs DEF LoopState
    <2> HIDE DEF p
    <2>2. o \in [Month -> Int] /\ i \in [Month -> Int]
      BY <2>1
    <2>3. /\ Series(LAMBDA t : s.wf[t] + Owed(p, t)) = <<>> \o o
          /\ Series(LAMBDA t : s.interest[t] + Share(Owed(p, t))) = <<>> \o i
      BY DEF Series, Each, Month
    <2> HIDE DEF o, i
    <2>4. /\ Series(LAMBDA t : s.wf[t] + Owed(p, t)) = o
          /\ Series(LAMBDA t : s.interest[t] + Share(Owed(p, t))) = i
      BY <2>2, <2>3, SeriesTyped
    <2>5. Added(s, p) = IF Idle(p) THEN [s EXCEPT !.done = TRUE] ELSE [wf |-> o, done |-> FALSE, interest |-> i]
      BY <2>4
    <2> HIDE DEF Added
    <2>6. Added(s, p) \in LoopState
      <3>1. [s EXCEPT !.done = TRUE] \in LoopState
        BY DEF LoopState
      <3>2. [wf |-> o, done |-> FALSE, interest |-> i] \in LoopState
        BY <2>2 DEF LoopState
      <3>3. QED
        BY <2>5, <3>1, <3>2, Zenon
    <2>7. Step(s) = IF s.done THEN s ELSE Added(s, p)
      BY DEF p
    <2>8. QED
      BY <2>6, <2>7
  <1>6. first \in LoopState
    BY ZeroIs DEF LoopState
  <1> HIDE DEF Step, first
  <1>7. \A x \in LoopState, n \in 1..5 : g[<<x, n>>] = Step(x) /\ g[<<x, n>>] \in LoopState
    BY <1>5
  <1> HIDE DEF g
  <1>8. PICK h : h \in [0..5 -> LoopState] /\ StepByStep(h, first, g, 5)
    <2>1. 5 \in Nat /\ first \in LoopState /\ KeepsIn(LoopState, g, 5)
      BY <1>6, <1>7 DEF KeepsIn
    <2>2. QED
      BY <2>1, RecursionExists, Zenon
  <1>9. h = [n \in 0..5 |-> IF n = 0 THEN first ELSE Step(h[n - 1])]
    <2>1. \A n \in 0..5 : h[n] = IF n = 0 THEN first ELSE Step(h[n - 1])
      <3> TAKE n \in 0..5
      <3>1. h[0] = first /\ (n # 0 => h[n] = g[<<h[n - 1], n>>])
        BY <1>8 DEF StepByStep
      <3>2. n # 0 => n \in 1..5 /\ h[n - 1] \in LoopState
        BY <1>8
      <3>3. QED
        BY <1>7, <3>1, <3>2
    <2>2. QED
      BY <1>8, <2>1
  <1>10. loop = [n \in 0..5 |-> IF n = 0 THEN first ELSE Step(loop[n - 1])]
    <2>1. \E k : k = [n \in 0..5 |-> IF n = 0 THEN first ELSE Step(k[n - 1])]
      BY <1>9
    <2>2. QED
      BY <2>1, Zenon
  <1> HIDE DEF loop
  <1>11. \A n \in 0..5 : loop[n] \in LoopState
    <2> DEFINE P == {k \in 0..5 : loop[k] \in LoopState}
    <2>1. 0 \in P
      BY <1>6, <1>10
    <2>2. ASSUME NEW n \in 1..5, n - 1 \in P PROVE n \in P
      <3>1. loop[n] = Step(loop[n - 1]) /\ loop[n - 1] \in LoopState /\ n \in 0..5
        BY <1>10, <2>2
      <3>2. QED
        BY <1>5, <3>1
    <2> HIDE DEF P
    <2>3. 5 \in Nat
      OBVIOUS
    <2>4. QED
      BY <2>1, <2>2, <2>3, StepInduction DEF P
  <1>12. QED
    <2>1. loop[5] \in LoopState
      BY <1>11
    <2>2. QED
      BY <1>1, <1>3, <2>1

(* The statements of every configuration hang together, with the waterfall *)
(* or without it: the financing cash flow, which the code computes as the  *)
(* difference, is what debt, equity and dividends make it; a loss is set   *)
(* off once; debt keeps its bounds (generate_statements).                  *)
THEOREM StatementsHangTogether ==
    ASSUME NEW c, Configuration(c), NEW s, s = generate_statements(c)
    PROVE  FinancingIsExplained(c, s) /\ LossesSetOffOnce(c, s) /\ DebtHasItsBounds(c, s)
  <1> DEFINE debt == calculate_debt_schedule(c.facilities)
             raised == _compute_equity_raises_per_period(c, debt)
             plain == _build_income_statement(c, debt.interest)
             chosen == IF c.plugs # <<>> /\ c.minimum > 0 THEN _apply_waterfall_loop(c, debt, raised)
                       ELSE [is |-> plain, wf |-> Zero, bs |-> _build_balance_sheet(c, plain, debt, raised, Zero)]
  <1>1. s = [is |-> chosen.is, bs |-> chosen.bs, wf |-> chosen.wf, debt |-> debt,
             cf |-> _build_cash_flow(c, chosen.is, plain, chosen.bs, debt, raised)]
    BY DEF generate_statements
  <1>2. c.facilities \in Seq(Scheduled)
    BY DEF Configuration
  <1>3. debt.interest \in [Month -> Int] /\ raised \in [Month -> Int]
    BY <1>2, DebtIs, RaisesAre
  <1>4. Built(chosen, c, debt, raised)
    <2> DEFINE simple == [is |-> plain, wf |-> Zero, bs |-> _build_balance_sheet(c, plain, debt, raised, Zero)]
    <2>1. Built(simple, c, debt, raised)
      <3> HIDE DEF debt, raised
      <3>1. simple.wf \in [Month -> Int]
        BY ZeroIs
      <3>2. QED
        BY <1>3, <3>1 DEF Built
    <2>2. Built(_apply_waterfall_loop(c, debt, raised), c, debt, raised)
      BY <1>3, LoopIs
    <2> HIDE DEF simple
    <2>3. chosen = IF c.plugs # <<>> /\ c.minimum > 0 THEN _apply_waterfall_loop(c, debt, raised) ELSE simple
      BY DEF simple
    <2> HIDE DEF chosen
    <2>4. QED
      BY <2>1, <2>2, <2>3
  <1> HIDE DEF chosen
  <1>5. s.debt = debt /\ s.is = chosen.is /\ s.bs = chosen.bs /\ s.wf = chosen.wf
        /\ s.cf = _build_cash_flow(c, s.is, plain, s.bs, s.debt, raised)
    BY <1>1
  <1>6. DebtHasItsBounds(c, s)
    BY <1>2, <1>5, DebtKeepsItsBounds
  <1> HIDE DEF debt, raised
  <1>7. PICK interest \in [Month -> Int] : chosen.is = _build_income_statement(c, interest)
    BY <1>4 DEF Built
  <1>8. chosen.wf \in [Month -> Int] /\ chosen.bs = _build_balance_sheet(c, chosen.is, debt, raised, chosen.wf)
    BY <1>4 DEF Built
  <1>9. LossesSetOffOnce(c, s)
    BY <1>5, <1>7, LossesAreSetOffOnce
  <1>10. FinancingIsExplained(c, s)
    <2>1. /\ s.wf \in [Month -> Int]
          /\ s.debt = calculate_debt_schedule(c.facilities)
          /\ s.is = _build_income_statement(c, interest)
          /\ s.bs = _build_balance_sheet(c, s.is, s.debt, raised, s.wf)
          /\ s.cf = _build_cash_flow(c, s.is, plain, s.bs, s.debt, raised)
      BY <1>5, <1>7, <1>8 DEF debt
    <2>2. QED
      BY <1>3, <2>1, FinancingAlwaysExplained
  <1>11. QED
    BY <1>6, <1>9, <1>10
-----------------------------------------------------------------------------
(* The inputs that are picked.                                             *)

(* Three calculations are about groups, three about statements.            *)
GroupCalculations == {"group", "links", "tree"}
StatementCalculations == {"debt", "statements", "waterfall"}
Other(calculation) == calculation \notin GroupCalculations /\ calculation \notin StatementCalculations

LEMMA StatementsPicked == PickDebt \/ PickStatements \/ PickWaterfall => part' \notin GroupCalculations
  <1>1. PickDebt => part' = "debt"
    BY DEF PickDebt, Check
  <1>2. PickStatements => part' = "statements"
    BY DEF PickStatements, Check
  <1>3. PickWaterfall => part' = "waterfall"
    BY DEF PickWaterfall, Check
  <1>4. QED
    BY <1>1, <1>2, <1>3 DEF GroupCalculations

LEMMA AnalysesPicked ==
    PickGraph \/ PickSchedule \/ PickRamp \/ PickSimulations \/ PickHeatmap \/ PickTornado \/ PickValuation
    \/ PickMultiples \/ PickCovenant => Other(part')
  <1>1. PickGraph => part' = "graph"
    BY DEF PickGraph, Check
  <1>2. PickSchedule => part' = "schedule"
    BY DEF PickSchedule, Check
  <1>3. PickRamp => part' = "ramp"
    BY DEF PickRamp, Check
  <1>4. PickSimulations => part' = "simulations"
    BY DEF PickSimulations, Check
  <1>5. PickHeatmap => part' = "heatmap"
    BY DEF PickHeatmap, Check
  <1>6. PickTornado => part' = "tornado"
    BY DEF PickTornado, Check
  <1>7. PickValuation => part' = "valuation"
    BY DEF PickValuation, Check
  <1>8. PickMultiples => part' = "multiples"
    BY DEF PickMultiples, Check
  <1>9. PickCovenant => part' = "covenant"
    BY DEF PickCovenant, Check
  <1>10. QED
    BY <1>1, <1>2, <1>3, <1>4, <1>5, <1>6, <1>7, <1>8, <1>9 DEF Other, GroupCalculations, StatementCalculations

LEMMA DocumentsPicked ==
    PickTrialBalance \/ PickPdf \/ PickAccounts \/ PickFlags \/ PickTable \/ PickSheet \/ PickMapping
    \/ PickExport \/ PickScale \/ PickRates => Other(part')
  <1>1. PickTrialBalance => part' = "trial"
    BY DEF PickTrialBalance, Check
  <1>2. PickPdf => part' = "pdf"
    BY DEF PickPdf, Check
  <1>3. PickAccounts => part' = "accounts"
    BY DEF PickAccounts, Check
  <1>4. PickFlags => part' = "flags"
    BY DEF PickFlags, Check
  <1>5. PickTable => part' = "table"
    BY DEF PickTable, Check
  <1>6. PickSheet => part' = "sheet"
    BY DEF PickSheet, Check
  <1>7. PickMapping => part' = "mapping"
    BY DEF PickMapping, Check
  <1>8. PickExport => part' = "export"
    BY DEF PickExport, Check
  <1>9. PickScale => part' = "scale"
    BY DEF PickScale, Check
  <1>10. PickRates => part' = "rates"
    BY DEF PickRates, Check
  <1>11. QED
    BY <1>1, <1>2, <1>3, <1>4, <1>5, <1>6, <1>7, <1>8, <1>9, <1>10 DEF Other, GroupCalculations, StatementCalculations

LEMMA InvestmentsPicked ==
    PickScore \/ PickRegime \/ PickPortfolio \/ PickBacktest \/ PickFund \/ PickRank
    \/ PickStates \/ PickHistory \/ PickDiagram => Other(part')
  <1>1. PickScore => part' = "score"
    BY DEF PickScore, Check
  <1>2. PickRegime => part' = "regime"
    BY DEF PickRegime, Check
  <1>3. PickPortfolio => part' = "portfolio"
    BY DEF PickPortfolio, Check
  <1>4. PickBacktest => part' = "backtest"
    BY DEF PickBacktest, Check
  <1>5. PickFund => part' = "fund"
    BY DEF PickFund, Check
  <1>6. PickRank => part' = "rank"
    BY DEF PickRank, Check
  <1>7. PickStates => part' = "states"
    BY DEF PickStates, Check
  <1>8. PickHistory => part' = "history"
    BY DEF PickHistory, Check
  <1>9. PickDiagram => part' = "diagram"
    BY DEF PickDiagram, Check
  <1>10. QED
    BY <1>1, <1>2, <1>3, <1>4, <1>5, <1>6, <1>7, <1>8, <1>9 DEF Other, GroupCalculations, StatementCalculations

LEMMA GroupPicked ==
    ASSUME PickGroup
    PROVE  /\ part' = "group"
           /\ \E entities, avg, closing :
                 /\ entities \in [1..2 -> GroupMember({"USD", "GBP"})]
                 /\ WholeRates(avg) /\ WholeRates(closing)
                 /\ case' = <<entities, avg, closing>>
  <1>1. PICK a, b \in Member, average, closing \in Rates :
            part' = "group" /\ case' = <<<<a, b>>, average, closing>>
    BY DEF PickGroup, Check
  <1>2. Member \subseteq GroupMember({"USD", "GBP"})
    <2>1. ASSUME NEW s \in Statement
          PROVE  s.is \in [{"net_income", "revenue"} -> Int] /\ s.bs \in [{"assets", "equity"} -> Int]
      BY DEF Statement
    <2>2. QED
      BY <2>1 DEF Member, GroupMember, Methods
  <1>3. \A rates \in Rates : WholeRates(rates)
    <2>1. \A p : WholeRates([q \in {p} |-> 2])
      BY DEF WholeRates
    <2>2. WholeRates(<<>>)
      BY DEF WholeRates
    <2>3. QED
      BY <2>1, <2>2 DEF Rates
  <1>4. <<a, b>> \in [1..2 -> GroupMember({"USD", "GBP"})]
    <2> DEFINE M == GroupMember({"USD", "GBP"})
    <2>1. a \in M /\ b \in M
      BY <1>2
    <2> HIDE DEF M
    <2>2. <<a, b>> \in Seq(M) /\ Len(<<a, b>>) = 2
      BY <2>1
    <2>3. <<a, b>> \in [1..2 -> M]
      BY <2>2, LenProperties
    <2>4. QED
      BY <2>3 DEF M
  <1>5. QED
    BY <1>1, <1>3, <1>4, Zenon

LEMMA LinksPicked ==
    ASSUME PickLinks
    PROVE  /\ part' = "links"
           /\ \E links, granularity : /\ \A i \in DOMAIN links : links[i].amount \in Int
                                      /\ case' = <<links, granularity>>
  <1>1. PICK a, b \in Link, granularity \in {"monthly", "quarterly", "annual"} :
            part' = "links" /\ case' = <<<<a, b>>, granularity>>
    BY DEF PickLinks, Check
  <1>2. a.amount \in Int /\ b.amount \in Int
    BY DEF Link
  <1>3. \A i \in DOMAIN <<a, b>> : <<a, b>>[i].amount \in Int
    BY <1>2
  <1>4. QED
    BY <1>1, <1>3, Zenon

LEMMA TreePicked ==
    ASSUME PickTree
    PROVE  part' = "tree" /\ Structure(case')
  <1>1. PICK roots \in SUBSET Node, owned \in SUBSET {p \in Node \X Node : p[1] # p[2]} :
            \E pct \in [owned -> {40, 70}] :
                part' = "tree" /\ case' = [entities |-> Node, roots |-> roots, owned |-> pct, first |-> "b"]
    BY DEF PickTree, Check
  <1>2. PICK pct \in [owned -> {40, 70}] :
            part' = "tree" /\ case' = [entities |-> Node, roots |-> roots, owned |-> pct, first |-> "b"]
    BY <1>1
  <1>3. IsFiniteSet(Node) /\ "b" \in Node
    <2>1. Node = ({"a"} \cup {"b"}) \cup {"c"}
      BY DEF Node
    <2>2. QED
      BY <2>1, FS_Singleton, FS_Union
  <1>4. DOMAIN pct \subseteq Node \X Node
    BY <1>1
  <1>5. QED
    BY <1>2, <1>3, <1>4 DEF Structure

LEMMA PicksOne ==
    ASSUME Next, part' \in GroupCalculations
    PROVE  PickGroup \/ PickLinks \/ PickTree
  BY StatementsPicked, AnalysesPicked, DocumentsPicked, InvestmentsPicked, Zenon DEF Next, Other

(* A group's figures are those of its members: the theorems above, for     *)
(* each input that is picked.                                              *)
THEOREM ConsolidationsHold == Spec => ConsolidationHolds
  <1>1. ASSUME Next PROVE \A c \in {case'} : ConsolidationFits(part', c)
    <2>1. CASE part' \notin GroupCalculations
      BY <2>1 DEF ConsolidationFits, GroupCalculations
    <2>2. CASE PickGroup
      <3>1. PICK entities, avg, closing :
                /\ entities \in [1..2 -> GroupMember({"USD", "GBP"})]
                /\ WholeRates(avg) /\ WholeRates(closing)
                /\ part' = "group" /\ case' = <<entities, avg, closing>>
        BY <2>2, GroupPicked
      <3>2. Group!ParentsPartCountedOnce(entities, avg, closing, "USD")
        BY <3>1, GroupIsItsParts
      <3>3. QED
        BY <3>1, <3>2 DEF ConsolidationFits
    <2>3. CASE PickLinks
      <3>1. PICK links, granularity :
                /\ \A i \in DOMAIN links : links[i].amount \in Int
                /\ part' = "links" /\ case' = <<links, granularity>>
        BY <2>3, LinksPicked
      <3>2. Group!EliminatedOnce(links, granularity, 10)
        BY <3>1, LinksEliminatedOnce
      <3>3. QED
        BY <3>1, <3>2 DEF ConsolidationFits
    <2>4. CASE PickTree
      <3>1. part' = "tree" /\ Structure(case')
        BY <2>4, TreePicked
      <3>2. Group!TreeShowsWhatIsOwned(case')
        BY <3>1, TreesShowWhatIsOwned
      <3>3. QED
        BY <3>1, <3>2 DEF ConsolidationFits
    <2>5. QED
      BY <1>1, <2>1, <2>2, <2>3, <2>4, PicksOne
  <1>2. [Next]_vars => [\A c \in {case'} : ConsolidationFits(part', c)]_vars
    BY <1>1
  <1>3. QED
    BY <1>2, PTL DEF Spec, ConsolidationHolds

(* The figures by month that are picked.                                   *)
LEMMA PickedSeries ==
    /\ Zero \in [Month -> Nat]
    /\ \A t, n : n \in Nat => In(t, n) \in [Month -> Nat] /\ Same(n) \in [Month -> Nat]
    /\ \A S : S \subseteq Nat => Some(S) \subseteq [Month -> Nat]
    /\ \A w \in [Month -> Nat] : w \in [Month -> Int]
  <1>1. Zero \in [Month -> Nat]
    <2> DEFINE z == [t \in 1..Horizon |-> 0]
    <2>1. Zero = <<>> \o z
      BY DEF Zero, Series, Each
    <2>2. z \in [Month -> Nat] /\ z \in [Month -> Int]
      BY DEF Month
    <2> HIDE DEF z
    <2>3. QED
      BY <2>1, <2>2, SeriesTyped
  <1>2. \A t, n : n \in Nat => In(t, n) \in [Month -> Nat] /\ Same(n) \in [Month -> Nat]
    BY DEF In, Same
  <1>3. \A S : S \subseteq Nat => Some(S) \subseteq [Month -> Nat]
    BY DEF Some
  <1>4. QED
    BY <1>1, <1>2, <1>3

LEMMA PickedFacilities == Facility \subseteq Scheduled /\ Loan \in Scheduled
  <1>1. ASSUME NEW f \in Facility PROVE f \in Scheduled
    <2>1. f.draws \in [Month -> Nat] /\ f.repays \in [Month -> Nat]
      <3>1. f.draws \in Some({0, 4}) /\ f.repays \in {Zero, In(1, 1), In(2, 2)}
        BY DEF Facility
      <3>2. QED
        BY <3>1, PickedSeries
    <2>2. f.limit \in Nat /\ f.pik \in BOOLEAN /\ f.grace \in Nat /\ f.converts \in Nat \cup {None}
      BY DEF Facility
    <2>3. f = [limit |-> f.limit, pik |-> f.pik, grace |-> f.grace, converts |-> f.converts,
               draws |-> f.draws, repays |-> f.repays]
      BY DEF Facility
    <2>4. QED
      BY <2>1, <2>2, <2>3 DEF Scheduled
  <1>2. In(1, 4) \in [Month -> Nat] /\ In(2, 2) \in [Month -> Nat]
    BY PickedSeries
  <1>3. Loan \in Scheduled
    BY <1>2 DEF Loan, Scheduled
  <1>4. QED
    BY <1>1, <1>3

LEMMA DebtPicked ==
    ASSUME PickDebt
    PROVE  part' = "debt" /\ Configuration(case')
  <1>1. PICK f \in Facility, dividends \in {None, "payout_ratio"}, revenue \in {Zero, In(2, 9)} :
            /\ part' = "debt"
            /\ case' = [Model EXCEPT !.facilities = <<f>>, !.dividends = dividends, !.revenue = revenue]
    BY DEF PickDebt, Check
  <1> DEFINE c == [Model EXCEPT !.facilities = <<f>>, !.dividends = dividends, !.revenue = revenue]
  <1>2. /\ c.revenue = revenue /\ c.cogs = Zero /\ c.opex = Zero /\ c.capex = {} /\ c.ar = 1 /\ c.ap = 1
        /\ c.inv = 1 /\ c.facilities = <<f>> /\ c.raised = 4 /\ c.nol \in BOOLEAN /\ c.initial_equity = 3
        /\ c.initial_cash = 1 /\ c.plugs = <<>> /\ c.minimum = 0
    BY DEF Model
  <1> HIDE DEF c
  <1>3. revenue \in [Month -> Int] /\ Zero \in [Month -> Int]
    BY PickedSeries
  <1>4. <<f>> \in Seq(Scheduled) /\ <<>> \in Seq(CashPlug)
    <2>1. f \in Scheduled
      BY PickedFacilities
    <2>2. QED
      BY <2>1
  <1>5. IsFiniteSet({})
    BY FS_EmptySet
  <1>6. Configuration(c)
    BY <1>2, <1>3, <1>4, <1>5 DEF Configuration
  <1>7. QED
    BY <1>1, <1>6 DEF c

LEMMA PickedPlugs == Plugs \subseteq Seq(CashPlug) /\ <<>> \in Seq(CashPlug)
  <1>1. Plug \subseteq CashPlug
    BY DEF Plug, CashPlug
  <1>2. \A p, q \in CashPlug : <<p>> \in Seq(CashPlug) /\ <<p, q>> \in Seq(CashPlug)
    OBVIOUS
  <1>3. ASSUME NEW x \in Plugs
        PROVE  x \in Seq(CashPlug)
    <2>1. (\E p \in Plug : x = <<p>>) \/ (\E p, q \in Plug : x = <<p, q>>)
      BY DEF Plugs
    <2>2. QED
      BY <1>1, <1>2, <2>1
  <1>4. <<>> \in Seq(CashPlug)
    OBVIOUS
  <1>5. QED
    BY <1>3, <1>4

LEMMA StatementsAreConfigured ==
    ASSUME PickStatements
    PROVE  part' = "statements" /\ Configuration(case')
  <1> DEFINE C(revenue, opex, capex, dividends, nol, plugs) ==
                 [Model EXCEPT !.revenue = revenue, !.cogs = [t \in Month |-> Share(revenue[t])], !.opex = opex,
                      !.capex = capex, !.dividends = dividends, !.nol = nol, !.plugs = plugs, !.minimum = 2,
                      !.facilities = <<Loan>>, !.raise = IF capex = {} THEN None ELSE 2]
  <1>1. PICK revenue \in {Zero, In(1, 8), In(2, 8), Same(8)}, opex \in {Zero, In(1, 5), In(3, 5), Same(5)},
             capex \in {{}, {Purchase}}, dividends \in {None, "payout_ratio", "fixed_amount"}, nol \in BOOLEAN,
             plugs \in {<<>>} \cup Plugs :
            part' = "statements" /\ case' = C(revenue, opex, capex, dividends, nol, plugs)
    BY DEF PickStatements, Check
  <1> DEFINE c == C(revenue, opex, capex, dividends, nol, plugs)
             cogs == [t \in Month |-> Share(revenue[t])]
  <1>2. /\ c.revenue = revenue /\ c.cogs = cogs /\ c.opex = opex /\ c.capex = capex /\ c.ar = 1 /\ c.ap = 1
        /\ c.inv = 1 /\ c.facilities = <<Loan>> /\ c.raised = 4 /\ c.nol = nol /\ c.initial_equity = 3
        /\ c.initial_cash = 1 /\ c.plugs = plugs /\ c.minimum = 2
    BY DEF Model
  <1>3. revenue \in [Month -> Int] /\ opex \in [Month -> Int]
    BY PickedSeries
  <1>4. cogs \in [Month -> Int]
    BY <1>3, ShareIs
  <1> HIDE DEF c, C, cogs
  <1>5. <<Loan>> \in Seq(Scheduled) /\ plugs \in Seq(CashPlug)
    <2>1. plugs \in Seq(CashPlug)
      BY PickedPlugs
    <2>2. Loan \in Scheduled
      BY PickedFacilities
    <2>3. QED
      BY <2>1, <2>2
  <1>6. IsFiniteSet(capex) /\ \A p \in capex : p.month \in Int /\ p.life \in Nat \ {0} /\ p.amount \in Int
    <2>1. IsFiniteSet({}) /\ IsFiniteSet({Purchase})
      BY FS_EmptySet, FS_Singleton
    <2>2. Purchase.month \in Int /\ Purchase.life \in Nat \ {0} /\ Purchase.amount \in Int
      BY DEF Purchase
    <2>3. QED
      BY <2>1, <2>2
  <1>7. Configuration(c)
    BY <1>2, <1>3, <1>4, <1>5, <1>6 DEF Configuration
  <1>8. QED
    BY <1>1, <1>7 DEF c

LEMMA WaterfallPicked ==
    ASSUME PickWaterfall
    PROVE  /\ part' = "waterfall"
           /\ \E cash \in [Month -> Int], plugs \in Seq(CashPlug), assets \in [Month -> Int] :
                 case' = <<cash, plugs, 2, assets>>
  <1>1. PICK cash \in Some({-4, 0, 1, 3, 8}), plugs \in Plugs, ar \in Some({1, 4}) :
            part' = "waterfall" /\ case' = <<cash, plugs, 2, ar>>
    BY DEF PickWaterfall, Check
  <1>2. cash \in [Month -> Int] /\ ar \in [Month -> Int]
    BY DEF Some
  <1>3. plugs \in Seq(CashPlug)
    BY PickedPlugs
  <1>4. QED
    BY <1>1, <1>2, <1>3

LEMMA PicksAStatement ==
    ASSUME Next, part' \in StatementCalculations
    PROVE  PickDebt \/ PickStatements \/ PickWaterfall
  <1>1. PickGroup \/ PickLinks \/ PickTree => part' \notin StatementCalculations
    BY GroupPicked, LinksPicked, TreePicked DEF StatementCalculations
  <1>2. QED
    BY <1>1, AnalysesPicked, DocumentsPicked, InvestmentsPicked, Zenon DEF Next, Other

(* The statements hang together: the theorems above, for each input that   *)
(* is picked.                                                              *)
THEOREM StatementsAlwaysHold == Spec => StatementsHold
  <1>1. ASSUME Next PROVE \A c \in {case'} : StatementsFit(part', c)
    <2>1. CASE part' \notin StatementCalculations
      BY <2>1 DEF StatementsFit, StatementCalculations
    <2>2. CASE PickDebt \/ PickStatements
      <3>1. part' # "waterfall" /\ Configuration(case')
        BY <2>2, DebtPicked, StatementsAreConfigured
      <3>2. /\ FinancingIsExplained(case', generate_statements(case'))
            /\ LossesSetOffOnce(case', generate_statements(case'))
            /\ DebtHasItsBounds(case', generate_statements(case'))
        BY <3>1, StatementsHangTogether
      <3>3. QED
        BY <3>1, <3>2, Zenon DEF StatementsFit
    <2>3. CASE PickWaterfall
      <3>1. PICK cash \in [Month -> Int], plugs \in Seq(CashPlug), assets \in [Month -> Int] :
                part' = "waterfall" /\ case' = <<cash, plugs, 2, assets>>
        BY <2>3, WaterfallPicked
      <3>2. DrawnInOrder(cash, plugs, 2, assets) /\ RepaidInOrder(cash, plugs, 2, assets)
        BY WaterfallDrawsInOrder
      <3>3. QED
        BY <3>1, <3>2 DEF StatementsFit
    <2>4. QED
      BY <1>1, <2>1, <2>2, <2>3, PicksAStatement
  <1>2. [Next]_vars => [\A c \in {case'} : StatementsFit(part', c)]_vars
    BY <1>1
  <1>3. QED
    BY <1>2, PTL DEF Spec, StatementsHold
-----------------------------------------------------------------------------
(* The rank of a fund among its peers.                                     *)

(* What grows evenly from nothing to k over b.                             *)
LEMMA GrowsEvenly ==
    ASSUME NEW b \in Nat \ {0}, NEW k \in Nat, NEW x \in Int, NEW y \in Int, x <= y
    PROVE  /\ (k * x) \div b \in Int /\ (k * y) \div b \in Int
           /\ (k * x) \div b <= (k * y) \div b
           /\ y <= b => (k * y) \div b <= k
           /\ 0 <= x => 0 <= (k * x) \div b
  <1>1. /\ k * x \in Int /\ k * y \in Int /\ k * x <= k * y
        /\ y <= b => k * y <= k * b
        /\ 0 <= x => k * 0 <= k * x
        /\ k * b \in Int /\ k * 0 = 0
    BY ProductsOrdered
  <1>2. (k * b) \div b = k /\ 0 \div b = 0
    <2>1. (b * k + 0) \div b = k /\ (b * 0 + 0) \div b = 0
      BY DivisionWithin
    <2>2. b * k + 0 = k * b /\ b * 0 + 0 = 0
      OBVIOUS
    <2>3. QED
      BY <2>1, <2>2
  <1> DEFINE u == k * x
             v == k * y
             w == k * b
  <1>3. /\ u \in Int /\ v \in Int /\ w \in Int /\ u <= v /\ (y <= b => v <= w) /\ (0 <= x => 0 <= u)
        /\ w \div b = k
    BY <1>1, <1>2
  <1> HIDE DEF u, v, w
  <1>4. u \div b \in Int /\ v \div b \in Int /\ u \div b <= v \div b
    BY <1>3, DivisionOrdered
  <1>5. y <= b => v \div b <= k
    BY <1>3, DivisionOrdered
  <1>6. 0 <= x => 0 <= u \div b
    BY <1>2, <1>3, DivisionOrdered
  <1>7. QED
    BY <1>4, <1>5, <1>6 DEF u, v

Highest == 990
Clamped(x) == Invest!Least(Highest, Invest!Most(0, x))
Segment(base, k, low, width, v) == Clamped(base + ((k * (v - low)) \div width))

LEMMA SegmentGrows ==
    ASSUME NEW base \in Nat, NEW k \in Nat, NEW low \in Int, NEW width \in Nat \ {0},
           NEW v \in Int, NEW w \in Int, v <= w, base + k <= Highest
    PROVE  /\ Segment(base, k, low, width, v) \in 0..Highest /\ Segment(base, k, low, width, w) \in 0..Highest
           /\ Segment(base, k, low, width, v) <= Segment(base, k, low, width, w)
           /\ v - low <= width => Segment(base, k, low, width, v) <= base + k
           /\ low <= v => base <= Segment(base, k, low, width, v)
  <1> DEFINE x == v - low
             y == w - low
             f == (k * x) \div width
             g == (k * y) \div width
  <1>1. x \in Int /\ y \in Int /\ x <= y /\ (v - low <= width <=> x <= width) /\ (low <= v <=> 0 <= x)
    OBVIOUS
  <1> HIDE DEF x, y
  <1>2. /\ f \in Int /\ g \in Int /\ f <= g
        /\ 0 <= x => 0 <= f
    BY <1>1, GrowsEvenly
  <1>3. x <= width => f <= k
    BY <1>1, GrowsEvenly
  <1> HIDE DEF f, g
  <1>4. Segment(base, k, low, width, v) = Clamped(base + f) /\ Segment(base, k, low, width, w) = Clamped(base + g)
    BY DEF Segment, f, g, x, y
  <1>5. QED
    BY <1>1, <1>2, <1>3, <1>4 DEF Clamped, Highest, Invest!Least, Invest!Most

LEMMA RankIs ==
    ASSUME NEW p \in Int, NEW q \in Int, NEW r \in Int, p <= q, q <= r, NEW v \in Int,
           NEW R, R = Invest!_percentile_rank(v, <<p, q, r>>)
    PROVE  /\ v <= p /\ p >= 0 => R = IF p = 0 THEN 0 ELSE Segment(0, 250, 0, p, v)
           /\ p < v /\ v <= q => R = Segment(250, 250, p, q - p, v)
           /\ q < v /\ v <= r => R = Segment(500, 250, q, r - q, v)
           /\ r < v => R = Segment(750, 240, r, IF r > 0 THEN r ELSE 1 - r, v)
  <1> DEFINE s == Invest!Span(<<p, q, r>>, v)
             width == s[3] - s[1]
             sign == IF width < 0 THEN -1 ELSE 1
  <1>1. R = IF width = 0 THEN s[2] * 10
            ELSE Clamped(s[2] * 10 + ((sign * (v - s[1]) * (s[4] - s[2]) * 10) \div (sign * width)))
    BY DEF Invest!_percentile_rank, Clamped, Highest
  <1> HIDE DEF s
  <1>2. ASSUME NEW low \in Int, NEW base \in Nat, NEW high \in Int, NEW top \in Nat, low < high, base <= top,
               s = <<low, base, high, top>>
        PROVE  R = Segment(10 * base, 10 * (top - base), low, high - low, v)
    <2>1. width = high - low /\ width # 0 /\ sign = 1
      BY <1>2
    <2>2. sign * (v - s[1]) * (s[4] - s[2]) * 10 = (10 * (top - base)) * (v - low)
      BY <1>2, <2>1
    <2>3. sign * width = high - low /\ s[2] * 10 = 10 * base
      BY <1>2, <2>1
    <2>4. QED
      BY <1>1, <2>1, <2>2, <2>3 DEF Segment
  <1>3. CASE v <= p /\ p >= 0
    <2>1. s = <<0, 0, p, 25>>
      BY <1>3 DEF s, Invest!Span
    <2>2. CASE p = 0
      <3>1. R = 0
        BY <1>1, <2>1, <2>2
      <3>2. QED
        BY <1>3, <2>2, <3>1
    <2>3. CASE p # 0
      <3>1. R = Segment(10 * 0, 10 * (25 - 0), 0, p - 0, v)
        BY <1>2, <1>3, <2>1, <2>3
      <3>2. 10 * 0 = 0 /\ 10 * (25 - 0) = 250 /\ p - 0 = p
        OBVIOUS
      <3>3. QED
        BY <1>3, <2>3, <3>1, <3>2
    <2>4. QED
      BY <2>2, <2>3
  <1>4. CASE p < v /\ v <= q
    <2>1. s = <<p, 25, q, 50>>
      BY <1>4 DEF s, Invest!Span
    <2>2. R = Segment(10 * 25, 10 * (50 - 25), p, q - p, v)
      BY <1>2, <1>4, <2>1
    <2>3. QED
      BY <1>4, <2>2
  <1>5. CASE q < v /\ v <= r
    <2>1. s = <<q, 50, r, 75>>
      BY <1>5 DEF s, Invest!Span
    <2>2. R = Segment(10 * 50, 10 * (75 - 50), q, r - q, v)
      BY <1>2, <1>5, <2>1
    <2>3. QED
      BY <1>5, <2>2
  <1>6. CASE r < v
    <2> DEFINE high == IF r > 0 THEN r * 2 ELSE 1
    <2>1. s = <<r, 75, high, 99>> /\ high \in Int /\ r < high /\ high - r = IF r > 0 THEN r ELSE 1 - r
      BY <1>6 DEF s, Invest!Span
    <2> HIDE DEF high
    <2>2. R = Segment(10 * 75, 10 * (99 - 75), r, high - r, v)
      BY <1>2, <2>1
    <2>3. QED
      BY <1>6, <2>1, <2>2
  <1>7. QED
    BY <1>3, <1>4, <1>5, <1>6

(* What is known of the ranks a and b of x and y, x being no greater.      *)
Placed(p, q, r, x, y, a, b) ==
    /\ x <= p => a \in 0..250 /\ (y <= p => a <= b)
    /\ p < x /\ x <= q => a \in 250..500 /\ (y <= q => a <= b)
    /\ q < x /\ x <= r => a \in 500..750 /\ (y <= r => a <= b)
    /\ r < x => a \in 750..990 /\ a <= b

(* Of two funds the one with the higher figure never ranks lower, for      *)
(* quartiles of any sign that are in order and for any two figures, unless *)
(* the 25th percentile is negative and the lower figure is not above it:   *)
(* there the code turns the order round (_percentile_rank, _quartile).     *)
THEOREM RanksKeepTheirOrder ==
    ASSUME NEW p \in Int, NEW q \in Int, NEW r \in Int, p <= q, q <= r, NEW v \in Int, NEW w \in Int
    PROVE  Invest!RankKeepsOrder(<<p, q, r>>, v, w)
  <1>1. SUFFICES ASSUME v <= w, p >= 0 \/ p < v
                 PROVE  /\ Invest!_percentile_rank(v, <<p, q, r>>) <= Invest!_percentile_rank(w, <<p, q, r>>)
                        /\ Invest!_quartile(Invest!_percentile_rank(v, <<p, q, r>>))
                             >= Invest!_quartile(Invest!_percentile_rank(w, <<p, q, r>>))
    BY DEF Invest!RankKeepsOrder, Invest!HigherRanksHigher
  <1> DEFINE Rank(x) == Invest!_percentile_rank(x, <<p, q, r>>)
             Last == IF r > 0 THEN r ELSE 1 - r
  <1>2. ASSUME NEW x \in Int, NEW y \in Int, x <= y, p >= 0 \/ p < x
        PROVE  Placed(p, q, r, x, y, Rank(x), Rank(y))
    <2>1. CASE x <= p
      <3>0. p >= 0
        BY <1>2, <2>1
      <3>1. Rank(x) = IF p = 0 THEN 0 ELSE Segment(0, 250, 0, p, x)
        BY <2>1, <3>0, RankIs
      <3>2. y <= p => Rank(y) = IF p = 0 THEN 0 ELSE Segment(0, 250, 0, p, y)
        BY <3>0, RankIs
      <3>3. p # 0 => /\ Segment(0, 250, 0, p, x) \in 0..Highest
                     /\ Segment(0, 250, 0, p, x) <= Segment(0, 250, 0, p, y)
                     /\ x - 0 <= p => Segment(0, 250, 0, p, x) <= 0 + 250
        <4> DEFINE base == 0
                   k == 250
                   low == 0
                   width == p
        <4>1. base \in Nat /\ k \in Nat /\ low \in Int /\ base + k <= Highest
          BY DEF Highest
        <4>2. p # 0 => width \in Nat \ {0}
          BY <3>0
        <4> HIDE DEF base, k, low, width
        <4>3. p # 0 => /\ Segment(base, k, low, width, x) \in 0..Highest
                       /\ Segment(base, k, low, width, x) <= Segment(base, k, low, width, y)
                       /\ x - low <= width => Segment(base, k, low, width, x) <= base + k
                       /\ low <= x => base <= Segment(base, k, low, width, x)
          BY <1>2, <4>1, <4>2, SegmentGrows, Zenon
        <4>4. QED
          BY <4>3 DEF base, k, low, width
      <3>4. QED
        BY <1>2, <2>1, <3>1, <3>2, <3>3 DEF Highest, Placed
    <2>2. CASE p < x /\ x <= q
      <3>1. Rank(x) = Segment(250, 250, p, q - p, x) /\ q - p \in Nat \ {0}
        BY <2>2, RankIs
      <3>2. y <= q => Rank(y) = Segment(250, 250, p, q - p, y)
        BY <1>2, <2>2, RankIs
      <3>3. /\ Segment(250, 250, p, q - p, x) \in 0..Highest
            /\ Segment(250, 250, p, q - p, x) <= Segment(250, 250, p, q - p, y)
            /\ x - p <= q - p => Segment(250, 250, p, q - p, x) <= 250 + 250
            /\ p <= x => 250 <= Segment(250, 250, p, q - p, x)
        <4> DEFINE base == 250
                   k == 250
                   low == p
                   width == q - p
        <4>1. base \in Nat /\ k \in Nat /\ low \in Int /\ base + k <= Highest
          BY DEF Highest
        <4>2. width \in Nat \ {0}
          BY <3>1
        <4> HIDE DEF base, k, low, width
        <4>3. /\ Segment(base, k, low, width, x) \in 0..Highest
              /\ Segment(base, k, low, width, x) <= Segment(base, k, low, width, y)
              /\ x - low <= width => Segment(base, k, low, width, x) <= base + k
              /\ low <= x => base <= Segment(base, k, low, width, x)
          BY <1>2, <4>1, <4>2, SegmentGrows, Zenon
        <4>4. QED
          BY <4>3 DEF base, k, low, width
      <3>4. QED
        BY <1>2, <2>2, <3>1, <3>2, <3>3 DEF Highest, Placed
    <2>3. CASE q < x /\ x <= r
      <3>1. Rank(x) = Segment(500, 250, q, r - q, x) /\ r - q \in Nat \ {0}
        BY <2>3, RankIs
      <3>2. y <= r => Rank(y) = Segment(500, 250, q, r - q, y)
        BY <1>2, <2>3, RankIs
      <3>3. /\ Segment(500, 250, q, r - q, x) \in 0..Highest
            /\ Segment(500, 250, q, r - q, x) <= Segment(500, 250, q, r - q, y)
            /\ x - q <= r - q => Segment(500, 250, q, r - q, x) <= 500 + 250
            /\ q <= x => 500 <= Segment(500, 250, q, r - q, x)
        <4> DEFINE base == 500
                   k == 250
                   low == q
                   width == r - q
        <4>1. base \in Nat /\ k \in Nat /\ low \in Int /\ base + k <= Highest
          BY DEF Highest
        <4>2. width \in Nat \ {0}
          BY <3>1
        <4> HIDE DEF base, k, low, width
        <4>3. /\ Segment(base, k, low, width, x) \in 0..Highest
              /\ Segment(base, k, low, width, x) <= Segment(base, k, low, width, y)
              /\ x - low <= width => Segment(base, k, low, width, x) <= base + k
              /\ low <= x => base <= Segment(base, k, low, width, x)
          BY <1>2, <4>1, <4>2, SegmentGrows, Zenon
        <4>4. QED
          BY <4>3 DEF base, k, low, width
      <3>4. QED
        BY <1>2, <2>3, <3>1, <3>2, <3>3 DEF Highest, Placed
    <2>4. CASE r < x
      <3>1. Rank(x) = Segment(750, 240, r, Last, x) /\ Rank(y) = Segment(750, 240, r, Last, y) /\ Last \in Nat \ {0}
        BY <1>2, <2>4, RankIs
      <3> HIDE DEF Last
      <3>2. /\ Segment(750, 240, r, Last, x) \in 0..Highest
            /\ Segment(750, 240, r, Last, x) <= Segment(750, 240, r, Last, y)
            /\ r <= x => 750 <= Segment(750, 240, r, Last, x)
        <4> DEFINE base == 750
                   k == 240
                   low == r
                   width == Last
        <4>1. base \in Nat /\ k \in Nat /\ low \in Int /\ base + k <= Highest
          BY DEF Highest
        <4>2. width \in Nat \ {0}
          BY <3>1
        <4> HIDE DEF base, k, low, width
        <4>3. /\ Segment(base, k, low, width, x) \in 0..Highest
              /\ Segment(base, k, low, width, x) <= Segment(base, k, low, width, y)
              /\ x - low <= width => Segment(base, k, low, width, x) <= base + k
              /\ low <= x => base <= Segment(base, k, low, width, x)
          BY <1>2, <4>1, <4>2, SegmentGrows, Zenon
        <4>4. QED
          BY <4>3 DEF base, k, low, width
      <3>3. QED
        BY <1>2, <2>4, <3>1, <3>2 DEF Highest, Placed
    <2>5. QED
      BY <1>2, <2>1, <2>2, <2>3, <2>4 DEF Placed
  <1>3. Rank(v) \in Int /\ Rank(w) \in Int /\ Rank(v) <= Rank(w)
    <2> DEFINE a == Rank(v)
               b == Rank(w)
    <2>1. w <= w /\ (p >= 0 \/ p < w)
      BY <1>1
    <2>2. Placed(p, q, r, v, w, a, b) /\ Placed(p, q, r, w, w, b, b)
      BY <1>1, <1>2, <2>1, Zenon
    <2> HIDE DEF a, b
    <2>3. a \in Int /\ b \in Int
      BY <2>2 DEF Placed
    <2>4. a <= b
      BY <1>1, <2>2, <2>3 DEF Placed
    <2>5. QED
      BY <2>3, <2>4 DEF a, b
  <1>4. ASSUME NEW x \in Int, NEW y \in Int, x <= y PROVE Invest!_quartile(x) >= Invest!_quartile(y)
    BY <1>4 DEF Invest!_quartile
  <1>5. Invest!_quartile(Rank(v)) >= Invest!_quartile(Rank(w))
    BY <1>3, <1>4
  <1>6. QED
    BY <1>3, <1>5 DEF Rank
-----------------------------------------------------------------------------
(* Covenants.                                                              *)

(* The figures of a period, as calculate_kpis reads them.                  *)
PeriodFigures ==
    [debt_current : Nat, debt_non_current : Nat, current_liabilities : Nat, payables : Nat, interest : Nat,
     repaid : Nat, current_assets : Int, equity : Int, ebitda : Int, income : Int]

LEMMA Checked ==
    ASSUME NEW k, NEW m, NEW o, NEW t, NEW d, d = [metric_ref |-> m, operator |-> o, threshold_value |-> t]
    PROVE  Engine!check_covenants(<<k>>, {d}) # {} <=> k[m] # None /\ Engine!_is_breach(k[m], o, t)
  <1>1. <<k>> # <<>> /\ Len(<<k>>) = 1 /\ <<k>>[1] = k
    OBVIOUS
  <1>2. Engine!check_covenants(<<k>>, {d})
          = {e \in {d} : k[e.metric_ref] # None /\ Engine!_is_breach(k[e.metric_ref], e.operator, e.threshold_value)}
    BY <1>1 DEF Engine!check_covenants
  <1>3. d.metric_ref = m /\ d.operator = o /\ d.threshold_value = t
    OBVIOUS
  <1>4. Engine!check_covenants(<<k>>, {d}) # {}
          <=> k[d.metric_ref] # None /\ Engine!_is_breach(k[d.metric_ref], d.operator, d.threshold_value)
    BY <1>2, Zenon
  <1>5. QED
    BY <1>3, <1>4, Zenon

LEMMA BreachIs ==
    ASSUME NEW x, NEW t
    PROVE  /\ Engine!_is_breach(x, "<", t) <=> x >= t
           /\ Engine!_is_breach(x, "<=", t) <=> x > t
           /\ Engine!_is_breach(x, ">", t) <=> x <= t
           /\ Engine!_is_breach(x, ">=", t) <=> x < t
  <1>1. Engine!_is_breach(x, "<", t) = (x >= t)
    BY DEF Engine!_is_breach
  <1>2. Engine!_is_breach(x, "<=", t) = (x > t)
    BY DEF Engine!_is_breach
  <1>3. Engine!_is_breach(x, ">", t) = (x <= t)
    BY DEF Engine!_is_breach
  <1>4. Engine!_is_breach(x, ">=", t) = (x < t)
    BY DEF Engine!_is_breach
  <1>5. QED
    BY <1>1, <1>2, <1>3, <1>4, Zenon

LEMMA RatioOrdered ==
    ASSUME NEW a \in Int, NEW b \in Int, NEW c \in Nat \ {0}, a <= b
    PROVE  /\ Engine!Percent(a, c) \in Int /\ Engine!Percent(b, c) \in Int
           /\ Engine!Percent(a, c) <= Engine!Percent(b, c)
  <1> DEFINE x == 100 * a
             y == 100 * b
  <1>1. x \in Int /\ y \in Int /\ x <= y
    OBVIOUS
  <1>2. Engine!Percent(a, c) = x \div c /\ Engine!Percent(b, c) = y \div c
    BY DEF Engine!Percent
  <1> HIDE DEF x, y
  <1>3. QED
    BY <1>1, <1>2, DivisionOrdered

(* With positive equity a company cannot borrow its way out of a breach,   *)
(* whatever its figures and the limit: a limit on leverage that is broken  *)
(* stays broken with more debt, a floor on debt service cover with less    *)
(* EBITDA; and a covenant is broken exactly when its own comparison fails  *)
(* (calculate_kpis, check_covenants).                                      *)
THEOREM MoreDebtCuresNothing ==
    ASSUME None \notin Int, NEW s \in PeriodFigures, NEW more \in Nat, NEW operator \in {"<", "<="}, NEW limit \in Int
    PROVE  Engine!MoreDebtNeverCures(s, more, operator, limit)
  <1> DEFINE leverage == [metric_ref |-> "debt_equity", operator |-> operator, threshold_value |-> limit]
             above == IF operator = "<" THEN ">" ELSE ">="
             cover == [metric_ref |-> "dscr", operator |-> above, threshold_value |-> limit]
             worse == [s EXCEPT !.debt_non_current = @ + more, !.ebitda = @ - more]
             k == Engine!calculate_kpis(s)
             l == Engine!calculate_kpis(worse)
             debt == s.debt_current + s.debt_non_current
             service == s.interest + s.repaid
             Broken(r, d) == Engine!check_covenants(<<r>>, {d}) # {}
  <1>1. SUFFICES ASSUME s.equity > 0
                 PROVE  \A d \in {leverage, cover} :
                            /\ Broken(k, d) => Broken(l, d)
                            /\ k[d.metric_ref] # None
                               => (~Broken(k, d)) = (CASE d.operator = "<" -> k.debt_equity < limit
                                                       [] d.operator = "<=" -> k.debt_equity <= limit
                                                       [] d.operator = ">" -> k.dscr > limit
                                                       [] d.operator = ">=" -> k.dscr >= limit)
    BY DEF Engine!MoreDebtNeverCures
  <1>2. /\ s.debt_current \in Nat /\ s.debt_non_current \in Nat /\ s.equity \in Nat \ {0} /\ s.ebitda \in Int
        /\ s.interest \in Nat /\ s.repaid \in Nat /\ debt \in Nat /\ service \in Nat
    BY <1>1 DEF PeriodFigures
  <1>3. /\ worse.debt_current + worse.debt_non_current = debt + more /\ worse.equity = s.equity
        /\ worse.ebitda = s.ebitda - more /\ worse.interest + worse.repaid = service
    BY <1>2 DEF PeriodFigures
  <1>4. /\ k.debt_equity = IF debt = 0 THEN None ELSE Engine!Percent(debt, s.equity)
        /\ k.dscr = IF service = 0 THEN None ELSE Engine!Percent(s.ebitda, service)
    BY <1>2 DEF Engine!calculate_kpis
  <1>5. /\ l.debt_equity = IF debt + more = 0 THEN None ELSE Engine!Percent(debt + more, s.equity)
        /\ l.dscr = IF service = 0 THEN None ELSE Engine!Percent(s.ebitda - more, service)
    <2> HIDE DEF worse, debt, service
    <2>1. QED
      BY <1>2, <1>3 DEF Engine!calculate_kpis
  <1>6. /\ Engine!Percent(debt, s.equity) \in Int /\ Engine!Percent(debt + more, s.equity) \in Int
        /\ Engine!Percent(debt, s.equity) <= Engine!Percent(debt + more, s.equity)
    <2> HIDE DEF debt
    <2>1. debt \in Int /\ debt + more \in Int /\ debt <= debt + more
      BY <1>2
    <2>2. QED
      BY <1>2, <2>1, RatioOrdered
  <1>7. service # 0 => /\ Engine!Percent(s.ebitda, service) \in Int /\ Engine!Percent(s.ebitda - more, service) \in Int
                       /\ Engine!Percent(s.ebitda - more, service) <= Engine!Percent(s.ebitda, service)
    <2> HIDE DEF service
    <2>1. s.ebitda - more \in Int /\ s.ebitda - more <= s.ebitda
      BY <1>2
    <2>2. QED
      BY <1>2, <2>1, RatioOrdered
  <1> DEFINE a == k.debt_equity
             b == l.debt_equity
             c == k.dscr
             e == l.dscr
  <1>8. /\ a # None => a \in Int /\ b \in Int /\ a <= b
        /\ c # None => c \in Int /\ e \in Int /\ e <= c
    <2> HIDE DEF k, l, debt, service
    <2>1. debt + more = 0 => debt = 0
      BY <1>2
    <2>2. QED
      BY <1>4, <1>5, <1>6, <1>7, <2>1
  <1>9. /\ Broken(k, leverage) <=> a # None /\ Engine!_is_breach(a, operator, limit)
        /\ Broken(l, leverage) <=> b # None /\ Engine!_is_breach(b, operator, limit)
        /\ Broken(k, cover) <=> c # None /\ Engine!_is_breach(c, above, limit)
        /\ Broken(l, cover) <=> e # None /\ Engine!_is_breach(e, above, limit)
    <2>1. leverage = [metric_ref |-> "debt_equity", operator |-> operator, threshold_value |-> limit]
      OBVIOUS
    <2>2. cover = [metric_ref |-> "dscr", operator |-> above, threshold_value |-> limit]
      OBVIOUS
    <2> HIDE DEF k, l, above, leverage, cover
    <2>3. /\ Broken(k, leverage) <=> k["debt_equity"] # None /\ Engine!_is_breach(k["debt_equity"], operator, limit)
          /\ Broken(l, leverage) <=> l["debt_equity"] # None /\ Engine!_is_breach(l["debt_equity"], operator, limit)
      BY <2>1, Checked, Zenon
    <2>4. /\ Broken(k, cover) <=> k["dscr"] # None /\ Engine!_is_breach(k["dscr"], above, limit)
          /\ Broken(l, cover) <=> l["dscr"] # None /\ Engine!_is_breach(l["dscr"], above, limit)
      BY <2>2, Checked, Zenon
    <2>5. QED
      BY <2>3, <2>4
  <1>10. (operator = "<" /\ above = ">") \/ (operator = "<=" /\ above = ">=")
    OBVIOUS
  <1> HIDE DEF k, l, a, b, c, e, Broken, worse, debt, service, above
  <1>11. a # None => /\ b # None
                     /\ Engine!_is_breach(a, operator, limit) => Engine!_is_breach(b, operator, limit)
                     /\ ~Engine!_is_breach(a, operator, limit) <=> IF operator = "<" THEN a < limit ELSE a <= limit
    <2>1. CASE operator = "<"
      BY <1>8, <2>1, BreachIs
    <2>2. CASE operator = "<="
      BY <1>8, <2>2, BreachIs
    <2>3. QED
      BY <2>1, <2>2
  <1>12. c # None => /\ e # None
                     /\ Engine!_is_breach(c, above, limit) => Engine!_is_breach(e, above, limit)
                     /\ ~Engine!_is_breach(c, above, limit) <=> IF operator = "<" THEN c > limit ELSE c >= limit
    <2>1. CASE operator = "<" /\ above = ">"
      BY <1>8, <2>1, BreachIs
    <2>2. CASE operator = "<=" /\ above = ">="
      BY <1>8, <2>2, BreachIs
    <2>3. QED
      BY <1>10, <2>1, <2>2
  <1>13. QED
    <2>1. /\ leverage.metric_ref = "debt_equity" /\ leverage.operator = operator
          /\ cover.metric_ref = "dscr" /\ cover.operator = above
          /\ k["debt_equity"] = a /\ k["dscr"] = c /\ k.debt_equity = a /\ k.dscr = c
      BY DEF a, c
    <2> HIDE DEF leverage, cover, above
    <2>2. QED
      BY <1>9, <1>10, <1>11, <1>12, <2>1
-----------------------------------------------------------------------------
(* The regime of the economy.                                              *)

LEMMA CardinalityIs == \A S : Invest!Cardinality(S) = Cardinality(S)
  BY DEF Invest!Cardinality, Cardinality

Signal == {"expansion", "neutral", "contraction", "missing"}

(* The signals of a kind when the i-th is replaced by one of growth.       *)
OneReplaced(s, t, i, kind) ==
    /\ Invest!CountOf(s, kind) \in Nat /\ Invest!CountOf(t, kind) \in Nat
    /\ Invest!CountOf(t, kind) = IF kind = "expansion" THEN Invest!CountOf(s, kind) + 1
                                 ELSE IF kind = s[i] THEN Invest!CountOf(s, kind) - 1
                                 ELSE Invest!CountOf(s, kind)

(* Among the signals of a kind, one more or one less.                      *)
LEMMA OneSignal ==
    ASSUME NEW I, IsFiniteSet(I), NEW s \in [I -> Signal], NEW i \in I, s[i] # "expansion",
           NEW t, t = [s EXCEPT ![i] = "expansion"], NEW kind \in Signal
    PROVE  OneReplaced(s, t, i, kind)
  <1> DEFINE S == {j \in I : s[j] = kind}
             T == {j \in I : t[j] = kind}
  <1>1. Invest!CountOf(s, kind) = Cardinality(S) /\ Invest!CountOf(t, kind) = Cardinality(T)
    <2>1. DOMAIN s = I /\ DOMAIN t = I
      OBVIOUS
    <2>2. QED
      BY <2>1, CardinalityIs DEF Invest!CountOf
  <1>2. IsFiniteSet(S) /\ IsFiniteSet(T)
    <2>1. S \subseteq I /\ T \subseteq I
      OBVIOUS
    <2>2. QED
      BY <2>1, FS_Subset
  <1>3. Cardinality(S) \in Nat /\ Cardinality(T) \in Nat
    BY <1>2, FS_CardinalityType
  <1>4. CASE kind = "expansion"
    <2>1. T = S \cup {i} /\ i \notin S
      BY <1>4
    <2> HIDE DEF S, T
    <2>2. Cardinality(T) = Cardinality(S) + 1
      BY <1>2, <2>1, FS_AddElement
    <2>3. QED
      BY <1>1, <1>3, <1>4, <2>2 DEF OneReplaced
  <1>5. CASE kind # "expansion" /\ kind = s[i]
    <2>1. T = S \ {i} /\ i \in S
      BY <1>5
    <2> HIDE DEF S, T
    <2>2. Cardinality(T) = Cardinality(S) - 1
      BY <1>2, <2>1, FS_RemoveElement
    <2>3. QED
      BY <1>1, <1>3, <1>5, <2>2 DEF OneReplaced
  <1>6. CASE kind # "expansion" /\ kind # s[i]
    <2>1. T = S
      BY <1>6
    <2>2. QED
      BY <1>1, <1>3, <1>6, <2>1 DEF OneReplaced
  <1>7. QED
    BY <1>4, <1>5, <1>6

RegimeOf(up, down, available) ==
    IF up > down /\ up * 2 > available THEN "expansion"
    ELSE IF down > up /\ down * 2 > available THEN "contraction"
    ELSE "transition"

LEMMA RegimeIs ==
    ASSUME NEW s, NEW N \in Nat, N = Cardinality(DOMAIN s), NEW up \in Nat, up = Invest!CountOf(s, "expansion"),
           NEW down \in Nat, down = Invest!CountOf(s, "contraction"),
           NEW missing \in Nat, missing = Invest!CountOf(s, "missing")
    PROVE  Invest!classify_regime(s) = RegimeOf(up, down, N - missing)
  <1>1. Invest!classify_regime(s) =
            CASE up > down /\ up * 2 > N - missing -> "expansion"
              [] down > up /\ down * 2 > N - missing -> "contraction"
              [] OTHER -> "transition"
    BY CardinalityIs, Zenon DEF Invest!classify_regime
  <1>2. QED
    BY <1>1 DEF RegimeOf

(* One more indicator that points to growth never moves the regime, and    *)
(* with it a sector that follows the cycle, the other way: whatever the    *)
(* indicators and however many (classify_regime,                           *)
(* _sector_regime_alignment).                                              *)
THEOREM GrowthNeverTurnsTheRegime ==
    ASSUME NEW I, IsFiniteSet(I), NEW s \in [I -> Signal], NEW i \in I,
           None \notin {"technology", "expansion", "transition", "contraction"}
    PROVE  Invest!RegimeFollowsTheSignals(s, i)
  <1> DEFINE t == [s EXCEPT ![i] = "expansion"]
             Fit(regime) == Invest!_sector_regime_alignment("technology", regime)
  <1>1. /\ Fit("expansion") = 80 /\ Fit("transition") = 50 /\ Fit("contraction") = 35
    <2>1. ASSUME NEW regime \in {"expansion", "transition", "contraction"}
          PROVE  Fit(regime) = [expansion |-> 80, transition |-> 50, contraction |-> 35][regime]
      BY DEF Invest!_sector_regime_alignment
    <2>2. QED
      BY <2>1
  <1>2. Fit(Invest!classify_regime(t)) >= Fit(Invest!classify_regime(s))
    <2>1. CASE s[i] = "expansion"
      <3>1. t = s
        BY <2>1
      <3>2. Invest!classify_regime(s) \in {"expansion", "transition", "contraction"}
        BY DEF Invest!classify_regime
      <3> HIDE DEF t, Fit
      <3>3. Fit(Invest!classify_regime(s)) \in {80, 50, 35}
        BY <1>1, <3>2
      <3>4. QED
        BY <3>1, <3>3
    <2>2. CASE s[i] # "expansion"
      <3> DEFINE N == Cardinality(I)
                 up == Invest!CountOf(s, "expansion")
                 down == Invest!CountOf(s, "contraction")
                 missing == Invest!CountOf(s, "missing")
                 ups == Invest!CountOf(t, "expansion")
                 downs == Invest!CountOf(t, "contraction")
                 missings == Invest!CountOf(t, "missing")
      <3>1. /\ up \in Nat /\ ups = up + 1
            /\ down \in Nat /\ downs \in Nat /\ downs \in {down, down - 1}
            /\ missing \in Nat /\ missings \in Nat /\ missings \in {missing, missing - 1}
        <4>1. "expansion" \in Signal /\ "contraction" \in Signal /\ "missing" \in Signal
          BY DEF Signal
        <4>2. t = [s EXCEPT ![i] = "expansion"]
          OBVIOUS
        <4> HIDE DEF t
        <4>3. \A kind \in Signal : OneReplaced(s, t, i, kind)
          BY <2>2, <4>2, OneSignal, Zenon
        <4>4. up \in Nat /\ ups = up + 1
          BY <2>2, <4>1, <4>3 DEF OneReplaced
        <4>5. down \in Nat /\ downs \in Nat /\ downs = IF "contraction" = s[i] THEN down - 1 ELSE down
          BY <2>2, <4>1, <4>3 DEF OneReplaced
        <4>6. missing \in Nat /\ missings \in Nat /\ missings = IF "missing" = s[i] THEN missing - 1 ELSE missing
          BY <2>2, <4>1, <4>3 DEF OneReplaced
        <4> HIDE DEF up, down, missing, ups, downs, missings, t
        <4>7. QED
          BY <4>4, <4>5, <4>6
      <3>2. N \in Nat
        BY FS_CardinalityType
      <3>3. DOMAIN s = I /\ DOMAIN t = I
        OBVIOUS
      <3>4. /\ Invest!classify_regime(s) = RegimeOf(up, down, N - missing)
            /\ Invest!classify_regime(t) = RegimeOf(ups, downs, N - missings)
        <4> HIDE DEF t
        <4>1. QED
          BY <3>1, <3>2, <3>3, RegimeIs
      <3> DEFINE x == RegimeOf(up, down, N - missing)
                 y == RegimeOf(ups, downs, N - missings)
      <3>5. /\ x \in {"expansion", "transition", "contraction"} /\ y \in {"expansion", "transition", "contraction"}
            /\ x = "expansion" => y = "expansion"
            /\ y = "contraction" => x = "contraction"
        <4> HIDE DEF up, down, missing, ups, downs, missings, N
        <4>1. QED
          BY <3>1, <3>2 DEF RegimeOf
      <3> HIDE DEF x, y, Fit, up, down, missing, ups, downs, missings, N, t
      <3>6. Fit(y) >= Fit(x)
        BY <1>1, <3>5
      <3>7. QED
        BY <3>4, <3>6 DEF x, y
    <2>3. QED
      BY <2>1, <2>2
  <1>3. QED
    BY <1>2 DEF Invest!RegimeFollowsTheSignals
-----------------------------------------------------------------------------
(* Heat maps.                                                              *)

(* A range of a parameter: its ends, and two values or more.               *)
ParameterRange == Int \X Int \X {n \in Nat : n >= 2}

LEMMA StepsAre ==
    ASSUME NEW range \in ParameterRange, NEW v, v = Engine!Steps(range[1], range[2], range[3])
    PROVE  /\ range[3] \in Nat \ {0} /\ v = [i \in 1..range[3] |-> v[i]]
           /\ v[1] = range[1]
  <1> DEFINE low == range[1]
             high == range[2]
             n == range[3]
  <1>1. low \in Int /\ high \in Int /\ n \in Nat /\ n >= 2
    BY DEF ParameterRange
  <1>2. v = [i \in 1..n |-> low + ((i - 1) * (high - low)) \div (n - 1)]
    BY DEF Engine!Steps
  <1> HIDE DEF low, high, n
  <1>3. v[1] = low + ((1 - 1) * (high - low)) \div (n - 1)
    BY <1>1, <1>2
  <1>4. (1 - 1) * (high - low) = 0 /\ n - 1 \in Nat \ {0}
    BY <1>1
  <1>5. 0 \div (n - 1) = 0
    <2> DEFINE b == n - 1
    <2>1. b \in Nat \ {0}
      BY <1>4
    <2> HIDE DEF b
    <2>2. (b * 0 + 0) \div b = 0 /\ b * 0 + 0 = 0
      BY <2>1, DivisionWithin
    <2>3. 0 \div b = 0
      BY <2>2
    <2>4. QED
      BY <2>3 DEF b
  <1>6. v[1] = low
    BY <1>1, <1>3, <1>4, <1>5
  <1>7. v = [i \in 1..n |-> v[i]]
    BY <1>2
  <1>8. QED
    BY <1>1, <1>6, <1>7 DEF low, n

(* The cells of a pool's flat list, row after row, are those of the map.   *)
LEMMA PoolIsTheMap ==
    ASSUME NEW config, NEW a, NEW b, NEW n \in Nat, NEW m \in Nat \ {0},
           NEW v, v = [i \in 1..n |-> v[i]], NEW w, w = [j \in 1..m |-> w[j]]
    PROVE  Engine!InPool(config, a, v, b, w) = Engine!_run_heatmap_sequential(config, a, v, b, w)
  <1> DEFINE flat == [k \in 1..(n * m) |->
                         Engine!Cell(config, a, v[((k - 1) \div m) + 1], b, w[((k - 1) % m) + 1])]
             At(i, j) == Engine!Cell(config, a, v[i], b, w[j])
  <1>1. Len(v) = n /\ Len(w) = m /\ DOMAIN v = 1..n /\ DOMAIN w = 1..m
    OBVIOUS
  <1>2. Engine!InPool(config, a, v, b, w) = [i \in 1..n |-> [j \in 1..m |-> flat[((i - 1) * m) + j]]]
    BY <1>1 DEF Engine!InPool, Engine!CellIndex
  <1>3. ASSUME NEW i \in 1..n, NEW j \in 1..m PROVE flat[((i - 1) * m) + j] = At(i, j)
    <2> DEFINE q == i - 1
               r == j - 1
               k == ((i - 1) * m) + j
    <2>1. q \in 0..(n - 1) /\ r \in 0..(m - 1) /\ q \in Int
      OBVIOUS
    <2>2. m * q \in Int /\ k - 1 = (m * q) + r /\ k = (m * q) + r + 1 /\ k \in Int
      <3> DEFINE x == m * q
      <3>1. x \in Int /\ q * m = x /\ k = (q * m) + j /\ j = r + 1 /\ r \in Int
        OBVIOUS
      <3> HIDE DEF x, k, q, r
      <3>2. k - 1 = x + r /\ k = x + r + 1 /\ k \in Int
        BY <3>1
      <3>3. QED
        BY <3>1, <3>2 DEF x
    <2>3. ((m * q) + r) \div m = q /\ ((m * q) + r) % m = r
      BY <2>1, DivisionWithin
    <2>4. 0 <= m * q /\ m * q <= m * (n - 1) /\ m * (n - 1) = (n * m) - m /\ n * m \in Int
      <3>1. m * 0 <= m * q /\ m * q <= m * (n - 1) /\ m * 0 = 0
        BY <2>1, ProductsOrdered
      <3>2. m * (n - 1) = (n * m) - m /\ n * m \in Int
        OBVIOUS
      <3>3. QED
        BY <3>1, <3>2
    <2>5. k \in 1..(n * m)
      <3> DEFINE x == m * q
                 y == n * m
      <3>1. x \in Int /\ y \in Int /\ k = x + r + 1 /\ 0 <= x /\ x <= y - m /\ k \in Int
        BY <2>2, <2>4
      <3> HIDE DEF x, y, k, q, r
      <3>2. k \in 1..y
        BY <2>1, <3>1
      <3>3. QED
        BY <3>2 DEF y
    <2>6. flat[k] = Engine!Cell(config, a, v[((k - 1) \div m) + 1], b, w[((k - 1) % m) + 1])
      BY <2>5
    <2>7. ((k - 1) \div m) + 1 = i /\ ((k - 1) % m) + 1 = j
      <3> HIDE DEF k
      <3>1. ((k - 1) \div m) = q /\ ((k - 1) % m) = r
        BY <2>2, <2>3
      <3>2. QED
        BY <3>1
    <2> HIDE DEF flat
    <2>8. QED
      BY <2>6, <2>7
  <1> HIDE DEF flat
  <1>4. [i \in 1..n |-> [j \in 1..m |-> flat[((i - 1) * m) + j]]] = [i \in 1..n |-> [j \in 1..m |-> At(i, j)]]
    BY <1>3
  <1>5. Engine!_run_heatmap_sequential(config, a, v, b, w) = [i \in 1..n |-> [j \in 1..m |-> At(i, j)]]
    BY <1>1 DEF Engine!_run_heatmap_sequential
  <1>6. QED
    BY <1>2, <1>4, <1>5

(* Whatever the configuration, the two parameters and their ranges: the    *)
(* heat map's row i and column j show the metric at the i-th value of the  *)
(* first parameter and the j-th of the second, in a pool, without one or   *)
(* after the pool broke; and a sweep is the row that varies the same       *)
(* parameter only (run_heatmap, run_sensitivity).                          *)
THEOREM MatricesAreTheirCells ==
    ASSUME NEW Path, NEW V, NEW config \in [Path -> V], NEW a, NEW b, NEW breaks \in BOOLEAN,
           NEW range_a \in ParameterRange, NEW range_b \in ParameterRange
    PROVE  Engine!MatrixIsItsCells(config, a, range_a, b, range_b, breaks)
  <1> DEFINE v == Engine!Steps(range_a[1], range_a[2], range_a[3])
             w == Engine!Steps(range_b[1], range_b[2], range_b[3])
             matrix == Engine!run_heatmap(config, a, range_a, b, range_b, breaks)
             sweep == Engine!run_sensitivity(config, b, range_b[1], range_b[2], range_b[3])
             plain == Engine!_run_heatmap_sequential(config, a, v, b, w)
  <1>1. SUFFICES ASSUME matrix # None
                 PROVE  matrix = plain /\ (range_a[1] = config[a] => matrix[1] = sweep.metric_values)
    BY DEF Engine!MatrixIsItsCells
  <1>2. /\ range_a[3] \in Nat \ {0} /\ v = [i \in 1..range_a[3] |-> v[i]] /\ v[1] = range_a[1]
        /\ range_b[3] \in Nat \ {0} /\ w = [j \in 1..range_b[3] |-> w[j]]
    BY StepsAre
  <1>3. Engine!Settable(config, a) /\ Engine!Settable(config, b)
    BY <1>1 DEF Engine!run_heatmap
  <1>4. matrix = plain \/ matrix = Engine!InPool(config, a, v, b, w)
    BY <1>3 DEF Engine!run_heatmap
  <1> HIDE DEF v, w, matrix, plain, sweep
  <1>5. Engine!InPool(config, a, v, b, w) = plain
    BY <1>2, PoolIsTheMap DEF plain
  <1>6. matrix = plain
    BY <1>4, <1>5
  <1>7. ASSUME range_a[1] = config[a] PROVE plain[1] = sweep.metric_values
    <2>1. sweep.metric_values = [j \in 1..range_b[3] |-> Engine!_extract_metric(Engine!_set_nested(config, b, w[j]))]
      BY <1>3 DEF sweep, w, Engine!run_sensitivity
    <2>2. Engine!_set_nested(config, a, v[1]) = config
      <3>1. a \in DOMAIN config /\ v[1] = config[a]
        BY <1>2, <1>3, <1>7 DEF Engine!Settable
      <3>2. [config EXCEPT ![a] = config[a]] = config
        BY <3>1
      <3>3. QED
        BY <3>1, <3>2 DEF Engine!_set_nested
    <2>3. DOMAIN v = 1..range_a[3] /\ DOMAIN w = 1..range_b[3] /\ 1 \in 1..range_a[3]
      BY <1>2
    <2>4. plain[1] = [j \in 1..range_b[3] |-> Engine!Cell(config, a, v[1], b, w[j])]
      BY <2>3 DEF plain, Engine!_run_heatmap_sequential
    <2>5. \A j : Engine!Cell(config, a, v[1], b, w[j]) = Engine!_extract_metric(Engine!_set_nested(config, b, w[j]))
      BY <2>2 DEF Engine!Cell
    <2>6. QED
      BY <2>1, <2>4, <2>5
  <1>8. QED
    BY <1>6, <1>7
-----------------------------------------------------------------------------
(* Valuation.                                                              *)

LEMMA EngineSum == \A w, S : Engine!SumFunctionOnSet(w, S) = SumFunctionOnSet(w, S)
  BY DEF Engine!SumFunctionOnSet, Engine!FoldFunctionOnSet, Engine!MapThenFoldSet,
         SumFunctionOnSet, FoldFunctionOnSet, MapThenFoldSet

(* The months whose cash flows are discounted, those the terminal value is *)
(* made of, and a valuation by perpetual growth of both.                   *)
Explicit(s, discount, n) == [i \in 1..n |-> s[i] * discount[i]]
Trailing(s, n, months) == [i \in 1..months |-> s[(n - months) + i]]
Perpetual(annual, g, wacc) == (annual * (100 + g)) \div (wacc - g)
ByGrowth(s, cfg, discount, n, months) ==
    SumFunctionOnSet(Explicit(s, discount, n), 1..n)
        + (Perpetual((MonthsPerYear * SumFunctionOnSet(Trailing(s, n, months), 1..months)) \div months,
                     cfg.growth, cfg.wacc) * discount[n])

LEMMA ValuationIs ==
    ASSUME NEW s \in Seq(Int), s # <<>>, NEW n \in 1..Len(s), MonthsPerYear \in Nat \ {0},
           NEW ebitda, NEW discount, NEW cfg, cfg.growth # None, cfg.wacc > cfg.growth, ~(cfg.wacc <= 0),
           n = Engine!Projected(s, cfg.years), NEW months, months = IF n < MonthsPerYear THEN n ELSE MonthsPerYear
    PROVE  Engine!dcf_valuation(s, ebitda, cfg, discount) = ByGrowth(s, cfg, discount, n, months)
  <1> DEFINE fcf == SubSeq(s, 1, n)
             g == cfg.growth
  <1>1. months \in 1..n /\ n \in Nat
    OBVIOUS
  <1>2. Len(fcf) = n /\ \A i \in 1..n : fcf[i] = s[i]
    <2>1. 1 \in 1..(Len(s) + 1) /\ n \in 0..Len(s) /\ Len(s) \in Nat
      BY LenProperties
    <2>2. Len(SubSeq(s, 1, n)) = (n - 1) + 1 /\ \A i \in 1..((n - 1) + 1) : SubSeq(s, 1, n)[i] = s[(1 + i) - 1]
      BY <2>1
    <2> HIDE DEF fcf
    <2>3. \A i \in 1..n : i \in 1..((n - 1) + 1) /\ (1 + i) - 1 = i
      BY <1>1
    <2>4. QED
      BY <1>1, <2>2, <2>3 DEF fcf
  <1> HIDE DEF fcf
  <1>3. \A i \in 1..months : fcf[(n - months) + i] = s[(n - months) + i]
    <2> TAKE i \in 1..months
    <2>1. (n - months) + i \in 1..n
      BY <1>1
    <2>2. QED
      BY <1>2, <2>1
  <1>4. Engine!Annual(fcf) = (MonthsPerYear * SumFunctionOnSet(Trailing(s, n, months), 1..months)) \div months
    <2>1. [i \in 1..months |-> fcf[(n - months) + i]] = Trailing(s, n, months)
      BY <1>3 DEF Trailing
    <2>2. Engine!Annual(fcf) = (MonthsPerYear
              * Engine!SumFunctionOnSet([i \in 1..months |-> fcf[(n - months) + i]], 1..months)) \div months
      BY <1>2 DEF Engine!Annual, Engine!SumOver
    <2>3. QED
      BY <2>1, <2>2, EngineSum
  <1>5. Engine!TerminalValue(fcf, ebitda, cfg) = Perpetual(Engine!Annual(fcf), cfg.growth, cfg.wacc)
    BY DEF Engine!TerminalValue, Perpetual
  <1>6. Engine!dcf_valuation(s, ebitda, cfg, discount)
          = Engine!SumOver(LAMBDA i : s[i] * discount[i], n) + (Engine!TerminalValue(fcf, ebitda, cfg) * discount[n])
    BY DEF Engine!dcf_valuation, fcf
  <1>7. Engine!SumOver(LAMBDA i : s[i] * discount[i], n) = SumFunctionOnSet(Explicit(s, discount, n), 1..n)
    BY EngineSum DEF Engine!SumOver, Explicit
  <1>8. QED
    BY <1>4, <1>5, <1>6, <1>7 DEF ByGrowth

LEMMA GrowthOrdered ==
    ASSUME NEW s \in Seq(Int), NEW u \in Seq(Int), Len(u) = Len(s), \A i \in 1..Len(s) : s[i] <= u[i],
           NEW n \in 1..Len(s), NEW months \in 1..n, MonthsPerYear \in Nat \ {0},
           NEW discount, \A i \in 1..n : discount[i] \in Nat,
           NEW cfg, cfg.growth \in Int, cfg.wacc \in Int, cfg.wacc > cfg.growth, 100 + cfg.growth >= 0
    PROVE  ByGrowth(s, cfg, discount, n, months) <= ByGrowth(u, cfg, discount, n, months)
  <1> DEFINE a == Explicit(s, discount, n)
             b == Explicit(u, discount, n)
             c == Trailing(s, n, months)
             d == Trailing(u, n, months)
             A == SumFunctionOnSet(a, 1..n)
             B == SumFunctionOnSet(b, 1..n)
             C == SumFunctionOnSet(c, 1..months)
             E == SumFunctionOnSet(d, 1..months)
             M == MonthsPerYear
             k == 100 + cfg.growth
             w == cfg.wacc - cfg.growth
             v == discount[n]
  <1>1. n \in Nat /\ months \in Nat \ {0} /\ IsFiniteSet(1..n) /\ IsFiniteSet(1..months)
    <2>1. Len(s) \in Nat
      BY LenProperties
    <2>2. n \in Nat /\ months \in Nat \ {0}
      BY <2>1
    <2>3. QED
      BY <2>2, FS_Interval
  <1>2. \A i \in 1..n : s[i] \in Int /\ u[i] \in Int /\ s[i] <= u[i]
    <2> TAKE i \in 1..n
    <2>1. i \in 1..Len(s) /\ i \in 1..Len(u)
      BY LenProperties
    <2>2. QED
      BY <2>1, ElementOfSeq
  <1>3. Numbers(a, 1..n) /\ Numbers(b, 1..n) /\ \A i \in 1..n : a[i] <= b[i]
    <2>1. ASSUME NEW i \in 1..n PROVE a[i] \in Int /\ b[i] \in Int /\ a[i] <= b[i]
      <3>1. a[i] = s[i] * discount[i] /\ b[i] = u[i] * discount[i]
        BY DEF Explicit
      <3>2. discount[i] * s[i] <= discount[i] * u[i] /\ discount[i] * s[i] \in Int /\ discount[i] * u[i] \in Int
        BY <1>2, ProductsOrdered
      <3>3. s[i] * discount[i] = discount[i] * s[i] /\ u[i] * discount[i] = discount[i] * u[i]
        <4> DEFINE x == s[i]
                   y == u[i]
                   z == discount[i]
        <4>1. x \in Int /\ y \in Int /\ z \in Int
          BY <1>2
        <4> HIDE DEF x, y, z
        <4>2. x * z = z * x /\ y * z = z * y
          BY <4>1
        <4>3. QED
          BY <4>2 DEF x, y, z
      <3>4. QED
        BY <3>1, <3>2, <3>3
    <2> HIDE DEF a, b
    <2>2. QED
      BY <2>1 DEF Numbers
  <1>4. Numbers(c, 1..months) /\ Numbers(d, 1..months) /\ \A i \in 1..months : c[i] <= d[i]
    <2>1. ASSUME NEW i \in 1..months PROVE c[i] \in Int /\ d[i] \in Int /\ c[i] <= d[i]
      <3> DEFINE j == (n - months) + i
      <3>1. j \in 1..n
        BY <1>1
      <3>2. c[i] = s[j] /\ d[i] = u[j]
        BY DEF Trailing
      <3> HIDE DEF j, c, d
      <3>3. QED
        BY <1>2, <3>1, <3>2
    <2> HIDE DEF c, d
    <2>2. QED
      BY <2>1 DEF Numbers
  <1> HIDE DEF a, b, c, d
  <1>5. A \in Int /\ B \in Int /\ A <= B
    BY <1>1, <1>3, SumTyped, SumAtMost
  <1>6. C \in Int /\ E \in Int /\ C <= E
    BY <1>1, <1>4, SumTyped, SumAtMost
  <1>7. M \in Nat \ {0} /\ k \in Nat /\ w \in Nat \ {0} /\ v \in Nat
    <2>1. v \in Nat
      <3>1. n \in 1..n
        BY <1>1
      <3>2. QED
        BY <3>1
    <2> DEFINE x == cfg.growth
               y == cfg.wacc
    <2>2. x \in Int /\ y \in Int /\ y > x /\ 100 + x >= 0
      OBVIOUS
    <2> HIDE DEF x, y
    <2>3. 100 + x \in Nat /\ y - x \in Nat \ {0}
      BY <2>2
    <2>4. QED
      BY <2>1, <2>3 DEF x, y
  <1>8. ByGrowth(s, cfg, discount, n, months) = A + ((((((M * C) \div months) * k) \div w)) * v)
    BY DEF ByGrowth, Perpetual, a, c
  <1>9. ByGrowth(u, cfg, discount, n, months) = B + ((((((M * E) \div months) * k) \div w)) * v)
    BY DEF ByGrowth, Perpetual, b, d
  <1> HIDE DEF A, B, C, E, M, k, w, v
  <1> DEFINE p == (M * C) \div months
             q == (M * E) \div months
             P == (p * k) \div w
             Q == (q * k) \div w
  <1>10. p \in Int /\ q \in Int /\ p <= q
    BY <1>1, <1>6, <1>7, GrowsEvenly
  <1> HIDE DEF p, q
  <1>11. P \in Int /\ Q \in Int /\ P <= Q
    <2>1. p * k = k * p /\ q * k = k * q
      BY <1>7, <1>10
    <2>2. (k * p) \div w \in Int /\ (k * q) \div w \in Int /\ (k * p) \div w <= (k * q) \div w
      BY <1>7, <1>10, GrowsEvenly
    <2>3. QED
      BY <2>1, <2>2
  <1> HIDE DEF P, Q
  <1>12. P * v <= Q * v /\ P * v \in Int /\ Q * v \in Int
    <2>1. v * P <= v * Q /\ v * P \in Int /\ v * Q \in Int
      BY <1>7, <1>11, ProductsOrdered
    <2>2. v * P = P * v /\ v * Q = Q * v
      BY <1>7, <1>11
    <2>3. QED
      BY <2>1, <2>2
  <1>13. A + (P * v) <= B + (Q * v)
    <2> DEFINE y == P * v
               z == Q * v
    <2>1. y \in Int /\ z \in Int /\ y <= z
      BY <1>12
    <2> HIDE DEF y, z
    <2>2. A + y <= B + z
      BY <1>5, <2>1
    <2>3. QED
      BY <2>2 DEF y, z
  <1>14. QED
    BY <1>8, <1>9, <1>13 DEF p, q, P, Q

(* A valuation by perpetual growth, of whatever cash flows, horizon and    *)
(* discount factors: what happens after the projected years has no part in *)
(* it, and more cash in a projected month never lowers it (dcf_valuation). *)
THEOREM ValuationsLookNoFurther ==
    ASSUME MonthsPerYear \in Nat \ {0}, NEW series \in Seq(Int), NEW t \in DOMAIN series,
           NEW ebitda, NEW discount, \A i \in DOMAIN series : discount[i] \in Nat,
           NEW cfg, cfg.growth \in Int \cup {None}, cfg.growth # None => 100 + cfg.growth >= 0,
           cfg.wacc \in Int, cfg.years \in Nat
    PROVE  Engine!OnlyProjectedMonthsCount(series, ebitda, cfg, discount, t)
  <1> DEFINE more == [series EXCEPT ![t] = @ + 1]
             before == Engine!dcf_valuation(series, ebitda, cfg, discount)
             after == Engine!dcf_valuation(more, ebitda, cfg, discount)
             n == Engine!Projected(series, cfg.years)
             months == IF n < MonthsPerYear THEN n ELSE MonthsPerYear
  <1>1. SUFFICES ASSUME cfg.growth # None, cfg.wacc > cfg.growth
                 PROVE  IF cfg.years > 0 /\ t > cfg.years * MonthsPerYear THEN after = before ELSE after >= before
    BY DEF Engine!OnlyProjectedMonthsCount
  <1>2. /\ Len(series) \in Nat /\ t \in 1..Len(series) /\ DOMAIN series = 1..Len(series) /\ series # <<>>
        /\ \A i \in 1..Len(series) : series[i] \in Int
    BY LenProperties, ElementOfSeq
  <1>3. /\ more \in Seq(Int) /\ Len(more) = Len(series) /\ more # <<>>
        /\ \A i \in 1..Len(series) : more[i] = IF i = t THEN series[i] + 1 ELSE series[i]
    <2> DEFINE e == series[t] + 1
    <2>1. e \in Int /\ more = [series EXCEPT ![t] = e]
      BY <1>2
    <2> HIDE DEF more, e
    <2>2. /\ more \in Seq(Int) /\ Len(more) = Len(series)
          /\ \A i \in 1..Len(series) : more[i] = IF i = t THEN e ELSE series[i]
      BY <1>2, <2>1, ExceptSeq
    <2>3. Len(more) # 0 /\ Len(<<>>) = 0
      BY <1>2, <2>2
    <2>4. QED
      BY <2>2, <2>3 DEF e
  <1> HIDE DEF more
  <1>4. n \in 1..Len(series) /\ (cfg.years > 0 /\ t > cfg.years * MonthsPerYear => n < t)
    <2> DEFINE years == cfg.years * MonthsPerYear
    <2>1. years \in Nat /\ (cfg.years # 0 => years # 0)
      BY DEF years
    <2>2. n = IF cfg.years = 0 \/ Len(series) < years THEN Len(series) ELSE years
      BY DEF Engine!Projected
    <2> HIDE DEF years, n
    <2>3. QED
      BY <1>2, <2>1, <2>2 DEF years
  <1>5. Engine!Projected(more, cfg.years) = n
    BY <1>3 DEF Engine!Projected
  <1> HIDE DEF n
  <1>6. CASE cfg.wacc <= 0
    <2>1. before = 0 /\ after = 0
      BY <1>6 DEF Engine!dcf_valuation
    <2>2. QED
      BY <2>1
  <1>7. CASE ~(cfg.wacc <= 0)
    <2>1. months \in 1..n /\ n \in Nat
      BY <1>4
    <2>2. before = ByGrowth(series, cfg, discount, n, months)
      <3>1. Engine!Projected(series, cfg.years) = n
        BY DEF n
      <3>2. months = IF n < MonthsPerYear THEN n ELSE MonthsPerYear
        OBVIOUS
      <3> HIDE DEF months
      <3>3. QED
        BY <1>1, <1>2, <1>4, <1>7, <3>1, <3>2, ValuationIs
    <2>3. after = ByGrowth(more, cfg, discount, n, months)
      <3>1. n \in 1..Len(more)
        BY <1>3, <1>4
      <3>2. QED
        BY <1>1, <1>3, <1>5, <1>7, <3>1, ValuationIs
    <2>4. ASSUME n < t PROVE after = before
      <3>1. Explicit(more, discount, n) = Explicit(series, discount, n)
        <4>1. ASSUME NEW i \in 1..n PROVE more[i] = series[i]
          <5>1. i \in 1..Len(series) /\ i # t
            BY <1>2, <1>4, <2>4
          <5>2. QED
            BY <1>3, <5>1
        <4>2. QED
          BY <4>1 DEF Explicit
      <3>2. Trailing(more, n, months) = Trailing(series, n, months)
        <4>1. ASSUME NEW i \in 1..months PROVE more[(n - months) + i] = series[(n - months) + i]
          <5> DEFINE j == (n - months) + i
          <5>1. j \in 1..n
            BY <2>1
          <5> HIDE DEF j
          <5>2. j \in 1..Len(series) /\ j # t
            BY <1>2, <1>4, <2>4, <5>1
          <5>3. more[j] = series[j]
            BY <1>3, <5>2
          <5>4. QED
            BY <5>3 DEF j
        <4> HIDE DEF months
        <4>2. QED
          BY <4>1 DEF Trailing
      <3>3. after = before
        BY <2>2, <2>3, <3>1, <3>2 DEF ByGrowth
      <3>4. QED
        BY <3>3
    <2>5. after >= before
      <3>1. ASSUME NEW i \in 1..Len(series) PROVE series[i] <= more[i]
        <4> DEFINE x == series[i]
        <4>1. x \in Int /\ more[i] = IF i = t THEN x + 1 ELSE x
          BY <1>2, <1>3
        <4> HIDE DEF x
        <4>2. x <= more[i]
          BY <4>1
        <4>3. QED
          BY <4>2 DEF x
      <3>2. /\ \A i \in 1..n : discount[i] \in Nat
            /\ cfg.growth \in Int
        <4>1. ASSUME NEW i \in 1..n PROVE discount[i] \in Nat
          <5>1. i \in DOMAIN series
            BY <1>2, <1>4
          <5>2. QED
            BY <5>1
        <4>2. cfg.growth \in Int /\ cfg.growth # None
          BY <1>1
        <4>3. QED
          BY <4>1, <4>2
      <3> HIDE DEF months, before, after
      <3>3. before <= after
        BY <1>1, <1>3, <1>4, <2>1, <2>2, <2>3, <3>1, <3>2, GrowthOrdered
      <3>4. QED
        BY <3>3
    <2>6. QED
      BY <1>4, <2>4, <2>5, Zenon
  <1>8. QED
    BY <1>6, <1>7
-----------------------------------------------------------------------------
(* The numbers of the market's states.                                     *)

LEMMA ChainSum == \A w, S : Chain!SumFunctionOnSet(w, S) = SumFunctionOnSet(w, S)
  BY DEF Chain!SumFunctionOnSet, Chain!FoldFunctionOnSet, Chain!MapThenFoldSet,
         SumFunctionOnSet, FoldFunctionOnSet, MapThenFoldSet

LEMMA PowerIs ==
    ASSUME NEW b \in Nat \ {0}, NEW n \in Nat
    PROVE  /\ Chain!Power(b, n) \in Nat \ {0} /\ Chain!Power(b, 0) = 1
           /\ Chain!Power(b, n + 1) = b * Chain!Power(b, n)
  <1> DEFINE Powers(m) == CHOOSE f : f = [i \in 0..m |-> IF i = 0 THEN 1 ELSE b * f[i - 1]]
  <1>1. \A m : Chain!Power(b, m) = Powers(m)[m]
    BY DEF Chain!Power
  <1>2. ASSUME NEW m \in Nat
        PROVE  /\ Powers(m) \in [0..m -> Nat \ {0}] /\ Powers(m)[0] = 1
               /\ \A i \in 1..m : Powers(m)[i] = b * Powers(m)[i - 1]
    <2> DEFINE g == [p \in (Nat \ {0}) \X (1..m) |-> b * p[1]]
    <2>1. \A x \in Nat \ {0}, i \in 1..m : g[<<x, i>>] = b * x /\ b * x \in Nat \ {0}
      <3>1. \A x, y \in Nat \ {0} : x * y \in Nat \ {0}
        OBVIOUS
      <3>2. QED
        BY <3>1
    <2> HIDE DEF g
    <2>2. PICK h : h \in [0..m -> Nat \ {0}] /\ StepByStep(h, 1, g, m)
      <3>1. 1 \in Nat \ {0} /\ KeepsIn(Nat \ {0}, g, m)
        BY <2>1 DEF KeepsIn
      <3>2. QED
        BY <3>1, RecursionExists, Zenon
    <2>3. h = [i \in 0..m |-> IF i = 0 THEN 1 ELSE b * h[i - 1]]
      <3>1. \A i \in 0..m : h[i] = IF i = 0 THEN 1 ELSE b * h[i - 1]
        <4> TAKE i \in 0..m
        <4>1. h[0] = 1 /\ (i # 0 => h[i] = g[<<h[i - 1], i>>])
          BY <2>2 DEF StepByStep
        <4>2. i # 0 => i \in 1..m /\ h[i - 1] \in Nat \ {0}
          BY <2>2
        <4>3. QED
          BY <2>1, <4>1, <4>2
      <3>2. QED
        BY <2>2, <3>1
    <2> DEFINE f == Powers(m)
    <2>4. f = [i \in 0..m |-> IF i = 0 THEN 1 ELSE b * f[i - 1]]
      <3>1. \E k : k = [i \in 0..m |-> IF i = 0 THEN 1 ELSE b * k[i - 1]]
        BY <2>3
      <3>2. QED
        BY <3>1, Zenon
    <2> HIDE DEF f
    <2>5. f[0] = 1 /\ \A i \in 1..m : f[i] = b * f[i - 1]
      BY <2>4
    <2>6. \A i \in 0..m : f[i] \in Nat \ {0}
      <3> DEFINE P == {i \in 0..m : f[i] \in Nat \ {0}}
      <3>1. 0 \in P
        BY <2>5
      <3>2. ASSUME NEW i \in 1..m, i - 1 \in P PROVE i \in P
        <4>1. f[i - 1] \in Nat \ {0} /\ f[i] = b * f[i - 1]
          BY <2>5, <3>2
        <4>2. \A x, y \in Nat \ {0} : x * y \in Nat \ {0}
          OBVIOUS
        <4>3. QED
          BY <4>1, <4>2
      <3> HIDE DEF P
      <3>3. QED
        BY <3>1, <3>2, StepInduction DEF P
    <2>7. f \in [0..m -> Nat \ {0}]
      BY <2>4, <2>6
    <2>8. QED
      BY <2>5, <2>7 DEF f
  <1> HIDE DEF Powers
  <1>3. Powers(n)[n] \in Nat \ {0} /\ Powers(0)[0] = 1
    BY <1>2
  <1>4. Powers(n + 1)[n + 1] = b * Powers(n)[n]
    <2> DEFINE f == Powers(n + 1)
               h == Powers(n)
               P == {i \in 0..n : f[i] = h[i]}
    <2>1. n + 1 \in Nat
      OBVIOUS
    <2>2. /\ f[0] = 1 /\ \A i \in 1..(n + 1) : f[i] = b * f[i - 1]
          /\ h[0] = 1 /\ \A i \in 1..n : h[i] = b * h[i - 1]
      BY <1>2, <2>1
    <2> HIDE DEF f, h
    <2>3. 0 \in P
      BY <2>2
    <2>4. ASSUME NEW i \in 1..n, i - 1 \in P PROVE i \in P
      <3>1. i \in 1..(n + 1) /\ f[i - 1] = h[i - 1]
        BY <2>4
      <3>2. QED
        BY <2>2, <3>1
    <2>5. n \in P
      <3> HIDE DEF P
      <3>1. QED
        BY <2>3, <2>4, StepInduction
    <2>6. f[n + 1] = b * f[(n + 1) - 1] /\ (n + 1) - 1 = n /\ f[n] = h[n]
      BY <2>2, <2>5
    <2>7. QED
      BY <2>6 DEF f, h
  <1>5. QED
    BY <1>1, <1>3, <1>4

(* Read from the first dimension on, the levels make ever more of the      *)
(* state's number: what is read already, times the states of the           *)
(* dimensions still to come, and less than those states besides.           *)
ReadSoFar(levels, h) ==
    /\ h \in [0..Dims -> Nat] /\ h[0] = 0
    /\ \A k \in 1..Dims : h[k] = (N_LEVELS * h[k - 1]) + levels[k]
Remains(x, h) ==
    \A k \in 0..Dims : \E r \in 0..(Chain!Power(N_LEVELS, Dims - k) - 1) :
        x = (Chain!Power(N_LEVELS, Dims - k) * h[k]) + r

LEMMA DigitsAre ==
    ASSUME Dims \in Nat, N_LEVELS \in Nat \ {0}, NEW levels \in [1..Dims -> Chain!Level],
           NEW x, x = Chain!encode_state(levels)
    PROVE  \E h : ReadSoFar(levels, h) /\ Remains(x, h)
  <1> DEFINE D == Dims
             N == N_LEVELS
             P(n) == Chain!Power(N, n)
             w == [d \in 1..D |-> levels[d] * P(D - d)]
             A(k) == SumFunctionOnSet(w, 1..k)
             g == [p \in Nat \X (1..D) |-> (N * p[1]) + levels[p[2]]]
  <1>1. \A d \in 1..D : levels[d] \in 0..(N - 1)
    BY DEF Chain!Level
  <1>2. \A n \in Nat : P(n) \in Nat \ {0} /\ P(0) = 1 /\ P(n + 1) = N * P(n)
    BY PowerIs
  <1>3. x = A(D)
    BY ChainSum DEF Chain!encode_state, Chain!Total, Chain!Stride
  <1> HIDE DEF P
  <1>4. \A d \in 1..D : w[d] = levels[d] * P(D - d) /\ w[d] \in Int
    <2> TAKE d \in 1..D
    <2>1. D - d \in Nat /\ levels[d] \in Int
      BY <1>1
    <2>2. levels[d] * P(D - d) \in Int
      <3>1. P(D - d) \in Int
        BY <1>2, <2>1
      <3>2. \A m, n \in Int : m * n \in Int
        OBVIOUS
      <3>3. QED
        BY <2>1, <3>1, <3>2
    <2>3. QED
      BY <2>2
  <1> HIDE DEF w
  <1>5. A(0) = 0 /\ \A k \in 0..D : A(k) \in Int
    <2>1. ASSUME NEW k \in 0..D PROVE A(k) \in Int /\ (k = 0 => A(k) = 0)
      <3>1. k \in Nat /\ Numbers(w, 1..k)
        BY <1>4 DEF Numbers
      <3>2. QED
        BY <3>1, SumUpTo
    <2>2. 0 \in 0..D
      OBVIOUS
    <2> HIDE DEF A
    <2>3. QED
      BY <2>1, <2>2
  <1>6. \A k \in 1..D : A(k) = A(k - 1) + w[k]
    <2> TAKE k \in 1..D
    <2>1. k \in Nat /\ k # 0 /\ Numbers(w, 1..k)
      BY <1>4 DEF Numbers
    <2>2. QED
      BY <2>1, SumUpTo
  <1> HIDE DEF A
  <1>7. PICK h : h \in [0..D -> Nat] /\ StepByStep(h, 0, g, D)
    <2>1. KeepsIn(Nat, g, D)
      <3>1. ASSUME NEW y \in Nat, NEW d \in 1..D PROVE g[<<y, d>>] \in Nat
        <4>1. g[<<y, d>>] = (N * y) + levels[d] /\ levels[d] \in Nat
          BY <1>1
        <4>2. N * y \in Nat
          OBVIOUS
        <4> HIDE DEF g
        <4>3. QED
          BY <4>1, <4>2
      <3>2. QED
        BY <3>1 DEF KeepsIn
    <2>2. 0 \in Nat
      OBVIOUS
    <2>3. QED
      BY <2>1, <2>2, RecursionExists, Zenon
  <1>8. ReadSoFar(levels, h)
    <2>1. ASSUME NEW k \in 1..D PROVE h[k] = (N * h[k - 1]) + levels[k]
      <3>1. h[k] = g[<<h[k - 1], k>>]
        BY <1>7 DEF StepByStep
      <3>2. k - 1 \in 0..D
        OBVIOUS
      <3>3. h[k - 1] \in Nat
        BY <1>7, <3>2
      <3>4. QED
        BY <3>1, <3>3
    <2>2. h[0] = 0
      BY <1>7 DEF StepByStep
    <2>3. QED
      BY <1>7, <2>1, <2>2 DEF ReadSoFar
  <1> HIDE DEF g
  <1>9. \A k \in 0..D : A(k) = P(D - k) * h[k]
    <2> DEFINE S == {k \in 0..D : A(k) = P(D - k) * h[k]}
    <2>1. 0 \in S
      <3>1. P(D - 0) * h[0] = 0
        <4>1. P(D - 0) \in Int /\ h[0] = 0
          BY <1>2, <1>8 DEF ReadSoFar
        <4>2. QED
          BY <4>1
      <3>2. QED
        BY <1>5, <3>1
    <2>2. ASSUME NEW k \in 1..D, k - 1 \in S PROVE k \in S
      <3> DEFINE p == P(D - k)
                 q == P(D - (k - 1))
                 y == h[k - 1]
                 l == levels[k]
      <3>1. p \in Nat /\ q = N * p
        <4>1. D - k \in Nat /\ D - (k - 1) = (D - k) + 1
          OBVIOUS
        <4>2. QED
          BY <1>2, <4>1
      <3>2. y \in Nat /\ l \in Nat /\ h[k] = (N * y) + l
        <4>1. k - 1 \in 0..D
          OBVIOUS
        <4>2. QED
          BY <1>1, <1>8, <4>1 DEF ReadSoFar
      <3>3. A(k) = (q * y) + (l * p)
        BY <1>4, <1>6, <2>2
      <3> HIDE DEF p, q, y, l
      <3>4. ((N * p) * y) + (l * p) = p * ((N * y) + l)
        BY <3>1, <3>2
      <3>5. A(k) = p * h[k]
        BY <3>1, <3>2, <3>3, <3>4
      <3>6. QED
        BY <3>5 DEF p
    <2> HIDE DEF S
    <2>3. QED
      BY <2>1, <2>2, StepInduction DEF S
  <1>10. \A j \in 0..D : x - A(D - j) \in 0..(P(j) - 1)
    <2> DEFINE S == {j \in 0..D : x - A(D - j) \in 0..(P(j) - 1)}
    <2>1. 0 \in S
      <3>1. D - 0 = D /\ A(D) \in Int /\ P(0) = 1 /\ A(D) - A(D) = 0
        BY <1>2, <1>5
      <3>2. QED
        BY <1>3, <3>1
    <2>2. ASSUME NEW j \in 1..D, j - 1 \in S PROVE j \in S
      <3> DEFINE k == (D - j) + 1
                 p == P(j - 1)
                 l == levels[k]
                 a == A(k)
                 b == A(D - j)
      <3>1. k \in 1..D /\ k - 1 = D - j /\ D - k = j - 1 /\ k = D - (j - 1) /\ D - j \in 0..D /\ k \in 0..D
        OBVIOUS
      <3>2. a = b + (l * p) /\ a \in Int /\ b \in Int /\ x \in Int
        <4>1. A(k) = A(k - 1) + w[k] /\ w[k] = levels[k] * P(D - k)
          BY <1>4, <1>6, <3>1
        <4>2. A(k) \in Int /\ A(D - j) \in Int /\ A(D) \in Int
          BY <1>5, <3>1
        <4> HIDE DEF k
        <4>3. QED
          BY <1>3, <3>1, <4>1, <4>2
      <3>3. x - a \in 0..(p - 1)
        <4> HIDE DEF k
        <4>1. QED
          BY <2>2, <3>1
      <3>4. p \in Nat \ {0} /\ P(j) = N * p
        <4>1. j - 1 \in Nat /\ j = (j - 1) + 1
          OBVIOUS
        <4>2. P(j - 1) \in Nat \ {0} /\ P((j - 1) + 1) = N * P(j - 1)
          BY <1>2, <4>1
        <4>3. QED
          BY <4>1, <4>2
      <3>5. l \in 0..(N - 1)
        BY <1>1, <3>1
      <3> HIDE DEF k, p, l, a, b
      <3>6. p * l <= p * (N - 1) /\ p * 0 <= p * l /\ p * l \in Int /\ p * (N - 1) \in Int
        BY <3>4, <3>5, ProductsOrdered
      <3>7. p * (N - 1) = (N * p) - p /\ p * 0 = 0 /\ l * p = p * l /\ N * p \in Int
        BY <3>4, <3>5
      <3> DEFINE u == p * l
                 v == N * p
      <3>8. u \in Int /\ v \in Int /\ 0 <= u /\ u <= v - p /\ a = b + u
        BY <3>2, <3>6, <3>7
      <3> HIDE DEF u, v
      <3>9. x - b \in 0..(v - 1)
        BY <3>2, <3>3, <3>4, <3>8
      <3>10. QED
        BY <3>4, <3>9 DEF v, b
    <2> HIDE DEF S
    <2>3. QED
      BY <2>1, <2>2, StepInduction DEF S
  <1>11. ASSUME NEW k \in 0..D
         PROVE  \E r \in 0..(P(D - k) - 1) : x = (P(D - k) * h[k]) + r
    <2>1. D - k \in 0..D /\ D - (D - k) = k
      OBVIOUS
    <2>2. x - A(k) \in 0..(P(D - k) - 1)
      BY <1>10, <2>1
    <2>3. A(k) = P(D - k) * h[k] /\ A(k) \in Int /\ x \in Int
      BY <1>3, <1>5, <1>9
    <2>4. x = A(k) + (x - A(k))
      BY <2>3
    <2>5. QED
      BY <2>2, <2>3, <2>4
  <1>12. Remains(x, h)
    BY <1>11 DEF Remains, P
  <1>13. QED
    BY <1>8, <1>12

(* The market's states, whatever their dimensions and levels: every state  *)
(* has a number of its own, from nought to one less than there are states, *)
(* the levels are read back from it, and of two states the one whose level *)
(* is higher in the first dimension they differ in comes later             *)
(* (encode_state, decode_state).                                           *)
THEOREM StatesHaveTheirNumbers ==
    ASSUME Dims \in Nat, N_LEVELS \in Nat \ {0},
           NEW levels \in [1..Dims -> Chain!Level], NEW others \in [1..Dims -> Chain!Level]
    PROVE  Chain!EveryStateHasItsNumber(levels, others)
  <1> DEFINE D == Dims
             N == N_LEVELS
             P(n) == Chain!Power(N, n)
             x == Chain!encode_state(levels)
             y == Chain!encode_state(others)
             differs == {d \in 1..D : levels[d] # others[d]}
             least == Chain!Min(differs)
  <1>1. PICK h : ReadSoFar(levels, h) /\ Remains(x, h)
    BY DigitsAre
  <1>2. PICK i : ReadSoFar(others, i) /\ Remains(y, i)
    BY DigitsAre
  <1>3. \A n \in Nat : P(n) \in Nat \ {0}
    BY PowerIs
  <1>4. \A d \in 1..D : levels[d] \in 0..(N - 1) /\ others[d] \in 0..(N - 1)
    BY DEF Chain!Level
  <1>5. x \in Chain!States
    <2>1. PICK r \in 0..(P(D - 0) - 1) : x = (P(D - 0) * h[0]) + r
      BY <1>1 DEF Remains
    <2>2. h[0] = 0 /\ D - 0 = D /\ P(D) \in Nat \ {0}
      BY <1>1, <1>3 DEF ReadSoFar
    <2> HIDE DEF P, x
    <2>3. x \in 0..(P(D) - 1)
      BY <2>1, <2>2
    <2>4. QED
      BY <2>3 DEF Chain!States, Chain!N_STATES, P
  <1>6. Chain!decode_state(x) = levels
    <2>1. ASSUME NEW d \in 1..D PROVE (x \div Chain!Stride(d)) % N = levels[d]
      <3> DEFINE p == P(D - d)
                 k == h[d - 1]
                 l == levels[d]
      <3>1. p \in Nat \ {0} /\ Chain!Stride(d) = p
        BY <1>3 DEF Chain!Stride
      <3>2. k \in Nat /\ l \in 0..(N - 1) /\ h[d] = (N * k) + l
        <4>1. d - 1 \in 0..D
          OBVIOUS
        <4>2. QED
          BY <1>1, <1>4, <4>1 DEF ReadSoFar
      <3>3. PICK r \in 0..(p - 1) : x = (p * h[d]) + r
        BY <1>1 DEF Remains
      <3>4. h[d] \in Int
        BY <1>1 DEF ReadSoFar
      <3> HIDE DEF x, p, k, l
      <3>5. x \div p = h[d]
        BY <3>1, <3>3, <3>4, DivisionWithin
      <3>6. h[d] % N = l
        <4>1. k \in Int /\ N \in Nat \ {0}
          BY <3>2
        <4>2. ((N * k) + l) % N = l
          BY <3>2, <4>1, DivisionWithin, Zenon
        <4>3. QED
          BY <3>2, <4>2
      <3>7. QED
        BY <3>1, <3>5, <3>6 DEF l
    <2>2. Chain!decode_state(x) = [d \in 1..D |-> (x \div Chain!Stride(d)) % N]
      BY DEF Chain!decode_state
    <2> HIDE DEF x
    <2>3. Chain!decode_state(x) = [d \in 1..D |-> levels[d]]
      BY <2>1, <2>2
    <2>4. QED
      BY <2>3
  <1>7. ASSUME differs # {}, levels[least] < others[least] PROVE x < y
    <2>1. PICK m \in differs : \A n \in differs : m <= n
      <3>1. differs \subseteq Nat
        OBVIOUS
      <3> HIDE DEF differs
      <3>2. QED
        BY <1>7, <3>1, LeastNumber
    <2>2. least = m
      <3>1. differs \subseteq Int
        OBVIOUS
      <3> HIDE DEF differs
      <3>2. least \in differs /\ \A n \in differs : least <= n
        BY <2>1, Zenon DEF Chain!Min
      <3> HIDE DEF least
      <3>3. QED
        BY <2>1, <3>1, <3>2
    <2>3. m \in 1..D /\ levels[m] < others[m] /\ \A d \in 1..(m - 1) : levels[d] = others[d]
      <3>1. m \in 1..D /\ levels[m] < others[m]
        BY <1>7, <2>2
      <3>2. ASSUME NEW d \in 1..(m - 1) PROVE levels[d] = others[d]
        <4>1. d \in 1..D /\ ~(m <= d)
          BY <3>1
        <4>2. d \notin differs
          BY <2>1, <4>1
        <4>3. QED
          BY <4>1, <4>2
      <3>3. QED
        BY <3>1, <3>2
    <2>4. h[m - 1] = i[m - 1]
      <3> DEFINE S == {k \in 0..(m - 1) : h[k] = i[k]}
      <3>1. 0 \in S
        BY <1>1, <1>2, <2>3 DEF ReadSoFar
      <3>2. ASSUME NEW k \in 1..(m - 1), k - 1 \in S PROVE k \in S
        <4>1. k \in 1..D /\ levels[k] = others[k] /\ h[k - 1] = i[k - 1]
          BY <2>3, <3>2
        <4>2. h[k] = (N * h[k - 1]) + levels[k] /\ i[k] = (N * i[k - 1]) + others[k]
          BY <1>1, <1>2, <4>1 DEF ReadSoFar
        <4>3. QED
          BY <4>1, <4>2
      <3>3. m - 1 \in Nat /\ m - 1 \in 0..(m - 1)
        BY <2>3
      <3> HIDE DEF S
      <3>4. m - 1 \in S
        BY <3>1, <3>2, <3>3, StepInduction
      <3>5. QED
        BY <3>4 DEF S
    <2> DEFINE p == P(D - m)
               a == h[m]
               b == i[m]
    <2>5. a \in Nat /\ b \in Nat /\ a + 1 <= b
      <3> DEFINE k == N * h[m - 1]
      <3>1. a = k + levels[m] /\ b = k + others[m]
        BY <1>1, <1>2, <2>3, <2>4 DEF ReadSoFar
      <3>2. a \in Nat /\ b \in Nat
        BY <1>1, <1>2, <2>3 DEF ReadSoFar
      <3>3. levels[m] \in Nat /\ others[m] \in Nat
        BY <1>4, <2>3
      <3>4. k \in Int
        <4>1. m - 1 \in 0..D
          BY <2>3
        <4>2. h[m - 1] \in Nat
          BY <1>1, <4>1 DEF ReadSoFar
        <4>3. QED
          BY <4>2
      <3> HIDE DEF k, a, b
      <3>5. QED
        BY <2>3, <3>1, <3>2, <3>3, <3>4
    <2>6. p \in Nat \ {0}
      <3>1. D - m \in Nat
        BY <2>3
      <3>2. QED
        BY <1>3, <3>1
    <2>7. PICK r \in 0..(p - 1) : x = (p * a) + r
      BY <1>1, <2>3 DEF Remains
    <2>8. PICK s \in 0..(p - 1) : y = (p * b) + s
      BY <1>2, <2>3 DEF Remains
    <2> HIDE DEF p, a, b, x, y
    <2>9. p * (a + 1) <= p * b /\ p * (a + 1) = (p * a) + p
      BY <2>5, <2>6, ProductsOrdered
    <2> DEFINE u == p * a
               v == p * b
    <2>10. u \in Int /\ v \in Int /\ u + p <= v /\ x = u + r /\ y = v + s
      BY <2>5, <2>6, <2>7, <2>8, <2>9
    <2> HIDE DEF u, v
    <2>11. QED
      BY <2>6, <2>10
  <1> HIDE DEF x, y, differs, least
  <1>8. QED
    BY <1>5, <1>6, <1>7 DEF Chain!EveryStateHasItsNumber, x, y, differs, least
=============================================================================
