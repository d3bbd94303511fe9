--------------------------- MODULE Consolidation ---------------------------
(***************************************************************************)
(* How the statements of a group's entities become one: translation,       *)
(* consolidation methods, minority interest and intercompany eliminations  *)
(* (shared/fm_shared/analysis/consolidation.py), and the tree that is      *)
(* shown of the ownership links (get_hierarchy of                          *)
(* routers/org_structures.py).                                             *)
(*                                                                         *)
(* Pure functions.  One period; statements have the lines the code looks   *)
(* for (net_income, equity, one more of each).  Ownership is in percent,   *)
(* amounts are hundreds, and a rate is a whole number or its inverse.      *)
(***************************************************************************)
EXTENDS Integers, Sequences, FiniteSets, Functions

Total(F(_), S) == SumFunctionOnSet([x \in S |-> F(x)], S)
-----------------------------------------------------------------------------
(* Faulty versions, which the properties tell from the ones below.         *)

(* A minority share is kept for entities consolidated in proportion too.   *)
HasMinority_All(e) == e.ownership_pct < 100 /\ e.method # "equity_method"

(* Only an entity right above itself is left out of the tree.              *)
Unmet_Parent(path, n) == path[Len(path)] # n
-----------------------------------------------------------------------------
(* Rates.  A table gives whole rates by pair; a missing pair is taken from *)
(* the inverse one, or is one.  A rate is <<numerator, denominator>>.      *)

_get_rate(rates, from, to) ==
    IF from = to THEN <<1, 1>>
    ELSE IF <<from, to>> \in DOMAIN rates THEN <<rates[<<from, to>>], 1>>
    ELSE IF <<to, from>> \in DOMAIN rates /\ rates[<<to, from>>] # 0 THEN <<1, rates[<<to, from>>]>>
    ELSE <<1, 1>>

AtRate(amount, rate) == (amount * rate[1]) \div rate[2]

(* translate_statements: income at the average rate, the sheet at the      *)
(* closing one.                                                            *)
translate_statements(e, avg, closing, to) ==
    [e EXCEPT !.is = [l \in DOMAIN e.is |-> AtRate(e.is[l], _get_rate(avg, e.currency, to))],
              !.bs = [l \in DOMAIN e.bs |-> AtRate(e.bs[l], _get_rate(closing, e.currency, to))]]

PartOf(e, amount) == (amount * e.ownership_pct) \div 100
-----------------------------------------------------------------------------
(* consolidate                                                             *)

HasMinority(e) == e.method = "full" /\ e.ownership_pct < 100

(* What an entity adds to a line of the group.                             *)
Added(e, amount) ==
    CASE e.method = "full" -> amount
      [] e.method = "proportional" -> PartOf(e, amount)
      [] OTHER -> 0

(* What a link takes out of the group, line by line: of the income         *)
(* statement, the balance sheet and the cash flow.  A payment counts net   *)
(* of the tax withheld; a loan's amount in full, and its interest.         *)
EliminatedLines ==
    {"Intercompany_revenue", "Intercompany_expense", "Dividend_income", "Dividend_paid",
     "Intercompany_interest_income", "Intercompany_interest_expense",
     "Intercompany_receivable", "Intercompany_payable",
     "Intercompany_loan_receivable", "Intercompany_loan_payable",
     "Intercompany_operating", "Dividends"}

TakenOut(x, line) ==
    LET net == x.amount - x.withheld
        trade == x.kind \in {"management_fee", "royalty", "trade"}
    IN  CASE trade /\ line = "Intercompany_revenue" -> net
          [] trade /\ line = "Intercompany_expense" -> net
          [] trade /\ line = "Intercompany_receivable" -> net
          [] trade /\ line = "Intercompany_payable" -> net
          [] trade /\ line = "Intercompany_operating" -> net
          [] x.kind = "dividend" /\ line = "Dividend_income" -> net
          [] x.kind = "dividend" /\ line = "Dividend_paid" -> net
          [] x.kind = "dividend" /\ line = "Dividends" -> net
          [] x.kind = "loan" /\ line = "Intercompany_loan_receivable" -> x.amount
          [] x.kind = "loan" /\ line = "Intercompany_loan_payable" -> x.amount
          [] x.kind = "loan" /\ line = "Intercompany_interest_income" -> x.amount * x.rate
          [] x.kind = "loan" /\ line = "Intercompany_interest_expense" -> x.amount * x.rate
          [] OTHER -> 0

(* es: the translated entities; xs: the eliminations.                      *)
consolidate(es, xs, eliminate) ==
    LET sum(F(_)) == Total(LAMBDA i : F(es[i]), DOMAIN es)
        associate(e, amount) == IF e.method = "equity_method" THEN PartOf(e, amount) ELSE 0
        minority(e, amount) == IF HasMinority(e) THEN amount - PartOf(e, amount) ELSE 0
    IN  [is |-> [l \in {"net_income", "revenue"} |-> sum(LAMBDA e : Added(e, e.is[l]))],
         bs |-> [l \in {"assets", "equity"} |-> sum(LAMBDA e : Added(e, e.bs[l]))],
         share_of_profit |-> sum(LAMBDA e : associate(e, e.is.net_income)),
         investment |-> sum(LAMBDA e : associate(e, e.bs.equity)),
         nci_profit |-> sum(LAMBDA e : minority(e, e.is.net_income)),
         nci_equity |-> sum(LAMBDA e : minority(e, e.bs.equity)),
         eliminated |-> [l \in EliminatedLines |->
            IF eliminate THEN Total(LAMBDA i : TakenOut(xs[i], l), DOMAIN xs) ELSE 0]]

(* compute_intercompany_amounts                                            *)
PerYear(frequency) ==
    CASE frequency = "monthly" -> 12 [] frequency = "quarterly" -> 4 [] OTHER -> 1

(* A link's amount for a period of the forecast, and a faulty version that *)
(* mistakes one for the other; for a loan the amount is its rate besides.  *)
Spread_Inverted(link, granularity) ==
    (link.amount * PerYear(granularity)) \div PerYear(link.frequency)

Spread(link, granularity) ==
    (link.amount * PerYear(link.frequency)) \div PerYear(granularity)

compute_intercompany_amounts(link, granularity, tax) ==
    LET amount == Spread(link, granularity)
    IN  [kind |-> link.kind, amount |-> amount,
         rate |-> IF link.kind = "loan" THEN link.amount ELSE 0,
         withheld |-> IF link.withholding THEN (amount * tax) \div 100 ELSE 0]
-----------------------------------------------------------------------------
(* The ownership links of a structure: a record of entities, roots and     *)
(* owned, the percentage by (parent, child).                               *)

Children(g, n) == {p[2] : p \in {q \in DOMAIN g.owned : q[1] = n}}
Unmet(path, n) == \A i \in DOMAIN path : path[i] # n

(* _build_tree_node: the tree under n, as the paths that lead down it.     *)
TreePaths(g, n) ==
    LET level[k \in 1..Cardinality(g.entities)] ==
            IF k = 1 THEN {<<n>>}
            ELSE UNION {{Append(path, c) : c \in {m \in Children(g, path[k - 1]) : Unmet(path, m)}}
                        : path \in level[k - 1]}
    IN  UNION {level[k] : k \in DOMAIN level}

(* The roots of the tree: those marked so; else those nobody owns; else,   *)
(* when everyone is owned, whichever comes first.                          *)
TreeRoots(g) ==
    LET unowned == {n \in g.entities : \A p \in DOMAIN g.owned : p[2] # n}
    IN  IF g.roots # {} THEN g.roots ELSE IF unowned # {} THEN unowned ELSE {g.first}

get_hierarchy(g) == UNION {TreePaths(g, n) : n \in TreeRoots(g)}
-----------------------------------------------------------------------------
(* Properties.                                                             *)

(* Whatever the methods, what is left of the group's profit after minority *)
(* interest, with the share of associates, is the parent's part of every   *)
(* consolidated entity's profit at the average rate: nothing is counted    *)
(* twice or lost between the methods.                                      *)
ParentsPartCountedOnce(entities, avg, closing, to) ==
    LET es == [i \in DOMAIN entities |-> translate_statements(entities[i], avg, closing, to)]
        group == consolidate(es, <<>>, TRUE)
        within == {i \in DOMAIN es : es[i].method # "not_consolidated"}
    IN  /\ group.is.net_income - group.nci_profit + group.share_of_profit
             = Total(LAMBDA i : PartOf(es[i], es[i].is.net_income), within)
        /\ group.bs.equity - group.nci_equity + group.investment
             = Total(LAMBDA i : PartOf(es[i], es[i].bs.equity), within)

(* Over a year every link is eliminated once, whatever the periods of the  *)
(* forecast and the frequency it is paid at; income and expense, and what  *)
(* is owed to and by the entities, lose the same, so that the group's      *)
(* profit and net assets do not change.  Its cash flow does: what one      *)
(* entity pays another is taken out of one line, without a counterpart,    *)
(* by as much as of the income it is (README, known disagreements).        *)
Counterparts ==
    {<<"Intercompany_revenue", "Intercompany_expense">>,
     <<"Intercompany_receivable", "Intercompany_payable">>,
     <<"Dividend_income", "Dividend_paid">>,
     <<"Intercompany_interest_income", "Intercompany_interest_expense">>,
     <<"Intercompany_loan_receivable", "Intercompany_loan_payable">>}
EliminatedOnce(links, granularity, tax) ==
    LET xs == [i \in DOMAIN links |-> compute_intercompany_amounts(links[i], granularity, tax)]
        eliminated == consolidate(<<>>, xs, TRUE).eliminated
    IN  /\ \A i \in DOMAIN links :
              LET year == links[i].amount * PerYear(links[i].frequency)
              IN  year % PerYear(granularity) = 0 => xs[i].amount * PerYear(granularity) = year
        /\ \A p \in Counterparts : eliminated[p[1]] = eliminated[p[2]]
        /\ eliminated["Intercompany_operating"] = eliminated["Intercompany_revenue"]
        /\ eliminated["Dividends"] = eliminated["Dividend_income"]

(* The tree ends whatever circles the ownership has, no entity is under    *)
(* itself, and everything a root owns through any chain is shown.          *)
TreeShowsWhatIsOwned(g) ==
    LET shown == {p[Len(p)] : p \in get_hierarchy(g)}
    IN  /\ \A p \in get_hierarchy(g) : \A i, k \in DOMAIN p : p[i] = p[k] => i = k
        /\ shown # {}
        /\ \A n \in shown : Children(g, n) \subseteq shown
=============================================================================
