---------------------------- MODULE ModelEngine ----------------------------
(***************************************************************************)
(* The deterministic engine: the calculation graph of a blueprint, the     *)
(* order it is computed in, the values of drivers over time, scenario      *)
(* overrides and launches (shared/fm_shared/model: graph.py, engine.py).    *)
(*                                                                         *)
(* A blueprint is a record: nodes (the list of them), driver (the nodes    *)
(* that are drivers), edges, formula (of the nodes that have one: its      *)
(* inputs) and refs (the node a driver reference stands for).  A formula   *)
(* is one more than the sum of its inputs; any expression that reads each  *)
(* of them would tell the same runs apart.  Periods do not depend on each  *)
(* other and are modelled one at a time.  Shares are in percent.           *)
(***************************************************************************)
EXTENDS Integers, Sequences, FiniteSets, FiniteSetsExt, SequencesExt

CONSTANT None       \* no value; no cycle

Total(F(_), S) == MapThenSumSet(F, S)
-----------------------------------------------------------------------------
(* Faulty versions, which the properties tell from the ones below.         *)

(* Successors are visited as soon as one of their predecessors is.         *)
Ready_Any(b, n, degree) == TRUE

(* The last point whose month has not been passed.                         *)
At_Passed(points, t) == {i \in DOMAIN points : points[i].month >= t}

(* The month of the launch counts for nothing.                             *)
LinearShare_Late(elapsed, months) == (100 * elapsed) \div months
-----------------------------------------------------------------------------
(* graph.py                                                                *)

Node(b) == ToSet(b.nodes)
Names(b) == Node(b) \cup {e[1] : e \in b.edges} \cup {e[2] : e \in b.edges}
Successors(b, n) == {e[2] : e \in {x \in b.edges : x[1] = n}}
InDegree(b, n) == Cardinality({e \in b.edges : e[2] = n})

(* What edges lead to from n, in one step or more.                         *)
Reachable(b, n) ==
    LET within[k \in 1..Cardinality(Names(b))] ==
            IF k = 1 THEN Successors(b, n)
            ELSE within[k - 1] \cup UNION {Successors(b, m) : m \in within[k - 1]}
    IN  within[Cardinality(Names(b))]

detect_cycles(b) == \E n \in Node(b) : \E m \in {n} \cup Reachable(b, n) : m \in Reachable(b, m)

Ready(b, n, degree) == degree[n] = 0

(* One round of Kahn's algorithm: the head of the queue is put in order.   *)
Visit(b, s) ==
    IF s.queue = <<>> THEN s
    ELSE LET n == Head(s.queue)
             degree == [m \in Names(b) |->
                            IF m \in Successors(b, n) THEN s.degree[m] - 1 ELSE s.degree[m]]
             ready == SetToSeq({m \in Successors(b, n) :
                            Ready(b, m, degree) /\ m \notin ToSet(s.order) \cup ToSet(s.queue)})
         IN  [queue |-> Tail(s.queue) \o ready, order |-> Append(s.order, n), degree |-> degree]

(* None stands for the GraphCycleError; it is raised as well when the      *)
(* order has not as many names as there are nodes.                         *)
topo_sort(b) ==
    LET degree == [m \in Names(b) |-> InDegree(b, m)]
        free == SelectSeq(b.nodes, LAMBDA n : degree[n] = 0)
        run[k \in 0..Cardinality(Names(b))] ==
            IF k = 0 THEN [queue |-> free, order |-> <<>>, degree |-> degree]
            ELSE Visit(b, run[k - 1])
        order == run[Cardinality(Names(b))].order
    IN  IF detect_cycles(b) \/ Len(order) # Len(b.nodes) THEN None ELSE order
-----------------------------------------------------------------------------
(* engine.py: one period of run_engine.  An input is a node, or a driver   *)
(* reference that a node stands for, or unknown, which stops the run.      *)

input_to_var_and_key(b, input) ==
    IF input \in Node(b) THEN input
    ELSE IF input \in DOMAIN b.refs THEN b.refs[input] ELSE None

Keys(b, n) == {input_to_var_and_key(b, i) : i \in b.formula[n]}

(* A node that has not been computed yet reads as zero.                    *)
Computed(b, values, n) ==
    IF n \in DOMAIN b.driver THEN b.driver[n]
    ELSE IF n \in DOMAIN b.formula THEN 1 + Total(LAMBDA k : values[k], Keys(b, n)) ELSE 0

(* None stands for the EngineError, or the KeyError of a name in the order *)
(* that is no node.                                                        *)
run_engine(b) ==
    LET order == topo_sort(b)
        values[k \in 0..Len(order)] ==
            IF k = 0 THEN [n \in Node(b) |-> 0]
            ELSE LET past == values[k - 1]
                 IN  IF past = None \/ order[k] \notin Node(b) THEN None
                     ELSE IF order[k] \in DOMAIN b.formula /\ None \in Keys(b, order[k]) THEN None
                     ELSE [past EXCEPT ![order[k]] = Computed(b, past, order[k])]
    IN  IF order = None THEN None ELSE values[Len(order)]

(* _resolve_driver: a schedule is a list of points by month.               *)
Sorted(schedule) == SortSeq(schedule, LAMBDA p, q : p.month < q.month)
At(points, t) == {i \in DOMAIN points : points[i].month <= t}

_interpolate_schedule(schedule, t, linear) ==
    LET points == Sorted(schedule)
        last == points[Len(points)]
    IN  IF t <= points[1].month THEN points[1].value
        ELSE IF t >= last.month THEN last.value
        ELSE LET i == Min({k \in 1..(Len(points) - 1) :
                           points[k].month <= t /\ t <= points[k + 1].month})
                 from == points[i]
                 to == points[i + 1]
             IN  IF linear /\ from.month # to.month
                 THEN from.value + ((t - from.month) * (to.value - from.value))
                                    \div (to.month - from.month)
                 ELSE from.value

(* Before the first point its value holds already.                         *)
_step_schedule(schedule, t) ==
    LET points == Sorted(schedule)
    IN  IF At(points, t) = {} THEN points[1].value ELSE points[Max(At(points, t))].value

_resolve_driver(d, t) ==
    CASE d.value_type = "ramp" /\ d.schedule # <<>> -> _interpolate_schedule(d.schedule, t, d.linear)
      [] d.value_type = "step" /\ d.schedule # <<>> -> _step_schedule(d.schedule, t)
      [] OTHER -> d.value

(* Overrides, in turn: a value makes the driver constant, a multiplier     *)
(* counts for a constant driver only.                                      *)
Overridden(d, ov) ==
    IF ov.field = "value" THEN [d EXCEPT !.value = ov.value, !.value_type = "constant", !.schedule = <<>>]
    ELSE IF d.value_type = "constant" THEN [d EXCEPT !.value = @ * ov.value] ELSE d
ApplyOverrides(d, overrides) == FoldLeft(Overridden, d, overrides)

(* _build_ramp_factors: what a stream's volume counts for, in percent.     *)
LinearShare(elapsed, months) == (100 * (elapsed + 1)) \div months
SCurve == <<<<50>>, <<5, 95>>, <<2, 50, 98>>>>

_build_ramp_factors(stream, t) ==
    LET elapsed == t - stream.launch_month
    IN  IF stream.launch_month = None THEN 100
        ELSE IF elapsed < 0 THEN 0
        ELSE IF elapsed >= stream.ramp_up_months THEN 100
        ELSE CASE stream.ramp_curve = "step" -> 0
               [] stream.ramp_curve = "s_curve" -> SCurve[stream.ramp_up_months][elapsed + 1]
               [] OTHER -> LinearShare(elapsed, stream.ramp_up_months)
-----------------------------------------------------------------------------
(* Properties.                                                             *)

(* What the formulas say, whatever the order: n's value, from the values   *)
(* of what leads to it.                                                    *)
Meaning(b) ==
    LET value[n \in Node(b)] ==
            IF n \in DOMAIN b.driver THEN b.driver[n]
            ELSE IF n \in DOMAIN b.formula
                 THEN 1 + Total(LAMBDA k : value[k], Keys(b, n)) ELSE 0
    IN  value

(* Between the nodes of the blueprint the engine finds an order exactly    *)
(* when the edges have no cycle; if an edge path leads from every input to *)
(* its formula, every node then gets the value its formula defines (an     *)
(* input without one may be read before it is computed, as zero).          *)
FollowsTheBlueprint(b) ==
    b.edges \subseteq Node(b) \X Node(b) =>
        /\ topo_sort(b) = None <=> \E n \in Node(b) : n \in Reachable(b, n)
        /\ LET known == \A n \in DOMAIN b.formula : None \notin Keys(b, n)
               led == \A n \in DOMAIN b.formula : \A k \in Keys(b, n) : n \in Reachable(b, k)
           IN  topo_sort(b) # None =>
                 /\ run_engine(b) = None <=> ~known
                 /\ known /\ led => run_engine(b) = [n \in Node(b) |-> Meaning(b)[n]]

(* A driver with a schedule never leaves the range of the points it lies   *)
(* between, however the list was ordered, and passes through its points (a *)
(* ramp that is not interpolated comes a month late to the inner ones).    *)
StaysBetweenPoints(d, t) ==
    LET value == _resolve_driver(d, t)
        points == ToSet(d.schedule)
        on == {p \in points : p.month = t}
        left == {p \in points : p.month < t}
        right == {p \in points : p.month > t}
        near == {p \in left : \A q \in left : q.month <= p.month}
                \cup {p \in right : \A q \in right : q.month >= p.month}
        late == d.value_type = "ramp" /\ ~d.linear /\ left # {} /\ right # {}
    IN  IF on # {} /\ ~late THEN value \in {p.value : p \in on}
        ELSE \E p, q \in near \cup on : p.value <= value /\ value <= q.value

(* A launch counts for nothing before its month and, unless it comes in    *)
(* one step, for something in it; it never shrinks, and is whole once the  *)
(* ramp is over (with a linear ramp, in its last month already).           *)
RampsUp(stream, t) ==
    LET factor(k) == _build_ramp_factors(stream, k)
        left == stream.launch_month + stream.ramp_up_months - t
    IN  stream.launch_month # None =>
            /\ t < stream.launch_month => factor(t) = 0
            /\ t >= stream.launch_month /\ stream.ramp_curve # "step" => factor(t) > 0
            /\ factor(t) <= factor(t + 1)
            /\ left <= 0 => factor(t) = 100
            /\ left = 1 /\ t >= stream.launch_month /\ stream.ramp_curve = "linear"
                 => factor(t) = 100
=============================================================================
