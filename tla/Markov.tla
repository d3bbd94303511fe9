------------------------------- MODULE Markov -------------------------------
(***************************************************************************)
(* The Markov chain of the market's states: their numbers, the matrix that *)
(* is estimated from a history, and the transitions shown of the matrix    *)
(* that is stored (services/pim/markov.py, routers/pim_markov.py).         *)
(*                                                                         *)
(* A state is a level in each of Dims dimensions; the code has four and    *)
(* three levels.  A row of a matrix is kept as its terms and their sum,    *)
(* which divides them.  The stationary distribution is an input.           *)
(***************************************************************************)
EXTENDS Integers, Sequences, FiniteSets, FiniteSetsExt, SequencesExt

CONSTANTS
    Dims,           \* 4 in the code
    N_LEVELS,       \* 3 in the code
    None            \* an error answered

Power(b, n) == LET power[i \in 0..n] == IF i = 0 THEN 1 ELSE b * power[i - 1] IN power[n]
Total(S, f(_)) == SumFunctionOnSet([x \in S |-> f(x)], S)

(* A finite set in a total order.                                          *)
InOrder(S, before(_, _)) ==
    [i \in 1..Cardinality(S) |-> CHOOSE x \in S : Cardinality({y \in S : before(y, x)}) = i - 1]

N_STATES == Power(N_LEVELS, Dims)
States == 0..(N_STATES - 1)
Level == 0..(N_LEVELS - 1)
-----------------------------------------------------------------------------
(* Faulty versions, which the properties tell from the ones below. *)

Stride_OneShort(d) == Power(N_LEVELS - 1, Dims - d)
CountTransition_Reversed(from, to) == [from |-> to, to |-> from]
Descending_Unstable(score, S) == InOrder(S, LAMBDA x, y : score[x] < score[y] \/ (score[x] = score[y] /\ x > y))
-----------------------------------------------------------------------------
(* The number of a state, its levels the digits from the first dimension.  *)
Stride(d) == Power(N_LEVELS, Dims - d)

encode_state(levels) == Total(1..Dims, LAMBDA d : levels[d] * Stride(d))
decode_state(index) == [d \in 1..Dims |-> (index \div Stride(d)) % N_LEVELS]

(* The level of a signal; a missing one is in the middle.                  *)
Discretised(signal, low, high) ==
    IF signal = None THEN 1 ELSE IF signal < low THEN 0 ELSE IF signal > high THEN 2 ELSE 1

(* Growth and sentiment in hundredths, scores in points.                   *)
discretise_gdp(growth) == Discretised(growth, -50, 100)
discretise_sentiment(avg) == Discretised(avg, -15, 15)
discretise_quality(score) == Discretised(score, 35, 65)
discretise_momentum(score) == Discretised(score, 35, 65)

current_state_from_cis(growth, avg, quality, momentum) ==
    encode_state(<<discretise_gdp(growth), discretise_sentiment(avg),
                   discretise_quality(quality), discretise_momentum(momentum)>>)
-----------------------------------------------------------------------------
CountTransition(from, to) == [from |-> from, to |-> to]

(* The counts of the consecutive pairs of a history of states.             *)
_count_transitions_jit(history) ==
    LET pairs == [i \in 1..(Len(history) - 1) |-> CountTransition(history[i], history[i + 1])]
    IN  [s \in States |-> [t \in States |-> Cardinality({i \in DOMAIN pairs : pairs[i] = [from |-> s, to |-> t]})]]

(* Every term gets the pseudocount.  A row whose sum is zero is 0/0.       *)
_row_normalise_jit(counts, alpha) ==
    [s \in States |->
        LET terms == [t \in States |-> counts[s][t] + alpha]
        IN  [terms |-> terms, sum |-> Total(States, LAMBDA t : terms[t])]]

Repaired(matrix) ==
    [s \in States |-> IF matrix[s].sum = 0
                      THEN [terms |-> [t \in States |-> 1], sum |-> N_STATES] ELSE matrix[s]]

(* With fewer than two observations every term is the pseudocount, and a   *)
(* row of zeros stays 0/0: only rows of counts are made uniform then.      *)
estimate_transition_matrix(observations, alpha) ==
    LET history == [i \in DOMAIN observations |-> encode_state(observations[i])]
        few == Len(observations) < 2
        counts == IF few THEN [s \in States |-> [t \in States |-> 0]] ELSE _count_transitions_jit(history)
        matrix == _row_normalise_jit(counts, alpha)
    IN  [raw_counts |-> counts, matrix |-> IF few THEN matrix ELSE Repaired(matrix),
         n_observations |-> Max({0, Len(observations) - 1})]
-----------------------------------------------------------------------------
(* The stored transitions of the tenant's latest matrix, each row made to  *)
(* sum to one again; a row nothing is stored of stays empty.               *)
_build_matrix(rows) ==
    LET stored(s, t) == {r.probability : r \in {x \in rows : x.from_state = s /\ x.to_state = t}}
        terms == [s \in States |-> [t \in States |-> IF stored(s, t) = {} THEN 0 ELSE CHOOSE p \in stored(s, t) : TRUE]]
    IN  [s \in States |-> [terms |-> terms[s], sum |-> Total(States, LAMBDA t : terms[s][t])]]

(* Largest first; of equals the one with the larger number.                *)
Descending(score, S) ==
    InOrder(S, LAMBDA x, y : score[x] > score[y] \/ (score[x] = score[y] /\ x > y))

(* At most ten states; a matrix with an empty row is refused.              *)
compute_steady_state(matrix, stationary) ==
    LET sorted == Descending(stationary, States)
    IN  IF \E s \in States : matrix[s].sum = 0 THEN None
        ELSE SubSeq(sorted, 1, Min({10, Len(sorted)}))

Likely(matrix, s, t) == 20 * matrix[s].terms[t] > matrix[s].sum

(* A tenant without a matrix gets a 404.                                   *)
get_steady_state(meta, rows, stationary) ==
    IF meta = None THEN None ELSE compute_steady_state(_build_matrix(rows), stationary)

get_top_transitions(meta, rows, stationary, top_n) ==
    LET matrix == _build_matrix(rows)
        top == compute_steady_state(matrix, stationary)
        shown == SubSeq(top, 1, Min({Len(top), Max({3, Min({top_n, 15})})}))
        chosen == {e \in ToSet(shown) \X ToSet(shown) : e[1] # e[2] /\ Likely(matrix, e[1], e[2])}
        more(e, f) == matrix[e[1]].terms[e[2]] * matrix[f[1]].sum > matrix[f[1]].terms[f[2]] * matrix[e[1]].sum
        place(s) == CHOOSE i \in DOMAIN shown : shown[i] = s
    IN  IF meta = None \/ top = None THEN None
        ELSE [top_state_indices |-> shown,
              edges |-> InOrder(chosen, LAMBDA e, f :
                            \/ more(e, f)
                            \/ /\ ~more(f, e)
                               /\ \/ place(e[1]) < place(f[1])
                                  \/ e[1] = f[1] /\ place(e[2]) < place(f[2]))]
-----------------------------------------------------------------------------
(* Every state has a number of its own, every number is a state's, and a   *)
(* state whose level is higher in an earlier dimension comes later.        *)
EveryStateHasItsNumber(levels, others) ==
    LET differs == {d \in 1..Dims : levels[d] # others[d]}
    IN  /\ encode_state(levels) \in States
        /\ decode_state(encode_state(levels)) = levels
        /\ differs # {} /\ levels[Min(differs)] < others[Min(differs)]
              => encode_state(levels) < encode_state(others)

(* The counts follow the history: every state is left as often as it is    *)
(* entered, but for the first and the last.  A row is a distribution, with *)
(* one exception: without a pseudocount and with fewer than two            *)
(* observations there is none, every row is 0/0 (MatrixIsStochastic,       *)
(* below, does not hold).  With a pseudocount every transition is          *)
(* possible, a state never left leads anywhere alike, and of two           *)
(* transitions from a state the one seen more often is the likelier.       *)
MatrixFollowsTheHistory(observations, alpha) ==
    LET est == estimate_transition_matrix(observations, alpha)
        left(s) == Total(States, LAMBDA t : est.raw_counts[s][t])
        entered(s) == Total(States, LAMBDA t : est.raw_counts[t][s])
        first(s) == IF encode_state(observations[1]) = s THEN 1 ELSE 0
        last(s) == IF encode_state(Last(observations)) = s THEN 1 ELSE 0
    IN  /\ Total(States, left) = est.n_observations
        /\ Len(observations) > 1 =>
              /\ \A s \in States : left(s) - entered(s) = first(s) - last(s)
              /\ \A i \in 1..(Len(observations) - 1) :
                    est.raw_counts[encode_state(observations[i])][encode_state(observations[i + 1])] > 0
        /\ \A s \in States :
              /\ est.matrix[s].sum = Total(States, LAMBDA t : est.matrix[s].terms[t])
              /\ est.matrix[s].sum = 0 <=> alpha = 0 /\ Len(observations) < 2
              /\ est.matrix[s].sum > 0 /\ (alpha > 0 \/ left(s) = 0) =>
                    \A t \in States : est.matrix[s].terms[t] > 0
              /\ \A t, u \in States :
                    est.raw_counts[s][t] >= est.raw_counts[s][u] => est.matrix[s].terms[t] >= est.matrix[s].terms[u]

(* What markov.py:157 says of every result, and the code does not keep:    *)
(* "row-normalised probability matrix".                                    *)
MatrixIsStochastic(observations, alpha) ==
    \A s \in States : estimate_transition_matrix(observations, alpha).matrix[s].sum > 0

(* The diagram leaves nothing out: no state it shows is less likely than   *)
(* one it does not, every likely move between two of them is drawn, and    *)
(* the states come in the order of the answer for the steady state.        *)
DiagramLeavesNothingOut(rows, stationary, top_n) ==
    LET answer == get_top_transitions("m", rows, stationary, top_n)
        shown == ToSet(answer.top_state_indices)
        matrix == _build_matrix(rows)
    IN  answer # None =>
            /\ \A s \in shown, t \in States \ shown : stationary[s] >= stationary[t]
            /\ \A s, t \in shown :
                  s # t /\ 20 * matrix[s].terms[t] > matrix[s].sum => \E k \in DOMAIN answer.edges : answer.edges[k] = <<s, t>>
            /\ IsPrefix(answer.top_state_indices, get_steady_state("m", rows, stationary))
            /\ \A k \in 2..Len(answer.edges) :
                  LET e == answer.edges[k - 1]
                      f == answer.edges[k]
                  IN  matrix[e[1]].terms[e[2]] * matrix[f[1]].sum >= matrix[f[1]].terms[f[2]] * matrix[e[1]].sum

=============================================================================
