----------------------------- MODULE LLMRouting -----------------------------
(***************************************************************************)
(* A call of the language model: LLMRouter.complete_with_routing           *)
(* (services/llm/router.py) with the circuit breaker and the token meter   *)
(* it uses, and the pool of database connections under the meter.          *)
(*                                                                         *)
(* The API process is one event loop, so that what a call does between two *)
(* awaits is one action.  It awaits a connection for the quota, a          *)
(* provider's answer, and a connection for the usage.  Some callers, such  *)
(* as draft_chat, hold a connection of their own all the while;            *)
(* asyncpg's acquire has no timeout.                                       *)
(***************************************************************************)
EXTENDS Naturals, Sequences, FiniteSets, FiniteSetsExt

CONSTANTS
    Call,           \* calls that may be in flight together
    Holding,        \* those whose caller holds a connection meanwhile
    Provider,
    Candidates,     \* what resolve gives for the task: providers in order
    Configured,     \* providers with an API key
    Threshold,      \* circuit_breaker_failure_threshold
    Limit,          \* llm_tokens_monthly_limit, in answers of the model
    PoolSize        \* pool_max_size

ASSUME RoutingConstants ==
    /\ Holding \subseteq Call /\ IsFiniteSet(Call)
    /\ Candidates \in Seq(Provider) /\ Configured \subseteq Provider
    /\ Threshold \in Nat \ {0} /\ Limit \in Nat /\ PoolSize \in Nat \ {0}

VARIABLES
    breaker,        \* CircuitBreaker, per provider
    call,           \* per call: where it is, the candidate it is at
    usage           \* answers in llm_usage_log this month

vars == <<breaker, call, usage>>
-----------------------------------------------------------------------------
(* cooled: recovery_timeout_sec have passed since the last failure.        *)
(* Failures are counted up to the threshold: above it they are all alike.  *)
Breaker == [state : {"closed", "open", "half_open"},
            failures : 0 .. Threshold, cooled : BOOLEAN]
Closed == [state |-> "closed", failures |-> 0, cooled |-> FALSE]

CallRecord == [pc : {"idle", "limit", "checks", "model", "usage", "records"},
               at : 0 .. Len(Candidates)]
Asked == {"model", "usage", "records"}      \* a provider has been asked
NoCall == [pc |-> "idle", at |-> 0]

Init ==
    /\ breaker = [p \in Provider |-> Closed]
    /\ call = [c \in Call |-> NoCall]
    /\ usage = 0

(* The connections in use: those that callers keep, and those the quota    *)
(* and usage statements have, from acquire until they have run.  (Faulty,  *)
(* for the properties to tell from it: a meter that gives its connection   *)
(* back only when the call ends.)                                          *)
Kept == {c \in Holding : call[c].pc # "idle"}
Querying_UntilTheEnd == {c \in Call : call[c].pc \notin {"idle", "limit"}}
Querying == {c \in Call : call[c].pc \in {"checks", "records"}}
FreeConnection == Cardinality(Kept) + Cardinality(Querying) < PoolSize

Ends(c) == call' = [call EXCEPT ![c] = NoCall]
-----------------------------------------------------------------------------
(* Faulty versions, which the properties tell from the ones below.         *)

(* record_success that leaves the failure count.                           *)
record_success_KeepsCount(b, p) == [b EXCEPT ![p].state = "closed"]

(* record_failure that starts the half-open count anew.                    *)
record_failure_Restarts(b, p) ==
    LET n == IF b[p].state = "half_open" THEN 1
             ELSE Min({b[p].failures + 1, Threshold})
    IN  [b EXCEPT ![p] = [state |-> IF b[p].state = "half_open" \/ n >= Threshold
                                    THEN "open" ELSE b[p].state,
                          failures |-> n, cooled |-> FALSE]]
-----------------------------------------------------------------------------
(* is_open of a provider, and the state it is left in.                     *)
is_open(b, p) == b[p].state = "open" /\ ~b[p].cooled
HalfOpens(b, p) ==
    IF b[p].state = "open" THEN [b EXCEPT ![p].state = "half_open"] ELSE b

record_failure(b, p) ==
    LET n == IF b[p].state = "half_open" THEN b[p].failures
             ELSE Min({b[p].failures + 1, Threshold})
    IN  [b EXCEPT ![p] = [state |-> IF b[p].state = "half_open" \/ n >= Threshold
                                    THEN "open" ELSE b[p].state,
                          failures |-> n, cooled |-> FALSE]]

record_success(b, p) == [b EXCEPT ![p].state = "closed", ![p].failures = 0]

(* A loop that asks a provider without a key: another faulty version.      *)
Goes_NoKey(c, b, i) ==
    LET able == {j \in i .. Len(Candidates) : ~is_open(b, Candidates[j])}
    IN  \/ /\ able = {} /\ Ends(c) /\ breaker' = b
        \/ /\ able # {}
           /\ call' = [call EXCEPT ![c] = [pc |-> "model", at |-> Min(able)]]
           /\ breaker' = HalfOpens(b, Candidates[Min(able)])

(* The loop over the candidates from the i-th on, with breakers b: open    *)
(* ones and ones without a key are skipped, the next is asked; without one *)
(* the call ends in LLMError.                                              *)
Goes(c, b, i) ==
    LET admitted == {j \in i .. Len(Candidates) : ~is_open(b, Candidates[j])}
        able == {j \in admitted : Candidates[j] \in Configured}
    IN  \/ /\ able = {} /\ Ends(c) /\ breaker' = b
        \/ /\ able # {}
           /\ call' = [call EXCEPT ![c] = [pc |-> "model", at |-> Min(able)]]
           /\ breaker' = HalfOpens(b, Candidates[Min(able)])
-----------------------------------------------------------------------------
(* A faulty version again: a check_limit with <= for <.                    *)
CheckLimit_Inclusive(c) ==
    /\ call[c].pc = "checks"
    /\ \/ usage <= Limit /\ Goes(c, breaker, 1)
       \/ usage > Limit /\ Ends(c) /\ UNCHANGED breaker
    /\ UNCHANGED usage
-----------------------------------------------------------------------------
(* A request arrives and, if it is of that kind, takes its connection.     *)
Begin(c) ==
    /\ call[c].pc = "idle"
    /\ c \in Holding => FreeConnection
    /\ call' = [call EXCEPT ![c].pc = "limit"]
    /\ UNCHANGED <<breaker, usage>>

(* tenant_conn, for the quota or for the usage.                            *)
Acquire(c) ==
    /\ FreeConnection
    /\ \/ call[c].pc = "limit" /\ call' = [call EXCEPT ![c].pc = "checks"]
       \/ call[c].pc = "usage" /\ call' = [call EXCEPT ![c].pc = "records"]
    /\ UNCHANGED <<breaker, usage>>

CheckLimit(c) ==
    /\ call[c].pc = "checks"
    /\ \/ usage < Limit /\ Goes(c, breaker, 1)
       \/ usage >= Limit /\ Ends(c) /\ UNCHANGED breaker    \* quota exceeded
       \/ Ends(c) /\ UNCHANGED breaker                      \* the database fails
    /\ UNCHANGED usage

(* The provider answers, and its success is recorded at once.              *)
ModelAnswers(c) ==
    /\ call[c].pc = "model"
    /\ call' = [call EXCEPT ![c].pc = "usage"]
    /\ breaker' = record_success(breaker, Candidates[call[c].at])
    /\ UNCHANGED usage

ModelFails(c) ==
    /\ call[c].pc = "model"
    /\ Goes(c, record_failure(breaker, Candidates[call[c].at]), call[c].at + 1)
    /\ UNCHANGED usage

add_usage(c) ==
    /\ call[c].pc = "records"
    /\ usage' = usage + 1
    /\ Ends(c)
    /\ UNCHANGED breaker

(* The same try covers the usage, so that a database error counts against  *)
(* the provider and the next one is asked; the row may have been written.  *)
UsageFails(c) ==
    /\ call[c].pc = "records"
    /\ Goes(c, record_failure(breaker, Candidates[call[c].at]), call[c].at + 1)
    /\ usage' \in {usage, usage + 1}

(* recovery_timeout_sec pass.                                              *)
Cool(p) ==
    /\ ~breaker[p].cooled
    /\ breaker' = [breaker EXCEPT ![p].cooled = TRUE]
    /\ UNCHANGED <<call, usage>>
-----------------------------------------------------------------------------
Step(c) ==
    Acquire(c) \/ CheckLimit(c) \/ ModelAnswers(c) \/ ModelFails(c) \/ add_usage(c)
        \/ UsageFails(c)

Next ==
    \/ \E c \in Call : Begin(c) \/ Step(c)
    \/ \E p \in Provider : Cool(p)

Spec == Init /\ [][Next]_vars

(* The providers' clients time out, and the pool serves its waiters in     *)
(* turn.  Callers and clocks promise nothing.                              *)
FairSpec == Spec /\ \A c \in Call : SF_vars(Step(c))
-----------------------------------------------------------------------------
TypeOK ==
    /\ breaker \in [Provider -> Breaker]
    /\ call \in [Call -> CallRecord]
    /\ \A c \in Call : call[c].pc \in Asked =>
          call[c].at > 0 /\ Candidates[call[c].at] \in Configured
    /\ usage \in Nat

(* The breaker's state and count never contradict each other, although     *)
(* successes and failures of calls that began before a breaker opened are  *)
(* recorded after it: what is not closed has failed Threshold times since  *)
(* the last success, what is closed has not.                               *)
StateMatchesCount ==
    \A p \in Provider : breaker[p].state = "closed" <=> breaker[p].failures < Threshold

(* Check-then-act on the quota lets concurrent calls past it, but by no    *)
(* more than one answer per call and provider it may ask.                  *)
Able == {i \in DOMAIN Candidates : Candidates[i] \in Configured}
OvershootBounded ==
    usage = 0 \/ usage < Limit + Cardinality(Call) * Cardinality(Able)

(* Every call ends, although it waits for connections that other calls     *)
(* have and, holding one of its own, makes others wait: as long as fewer   *)
(* callers keep a connection than the pool has, one of those the meters    *)
(* use is always given back.  (With as many the calls do not end: the run  *)
(* FindPoolExhausted.)                                                     *)
CallsEnd == \A c \in Call : call[c].pc # "idle" ~> call[c].pc = "idle"
=============================================================================
