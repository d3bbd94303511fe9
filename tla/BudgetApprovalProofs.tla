------------------------ MODULE BudgetApprovalProofs ------------------------
(***************************************************************************)
(* The inductive invariant of BudgetApproval, and what follows from it for *)
(* any number of requests, instances, versions and accounts: the approval  *)
(* of an active budget, the instance of a submitted one, the numbering of  *)
(* versions.                                                               *)
(***************************************************************************)
EXTENDS BudgetApproval, TLAPS

USE BudgetConstants

(* An approval is remembered: whoever is about to complete an instance     *)
(* read it as approved, however long ago.                                  *)
ApprovalsKnown ==
    /\ \A i \in Instance : instance[i] \in {"approved", "completed"} => i \in approvals
    /\ \A r \in Req : req[r].pc = "update" =>
        /\ req[r].to \notin {"none", "pending"}
        /\ req[r].to = "completed" => req[r].of \in approvals

(* The numbers in use are 1 .. k, and every reforecast in flight read some *)
(* prefix of them: it adds the next number or one that is in use.          *)
NumbersUpTo(k) ==
    /\ \A v \in Version : number[v] \in 0 .. k
    /\ \A n \in 1 .. k : \E v \in Version : number[v] = n
    /\ \A r \in Req : req[r].pc \in {"version", "model"} => req[r].n \in 1 .. k + 1

IInv ==
    /\ TypeOK
    /\ ApprovalsKnown
    /\ "active" \notin PatchStatus => ActiveWasApproved
    /\ "submitted" \notin PatchStatus => SubmittedHasInstance
    /\ \E k \in Nat \ {0} : NumbersUpTo(k)
-----------------------------------------------------------------------------
(* What a step of one request leaves of the others.                        *)
LEMMA ReadsFacts ==
    ASSUME TypeOK, NEW r \in Req, NEW q \in Request, Reads(r, q)
    PROVE  /\ req' \in [Req -> Request]
           /\ req'[r] = q
           /\ \A s \in Req : s # r => req'[s] = req[s]
           /\ UNCHANGED <<budget, instance, approvals, number, lines, lock>>
  BY DEF TypeOK, Reads, approval, versions

LEMMA EndsFacts ==
    ASSUME TypeOK, NEW r \in Req, Ends(r)
    PROVE  /\ req' \in [Req -> Request]
           /\ req'[r].pc = "idle"
           /\ \A s \in Req : s # r => req'[s] = req[s]
  BY DEF TypeOK, Ends, Idle, Request

LEMMA KindFacts ==
    ASSUME NEW q \in Request
    PROVE  /\ q.pc = "update" => q.of \in Instance /\ q.to \in InstanceStatus
           /\ q.pc \in {"add", "remove"} => q.to \in Version /\ q.account \in Account
           /\ q.pc \in {"version", "model"} => q.copy \in SUBSET Account /\ q.n \in Nat
  BY DEF Request

(* The numbers 1 .. k are in use and no other: k is their maximum.         *)
LEMMA MaxFacts ==
    ASSUME NEW k \in Nat \ {0}, NumbersUpTo(k)
    PROVE  Max({number[v] : v \in Version}) = k
  <1> DEFINE S == {number[v] : v \in Version}
  <1>1. k \in S /\ \A y \in S : y \in 0 .. k
    BY DEF NumbersUpTo
  <1>2. \A x \in S : (\A y \in S : x >= y) => x = k
    BY <1>1
  <1>3. k \in S /\ \A y \in S : k >= y
    BY <1>1
  <1>4. QED
    BY <1>2, <1>3 DEF Max

LEMMA InitHolds == Init => IInv
  <1> SUFFICES ASSUME Init PROVE IInv
    OBVIOUS
  <1>1. TypeOK
    BY DEF Init, TypeOK, Budget, BudgetStatus, InstanceStatus, Idle, Request
  <1>2. ApprovalsKnown /\ ActiveWasApproved /\ SubmittedHasInstance
    BY DEF Init, ApprovalsKnown, ActiveWasApproved, SubmittedHasInstance, Idle
  <1>3. NumbersUpTo(1)
    BY DEF Init, NumbersUpTo, Idle
  <1>4. QED
    BY <1>1, <1>2, <1>3 DEF IInv-----------------------------------------------------------------------------
(* A request that has read: what it knows must agree with the tables.      *)
LEMMA ReadKeeps ==
    ASSUME IInv, NEW r \in Req, NEW q \in Request, Reads(r, q),
           q.pc = "update" => /\ q.to \notin {"none", "pending"}
                              /\ q.to = "completed" => q.of \in approvals,
           \A k \in Nat \ {0} : NumbersUpTo(k) /\ q.pc \in {"version", "model"} =>
                q.n \in 1 .. k + 1
    PROVE  IInv'
  <1>1. /\ req' \in [Req -> Request] /\ req'[r] = q
        /\ \A s \in Req : s # r => req'[s] = req[s]
        /\ UNCHANGED <<budget, instance, approvals, number, lines, lock>>
    BY ReadsFacts DEF IInv
  <1>2. TypeOK'
    BY <1>1 DEF IInv, TypeOK
  <1>3. ApprovalsKnown'
    BY <1>1 DEF IInv, ApprovalsKnown
  <1>4. /\ "active" \notin PatchStatus => ActiveWasApproved'
        /\ "submitted" \notin PatchStatus => SubmittedHasInstance'
    BY <1>1 DEF IInv, ActiveWasApproved, SubmittedHasInstance
  <1>5. ASSUME NEW k \in Nat \ {0}, NumbersUpTo(k) PROVE NumbersUpTo(k)'
    BY <1>1, <1>5 DEF NumbersUpTo
  <1>6. QED
    BY <1>2, <1>3, <1>4, <1>5 DEF IInv

LEMMA ArriveKeeps ==
    ASSUME IInv, NEW r \in Req, Arrive(r)
    PROVE  IInv'
  <1>1. CASE SubmitReads(r)
    <2> DEFINE q == [pc |-> "submit"]
    <2>1. q \in Request /\ q.pc = "submit" /\ Reads(r, q)
      BY <1>1 DEF SubmitReads, Request
    <2>2. QED
      BY <2>1, ReadKeeps
  <1>2. CASE InstanceReads(r)
    <2> PICK i \in Instance : \E t \in allowed_transitions[instance[i]] :
                Reads(r, [pc |-> "update", of |-> i, to |-> t])
      BY <1>2 DEF InstanceReads
    <2>1. PICK t \in allowed_transitions[instance[i]] :
                Reads(r, [pc |-> "update", of |-> i, to |-> t])
      OBVIOUS
    <2> DEFINE q == [pc |-> "update", of |-> i, to |-> t]
    <2>2. instance[i] \in InstanceStatus
      BY DEF IInv, TypeOK
    <2>3. /\ t \in InstanceStatus \ {"none", "pending"}
          /\ t = "completed" => instance[i] = "approved"
      BY <2>2 DEF allowed_transitions, InstanceStatus
    <2>4. q \in Request /\ q.pc = "update" /\ q.to = t /\ q.of = i
      BY <2>3 DEF Request
    <2>5. t = "completed" => i \in approvals
      BY <2>3 DEF IInv, ApprovalsKnown
    <2>6. QED
      BY <2>1, <2>3, <2>4, <2>5, ReadKeeps
  <1>3. CASE LineReads(r)
    <2>1. PICK pc \in {"add", "remove"}, a \in Account :
                Reads(r, [pc |-> pc, to |-> budget.current, account |-> a])
      BY <1>3 DEF LineReads
    <2> DEFINE q == [pc |-> pc, to |-> budget.current, account |-> a]
    <2>2. q \in Request /\ q.pc = pc
      BY DEF Request, IInv, TypeOK, Budget
    <2>3. QED
      BY <2>1, <2>2, ReadKeeps
  <1>4. CASE ReforecastReads(r)
    <2>1. PICK k \in Nat \ {0} : NumbersUpTo(k)
      BY DEF IInv
    <2> DEFINE q == [pc |-> "version", copy |-> lines[budget.current], n |-> 1 + k]
    <2>2. Reads(r, q)
      <3>1. Max({number[v] : v \in Version}) = k
        BY <2>1, MaxFacts
      <3>2. QED
        BY <1>4, <3>1 DEF ReforecastReads
    <2>3. q \in Request /\ q.pc = "version" /\ q.n = 1 + k
      BY DEF Request, IInv, TypeOK, Budget
    <2>4. ASSUME NEW j \in Nat \ {0}, NumbersUpTo(j) PROVE q.n \in 1 .. j + 1
      <3>1. j = k
        BY <2>1, <2>4, MaxFacts
      <3>2. QED
        BY <3>1
    <2>5. QED
      BY <2>2, <2>3, <2>4, ReadKeeps
  <1>5. QED
    BY <1>1, <1>2, <1>3, <1>4 DEF Arrive
-----------------------------------------------------------------------------
(* The steps that follow.                                                  *)
LEMMA NumbersKept ==
    ASSUME NEW k \in Nat \ {0}, NumbersUpTo(k), NEW r \in Req, number' = number,
           req'[r].pc \in {"version", "model"} =>
                req[r].pc \in {"version", "model"} /\ req'[r].n = req[r].n,
           \A s \in Req : s # r => req'[s] = req[s]
    PROVE  NumbersUpTo(k)'
  BY DEF NumbersUpTo

LEMMA SubmitWritesKeeps ==
    ASSUME IInv, NEW r \in Req, SubmitWrites(r)
    PROVE  IInv'
  <1> USE DEF IInv
  <1>1. PICK i \in Instance :
            /\ instance[i] = "none"
            /\ instance' = [instance EXCEPT ![i] = "pending"]
            /\ budget' = [budget EXCEPT !.status = "submitted", !.wf = i]
            /\ Ends(r)
            /\ UNCHANGED <<approvals, number, lines, lock>>
    BY DEF SubmitWrites, versions
  <1>2. /\ req' \in [Req -> Request] /\ req'[r].pc = "idle"
        /\ \A s \in Req : s # r => req'[s] = req[s]
    BY <1>1, EndsFacts
  <1>3. TypeOK'
    BY <1>1, <1>2 DEF TypeOK, Budget, BudgetStatus, InstanceStatus
  <1>4. ApprovalsKnown'
    BY <1>1, <1>2 DEF ApprovalsKnown, TypeOK
  <1>5. ActiveWasApproved' /\ SubmittedHasInstance'
    BY <1>1 DEF ActiveWasApproved, SubmittedHasInstance, TypeOK, Budget
  <1>6. \E k \in Nat \ {0} : NumbersUpTo(k)'
    BY <1>1, <1>2, NumbersKept
  <1>7. QED
    BY <1>3, <1>4, <1>5, <1>6

LEMMA InstanceWritesKeeps ==
    ASSUME IInv, NEW r \in Req, InstanceWrites(r)
    PROVE  IInv'
  <1> USE DEF IInv
  <1> DEFINE i == req[r].of
             t == req[r].to
             activates == t = "completed" /\ budget.wf = i
  <1>1. /\ req[r].pc = "update"
        /\ instance' = [instance EXCEPT ![i] = t]
        /\ approvals' = IF t = "approved" THEN approvals \cup {i} ELSE approvals
        /\ budget' = IF activates THEN [budget EXCEPT !.status = "active"] ELSE budget
        /\ Ends(r)
        /\ UNCHANGED <<number, lines, lock>>
    BY DEF InstanceWrites, versions
  <1>2. /\ req' \in [Req -> Request] /\ req'[r].pc = "idle"
        /\ \A s \in Req : s # r => req'[s] = req[s]
    BY <1>1, EndsFacts
  <1>3. /\ i \in Instance /\ t \in InstanceStatus \ {"none", "pending"}
        /\ t = "completed" => i \in approvals
    BY <1>1, KindFacts DEF ApprovalsKnown, TypeOK
  <1>4. TypeOK'
    <2>1. budget' \in Budget
      BY <1>1 DEF TypeOK, Budget, BudgetStatus
    <2>2. QED
      BY <1>1, <1>2, <1>3, <2>1 DEF TypeOK
  <1>5. ApprovalsKnown'
    BY <1>1, <1>2, <1>3 DEF ApprovalsKnown, TypeOK
  <1>6. "active" \notin PatchStatus => ActiveWasApproved'
    BY <1>1, <1>3 DEF ActiveWasApproved, TypeOK, Budget
  <1>7. "submitted" \notin PatchStatus => SubmittedHasInstance'
    <2> SUFFICES ASSUME "submitted" \notin PatchStatus, budget'.status = "submitted"
                 PROVE  SubmittedHasInstance'
      BY DEF SubmittedHasInstance
    <2>1. ~activates /\ budget' = budget
      BY <1>1 DEF TypeOK, Budget
    <2>2. budget.wf # None /\ instance[budget.wf] \notin {"none", "completed"}
      BY <2>1 DEF SubmittedHasInstance
    <2>3. instance'[budget.wf] \notin {"none", "completed"}
      BY <1>1, <1>3, <2>1, <2>2 DEF TypeOK, Budget
    <2>4. QED
      BY <2>1, <2>2, <2>3 DEF SubmittedHasInstance
  <1>8. \E k \in Nat \ {0} : NumbersUpTo(k)'
    BY <1>1, <1>2, NumbersKept
  <1>9. QED
    BY <1>4, <1>5, <1>6, <1>7, <1>8
LEMMA LineWritesKeeps ==
    ASSUME IInv, NEW r \in Req, LineWrites(r)
    PROVE  IInv'
  <1> USE DEF IInv
  <1>1. /\ req[r].pc \in {"add", "remove"}
        /\ lines' = [lines EXCEPT ![req[r].to] =
                        IF req[r].pc = "add" THEN @ \cup {req[r].account}
                                             ELSE @ \ {req[r].account}]
        /\ Ends(r)
        /\ UNCHANGED <<budget, instance, approvals, number, lock>>
    BY DEF LineWrites, approval
  <1>2. /\ req' \in [Req -> Request] /\ req'[r].pc = "idle"
        /\ \A s \in Req : s # r => req'[s] = req[s]
    BY <1>1, EndsFacts
  <1>3. req[r].to \in Version /\ req[r].account \in Account
    BY <1>1, KindFacts DEF TypeOK
  <1>4. TypeOK'
    BY <1>1, <1>2, <1>3 DEF TypeOK
  <1>5. ApprovalsKnown'
    BY <1>1, <1>2 DEF ApprovalsKnown
  <1>6. /\ "active" \notin PatchStatus => ActiveWasApproved'
        /\ "submitted" \notin PatchStatus => SubmittedHasInstance'
    BY <1>1 DEF ActiveWasApproved, SubmittedHasInstance
  <1>7. \E k \in Nat \ {0} : NumbersUpTo(k)'
    BY <1>1, <1>2, NumbersKept
  <1>8. QED
    BY <1>4, <1>5, <1>6, <1>7

LEMMA LockKeeps ==
    ASSUME IInv, NEW r \in Req, ensure_budget_version(r)
    PROVE  IInv'
  <1> USE DEF IInv
  <1>1. /\ req[r].pc = "version"
        /\ lock' = r
        /\ req' = [req EXCEPT ![r].pc = "model"]
        /\ UNCHANGED <<budget, instance, approvals, number, lines>>
    BY DEF ensure_budget_version, approval, versions
  <1>2. req[r] \in [pc : {"version", "model"}, copy : SUBSET Account, n : Nat]
    BY <1>1 DEF TypeOK, Request
  <1>3. /\ req' \in [Req -> Request]
        /\ req'[r].pc = "model" /\ req'[r].n = req[r].n
        /\ \A s \in Req : s # r => req'[s] = req[s]
    BY <1>1, <1>2 DEF TypeOK, Request
  <1>4. TypeOK'
    BY <1>1, <1>3 DEF TypeOK
  <1>5. ApprovalsKnown'
    BY <1>1, <1>3 DEF ApprovalsKnown
  <1>6. /\ "active" \notin PatchStatus => ActiveWasApproved'
        /\ "submitted" \notin PatchStatus => SubmittedHasInstance'
    BY <1>1 DEF ActiveWasApproved, SubmittedHasInstance
  <1>7. \E k \in Nat \ {0} : NumbersUpTo(k)'
    BY <1>1, <1>3, NumbersKept
  <1>8. QED
    BY <1>4, <1>5, <1>6, <1>7

(* The number that was read is written: it is in use by now, or the next.  *)
LEMMA ReforecastWritesKeeps ==
    ASSUME IInv, NEW r \in Req, ReforecastWrites(r)
    PROVE  IInv'
  <1> USE DEF IInv
  <1> DEFINE n == req[r].n
  <1>1. PICK v \in Version :
            /\ req[r].pc = "model" /\ number[v] = 0
            /\ number' = [number EXCEPT ![v] = n]
            /\ lines' = [lines EXCEPT ![v] = req[r].copy]
            /\ budget' = [budget EXCEPT !.current = v]
            /\ lock' = None
            /\ Ends(r)
            /\ UNCHANGED <<instance, approvals>>
    BY DEF ReforecastWrites, approval
  <1>2. /\ req' \in [Req -> Request] /\ req'[r].pc = "idle"
        /\ \A s \in Req : s # r => req'[s] = req[s]
    BY <1>1, EndsFacts
  <1>3. n \in Nat /\ req[r].copy \in SUBSET Account
    BY <1>1, KindFacts DEF TypeOK
  <1>4. TypeOK'
    BY <1>1, <1>2, <1>3 DEF TypeOK, Budget
  <1>5. ApprovalsKnown'
    BY <1>1, <1>2 DEF ApprovalsKnown
  <1>6. /\ "active" \notin PatchStatus => ActiveWasApproved'
        /\ "submitted" \notin PatchStatus => SubmittedHasInstance'
    BY <1>1 DEF ActiveWasApproved, SubmittedHasInstance, TypeOK, Budget
  <1>7. \E k \in Nat \ {0} : NumbersUpTo(k)'
    <2>1. PICK k \in Nat \ {0} : NumbersUpTo(k)
      OBVIOUS
    <2>2. n \in 1 .. k + 1
      BY <1>1, <2>1 DEF NumbersUpTo
    <2>3. PICK j \in Nat \ {0} :
                k <= j /\ n \in 1 .. j /\ \A m \in 1 .. j : m # n => m <= k
      <3>1. CASE n = k + 1
        BY <3>1
      <3>2. CASE n # k + 1
        BY <2>2, <3>2
      <3>3. QED
        BY <3>1, <3>2
    <2>4. number'[v] = n /\ \A u \in Version : u # v => number'[u] = number[u]
      BY <1>1 DEF TypeOK
    <2>5. \A u \in Version : number'[u] \in 0 .. j
      BY <2>1, <2>3, <2>4 DEF NumbersUpTo
    <2>6. ASSUME NEW m \in 1 .. j PROVE \E u \in Version : number'[u] = m
      <3>1. CASE m = n
        BY <3>1, <2>4
      <3>2. CASE m # n
        <4>1. m \in 1 .. k
          BY <3>2, <2>3
        <4>2. PICK u \in Version : number[u] = m
          BY <4>1, <2>1 DEF NumbersUpTo
        <4>3. u # v
          BY <4>1, <4>2, <1>1
        <4>4. QED
          BY <4>2, <4>3, <2>4
      <3>3. QED
        BY <3>1, <3>2
    <2>7. \A s \in Req : req'[s].pc \in {"version", "model"} => req'[s].n \in 1 .. j + 1
      BY <1>2, <2>1, <2>3 DEF NumbersUpTo
    <2>8. NumbersUpTo(j)'
      BY <2>5, <2>6, <2>7 DEF NumbersUpTo
    <2>9. QED
      BY <2>3, <2>8
  <1>8. QED
    BY <1>4, <1>5, <1>6, <1>7

LEMMA FailureKeeps ==
    ASSUME IInv, NEW r \in Req, ReforecastFails(r) \/ Fail(r)
    PROVE  IInv'
  <1> USE DEF IInv
  <1>1. /\ Ends(r) /\ (lock' = None \/ lock' = lock)
        /\ UNCHANGED <<budget, instance, approvals, number, lines>>
    BY DEF ReforecastFails, Fail, approval, versions
  <1>2. /\ req' \in [Req -> Request] /\ req'[r].pc = "idle"
        /\ \A s \in Req : s # r => req'[s] = req[s]
    BY <1>1, EndsFacts
  <1>3. TypeOK'
    BY <1>1, <1>2 DEF TypeOK
  <1>4. ApprovalsKnown'
    BY <1>1, <1>2 DEF ApprovalsKnown
  <1>5. /\ "active" \notin PatchStatus => ActiveWasApproved'
        /\ "submitted" \notin PatchStatus => SubmittedHasInstance'
    BY <1>1 DEF ActiveWasApproved, SubmittedHasInstance
  <1>6. \E k \in Nat \ {0} : NumbersUpTo(k)'
    BY <1>1, <1>2, NumbersKept
  <1>7. QED
    BY <1>3, <1>4, <1>5, <1>6

LEMMA PatchKeeps ==
    ASSUME IInv, update_budget
    PROVE  IInv'
  <1> USE DEF IInv
  <1>1. PICK s \in PatchStatus : budget' = [budget EXCEPT !.status = s]
    BY DEF update_budget
  <1>2. UNCHANGED <<instance, approvals, number, lines, lock, req>>
    BY DEF update_budget, approval, versions
  <1>3. TypeOK'
    BY <1>1, <1>2 DEF TypeOK, Budget
  <1>4. ApprovalsKnown'
    BY <1>2 DEF ApprovalsKnown
  <1>5. /\ "active" \notin PatchStatus => ActiveWasApproved'
        /\ "submitted" \notin PatchStatus => SubmittedHasInstance'
    BY <1>1, <1>2 DEF ActiveWasApproved, SubmittedHasInstance, TypeOK, Budget
  <1>6. \E k \in Nat \ {0} : NumbersUpTo(k)'
    BY <1>2 DEF NumbersUpTo
  <1>7. QED
    BY <1>3, <1>4, <1>5, <1>6
-----------------------------------------------------------------------------
(* The invariant of the specification.                                     *)
THEOREM Inductive == Spec => []IInv
  <1>1. ASSUME IInv, [Next]_vars PROVE IInv'
    <2>1. CASE update_budget
      BY <1>1, <2>1, PatchKeeps
    <2>2. ASSUME NEW r \in Req, Arrive(r) PROVE IInv'
      BY <1>1, <2>2, ArriveKeeps
    <2>3. ASSUME NEW r \in Req, Step(r) PROVE IInv'
      BY <1>1, <2>3, SubmitWritesKeeps, InstanceWritesKeeps, LineWritesKeeps,
         LockKeeps, ReforecastWritesKeeps, FailureKeeps DEF Step
    <2>4. CASE UNCHANGED vars
      <3>1. \A k \in Nat \ {0} : NumbersUpTo(k) => NumbersUpTo(k)'
        BY <2>4 DEF vars, NumbersUpTo
      <3>2. TypeOK' /\ ApprovalsKnown'
        BY <1>1, <2>4 DEF vars, IInv, TypeOK, ApprovalsKnown
      <3>3. QED
        BY <1>1, <2>4, <3>1, <3>2 DEF vars, IInv, ActiveWasApproved, SubmittedHasInstance
    <2>5. QED
      BY <1>1, <2>1, <2>2, <2>3, <2>4 DEF Next
  <1>2. QED
    BY InitHolds, <1>1, PTL DEF Spec

(* submit_budget, update_instance: the budget is active only with an       *)
(* instance that was approved, although instances are completed and linked *)
(* by requests that act on what they read earlier.  A client may PATCH any *)
(* status; this is about the budgets that nobody PATCHes to active.        *)
THEOREM ActiveIsApproved ==
    ASSUME "active" \notin PatchStatus
    PROVE  Spec => []ActiveWasApproved
  <1>1. IInv => ActiveWasApproved
    BY DEF IInv
  <1>2. QED
    BY Inductive, <1>1, PTL

(* submit_budget, update_instance: a submitted budget has an instance that *)
(* can finish it, as long as nobody PATCHes a budget to submitted.         *)
THEOREM SubmittedCanFinish ==
    ASSUME "submitted" \notin PatchStatus
    PROVE  Spec => []SubmittedHasInstance
  <1>1. IInv => SubmittedHasInstance
    BY DEF IInv
  <1>2. QED
    BY Inductive, <1>1, PTL

(* reforecast_budget: the version numbers in use have no gap, whatever     *)
(* reforecasts read before others wrote.                                   *)
THEOREM NumbersHaveNoGap == Spec => []NumbersContiguous
  <1>1. IInv => NumbersContiguous
    BY DEF IInv, NumbersUpTo, NumbersContiguous
  <1>2. QED
    BY Inductive, <1>1, PTL
=============================================================================
