-------------------------- MODULE WithdrawalsProofs --------------------------
(***************************************************************************)
(* Proofs about Withdrawals, for any requests, people, roles, amounts and  *)
(* faults.  The daily cap is a sum over the requests: the lemmas about it  *)
(* rest on SubsetInduction, which has a set where the induction theorems   *)
(* of the library have an operator.                                        *)
(***************************************************************************)
EXTENDS Withdrawals, FiniteSetTheorems, WellFoundedInduction, TLAPS

(* The approvals of a request, on the way to what SeparateDuties says.      *)
WellApproved(s) ==
  s # NoRequest =>
    /\ s.by \notin People(s.approvals)
    /\ \A a, b \in s.approvals : a.who = b.who <=> a.role = b.role
    /\ s.status \in {"APPROVED"} \cup Leaving => Role \subseteq Roles(s.approvals)

(* The inductive invariant. *)
IInv ==
  /\ TypeOK
  /\ MemoryIsSaved
  /\ \A r \in Request : WellApproved(requests[r]) /\ WellApproved(saved[r])

(* What an operation may make of a snapshot that is on its way. *)
Onward(old, new) ==
  old.status \in Leaving =>
    /\ new.status \in (Leaving \ {"SUBMITTING"}) \cup {"REJECTED", "FAILED"}
    /\ new = [old EXCEPT !.status = new.status]
-----------------------------------------------------------------------------
(* A request with a status of its own is a snapshot. *)
LEMMA IsSnapshot ==
  ASSUME TypeOK, NEW r \in Request, NEW statuses, statuses \subseteq Status, Is(r, statuses)
  PROVE  requests[r] \in Snapshot
<1>1. requests[r] \in Snapshot \cup {NoRequest}
  BY DEF TypeOK
<1>2. requests[r].status \in Status
  BY DEF Is
<1>3. NoRequest.status \notin Status
  BY DEF NoRequest, Status, Leaving, Released
<1> QED BY <1>1, <1>2, <1>3

(* A change of status alone. *)
LEMMA MoveSaves ==
  ASSUME IInv, NEW r \in Request, NEW old, old \subseteq Status, Is(r, old),
         NEW status \in Status, Move(r, status),
         status \in {"APPROVED"} \cup Leaving => old \subseteq {"APPROVED"} \cup Leaving,
         requests[r].status \in Leaving
           => status \in (Leaving \ {"SUBMITTING"}) \cup {"REJECTED", "FAILED"}
  PROVE  \E s \in Snapshot : Persist(r, s) /\ WellApproved(s) /\ Onward(requests[r], s)
<1> DEFINE s == [requests[r] EXCEPT !.status = status]
<1>1. requests[r] \in Snapshot /\ requests[r] # NoRequest
  <2>1. requests[r] \in Snapshot
    BY IsSnapshot DEF IInv
  <2>2. requests[r].status \in Status /\ NoRequest.status \notin Status
    BY <2>1 DEF Snapshot, NoRequest, Status, Leaving, Released
  <2> QED BY <2>1, <2>2
<1>2. /\ s \in Snapshot /\ s.status = status
      /\ s.by = requests[r].by /\ s.approvals = requests[r].approvals
  BY <1>1 DEF Snapshot
<1>3. WellApproved(requests[r])
  BY DEF IInv
<1>4. WellApproved(s)
  <2>1. s.status \in {"APPROVED"} \cup Leaving
          => requests[r].status \in {"APPROVED"} \cup Leaving
    BY <1>2 DEF Is
  <2> QED BY <1>1, <1>2, <1>3, <2>1 DEF WellApproved
<1>5. Onward(requests[r], s)
  BY <1>2 DEF Onward
<1>6. Persist(r, s)
  BY DEF Move
<1> QED BY <1>2, <1>4, <1>5, <1>6

(* Every operation saves one well-approved snapshot. *)
LEMMA OperateSaves ==
  ASSUME IInv, NEW r \in Request, Operate(r)
  PROVE  \E s \in Snapshot : Persist(r, s) /\ WellApproved(s) /\ Onward(requests[r], s)
<1> USE DEF Status, Released, Leaving
<1>1. ASSUME NEW by \in Person, NEW amount \in Amount, RequestTransfer(r, by, amount)
      PROVE  \E s \in Snapshot : Persist(r, s) /\ WellApproved(s) /\ Onward(requests[r], s)
  <2> DEFINE s == [status |-> "AWAITING_APPROVALS", by |-> by, approvals |-> {},
                   date |-> today, amount |-> amount]
  <2>1. s \in Snapshot
    BY DEF IInv, TypeOK, Snapshot
  <2>2. WellApproved(s)
    BY DEF WellApproved, People
  <2>3. Onward(requests[r], s)
    BY <1>1 DEF RequestTransfer, NoRequest, Onward
  <2>4. Persist(r, s)
    BY <1>1 DEF RequestTransfer
  <2> QED BY <2>1, <2>2, <2>3, <2>4
<1>2. ASSUME NEW who \in Person, NEW role \in Role, Approve(r, who, role)
      PROVE  \E s \in Snapshot : Persist(r, s) /\ WellApproved(s) /\ Onward(requests[r], s)
  <2> DEFINE a == [who |-> who, role |-> role]
             all == requests[r].approvals \cup {a}
             status == IF Role \subseteq Roles(all) THEN "APPROVED" ELSE "AWAITING_APPROVALS"
             s == [requests[r] EXCEPT !.approvals = all, !.status = status]
  <2>1. requests[r] \in Snapshot /\ requests[r].status \notin Leaving
    BY <1>2, IsSnapshot DEF IInv, Approve, Is
  <2>2. requests[r] # NoRequest
    BY <2>1 DEF Snapshot, NoRequest
  <2>3. a \in Approval
    BY DEF Approval
  <2>4. all \subseteq Approval /\ status \in Status
    BY <2>1, <2>3 DEF Snapshot
  <2>5. s \in Snapshot /\ s.approvals = all /\ s.status = status /\ s.by = requests[r].by
    BY <2>1, <2>4 DEF Snapshot
  <2>6. /\ requests[r].by \notin People(requests[r].approvals)
        /\ \A x, y \in requests[r].approvals : x.who = y.who <=> x.role = y.role
    BY <2>2 DEF IInv, WellApproved
  <2>7. /\ who # requests[r].by
        /\ \A x \in requests[r].approvals : x.who # who /\ x.role # role
    BY <1>2 DEF Approve, People, Roles
  <2>8. requests[r].by \notin People(all)
    BY <2>6, <2>7 DEF People
  <2>9. \A x, y \in all : x.who = y.who <=> x.role = y.role
    BY <2>6, <2>7
  <2>10. s.status \in {"APPROVED"} \cup Leaving => Role \subseteq Roles(s.approvals)
    <3>1. status \in {"APPROVED"} \cup Leaving => Role \subseteq Roles(all)
      <4> HIDE DEF all
      <4> QED OBVIOUS
    <3> HIDE DEF s, all, status
    <3> QED BY <2>5, <3>1
  <2>11. WellApproved(s)
    <3> HIDE DEF s, all, status
    <3> QED BY <2>5, <2>8, <2>9, <2>10 DEF WellApproved
  <2>12. Onward(requests[r], s)
    BY <2>1 DEF Onward
  <2>13. Persist(r, s)
    BY <1>2 DEF Approve
  <2> QED BY <2>5, <2>11, <2>12, <2>13
<1>3. CASE PrepareSubmit(r)
  BY <1>3, MoveSaves DEF PrepareSubmit, Is
<1>4. CASE MarkSubmitted(r)
  BY <1>4, MoveSaves DEF MarkSubmitted, Is
<1>5. CASE MarkUnknown(r)
  BY <1>5, MoveSaves DEF MarkUnknown, Is
<1>6. CASE ObserveTransaction(r)
  <2>1. CASE Move(r, "CONFIRMING")
    BY <1>6, <2>1, MoveSaves DEF ObserveTransaction, Is
  <2>2. CASE Move(r, "COMPLETED")
    BY <1>6, <2>2, MoveSaves DEF ObserveTransaction, Is
  <2> QED BY <1>6, <2>1, <2>2 DEF ObserveTransaction
<1>7. CASE RejectOrFail(r)
  <2>1. CASE Move(r, "REJECTED")
    BY <1>7, <2>1, MoveSaves DEF RejectOrFail, Is
  <2>2. CASE Move(r, "FAILED")
    BY <1>7, <2>2, MoveSaves DEF RejectOrFail, Is
  <2> QED BY <1>7, <2>1, <2>2 DEF RejectOrFail
<1>8. CASE Cancel(r)
  BY <1>8, MoveSaves DEF Cancel, Is
<1> QED BY <1>1, <1>2, <1>3, <1>4, <1>5, <1>6, <1>7, <1>8 DEF Operate
-----------------------------------------------------------------------------
(* A save keeps the invariant, however it ends, and adds at most one line.  *)
LEMMA PersistKeeps ==
  ASSUME IInv, NEW r \in Request, NEW s \in Snapshot, WellApproved(s), Persist(r, s)
  PROVE  /\ IInv'
         /\ saved' = saved \/ saved' = [saved EXCEPT ![r] = s]
         /\ saved' # saved /\ ~damaged' => requests = saved
<1>1. saved' = saved \/ saved' = [saved EXCEPT ![r] = s]
  BY DEF Persist, WriteFails, LineWritten
<1>2. requests' = requests \/ requests' = [requests EXCEPT ![r] = s]
  BY DEF Persist
<1>3. TypeOK'
  <2>1. behind' \in BOOLEAN /\ up' \in BOOLEAN /\ damaged' \in BOOLEAN
    BY DEF Persist, WriteFails, LineWritten, IInv, TypeOK
  <2>2. today' \in 0..LastDay
    BY DEF Persist, IInv, TypeOK
  <2> QED BY <1>1, <1>2, <2>1, <2>2 DEF IInv, TypeOK
<1>4. saved' # saved /\ ~damaged' => ~behind /\ ~damaged /\ up
  BY DEF Persist, WriteFails, LineWritten, IInv, TypeOK
<1>5. MemoryIsSaved'
  <2> SUFFICES ASSUME up', ~damaged', ~behind' PROVE requests' = saved'
    BY DEF MemoryIsSaved
  <2>1. CASE LineWritten(r, s) /\ requests' = [requests EXCEPT ![r] = s] /\ behind' = behind
    BY <2>1 DEF LineWritten, IInv, TypeOK, MemoryIsSaved, Persist
  <2>2. CASE WriteFails(r, s) /\ requests' = requests
    BY <2>2 DEF WriteFails, LineWritten, IInv, TypeOK, MemoryIsSaved, Persist
  <2> QED BY <2>1, <2>2 DEF Persist
<1>6. \A q \in Request : WellApproved(requests'[q]) /\ WellApproved(saved'[q])
  <2> TAKE q \in Request
  <2>1. requests'[q] \in {requests[q], s} /\ saved'[q] \in {saved[q], s}
    BY <1>1, <1>2 DEF IInv, TypeOK
  <2> QED BY <2>1 DEF IInv
<1>7. IInv'
  BY <1>3, <1>5, <1>6 DEF IInv, WellApproved, People, Roles
<1> QED BY <1>1, <1>4, <1>7 DEF IInv, MemoryIsSaved

LEMMA InitIInv == Init => IInv
<1> SUFFICES ASSUME Init PROVE IInv
  OBVIOUS
<1>1. TypeOK
  <2>1. requests \in [Request -> Snapshot \cup {NoRequest}] /\ saved = requests
    BY DEF Init
  <2>2. today \in 0..LastDay
    BY WithdrawalAssumption DEF Init
  <2> QED BY <2>1, <2>2 DEF Init, TypeOK
<1>2. \A r \in Request : requests[r] = NoRequest /\ saved[r] = NoRequest
  BY DEF Init
<1> QED BY <1>1, <1>2 DEF Init, IInv, MemoryIsSaved, WellApproved

LEMMA NextIInv == IInv /\ [Next]_vars => IInv'
<1> SUFFICES ASSUME IInv, [Next]_vars PROVE IInv'
  OBVIOUS
<1>1. CASE \E r \in Request : Operate(r)
  <2>1. PICK r \in Request : Operate(r)
    BY <1>1
  <2>2. PICK s \in Snapshot : Persist(r, s) /\ WellApproved(s)
    BY <2>1, OperateSaves
  <2> QED BY <2>2, PersistKeeps
<1>2. CASE Crash
  BY <1>2 DEF Crash, IInv, TypeOK, MemoryIsSaved, WellApproved, People, Roles
<1>3. CASE Restart
  BY <1>3 DEF Restart, Loadable, IInv, TypeOK, MemoryIsSaved, WellApproved, People, Roles
<1>4. CASE NextDay
  <2>1. today' \in 0..LastDay
    BY <1>4, WithdrawalAssumption DEF NextDay, IInv, TypeOK
  <2> QED BY <1>4, <2>1 DEF NextDay, IInv, TypeOK, MemoryIsSaved, WellApproved, People, Roles
<1>5. CASE UNCHANGED vars
  BY <1>5 DEF vars, IInv, TypeOK, MemoryIsSaved, WellApproved, People, Roles
<1> QED BY <1>1, <1>2, <1>3, <1>4, <1>5 DEF Next

(* The inductive invariant holds in every reachable state. *)
THEOREM Invariance == Spec => []IInv
  BY InitIInv, NextIInv, PTL DEF Spec

(* Every variable keeps its type. *)
THEOREM TypeCorrect == Spec => []TypeOK
<1>1. IInv => TypeOK
  BY DEF IInv
<1> QED BY <1>1, Invariance, PTL

(* A manager whose writes did not raise knows exactly what its journal      *)
(* says. *)
THEOREM NothingUnsaved == Spec => []MemoryIsSaved
<1>1. IInv => MemoryIsSaved
  BY DEF IInv
<1> QED BY <1>1, Invariance, PTL

(* No transfer is on its way that different people, none of them its        *)
(* requester, did not approve in every role, over crashes, failed writes    *)
(* and replays (withdrawal.py, approve and prepare_submit). *)
THEOREM DutiesStaySeparate == Spec => []SeparationOfDuties
<1>1. ASSUME NEW s \in Snapshot \cup {NoRequest}, WellApproved(s)
      PROVE  SeparateDuties(s)
  <2> SUFFICES ASSUME s.status \in Leaving PROVE SeparateDuties(s)
    BY DEF SeparateDuties
  <2>1. s # NoRequest /\ s \in Snapshot
    BY DEF NoRequest, Leaving
  <2>2. Roles(s.approvals) \subseteq Role
    BY <2>1 DEF Snapshot, Approval, Roles
  <2> QED BY <1>1, <2>1, <2>2 DEF WellApproved, SeparateDuties
<1>2. IInv => SeparationOfDuties
  BY <1>1 DEF IInv, TypeOK, SeparationOfDuties
<1> QED BY <1>2, Invariance, PTL

(* A transfer on its way is not cancelled, approved or submitted again, in  *)
(* any journal that loads (cancel: "submitted withdrawal cannot be locally  *)
(* cancelled"). *)
THEOREM NeverBack == Spec => NoWayBack
<1> DEFINE Step == \A r \in Request :
      saved[r].status \in Leaving /\ ~damaged' =>
        /\ saved'[r].status \in (Leaving \ {"SUBMITTING"})
                                  \cup {saved[r].status, "REJECTED", "FAILED"}
        /\ saved'[r] = [saved[r] EXCEPT !.status = saved'[r].status]
<1>1. ASSUME IInv, Next PROVE Step
  <2> SUFFICES ASSUME NEW r \in Request, saved[r].status \in Leaving, ~damaged'
               PROVE  /\ saved'[r].status \in (Leaving \ {"SUBMITTING"})
                                                \cup {saved[r].status, "REJECTED", "FAILED"}
                      /\ saved'[r] = [saved[r] EXCEPT !.status = saved'[r].status]
    OBVIOUS
  <2>1. saved[r] \in Snapshot
    <3>1. saved[r] \in Snapshot \cup {NoRequest}
      BY <1>1 DEF IInv, TypeOK
    <3> QED BY <3>1 DEF NoRequest, Leaving
  <2>2. CASE saved'[r] = saved[r]
    BY <2>1, <2>2 DEF Snapshot
  <2>3. CASE saved'[r] # saved[r]
    <3>1. PICK q \in Request : Operate(q)
      BY <1>1, <2>3 DEF Next, Crash, Restart, NextDay
    <3>2. PICK s \in Snapshot : Persist(q, s) /\ WellApproved(s) /\ Onward(requests[q], s)
      BY <1>1, <3>1, OperateSaves
    <3>3. /\ saved' = [saved EXCEPT ![q] = s]
          /\ requests = saved
      BY <1>1, <2>3, <3>2, PersistKeeps
    <3>4. q = r /\ saved'[r] = s
      BY <1>1, <2>3, <3>3 DEF IInv, TypeOK
    <3> QED BY <3>2, <3>3, <3>4 DEF Onward
  <2> QED BY <2>2, <2>3
<1>2. ASSUME IInv, UNCHANGED vars PROVE [Step]_vars
  BY <1>2
<1>3. IInv /\ [Next]_vars => [Step]_vars
  BY <1>1, <1>2
<1>4. Spec => [][Step]_vars
  BY <1>3, Invariance, PTL DEF Spec
<1> QED BY <1>4 DEF NoWayBack
-----------------------------------------------------------------------------
(* What holds of a subset whenever it holds of it without any one of its    *)
(* members, holds of every subset of a finite set.                          *)
LEMMA SubsetInduction ==
  ASSUME NEW S, IsFiniteSet(S), NEW T,
         \A s \in SUBSET S : (\A x \in s : s \ {x} \in T) => s \in T
  PROVE  \A s \in SUBSET S : s \in T
<1> DEFINE Missing == {s \in SUBSET S : s \notin T}
<1>1. SUFFICES ASSUME Missing # {} PROVE FALSE
  OBVIOUS
<1>2. SUBSET S = FiniteSubsetsOf(S)
  BY FS_Subset DEF FiniteSubsetsOf
<1>3. PICK s \in Missing : \A t \in Missing : ~(<<t, s>> \in StrictSubsetOrdering(S))
  <2>1. Missing \subseteq FiniteSubsetsOf(S)
    BY <1>2
  <2> HIDE DEF Missing
  <2> QED BY <1>1, <2>1, FS_StrictSubsetOrderingWellFounded, WFMin
<1>4. \A x \in s : s \ {x} \in T
  <2> SUFFICES ASSUME NEW x \in s, s \ {x} \notin T PROVE FALSE
    OBVIOUS
  <2>1. s \ {x} \in Missing /\ s \ {x} \subseteq s /\ s \ {x} # s
    OBVIOUS
  <2>2. <<s \ {x}, s>> \in StrictSubsetOrdering(S)
    BY <2>1 DEF StrictSubsetOrdering
  <2> QED BY <1>3, <2>1, <2>2
<1> QED BY <1>3, <1>4
-----------------------------------------------------------------------------
(* SUMS OVER A FINITE SET                                                   *)
Any(s) == CHOOSE x \in s : TRUE

Total(all, S) == MapThenSumSet(LAMBDA r : all[r].amount, S)

(* The function that MapThenSumSet chooses.                                 *)
IsTotal(g, all, S) ==
  g = [s \in SUBSET S |-> IF s = {} THEN 0 ELSE all[Any(s)].amount + g[s \ {Any(s)}]]

(* MapThenSumSet is what the function it chooses says of the whole set. *)
LEMMA TotalIsChosen ==
  ASSUME NEW all, NEW S
  PROVE  Total(all, S) = (CHOOSE g : IsTotal(g, all, S))[S]
BY DEF Total, MapThenSumSet, MapThenFoldSet, IsTotal, Any

LEMMA AnyIsMember == \A s : s # {} => Any(s) \in s
BY DEF Any

(* Two such functions agree where they add up the same amounts.             *)
LEMMA TotalsAgree ==
  ASSUME NEW S, IsFiniteSet(S), NEW all, NEW other, NEW S1, NEW S2, S \subseteq S1, S \subseteq S2,
         \A r \in S : all[r].amount = other[r].amount,
         NEW g, NEW h, IsTotal(g, all, S1), IsTotal(h, other, S2)
  PROVE  g[S] = h[S]
<1> DEFINE T == {s \in SUBSET S : g[s] = h[s]}
<1>1. ASSUME NEW s \in SUBSET S, \A x \in s : s \ {x} \in T
      PROVE  s \in T
  <2>1. s \in SUBSET S1 /\ s \in SUBSET S2
    OBVIOUS
  <2>2. /\ g[s] = IF s = {} THEN 0 ELSE all[Any(s)].amount + g[s \ {Any(s)}]
        /\ h[s] = IF s = {} THEN 0 ELSE other[Any(s)].amount + h[s \ {Any(s)}]
    BY <2>1 DEF IsTotal
  <2>3. CASE s # {}
    <3>1. Any(s) \in s
      BY <2>3, AnyIsMember
    <3>2. g[s \ {Any(s)}] = h[s \ {Any(s)}]
      BY <1>1, <3>1
    <3>3. all[Any(s)].amount = other[Any(s)].amount
      BY <3>1
    <3> QED BY <2>2, <2>3, <3>2, <3>3
  <2> QED BY <2>2, <2>3
<1>2. \A s \in SUBSET S : s \in T
  <2> HIDE DEF T
  <2> QED BY <1>1, SubsetInduction
<1> QED BY <1>2

(* Where there is one for a set, there is one for each of its subsets.      *)
LEMMA TotalRestricts ==
  ASSUME NEW S, NEW all, NEW g, IsTotal(g, all, S), NEW t \in SUBSET S
  PROVE  IsTotal([u \in SUBSET t |-> g[u]], all, t)
<1> DEFINE h == [u \in SUBSET t |-> g[u]]
           k == [s \in SUBSET t |-> IF s = {} THEN 0 ELSE all[Any(s)].amount + h[s \ {Any(s)}]]
<1>1. ASSUME NEW s \in SUBSET t
      PROVE  h[s] = k[s]
  <2>1. g[s] = IF s = {} THEN 0 ELSE all[Any(s)].amount + g[s \ {Any(s)}]
    BY DEF IsTotal
  <2>2. h[s] = g[s] /\ h[s \ {Any(s)}] = g[s \ {Any(s)}]
    OBVIOUS
  <2> QED BY <2>1, <2>2
<1>2. h = k
  BY <1>1
<1> QED BY <1>2 DEF IsTotal

(* What a total is, given that there is one.                                *)
LEMMA TotalUnfolds ==
  ASSUME NEW S, IsFiniteSet(S), NEW all, \E g : IsTotal(g, all, S)
  PROVE  Total(all, S) = IF S = {} THEN 0 ELSE all[Any(S)].amount + Total(all, S \ {Any(S)})
<1> DEFINE g == CHOOSE f : IsTotal(f, all, S)
           t == S \ {Any(S)}
           h == CHOOSE f : IsTotal(f, all, t)
<1>1. IsTotal(g, all, S)
  OBVIOUS
<1>2. IsTotal(h, all, t)
  <2> HIDE DEF g
  <2>1. t \in SUBSET S
    OBVIOUS
  <2>2. IsTotal([u \in SUBSET t |-> g[u]], all, t)
    BY <1>1, <2>1, TotalRestricts
  <2> QED BY <2>2
<1>3. Total(all, S) = g[S] /\ Total(all, t) = h[t]
  BY TotalIsChosen
<1> HIDE DEF g, h
<1>4. g[t] = h[t]
  <2>1. IsFiniteSet(t) /\ t \subseteq S
    BY FS_Subset
  <2> HIDE DEF t
  <2> QED BY <1>1, <1>2, <2>1, TotalsAgree
<1>5. g[S] = IF S = {} THEN 0 ELSE all[Any(S)].amount + g[t]
  BY <1>1 DEF IsTotal
<1> QED BY <1>3, <1>4, <1>5

(* There is one for each finite set.                                        *)
LEMMA TotalExists ==
  ASSUME NEW S, IsFiniteSet(S), NEW all
  PROVE  \E g : IsTotal(g, all, S)
<1> DEFINE T == {s \in SUBSET S : \E g : IsTotal(g, all, s)}
<1>1. ASSUME NEW s \in SUBSET S, \A x \in s : s \ {x} \in T
      PROVE  s \in T
  <2> DEFINE h == [t \in SUBSET s |-> IF t = {} THEN 0
                                      ELSE all[Any(t)].amount + Total(all, t \ {Any(t)})]
             k == [t \in SUBSET s |-> IF t = {} THEN 0 ELSE all[Any(t)].amount + h[t \ {Any(t)}]]
  <2>1. ASSUME NEW u \in SUBSET s, u # s
        PROVE  h[u] = Total(all, u)
    <3>1. PICK x \in s : u \subseteq s \ {x}
      BY <2>1
    <3>2. PICK g : IsTotal(g, all, s \ {x})
      BY <1>1
    <3>3. IsTotal([v \in SUBSET u |-> g[v]], all, u)
      BY <3>1, <3>2, TotalRestricts
    <3>4. IsFiniteSet(u)
      BY FS_Subset
    <3>5. Total(all, u) = IF u = {} THEN 0 ELSE all[Any(u)].amount + Total(all, u \ {Any(u)})
      BY <3>3, <3>4, TotalUnfolds
    <3> QED BY <3>5
  <2>2. ASSUME NEW t \in SUBSET s PROVE h[t] = k[t]
    <3>1. CASE t # {}
      <4>1. t \ {Any(t)} \in SUBSET s /\ t \ {Any(t)} # s
        BY <3>1, AnyIsMember
      <4>2. h[t \ {Any(t)}] = Total(all, t \ {Any(t)})
        BY <2>1, <4>1
      <4> QED BY <3>1, <4>2
    <3> QED BY <3>1
  <2>3. h = k
    BY <2>2
  <2>4. IsTotal(h, all, s)
    BY <2>3 DEF IsTotal
  <2> HIDE DEF h
  <2> QED BY <2>4
<1>2. \A s \in SUBSET S : s \in T
  <2> HIDE DEF T
  <2> QED BY <1>1, SubsetInduction
<1> QED BY <1>2

(* A total takes its members one after another. *)
LEMMA TotalIs ==
  ASSUME NEW S, IsFiniteSet(S), NEW all
  PROVE  Total(all, S) = IF S = {} THEN 0 ELSE all[Any(S)].amount + Total(all, S \ {Any(S)})
BY TotalExists, TotalUnfolds

(* A total depends on the amounts it adds up alone. *)
LEMMA TotalDepends ==
  ASSUME NEW S, IsFiniteSet(S), NEW all, NEW other, \A r \in S : all[r].amount = other[r].amount
  PROVE  Total(all, S) = Total(other, S)
<1> DEFINE g == CHOOSE f : IsTotal(f, all, S)
           h == CHOOSE f : IsTotal(f, other, S)
<1>1. IsTotal(g, all, S) /\ IsTotal(h, other, S)
  BY TotalExists
<1>2. Total(all, S) = g[S] /\ Total(other, S) = h[S]
  BY TotalIsChosen
<1> HIDE DEF g, h
<1> QED BY <1>1, <1>2, TotalsAgree

(* A total of natural numbers is one. *)
LEMMA TotalIsNat ==
  ASSUME NEW S, IsFiniteSet(S), NEW all, \A r \in S : all[r].amount \in Nat
  PROVE  Total(all, S) \in Nat
<1> DEFINE T == {s \in SUBSET S : Total(all, s) \in Nat}
<1>1. ASSUME NEW s \in SUBSET S, \A x \in s : s \ {x} \in T
      PROVE  s \in T
  <2>1. Total(all, s) = IF s = {} THEN 0 ELSE all[Any(s)].amount + Total(all, s \ {Any(s)})
    BY FS_Subset, TotalIs
  <2>2. CASE s # {}
    BY <1>1, <2>1, <2>2, AnyIsMember
  <2> QED BY <2>1, <2>2
<1>2. \A s \in SUBSET S : s \in T
  <2> HIDE DEF T
  <2> QED BY <1>1, SubsetInduction
<1> QED BY <1>2

(* The order in which a total takes its members does not matter.            *)
LEMMA TotalWithout ==
  ASSUME NEW S, IsFiniteSet(S), NEW all, \A r \in S : all[r].amount \in Nat, NEW x \in S
  PROVE  Total(all, S) = all[x].amount + Total(all, S \ {x})
<1> DEFINE T == {s \in SUBSET S : \A y \in s : Total(all, s) = all[y].amount + Total(all, s \ {y})}
<1>1. ASSUME NEW s \in SUBSET S, \A y \in s : s \ {y} \in T
      PROVE  s \in T
  <2> SUFFICES ASSUME NEW y \in s
               PROVE  Total(all, s) = all[y].amount + Total(all, s \ {y})
    OBVIOUS
  <2> DEFINE a == Any(s)
  <2>1. a \in s
    BY AnyIsMember
  <2>2. Total(all, s) = all[a].amount + Total(all, s \ {a})
    BY FS_Subset, TotalIs
  <2> HIDE DEF a
  <2>3. CASE a # y
    <3>1. y \in s \ {a} /\ a \in s \ {y} /\ (s \ {a}) \ {y} = (s \ {y}) \ {a}
      BY <2>1, <2>3
    <3>2. Total(all, s \ {a}) = all[y].amount + Total(all, (s \ {a}) \ {y})
      BY <1>1, <2>1, <3>1
    <3>3. Total(all, s \ {y}) = all[a].amount + Total(all, (s \ {y}) \ {a})
      BY <1>1, <3>1
    <3>4. /\ all[a].amount \in Nat /\ all[y].amount \in Nat
          /\ Total(all, (s \ {a}) \ {y}) \in Nat
      <4>1. IsFiniteSet((s \ {a}) \ {y}) /\ \A r \in (s \ {a}) \ {y} : all[r].amount \in Nat
        BY FS_Subset
      <4> QED BY <2>1, <4>1, TotalIsNat
    <3> DEFINE rest == Total(all, (s \ {a}) \ {y})
    <3>5. Total(all, s \ {a}) = all[y].amount + rest /\ Total(all, s \ {y}) = all[a].amount + rest
      BY <3>1, <3>2, <3>3
    <3> HIDE DEF rest
    <3>6. rest \in Nat
      BY <3>4 DEF rest
    <3> QED BY <2>2, <3>4, <3>5, <3>6
  <2> QED BY <2>2, <2>3
<1>2. \A s \in SUBSET S : s \in T
  <2> HIDE DEF T
  <2> QED BY <1>1, SubsetInduction
<1> QED BY <1>2
-----------------------------------------------------------------------------
(* The daily cap. *)
Counted(all, day) ==
  {r \in Request : all[r].status \in Status \ Released /\ all[r].date = day}

Asked(all) == {r \in Request : all[r] # NoRequest}

(* What DailyCapHolds needs: only finitely many requests were ever made, in *)
(* memory or in the journal.                                                *)
CapInv == IsFiniteSet(Asked(requests)) /\ IsFiniteSet(Asked(saved)) /\ DailyCapHolds

(* What an operation does to the sum of a day: a new request fits under the *)
(* cap, and one that is there keeps its day and amount and is not taken up  *)
(* again once it was given up.                                              *)
Fits(all, r, s) ==
  IF all[r] = NoRequest
  THEN s.date = today /\ Committed(all, today) + s.amount <= MaximumDaily
  ELSE /\ s.date = all[r].date /\ s.amount = all[r].amount
       /\ all[r].status \in Released => s.status \in Released

(* What a day commits is the total of what it counts. *)
LEMMA CommittedIsTotal ==
  ASSUME NEW all, NEW day
  PROVE  Committed(all, day) = Total(all, Counted(all, day))
BY DEF Total, Committed, Counted, MapThenSumSet, MapThenFoldSet

(* Only requests that were made count. *)
LEMMA CountedIsFinite ==
  ASSUME NEW all \in [Request -> Snapshot \cup {NoRequest}], IsFiniteSet(Asked(all)), NEW day
  PROVE  /\ IsFiniteSet(Counted(all, day))
         /\ \A r \in Counted(all, day) : all[r] \in Snapshot /\ all[r].amount \in Nat
<1>1. NoRequest.status \notin Status
  BY DEF NoRequest, Status, Leaving, Released
<1>2. Counted(all, day) \subseteq Asked(all)
  BY <1>1 DEF Counted, Asked
<1>3. \A r \in Counted(all, day) : all[r] \in Snapshot
  BY <1>1 DEF Counted
<1>4. \A s \in Snapshot : s.amount \in Nat
  BY WithdrawalAssumption DEF Snapshot
<1> QED BY <1>2, <1>3, <1>4, FS_Subset

(* One request that fits keeps every day within the cap.                    *)
LEMMA FitsKeepsCap ==
  ASSUME NEW all \in [Request -> Snapshot \cup {NoRequest}], IsFiniteSet(Asked(all)),
         NEW r \in Request, NEW s \in Snapshot, Fits(all, r, s),
         NEW day \in 0..LastDay, Committed(all, day) <= MaximumDaily
  PROVE  /\ Committed([all EXCEPT ![r] = s], day) <= MaximumDaily
         /\ IsFiniteSet(Asked([all EXCEPT ![r] = s]))
<1> DEFINE new == [all EXCEPT ![r] = s]
           C == Counted(all, day)
           D == Counted(new, day)
<1>1. /\ new \in [Request -> Snapshot \cup {NoRequest}] /\ new[r] = s
      /\ \A q \in Request : q # r => new[q] = all[q]
  OBVIOUS
<1>2. IsFiniteSet(Asked(new))
  <2>1. Asked(new) \subseteq Asked(all) \cup {r} /\ IsFiniteSet(Asked(all) \cup {r})
    BY <1>1, FS_AddElement DEF Asked
  <2> QED BY <2>1, FS_Subset
<1>3. /\ Committed(new, day) = Total(new, D) /\ Committed(all, day) = Total(all, C)
      /\ Committed(new, day) = Total(new, Counted(new, day))
  BY CommittedIsTotal
<1>4. /\ IsFiniteSet(C) /\ \A q \in C : all[q] \in Snapshot /\ all[q].amount \in Nat
      /\ IsFiniteSet(D) /\ \A q \in D : new[q] \in Snapshot /\ new[q].amount \in Nat
  BY <1>1, <1>2, CountedIsFinite
<1> DEFINE K == C \ {r}
<1>5. D \ {r} = K
  BY <1>1 DEF Counted
<1>6. r \in D <=> s.status \notin Released /\ s.date = day
  <2>1. s.status \in Status
    BY DEF Snapshot
  <2> QED BY <1>1, <2>1 DEF Counted
<1>7. all[r] # NoRequest => (r \in C <=> all[r].status \notin Released /\ all[r].date = day)
  <2>1. all[r] # NoRequest => all[r].status \in Status
    BY DEF Snapshot
  <2> QED BY <2>1 DEF Counted
<1>8. all[r] = NoRequest => r \notin C
  BY DEF Counted, NoRequest, Status, Leaving, Released
<1> HIDE DEF new, C, D
<1>9. Total(new, K) = Total(all, K) /\ Total(all, K) \in Nat
  <2>1. IsFiniteSet(K) /\ \A q \in K : new[q].amount = all[q].amount /\ all[q].amount \in Nat
    BY <1>1, <1>4, FS_Subset DEF C, Counted
  <2> HIDE DEF K
  <2> QED BY <2>1, TotalDepends, TotalIsNat
<1>10. /\ r \in D => Total(new, D) = s.amount + Total(all, K)
       /\ r \notin D => Total(new, D) = Total(all, K)
       /\ r \in C => Total(all, C) = all[r].amount + Total(all, K)
       /\ r \notin C => Total(all, C) = Total(all, K)
  <2>1. r \in D => Total(new, D) = new[r].amount + Total(new, D \ {r})
    BY <1>4, TotalWithout
  <2>2. r \in C => Total(all, C) = all[r].amount + Total(all, C \ {r})
    BY <1>4, TotalWithout
  <2>3. (r \notin D => D = K) /\ (r \notin C => C = K)
    BY <1>5
  <2> HIDE DEF K
  <2>4. r \in D => Total(new, D) = s.amount + Total(all, K)
    BY <1>1, <1>5, <1>9, <2>1
  <2>5. r \notin D => Total(new, D) = Total(all, K)
    BY <1>9, <2>3
  <2>6. r \in C => Total(all, C) = all[r].amount + Total(all, K)
    BY <2>2 DEF K
  <2>7. r \notin C => Total(all, C) = Total(all, K)
    BY <2>3
  <2> QED BY <2>4, <2>5, <2>6, <2>7
<1>11. MaximumDaily \in Nat /\ s.amount \in Nat
  BY WithdrawalAssumption DEF Snapshot
<1> DEFINE k == Total(all, K)
<1>12. Total(all, C) <= MaximumDaily
  BY <1>3
<1>13. k \in Nat
  BY <1>9
<1> HIDE DEF k, K
<1>14. CASE r \notin D
  <2>1. Total(all, C) = k \/ (r \in C /\ all[r].amount \in Nat /\ Total(all, C) = all[r].amount + k)
    BY <1>4, <1>10 DEF k
  <2>2. k <= MaximumDaily
    BY <1>11, <1>12, <1>13, <2>1
  <2>3. Total(new, D) = k
    BY <1>10, <1>14 DEF k
  <2> QED BY <1>2, <1>3, <2>2, <2>3 DEF new
<1>15. CASE r \in D
  <2>1. CASE all[r] = NoRequest
    <3>1. day = today /\ Committed(all, day) + s.amount <= MaximumDaily
      BY <1>6, <1>15, <2>1 DEF Fits
    <3>2. Total(all, C) = k /\ Total(new, D) = s.amount + k
      BY <1>8, <1>10, <1>15, <2>1 DEF k
    <3>3. s.amount + k <= MaximumDaily
      BY <1>3, <1>11, <1>13, <3>1, <3>2
    <3> QED BY <1>2, <1>3, <3>2, <3>3 DEF new
  <2>2. CASE all[r] # NoRequest
    <3>1. r \in C /\ s.amount = all[r].amount
      BY <1>6, <1>7, <1>15, <2>2 DEF Fits
    <3>2. Total(new, D) = Total(all, C)
      BY <1>10, <1>15, <3>1
    <3> QED BY <1>2, <1>3, <1>12, <3>2 DEF new
  <2> QED BY <2>1, <2>2
<1> QED BY <1>14, <1>15

(* A change of status alone fits. *)
LEMMA MoveFits ==
  ASSUME TypeOK, NEW r \in Request, NEW old, old \subseteq Status, Is(r, old),
         NEW status \in Status, Move(r, status),
         requests[r].status \in Released => status \in Released
  PROVE  \E s \in Snapshot : Persist(r, s) /\ Fits(requests, r, s)
<1> DEFINE s == [requests[r] EXCEPT !.status = status]
<1>1. requests[r] \in Snapshot
  BY IsSnapshot
<1>2. requests[r] # NoRequest
  BY <1>1 DEF Snapshot, NoRequest
<1>3. /\ s \in Snapshot /\ s.status = status
      /\ s.date = requests[r].date /\ s.amount = requests[r].amount
  BY <1>1 DEF Snapshot
<1>4. Fits(requests, r, s)
  BY <1>2, <1>3 DEF Fits
<1>5. Persist(r, s)
  BY DEF Move
<1> QED BY <1>3, <1>4, <1>5

(* Every operation saves a request that fits.                               *)
LEMMA OperateFits ==
  ASSUME TypeOK, NEW r \in Request, Operate(r)
  PROVE  \E s \in Snapshot : Persist(r, s) /\ Fits(requests, r, s)
<1> USE DEF Status, Released, Leaving
<1>1. ASSUME NEW by \in Person, NEW amount \in Amount, RequestTransfer(r, by, amount)
      PROVE  \E s \in Snapshot : Persist(r, s) /\ Fits(requests, r, s)
  <2> DEFINE s == [status |-> "AWAITING_APPROVALS", by |-> by, approvals |-> {},
                   date |-> today, amount |-> amount]
  <2>1. s \in Snapshot
    BY DEF TypeOK, Snapshot
  <2>2. Fits(requests, r, s)
    BY <1>1 DEF RequestTransfer, Fits
  <2>3. Persist(r, s)
    BY <1>1 DEF RequestTransfer
  <2> QED BY <2>1, <2>2, <2>3
<1>2. ASSUME NEW who \in Person, NEW role \in Role, Approve(r, who, role)
      PROVE  \E s \in Snapshot : Persist(r, s) /\ Fits(requests, r, s)
  <2> DEFINE all == requests[r].approvals \cup {[who |-> who, role |-> role]}
             status == IF Role \subseteq Roles(all) THEN "APPROVED" ELSE "AWAITING_APPROVALS"
             s == [requests[r] EXCEPT !.approvals = all, !.status = status]
  <2>1. requests[r] \in Snapshot /\ requests[r].status \notin Released
    BY <1>2, IsSnapshot DEF Approve, Is
  <2>2. requests[r] # NoRequest
    BY <2>1 DEF Snapshot, NoRequest
  <2>3. all \subseteq Approval
    BY <2>1 DEF Snapshot, Approval
  <2>4. status \in Status
    OBVIOUS
  <2>5. Persist(r, s)
    BY <1>2 DEF Approve
  <2> HIDE DEF all, status
  <2>6. s \in Snapshot /\ s.date = requests[r].date /\ s.amount = requests[r].amount
    BY <2>1, <2>3, <2>4 DEF Snapshot
  <2>7. Fits(requests, r, s)
    BY <2>1, <2>2, <2>6 DEF Fits
  <2> QED BY <2>5, <2>6, <2>7
<1>3. CASE PrepareSubmit(r)
  BY <1>3, MoveFits DEF PrepareSubmit, Is
<1>4. CASE MarkSubmitted(r)
  BY <1>4, MoveFits DEF MarkSubmitted, Is
<1>5. CASE MarkUnknown(r)
  BY <1>5, MoveFits DEF MarkUnknown, Is
<1>6. CASE ObserveTransaction(r)
  <2>1. CASE Move(r, "CONFIRMING")
    BY <1>6, <2>1, MoveFits DEF ObserveTransaction, Is
  <2>2. CASE Move(r, "COMPLETED")
    BY <1>6, <2>2, MoveFits DEF ObserveTransaction, Is
  <2> QED BY <1>6, <2>1, <2>2 DEF ObserveTransaction
<1>7. CASE RejectOrFail(r)
  <2>1. CASE Move(r, "REJECTED")
    BY <1>7, <2>1, MoveFits DEF RejectOrFail, Is
  <2>2. CASE Move(r, "FAILED")
    BY <1>7, <2>2, MoveFits DEF RejectOrFail, Is
  <2> QED BY <1>7, <2>1, <2>2 DEF RejectOrFail
<1>8. CASE Cancel(r)
  BY <1>8, MoveFits DEF Cancel, Is
<1> QED BY <1>1, <1>2, <1>3, <1>4, <1>5, <1>6, <1>7, <1>8 DEF Operate

LEMMA InitCap == Init => CapInv
<1> SUFFICES ASSUME Init PROVE CapInv
  OBVIOUS
<1>1. requests = saved /\ \A r \in Request : requests[r] = NoRequest
  BY DEF Init
<1>2. Asked(requests) = {} /\ Asked(saved) = {} /\ IsFiniteSet({})
  BY <1>1, FS_EmptySet DEF Asked
<1>3. \A day : Counted(requests, day) = {}
  BY <1>1 DEF Counted, NoRequest, Status, Leaving, Released
<1>4. ASSUME NEW day \in 0..LastDay
      PROVE  Committed(requests, day) <= MaximumDaily
  <2>1. Committed(requests, day) = Total(requests, {})
    BY <1>3, CommittedIsTotal
  <2>2. Total(requests, {}) = 0
    BY <1>2, TotalIs
  <2> QED BY <2>1, <2>2, WithdrawalAssumption
<1> QED BY <1>1, <1>2, <1>4 DEF CapInv, DailyCapHolds

(* A line that leaves the journal whole is written from a memory that is    *)
(* the journal's, so that what fits under the one cap fits under the other. *)
LEMMA NextCap == IInv /\ CapInv /\ [Next]_vars => CapInv'
<1> SUFFICES ASSUME IInv, CapInv, [Next]_vars PROVE CapInv'
  OBVIOUS
<1>0. \A day : /\ Committed(requests, day)' = Committed(requests', day)
               /\ Committed(saved, day)' = Committed(saved', day)
  BY DEF Committed, MapThenSumSet, MapThenFoldSet
<1>1. CASE \E r \in Request : Operate(r)
  <2>1. PICK r \in Request : Operate(r)
    BY <1>1
  <2>2. PICK s \in Snapshot : Persist(r, s) /\ Fits(requests, r, s)
    BY <2>1, OperateFits DEF IInv
  <2> DEFINE new == [requests EXCEPT ![r] = s]
  <2>3. IsFiniteSet(Asked(new)) /\ \A day \in 0..LastDay : Committed(new, day) <= MaximumDaily
    <3>1. \A day \in 0..LastDay : Committed(new, day) <= MaximumDaily /\ IsFiniteSet(Asked(new))
      BY <2>2, FitsKeepsCap DEF IInv, TypeOK, CapInv, DailyCapHolds
    <3>2. 0 \in 0..LastDay
      BY WithdrawalAssumption
    <3> QED BY <3>1, <3>2
  <2>4. requests' = requests \/ requests' = new
    BY <2>2 DEF Persist
  <2>5. /\ IsFiniteSet(Asked(requests'))
        /\ \A day \in 0..LastDay : Committed(requests', day) <= MaximumDaily
    BY <2>3, <2>4 DEF CapInv, DailyCapHolds
  <2>6. \/ saved' = saved /\ (~damaged' => ~damaged)
        \/ saved' = [saved EXCEPT ![r] = s] /\ (~damaged' => saved = requests)
    BY <2>2 DEF Persist, WriteFails, LineWritten, IInv, TypeOK, MemoryIsSaved
  <2>7. IsFiniteSet(Asked(saved'))
    <3>1. Asked(saved') \subseteq Asked(saved) \cup {r}
      BY <2>6 DEF Asked, IInv, TypeOK
    <3>2. IsFiniteSet(Asked(saved) \cup {r})
      BY FS_AddElement DEF CapInv
    <3> QED BY <3>1, <3>2, FS_Subset
  <2>8. ASSUME ~damaged'
        PROVE  \A day \in 0..LastDay : Committed(saved', day) <= MaximumDaily
    BY <2>3, <2>6, <2>8 DEF CapInv, DailyCapHolds
  <2>9. DailyCapHolds'
    BY <1>0, <2>5, <2>8 DEF DailyCapHolds
  <2> QED BY <2>5, <2>7, <2>9 DEF CapInv, Asked
<1>2. CASE Restart
  <2>1. requests' = saved /\ saved' = saved /\ ~damaged /\ ~damaged'
    BY <1>2 DEF Restart, Loadable
  <2>2. DailyCapHolds'
    BY <1>0, <2>1 DEF CapInv, DailyCapHolds
  <2> QED BY <2>1, <2>2 DEF CapInv, Asked
<1>3. CASE UNCHANGED <<requests, saved, damaged>>
  <2>1. DailyCapHolds'
    BY <1>0, <1>3 DEF CapInv, DailyCapHolds
  <2> QED BY <1>3, <2>1 DEF CapInv, Asked
<1> QED BY <1>1, <1>2, <1>3 DEF Next, Crash, NextDay, vars

(* No day commits more than its cap, over failed writes and replays, in any *)
(* journal that loads (withdrawal.py, request: "withdrawal exceeds daily    *)
(* policy cap"). *)
THEOREM CapIsKept == Spec => []DailyCapHolds
<1>1. Spec => []CapInv
  BY InitCap, NextCap, Invariance, PTL DEF Spec
<1>2. CapInv => DailyCapHolds
  BY DEF CapInv
<1> QED BY <1>1, <1>2, PTL
=============================================================================
