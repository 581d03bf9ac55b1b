----------------------------- MODULE Withdrawals -----------------------------
(***************************************************************************)
(* WithdrawalManager (portfolio/withdrawal.py): who may approve a transfer *)
(* and what a day may commit.  The manager makes no transfer; its callers  *)
(* prepare one, make it, and report what they saw.  Every operation writes *)
(* the next snapshot to a hash-chained journal and only then changes       *)
(* memory, but a failed write, unlike in DurableOMS, leaves the manager    *)
(* working, with a memory that may be behind its journal.                  *)
(***************************************************************************)
EXTENDS Naturals, FiniteSets, FiniteSetsExt

CONSTANTS
  Request,       \* request identities
  Person,        \* principals: they request, and approve
  Role,          \* required_approval_roles
  Amount,        \* what a transfer commits, its fee bound included; each within the single cap
  MaximumDaily,  \* maximum_daily_usdt
  Opens, Closes, \* the allowlist entry's not_before and expires_at, as days
  LastDay,       \* bound: the last day
  Faults         \* what may go wrong: a subset of FaultKinds

(* crash   the process dies, possibly inside a write
   write   a write raises, with all, part or nothing of its line in the file *)
FaultKinds == {"crash", "write"}

ASSUME WithdrawalAssumption ==
  /\ Amount \subseteq Nat \ {0}
  /\ {MaximumDaily, Opens, Closes, LastDay} \subseteq Nat
  /\ Faults \subseteq FaultKinds

VARIABLES
  requests,  \* WithdrawalManager.requests
  saved,     \* the requests its journal replays to, while it does
  behind,    \* the journal's last line is not in memory: its write raised
  damaged,   \* the journal has a partial line, or two with one sequence number
  up,        \* a manager exists
  today

vars == <<requests, saved, behind, damaged, up, today>>

Released == {"REJECTED", "CANCELLED", "FAILED"}
Leaving == {"SUBMITTING", "SUBMITTED", "UNKNOWN", "CONFIRMING", "COMPLETED"}
Status == {"AWAITING_APPROVALS", "APPROVED"} \cup Leaving \cup Released

Approval == [who : Person, role : Role]

Snapshot ==
  [status : Status, by : Person, approvals : SUBSET Approval, date : 0..LastDay, amount : Amount]

NoRequest == [status |-> "none"]

Is(r, statuses) == requests[r].status \in statuses

TypeOK ==
  /\ requests \in [Request -> Snapshot \cup {NoRequest}]
  /\ saved \in [Request -> Snapshot \cup {NoRequest}]
  /\ behind \in BOOLEAN /\ damaged \in BOOLEAN /\ up \in BOOLEAN
  /\ today \in 0..LastDay
-----------------------------------------------------------------------------
(* A line of the journal; one that follows a line this process does not     *)
(* know of repeats its sequence number.                                     *)
LineWritten(r, snapshot) ==
  /\ saved' = [saved EXCEPT ![r] = snapshot]
  /\ damaged' = (damaged \/ behind)

(* A write that raised, or a crash inside it: the line is complete, partial *)
(* or absent.                                                               *)
WriteFails(r, snapshot) ==
  \/ LineWritten(r, snapshot) /\ behind' = TRUE
  \/ damaged' \in {damaged, TRUE} /\ UNCHANGED <<saved, behind>>

(* _persist.                                                                *)
Persist(r, snapshot) ==
  /\ up
  /\ \/ /\ LineWritten(r, snapshot)
        /\ requests' = [requests EXCEPT ![r] = snapshot]
        /\ UNCHANGED <<behind, up>>
     \/ /\ WriteFails(r, snapshot)
        /\ \/ "write" \in Faults /\ UNCHANGED up
           \/ "crash" \in Faults /\ up' = FALSE
        /\ UNCHANGED requests
  /\ UNCHANGED today

Move(r, status) == Persist(r, [requests[r] EXCEPT !.status = status])
-----------------------------------------------------------------------------
(* _validate_destination.                                                   *)
Allowlisted == Opens <= today /\ today < Closes

(* What a day has committed: everything requested on it and not given up.   *)
Committed(all, day) ==
  MapThenSumSet(LAMBDA r : all[r].amount,
                {r \in Request : all[r].status \in Status \ Released /\ all[r].date = day})

(* Plausible bug: only a transfer that is on its way counts. *)
RequestTransferOnItsWay(r, by, amount) ==
  /\ requests[r] = NoRequest
  /\ Allowlisted
  /\ LET leaving == [q \in Request |-> IF Is(q, Leaving) THEN requests[q] ELSE NoRequest]
     IN  Committed(leaving, today) + amount <= MaximumDaily
  /\ Persist(r, [status |-> "AWAITING_APPROVALS", by |-> by, approvals |-> {},
                 date |-> today, amount |-> amount])

(* request; a repeated one with the same details is returned as it is.      *)
RequestTransfer(r, by, amount) ==
  /\ requests[r] = NoRequest
  /\ Allowlisted
  /\ Committed(requests, today) + amount <= MaximumDaily
  /\ Persist(r, [status |-> "AWAITING_APPROVALS", by |-> by, approvals |-> {},
                 date |-> today, amount |-> amount])

Roles(approvals) == {a.role : a \in approvals}
People(approvals) == {a.who : a \in approvals}

(* Plausible bug: one principal may hold two of the roles. *)
ApproveTwice(r, who, role) ==
  /\ Is(r, {"AWAITING_APPROVALS", "APPROVED"})
  /\ who # requests[r].by
  /\ role \notin Roles(requests[r].approvals)
  /\ LET approvals == requests[r].approvals \cup {[who |-> who, role |-> role]}
     IN  Persist(r, [requests[r] EXCEPT !.approvals = approvals,
                       !.status = IF Role \subseteq Roles(approvals)
                                  THEN "APPROVED" ELSE "AWAITING_APPROVALS"])

(* approve.                                                                 *)
Approve(r, who, role) ==
  /\ Is(r, {"AWAITING_APPROVALS", "APPROVED"})
  /\ who # requests[r].by
  /\ who \notin People(requests[r].approvals)
  /\ role \notin Roles(requests[r].approvals)
  /\ LET approvals == requests[r].approvals \cup {[who |-> who, role |-> role]}
     IN  Persist(r, [requests[r] EXCEPT !.approvals = approvals,
                       !.status = IF Role \subseteq Roles(approvals)
                                  THEN "APPROVED" ELSE "AWAITING_APPROVALS"])

PrepareSubmit(r) == Is(r, {"APPROVED"}) /\ Allowlisted /\ Move(r, "SUBMITTING")

MarkSubmitted(r) == Is(r, {"SUBMITTING"}) /\ Move(r, "SUBMITTED")

MarkUnknown(r) == Is(r, {"SUBMITTING", "SUBMITTED"}) /\ Move(r, "UNKNOWN")

(* observe_transaction, with too few confirmations or enough of them.       *)
ObserveTransaction(r) ==
  /\ Is(r, {"SUBMITTED", "UNKNOWN", "CONFIRMING"})
  /\ Move(r, "CONFIRMING") \/ Move(r, "COMPLETED")

RejectOrFail(r) ==
  /\ Is(r, Status \ {"COMPLETED", "CANCELLED"})
  /\ Move(r, "REJECTED") \/ Move(r, "FAILED")

(* Plausible bug: a transfer with an unknown outcome may be cancelled. *)
CancelUnknown(r) ==
  Is(r, {"AWAITING_APPROVALS", "APPROVED", "UNKNOWN"}) /\ Move(r, "CANCELLED")

Cancel(r) == Is(r, {"AWAITING_APPROVALS", "APPROVED"}) /\ Move(r, "CANCELLED")
-----------------------------------------------------------------------------
Crash ==
  /\ "crash" \in Faults
  /\ up
  /\ up' = FALSE
  /\ UNCHANGED <<requests, saved, behind, damaged, today>>

(* load: every line parses, sequence numbers are contiguous and each line   *)
(* names the hash of the one before.                                        *)
Loadable == ~damaged

(* _recover: the journal is replayed, or refused.                           *)
Restart ==
  /\ ~up
  /\ Loadable
  /\ up' = TRUE
  /\ requests' = saved
  /\ behind' = FALSE
  /\ UNCHANGED <<saved, damaged, today>>

NextDay ==
  /\ today < LastDay
  /\ today' = today + 1
  /\ UNCHANGED <<requests, saved, behind, damaged, up>>

Init ==
  /\ requests = [r \in Request |-> NoRequest]
  /\ saved = requests
  /\ behind = FALSE
  /\ damaged = FALSE
  /\ up = TRUE
  /\ today = 0

Operate(r) ==
  \/ \E by \in Person, amount \in Amount : RequestTransfer(r, by, amount)
  \/ \E who \in Person, role \in Role : Approve(r, who, role)
  \/ PrepareSubmit(r) \/ MarkSubmitted(r) \/ MarkUnknown(r)
  \/ ObserveTransaction(r) \/ RejectOrFail(r) \/ Cancel(r)

Next == (\E r \in Request : Operate(r)) \/ Crash \/ Restart \/ NextDay

Spec == Init /\ [][Next]_vars
-----------------------------------------------------------------------------
(* Separation of duties: a transfer on its way was approved in every        *)
(* required role, by different people, none of them its requester, whatever *)
(* crashes, failed writes and replays came between the approvals.           *)
SeparateDuties(s) ==
  s.status \in Leaving =>
    /\ Roles(s.approvals) = Role
    /\ s.by \notin People(s.approvals)
    /\ \A a, b \in s.approvals : a.who = b.who <=> a.role = b.role

SeparationOfDuties == \A r \in Request : SeparateDuties(requests[r]) /\ SeparateDuties(saved[r])

(* No day commits more than its cap, in what a restart will find either:    *)
(* a manager that lost count of a line it did write can exceed the cap only *)
(* in a journal that no longer loads.                                       *)
DailyCapHolds ==
  \A day \in 0..LastDay :
    /\ Committed(requests, day) <= MaximumDaily
    /\ ~damaged => Committed(saved, day) <= MaximumDaily

(* A transfer whose submission was prepared is not cancelled, approved or   *)
(* prepared again, and its amount, day and approvals stay what was          *)
(* approved: in every journal that loads.                                   *)
NoWayBack ==
  [][\A r \in Request :
       saved[r].status \in Leaving /\ ~damaged' =>
         /\ saved'[r].status \in (Leaving \ {"SUBMITTING"}) \cup {saved[r].status, "REJECTED", "FAILED"}
         /\ saved'[r] = [saved[r] EXCEPT !.status = saved'[r].status]]_vars

(* A manager knows no more than its journal does, and all of it unless a    *)
(* write raised.                                                            *)
MemoryIsSaved == up /\ ~damaged /\ ~behind => requests = saved
=============================================================================
