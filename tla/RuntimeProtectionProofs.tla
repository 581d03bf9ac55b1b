----------------------- MODULE RuntimeProtectionProofs -----------------------
(***************************************************************************)
(* Proofs about RuntimeProtection, for any positions, instruments and      *)
(* faults.                                                                 *)
(***************************************************************************)
EXTENDS RuntimeProtection, TLAPS

PositionRecord == [status : PositionStatus, byStop : BOOLEAN]

(* What holds of the stop of a position no restart took back: it exists     *)
(* only once the entry is behind, is blocked only once the position is on   *)
(* its way out, and withdrawn only once it is flat.                         *)
StopFollows(p, status) ==
  /\ pos[p].status \in {"none", "PENDING_ENTRY"} => status = "none"
  /\ status = "BLOCKED" => pos[p].status \in {"PENDING_EXIT"} \cup Terminal
  /\ status \in Withdrawn => pos[p].status \in Terminal

(* In memory and in the journal, which a new process will read.             *)
StopsFollow ==
  \A p \in Position \ undone : StopFollows(p, stop[p]) /\ StopFollows(p, stopJournal.stop[p])

InterlockIsLatched == interlock => latched

(* The rows are behind where the next page will write them, unless a        *)
(* catch-up was overtaken.                                                  *)
RowsFollow == course # "strayed" => \A p \in Position \ page : rows[p] = pos[p]

(* A pass leaves the positions it has visited accounted for.                *)
PassProgress ==
  /\ pc = "sync" => \A p \in Position \ (todo \cup undone) : Accounted(p)
  /\ pc = "reconcile" => \A p \in Position \ undone : Accounted(p)

(* The inductive invariant. *)
IInv ==
  /\ ProtectionTypeOK
  /\ OneActive
  /\ StopsFollow
  /\ InterlockIsLatched
  /\ RowsFollow
  /\ PassProgress
-----------------------------------------------------------------------------
(* What one book makes of a live position. *)
LEMMA AdvancedKeeps ==
  ASSUME NEW x \in PositionRecord, NEW y \in Advanced(x),
         x.status \notin {"none"} \cup Terminal
  PROVE  /\ y \in PositionRecord
         /\ y.status # "none"
         /\ y.status = "PENDING_ENTRY" => x.status = "PENDING_ENTRY"
         /\ y.status = "OPEN" => x.status \in {"PENDING_ENTRY", "OPEN"}
<1> USE DEF PositionRecord, PositionStatus, Terminal
<1>1. \A z \in Exiting : z \in PositionRecord /\ z.status = "PENDING_EXIT"
  BY DEF Exiting
<1>2. CASE x.status = "PENDING_ENTRY"
  <2>1. y \in {At(s) : s \in {"PENDING_ENTRY", "OPEN", "REJECTED", "EXPIRED"}} \cup Exiting
    BY <1>2 DEF Advanced
  <2>2. y \in Exiting \/ \E s \in {"PENDING_ENTRY", "OPEN", "REJECTED", "EXPIRED"} :
                            y = [status |-> s, byStop |-> FALSE]
    BY <2>1 DEF At
  <2>3. CASE y \in Exiting
    BY <1>1, <1>2, <2>3
  <2>4. CASE \E s \in {"PENDING_ENTRY", "OPEN", "REJECTED", "EXPIRED"} :
               y = [status |-> s, byStop |-> FALSE]
    <3>1. PICK s \in {"PENDING_ENTRY", "OPEN", "REJECTED", "EXPIRED"} :
            y = [status |-> s, byStop |-> FALSE]
      BY <2>4
    <3>2. y.status = s
      BY <3>1
    <3> QED BY <1>2, <3>1, <3>2
  <2> QED BY <2>2, <2>3, <2>4
<1>3. CASE x.status = "OPEN"
  <2>1. y \in {x} \cup Exiting
    BY <1>3 DEF Advanced
  <2> QED BY <1>1, <1>3, <2>1
<1>4. CASE x.status = "PENDING_EXIT"
  <2>1. y \in {x, [x EXCEPT !.status = "CLOSED"]}
    BY <1>4 DEF Advanced
  <2> QED BY <1>4, <2>1
<1> QED BY <1>2, <1>3, <1>4

(* What one event makes of all positions: none comes back to life, none     *)
(* returns to an earlier phase, and an instrument has one live position.    *)
LEMMA BrokerKeeps ==
  ASSUME ProtectionTypeOK, NEW i \in Instrument, NEW decision \in Position \cup {NoPlan},
         BrokerActs(i, decision)
  PROVE  /\ pos' \in [Position -> PositionRecord]
         /\ plan' = NoPlan
         /\ \A p \in Position :
              /\ pos[p].status \in Terminal => pos'[p] = pos[p]
              /\ pos'[p].status = "OPEN" => pos[p].status \in {"PENDING_ENTRY", "OPEN"}
              /\ pos'[p].status \in {"none", "PENDING_ENTRY"}
                    => pos[p].status \in {"none", "PENDING_ENTRY"}
         /\ Distinct(pos) => Distinct(pos')
<1> DEFINE live == Active(i, pos)
<1>1. pos \in [Position -> PositionRecord]
  BY DEF ProtectionTypeOK, PositionRecord
<1>2. PICK after \in [live -> UNION {Advanced(pos[p]) : p \in live}] :
        /\ \A p \in live : after[p] \in Advanced(pos[p])
        /\ pos' = Submitted(decision, [p \in Position |-> IF p \in live THEN after[p] ELSE pos[p]])
  BY DEF BrokerActs
<1> DEFINE moved == [p \in Position |-> IF p \in live THEN after[p] ELSE pos[p]]
<1>3. \A p \in live : pos[p].status \notin {"none"} \cup Terminal /\ p \in Position
  BY DEF Active
<1>4. \A p \in live :
        /\ after[p] \in PositionRecord
        /\ after[p].status # "none"
        /\ after[p].status = "PENDING_ENTRY" => pos[p].status = "PENDING_ENTRY"
        /\ after[p].status = "OPEN" => pos[p].status \in {"PENDING_ENTRY", "OPEN"}
  <2> TAKE p \in live
  <2> QED BY <1>1, <1>2, <1>3, AdvancedKeeps
<1>5. moved \in [Position -> PositionRecord]
  BY <1>1, <1>4
<1>6. \A p \in Position : p \notin live => moved[p] = pos[p]
  OBVIOUS
<1>7. \A p \in live : moved[p] = after[p]
  BY <1>3
<1>8. \A j \in Instrument : Active(j, moved) \subseteq Active(j, pos)
  BY <1>3, <1>6 DEF Active
<1>9. pos' = Submitted(decision, moved)
  BY <1>2
<1>10. \/ pos' = moved
       \/ /\ decision \in Position
          /\ moved[decision].status = "none"
          /\ \E s \in {"PENDING_ENTRY", "REJECTED"} :
               /\ pos' = [moved EXCEPT ![decision] = At(s)]
               /\ s = "PENDING_ENTRY" => Active(InstrumentOf[decision], moved) = {}
  BY <1>1, <1>9 DEF Submitted
<1> HIDE DEF moved, live
<1>11. pos' \in [Position -> PositionRecord]
  <2>1. \A s \in {"PENDING_ENTRY", "REJECTED"} : At(s) \in PositionRecord
    BY DEF At, PositionRecord, PositionStatus, Terminal
  <2> QED BY <2>1, <1>5, <1>10
<1>12. ASSUME NEW p \in Position
       PROVE  /\ pos[p].status \in Terminal => pos'[p] = pos[p]
              /\ pos'[p].status = "OPEN" => pos[p].status \in {"PENDING_ENTRY", "OPEN"}
              /\ pos'[p].status \in {"none", "PENDING_ENTRY"}
                    => pos[p].status \in {"none", "PENDING_ENTRY"}
  <2>1. /\ pos[p].status \in Terminal => moved[p] = pos[p]
        /\ moved[p].status = "OPEN" => pos[p].status \in {"PENDING_ENTRY", "OPEN"}
        /\ moved[p].status \in {"none", "PENDING_ENTRY"}
              => pos[p].status \in {"none", "PENDING_ENTRY"}
    BY <1>3, <1>4, <1>6, <1>7
  <2>2. CASE pos'[p] = moved[p]
    BY <2>1, <2>2
  <2>3. CASE pos'[p] # moved[p]
    <3>1. moved[p].status = "none" /\ pos'[p].status \in {"PENDING_ENTRY", "REJECTED"}
      BY <2>3, <1>5, <1>10 DEF At
    <3>2. pos[p].status \notin Terminal
      BY <2>1, <3>1 DEF Terminal
    <3> QED BY <2>1, <3>1, <3>2
  <2> QED BY <2>2, <2>3
<1>13. Distinct(pos) => Distinct(pos')
  <2> SUFFICES ASSUME Distinct(pos),
                      NEW p \in Position, NEW q \in Position, NEW j \in Instrument,
                      {p, q} \subseteq Active(j, pos')
               PROVE  p = q
    BY DEF Distinct
  <2>1. CASE pos' = moved
    BY <2>1, <1>8 DEF Distinct
  <2>2. CASE pos' # moved
    <3>1. PICK s \in {"PENDING_ENTRY", "REJECTED"} :
            /\ pos' = [moved EXCEPT ![decision] = At(s)]
            /\ s = "PENDING_ENTRY" => Active(InstrumentOf[decision], moved) = {}
      BY <2>2, <1>10
    <3>2. \A r \in Position : r # decision /\ r \in Active(j, pos') => r \in Active(j, moved)
      BY <3>1, <1>5 DEF Active
    <3>3. decision \in Active(j, pos') => Active(j, moved) = {}
      BY <3>1, <1>5 DEF Active, At, Terminal
    <3> QED BY <3>2, <3>3, <1>8 DEF Distinct
  <2> QED BY <2>1, <2>2
<1>14. plan' = NoPlan
  BY DEF BrokerActs
<1> QED BY <1>11, <1>12, <1>13, <1>14
-----------------------------------------------------------------------------
(* What the entries written for a position may make of its stop.            *)
LEMMA PathKeeps ==
  ASSUME ProtectionTypeOK, NEW p \in Position, Path(p) # << >>
  PROVE  /\ Path(p) \in Seq(StopStatus \ {"none", "BLOCKED"})
         /\ pos[p].status \in {"OPEN"} \cup Terminal
         /\ pos[p].status = "OPEN" =>
              /\ \A n \in 1..Len(Path(p)) : Path(p)[n] \notin Withdrawn
              /\ Last(Path(p)) = "ACTIVE"
         /\ pos[p].status \in Terminal => Last(Path(p)) \in Ended
<1> USE DEF StopStatus, Withdrawn, Ended, Terminal, Last
<1>1. CASE pos[p].status = "OPEN"
  <2>1. Path(p) \in {<<"REGISTERED", "SUBMITTING", "ACTIVE">>, <<"SUBMITTING", "ACTIVE">>, <<"ACTIVE">>}
    BY <1>1 DEF Path, Activation, ActivationFrom
  <2>2. CASE Path(p) = <<"REGISTERED", "SUBMITTING", "ACTIVE">>
    BY <1>1, <2>2
  <2>3. CASE Path(p) = <<"SUBMITTING", "ACTIVE">>
    BY <1>1, <2>3
  <2>4. CASE Path(p) = <<"ACTIVE">>
    BY <1>1, <2>4
  <2> QED BY <2>1, <2>2, <2>3, <2>4
<1>2. CASE pos[p].status \in Terminal
  <2>1. Path(p) \in {<<"TRIGGERED">>, <<"CANCEL_PENDING", "CANCELLED">>, <<"CANCELLED">>, <<"REJECTED">>}
    BY <1>2 DEF Path, Closure, ClosureFrom
  <2>2. CASE Path(p) = <<"TRIGGERED">>
    BY <1>2, <2>2
  <2>3. CASE Path(p) = <<"CANCEL_PENDING", "CANCELLED">>
    BY <1>2, <2>3
  <2>4. CASE Path(p) = <<"CANCELLED">>
    BY <1>2, <2>4
  <2>5. CASE Path(p) = <<"REJECTED">>
    BY <1>2, <2>5
  <2> QED BY <2>1, <2>2, <2>3, <2>4, <2>5
<1> QED BY <1>1, <1>2 DEF Path

(* Where nothing is to be written and nothing refused, all is accounted for.*)
LEMMA NothingToWrite ==
  ASSUME NEW position \in PositionRecord, NEW status \in StopStatus,
         position.status = "OPEN" => Activation(status) = << >>,
         position.status \in Terminal =>
           Closure(status, position.byStop) = << >> /\ ~ClosureRaises(status),
         status = "BLOCKED" => position.status \in {"PENDING_EXIT"} \cup Terminal,
         status \in Withdrawn => position.status \in Terminal
  PROVE  /\ position.status = "OPEN" => status = "ACTIVE"
         /\ position.status \in Terminal => status \in Ended \cup {"none"}
<1> USE DEF StopStatus, Withdrawn, Ended, Terminal
<1>1. CASE position.status = "OPEN"
  <2>1. status \notin {"none", "REGISTERED", "SUBMITTING"}
    BY <1>1 DEF Activation, ActivationFrom
  <2> QED BY <1>1, <2>1
<1>2. CASE position.status \in Terminal
  <2>1. status \notin {"ACTIVE", "CANCEL_PENDING", "SUBMITTING"}
    BY <1>2 DEF Closure, ClosureFrom
  <2> QED BY <1>2, <2>1 DEF ClosureRaises
<1> QED BY <1>1, <1>2

-----------------------------------------------------------------------------
LEMMA InitHolds == ProtectionInit => IInv
<1> SUFFICES ASSUME ProtectionInit
             PROVE  IInv
  OBVIOUS
<1>1. /\ \A p \in Position : stop[p] = "none" /\ pos[p].status = "none" /\ rows[p] = pos[p]
      /\ stopJournal.stop = stop /\ stopJournal.latched = latched
      /\ ~interlock /\ pc = "idle"
  BY DEF ProtectionInit, StopsInit, At
<1>2. ProtectionTypeOK
  <2>1. StopsTypeOK
    BY DEF ProtectionInit, StopsInit, StopsTypeOK, StopStatus
  <2>2. pos \in [Position -> [status : PositionStatus, byStop : BOOLEAN]] /\ rows = pos
    BY DEF ProtectionInit, At, PositionStatus
  <2> QED BY <2>1, <2>2 DEF ProtectionInit, ProtectionTypeOK, Up
<1>3. OneActive
  BY <1>1 DEF OneActive, Distinct, Active
<1>4. StopsFollow
  BY <1>1 DEF StopsFollow, StopFollows, Withdrawn
<1>5. InterlockIsLatched /\ RowsFollow /\ PassProgress
  BY <1>1 DEF InterlockIsLatched, RowsFollow, PassProgress
<1> QED BY <1>2, <1>3, <1>4, <1>5 DEF IInv

(* Events the broker sees, live or replayed. *)
LEMMA BrokerInvariant ==
  ASSUME IInv, NEW i \in Instrument, NEW decision \in Position \cup {NoPlan},
         BrokerActs(i, decision), UNCHANGED <<stops, interlock, rows, course, undone>>
  PROVE  /\ pos' \in [Position -> PositionRecord] /\ plan' = NoPlan /\ page' \subseteq Position
         /\ OneActive' /\ StopsFollow' /\ InterlockIsLatched' /\ RowsFollow'
<1>1. /\ pos' \in [Position -> PositionRecord] /\ plan' = NoPlan
      /\ Distinct(pos')
      /\ \A p \in Position :
           /\ pos[p].status \in Terminal => pos'[p] = pos[p]
           /\ pos'[p].status = "OPEN" => pos[p].status \in {"PENDING_ENTRY", "OPEN"}
           /\ pos'[p].status \in {"none", "PENDING_ENTRY"}
                 => pos[p].status \in {"none", "PENDING_ENTRY"}
  BY BrokerKeeps DEF IInv, OneActive
<1>2. UNCHANGED <<stop, latched, stopJournal, interlock, rows, course, undone>>
  BY DEF stops
<1>3. page' = page \cup {p \in Position : pos'[p] # pos[p]} /\ page' \subseteq Position
  BY DEF BrokerActs, IInv, ProtectionTypeOK
<1>4. OneActive'
  BY <1>1, <1>2 DEF IInv, OneActive, Distinct, Active
<1>5. StopsFollow'
  <2> SUFFICES ASSUME NEW p \in Position \ undone, NEW status, StopFollows(p, status)
               PROVE  StopFollows(p, status)'
    BY <1>2 DEF IInv, StopsFollow
  <2>1. pos'[p].status \in PositionStatus
    BY <1>1 DEF PositionRecord
  <2> QED BY <1>1, <2>1 DEF StopFollows, PositionStatus, Terminal
<1>6. InterlockIsLatched'
  BY <1>2 DEF IInv, InterlockIsLatched
<1>7. RowsFollow'
  BY <1>2, <1>3 DEF IInv, RowsFollow
<1> QED BY <1>1, <1>3, <1>4, <1>5, <1>6, <1>7
-----------------------------------------------------------------------------
(* However many of the entries for a position are written, the stops keep   *)
(* what they must of the positions.                                         *)
LEMMA LinesFollow ==
  ASSUME ProtectionTypeOK, StopsFollow, NEW p \in Position, Path(p) # << >>,
         NEW n \in 0 .. Len(Path(p))
  PROVE  /\ AfterLines(p, Path(p), n) \in [Position -> StopStatus]
         /\ \A q \in Position \ undone : StopFollows(q, AfterLines(p, Path(p), n)[q])
<1>1. stop \in [Position -> StopStatus] /\ \A q \in Position \ undone : StopFollows(q, stop[q])
  BY DEF ProtectionTypeOK, StopsTypeOK, StopsFollow
<1>2. CASE n = 0
  BY <1>1, <1>2 DEF AfterLines
<1>3. CASE n # 0
  <2>1. /\ Path(p) \in Seq(StopStatus \ {"none", "BLOCKED"})
        /\ pos[p].status \in {"OPEN"} \cup Terminal
        /\ pos[p].status = "OPEN" => \A k \in 1..Len(Path(p)) : Path(p)[k] \notin Withdrawn
    BY PathKeeps
  <2>2. n \in 1 .. Len(Path(p))
    BY <1>3, <2>1
  <2>3. Path(p)[n] \in StopStatus \ {"none", "BLOCKED"}
    BY <2>1, <2>2
  <2>4. StopFollows(p, Path(p)[n])
    BY <2>1, <2>2, <2>3 DEF StopFollows, Terminal
  <2>5. AfterLines(p, Path(p), n) = [stop EXCEPT ![p] = Path(p)[n]]
    BY <1>3 DEF AfterLines
  <2> QED BY <1>1, <2>3, <2>4, <2>5
<1> QED BY <1>2, <1>3

(* The same of what a visit leaves in memory and in the journal.            *)
LEMMA VisitedStops ==
  ASSUME ProtectionTypeOK, StopsFollow, NEW p \in Position,
         StopWritten(p, Path(p)) \/ Interrupted(p, Path(p)) \/ UNCHANGED stops
  PROVE  /\ StopsTypeOK' /\ latched' = latched
         /\ \A q \in Position \ undone :
              StopFollows(q, stop'[q]) /\ StopFollows(q, stopJournal'.stop[q])
<1>1. /\ StopsTypeOK
      /\ \A q \in Position \ undone : StopFollows(q, stop[q]) /\ StopFollows(q, stopJournal.stop[q])
  BY DEF ProtectionTypeOK, StopsFollow
<1>2. CASE UNCHANGED stops
  BY <1>1, <1>2 DEF stops, StopsTypeOK
<1>3. CASE StopWritten(p, Path(p)) /\ Path(p) # << >>
  <2>1. Path(p) \in Seq(StopStatus \ {"none", "BLOCKED"})
    BY <1>3, PathKeeps
  <2>2. Len(Path(p)) \in 0 .. Len(Path(p)) /\ Len(Path(p)) # 0
    BY <1>3, <2>1
  <2>3. stop' = AfterLines(p, Path(p), Len(Path(p)))
    BY <1>3, <2>2 DEF StopWritten, AfterLines, Last
  <2>4. stopJournal' = [stop |-> stop', latched |-> latched'] /\ latched' = latched
        /\ lastLine' \in {"known", "unknown", "broken"}
    BY <1>3 DEF StopWritten, Persisted
  <2>5. stop' \in [Position -> StopStatus] /\ \A q \in Position \ undone : StopFollows(q, stop'[q])
    BY <1>3, <2>2, <2>3, LinesFollow
  <2>6. latched \in BOOLEAN
    BY <1>1 DEF StopsTypeOK
  <2> QED BY <2>4, <2>5, <2>6 DEF StopsTypeOK
<1>4. CASE Interrupted(p, Path(p))
  <2>1. PICK m \in 0 .. Len(Path(p)), n \in 0 .. Len(Path(p)) - 1 :
          /\ stop' = AfterLines(p, Path(p), n)
          /\ stopJournal' = IF m = 0 THEN stopJournal
                            ELSE [stop |-> AfterLines(p, Path(p), m), latched |-> latched]
          /\ LineLeft(m > 0, m = n)
          /\ latched' = latched
    BY <1>4 DEF Interrupted
  <2>2. Path(p) # << >>
    BY <2>1
  <2>3. Path(p) \in Seq(StopStatus \ {"none", "BLOCKED"})
    BY <2>2, PathKeeps
  <2>4. n \in 0 .. Len(Path(p))
    BY <2>1, <2>3
  <2>5. stop' \in [Position -> StopStatus] /\ \A q \in Position \ undone : StopFollows(q, stop'[q])
    BY <2>1, <2>2, <2>4, LinesFollow
  <2>6. /\ AfterLines(p, Path(p), m) \in [Position -> StopStatus]
        /\ \A q \in Position \ undone : StopFollows(q, AfterLines(p, Path(p), m)[q])
    BY <2>1, <2>2, LinesFollow
  <2>7. lastLine' \in {"known", "unknown", "broken"}
    BY <1>1, <2>1 DEF LineLeft, StopsTypeOK
  <2>8. CASE m = 0
    BY <1>1, <2>1, <2>5, <2>7, <2>8 DEF StopsTypeOK
  <2>9. CASE m # 0
    <3>1. stopJournal' = [stop |-> AfterLines(p, Path(p), m), latched |-> latched]
      BY <2>1, <2>9
    <3> QED BY <1>1, <2>1, <2>5, <2>6, <2>7, <3>1 DEF StopsTypeOK
  <2> QED BY <2>8, <2>9
<1> QED BY <1>2, <1>3, <1>4 DEF StopWritten

(* A visit, completed, refused or interrupted. *)
LEMMA VisitInvariant ==
  ASSUME IInv, NEW p \in Position, Visit(p)
  PROVE  IInv'
<1> USE DEF IInv
<1>1. /\ ProtectionTypeOK /\ OneActive /\ StopsFollow /\ InterlockIsLatched /\ RowsFollow
      /\ PassProgress
      /\ pc = "sync" /\ p \in todo
      /\ UNCHANGED <<pos, plan, interlock, rows, page, owed, course, undone>>
  BY DEF Visit, saving
<1>2. StopWritten(p, Path(p)) \/ Interrupted(p, Path(p)) \/ UNCHANGED stops
  BY DEF Visit
<1>3. /\ StopsTypeOK' /\ latched' = latched
      /\ \A q \in Position \ undone :
           StopFollows(q, stop'[q]) /\ StopFollows(q, stopJournal'.stop[q])
  BY <1>1, <1>2, VisitedStops
<1>4. ProtectionTypeOK'
  <2>1. todo' \subseteq Position
    BY <1>1 DEF Visit, ProtectionTypeOK
  <2>2. pc' \in Up \cup {"down", "failed"}
    BY DEF Visit, Halts, Up
  <2> QED BY <1>1, <1>3, <2>1, <2>2 DEF ProtectionTypeOK
<1>5. OneActive' /\ RowsFollow'
  BY <1>1 DEF OneActive, Distinct, Active, RowsFollow
<1>6. StopsFollow'
  BY <1>1, <1>3 DEF StopsFollow, StopFollows
<1>7. InterlockIsLatched'
  BY <1>1, <1>3 DEF InterlockIsLatched
<1>8. PassProgress'
  <2> SUFFICES ASSUME pc' \in {"sync", "reconcile"}, NEW q \in Position \ undone,
                      q \notin todo' \/ pc' = "reconcile"
               PROVE  Accounted(q)'
    BY <1>1 DEF PassProgress
  <2>1. /\ StopWritten(p, Path(p))
        /\ ~(pos[p].status \in Terminal /\ ClosureRaises(stop[p]))
        /\ todo' = todo \ {p}
        /\ pc' = "reconcile" => todo' = {}
    BY DEF Visit, Halts
  <2>2. stop \in [Position -> StopStatus]
    BY <1>1 DEF ProtectionTypeOK, StopsTypeOK
  <2>3. CASE q # p
    <3>1. stop'[q] = stop[q] /\ q \notin todo
      BY <2>1, <2>2, <2>3 DEF StopWritten, stops
    <3> QED BY <1>1, <3>1 DEF PassProgress, Accounted
  <2>4. CASE q = p /\ Path(p) = << >>
    <3>1. pos[p] \in PositionRecord /\ stop[p] \in StopStatus
      BY <1>1, <2>2 DEF ProtectionTypeOK, PositionRecord
    <3>2. /\ pos[p].status = "OPEN" => Activation(stop[p]) = << >>
          /\ pos[p].status \in Terminal => Closure(stop[p], pos[p].byStop) = << >>
      BY <2>4 DEF Path, Terminal
    <3>3. StopFollows(p, stop[p])
      BY <1>1, <2>4 DEF StopsFollow
    <3> QED BY <1>1, <2>1, <2>4, <3>1, <3>2, <3>3, NothingToWrite
            DEF StopWritten, Accounted, StopFollows, stops
  <2>5. CASE q = p /\ Path(p) # << >>
    <3>1. stop'[p] = Last(Path(p))
      BY <2>1, <2>2, <2>5 DEF StopWritten
    <3> QED BY <1>1, <2>5, <3>1, PathKeeps DEF Accounted
  <2> QED BY <2>3, <2>4, <2>5
<1> QED BY <1>4, <1>5, <1>6, <1>7, <1>8

(* What the reconciliation makes of the stops, of all of them or of some.   *)
LEMMA ReconciledKeeps ==
  ASSUME IInv, pc = "reconcile", NEW done \in SUBSET Working
  PROVE  /\ StopsAfter(done, Observed) \in [Position -> StopStatus]
         /\ \A p \in Position \ undone :
              /\ StopFollows(p, StopsAfter(done, Observed)[p])
              /\ pos[p].status = "OPEN" => StopsAfter(done, Observed)[p] = "ACTIVE"
              /\ pos[p].status \in Terminal => StopsAfter(done, Observed)[p] = stop[p]
<1> USE DEF IInv
<1>1. stop \in [Position -> StopStatus] /\ pos \in [Position -> PositionRecord]
  BY DEF ProtectionTypeOK, StopsTypeOK, PositionRecord
<1>2. ASSUME NEW p \in Position
      PROVE  StopsAfter(done, Observed)[p] \in {stop[p], Reconciled(p, Observed)}
  BY DEF StopsAfter
<1>3. \A p \in Position : Reconciled(p, Observed) \in StopStatus
  BY <1>1 DEF Reconciled, StopStatus
<1>4. StopsAfter(done, Observed) \in [Position -> StopStatus]
  BY <1>1, <1>3 DEF StopsAfter
<1>5. ASSUME NEW p \in Position \ undone
      PROVE  /\ StopFollows(p, Reconciled(p, Observed))
             /\ pos[p].status = "OPEN" => Reconciled(p, Observed) = "ACTIVE" /\ stop[p] = "ACTIVE"
             /\ pos[p].status \in Terminal => Reconciled(p, Observed) = stop[p]
  <2>1. /\ Accounted(p) /\ StopFollows(p, stop[p])
        /\ pos[p].status \in PositionStatus
    BY <1>1 DEF PassProgress, StopsFollow, PositionRecord
  <2>2. pos[p].status = "OPEN" =>
          p \in Working /\ p \notin Missing(Observed) /\ stop[p] = "ACTIVE"
    BY <2>1 DEF Accounted, Working, Expected, Observed, Missing
  <2>3. pos[p].status \in Terminal => p \notin Working
    BY <2>1 DEF Accounted, Working, Expected, Ended
  <2>4. pos[p].status \in {"none", "PENDING_ENTRY"} => p \notin Working
    BY <2>1 DEF StopFollows, Working, Expected
  <2>5. pos[p].status = "PENDING_EXIT" =>
          p \notin Observed /\ stop[p] \notin Withdrawn
    BY <2>1 DEF StopFollows, Observed, Terminal
  <2>6. CASE pos[p].status = "OPEN"
    BY <2>1, <2>2, <2>6 DEF Reconciled, StopFollows, Withdrawn, Terminal
  <2>7. CASE pos[p].status \in Terminal \cup {"none", "PENDING_ENTRY"}
    BY <2>1, <2>3, <2>4, <2>7 DEF Reconciled, Terminal
  <2>8. CASE pos[p].status = "PENDING_EXIT"
    BY <2>1, <2>5, <2>8 DEF Reconciled, Missing, StopFollows, Withdrawn, Terminal
  <2> QED BY <2>1, <2>6, <2>7, <2>8 DEF PositionStatus
<1>6. \A p \in Position \ undone : StopFollows(p, stop[p])
  BY DEF StopsFollow
<1>7. ASSUME NEW p \in Position \ undone
      PROVE  /\ StopFollows(p, StopsAfter(done, Observed)[p])
             /\ pos[p].status = "OPEN" => StopsAfter(done, Observed)[p] = "ACTIVE"
             /\ pos[p].status \in Terminal => StopsAfter(done, Observed)[p] = stop[p]
  BY <1>2, <1>5, <1>6
<1> QED BY <1>4, <1>7

(* The reconciliation, completed or interrupted. *)
LEMMA ReconcileInvariant ==
  ASSUME IInv, Reconcile
  PROVE  IInv' /\ (pc' = "idle" => \A p \in Position \ undone : Accounted(p)')
<1> USE DEF IInv
<1>1. /\ ProtectionTypeOK /\ OneActive /\ StopsFollow /\ InterlockIsLatched /\ RowsFollow
      /\ PassProgress
      /\ pc = "reconcile"
      /\ UNCHANGED <<pos, plan, todo, rows, page, owed, course, undone>>
      /\ pc' \in {"idle", "down", "failed"}
  BY DEF Reconcile, Halts, saving
<1>2. stop \in [Position -> StopStatus] /\ latched \in BOOLEAN /\ interlock \in BOOLEAN
      /\ stopJournal \in [stop : [Position -> StopStatus], latched : BOOLEAN]
      /\ lastLine \in {"known", "unknown", "broken"}
  BY DEF ProtectionTypeOK, StopsTypeOK
<1>3. /\ \A p \in Position \ undone : Accounted(p)
      /\ \A p \in Position \ undone : StopFollows(p, stop[p]) /\ StopFollows(p, stopJournal.stop[p])
  BY <1>1 DEF PassProgress, StopsFollow
<1>4. StopsTypeOK' /\ (\A p \in Position \ undone :
                         StopFollows(p, stop'[p]) /\ StopFollows(p, stopJournal'.stop[p]))
  <2>1. CASE ReconcileStops(Observed)
    <3>1. /\ stop' = StopsAfter(Working, Observed)
          /\ latched' \in BOOLEAN
          /\ \/ UNCHANGED <<stopJournal, lastLine>>
             \/ stopJournal' = [stop |-> stop', latched |-> latched'] /\ lastLine' \in {"known", "broken"}
      BY <1>2, <2>1 DEF ReconcileStops, Persisted
    <3>2. /\ stop' \in [Position -> StopStatus]
          /\ \A p \in Position \ undone : StopFollows(p, stop'[p])
      BY <1>1, <3>1, ReconciledKeeps
    <3> QED BY <1>2, <1>3, <3>1, <3>2 DEF StopsTypeOK
  <2>2. CASE ReconcileInterrupted(Observed)
    <3>1. PICK done \in SUBSET Working, written \in SUBSET Working, engaged \in BOOLEAN :
            /\ stop' = StopsAfter(done, Observed)
            /\ stopJournal' = IF written = {} THEN stopJournal
                 ELSE [stop |-> StopsAfter(written, Observed), latched |-> latched \/ engaged]
            /\ LineLeft(written # {}, written = done /\ ~engaged)
            /\ latched' = latched
      BY <2>2 DEF ReconcileInterrupted
    <3>2. /\ stop' \in [Position -> StopStatus]
          /\ \A p \in Position \ undone : StopFollows(p, stop'[p])
      BY <1>1, <3>1, ReconciledKeeps
    <3>3. /\ StopsAfter(written, Observed) \in [Position -> StopStatus]
          /\ \A p \in Position \ undone : StopFollows(p, StopsAfter(written, Observed)[p])
      BY <1>1, <3>1, ReconciledKeeps
    <3>4. lastLine' \in {"known", "unknown", "broken"}
      BY <1>2, <3>1 DEF LineLeft
    <3>5. (latched \/ engaged) \in BOOLEAN
      BY <1>2, <3>1
    <3>6. CASE written = {}
      BY <1>2, <1>3, <3>1, <3>2, <3>4, <3>6 DEF StopsTypeOK
    <3>7. CASE written # {}
      <4>1. stopJournal' = [stop |-> StopsAfter(written, Observed), latched |-> latched \/ engaged]
        BY <3>1, <3>7
      <4> QED BY <1>2, <3>1, <3>2, <3>3, <3>4, <3>5, <4>1 DEF StopsTypeOK
    <3> QED BY <3>6, <3>7
  <2> QED BY <2>1, <2>2 DEF Reconcile
<1>5. ProtectionTypeOK'
  <2>1. interlock' \in BOOLEAN
    <3>1. interlock' = interlock \/ interlock' = Verdict(Missing(Observed) = {}, latched)
      BY DEF Reconcile
    <3> QED BY <1>2, <3>1 DEF Verdict
  <2> QED BY <1>1, <1>4, <2>1 DEF ProtectionTypeOK, Up
<1>6. OneActive' /\ RowsFollow'
  BY <1>1 DEF OneActive, Distinct, Active, RowsFollow
<1>7. StopsFollow'
  BY <1>1, <1>4 DEF StopsFollow, StopFollows
<1>8. InterlockIsLatched'
  BY <1>1, <1>2 DEF Reconcile, ReconcileStops, ReconcileInterrupted, Verdict, InterlockIsLatched
<1>9. PassProgress'
  BY <1>1 DEF PassProgress
<1>10. pc' = "idle" => \A p \in Position \ undone : Accounted(p)'
  <2> SUFFICES ASSUME pc' = "idle", NEW p \in Position \ undone
               PROVE  Accounted(p)'
    OBVIOUS
  <2>1. stop' = StopsAfter(Working, Observed)
    BY DEF Reconcile, Halts, ReconcileStops
  <2>2. /\ pos[p].status = "OPEN" => stop'[p] = "ACTIVE"
        /\ pos[p].status \in Terminal => stop'[p] = stop[p]
    BY <1>1, <2>1, ReconciledKeeps
  <2> QED BY <1>1, <1>3, <2>2 DEF Accounted
<1> QED BY <1>5, <1>6, <1>7, <1>8, <1>9, <1>10
-----------------------------------------------------------------------------
(* A new process: what a catch-up that was overtaken had taken is undone,   *)
(* and of all other positions nothing changes.                              *)
LEMMA StartInvariant ==
  ASSUME IInv, ServiceStarts
  PROVE  IInv'
<1> USE DEF IInv
<1>1. /\ ProtectionTypeOK /\ OneActive /\ StopsFollow /\ RowsFollow
      /\ stop' = stopJournal.stop /\ latched' = stopJournal.latched /\ stopJournal' = stopJournal
      /\ lastLine' = "known" /\ rows' = rows /\ course' = "own" /\ plan' = NoPlan
      /\ interlock' = FALSE /\ todo' = {} /\ pc' = "restore" /\ owed' \subseteq owed
      /\ Distinct(rows)
  BY DEF ServiceStarts, StopsRecovered
<1>2. \/ UNCHANGED <<pos, page, undone>> /\ course # "strayed"
      \/ /\ pos' = rows /\ page' = {}
         /\ undone' = undone \cup {p \in Position : rows[p] # pos[p]}
  BY DEF ServiceStarts
<1>3. \A p \in Position \ undone' : pos'[p] = pos[p] /\ p \notin undone
  BY <1>2
<1>4. ProtectionTypeOK'
  <2>1. StopsTypeOK'
    BY <1>1 DEF ProtectionTypeOK, StopsTypeOK
  <2>2. /\ pos' \in [Position -> [status : PositionStatus, byStop : BOOLEAN]]
        /\ page' \subseteq Position /\ undone' \subseteq Position
    BY <1>1, <1>2 DEF ProtectionTypeOK
  <2> QED BY <1>1, <2>1, <2>2 DEF ProtectionTypeOK, Up
<1>5. OneActive'
  BY <1>1, <1>2 DEF OneActive, Distinct, Active
<1>6. StopsFollow'
  BY <1>1, <1>3 DEF StopsFollow, StopFollows
<1>7. RowsFollow'
  BY <1>1, <1>2 DEF RowsFollow
<1>8. InterlockIsLatched' /\ PassProgress'
  BY <1>1 DEF InterlockIsLatched, PassProgress
<1> QED BY <1>4, <1>5, <1>6, <1>7, <1>8

(* Steps that touch neither positions nor stops: the invariant's parts that *)
(* are about them stay.                                                     *)
LEMMA StillInvariant ==
  ASSUME IInv, UNCHANGED <<stops, pos, undone>>
  PROVE  StopsTypeOK' /\ StopsFollow' /\ Distinct(pos)'
<1> QED BY DEF IInv, ProtectionTypeOK, StopsTypeOK, stops, StopsFollow, StopFollows, OneActive,
              Distinct, Active

(* Every step keeps the inductive invariant. *)
LEMMA NextInvariant == IInv /\ [ProtectionNext]_protection => IInv'
<1> SUFFICES ASSUME IInv, [ProtectionNext]_protection
             PROVE  IInv'
  OBVIOUS
<1> USE DEF IInv
<1>1. /\ ProtectionTypeOK /\ OneActive /\ StopsFollow /\ InterlockIsLatched /\ RowsFollow
      /\ PassProgress
  OBVIOUS
<1>2. ASSUME UNCHANGED <<stops, pos, undone, interlock, rows, page, course>>,
             pc' \notin {"sync", "reconcile"}, pc' \in Up \cup {"down", "failed"},
             plan' \in Position \cup {NoPlan}, owed' \subseteq Position, todo' \subseteq Position
      PROVE  IInv'
  <2>1. StopsTypeOK' /\ StopsFollow' /\ Distinct(pos)'
    BY <1>2, StillInvariant
  <2>2. ProtectionTypeOK'
    BY <1>1, <1>2, <2>1 DEF ProtectionTypeOK
  <2>3. OneActive'
    BY <1>1, <1>2, <2>1 DEF OneActive, Distinct, Active
  <2>4. InterlockIsLatched' /\ RowsFollow' /\ PassProgress'
    BY <1>1, <1>2 DEF InterlockIsLatched, RowsFollow, PassProgress, stops
  <2> QED BY <2>1, <2>2, <2>3, <2>4
<1>3. CASE TakeEvent
  <2>1. plan' \in Position \cup {NoPlan} /\ owed' \subseteq Position
    BY <1>1, <1>3 DEF TakeEvent, ProtectionTypeOK
  <2> QED BY <1>1, <1>2, <1>3, <2>1 DEF TakeEvent, ProtectionTypeOK, Up
<1>4. CASE Broker
  <2>1. CASE plan = NoPlan /\ pc' = "idle" /\ UNCHANGED <<pos, plan, todo, page>>
    BY <1>1, <1>2, <1>4, <2>1 DEF Broker, ProtectionTypeOK, Up
  <2>2. CASE \E i \in Instrument :
               /\ BrokerActs(i, plan)
               /\ todo' = {p \in Position : Path(p)' # << >> \/ Refused(p)'}
               /\ pc' = IF todo' = {} THEN "reconcile" ELSE "sync"
    <3>1. UNCHANGED <<stops, interlock, rows, owed, course, undone>> /\ plan \in Position \cup {NoPlan}
      BY <1>1, <1>4 DEF Broker, ProtectionTypeOK
    <3>2. /\ pos' \in [Position -> PositionRecord] /\ plan' = NoPlan /\ page' \subseteq Position
          /\ OneActive' /\ StopsFollow' /\ InterlockIsLatched' /\ RowsFollow'
      BY <2>2, <3>1, BrokerInvariant
    <3>3. ProtectionTypeOK'
      <4>1. todo' \subseteq Position /\ pc' \in Up
        BY <2>2 DEF Up
      <4>2. StopsTypeOK'
        BY <1>1, <3>1 DEF ProtectionTypeOK, StopsTypeOK, stops
      <4> QED BY <1>1, <3>1, <3>2, <4>1, <4>2 DEF ProtectionTypeOK, PositionRecord
    <3>4. ASSUME NEW p \in Position \ undone, p \notin todo'
          PROVE  Accounted(p)'
      <4>1. Path(p)' = << >> /\ ~Refused(p)'
        BY <2>2, <3>4
      <4>2. pos'[p] \in PositionRecord /\ stop'[p] \in StopStatus
        BY <1>1, <3>1, <3>2 DEF ProtectionTypeOK, StopsTypeOK, stops
      <4>3. /\ pos'[p].status = "OPEN" => Activation(stop'[p]) = << >>
            /\ pos'[p].status \in Terminal =>
                 Closure(stop'[p], pos'[p].byStop) = << >> /\ ~ClosureRaises(stop'[p])
        BY <4>1 DEF Path, Refused, Terminal
      <4>4. StopFollows(p, stop[p])'
        BY <3>1, <3>2 DEF StopsFollow
      <4> QED BY <4>2, <4>3, <4>4, NothingToWrite DEF Accounted, StopFollows
    <3>5. PassProgress'
      BY <2>2, <3>1, <3>4 DEF PassProgress
    <3> QED BY <3>2, <3>3, <3>5
  <2> QED BY <1>4, <2>1, <2>2 DEF Broker
<1>5. CASE SavePage
  <2>1. /\ UNCHANGED <<stops, pos, plan, interlock, todo, course, undone>>
        /\ rows' = [p \in Position |-> IF p \in page THEN pos[p] ELSE rows[p]]
        /\ page' = {} /\ owed' = {} /\ pc' \in {"idle", "failed"}
    BY <1>5 DEF SavePage
  <2>2. StopsTypeOK' /\ StopsFollow' /\ Distinct(pos)'
    BY <2>1, StillInvariant
  <2>3. rows' \in [Position -> [status : PositionStatus, byStop : BOOLEAN]]
    BY <1>1, <2>1 DEF ProtectionTypeOK
  <2>4. ProtectionTypeOK'
    BY <1>1, <2>1, <2>2, <2>3 DEF ProtectionTypeOK, Up
  <2>5. course # "strayed" => \A p \in Position : rows'[p] = pos'[p]
    BY <1>1, <2>1 DEF RowsFollow
  <2>6. OneActive' /\ RowsFollow'
    BY <2>1, <2>2, <2>5 DEF OneActive, Distinct, Active, RowsFollow
  <2>7. InterlockIsLatched' /\ PassProgress'
    BY <1>1, <2>1 DEF InterlockIsLatched, PassProgress, stops
  <2> QED BY <2>2, <2>4, <2>6, <2>7
<1>6. CASE Overtake
  <2>1. /\ UNCHANGED <<stops, pos, interlock, rows, owed, undone>>
        /\ plan' = NoPlan /\ page' = {} /\ todo' = {} /\ pc' = "idle"
        /\ course' \in {"overtaken", "strayed"}
        /\ course' # "strayed" => page = {} /\ course = "own"
    BY <1>6 DEF Overtake
  <2>2. StopsTypeOK' /\ StopsFollow' /\ Distinct(pos)'
    BY <2>1, StillInvariant
  <2>3. ProtectionTypeOK'
    BY <1>1, <2>1, <2>2 DEF ProtectionTypeOK, Up
  <2>4. OneActive' /\ RowsFollow'
    BY <1>1, <2>1, <2>2 DEF OneActive, Distinct, Active, RowsFollow
  <2>5. InterlockIsLatched' /\ PassProgress'
    BY <1>1, <2>1 DEF InterlockIsLatched, PassProgress, stops
  <2> QED BY <2>2, <2>3, <2>4, <2>5
<1>7. CASE \E p \in Position : Visit(p)
  BY <1>7, VisitInvariant
<1>8. CASE Reconcile
  BY <1>8, ReconcileInvariant
<1>9. CASE CatchUpFails
  BY <1>1, <1>2, <1>9 DEF CatchUpFails, saving, ProtectionTypeOK, Up
<1>10. CASE ServiceStarts
  BY <1>10, StartInvariant
<1>11. CASE Replay
  <2>1. PICK i \in Instrument, decision \in owed \cup {NoPlan} :
          BrokerActs(i, decision) /\ owed' = owed \ {decision}
    BY <1>11 DEF Replay
  <2>2. UNCHANGED <<stops, interlock, todo, pc, rows, course, undone>> /\ pc = "restore"
        /\ decision \in Position \cup {NoPlan} /\ owed' \subseteq Position
    BY <1>1, <1>11, <2>1 DEF Replay, ProtectionTypeOK
  <2>3. /\ pos' \in [Position -> PositionRecord] /\ plan' = NoPlan /\ page' \subseteq Position
        /\ OneActive' /\ StopsFollow' /\ InterlockIsLatched' /\ RowsFollow'
    BY <2>1, <2>2, BrokerInvariant
  <2>4. ProtectionTypeOK'
    BY <1>1, <2>2, <2>3 DEF ProtectionTypeOK, StopsTypeOK, stops, PositionRecord
  <2>5. PassProgress'
    BY <2>2 DEF PassProgress
  <2> QED BY <2>3, <2>4, <2>5
<1>12. CASE Restored
  <2>1. /\ UNCHANGED <<stops, pos, plan, interlock, todo, owed, course, undone>>
        /\ rows' = pos /\ page' = {} /\ pc' = "idle"
    BY <1>12 DEF Restored
  <2>2. StopsTypeOK' /\ StopsFollow' /\ Distinct(pos)'
    BY <2>1, StillInvariant
  <2>3. ProtectionTypeOK'
    BY <1>1, <2>1, <2>2 DEF ProtectionTypeOK, Up
  <2>4. OneActive' /\ RowsFollow'
    BY <2>1, <2>2 DEF OneActive, Distinct, Active, RowsFollow
  <2>5. InterlockIsLatched' /\ PassProgress'
    BY <1>1, <2>1 DEF InterlockIsLatched, PassProgress, stops
  <2> QED BY <2>2, <2>3, <2>4, <2>5
<1>13. CASE UNCHANGED protection
  <2>1. UNCHANGED <<stops, pos, plan, interlock, todo, pc, rows, page, owed, course, undone>>
    BY <1>13 DEF protection, saving
  <2>2. StopsTypeOK' /\ StopsFollow' /\ Distinct(pos)'
    BY <2>1, StillInvariant
  <2>3. ProtectionTypeOK' /\ OneActive' /\ RowsFollow'
    BY <1>1, <2>1, <2>2 DEF ProtectionTypeOK, OneActive, Distinct, Active, RowsFollow
  <2>4. InterlockIsLatched' /\ PassProgress'
    BY <1>1, <2>1 DEF InterlockIsLatched, PassProgress, Accounted, stops
  <2> QED BY <2>2, <2>3, <2>4
<1>14. CASE ServiceDies
  <2>1. /\ stop' = stopJournal.stop /\ latched' = stopJournal.latched
        /\ UNCHANGED <<stopJournal, lastLine, pos, rows, page, owed, course, undone>>
        /\ pc' = "down" /\ plan' = NoPlan /\ interlock' = FALSE /\ todo' = {}
    BY <1>14 DEF ServiceDies, saving
  <2>2. StopsTypeOK'
    BY <1>1, <2>1 DEF ProtectionTypeOK, StopsTypeOK
  <2>3. ProtectionTypeOK'
    BY <1>1, <2>1, <2>2 DEF ProtectionTypeOK
  <2>4. OneActive' /\ RowsFollow'
    BY <1>1, <2>1 DEF OneActive, Distinct, Active, RowsFollow
  <2>5. StopsFollow'
    BY <1>1, <2>1 DEF StopsFollow, StopFollows
  <2>6. InterlockIsLatched' /\ PassProgress'
    BY <2>1 DEF InterlockIsLatched, PassProgress
  <2> QED BY <2>3, <2>4, <2>5, <2>6
<1> QED BY <1>3, <1>4, <1>5, <1>6, <1>7, <1>8, <1>9, <1>10, <1>11, <1>12, <1>13, <1>14
        DEF ProtectionNext

(* The inductive invariant holds in every state the runtime can reach.      *)
THEOREM Invariance == ProtectionSpec => []IInv
BY InitHolds, NextInvariant, PTL DEF ProtectionSpec

(* Every variable keeps its type, across crashes, failed appends, replays.  *)
THEOREM TypeCorrect == ProtectionSpec => []ProtectionTypeOK
BY Invariance, PTL DEF IInv

(* The broker never holds two live positions in one instrument, and restore *)
(* refuses the rows for that only after a catch-up was overtaken.           *)
THEOREM OnePerInstrument == ProtectionSpec => []OneActive
BY Invariance, PTL DEF IInv

(* A stop is cancelled, rejected or taken for triggered only once its       *)
(* position is flat for good, whatever crash, error or replay comes between,*)
(* of every position no restart took back.                                  *)
THEOREM NeverUncovered == ProtectionSpec => []WithdrawnOnlyWhenFlat
<1>1. IInv => WithdrawnOnlyWhenFlat
  BY DEF IInv, StopsFollow, StopFollows, WithdrawnOnlyWhenFlat
<1> QED BY <1>1, Invariance, PTL

(* A pass that completes leaves every open position with an active stop and *)
(* no ended position with a working one, also the pass after a crash or by  *)
(* a catch-up that went on after an error; of the same positions.           *)
THEOREM PassesAccount == ProtectionSpec => PassAccountsForAll
<1>1. IInv /\ [ProtectionNext]_protection =>
        [pc = "reconcile" /\ pc' = "idle" => \A p \in Position \ undone : Accounted(p)']_protection
  <2> SUFFICES ASSUME IInv, [ProtectionNext]_protection, pc = "reconcile", pc' = "idle"
               PROVE  \A p \in Position \ undone : Accounted(p)'
    OBVIOUS
  <2>1. Reconcile
    BY DEF ProtectionNext, protection, TakeEvent, Broker, SavePage, CatchUpFails, Overtake, Visit,
           ServiceDies, ServiceStarts, Replay, Restored
  <2> QED BY <2>1, ReconcileInvariant
<1> QED BY <1>1, Invariance, PTL DEF ProtectionSpec, PassAccountsForAll

(* While the process lives, an engaged interlock is not lifted and stops    *)
(* every decision to enter.                                                 *)
THEOREM InterlockHolds == ProtectionSpec => InterlockStays
<1>1. IInv /\ [ProtectionNext]_protection =>
        [interlock /\ pc' \in Up \ {"restore"}
           => interlock' /\ (plan' = plan \/ plan' = NoPlan)]_protection
  <2> SUFFICES ASSUME IInv, ProtectionNext, interlock, pc' \in Up \ {"restore"}
               PROVE  interlock' /\ (plan' = plan \/ plan' = NoPlan)
    OBVIOUS
  <2>1. interlock => latched
    BY DEF IInv, InterlockIsLatched
  <2>2. CASE TakeEvent \/ Broker \/ SavePage \/ CatchUpFails \/ Overtake
    BY <2>2 DEF TakeEvent, Broker, BrokerActs, SavePage, CatchUpFails, Overtake
  <2>3. CASE \E p \in Position : Visit(p)
    BY <2>3 DEF Visit
  <2>4. CASE Reconcile
    BY <2>1, <2>4 DEF Reconcile, Verdict
  <2>5. CASE ServiceDies \/ ServiceStarts \/ Replay \/ Restored
    BY <2>5 DEF ServiceDies, ServiceStarts, Replay, Restored, Up
  <2> QED BY <2>2, <2>3, <2>4, <2>5 DEF ProtectionNext
<1> QED BY <1>1, Invariance, PTL DEF ProtectionSpec, InterlockStays
=============================================================================
