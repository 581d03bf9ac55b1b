--------------------------- MODULE ServiceProofs ---------------------------
(***************************************************************************)
(* Proofs about the two components that share work through a row of the    *)
(* database: ControlPlane, for any number of requests and of answers an    *)
(* operator may state, and for any time to live of an answer (the first    *)
(* part), and BacktestJobs, for any jobs, processes and number of claims   *)
(* (the second).  That every accepted job ends is liveness and stays with  *)
(* TLC.                                                                    *)
(***************************************************************************)
EXTENDS ControlPlane, BacktestJobs, TLAPS

(* The row and the history agree on the reservation it is of.               *)
RowIsHolders ==
  \/ entry = NoEntry /\ holder = {}
  \/ /\ entry.state = "PENDING"
     /\ \E h \in Attempt : holder = {h} /\ ending[h] = Pending /\ entry.content = Content[h]
  \/ /\ entry.state = "COMPLETED"
     /\ \E h \in Attempt : holder = {h} /\ ending[h] = Ended(entry.answer, entry.expires)

(* Every other reservation is over, and so is the time of its answer.       *)
OthersOver ==
  \A a \in Attempt \ holder :
    ending[a].is # "none" => ending[a].is = "ended" /\ ending[a].until <= now

(* A request at work is the holder: an answer recorded for it cannot expire *)
(* before it is over.                                                       *)
WorkerHolds(a) ==
  attempt[a].stage \in AtWork =>
    /\ a \in holder
    /\ attempt[a].since <= now
    /\ now < attempt[a].since + Ttl
    /\ entry.state = "COMPLETED" => attempt[a].since + Ttl <= entry.expires

(* Only a request that reserved has an ending, and a replay repeats one.    *)
NewHasNone(a) == attempt[a].stage = "new" => ending[a] = NoEnding

ReplayIsTrue(a) ==
  attempt[a].stage = "replay" =>
    /\ ending[attempt[a].of].is = "ended"
    /\ ending[attempt[a].of].answer = attempt[a].answer

(* The inductive invariant. *)
KeyInv ==
  /\ CommandsTypeOK
  /\ RowIsHolders
  /\ OthersOver
  /\ \A a \in Attempt : WorkerHolds(a) /\ NewHasNone(a) /\ ReplayIsTrue(a)
  /\ AnswersAgree
-----------------------------------------------------------------------------
LEMMA InitHolds == CommandsInit => KeyInv
<1> SUFFICES ASSUME CommandsInit PROVE KeyInv
  OBVIOUS
<1>1. CommandsTypeOK
  BY CommandsAssumption DEF CommandsInit, CommandsTypeOK, KeyRow, Progress, Ending
<1>2. RowIsHolders
  BY DEF CommandsInit, RowIsHolders
<1>3. OthersOver /\ AnswersAgree
  BY DEF CommandsInit, OthersOver, AnswersAgree, NoEnding
<1>4. ASSUME NEW a \in Attempt PROVE WorkerHolds(a) /\ NewHasNone(a) /\ ReplayIsTrue(a)
  BY DEF CommandsInit, WorkerHolds, NewHasNone, ReplayIsTrue, Unanswered, AtWork
<1> QED BY <1>1, <1>2, <1>3, <1>4 DEF KeyInv

(* While a key can be reserved nobody is at work on it, and every earlier   *)
(* reservation is over.                                                     *)
LEMMA FreeMeansOver ==
  ASSUME KeyInv, Free
  PROVE  /\ \A a \in Attempt : attempt[a].stage \notin AtWork
         /\ \A a \in Attempt : ending[a].is # "none" =>
              ending[a].is = "ended" /\ ending[a].until <= now
<1>1. CASE entry.state = "absent"
  <2>1. holder = {}
    BY <1>1 DEF KeyInv, RowIsHolders, NoEntry
  <2> QED BY <2>1 DEF KeyInv, OthersOver, WorkerHolds
<1>2. CASE entry.state = "COMPLETED" /\ entry.expires <= now
  <2>1. PICK h \in Attempt : holder = {h} /\ ending[h] = Ended(entry.answer, entry.expires)
    BY <1>2 DEF KeyInv, RowIsHolders, NoEntry
  <2>2. entry.expires \in Int /\ now \in Int
    BY <1>2, CommandsAssumption DEF KeyInv, CommandsTypeOK, KeyRow, NoEntry, Deadline
  <2>3. ASSUME NEW a \in Attempt, attempt[a].stage \in AtWork PROVE FALSE
    <3>1. attempt[a].since \in Int
      BY <2>3 DEF KeyInv, CommandsTypeOK, Progress, AtWork, Unanswered, Finished
    <3> QED BY <1>2, <2>2, <2>3, <3>1, CommandsAssumption DEF KeyInv, WorkerHolds
  <2>4. ending[h].is = "ended" /\ ending[h].until <= now
    BY <1>2, <2>1 DEF Ended
  <2> QED BY <2>1, <2>3, <2>4 DEF KeyInv, OthersOver
<1> QED BY <1>1, <1>2 DEF Free

(* A reservation, whether its request learns of it or not.                  *)
LEMMA TakeKeeps ==
  ASSUME KeyInv, Free, NEW a \in Attempt, attempt[a].stage = "new", Take(a),
         NEW to, to \in {Finished, [stage |-> "reserved", since |-> now]}, Moves(a, to),
         UNCHANGED <<now, told>>
  PROVE  KeyInv'
<1>1. to \in Progress /\ to.stage \notin {"new", "replay"}
  BY DEF Progress, AtWork, KeyInv, CommandsTypeOK, Finished
<1>2. attempt'[a] = to /\ \A b \in Attempt \ {a} : attempt'[b] = attempt[b]
  BY DEF Moves, KeyInv, CommandsTypeOK
<1>3. ending'[a] = Pending /\ \A b \in Attempt \ {a} : ending'[b] = ending[b]
  BY DEF Take, KeyInv, CommandsTypeOK
<1>4. CommandsTypeOK'
  <2>1. entry' \in KeyRow
    BY DEF Take, KeyRow
  <2>2. attempt' \in [Attempt -> Progress]
    BY <1>1 DEF Moves, KeyInv, CommandsTypeOK
  <2>3. ending' \in [Attempt -> Ending]
    BY DEF Take, KeyInv, CommandsTypeOK, Ending
  <2> QED BY <2>1, <2>2, <2>3 DEF Take, KeyInv, CommandsTypeOK
<1>5. RowIsHolders'
  BY <1>3 DEF Take, RowIsHolders
<1>6. OthersOver'
  BY <1>3, FreeMeansOver DEF Take, OthersOver
<1>7. ending[a] = NoEnding
  BY DEF KeyInv, NewHasNone
<1>8. ASSUME NEW b \in Attempt PROVE WorkerHolds(b)' /\ NewHasNone(b)' /\ ReplayIsTrue(b)'
  <2>1. WorkerHolds(b)'
    <3>1. CASE b = a
      <4>1. entry'.state # "COMPLETED" /\ a \in holder' /\ now' = now /\ now \in Int
        BY CommandsAssumption DEF Take, KeyInv, CommandsTypeOK
      <4>2. CASE to = Finished
        BY <1>2, <3>1, <4>2 DEF WorkerHolds, Finished, AtWork
      <4>3. CASE to = [stage |-> "reserved", since |-> now]
        BY <1>2, <3>1, <4>1, <4>3, CommandsAssumption DEF WorkerHolds
      <4> QED BY <4>2, <4>3
    <3>2. CASE b # a
      BY <1>2, <3>2, FreeMeansOver DEF WorkerHolds
    <3> QED BY <3>1, <3>2
  <2>2. NewHasNone(b)'
    BY <1>1, <1>2, <1>3 DEF NewHasNone, KeyInv
  <2>3. ReplayIsTrue(b)'
    <3>1. SUFFICES ASSUME attempt'[b].stage = "replay"
                   PROVE  /\ ending'[attempt'[b].of].is = "ended"
                          /\ ending'[attempt'[b].of].answer = attempt'[b].answer
      BY DEF ReplayIsTrue
    <3>2. b # a /\ attempt'[b] = attempt[b]
      BY <1>1, <1>2, <3>1
    <3>3. attempt[b].of \in Attempt
      BY <3>1, <3>2 DEF KeyInv, CommandsTypeOK, Progress, AtWork, Unanswered, Finished
    <3>4. attempt[b].of # a
      BY <1>7, <3>1, <3>2 DEF KeyInv, ReplayIsTrue, NoEnding
    <3> QED BY <1>3, <3>1, <3>2, <3>3, <3>4 DEF KeyInv, ReplayIsTrue
  <2> QED BY <2>1, <2>2, <2>3
<1>9. AnswersAgree'
  <2>1. ASSUME NEW t \in told PROVE ending'[t[1]] = ending[t[1]]
    <3>1. t[1] \in Attempt /\ ending[t[1]].is = "ended"
      BY <2>1 DEF KeyInv, CommandsTypeOK, AnswersAgree
    <3> QED BY <1>3, <1>7, <3>1 DEF NoEnding
  <2> QED BY <2>1 DEF AnswersAgree, KeyInv
<1> QED BY <1>4, <1>5, <1>6, <1>8, <1>9 DEF KeyInv

(* A request moves on while the row stays as it is.                         *)
LEMMA MoveKeeps ==
  ASSUME KeyInv, NEW a \in Attempt, NEW to \in Progress, Moves(a, to),
         to.stage \notin {"new", "replay"},
         to.stage \in AtWork => attempt[a].stage \in AtWork /\ to.since = attempt[a].since,
         UNCHANGED <<entry, now, holder, ending>>,
         told' \in SUBSET (Attempt \X Reply), AnswersAgree'
  PROVE  KeyInv'
<1>1. attempt'[a] = to /\ \A b \in Attempt \ {a} : attempt'[b] = attempt[b]
  BY DEF Moves, KeyInv, CommandsTypeOK
<1>2. CommandsTypeOK'
  BY DEF Moves, KeyInv, CommandsTypeOK
<1>3. RowIsHolders' /\ OthersOver'
  BY DEF KeyInv, RowIsHolders, OthersOver
<1>4. ASSUME NEW b \in Attempt PROVE WorkerHolds(b)' /\ NewHasNone(b)' /\ ReplayIsTrue(b)'
  <2>1. CASE b = a
    <3>1. WorkerHolds(b)'
      BY <1>1, <2>1 DEF KeyInv, WorkerHolds
    <3>2. NewHasNone(b)' /\ ReplayIsTrue(b)'
      BY <1>1, <2>1 DEF NewHasNone, ReplayIsTrue
    <3> QED BY <3>1, <3>2
  <2>2. CASE b # a
    BY <1>1, <2>2 DEF KeyInv, WorkerHolds, NewHasNone, ReplayIsTrue
  <2> QED BY <2>1, <2>2
<1> QED BY <1>2, <1>3, <1>4 DEF KeyInv

(* The answer of the holder is recorded; the requests stay where they are,  *)
(* but for one that may be over.                                            *)
LEMMA SettleKeeps ==
  ASSUME KeyInv, entry.state = "PENDING", NEW answer \in Reply, Settle(answer),
         \A b \in Attempt : attempt'[b] \in {attempt[b], Finished},
         attempt' \in [Attempt -> Progress],
         told' \subseteq told \cup (holder \X {answer}),
         UNCHANGED <<now, holder>>
  PROVE  KeyInv'
<1> DEFINE until == now + Ttl
<1>1. PICK h \in Attempt : holder = {h} /\ ending[h] = Pending /\ entry.content = Content[h]
  BY DEF KeyInv, RowIsHolders, NoEntry
<1>2. ending'[h] = Ended(answer, until) /\ \A b \in Attempt \ {h} : ending'[b] = ending[b]
  BY <1>1 DEF Settle, KeyInv, CommandsTypeOK
<1>3. /\ entry'.state = "COMPLETED" /\ entry'.answer = answer /\ entry'.expires = until
  BY DEF Settle
<1>4. now \in Int /\ until \in Deadline
  BY CommandsAssumption DEF KeyInv, CommandsTypeOK, Deadline
<1>5. CommandsTypeOK'
  <2>1. entry' \in KeyRow
    BY <1>1, <1>4 DEF Settle, KeyRow
  <2>2. ending' \in [Attempt -> Ending]
    <3>1. Ended(answer, until) \in Ending
      BY <1>4 DEF Ended, Ending
    <3> QED BY <3>1 DEF Settle, KeyInv, CommandsTypeOK
  <2>3. told' \in SUBSET (Attempt \X Reply)
    BY DEF KeyInv, CommandsTypeOK
  <2> QED BY <2>1, <2>2, <2>3 DEF KeyInv, CommandsTypeOK
<1>6. RowIsHolders'
  BY <1>1, <1>2, <1>3 DEF RowIsHolders
<1>7. OthersOver'
  BY <1>1, <1>2 DEF KeyInv, OthersOver
<1>8. ASSUME NEW b \in Attempt PROVE WorkerHolds(b)' /\ NewHasNone(b)' /\ ReplayIsTrue(b)'
  <2>1. CASE attempt'[b] = Finished
    BY <2>1 DEF Finished, AtWork, WorkerHolds, NewHasNone, ReplayIsTrue
  <2>2. CASE attempt'[b] = attempt[b]
    <3>1. WorkerHolds(b)'
      <4>1. SUFFICES ASSUME attempt[b].stage \in AtWork
                     PROVE  /\ b \in holder /\ attempt[b].since <= now
                            /\ now < attempt[b].since + Ttl
                            /\ attempt[b].since + Ttl <= until
        BY <1>3, <2>2 DEF WorkerHolds
      <4>2. attempt[b].since \in Int
        BY <4>1 DEF KeyInv, CommandsTypeOK, Progress, AtWork, Unanswered, Finished
      <4> QED BY <1>4, <4>1, <4>2, CommandsAssumption DEF KeyInv, WorkerHolds
    <3>2. NewHasNone(b)'
      BY <1>1, <1>2, <2>2 DEF KeyInv, NewHasNone, Pending, NoEnding
    <3>3. ReplayIsTrue(b)'
      <4>1. SUFFICES ASSUME attempt[b].stage = "replay"
                     PROVE  ending'[attempt[b].of] = ending[attempt[b].of]
        BY <2>2 DEF KeyInv, ReplayIsTrue
      <4>2. attempt[b].of \in Attempt
        BY <4>1 DEF KeyInv, CommandsTypeOK, Progress, AtWork, Unanswered, Finished
      <4>3. attempt[b].of # h
        BY <1>1, <4>1 DEF KeyInv, ReplayIsTrue, Pending
      <4> QED BY <1>2, <4>2, <4>3
    <3> QED BY <3>1, <3>2, <3>3
  <2> QED BY <2>1, <2>2
<1>9. AnswersAgree'
  <2>1. SUFFICES ASSUME NEW t \in told'
                 PROVE  ending'[t[1]].is = "ended" /\ ending'[t[1]].answer = t[2]
    BY DEF AnswersAgree
  <2>2. CASE t \in told
    <3>1. t[1] \in Attempt /\ t[1] # h
      BY <1>1, <2>2 DEF KeyInv, CommandsTypeOK, AnswersAgree, Pending
    <3> QED BY <1>2, <2>2, <3>1 DEF KeyInv, AnswersAgree
  <2>3. CASE t \in holder \X {answer}
    BY <1>1, <1>2, <2>3 DEF Ended
  <2> QED BY <2>1, <2>2, <2>3
<1> QED BY <1>5, <1>6, <1>7, <1>8, <1>9 DEF KeyInv
-----------------------------------------------------------------------------
LEMMA ReserveKeeps == ASSUME KeyInv, NEW a \in Attempt, Reserve(a) PROVE KeyInv'
<1>1. CASE Free /\ Take(a) /\ Moves(a, [stage |-> "reserved", since |-> now])
  BY <1>1, TakeKeeps DEF Reserve
<1>2. CASE ~Free /\ UNCHANGED <<entry, holder, ending>> /\ Moves(a, Finished)
  <2>1. Finished \in Progress /\ Finished.stage \notin AtWork \cup {"new", "replay"}
    BY DEF Progress, Finished, AtWork
  <2>2. told' \in SUBSET (Attempt \X Reply) /\ AnswersAgree'
    BY <1>2 DEF Reserve, KeyInv, CommandsTypeOK, AnswersAgree
  <2> QED BY <1>2, <2>1, <2>2, MoveKeeps DEF Reserve
<1>3. CASE /\ entry.state = "COMPLETED" /\ UNCHANGED <<entry, holder, ending>>
           /\ \E h \in holder : Moves(a, [stage |-> "replay", answer |-> entry.answer, of |-> h])
  <2>1. PICK h \in holder : Moves(a, [stage |-> "replay", answer |-> entry.answer, of |-> h])
    BY <1>3
  <2> DEFINE to == [stage |-> "replay", answer |-> entry.answer, of |-> h]
  <2>2. h \in Attempt /\ ending[h] = Ended(entry.answer, entry.expires)
    BY <1>3, <2>1 DEF KeyInv, RowIsHolders, NoEntry
  <2>3. to \in Progress
    BY <1>3, <2>2 DEF Progress, KeyInv, CommandsTypeOK, KeyRow, NoEntry
  <2>4. attempt'[a] = to /\ \A b \in Attempt \ {a} : attempt'[b] = attempt[b]
    BY <2>1 DEF Moves, KeyInv, CommandsTypeOK
  <2>5. CommandsTypeOK'
    BY <1>3, <2>1, <2>3 DEF Reserve, Moves, KeyInv, CommandsTypeOK
  <2>6. RowIsHolders' /\ OthersOver' /\ AnswersAgree'
    BY <1>3 DEF Reserve, KeyInv, RowIsHolders, OthersOver, AnswersAgree
  <2>7. ASSUME NEW b \in Attempt PROVE WorkerHolds(b)' /\ NewHasNone(b)' /\ ReplayIsTrue(b)'
    <3>1. CASE b = a
      BY <1>3, <2>2, <2>4, <3>1 DEF Ended, AtWork, WorkerHolds, NewHasNone, ReplayIsTrue
    <3>2. CASE b # a
      BY <1>3, <2>4, <3>2 DEF Reserve, KeyInv, WorkerHolds, NewHasNone, ReplayIsTrue
    <3> QED BY <3>1, <3>2
  <2> QED BY <2>5, <2>6, <2>7 DEF KeyInv
<1> QED BY <1>1, <1>2, <1>3 DEF Reserve

LEMMA ReserveErrsKeeps == ASSUME KeyInv, NEW a \in Attempt, ReserveErrs(a) PROVE KeyInv'
<1>1. CASE Free /\ Take(a)
  BY <1>1, TakeKeeps DEF ReserveErrs
<1>2. CASE UNCHANGED <<entry, holder, ending>>
  <2>1. Finished \in Progress /\ Finished.stage \notin AtWork \cup {"new", "replay"}
    BY DEF Progress, Finished, AtWork
  <2>2. told' \in SUBSET (Attempt \X Reply) /\ AnswersAgree'
    BY <1>2 DEF ReserveErrs, KeyInv, CommandsTypeOK, AnswersAgree
  <2> QED BY <1>2, <2>1, <2>2, MoveKeeps DEF ReserveErrs
<1> QED BY <1>1, <1>2 DEF ReserveErrs

(* The handler and the audit, and everything that cuts a request short.     *)
LEMMA WorkKeeps ==
  ASSUME KeyInv, NEW a \in Attempt, Handle(a) \/ Audit(a) \/ Break(a)
  PROVE  KeyInv'
<1>1. UNCHANGED <<entry, now, holder, ending, told>>
  BY DEF Handle, Audit, Break
<1>2. told' \in SUBSET (Attempt \X Reply) /\ AnswersAgree'
  BY <1>1 DEF KeyInv, CommandsTypeOK, AnswersAgree
<1>3. CASE Moves(a, Finished)
  <2>1. Finished \in Progress /\ Finished.stage \notin AtWork \cup {"new", "replay"}
    BY DEF Progress, Finished, AtWork
  <2> QED BY <1>1, <1>2, <1>3, <2>1, MoveKeeps
<1>4. ASSUME NEW stage \in {"audit", "record"}, attempt[a].stage \in AtWork,
             Moves(a, [attempt[a] EXCEPT !.stage = stage])
      PROVE  KeyInv'
  <2>1. attempt[a] \in [stage: AtWork, since: 0..LastTime]
    BY <1>4 DEF KeyInv, CommandsTypeOK, Progress, AtWork, Unanswered, Finished
  <2>2. PICK to : to = [attempt[a] EXCEPT !.stage = stage]
    OBVIOUS
  <2>3. /\ to \in [stage: AtWork, since: 0..LastTime]
        /\ to.stage = stage /\ to.since = attempt[a].since
    BY <2>1, <2>2 DEF AtWork
  <2>4. to \in Progress /\ to.stage \notin {"new", "replay"} /\ Moves(a, to)
    BY <1>4, <2>2, <2>3 DEF Progress
  <2> QED BY <1>1, <1>2, <1>4, <2>3, <2>4, MoveKeeps
<1> QED BY <1>3, <1>4 DEF Handle, Audit, Break, AtWork

LEMMA ReplayKeeps == ASSUME KeyInv, NEW a \in Attempt, Replay(a) PROVE KeyInv'
<1>1. Finished \in Progress /\ Finished.stage \notin AtWork \cup {"new", "replay"}
  BY DEF Progress, Finished, AtWork
<1>2. attempt[a].of \in Attempt /\ attempt[a].answer \in Reply
  BY DEF Replay, KeyInv, CommandsTypeOK, Progress, AtWork, Unanswered, Finished
<1>3. told' \in SUBSET (Attempt \X Reply)
  BY <1>2 DEF Replay, KeyInv, CommandsTypeOK
<1>4. AnswersAgree'
  <2>1. ending' = ending /\ told' \subseteq told \cup {<<attempt[a].of, attempt[a].answer>>}
    BY DEF Replay
  <2>2. ReplayIsTrue(a) /\ AnswersAgree
    BY DEF KeyInv
  <2>3. ending[attempt[a].of].is = "ended" /\ ending[attempt[a].of].answer = attempt[a].answer
    BY <2>2 DEF Replay, ReplayIsTrue
  <2> QED BY <2>1, <2>2, <2>3 DEF AnswersAgree
<1> QED BY <1>1, <1>3, <1>4, MoveKeeps DEF Replay

(* A request whose key is open is the one that holds it.                    *)
LEMMA RecordKeeps == ASSUME KeyInv, NEW a \in Attempt, Record(a) PROVE KeyInv'
<1>1. Finished \in Progress /\ Finished.stage \notin AtWork \cup {"new", "replay"}
  BY DEF Progress, Finished, AtWork
<1>2. CASE OpenTo(a) /\ Settle(a) /\ told' \subseteq told \cup {<<a, a>>}
  <2>1. a \in holder /\ a \in Reply
    BY DEF Record, AtWork, KeyInv, WorkerHolds, Reply
  <2>2. /\ \A b \in Attempt : attempt'[b] \in {attempt[b], Finished}
        /\ attempt' \in [Attempt -> Progress]
    BY <1>1 DEF Record, Moves, KeyInv, CommandsTypeOK
  <2>3. told' \subseteq told \cup (holder \X {a})
    BY <1>2, <2>1
  <2> QED BY <1>2, <2>1, <2>2, <2>3, SettleKeeps DEF Record, OpenTo
<1>3. CASE UNCHANGED <<entry, ending, told>>
  <2>1. told' \in SUBSET (Attempt \X Reply) /\ AnswersAgree'
    BY <1>3 DEF KeyInv, CommandsTypeOK, AnswersAgree
  <2> QED BY <1>1, <1>3, <2>1, MoveKeeps DEF Record
<1> QED BY <1>2, <1>3 DEF Record

LEMMA ReconcileKeeps == ASSUME KeyInv, NEW outcome \in Statement, Reconcile(outcome) PROVE KeyInv'
<1>1. outcome \in Reply
  BY DEF Reply
<1>2. CASE OpenToOutcome /\ Settle(outcome)
  <2>1. told' \subseteq told \cup (holder \X {outcome})
    BY DEF Reconcile
  <2>2. /\ \A b \in Attempt : attempt'[b] \in {attempt[b], Finished}
        /\ attempt' \in [Attempt -> Progress]
    BY DEF Reconcile, KeyInv, CommandsTypeOK
  <2> QED BY <1>1, <1>2, <2>1, <2>2, SettleKeeps DEF Reconcile, OpenToOutcome
<1>3. CASE /\ entry' = entry /\ ending' = ending
           /\ \/ told' = told
              \/ /\ entry.state = "COMPLETED" /\ entry.answer = outcome
                 /\ told' = told \cup (holder \X {outcome})
  <2>1. told' \in SUBSET (Attempt \X Reply)
    BY <1>1, <1>3 DEF KeyInv, CommandsTypeOK
  <2>2. AnswersAgree'
    <3>1. CASE told' = told
      BY <1>3, <3>1 DEF KeyInv, AnswersAgree
    <3>2. CASE entry.state = "COMPLETED" /\ entry.answer = outcome
               /\ told' = told \cup (holder \X {outcome})
      <4>1. PICK h \in Attempt : holder = {h} /\ ending[h] = Ended(outcome, entry.expires)
        BY <3>2 DEF KeyInv, RowIsHolders, NoEntry
      <4> QED BY <1>3, <3>2, <4>1 DEF KeyInv, AnswersAgree, Ended
    <3> QED BY <1>3, <3>1, <3>2
  <2>3. RowIsHolders' /\ OthersOver'
    BY <1>3 DEF Reconcile, KeyInv, RowIsHolders, OthersOver
  <2>4. \A b \in Attempt : WorkerHolds(b)' /\ NewHasNone(b)' /\ ReplayIsTrue(b)'
    BY <1>3 DEF Reconcile, KeyInv, WorkerHolds, NewHasNone, ReplayIsTrue
  <2> QED BY <1>3, <2>1, <2>2, <2>3, <2>4 DEF Reconcile, KeyInv, CommandsTypeOK
<1>4. CASE ~OpenToOutcome /\ UNCHANGED <<entry, ending, told>>
  BY <1>3, <1>4
<1>5. CASE /\ entry.state = "COMPLETED" /\ entry.answer = outcome
           /\ told' = told \cup (holder \X {outcome})
           /\ UNCHANGED <<entry, ending>>
  BY <1>3, <1>5
<1> QED BY <1>2, <1>4, <1>5 DEF Reconcile

LEMMA TickKeeps == ASSUME KeyInv, Tick PROVE KeyInv'
<1>1. now \in 0..LastTime /\ now' = now + 1 /\ now' \in 0..LastTime
  BY CommandsAssumption DEF Tick, KeyInv, CommandsTypeOK
<1>2. CommandsTypeOK' /\ RowIsHolders' /\ AnswersAgree'
  BY <1>1 DEF Tick, KeyInv, CommandsTypeOK, RowIsHolders, AnswersAgree
<1>3. OthersOver'
  <2>1. ASSUME NEW a \in Attempt, ending[a].is = "ended", ending[a].until <= now
        PROVE  ending[a].until <= now'
    <3>1. ending[a].until \in Int
      BY <2>1, CommandsAssumption DEF KeyInv, CommandsTypeOK, Ending, NoEnding, Pending, Deadline
    <3> QED BY <1>1, <2>1, <3>1, CommandsAssumption
  <2> QED BY <2>1 DEF Tick, KeyInv, OthersOver
<1>4. ASSUME NEW a \in Attempt PROVE WorkerHolds(a)' /\ NewHasNone(a)' /\ ReplayIsTrue(a)'
  <2>1. WorkerHolds(a)'
    <3>1. SUFFICES ASSUME attempt[a].stage \in AtWork
                   PROVE  attempt[a].since <= now' /\ now' < attempt[a].since + Ttl
      BY DEF Tick, KeyInv, WorkerHolds
    <3>2. attempt[a].since \in Int
      BY <3>1 DEF KeyInv, CommandsTypeOK, Progress, AtWork, Unanswered, Finished
    <3> QED BY <1>1, <3>1, <3>2, CommandsAssumption DEF Tick, KeyInv, WorkerHolds
  <2> QED BY <2>1 DEF Tick, KeyInv, NewHasNone, ReplayIsTrue
<1> QED BY <1>2, <1>3, <1>4 DEF KeyInv
-----------------------------------------------------------------------------
LEMMA KeyStepKeeps == ASSUME KeyInv, [CommandsNext]_commands PROVE KeyInv'
<1>1. ASSUME NEW a \in Attempt,
             \/ Reserve(a) \/ ReserveErrs(a) \/ Handle(a) \/ Audit(a)
             \/ Replay(a) \/ Record(a) \/ Break(a)
      PROVE  KeyInv'
  BY <1>1, ReserveKeeps, ReserveErrsKeeps, WorkKeeps, ReplayKeeps, RecordKeeps
<1>2. CASE \E outcome \in Statement : Reconcile(outcome)
  BY <1>2, ReconcileKeeps
<1>3. CASE Tick
  BY <1>3, TickKeeps
<1>4. CASE UNCHANGED commands
  BY <1>4 DEF commands, KeyInv, CommandsTypeOK, RowIsHolders, OthersOver, WorkerHolds,
              NewHasNone, ReplayIsTrue, AnswersAgree
<1> QED BY <1>1, <1>2, <1>3, <1>4 DEF CommandsNext

(* Only a reservation gives a request its ending.                           *)
LEMMA StepRunsOnce ==
  ASSUME KeyInv, [CommandsNext]_commands, NEW a \in Attempt, NEW b \in Attempt,
         ending[a].is = "none", ending'[a].is # "none", ending[b].is # "none"
  PROVE  ending[b].is = "ended" /\ ending[b].until <= now
<1>1. ASSUME NEW answer, Settle(answer), entry.state = "PENDING" PROVE FALSE
  <2>1. PICK h \in Attempt : holder = {h} /\ ending[h] = Pending
    BY <1>1 DEF KeyInv, RowIsHolders, NoEntry
  <2> QED BY <1>1, <2>1 DEF Settle, Pending
<1>2. ~UNCHANGED ending
  OBVIOUS
<1>3. Free
  BY <1>1, <1>2 DEF commands, CommandsNext, Reserve, ReserveErrs, Handle, Audit, Replay,
                    Record, OpenTo, Break, Reconcile, OpenToOutcome, Tick
<1> QED BY <1>3, FreeMeansOver

(* Every variable keeps its type.                                           *)
THEOREM CommandsTyped == CommandsSpec => []CommandsTypeOK
<1>1. KeyInv => CommandsTypeOK
  BY DEF KeyInv
<1> QED BY <1>1, InitHolds, KeyStepKeeps, PTL DEF CommandsSpec

(* A retry is not a second run: a command starts only after every earlier   *)
(* one with its key is known to have ended and its answer has lapsed.       *)
THEOREM CommandsRunOnce == CommandsSpec => RunsOnce
<1>1. KeyInv /\ [CommandsNext]_commands =>
        [\A a, b \in Attempt :
           ending[a].is = "none" /\ ending'[a].is # "none" /\ ending[b].is # "none" =>
             ending[b].is = "ended" /\ ending[b].until <= now]_commands
  BY StepRunsOnce
<1> QED BY <1>1, InitHolds, KeyStepKeeps, PTL DEF CommandsSpec, RunsOnce

(* The client, one that repeats its request and the operator hear the same. *)
THEOREM EveryoneHearsTheSame == CommandsSpec => []AnswersAgree
<1>1. KeyInv => AnswersAgree
  BY DEF KeyInv
<1> QED BY <1>1, InitHolds, KeyStepKeeps, PTL DEF CommandsSpec
-----------------------------------------------------------------------------
OnIt == {"working", "done", "failing"}

Final == {"completed", "failed"}

(* Claims are numbered by the row: a task at work has the number of one,    *)
(* no two tasks have the same, and the row's owner, if it is at work, has   *)
(* the last.  A row that nobody runs is released.                           *)
ClaimsAreSound(j) ==
  /\ \A w \in Worker :
       /\ task[w][j].attempt <= row[j].attempts
       /\ task[w][j].at \in OnIt => task[w][j].attempt > 0
       /\ Owned(row[j], w) /\ task[w][j].attempt > 0 => task[w][j].attempt = row[j].attempts
  /\ \A v, w \in Worker :
       task[v][j].attempt = task[w][j].attempt /\ task[v][j].attempt > 0 => v = w
  /\ row[j].status # "running" => row[j].owner = {} /\ row[j].lease = "none"

(* The inductive invariant. *)
JobsInv == JobsTypeOK /\ \A j \in Job : ClaimsAreSound(j)

(* What one step may make of a job's row. *)
RowStep(old, new) ==
  /\ new.result # old.result => new.result = old.attempts
  /\ old.status \in Final => new = old

(* A process w makes r of the row of j, and t of its own task. *)
Change(w, j, r, t) ==
  /\ w \in alive /\ UNCHANGED alive
  /\ row' = [row EXCEPT ![j] = r] /\ task' = [task EXCEPT ![w][j] = t]
  /\ RowStep(row[j], r)
  /\ r.attempts >= row[j].attempts /\ t.attempt <= r.attempts
  /\ t.at \in OnIt => t.attempt > 0
  /\ t.attempt \in {0, task[w][j].attempt} \/ t.attempt > row[j].attempts
  /\ \A v \in Worker : Owned(r, v) =>
       \/ v # w /\ Owned(row[j], v) /\ r.attempts = row[j].attempts
       \/ v = w /\ (t.attempt = 0 \/ t.attempt = r.attempts)
  /\ r.status # "running" => r.owner = {} /\ r.lease = "none"
-----------------------------------------------------------------------------
LEMMA RowsAreTyped ==
  ASSUME JobsTypeOK, NEW j \in Job
  PROVE  row[j] \in Row /\ \A w \in Worker : task[w][j] \in Task
BY DEF JobsTypeOK

LEMMA AttemptsAreNumbers ==
  /\ \A r \in Row : r.attempts \in Nat /\ r.result \in Nat
  /\ \A t \in Task : t.attempt \in Nat
  /\ NoTask \in Task
BY JobsAssumption DEF Row, Task, NoTask

LEMMA ChangeKeeps ==
  ASSUME JobsInv, NEW w \in Worker, NEW j \in Job, NEW r \in Row, NEW t \in Task, Change(w, j, r, t)
  PROVE  JobsInv' /\ \A i \in Job : RowStep(row[i], row'[i])
<1>1. /\ row'[j] = r /\ \A i \in Job \ {j} : row'[i] = row[i]
      /\ row' \in [Job -> Row]
  BY DEF Change, JobsInv, JobsTypeOK
<1>2. /\ task'[w][j] = t
      /\ \A v \in Worker, i \in Job : v # w \/ i # j => task'[v][i] = task[v][i]
      /\ task' \in [Worker -> [Job -> Task]]
  BY DEF Change, JobsInv, JobsTypeOK
<1>3. JobsTypeOK'
  BY <1>1, <1>2 DEF Change, JobsInv, JobsTypeOK
<1>4. ClaimsAreSound(j)'
  <2>1. /\ row[j] \in Row /\ \A v \in Worker : task[v][j] \in Task
        /\ ClaimsAreSound(j)
    BY RowsAreTyped DEF JobsInv
  <2>2. ASSUME NEW v \in Worker
        PROVE  /\ task'[v][j].attempt <= row'[j].attempts
               /\ task'[v][j].at \in OnIt => task'[v][j].attempt > 0
               /\ Owned(row'[j], v) /\ task'[v][j].attempt > 0
                    => task'[v][j].attempt = row'[j].attempts
    <3>1. CASE v = w
      BY <1>1, <1>2, <3>1 DEF Change
    <3>2. CASE v # w
      <4>1. task'[v][j] = task[v][j]
        BY <1>2, <3>2
      <4>2. /\ task[v][j].attempt \in Nat /\ row[j].attempts \in Nat /\ r.attempts \in Nat
        BY <2>1, AttemptsAreNumbers
      <4> QED BY <1>1, <2>1, <3>2, <4>1, <4>2 DEF Change, ClaimsAreSound
    <3> QED BY <3>1, <3>2
  <2>3. ASSUME NEW u \in Worker, NEW v \in Worker,
               task'[u][j].attempt = task'[v][j].attempt, task'[u][j].attempt > 0
        PROVE  u = v
    <3>1. /\ task[u][j].attempt \in Nat /\ task[v][j].attempt \in Nat
          /\ task[w][j].attempt \in Nat /\ row[j].attempts \in Nat /\ t.attempt \in Nat
      BY <2>1, AttemptsAreNumbers
    <3>2. CASE u # w /\ v # w
      BY <1>2, <2>1, <2>3, <3>2 DEF ClaimsAreSound
    <3>3. CASE u = w /\ v # w
      BY <1>2, <2>1, <2>3, <3>1, <3>3 DEF Change, ClaimsAreSound
    <3>4. CASE u # w /\ v = w
      BY <1>2, <2>1, <2>3, <3>1, <3>4 DEF Change, ClaimsAreSound
    <3> QED BY <3>2, <3>3, <3>4
  <2>4. row'[j].status # "running" => row'[j].owner = {} /\ row'[j].lease = "none"
    BY <1>1 DEF Change
  <2> QED BY <2>2, <2>3, <2>4 DEF ClaimsAreSound
<1>5. ASSUME NEW i \in Job, i # j PROVE ClaimsAreSound(i)' /\ RowStep(row[i], row'[i])
  <2>1. row'[i] = row[i] /\ \A v \in Worker : task'[v][i] = task[v][i]
    BY <1>1, <1>2, <1>5
  <2> QED BY <2>1 DEF JobsInv, ClaimsAreSound, Owned, RowStep
<1>6. RowStep(row[j], row'[j])
  BY <1>1 DEF Change
<1> QED BY <1>3, <1>4, <1>5, <1>6 DEF JobsInv
-----------------------------------------------------------------------------
(* The rows the statements write. *)
LEMMA Statements ==
  ASSUME NEW r \in Row, NEW w \in Worker, NEW n \in 0..MaxAttempts,
         NEW status \in {"queued", "completed", "failed"}
  PROVE  /\ r.attempts < MaxAttempts =>
              /\ Claimed(r, w) \in Row
              /\ Claimed(r, w).status = "running" /\ Claimed(r, w).owner = {w}
              /\ Claimed(r, w).attempts = r.attempts + 1 /\ Claimed(r, w).result = r.result
         /\ Released(r, status) \in Row
         /\ Released(r, status).status = status /\ Released(r, status).owner = {}
         /\ Released(r, status).lease = "none"
         /\ Released(r, status).attempts = r.attempts /\ Released(r, status).result = r.result
         /\ Completed(r, n) \in Row
         /\ Completed(r, n).status = "completed" /\ Completed(r, n).owner = {}
         /\ Completed(r, n).lease = "none"
         /\ Completed(r, n).attempts = r.attempts /\ Completed(r, n).result = n
<1>1. /\ r.attempts \in 0..MaxAttempts /\ MaxAttempts \in Nat
      /\ DOMAIN r = {"status", "owner", "lease", "attempts", "result"}
  BY JobsAssumption DEF Row
<1>2. ASSUME r.attempts < MaxAttempts
      PROVE  /\ Claimed(r, w) \in Row
             /\ Claimed(r, w).status = "running" /\ Claimed(r, w).owner = {w}
             /\ Claimed(r, w).attempts = r.attempts + 1 /\ Claimed(r, w).result = r.result
  <2>1. r.attempts + 1 \in 0..MaxAttempts
    BY <1>1, <1>2
  <2> QED BY <2>1 DEF Row, Claimed
<1>3. ASSUME NEW new \in {"queued", "completed", "failed"}
      PROVE  /\ Released(r, new) \in Row
             /\ Released(r, new).status = new /\ Released(r, new).owner = {}
             /\ Released(r, new).lease = "none"
             /\ Released(r, new).attempts = r.attempts /\ Released(r, new).result = r.result
  BY DEF Row, Released
<1>4. /\ Completed(r, n) \in Row
      /\ Completed(r, n).status = "completed" /\ Completed(r, n).owner = {}
      /\ Completed(r, n).lease = "none"
      /\ Completed(r, n).attempts = r.attempts /\ Completed(r, n).result = n
  <2>1. Released(r, "completed") \in Row
    BY <1>3
  <2> QED BY <1>3, <2>1 DEF Row, Completed
<1> QED BY <1>2, <1>3, <1>4

(* A step of a process that leaves the row alone, or its task. *)
LEMMA TaskAlone ==
  ASSUME JobsInv, NEW w \in alive, NEW j \in Job, NEW t \in Task, UNCHANGED <<row, alive>>,
         task' = [task EXCEPT ![w][j] = t],
         t = NoTask \/ (t.attempt = task[w][j].attempt
                        /\ (t.at \in OnIt => task[w][j].at \in OnIt))
  PROVE  Change(w, j, row[j], t)
<1>1. w \in Worker /\ row[j] \in Row /\ task[w][j] \in Task /\ ClaimsAreSound(j)
  BY RowsAreTyped DEF JobsInv, JobsTypeOK
<1>2. row[j].attempts \in Nat /\ task[w][j].attempt \in Nat
  BY <1>1, AttemptsAreNumbers
<1>3. row' = [row EXCEPT ![j] = row[j]]
  BY DEF JobsInv, JobsTypeOK
<1>4. /\ t.attempt \in {0, task[w][j].attempt} /\ t.attempt <= row[j].attempts
      /\ t.at \in OnIt => t.attempt > 0
  BY <1>1, <1>2 DEF ClaimsAreSound, NoTask, OnIt
<1>5. Owned(row[j], w) => t.attempt = 0 \/ t.attempt = row[j].attempts
  BY <1>1, <1>2, <1>4 DEF ClaimsAreSound
<1>6. row[j].status # "running" => row[j].owner = {} /\ row[j].lease = "none"
  BY <1>1 DEF ClaimsAreSound
<1>7. RowStep(row[j], row[j])
  BY DEF RowStep
<1>8. ASSUME NEW v \in Worker, Owned(row[j], v)
      PROVE  \/ v # w /\ Owned(row[j], v) /\ row[j].attempts = row[j].attempts
             \/ v = w /\ (t.attempt = 0 \/ t.attempt = row[j].attempts)
  BY <1>5, <1>8
<1>9. row[j].attempts >= row[j].attempts
  BY <1>2
<1> QED BY <1>3, <1>4, <1>6, <1>7, <1>8, <1>9 DEF Change

(* A step of the owner that releases the row. *)
LEMMA OwnerReleases ==
  ASSUME JobsInv, NEW w \in alive, NEW j \in Job, NEW t \in Task, NEW r \in Row, UNCHANGED alive,
         row[j].status = "running", task[w][j].at \in OnIt,
         r.status # "running", r.owner = {}, r.lease = "none", r.attempts = row[j].attempts,
         r.result \in {row[j].result, row[j].attempts},
         row' = [row EXCEPT ![j] = r], task' = [task EXCEPT ![w][j] = t],
         t = NoTask \/ t.attempt = task[w][j].attempt
  PROVE  Change(w, j, r, t)
<1>1. w \in Worker /\ row[j] \in Row /\ task[w][j] \in Task /\ ClaimsAreSound(j)
  BY RowsAreTyped DEF JobsInv, JobsTypeOK
<1>2. row[j].attempts \in Nat /\ task[w][j].attempt \in Nat
  BY <1>1, AttemptsAreNumbers
<1>3. /\ t.attempt \in {0, task[w][j].attempt} /\ t.attempt <= r.attempts
      /\ t.at \in OnIt => t.attempt > 0
  BY <1>1, <1>2 DEF ClaimsAreSound, NoTask, OnIt
<1>4. RowStep(row[j], r)
  BY DEF RowStep, Final
<1>5. ASSUME NEW v \in Worker PROVE ~Owned(r, v)
  BY DEF Owned
<1> QED BY <1>1, <1>2, <1>3, <1>4, <1>5 DEF Change
-----------------------------------------------------------------------------
(* Only a process that runs has tasks. *)
LEMMA TasksAreAlive ==
  ASSUME JobsInv, NEW w \in Worker, NEW j \in Job, task[w][j].at # "none"
  PROVE  w \in alive
BY DEF JobsInv, JobsTypeOK, NoTask

LEMMA BecomesIs ==
  ASSUME JobsInv, NEW w \in Worker, NEW j \in Job,
         NEW at \in {"none", "scheduled", "working", "done", "failing"}, Becomes(w, j, at)
  PROVE  \E t \in Task : /\ task' = [task EXCEPT ![w][j] = t]
                         /\ t.attempt = task[w][j].attempt /\ t.at = at
<1> DEFINE t == [task[w][j] EXCEPT !.at = at]
<1>1. task[w][j] \in Task
  BY RowsAreTyped DEF JobsInv
<1>2. t \in Task /\ t.attempt = task[w][j].attempt /\ t.at = at
  BY <1>1 DEF Task
<1>3. task' = [task EXCEPT ![w][j] = t]
  BY DEF Becomes
<1> QED BY <1>2, <1>3

LEMMA BecomesChanges ==
  ASSUME JobsInv, NEW w \in alive, NEW j \in Job, UNCHANGED <<row, alive>>,
         NEW at \in {"scheduled", "done", "failing"}, Becomes(w, j, at),
         at = "scheduled" \/ task[w][j].at \in OnIt
  PROVE  \E r \in Row, t \in Task : Change(w, j, r, t)
<1>1. w \in Worker /\ row[j] \in Row
  BY DEF JobsInv, JobsTypeOK
<1>2. PICK t \in Task : /\ task' = [task EXCEPT ![w][j] = t]
                        /\ t.attempt = task[w][j].attempt /\ t.at = at
  <2>1. at \in {"none", "scheduled", "working", "done", "failing"}
    OBVIOUS
  <2> QED BY <1>1, <2>1, BecomesIs
<1>3. t.at \in OnIt => task[w][j].at \in OnIt
  BY <1>2 DEF OnIt
<1>4. Change(w, j, row[j], t)
  BY <1>2, <1>3, TaskAlone
<1> QED BY <1>1, <1>2, <1>4

LEMMA GoneChanges ==
  ASSUME JobsInv, NEW w \in alive, NEW j \in Job, UNCHANGED <<row, alive>>, Gone(w, j)
  PROVE  \E r \in Row, t \in Task : Change(w, j, r, t)
<1>1. row[j] \in Row /\ NoTask \in Task
  BY AttemptsAreNumbers DEF JobsInv, JobsTypeOK
<1>2. Change(w, j, row[j], NoTask)
  BY <1>1, TaskAlone DEF Gone
<1> QED BY <1>1, <1>2

(* A row is created or claimed. *)
LEMMA CreateChanges ==
  ASSUME JobsInv, NEW w \in Worker, NEW j \in Job, Create(w, j)
  PROVE  \E r \in Row, t \in Task : Change(w, j, r, t)
<1> DEFINE r == [row[j] EXCEPT !.status = "queued"]
<1>1. /\ row[j] \in Row /\ task[w][j] \in Task /\ ClaimsAreSound(j)
      /\ w \in alive /\ row[j].status = "absent"
  BY RowsAreTyped DEF JobsInv, Create
<1>2. /\ r \in Row /\ row' = [row EXCEPT ![j] = r] /\ r.status = "queued"
      /\ r.owner = {} /\ r.lease = "none"
      /\ r.attempts = row[j].attempts /\ r.result = row[j].result
  BY <1>1 DEF Row, Create, JobsInv, JobsTypeOK, ClaimsAreSound
<1>3. PICK t \in Task : /\ task' = [task EXCEPT ![w][j] = t]
                        /\ t.attempt = task[w][j].attempt
                        /\ t.at \in OnIt => task[w][j].at \in OnIt
  <2>1. CASE UNCHANGED task
    <3>1. task' = [task EXCEPT ![w][j] = task[w][j]]
      BY <2>1 DEF JobsInv, JobsTypeOK
    <3> QED BY <1>1, <3>1
  <2>2. CASE Becomes(w, j, "scheduled")
    <3>1. PICK t \in Task : /\ task' = [task EXCEPT ![w][j] = t]
                            /\ t.attempt = task[w][j].attempt /\ t.at = "scheduled"
      BY <2>2, BecomesIs
    <3> QED BY <3>1 DEF OnIt
  <2> QED BY <2>1, <2>2 DEF Create
<1>4. row[j].attempts \in Nat /\ task[w][j].attempt \in Nat
  BY <1>1, AttemptsAreNumbers
<1>5. Change(w, j, r, t)
  BY <1>1, <1>2, <1>3, <1>4 DEF Change, RowStep, Create, ClaimsAreSound, Final, Owned
<1> QED BY <1>2, <1>5

LEMMA ClaimChanges ==
  ASSUME JobsInv, NEW w \in Worker, NEW j \in Job, Claim(w, j) \/ ClaimErrs(w, j)
  PROVE  \E r \in Row, t \in Task : Change(w, j, r, t)
<1> DEFINE r == Claimed(row[j], w)
<1>1. /\ row[j] \in Row /\ task[w][j] \in Task /\ ClaimsAreSound(j)
      /\ w \in alive /\ UNCHANGED alive
  BY RowsAreTyped DEF JobsInv, Claim, ClaimErrs, Claiming
<1>2. row[j].attempts \in Nat /\ task[w][j].attempt \in Nat /\ MaxAttempts \in Nat
  BY <1>1, AttemptsAreNumbers, JobsAssumption
<1>3. CASE UNCHANGED row /\ Gone(w, j)
  BY <1>1, <1>3, GoneChanges
<1>4. CASE /\ Recoverable(row[j]) /\ row[j].attempts < MaxAttempts
           /\ row' = [row EXCEPT ![j] = r]
           /\ \E t \in Task : /\ task' = [task EXCEPT ![w][j] = t]
                              /\ t = NoTask \/ t.attempt = row[j].attempts + 1
  <2>1. PICK t \in Task : /\ task' = [task EXCEPT ![w][j] = t]
                          /\ t = NoTask \/ t.attempt = row[j].attempts + 1
    BY <1>4
  <2>2. /\ r \in Row /\ r.status = "running" /\ r.owner = {w}
        /\ r.attempts = row[j].attempts + 1 /\ r.result = row[j].result
    BY <1>1, <1>4, Statements, JobsAssumption
  <2>3. row[j].status \notin Final
    BY <1>4 DEF Recoverable, Final
  <2>4. Change(w, j, r, t)
    <3>1. /\ t.attempt \in {0, row[j].attempts + 1}
          /\ t.at \in OnIt => t.attempt > 0
      BY <1>2, <2>1 DEF NoTask, OnIt
    <3>2. RowStep(row[j], r)
      BY <2>2, <2>3 DEF RowStep
    <3>3. ASSUME NEW v \in Worker, Owned(r, v) PROVE v = w
      BY <2>2, <3>3 DEF Owned
    <3>4. /\ r.attempts >= row[j].attempts /\ t.attempt <= r.attempts
          /\ t.attempt = 0 \/ t.attempt > row[j].attempts
          /\ t.attempt = 0 \/ t.attempt = r.attempts
      BY <1>2, <2>2, <3>1
    <3> QED BY <1>1, <1>4, <2>1, <2>2, <3>1, <3>2, <3>3, <3>4 DEF Change
  <2> QED BY <2>2, <2>4
<1>5. CASE Claim(w, j) /\ Recoverable(row[j])
  <2> DEFINE t == [at |-> IF j \in Invalid THEN "failing" ELSE "working",
                   attempt |-> row[j].attempts + 1]
  <2>1. t \in Task
    BY <1>2, <1>5 DEF Claim, Task
  <2>2. task' = [task EXCEPT ![w][j] = t]
    BY <1>5 DEF Claim
  <2> QED BY <1>4, <1>5, <2>1, <2>2 DEF Claim
<1>6. CASE ClaimErrs(w, j) /\ ~UNCHANGED row
  <2>1. row[j].attempts < MaxAttempts
    BY <1>2, <1>6 DEF ClaimErrs
  <2> QED BY <1>4, <1>6, <2>1, AttemptsAreNumbers DEF ClaimErrs, Gone
<1> QED BY <1>3, <1>5, <1>6 DEF Claim, ClaimErrs

(* A task at work renews its lease, goes on, or ends. *)
LEMMA WorkChanges ==
  ASSUME JobsInv, NEW w \in Worker, NEW j \in Job,
         Sweep(w, j) \/ Heartbeat(w, j) \/ Finish(w, j) \/ Complete(w, j) \/ FailJob(w, j)
  PROVE  \E r \in Row, t \in Task : Change(w, j, r, t)
<1>1. /\ row[j] \in Row /\ task[w][j] \in Task /\ ClaimsAreSound(j)
      /\ w \in alive /\ UNCHANGED alive
  BY RowsAreTyped, TasksAreAlive DEF JobsInv, Sweep, Heartbeat, Finish, Complete, FailJob
<1>2. /\ row[j].attempts \in Nat /\ task[w][j].attempt \in Nat
      /\ task[w][j].attempt \in 0..MaxAttempts
  BY <1>1, AttemptsAreNumbers DEF Task
<1>3. CASE UNCHANGED row /\ Gone(w, j)
  BY <1>1, <1>3, GoneChanges
<1>4. CASE UNCHANGED row /\ \E at \in {"scheduled", "done", "failing"} :
             Becomes(w, j, at) /\ (at = "scheduled" \/ task[w][j].at \in OnIt)
  BY <1>1, <1>4, BecomesChanges
<1>5. CASE /\ task[w][j].at = "working" /\ Owned(row[j], w)
           /\ row' = [row EXCEPT ![j].lease = "valid"] /\ UNCHANGED task
  <2> DEFINE r == [row[j] EXCEPT !.lease = "valid"]
  <2>1. /\ r \in Row /\ row' = [row EXCEPT ![j] = r] /\ r.status = row[j].status
        /\ r.owner = row[j].owner /\ r.attempts = row[j].attempts /\ r.result = row[j].result
    BY <1>1, <1>5 DEF Row, JobsInv, JobsTypeOK
  <2>2. task' = [task EXCEPT ![w][j] = task[w][j]]
    BY <1>5 DEF JobsInv, JobsTypeOK
  <2>3. Change(w, j, r, task[w][j])
    <3>1. RowStep(row[j], r) /\ r.status = "running"
      BY <1>5, <2>1 DEF RowStep, Final, Owned
    <3>2. ASSUME NEW v \in Worker, Owned(r, v) PROVE v = w
      BY <1>5, <2>1, <3>2 DEF Owned
    <3>3. task[w][j].attempt = row[j].attempts
      BY <1>1, <1>2, <1>5 DEF ClaimsAreSound, OnIt
    <3>4. task[w][j].attempt > 0
      BY <1>1, <1>5 DEF ClaimsAreSound, OnIt
    <3> QED BY <1>1, <1>2, <2>1, <2>2, <3>1, <3>2, <3>3, <3>4 DEF Change
  <2> QED BY <1>1, <2>1, <2>3
<1>6. CASE Complete(w, j) /\ Owned(row[j], w) /\ ~UNCHANGED row
  <2> DEFINE r == Completed(row[j], task[w][j].attempt)
  <2>1. /\ r \in Row /\ r.status = "completed" /\ r.owner = {} /\ r.lease = "none"
        /\ r.attempts = row[j].attempts /\ r.result = row[j].attempts
    BY <1>1, <1>2, <1>6, Statements DEF Complete, ClaimsAreSound, OnIt
  <2>2. PICK t \in Task : /\ task' = [task EXCEPT ![w][j] = t]
                          /\ t = NoTask \/ t.attempt = task[w][j].attempt
    <3>1. CASE Gone(w, j)
      BY <3>1, AttemptsAreNumbers DEF Gone
    <3>2. CASE Becomes(w, j, "failing")
      BY <3>2, BecomesIs
    <3> QED BY <1>6, <3>1, <3>2 DEF Complete
  <2>3. Change(w, j, r, t)
    <3>1. row' = [row EXCEPT ![j] = r] /\ row[j].status = "running" /\ task[w][j].at \in OnIt
      BY <1>6 DEF Complete, Owned, OnIt
    <3> QED BY <1>1, <2>1, <2>2, <3>1, OwnerReleases
  <2> QED BY <2>1, <2>3
<1>7. CASE FailJob(w, j) /\ Owned(row[j], w) /\ ~UNCHANGED row
  <2> DEFINE r == Released(row[j], "failed")
  <2>1. /\ r \in Row /\ r.status = "failed" /\ r.owner = {} /\ r.lease = "none"
        /\ r.attempts = row[j].attempts /\ r.result = row[j].result
    BY <1>1, Statements, JobsAssumption
  <2>2. /\ row' = [row EXCEPT ![j] = r] /\ row[j].status = "running"
        /\ task[w][j].at \in OnIt /\ task' = [task EXCEPT ![w][j] = NoTask]
    BY <1>7 DEF FailJob, Owned, OnIt, Gone
  <2>3. Change(w, j, r, NoTask)
    BY <1>1, <2>1, <2>2, OwnerReleases, AttemptsAreNumbers
  <2> QED BY <2>1, <2>3, AttemptsAreNumbers
<1>8. CASE Sweep(w, j) \/ Finish(w, j)
  BY <1>4, <1>8 DEF Sweep, Finish, OnIt
<1>9. CASE Heartbeat(w, j)
  BY <1>3, <1>4, <1>5, <1>9 DEF Heartbeat, OnIt
<1>10. CASE Complete(w, j)
  BY <1>3, <1>4, <1>6, <1>10 DEF Complete, OnIt
<1>11. CASE FailJob(w, j)
  BY <1>3, <1>7, <1>11 DEF FailJob, OnIt
<1> QED BY <1>8, <1>9, <1>10, <1>11
-----------------------------------------------------------------------------
(* A process leaves: it has no tasks any more, and some of its rows are     *)
(* queued again.                                                            *)
LEMMA LeaveKeeps ==
  ASSUME JobsInv, NEW w \in Worker, Leave(w)
  PROVE  JobsInv' /\ \A j \in Job : RowStep(row[j], row'[j])
<1>1. PICK back \in SUBSET {j \in Job : task[w][j].at \in {"working", "done"} /\ Owned(row[j], w)} :
        row' = [j \in Job |-> IF j \in back THEN Requeued(row[j]) ELSE row[j]]
  BY DEF Leave
<1>2. /\ \A j \in Job : task'[w][j] = NoTask
      /\ \A v \in Worker, j \in Job : v # w => task'[v][j] = task[v][j]
      /\ task' \in [Worker -> [Job -> Task]]
  BY AttemptsAreNumbers DEF Leave, JobsInv, JobsTypeOK
<1>3. ASSUME NEW j \in Job
      PROVE  row'[j] \in Row /\ ClaimsAreSound(j)' /\ RowStep(row[j], row'[j])
  <2>1. /\ row[j] \in Row /\ ClaimsAreSound(j) /\ row[j].attempts \in Nat
    BY RowsAreTyped, AttemptsAreNumbers DEF JobsInv
  <2>2. \A v \in Worker : \/ task'[v][j] = task[v][j]
                          \/ task'[v][j].attempt = 0 /\ task'[v][j].at \notin OnIt
    BY <1>2 DEF NoTask, OnIt
  <2>3. /\ row'[j].attempts = row[j].attempts /\ row'[j].result = row[j].result
        /\ row'[j] \in Row
        /\ \/ row'[j] = row[j]
           \/ /\ row'[j].status = "queued" /\ row'[j].owner = {} /\ row'[j].lease = "none"
              /\ row[j].status = "running"
    BY <1>1, <2>1, Statements, JobsAssumption DEF Requeued, Owned
  <2> QED BY <2>1, <2>2, <2>3 DEF ClaimsAreSound, RowStep, Owned, Final
<1>4. row' \in [Job -> Row]
  BY <1>1, <1>3
<1>5. JobsTypeOK'
  BY <1>2, <1>4 DEF JobsInv, JobsTypeOK, Leave
<1> QED BY <1>3, <1>5 DEF JobsInv

(* Nobody owns more than before, and no claim, result or end is touched. *)
LEMMA RowsAloneKeep ==
  ASSUME JobsInv, row' \in [Job -> Row], UNCHANGED task,
         alive \subseteq alive', alive' \subseteq Worker,
         \A j \in Job :
           /\ row'[j].status = row[j].status /\ row'[j].attempts = row[j].attempts
           /\ row'[j].result = row[j].result
           /\ row'[j].owner \in {row[j].owner, {}}
           /\ row[j].status # "running" => row'[j] = row[j]
  PROVE  JobsInv' /\ \A j \in Job : RowStep(row[j], row'[j])
<1>1. JobsTypeOK'
  BY DEF JobsInv, JobsTypeOK
<1>2. ASSUME NEW j \in Job PROVE ClaimsAreSound(j)' /\ RowStep(row[j], row'[j])
  <2>1. ClaimsAreSound(j)
    BY DEF JobsInv
  <2>2. ASSUME NEW w \in Worker PROVE Owned(row'[j], w) => Owned(row[j], w)
    BY DEF Owned
  <2>3. RowStep(row[j], row'[j])
    BY DEF RowStep, Final
  <2>4. row'[j].status # "running" => row'[j].owner = {} /\ row'[j].lease = "none"
    BY <2>1 DEF ClaimsAreSound
  <2> QED BY <2>1, <2>2, <2>3, <2>4 DEF ClaimsAreSound
<1> QED BY <1>1, <1>2 DEF JobsInv

LEMMA JobsStepKeeps ==
  ASSUME JobsInv, [JobsNext]_jobs
  PROVE  JobsInv' /\ \A j \in Job : RowStep(row[j], row'[j])
<1>1. CASE UNCHANGED jobs
  BY <1>1, RowsAloneKeep DEF jobs, JobsInv, JobsTypeOK
<1>2. ASSUME NEW w \in Worker, NEW j \in Job,
             \/ Create(w, j) \/ Sweep(w, j) \/ Claim(w, j) \/ ClaimErrs(w, j)
             \/ Heartbeat(w, j) \/ Finish(w, j) \/ Complete(w, j) \/ FailJob(w, j)
      PROVE  JobsInv' /\ \A i \in Job : RowStep(row[i], row'[i])
  <2>1. PICK r \in Row, t \in Task : Change(w, j, r, t)
    BY <1>2, CreateChanges, ClaimChanges, WorkChanges
  <2> QED BY <2>1, ChangeKeeps
<1>3. ASSUME NEW w \in Worker, Leave(w)
      PROVE  JobsInv' /\ \A j \in Job : RowStep(row[j], row'[j])
  BY <1>3, LeaveKeeps
<1>4. ASSUME NEW w \in Worker, Come(w)
      PROVE  JobsInv' /\ \A j \in Job : RowStep(row[j], row'[j])
  <2>1. ASSUME NEW j \in Job
        PROVE  /\ row'[j] \in Row
               /\ row'[j].status = row[j].status /\ row'[j].attempts = row[j].attempts
               /\ row'[j].result = row[j].result
               /\ row'[j].owner \in {row[j].owner, {}}
               /\ row[j].status # "running" => row'[j] = row[j]
    <3>1. row[j] \in Row /\ (row[j].status # "running" => row[j].owner = {})
      BY DEF JobsInv, JobsTypeOK, ClaimsAreSound
    <3>2. row'[j] = IF row[j].owner = {w} THEN [row[j] EXCEPT !.owner = {}] ELSE row[j]
      BY <1>4 DEF Come
    <3> QED BY <3>1, <3>2 DEF Row
  <2>2. row' \in [Job -> Row]
    BY <1>4, <2>1 DEF Come
  <2>3. UNCHANGED task /\ alive \subseteq alive' /\ alive' \subseteq Worker
    BY <1>4 DEF Come, JobsInv, JobsTypeOK
  <2> QED BY <2>1, <2>2, <2>3, RowsAloneKeep
<1>5. ASSUME NEW i \in Job, Expire(i)
      PROVE  JobsInv' /\ \A j \in Job : RowStep(row[j], row'[j])
  <2>1. /\ row[i] \in Row /\ row[i].status = "running"
        /\ [row[i] EXCEPT !.lease = "expired"] \in Row
    <3>1. row[i] \in Row
      BY DEF JobsInv, JobsTypeOK
    <3>2. row[i].lease = "valid"
      BY <1>5 DEF Expire
    <3>3. row[i].status # "running" => row[i].lease = "none"
      BY DEF JobsInv, ClaimsAreSound
    <3>4. [row[i] EXCEPT !.lease = "expired"] \in Row
      BY <3>1 DEF Row
    <3> QED BY <3>1, <3>2, <3>3, <3>4
  <2>2. /\ row' \in [Job -> Row] /\ row'[i] = [row[i] EXCEPT !.lease = "expired"]
        /\ \A j \in Job : j # i => row'[j] = row[j]
    BY <1>5, <2>1 DEF Expire, JobsInv, JobsTypeOK
  <2>3. /\ row'[i].status = row[i].status /\ row'[i].attempts = row[i].attempts
        /\ row'[i].result = row[i].result /\ row'[i].owner = row[i].owner
    BY <2>1, <2>2 DEF Row
  <2> QED BY <1>5, <2>1, <2>2, <2>3, RowsAloneKeep DEF Expire, JobsInv, JobsTypeOK
<1> QED BY <1>1, <1>2, <1>3, <1>4, <1>5 DEF JobsNext
-----------------------------------------------------------------------------
LEMMA Inductive == JobsSpec => []JobsInv
<1>1. JobsInit => JobsInv
  <2> SUFFICES ASSUME JobsInit PROVE JobsInv
    OBVIOUS
  <2>1. JobsTypeOK
    BY AttemptsAreNumbers, JobsAssumption DEF JobsInit, JobsTypeOK, Row
  <2>2. ASSUME NEW j \in Job PROVE ClaimsAreSound(j)
    BY DEF JobsInit, ClaimsAreSound, NoTask, OnIt, Owned
  <2> QED BY <2>1, <2>2 DEF JobsInv
<1>2. JobsInv /\ [JobsNext]_jobs => JobsInv'
  BY JobsStepKeeps
<1> QED BY <1>1, <1>2, PTL DEF JobsSpec

(* JobsTypeOK: only a process that runs has tasks. *)
THEOREM JobsTyped == JobsSpec => []JobsTypeOK
<1>1. JobsInv => JobsTypeOK
  BY DEF JobsInv
<1> QED BY Inductive, <1>1, PTL

(* OneOwner: two workers may compute a job, but under different claims, and *)
(* the row belongs to the last of them. *)
THEOREM OneHoldsTheRow == JobsSpec => []OneOwner
<1>1. JobsInv => OneOwner
  BY DEF JobsInv, JobsTypeOK, ClaimsAreSound, OneOwner
<1> QED BY Inductive, <1>1, PTL

(* ResultIsTheOwners: a worker whose lease was taken over (the owner in the *)
(* WHERE of complete and fail) neither overwrites nor revives a job. *)
THEOREM LateWorkersAreHarmless == JobsSpec => ResultIsTheOwners
<1> DEFINE Kept ==
      \A j \in Job :
        /\ row'[j].result # row[j].result => row'[j].result = row[j].attempts
        /\ row[j].status \in {"completed", "failed"} => row'[j] = row[j]
<1>1. JobsInv /\ [JobsNext]_jobs => [Kept]_jobs
  BY JobsStepKeeps DEF RowStep, Final
<1> QED BY Inductive, <1>1, PTL DEF JobsSpec, ResultIsTheOwners
=============================================================================
