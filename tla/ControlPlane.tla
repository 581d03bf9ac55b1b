---------------------------- MODULE ControlPlane ----------------------------
(***************************************************************************)
(* Writing commands of the operator's interface                            *)
(* (security/control_plane.py) and the table that keeps a repeated one     *)
(* from running again (database/repositories/control_plane.py).  A request *)
(* reserves its idempotency key, runs, is audited, and records its answer; *)
(* one that is cut short leaves the key PENDING until an operator states   *)
(* how it ended.  One principal and one key: the table's lock is for each  *)
(* pair.                                                                   *)
(***************************************************************************)
EXTENDS Integers

CONSTANTS
  Attempt,     \* HTTP requests with this key: the first one, retries, other commands
  Content,     \* what each of them asks for, as request_hash
  Statement,     \* what an operator may state
  Ttl,         \* idempotency_ttl_seconds
  LastTime     \* bound on time

ASSUME CommandsAssumption == Ttl \in Nat \ {0} /\ LastTime \in Nat

VARIABLES
  entry,      \* the key's ApiIdempotencyRecord
  attempt,    \* how far each request is, and the answer it is to give
  now,
  holder,     \* history: the last request that reserved the key
  ending,     \* history: how the command of each reservation is recorded to have ended
  told        \* history: answers given, with the reservation each is about

commands == <<entry, attempt, now, holder, ending, told>>

(* The answer a request computes is named after the request.                *)
Reply == Attempt \cup Statement

Unanswered == [stage |-> "new"]
Finished == [stage |-> "over"]
NoEnding == [is |-> "none"]
Pending == [is |-> "pending"]
Ended(answer, until) == [is |-> "ended", answer |-> answer, until |-> until]
NoEntry == [state |-> "absent"]

Deadline == 0..(LastTime + Ttl)

KeyRow ==
  {NoEntry} \cup [state: {"PENDING"}, content: {Content[a] : a \in Attempt}]
    \cup [state: {"COMPLETED"}, content: {Content[a] : a \in Attempt},
          answer: Reply, expires: Deadline]

AtWork == {"reserved", "audit", "record"}

Progress ==
  {Unanswered, Finished} \cup [stage: AtWork, since: 0..LastTime]
    \cup [stage: {"replay"}, answer: Reply, of: Attempt]

Ending == {NoEnding, Pending} \cup [is: {"ended"}, answer: Reply, until: Deadline]

CommandsTypeOK ==
  /\ entry \in KeyRow
  /\ attempt \in [Attempt -> Progress]
  /\ now \in 0..LastTime
  /\ holder \in SUBSET Attempt
  /\ ending \in [Attempt -> Ending]
  /\ told \in SUBSET (Attempt \X Reply)

Moves(a, to) == attempt' = [attempt EXCEPT ![a] = to]
-----------------------------------------------------------------------------
(* DatabaseControlPlaneIdempotencyStore.reserve.                            *)
(* Plausible bug: a reservation lapses like an answer. *)
FreeOnceOld ==
  \/ entry.state \in {"absent", "PENDING"}
  \/ entry.state = "COMPLETED" /\ entry.expires <= now

Free ==
  \/ entry.state = "absent"
  \/ entry.state = "COMPLETED" /\ entry.expires <= now

Take(a) ==
  /\ entry' = [state |-> "PENDING", content |-> Content[a]]
  /\ holder' = {a}
  /\ ending' = [ending EXCEPT ![a] = Pending]

Reserve(a) ==
  /\ attempt[a].stage = "new"
  /\ \/ Free /\ Take(a) /\ Moves(a, [stage |-> "reserved", since |-> now])
     \/ /\ ~Free /\ UNCHANGED <<entry, holder, ending>>
        /\ IF entry.content = Content[a] /\ entry.state = "COMPLETED"
           THEN \E h \in holder : Moves(a, [stage |-> "replay", answer |-> entry.answer, of |-> h])
           ELSE Moves(a, Finished)
  /\ UNCHANGED <<now, told>>

(* The database fails, before the commit or after it: 503.                  *)
ReserveErrs(a) ==
  /\ attempt[a].stage = "new"
  /\ Moves(a, Finished)
  /\ (Free /\ Take(a)) \/ UNCHANGED <<entry, holder, ending>>
  /\ UNCHANGED <<now, told>>
-----------------------------------------------------------------------------
(* ControlPlaneMiddleware.dispatch: the handler answers or refuses the      *)
(* command; an exception, or an answer too large to keep, leaves the key    *)
(* PENDING.                                                                 *)
Handle(a) ==
  /\ attempt[a].stage = "reserved"
  /\ \/ Moves(a, [attempt[a] EXCEPT !.stage = "audit"])
     \/ Moves(a, Finished)
  /\ UNCHANGED <<entry, now, holder, ending, told>>

(* _audit comes before the answer is recorded, and its failure instead of it. *)
Audit(a) ==
  /\ attempt[a].stage = "audit"
  /\ \/ Moves(a, [attempt[a] EXCEPT !.stage = "record"])
     \/ Moves(a, Finished)
  /\ UNCHANGED <<entry, now, holder, ending, told>>

(* A repeated request is audited and gets the recorded answer.              *)
Replay(a) ==
  /\ attempt[a].stage = "replay"
  /\ Moves(a, Finished)
  /\ \/ told' = told \cup {<<attempt[a].of, attempt[a].answer>>}
     \/ UNCHANGED told
  /\ UNCHANGED <<entry, now, holder, ending>>

(* The client goes away, or the process dies.                               *)
Break(a) ==
  /\ attempt[a].stage \notin {"new", "over"}
  /\ Moves(a, Finished)
  /\ UNCHANGED <<entry, now, holder, ending, told>>
-----------------------------------------------------------------------------
Settle(answer) ==
  /\ entry' = [state |-> "COMPLETED", content |-> entry.content, answer |-> answer,
               expires |-> now + Ttl]
  /\ ending' = [h \in Attempt |-> IF h \in holder THEN Ended(answer, now + Ttl) ELSE ending[h]]

(* Plausible bug: complete looks at the command and not at its state. *)
OpenToAnswer(a) == entry.state # "absent" /\ entry.content = Content[a]

OpenTo(a) == entry.state = "PENDING" /\ entry.content = Content[a]

(* complete; after a failure the answer may be recorded, and is not given.  *)
Record(a) ==
  /\ attempt[a].stage = "record"
  /\ Moves(a, Finished)
  /\ \/ OpenTo(a) /\ Settle(a) /\ told' = told \cup {<<a, a>>}
     \/ OpenTo(a) /\ Settle(a) /\ UNCHANGED told
     \/ UNCHANGED <<entry, ending, told>>
  /\ UNCHANGED <<now, holder>>

(* Plausible bug: an outcome replaces the one that is recorded. *)
OpenToAnyOutcome == entry.state # "absent"

OpenToOutcome == entry.state = "PENDING"

(* reconcile_pending: an operator settles the key, also while the request   *)
(* is still at work, or learns that it is settled this way, or is refused.  *)
Reconcile(outcome) ==
  /\ \/ /\ OpenToOutcome /\ Settle(outcome)
        /\ (told' = told \cup (holder \X {outcome})) \/ UNCHANGED told
     \/ /\ entry.state = "COMPLETED" /\ entry.answer = outcome
        /\ told' = told \cup (holder \X {outcome})
        /\ UNCHANGED <<entry, ending>>
     \/ ~OpenToOutcome /\ UNCHANGED <<entry, ending, told>>
  /\ UNCHANGED <<attempt, now, holder>>

(* No request lasts as long as a recorded answer.                           *)
Tick ==
  /\ now < LastTime
  /\ \A a \in Attempt : attempt[a].stage \in AtWork =>
       now + 1 < attempt[a].since + Ttl
  /\ now' = now + 1
  /\ UNCHANGED <<entry, attempt, holder, ending, told>>
-----------------------------------------------------------------------------
CommandsInit ==
  /\ entry = NoEntry
  /\ attempt = [a \in Attempt |-> Unanswered]
  /\ now = 0
  /\ holder = {}
  /\ ending = [a \in Attempt |-> NoEnding]
  /\ told = {}

CommandsNext ==
  \/ \E a \in Attempt :
       \/ Reserve(a) \/ ReserveErrs(a) \/ Handle(a) \/ Audit(a)
       \/ Replay(a) \/ Record(a) \/ Break(a)
  \/ \E outcome \in Statement : Reconcile(outcome)
  \/ Tick

CommandsSpec == CommandsInit /\ [][CommandsNext]_commands
-----------------------------------------------------------------------------
(* A command starts only when every earlier command with its key is known   *)
(* to have ended, and the time to repeat its answer is over: a lost answer, *)
(* a crash, a failed database or a wrong guess of the client never make it  *)
(* run twice ("a PENDING unknown outcome never expires into automatic       *)
(* re-execution", docs/V1_CONTROL_PLANE_SECURITY.md:40).                    *)
RunsOnce ==
  [][\A a, b \in Attempt :
       ending[a].is = "none" /\ ending'[a].is # "none" /\ ending[b].is # "none" =>
         ending[b].is = "ended" /\ ending[b].until <= now]_commands

(* Whoever is told how a command ended - the client that sent it, one that  *)
(* repeats it, an operator - is told the same, whatever races with what.    *)
AnswersAgree ==
  \A t \in told : ending[t[1]].is = "ended" /\ ending[t[1]].answer = t[2]
=============================================================================
