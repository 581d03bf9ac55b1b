---------------------------- MODULE EventWriter ----------------------------
(***************************************************************************)
(* CanonicalEventWriter (services/event_writer.py) and the router in front *)
(* of it (services/event_router.py).  Streams publish events, several in   *)
(* one call; a worker takes them from a bounded queue, appends batches to  *)
(* the journal with retries inside a window, and completes the futures the *)
(* streams wait for; only then the router hands the events to the          *)
(* consumers.  Storage fails before or after the commit, the worker dies,  *)
(* a stream's task is cancelled, the writer is stopped while others        *)
(* publish, the process crashes and starts again on the same journal.      *)
(***************************************************************************)
EXTENDS Integers, SequencesExt

CONSTANTS
  Stream,      \* the tasks that publish, each with its own stream lock
  Event,       \* event ids; an id stands for one payload
  Events,      \* Events[s]: what a call of publish_many by s carries
  Stop,        \* the _STOP item, and the task that stops the writer
  QueueSize, BatchSize

ASSUME WriterAssumption ==
  /\ Events \in [Stream -> Seq(Event) \ {<< >>}]
  /\ Stop \notin Stream \cup [stream: Stream, at: Nat, live: BOOLEAN]
  /\ BatchSize \in Nat \ {0} /\ QueueSize \in Nat /\ BatchSize <= QueueSize

VARIABLES
  journal,    \* the rows of canonical_events in id order: the only durable part
  queue,      \* the asyncio queue: items, and Stop at its end
  lock,       \* the holder of _publish_lock, as a set
  accepting,  \* _accepting
  worker,     \* where _run is: off, get, collect, append, ended; failed once _failure is set
  active,     \* the batch in the worker's hands
  stopping,   \* the batch is the last one
  publisher,  \* where the call of each stream is
  put,        \* how many of its events each call has put into the queue
  future,     \* the durable future of each of them: pending, set or failed
  handed,     \* how many of its events the router has handed to the consumers
  stopper     \* where stop is: idle, lock, put, await; ok or raised at its end

items == <<queue, active>>
calls == <<publisher, put, future, handed>>
writer == <<journal, queue, lock, accepting, worker, active, stopping, publisher, put,
            future, handed, stopper>>

(* An item of the queue is [stream |-> s, at |-> k, live |-> TRUE] for the   *)
(* k-th event of the call of s, as long as that call has not been cancelled. *)
Waiting == {"lock", "put", "wait"}
Over == {"idle", "ok", "failed", "cancelled"}

TaskDone == worker \in {"ended", "failed"}
-----------------------------------------------------------------------------
(* Futures                                                                  *)
(* set_result and set_exception, on what is still pending.                  *)
Settled(futures, done, outcome) ==
  [s \in Stream |-> [k \in 1..Len(futures[s]) |->
     IF futures[s][k] = "pending" /\ [stream |-> s, at |-> k, live |-> TRUE] \in done
     THEN outcome ELSE futures[s][k]]]

Items(sequence) == ToSet(sequence) \ {Stop}

EventOf(item) == Events[item.stream][item.at]

(* The items of a call that is over: nobody waits for them any more.        *)
Orphaned(sequence, s) ==
  [i \in 1..Len(sequence) |->
     IF sequence[i] # Stop /\ sequence[i].stream = s
     THEN [sequence[i] EXCEPT !.live = FALSE] ELSE sequence[i]]
-----------------------------------------------------------------------------
(* publish_many                                                             *)
Publish(s) ==
  /\ publisher[s] \in Over
  /\ worker # "off"
  /\ publisher' = [publisher EXCEPT ![s] = "lock"]
  /\ UNCHANGED <<journal, items, lock, accepting, worker, stopping, put, future, handed,
                 stopper>>

(* A call ends and its locals with it; what it put into the queue stays.    *)
Ends(s, outcome) ==
  /\ publisher' = [publisher EXCEPT ![s] = outcome]
  /\ put' = [put EXCEPT ![s] = 0]
  /\ future' = [future EXCEPT ![s] = << >>]
  /\ handed' = [handed EXCEPT ![s] = 0]
  /\ queue' = Orphaned(queue, s)
  /\ active' = Orphaned(active, s)
  /\ lock' = lock \ {s}

(* Under the lock: a writer that failed or is stopping takes nothing.       *)
Acquire(s) ==
  /\ publisher[s] = "lock"
  /\ lock = {}
  /\ IF worker # "failed" /\ accepting
     THEN /\ publisher' = [publisher EXCEPT ![s] = "put"]
          /\ lock' = {s}
          /\ UNCHANGED <<items, put, future, handed>>
     ELSE Ends(s, "failed")
  /\ UNCHANGED <<journal, accepting, worker, stopping, stopper>>

(* _enqueue: into the queue when there is room, which a full queue waits    *)
(* for; a worker that dies meanwhile ends the wait.                         *)
Enqueue(s) ==
  /\ publisher[s] = "put"
  /\ \/ /\ Len(queue) < QueueSize
        /\ queue' = Append(queue, [stream |-> s, at |-> put[s] + 1, live |-> TRUE])
        /\ put' = [put EXCEPT ![s] = @ + 1]
        /\ future' = [future EXCEPT ![s] = Append(@, "pending")]
        /\ IF put[s] + 1 = Len(Events[s])
           THEN publisher' = [publisher EXCEPT ![s] = "wait"] /\ lock' = {}
           ELSE UNCHANGED <<publisher, lock>>
        /\ UNCHANGED <<active, handed>>
     \/ TaskDone /\ Ends(s, "failed")
  /\ UNCHANGED <<journal, accepting, worker, stopping, stopper>>

AllSet(s) == \A k \in 1..put[s] : future[s][k] = "set"
SomeFailed(s) == \E k \in 1..put[s] : future[s][k] = "failed"

Goes(s, next) ==
  /\ publisher' = [publisher EXCEPT ![s] = next]
  /\ UNCHANGED <<items, lock, put, future, handed>>

(* Plausible bug: the wait looks at the futures only. *)
AwaitFutures(s) ==
  /\ publisher[s] = "wait"
  /\ (AllSet(s) /\ Goes(s, "hand")) \/ (SomeFailed(s) /\ Ends(s, "failed"))
  /\ UNCHANGED <<journal, accepting, worker, stopping, stopper>>

(* The wait for whichever comes first: all futures, or the worker's end.    *)
Await(s) ==
  /\ publisher[s] = "wait"
  /\ \/ AllSet(s) /\ Goes(s, "hand")
     \/ (TaskDone \/ SomeFailed(s)) /\ Ends(s, "failed")
  /\ UNCHANGED <<journal, accepting, worker, stopping, stopper>>

(* The router's loop after publish_many: observe, then the consumers, one   *)
(* of which may raise.                                                      *)
Hand(s) ==
  /\ publisher[s] = "hand"
  /\ \/ /\ handed[s] + 1 < put[s]
        /\ handed' = [handed EXCEPT ![s] = @ + 1]
        /\ UNCHANGED <<items, lock, publisher, put, future>>
     \/ handed[s] + 1 = put[s] /\ Ends(s, "ok")
     \/ Ends(s, "failed")
  /\ UNCHANGED <<journal, accepting, worker, stopping, stopper>>

(* The stream's task is cancelled, and with it the future it waits for:     *)
(* the worker passes over it.                                               *)
Cancel(s) ==
  /\ publisher[s] \in Waiting \cup {"hand"}
  /\ Ends(s, "cancelled")
  /\ UNCHANGED <<journal, accepting, worker, stopping, stopper>>
-----------------------------------------------------------------------------
(* _run                                                                     *)
TakeFirst ==
  /\ worker = "get"
  /\ queue # << >>
  /\ queue' = Tail(queue)
  /\ IF Head(queue) = Stop
     THEN worker' = "ended" /\ UNCHANGED active
     ELSE worker' = "collect" /\ active' = <<Head(queue)>>
  /\ UNCHANGED <<journal, lock, accepting, stopping, calls, stopper>>

(* Plausible bug: the end of the queue ends the worker with its batch. *)
TakeMoreAndLeave ==
  /\ worker = "collect"
  /\ Len(active) < BatchSize
  /\ queue # << >>
  /\ queue' = Tail(queue)
  /\ IF Head(queue) = Stop
     THEN worker' = "ended" /\ UNCHANGED <<stopping, active>>
     ELSE active' = Append(active, Head(queue)) /\ UNCHANGED <<stopping, worker>>
  /\ UNCHANGED <<journal, lock, accepting, calls, stopper>>

TakeMore ==
  /\ worker = "collect"
  /\ Len(active) < BatchSize
  /\ queue # << >>
  /\ queue' = Tail(queue)
  /\ IF Head(queue) = Stop
     THEN stopping' = TRUE /\ worker' = "append" /\ UNCHANGED active
     ELSE active' = Append(active, Head(queue)) /\ UNCHANGED <<stopping, worker>>
  /\ UNCHANGED <<journal, lock, accepting, calls, stopper>>

(* The batch is full, or the flush interval is over.                        *)
Flush ==
  /\ worker = "collect"
  /\ worker' = "append"
  /\ UNCHANGED <<journal, items, lock, accepting, stopping, calls, stopper>>

(* Plausible bug: rows are inserted without a look at the ids stored. *)
CommittedAgain == journal \o [i \in 1..Len(active) |-> EventOf(active[i])]

(* append_events: one transaction, event after event; an id that is stored, *)
(* or comes again in the batch, is not inserted.                            *)
Committed ==
  LET rows[n \in 0..Len(active)] ==
        IF n = 0 THEN journal
        ELSE IF EventOf(active[n]) \in ToSet(rows[n - 1]) THEN rows[n - 1]
        ELSE Append(rows[n - 1], EventOf(active[n]))
  IN  rows[Len(active)]

AppendCommits ==
  /\ worker = "append"
  /\ journal' = Committed
  /\ future' = Settled(future, Items(active), "set")
  /\ active' = << >>
  /\ worker' = IF stopping THEN "ended" ELSE "get"
  /\ UNCHANGED <<queue, lock, accepting, stopping, publisher, put, handed, stopper>>

(* Plausible bug: the batch is acknowledged when its append times out. *)
AppendRetriesAcked ==
  /\ worker = "append"
  /\ journal' \in {journal, Committed}
  /\ future' = Settled(future, Items(active), "set")
  /\ UNCHANGED <<items, lock, accepting, worker, stopping, publisher, put, handed, stopper>>

(* A retryable error, which may hide a commit, inside the retry window.     *)
AppendRetries ==
  /\ worker = "append"
  /\ journal' \in {journal, Committed}
  /\ UNCHANGED <<items, lock, accepting, worker, stopping, calls, stopper>>

(* The except branch of _run, whatever ended it: every waiter is told.      *)
Fail ==
  /\ worker' = "failed"
  /\ accepting' = FALSE
  /\ future' = Settled(future, Items(active) \cup Items(queue), "failed")
  /\ queue' = << >>
  /\ active' = << >>
  /\ journal' \in IF worker = "append" THEN {journal, Committed} ELSE {journal}
  /\ UNCHANGED <<stopping, publisher, put, handed>>

(* The window expires, or the error is not retryable.                       *)
AppendFails ==
  /\ worker = "append"
  /\ Fail
  /\ UNCHANGED <<lock, stopper>>
-----------------------------------------------------------------------------
(* stop                                                                     *)
StopBegins ==
  /\ stopper = "idle"
  /\ worker # "off"
  /\ stopper' = "lock"
  /\ UNCHANGED <<journal, items, lock, accepting, worker, stopping, calls>>

StopAcquires ==
  /\ stopper = "lock"
  /\ lock = {}
  /\ accepting' = FALSE
  /\ IF TaskDone THEN stopper' = "await" /\ UNCHANGED lock
                 ELSE stopper' = "put" /\ lock' = {Stop}
  /\ UNCHANGED <<journal, items, worker, stopping, calls>>

StopEnqueues ==
  /\ stopper = "put"
  /\ \/ /\ Len(queue) < QueueSize
        /\ queue' = Append(queue, Stop)
        /\ stopper' = "await"
     \/ /\ TaskDone
        /\ stopper' = "raised"
        /\ UNCHANGED queue
  /\ lock' = {}
  /\ UNCHANGED <<journal, accepting, worker, active, stopping, calls>>

StopReturns ==
  /\ stopper = "await"
  /\ TaskDone
  /\ stopper' = IF worker = "ended" THEN "ok" ELSE "raised"
  /\ UNCHANGED <<journal, items, lock, accepting, worker, stopping, calls>>

(* The shutdown timeout: a worker that still runs is cancelled.             *)
StopTimesOut ==
  /\ stopper \in {"lock", "put", "await"}
  /\ stopper' = "raised"
  /\ lock' = lock \ {Stop}
  /\ IF TaskDone THEN UNCHANGED <<journal, items, accepting, worker, stopping, calls>>
                 ELSE Fail
-----------------------------------------------------------------------------
(* The process ends; a new one starts a new writer on the same journal.     *)
Fresh ==
  /\ queue' = << >>
  /\ lock' = {}
  /\ active' = << >>
  /\ stopping' = FALSE
  /\ publisher' = [s \in Stream |-> "idle"]
  /\ put' = [s \in Stream |-> 0]
  /\ future' = [s \in Stream |-> << >>]
  /\ handed' = [s \in Stream |-> 0]
  /\ stopper' = "idle"

ProcessEnds ==
  /\ worker # "off"
  /\ worker' = "off"
  /\ accepting' = FALSE
  /\ Fresh
  /\ journal' \in IF worker = "append" THEN {journal, Committed} ELSE {journal}

Start ==
  /\ worker = "off"
  /\ worker' = "get"
  /\ accepting' = TRUE
  /\ UNCHANGED <<journal, items, lock, stopping, calls, stopper>>
-----------------------------------------------------------------------------
WriterInit ==
  /\ journal = << >>
  /\ queue = << >> /\ active = << >>
  /\ lock = {}
  /\ accepting = FALSE /\ stopping = FALSE
  /\ worker = "off"
  /\ publisher = [s \in Stream |-> "idle"]
  /\ put = [s \in Stream |-> 0] /\ handed = [s \in Stream |-> 0]
  /\ future = [s \in Stream |-> << >>]
  /\ stopper = "idle"

WriterNext ==
  \/ \E s \in Stream :
       Publish(s) \/ Acquire(s) \/ Enqueue(s) \/ Await(s) \/ Hand(s) \/ Cancel(s)
  \/ TakeFirst \/ TakeMore \/ Flush \/ AppendCommits \/ AppendRetries \/ AppendFails
  \/ StopBegins \/ StopAcquires \/ StopEnqueues \/ StopReturns \/ StopTimesOut
  \/ ProcessEnds \/ Start

(* The event loop runs every task that can go on; the lock serves its       *)
(* waiters in turn; the retry window bounds every append.                   *)
WriterFairness ==
  /\ \A s \in Stream : WF_writer(Enqueue(s)) /\ WF_writer(Await(s)) /\ SF_writer(Acquire(s))
  /\ WF_writer(TakeFirst) /\ WF_writer(Flush) /\ WF_writer(AppendCommits \/ AppendFails)
  /\ WF_writer(StopEnqueues)

WriterSpec == WriterInit /\ [][WriterNext]_writer /\ WriterFairness
-----------------------------------------------------------------------------
Position(e) == CHOOSE i \in 1..Len(journal) : journal[i] = e

(* The j-th event of a call by s is in no other place of any call. *)
Own(s, j) ==
  \A t \in Stream : \A k \in 1..Len(Events[t]) : Events[t][k] = Events[s][j] => t = s /\ k = j

(* What a publisher was told is durable, and what a consumer was given, is  *)
(* in the journal, which has every event once, and an event that one call   *)
(* alone publishes only behind the earlier ones of that call: over commits  *)
(* that looked like errors, repeated publication and crashes. *)
JournalIsTrue ==
  /\ \A s \in Stream :
       /\ publisher[s] \in {"hand", "ok"} => ToSet(Events[s]) \subseteq ToSet(journal)
       /\ \A k \in 1..handed[s] : Events[s][k] \in ToSet(journal)
  /\ IsInjective(journal)
  /\ \A s \in Stream : \A i, j \in 1..Len(Events[s]) :
       i < j /\ Own(s, j) /\ Events[s][j] \in ToSet(journal) =>
         /\ Events[s][i] \in ToSet(journal)
         /\ Position(Events[s][i]) < Position(Events[s][j])

(* A stop that returns normally has drained the writer: no event that was   *)
(* accepted is left behind, and no publisher waits for one. *)
CleanStop ==
  stopper = "ok" =>
    /\ queue = << >> /\ active = << >>
    /\ \A s \in Stream : \A k \in 1..Len(Events[s]) :
         k <= put[s] => future[s][k] = "set" /\ Events[s][k] \in ToSet(journal)

(* Every call of publish_many comes to an end, whatever becomes of the      *)
(* worker, the storage and the other callers. *)
Answered == \A s \in Stream : (publisher[s] \in Waiting) ~> (publisher[s] \notin Waiting)
=============================================================================
