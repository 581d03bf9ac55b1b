------------------------- MODULE JournalReplication -------------------------
(***************************************************************************)
(* ClickHouseEventReplicator.replicate_once (storage/replication.py) over  *)
(* the journal EventWriter fills, while retention                          *)
(* (storage/journal_retention.py) removes its oldest rows.  A batch goes   *)
(* to the sink table by table, and only then the durable cursor moves, by  *)
(* compare and swap.  A deployment may run two replicators for a while;    *)
(* each of them, the sink and the database fail at any point.              *)
(***************************************************************************)
EXTENDS Integers

CONSTANTS
  Replicator,
  Batch,       \* batch_size
  MaxStored    \* bound: rows of the journal

ASSUME ReplicationAssumption == Batch \in Nat \ {0} /\ MaxStored \in Nat

VARIABLES
  stored,      \* the highest row id; ids are committed in order
  trimmed,     \* rows up to this id have been deleted
  checkpoint,  \* last_event_row_id of the durable cursor, 0 when there is none
  raw, typed,  \* row ids in raw_market_events, and in the typed projections
  replica      \* what each replicator holds of its pass

durable == <<stored, trimmed, checkpoint, raw, typed>>
replication == <<durable, replica>>

Pass == [at: {"idle", "loaded", "written"}, cursor: 0..MaxStored,
         first: 0..MaxStored + 1, last: 0..MaxStored]

Idle == [at |-> "idle", cursor |-> 0, first |-> 0, last |-> 0]

ReplicationTypeOK ==
  /\ stored \in 0..MaxStored /\ trimmed \in 0..stored /\ checkpoint \in 0..stored
  /\ raw \subseteq 1..stored /\ typed \subseteq raw
  /\ replica \in [Replicator -> Pass]
-----------------------------------------------------------------------------
AppendRow ==
  /\ stored < MaxStored
  /\ stored' = stored + 1
  /\ UNCHANGED <<trimmed, checkpoint, raw, typed, replica>>

(* Rows older than the window, in batches; the newest row always stays.     *)
TrimRows ==
  /\ trimmed' \in trimmed + 1 .. stored - 1
  /\ UNCHANGED <<stored, checkpoint, raw, typed, replica>>

(* _load_cursor and the rows behind it; without any, the pass is over.      *)
Load(r) ==
  /\ replica[r].at = "idle"
  /\ LET first == (IF trimmed > checkpoint THEN trimmed ELSE checkpoint) + 1
     IN  replica' = IF first > stored THEN replica ELSE [replica EXCEPT ![r] =
           [at |-> "loaded", cursor |-> checkpoint, first |-> first,
            last |-> IF first + Batch - 1 < stored THEN first + Batch - 1 ELSE stored]]
  /\ UNCHANGED durable

Rows(r) == replica[r].first .. replica[r].last

(* Plausible bug: an insert that failed is logged and counted as written. *)
WriteFailsQuietly(r) ==
  /\ replica[r].at = "loaded"
  /\ \E some \in SUBSET Rows(r) : raw' = raw \cup some
  /\ UNCHANGED typed
  /\ replica' = [replica EXCEPT ![r].at = "written"]
  /\ UNCHANGED <<stored, trimmed, checkpoint>>

(* write_market_events: the raw table, then the projections; what arrived   *)
(* before an error stays, and is written again by a later pass.             *)
Write(r) ==
  /\ replica[r].at = "loaded"
  /\ raw' = raw \cup Rows(r)
  /\ typed' = typed \cup Rows(r)
  /\ replica' = [replica EXCEPT ![r].at = "written"]
  /\ UNCHANGED <<stored, trimmed, checkpoint>>

WriteFails(r) ==
  /\ replica[r].at = "loaded"
  /\ \/ \E some \in SUBSET Rows(r) : raw' = raw \cup some /\ UNCHANGED typed
     \/ \E some \in SUBSET Rows(r) : raw' = raw \cup Rows(r) /\ typed' = typed \cup some
  /\ replica' = [replica EXCEPT ![r] = Idle]
  /\ UNCHANGED <<stored, trimmed, checkpoint>>

(* Plausible bug: the cursor is set without a look at what it was. *)
AdvanceBlindly(r) ==
  /\ replica[r].at = "written"
  /\ checkpoint' = replica[r].last
  /\ replica' = [replica EXCEPT ![r] = Idle]
  /\ UNCHANGED <<stored, trimmed, raw, typed>>

(* _advance_cursor: another replicator's move is an error of this pass.     *)
Advance(r) ==
  /\ replica[r].at = "written"
  /\ checkpoint' = IF checkpoint = replica[r].cursor THEN replica[r].last ELSE checkpoint
  /\ replica' = [replica EXCEPT ![r] = Idle]
  /\ UNCHANGED <<stored, trimmed, raw, typed>>

(* The pass ends in an exception or with its process; run begins another.   *)
PassFails(r) ==
  /\ replica[r].at # "idle"
  /\ replica' = [replica EXCEPT ![r] = Idle]
  /\ UNCHANGED durable
-----------------------------------------------------------------------------
ReplicationInit ==
  /\ stored = 0 /\ trimmed = 0 /\ checkpoint = 0
  /\ raw = {} /\ typed = {}
  /\ replica = [r \in Replicator |-> Idle]

ReplicationNext ==
  \/ AppendRow \/ TrimRows
  \/ \E r \in Replicator :
       Load(r) \/ Write(r) \/ WriteFails(r) \/ Advance(r) \/ PassFails(r)

ReplicationSpec == ReplicationInit /\ [][ReplicationNext]_replication
-----------------------------------------------------------------------------
(* What the cursor has passed is in every table of the sink, unless         *)
(* retention deleted it before it could be read. *)
NothingSkipped ==
  \A i \in 1..checkpoint : i \in typed \/ i <= trimmed

(* The durable cursor never goes back, with two replicators either. *)
CursorMovesOn == [][checkpoint' >= checkpoint]_replication
=============================================================================
