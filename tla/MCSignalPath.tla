---------------------------- MODULE MCSignalPath ----------------------------
(* The path of a signal, in parts that have no state in common: the book it *)
(* is read from, the copy of the journal the analytics read, the execution  *)
(* of its decision, the paper positions it leads to, the account of the     *)
(* paper runner, and the commands of the operator who steers it all.  A     *)
(* behaviour explores one of them.                                          *)
EXTENDS DecisionPipeline, BookFeed, JournalReplication, ControlPlane, PaperFunding, PaperReplay

CONSTANTS leg1, leg2, leg3, request, again, other, settlement, perpA, perpB

VARIABLE part

(* Three legs; the first, of two units, can be filled in part. *)
MCLegs == <<leg1, leg2, leg3>>

MCQuantity == [o \in Order |-> IF o = leg1 THEN 2 ELSE 1]

(* Versions two by two at the same millisecond. *)
MCTime == [v \in 1..LastVersion |-> (v + 1) \div 2]

(* Nothing crossed, or one version in the middle. *)
MCShapes == {[v \in 1..LastVersion |-> IF v = c THEN "CROSSED" ELSE "VALID"] : c \in {0, 2}}

(* A request, its retry, and another command with the same key. *)
MCContent == [a \in Attempt |-> IF a = other THEN "stop" ELSE "start"]

(* One settlement, in one of the two legs. *)
MCPerpOf == [s \in Settlement |-> perpA]
MCFallsAt == [s \in Settlement |-> 1]

(* The parts that are not explored start in one way only.                   *)
PathInit ==
  /\ part \in {"book", "replication", "pipeline", "commands", "paper", "replay"}
  /\ FeedInit /\ ReplicationInit /\ PipelineInit /\ CommandsInit /\ PaperInit
  /\ ReplayInit
  /\ part # "book" => linked /\ shape = [v \in 1..LastVersion |-> "VALID"]
  /\ part # "pipeline" => wired = [adapters |-> {}, compensator |-> FALSE]

PathNext ==
  /\ \/ part = "book" /\ FeedNext
        /\ UNCHANGED <<replication, pipeline, commands, paper, replay>>
     \/ part = "replication" /\ ReplicationNext
        /\ UNCHANGED <<feed, pipeline, commands, paper, replay>>
     \/ part = "pipeline" /\ PipelineNext
        /\ UNCHANGED <<feed, replication, commands, paper, replay>>
     \/ part = "commands" /\ CommandsNext
        /\ UNCHANGED <<feed, replication, pipeline, paper, replay>>
     \/ part = "paper" /\ PaperNext
        /\ UNCHANGED <<feed, replication, pipeline, commands, replay>>
     \/ part = "replay" /\ ReplayNext
        /\ UNCHANGED <<feed, replication, pipeline, commands, paper>>
  /\ UNCHANGED part

PathSpec ==
  PathInit /\ [][PathNext]_<<feed, replication, pipeline, commands, paper, replay, part>>
=============================================================================
