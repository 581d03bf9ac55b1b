----------------------------- MODULE MCServices -----------------------------
(* Two services that share nothing but the process: the event writer and    *)
(* the replay jobs.  A behaviour explores one of them; the other stays as   *)
(* it is at the start, where it has nothing to do.                          *)
EXTENDS EventWriter, BacktestJobs

CONSTANTS s1, s2, a, b

VARIABLE service

(* Two events in one call, the first of them published by the other stream *)
(* as well. *)
MCEvents == (s1 :> <<a, b>> @@ s2 :> <<a>>)

ServicesInit ==
  /\ service \in {"writer", "jobs"}
  /\ WriterInit /\ JobsInit

ServicesNext ==
  /\ \/ service = "writer" /\ WriterNext /\ UNCHANGED jobs
     \/ service = "jobs" /\ JobsNext /\ UNCHANGED writer
  /\ UNCHANGED service

ServicesSpec ==
  /\ ServicesInit
  /\ [][ServicesNext]_<<writer, jobs, service>>
  /\ WriterFairness /\ JobsFairness
=============================================================================
