------------------------- MODULE ControlProperties -------------------------
(***************************************************************************)
(* What the control panel owes to the administrator.                       *)
(***************************************************************************)
EXTENDS Control

Quiet == \A r \in Requests : requests[r].op = "idle"

\* With one administrator, whatever restarts, crashes and scenarios come in
\* between, is_running sees the loop, and a second one cannot be started, unless
\* a scenario wrote over its pid or the server died before it was recorded
\* (pipeline_process.py:12-14, 54-62, 78-87).
LoopIsSeen ==
    /\ Quiet /\ loops \ lost # {} => IsRunning
    /\ Cardinality(loops \ lost) <= 1

\* A loop that is not lost scans exactly the types that are switched on now:
\* what it was started with has not changed under it (settings.py:25-28), and a
\* start never read a half-written file.
ScansWhatIsEnabled ==
    \A p \in loops \ lost : EnabledTypes # {} => Scanned(p) = EnabledTypes

\* The stop button leaves no loop running that the server could know of, also
\* after a restart (pipeline_process.py:128-152).
StopEndsTheLoop ==
    [][\A r \in Requests : StopForget(r) => loops' \subseteq lost]_vars

\* Once nothing runs and nobody presses a button any more, GET /status stops
\* reporting a running pipeline (status.py:17-24, pipeline_live_status.py:52-69).
QuietIsReported ==
    <>[](loops = {} /\ scenarios = {} /\ Quiet) => <>[](~PipelineRunning)
=============================================================================
