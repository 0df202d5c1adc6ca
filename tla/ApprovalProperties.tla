------------------------- MODULE ApprovalProperties -------------------------
(***************************************************************************)
(* What the approval API promises, stated over Approval.                   *)
(***************************************************************************)
EXTENDS Approval

(***************************************************************************)
(* Every variable has its type: no more nodes of a run are checkpointed    *)
(* than the resumed graph has (_resume, _run_resume_in_background).        *)
(***************************************************************************)
TypeOK ==
  /\ saved \in [Threads -> 0 .. LOGGED]
  /\ resuming \subseteq Threads
  /\ job \in [Requests -> Job]
  /\ restarts \in 0 .. MaxRestarts
  /\ acts \in [Threads -> Nat]
  /\ approvedBy \in [Threads -> SUBSET Requests]
  /\ failed \in [Threads -> BOOLEAN]

Active(r) == job[r].phase \in Working \cup {"marked"}

(***************************************************************************)
(* Two clicks on the same run, two queue entries shown again by polling, a *)
(* retry during a slow QA: never do two background threads resume one run, *)
(* and a run that is being resumed is marked, so that the queue hides it   *)
(* (mark_resuming, unmark_resuming).                                       *)
(***************************************************************************)
OneResumePerThread ==
  /\ \A p, q \in Requests :
       Active(p) /\ Active(q) /\ job[p].thread = job[q].thread => p = q
  /\ \A r \in Requests : Active(r) => job[r].thread \in resuming

(***************************************************************************)
(* An approved action is executed once: a second execution takes a restart *)
(* of the API between the gate and its checkpoint.  Without an approval    *)
(* that reached the gate, never (_run_resume_in_background).               *)
(***************************************************************************)
ActsOncePerApproval ==
  \A t \in Threads :
    /\ acts[t] <= 1 + restarts
    /\ acts[t] <= Cardinality(approvedBy[t])

(***************************************************************************)
(* The queue hides no run for good: a background resume that has started,  *)
(* whatever it raises, ends with the run unmarked ("반드시 호출 — 안 그러면  *)
(* 그 thread_id가 영영 큐에 다시 안 뜬다", graph_runtime.py:53).              *)
(***************************************************************************)
ResumeReleasesMark ==
  \A r \in Requests :
    job[r].phase = "opening" ~> job[r].phase \in {"over", "lost"}
                                /\ job[r].thread \notin resuming
=============================================================================
