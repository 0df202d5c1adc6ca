------------------------------ MODULE Approval ------------------------------
(***************************************************************************)
(* How the admin API resumes a run that waits at the approval gate:        *)
(* api/routers/approvals.py over api/graph_runtime.py.  A click is a       *)
(* request; the request that finds the run interrupted starts a daemon     *)
(* thread that invokes the rest of the graph (approval_gate, action, qa,   *)
(* logging) with a checkpointer of its own.  The set of runs being resumed *)
(* is kept in the memory of the API process.                               *)
(*                                                                         *)
(* LangGraph's checkpointer is external: it saves the steps of a run in    *)
(* order but while the next one executes (its default durability), and     *)
(* has saved them all when invoke returns or raises.                       *)
(***************************************************************************)
EXTENDS Integers, FiniteSets

CONSTANTS Threads,      \* runs waiting at the approval gate
          Requests,     \* clicks on approve or reject, each made once
          MaxRestarts   \* bound: restarts of the API process

ASSUME ApprovalAssumption == MaxRestarts \in Nat

VARIABLES saved,      \* nodes of the run in the checkpoint: 0 = interrupted
          resuming,   \* _resuming_thread_ids
          job,        \* each request and the background thread it starts
          restarts,   \* restarts so far
          acts,       \* history: how often the action of a run was executed
          approvedBy, \* history: requests whose approval reached the gate
          failed      \* history: a background resume of the run raised

vars == <<saved, resuming, job, restarts, acts, approvedBy, failed>>

\* How many nodes of the resumed run a background thread has completed.
GATED == 1
ACTED == 2
LOGGED == 3

Phases  == {"idle", "marked", "over", "opening", "gate", "action", "qa",
            "returned", "raised", "lost"}
Working == {"opening", "gate", "action", "qa", "returned", "raised"}
NoThread == "none"

Job == [phase : Phases, thread : Threads \cup {NoThread},
        approved : BOOLEAN, done : 0 .. LOGGED]

Init ==
  /\ saved = [t \in Threads |-> 0]
  /\ resuming = {}
  /\ job = [r \in Requests |-> [phase |-> "idle", thread |-> NoThread,
                                approved |-> FALSE, done |-> 0]]
  /\ restarts = 0
  /\ acts = [t \in Threads |-> 0]
  /\ approvedBy = [t \in Threads |-> {}]
  /\ failed = [t \in Threads |-> FALSE]

history == <<acts, approvedBy, failed>>

\* snapshot.interrupts of get_state: the run still waits for an answer.
Interrupted(t) == saved[t] = 0

-----------------------------------------------------------------------------
(***************************************************************************)
(* The request: _resume                                                    *)
(***************************************************************************)
\* Mutant: the click is not checked against the runs being resumed.
Click_Unchecked(r, t, approved) ==
  /\ job[r].phase = "idle"
  /\ resuming' = resuming \cup {t}
  /\ job' = [job EXCEPT ![r] = [@ EXCEPT !.phase = "marked", !.thread = t,
                                         !.approved = approved]]
  /\ UNCHANGED <<saved, restarts, history>>

\* mark_resuming: a second click is only told that the first is being
\* processed.
Click(r, t, approved) ==
  /\ job[r].phase = "idle"
  /\ resuming' = resuming \cup {t}
  /\ job' = [job EXCEPT ![r] = [@ EXCEPT
               !.phase = IF t \in resuming THEN "over" ELSE "marked",
               !.thread = t, !.approved = approved]]
  /\ UNCHANGED <<saved, restarts, history>>

\* get_state: start the background thread, or unmark and answer 404.
Lookup(r) ==
  /\ job[r].phase = "marked"
  /\ IF Interrupted(job[r].thread)
       THEN /\ job' = [job EXCEPT ![r].phase = "opening"]
            /\ UNCHANGED resuming
       ELSE /\ job' = [job EXCEPT ![r].phase = "over"]
            /\ resuming' = resuming \ {job[r].thread}
  /\ UNCHANGED <<saved, restarts, history>>

\* get_state raises: nothing in _resume unmarks the run.
LookupRaises(r) ==
  /\ job[r].phase = "marked"
  /\ job' = [job EXCEPT ![r].phase = "over"]
  /\ UNCHANGED <<saved, resuming, restarts, history>>

-----------------------------------------------------------------------------
(***************************************************************************)
(* The background thread: _run_resume_in_background                        *)
(***************************************************************************)
Advance(r, phase, done) ==
  job' = [job EXCEPT ![r] = [@ EXCEPT !.phase = phase, !.done = done]]

Raise(r) == job' = [job EXCEPT ![r].phase = "raised"]

\* get_postgres_checkpointer, setup and build_approval_graph.
Open(r) ==
  /\ job[r].phase = "opening"
  /\ Advance(r, "gate", 0) \/ Raise(r)
  /\ UNCHANGED <<saved, resuming, restarts, history>>

\* approval_gate_node returns from interrupt() with the answer.
Gate(r) ==
  /\ job[r].phase = "gate"
  /\ Advance(r, "action", GATED)
  /\ approvedBy' = [approvedBy EXCEPT
                      ![job[r].thread] = IF job[r].approved THEN @ \cup {r} ELSE @]
  /\ UNCHANGED <<saved, resuming, restarts, acts, failed>>

\* action_node: a rejected run does nothing; an approved one acts, and may
\* raise before it has touched AWS or after.
Act(r) ==
  /\ job[r].phase = "action"
  /\ \/ /\ ~job[r].approved
        /\ Advance(r, "qa", ACTED)
        /\ UNCHANGED acts
     \/ /\ job[r].approved
        /\ Advance(r, "qa", ACTED) \/ Raise(r)
        /\ acts' = [acts EXCEPT ![job[r].thread] = @ + 1]
     \/ /\ job[r].approved
        /\ Raise(r)
        /\ UNCHANGED acts
  /\ UNCHANGED <<saved, resuming, restarts, approvedBy, failed>>

\* qa_node (with its retries) and logging_node.
Verify(r) ==
  /\ job[r].phase = "qa"
  /\ Advance(r, "returned", LOGGED) \/ Raise(r)
  /\ UNCHANGED <<saved, resuming, restarts, history>>

\* The checkpointer saves the next completed node.
Save(r) ==
  /\ job[r].phase \in Working
  /\ saved[job[r].thread] < job[r].done
  /\ saved' = [saved EXCEPT ![job[r].thread] = @ + 1]
  /\ UNCHANGED <<resuming, job, restarts, history>>

\* Mutant: the mark is only taken away after a success.
Finally_OnlyOnSuccess(r) ==
  /\ job[r].phase \in {"returned", "raised"}
  /\ saved[job[r].thread] >= job[r].done
  /\ resuming' = IF job[r].phase = "returned"
                   THEN resuming \ {job[r].thread} ELSE resuming
  /\ failed' = [failed EXCEPT ![job[r].thread] = @ \/ job[r].phase = "raised"]
  /\ job' = [job EXCEPT ![r].phase = "over"]
  /\ UNCHANGED <<saved, restarts, acts, approvedBy>>

\* invoke has returned or raised, everything is saved: unmark_resuming.
Finally(r) ==
  /\ job[r].phase \in {"returned", "raised"}
  /\ saved[job[r].thread] >= job[r].done
  /\ resuming' = resuming \ {job[r].thread}
  /\ failed' = [failed EXCEPT ![job[r].thread] = @ \/ job[r].phase = "raised"]
  /\ job' = [job EXCEPT ![r].phase = "over"]
  /\ UNCHANGED <<saved, restarts, acts, approvedBy>>

-----------------------------------------------------------------------------
\* The API process restarts: its requests, its daemon threads and the set of
\* runs being resumed are gone, the checkpoints stay.
Restart ==
  /\ restarts < MaxRestarts
  /\ restarts' = restarts + 1
  /\ resuming' = {}
  /\ job' = [r \in Requests |->
               IF job[r].phase \in Working \cup {"marked"}
                 THEN [job[r] EXCEPT !.phase = "lost"] ELSE job[r]]
  /\ UNCHANGED <<saved, history>>

Work(r) == \/ Lookup(r) \/ LookupRaises(r) \/ Open(r) \/ Gate(r) \/ Act(r)
           \/ Verify(r) \/ Save(r) \/ Finally(r)

Next == \/ \E r \in Requests, t \in Threads, a \in BOOLEAN : Click(r, t, a)
        \/ \E r \in Requests : Work(r)
        \/ Restart

Spec == Init /\ [][Next]_vars

\* Requests and daemon threads that run go on running; nobody has to click.
FairSpec == Spec /\ \A r \in Requests : WF_vars(Work(r))
=============================================================================
