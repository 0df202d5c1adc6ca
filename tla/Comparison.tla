----------------------------- MODULE Comparison -----------------------------
(***************************************************************************)
(* The pipeline assembled twice from the same functions                    *)
(* (no_langgraph/): by hand as a dispatcher with a checkpoint file and a   *)
(* retry decorator (raw_python/), and as a LangGraph                       *)
(* (langgraph_version/). Any process may resume the run of the file, also  *)
(* while another one is at it, and any process may die.                    *)
(*                                                                         *)
(* run_action is a dummy that never raises; here it may, as the call does  *)
(* for which the decorator and the RetryPolicy were written.               *)
(***************************************************************************)
EXTENDS Naturals

CONSTANTS Workers    \* the processes that start or resume the raw run

MAX_RETRY   == 2     \* of orchestrator.py
MaxAttempts == 3     \* of the decorator and of the RetryPolicy

\* What resource_id makes of the dummy action: the rollbacks it needs, 3 for never.
Needs == {0, 1, 3}

Inputs == [anomalous : BOOLEAN, needs : Needs, requires_approval : BOOLEAN]

VARIABLES
    input,       \* what the run is about: an anomaly, its action, an approval
    worker,      \* worker[w]: the step process w is at and its PipelineState
    checkpoint,  \* the file of the run
    twin         \* the step and the PipelineState of the LangGraph run

comparisonVars == <<input, worker, checkpoint, twin>>

Fresh == [anomaly_flag |-> FALSE, action_executed |-> FALSE, succeeded |-> FALSE,
          qa_passed |-> FALSE, rollback_count |-> 0, approved |-> FALSE]

At(step, state) == [step |-> step, state |-> state, attempt |-> 1]

Off == At("off", Fresh)

NoFile == At("no file", Fresh)
Torn   == At("torn", Fresh)

ComparisonInit ==
    /\ input \in Inputs
    /\ worker = [w \in Workers |-> Off]
    /\ checkpoint = NoFile
    /\ twin = Off

----------------------------------------------------------------------------
(* The functions both assemblies call.                                     *)

run_detection(s) == [s EXCEPT !.anomaly_flag = input.anomalous]

run_action(s) == [s EXCEPT !.action_executed = TRUE,
                           !.succeeded = s.rollback_count >= input.needs]

run_qa(s) == [s EXCEPT !.qa_passed = s.succeeded]

rolled_back(s) == [s EXCEPT !.rollback_count = @ + 1]

\* The steps up to the action, and the last one, are the same in both; asks is
\* whether a decision that needs an approval is held at the gate.
Straight(p, asks) ==
    CASE p.step = "detection" ->
           LET s == run_detection(p.state)
           IN  At(IF s.anomaly_flag THEN "classification" ELSE "logging", s)
      [] p.step = "classification" -> At("decision", p.state)
      [] p.step = "decision" -> At(IF asks THEN "approval_gate" ELSE "action", p.state)
      [] p.step = "logging" -> At("logged", p.state)

IsStraight(p) == p.step \in {"detection", "classification", "decision", "logging"}

\* One attempt: it succeeds, is tried again, or raises for the last time.
Attempts(p) ==
    {At("qa", run_action(p.state)),
     IF p.attempt < MaxAttempts THEN [p EXCEPT !.attempt = @ + 1] ELSE At("raised", p.state)}

----------------------------------------------------------------------------
(* raw_python: run_pipeline and resume_pipeline.                           *)

Goes(w, p) == worker' = [worker EXCEPT ![w] = p]

\* demo.py starts each run once.
RunPipeline(w) ==
    /\ \A v \in Workers : worker[v] = Off
    /\ Goes(w, At("detection", Fresh))
    /\ UNCHANGED <<input, checkpoint, twin>>

Step(w) ==
    /\ IsStraight(worker[w])
    /\ Goes(w, Straight(worker[w], input.requires_approval))
    /\ UNCHANGED <<input, checkpoint, twin>>

\* json.dump writes into a file that open() has emptied.
SaveCheckpoint(w) ==
    \/ /\ worker[w].step = "approval_gate"
       /\ checkpoint' = Torn
       /\ Goes(w, At("saving", worker[w].state))
       /\ UNCHANGED <<input, twin>>
    \/ /\ worker[w].step = "saving"
       /\ checkpoint' = At("action", worker[w].state)
       /\ Goes(w, At("paused", worker[w].state))
       /\ UNCHANGED <<input, twin>>

\* Without a file, or with a torn one, load_checkpoint raises.
ResumePipeline(w) ==
    /\ worker[w] = Off /\ checkpoint \notin {NoFile, Torn}
    /\ Goes(w, At(checkpoint.step, [checkpoint.state EXCEPT !.approved = TRUE]))
    /\ UNCHANGED <<input, checkpoint, twin>>

RunAction(w) ==
    /\ worker[w].step = "action"
    /\ \E p \in Attempts(worker[w]) : Goes(w, p)
    /\ UNCHANGED <<input, checkpoint, twin>>

\* The rollback, the count and the way back are part of the step "qa".
RunQa(w) ==
    /\ worker[w].step = "qa"
    /\ LET s == run_qa(worker[w].state) IN
       Goes(w, IF ~s.qa_passed /\ s.rollback_count < MAX_RETRY
                 THEN At("action", rolled_back(s)) ELSE At("logging", s))
    /\ UNCHANGED <<input, checkpoint, twin>>

DeleteCheckpoint(w) ==
    /\ worker[w].step = "logged"
    /\ checkpoint' = NoFile
    /\ Goes(w, At("over", worker[w].state))
    /\ UNCHANGED <<input, twin>>

Die(w) ==
    /\ worker[w].step \notin {"off", "paused", "raised", "over", "dead"}
    /\ Goes(w, At("dead", worker[w].state))
    /\ UNCHANGED <<input, checkpoint, twin>>

----------------------------------------------------------------------------
(* langgraph_version: a node for the rollback, and no gate.                *)

\* Mutant: one of the two constants was changed.
qa_router_OneLess(s) ==
    IF ~s.qa_passed /\ s.rollback_count < MAX_RETRY - 1 THEN "rollback" ELSE "logging"

\* MAX_RETRY of graph.py has the value of the other one by no more than agreement.
qa_router(s) ==
    IF ~s.qa_passed /\ s.rollback_count < MAX_RETRY THEN "rollback" ELSE "logging"

TwinStep ==
    /\ \/ twin = Off /\ twin' = At("detection", Fresh)
       \/ IsStraight(twin) /\ twin' = Straight(twin, FALSE)
       \/ twin.step = "action" /\ twin' \in Attempts(twin)
       \/ twin.step = "qa" /\ LET s == run_qa(twin.state) IN twin' = At(qa_router(s), s)
       \/ twin.step = "rollback" /\ twin' = At("action", rolled_back(twin.state))
       \/ twin.step = "logged" /\ twin' = At("over", twin.state)
    /\ UNCHANGED <<input, worker, checkpoint>>

ComparisonNext ==
    \/ \E w \in Workers :
          \/ RunPipeline(w) \/ Step(w) \/ SaveCheckpoint(w) \/ ResumePipeline(w)
          \/ RunAction(w) \/ RunQa(w) \/ DeleteCheckpoint(w) \/ Die(w)
    \/ TwinStep

ComparisonSpec == ComparisonInit /\ [][ComparisonNext]_comparisonVars

----------------------------------------------------------------------------
\* The two assemblies end alike (COMPARISON.md, langgraph_version/demo.py), also when
\* the raw run was stopped at its gate and resumed, once or by several processes, after
\* however many of them died; and what asks for an approval is not done before it.
EndsAlike ==
    \A w \in Workers :
        LET s == worker[w].state IN
        /\ worker[w].step = "over" /\ twin.step = "over" =>
              [s EXCEPT !.approved = FALSE] = twin.state
        /\ s.action_executed /\ input.requires_approval => s.approved
=============================================================================
