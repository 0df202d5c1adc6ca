------------------------- MODULE RecoveryRefinement -------------------------
(***************************************************************************)
(* Recovery implements RecoveryContract.                                   *)
(***************************************************************************)
EXTENDS RecoveryInvariant

\* Where a run stands that has an action and may or may not carry it out.
Standing(s) == IF s.selected_action = "NoAction" THEN "idle"
               ELSE IF s.requires_approval THEN "held" ELSE "cleared"

Phase(t) ==
  CASE pc[t] \in {"detection", "classification", "decision"} -> "undecided"
    [] pc[t] \in {"notify_gate", "approval_gate", "action"}
                             -> Standing(state[t])
    [] pc[t] = "execute"     -> "acting"
    [] pc[t] = "qa"          -> CASE state[t].action_executed = "NoAction" -> "idle"
                                  [] state[t].action_executed = None -> "held"
                                  [] OTHER -> "acting"
    [] pc[t] = "rollback"    -> "undoing"
    [] pc[t] = "logging"     -> IF state[t].qa_passed = "False"
                                  THEN "exhausted" ELSE "settled"
    [] pc[t] = "END"         -> "recorded"
    [] pc[t] = "dead"        -> "lost"

Outcome(t) == IF record[t] = NoRecord THEN "none" ELSE record[t].status

PhaseOf   == [t \in Threads |-> Phase(t)]
OutcomeOf == [t \in Threads |-> Outcome(t)]

Contract == INSTANCE RecoveryContract
              WITH Runs <- Threads, MaxTries <- 2, tries <- attempts,
                   phase <- PhaseOf, outcome <- OutcomeOf

(***************************************************************************)
(* Every step of the graph, of an AWS call, of the administrator or of a   *)
(* crash is a step of the contract or none: no node order, no failing call *)
(* and no answer lets a held action run, skips the undoing of a failed try *)
(* or records another end (build_approval_graph, qa_router).               *)
(***************************************************************************)
MeetsContract == Contract!Spec

-----------------------------------------------------------------------------
\* What the mapping needs beyond IInv: a thread past its decision has an
\* action, and one that executes it, has executed it or undoes it has one that
\* waits for nobody.
Unheld(s) == s.selected_action # "NoAction" /\ ~s.requires_approval

SelectedInv(t) ==
  /\ pc[t] \in {"notify_gate", "approval_gate", "action", "execute", "qa",
                "rollback"} => state[t].selected_action \in Actions
  /\ pc[t] \in {"execute", "rollback"} => Unheld(state[t])
  /\ pc[t] = "qa" /\ state[t].action_executed \notin {"NoAction", None}
       => Unheld(state[t])

RefinementInv == IInv /\ \A t \in Threads : SelectedInv(t)
=============================================================================
