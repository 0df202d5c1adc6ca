-------------------------- MODULE RecoveryContract --------------------------
(***************************************************************************)
(* What a run of the recovery pipeline promises at its least: nothing is   *)
(* tried that is held for the administrator, a try that fails is undone    *)
(* before the next one, there are two tries at most, and the record of the *)
(* run says whether the last one was undone.  Which action, which resource *)
(* and which AWS calls are no part of it.                                  *)
(***************************************************************************)
EXTENDS Naturals

CONSTANTS Runs, MaxTries

VARIABLES phase,   \* how far a run has come
          tries,   \* how often it has begun to act
          outcome  \* the status it was recorded with

vars == <<phase, tries, outcome>>

Phases == {"undecided", "idle", "held", "cleared", "acting", "undoing",
           "settled", "exhausted", "recorded", "lost"}

Init == /\ phase = [t \in Runs |-> "undecided"]
        /\ tries = [t \in Runs |-> 0]
        /\ outcome = [t \in Runs |-> "none"]

Move(t, from, to) == phase[t] = from /\ phase' = [phase EXCEPT ![t] = to]

\* No anomaly, nothing to do, a risky action, or one that needs no answer.
Decide(t) ==
  /\ \E to \in {"settled", "idle", "held", "cleared"} :
       Move(t, "undecided", to)
  /\ UNCHANGED <<tries, outcome>>

\* The administrator answers, or the graph has no gate and the run ends.
Release(t) ==
  /\ \E to \in {"idle", "cleared", "settled"} : Move(t, "held", to)
  /\ UNCHANGED <<tries, outcome>>

Try(t) ==
  /\ Move(t, "cleared", "acting")
  /\ tries[t] < MaxTries
  /\ tries' = [tries EXCEPT ![t] = @ + 1]
  /\ UNCHANGED outcome

Undo(t) == Move(t, "acting", "undoing") /\ UNCHANGED <<tries, outcome>>

\* Undone: once more, or never again.
Undone(t) ==
  /\ Move(t, "undoing", IF tries[t] < MaxTries THEN "cleared" ELSE "exhausted")
  /\ UNCHANGED <<tries, outcome>>

Settle(t) ==
  /\ Move(t, "idle", "settled") \/ Move(t, "acting", "settled")
  /\ UNCHANGED <<tries, outcome>>

\* The record may be lost, but never says something else.
Record(t) ==
  /\ \/ /\ Move(t, "settled", "recorded")
        /\ \E o \in {"none", "completed"} : outcome' = [outcome EXCEPT ![t] = o]
     \/ /\ Move(t, "exhausted", "recorded")
        /\ \E o \in {"none", "rollback_exhausted"} :
             outcome' = [outcome EXCEPT ![t] = o]
  /\ UNCHANGED tries

Lose(t) ==
  /\ phase[t] # "recorded"
  /\ phase' = [phase EXCEPT ![t] = "lost"]
  /\ UNCHANGED <<tries, outcome>>

Next == \E t \in Runs :
          \/ Decide(t) \/ Release(t) \/ Try(t) \/ Undo(t) \/ Undone(t)
          \/ Settle(t) \/ Record(t) \/ Lose(t)

Spec == Init /\ [][Next]_vars
=============================================================================
