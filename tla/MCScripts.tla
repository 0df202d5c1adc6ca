----------------------------- MODULE MCScripts ------------------------------
(***************************************************************************)
(* The throttle trials and the demo scenarios, small. They share neither   *)
(* state nor resources: a behaviour is of one of the two, and the other    *)
(* stays as it began.                                                      *)
(***************************************************************************)
EXTENDS ThrottleTrial, LiveDemo

VARIABLE part  \* which of the two this behaviour is of

Symmetry == Permutations(Runs) \cup Permutations(Machines)

----------------------------------------------------------------------------
(* The EDoS scenario shares nothing with the other ones: it is shown alone. *)

Busy == {run[r].of : r \in Runs} \cup {proc[p].of : p \in Processes}
        \cup {k[2] : k \in {j \in Kinds : teardown[j] # NoTeardown}}

Alone == Busy \subseteq {"edos", NoScenario} /\ instances = {} /\ named = {}

DemoNext == LiveNext /\ ("edos" \in Busy' \/ maxSize' > 0 => Alone')

----------------------------------------------------------------------------
MCInit == part \in {"limits", "demos"} /\ Init /\ LiveInit

MCNext ==
    /\ UNCHANGED part
    /\ \/ part = "limits" /\ Next /\ UNCHANGED liveVars
       \/ part = "demos" /\ DemoNext /\ UNCHANGED vars

MCSpec == MCInit /\ [][MCNext]_<<part, vars, liveVars>>
=============================================================================
