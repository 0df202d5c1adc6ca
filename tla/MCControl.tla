----------------------------- MODULE MCControl -----------------------------
(* Instances of the control panel for TLC. *)
EXTENDS ControlProperties

CONSTANTS r1

TwoKeys == <<"polling_interval", "resources">>

Patch(k, v) == [x \in {k} |-> v]

\* S3 switched on; a polling interval below the minimum and RDS switched off in
\* one body.
Bodies ==
    {Patch("resources", [t \in {"S3"} |-> TRUE]),
     Extend(Patch("polling_interval", 1), Patch("resources", [t \in {"RDS"} |-> FALSE]))}

=============================================================================
