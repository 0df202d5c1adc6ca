------------------------------ MODULE MCWebAcl ------------------------------
(* A small instance of WebAclProperties. *)
EXTENDS WebAclProperties

CONSTANTS r1, r2

\* An administrator's Web ACL is empty or has a rule of a higher priority.
GivenRules == {{}, {[name |-> r2, priority |-> 2]}}
=============================================================================
