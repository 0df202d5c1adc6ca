---------------------------- MODULE MCPromotion ----------------------------
(***************************************************************************)
(* Instances of Promotion for TLC.                                         *)
(***************************************************************************)
EXTENDS PromotionProperties, TLC

CONSTANTS r1, r2, c1, c2

\* Two runs of one new pattern.
TwoRuns   == {r1, r2}
SameKey   == [t \in TwoRuns |-> "new"]
MCKeys    == {"new", "old1", "old2"}

Waiting(id, key) == [id |-> id, key |-> key, label |-> "x", count |-> 2]

\* The shipped queue holds two patterns, the shipped book a rule.
ShippedQueue == { [clf |-> <<Waiting(1, "old1"), Waiting(2, "old2")>>,
                   dec |-> <<Waiting(1, "old1")>>] }
ShippedRules == { [k \in Books |-> IF k # "dec"
                                       THEN File(<<Rule(1, "old2", "create", 0)>>)
                                       ELSE File(<< >>)] }

\* Two runs at once; a run after the other's end, and a request; two requests.
Clicks    == {c1, c2}
TwoAtOnce == { [over |-> {}, asking |-> {}], [over |-> TwoRuns, asking |-> Clicks] }
             \cup [over : {{r1}, {r2}}, asking : {{c1}, {c2}}]

\* Runs are interchangeable, and so are requests.
Symmetry  == Permutations(TwoRuns) \cup Permutations(Clicks)

=============================================================================
