------------------------ MODULE DetectionProperties ------------------------
(***************************************************************************)
(* What the training of the Isolation Forest owes to the detection.        *)
(***************************************************************************)
EXTENDS Detection

\* Calls followed one another and none was cut short: one process, no kill.
Undisturbed == overlaps = 0 /\ crashes = 0

\* One detection adopts its window at most once, though it may ask for the model
\* twice and another process may bring the files back in between
\* (detection_agent.py:917-930, 1031-1043).
AdoptedOnce == \A p \in Procs : proc[p].adopted <= 1

\* While calls follow one another and one at most is killed, the count in the
\* buffer file covers every window of it that the model was not fitted on: none is
\* left out of the next training (detection_agent.py:809-860). A second kill may hit
\* the cold start that follows the first, between the new model and the new buffer:
\* then the old buffer, whose model is gone, is read beside the new one.
UnlearnedAreCounted ==
    overlaps = 0 /\ crashes <= 1 /\ Busy = {} /\ buffer.readable /\ model.readable =>
        Cardinality(Windows(buffer.byType) \ model.windows) <= buffer.pending

\* Undisturbed, the mock windows of a frozen type stay in the buffer and in every
\* model (detection_agent.py:156-177, 768-776).
FrozenSeedStays ==
    Undisturbed => \A t \in Seeded \ Unfrozen :
        /\ buffer.readable => buffer.byType[t] = <<Seed(t)>>
        /\ model.readable  => Seed(t) \in model.windows

=============================================================================
