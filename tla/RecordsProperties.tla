------------------------- MODULE RecordsProperties -------------------------
EXTENDS Records, TLC

\* A light of the status page is on only for a node the latest run went through,
\* although logging_node records decision and QA as successful for every run.
NodesShowWhatRan == rows # << >> => NodeLights \subseteq run[Last(rows).run].ran

\* A run is shown as done when its last check passed, as failed (and on the page
\* of the failures) when it was rolled back for the last time, as waiting when it
\* is; it is never on the list twice. The cards count the finished ones: what is
\* detected is what is done or failed. A run that waits is not among the detected,
\* although pipeline_stats.py:14 has it there: it has no row in agent_runs yet.
ShownAsItEnded ==
    LET items  == RecentDetections
        done   == {i \in items : i.display = "done"}
        failed == {i \in items : i.display = "failed"}
    IN  /\ \A i \in done : run[i.run].passed
        /\ \A i \in failed : ~run[i.run].passed
        /\ \A i \in items \ (done \cup failed) : run[i.run].at = "held"
        /\ \A i, j \in items : i.run = j.run => i = j
        /\ Failures = {i.run : i \in failed}
        /\ RunCounts.completed = Cardinality(done) /\ RunCounts.failed = Cardinality(failed)
        /\ RunCounts.detected = Cardinality(done) + Cardinality(failed)

\* The log view has no key that joins its two files; it joins by resource and by
\* what is near in time. OwnDecision(c) is what it is to find for the entry c.
Near(c, d)     == c.time <= d.time /\ d.time <= c.time + GROUPING_WINDOW
OwnDecision(c) == {d \in ToSet(decisionLog) : d.run = c.run /\ Near(c, d)}

\* What can lead it astray: the entries of other runs of the resource, judged
\* within the window before c, or decided after c and not after c's own run.
Rivals(c) == {r \in Runs \ {c.run} : run[r].resource = run[c.run].resource}
JudgedBefore(c) == {e \in ToSet(classLog) :
                e.run \in Rivals(c) /\ e.time < c.time /\ c.time <= e.time + GROUPING_WINDOW}
DecidedFirst(c) == {d \in ToSet(decisionLog) :
                 d.run \in Rivals(c) /\ Near(c, d) /\ \A o \in OwnDecision(c) : d.time < o.time}

\* Whatever runs overlap over a resource, die between their two entries or take
\* longer than the window, an entry that no run led astray has a card with the
\* decision of its own run, or none if there is none within the window: one
\* disturbed card does not displace the cards after it for longer than the window.
CardsOfOneRun ==
    \A c \in ToSet(classLog) :
        JudgedBefore(c) = {} /\ DecidedFirst(c) = {} =>
            {card[2] : card \in {k \in Grouped : k[1] = c}} = OwnDecision(c)

\* An event that is committed after the page took its baseline is toasted in the
\* end: the page can still ask for it, because no answer that was cut at PAGE
\* events and no cursor has gone past it.
NoToastSkipped == \A i \in page.due : page.poll = "next" /\ i > page.cursor

-----------------------------------------------------------------------------
\* For TLC: runs and resources are interchangeable.
Symmetry == Permutations(Runs) \cup Permutations(ResourceIds)
=============================================================================
