--------------------------- MODULE ApprovalProofs ---------------------------
(***************************************************************************)
(* Theorems about Approval for every set of runs, every set of clicks and  *)
(* every number of restarts.                                               *)
(***************************************************************************)
EXTENDS ApprovalProperties, FiniteSetTheorems, TLAPS

LEMMA InitResume == Init => TypeOK /\ OneResumePerThread
BY ApprovalAssumption
DEF Init, TypeOK, OneResumePerThread, Active, Job, Phases, Working, NoThread,
    LOGGED

\* A request that changes its own job only keeps the other jobs.
LEMMA JobStep ==
  ASSUME job \in [Requests -> Job], NEW r \in Requests, NEW j \in Job,
         job' = [job EXCEPT ![r] = j]
  PROVE  /\ job' \in [Requests -> Job]
         /\ job'[r] = j
         /\ \A q \in Requests \ {r} : job'[q] = job[q]
OBVIOUS

\* A request that stays active, or stops being so, on the run it marked.
LEMMA SameMarks ==
  ASSUME TypeOK, OneResumePerThread, NEW r \in Requests, NEW j \in Job,
         job' = [job EXCEPT ![r] = j], j.thread = job[r].thread,
         resuming' = resuming,
         j.phase \in Working \cup {"marked"} => Active(r)
  PROVE  OneResumePerThread'
<1>1. /\ job'[r] = j
      /\ \A q \in Requests \ {r} : job'[q] = job[q]
  BY JobStep DEF TypeOK
<1> QED
  BY <1>1 DEF OneResumePerThread, Active

\* A request that takes its mark away is not active any more.
LEMMA Unmarks ==
  ASSUME TypeOK, OneResumePerThread, NEW r \in Requests, NEW j \in Job,
         job' = [job EXCEPT ![r] = j], Active(r),
         resuming' = resuming \ {job[r].thread},
         j.phase \notin Working \cup {"marked"}
  PROVE  OneResumePerThread'
<1>1. /\ job'[r] = j
      /\ \A q \in Requests \ {r} : job'[q] = job[q]
  BY JobStep DEF TypeOK
<1> QED
  BY <1>1 DEF OneResumePerThread, Active

LEMMA ClickStep ==
  ASSUME TypeOK, OneResumePerThread, NEW r \in Requests, NEW t \in Threads,
         NEW approved \in BOOLEAN, Click(r, t, approved)
  PROVE  TypeOK' /\ OneResumePerThread'
<1> DEFINE phase == IF t \in resuming THEN "over" ELSE "marked"
           j == [job[r] EXCEPT !.phase = phase, !.thread = t,
                               !.approved = approved]
<1>1. /\ job' = [job EXCEPT ![r] = j] /\ resuming' = resuming \cup {t}
      /\ UNCHANGED <<saved, restarts, acts, approvedBy, failed>>
  BY DEF Click, history
<1>2. job[r] \in Job /\ job[r].phase = "idle"
  BY DEF TypeOK, Click
<1>3. j \in Job /\ j.thread = t /\ j.phase = phase
  BY <1>2 DEF Job, Phases
<1> HIDE DEF j
<1>4. /\ job' \in [Requests -> Job] /\ job'[r] = j
      /\ \A q \in Requests \ {r} : job'[q] = job[q]
  BY <1>1, <1>3, JobStep DEF TypeOK
<1>5. TypeOK'
  BY <1>1, <1>4 DEF TypeOK
<1>6. OneResumePerThread'
  BY <1>1, <1>3, <1>4 DEF OneResumePerThread, Active, Working
<1> QED
  BY <1>5, <1>6

\* The background thread and the request that starts it.
LEMMA WorkStep ==
  ASSUME TypeOK, OneResumePerThread, NEW r \in Requests, Work(r)
  PROVE  TypeOK' /\ OneResumePerThread'
<1> DEFINE Moved(phase, done) == [job[r] EXCEPT !.phase = phase, !.done = done]
           Turned(phase) == [job[r] EXCEPT !.phase = phase]
<1>1. job[r] \in Job
  BY DEF TypeOK
<1>2. ASSUME NEW phase \in Phases, NEW done \in 0 .. LOGGED
      PROVE  /\ Moved(phase, done) \in Job
             /\ Moved(phase, done).thread = job[r].thread
             /\ Moved(phase, done).phase = phase
  BY <1>1, <1>2 DEF Job
<1>3. ASSUME NEW phase \in Phases
      PROVE  /\ Turned(phase) \in Job
             /\ Turned(phase).thread = job[r].thread
             /\ Turned(phase).phase = phase
  BY <1>1, <1>3 DEF Job
<1>4. ASSUME NEW phase \in Working \cup {"over"}, Active(r),
             UNCHANGED <<resuming, restarts>>,
             \/ job' = [job EXCEPT ![r] = Turned(phase)]
             \/ \E done \in 0 .. LOGGED : job' = [job EXCEPT ![r] = Moved(phase, done)],
             saved' = saved, acts' \in [Threads -> Nat],
             approvedBy' \in [Threads -> SUBSET Requests], failed' = failed
      PROVE  TypeOK' /\ OneResumePerThread'
  <2>1. PICK j \in Job : /\ job' = [job EXCEPT ![r] = j]
                         /\ j.thread = job[r].thread
    <3>1. phase \in Phases
      BY DEF Phases, Working
    <3> HIDE DEF Turned, Moved
    <3> QED
      BY <1>2, <1>3, <1>4, <3>1
  <2>2. OneResumePerThread'
    BY <1>4, <2>1, SameMarks
  <2>3. job' \in [Requests -> Job]
    BY <2>1, JobStep DEF TypeOK
  <2> QED
    BY <1>4, <2>2, <2>3 DEF TypeOK
<1>5. ASSUME Active(r), job' = [job EXCEPT ![r] = Turned("over")],
             resuming' = resuming \ {job[r].thread},
             UNCHANGED <<saved, restarts, acts, approvedBy>>,
             failed' \in [Threads -> BOOLEAN]
      PROVE  TypeOK' /\ OneResumePerThread'
  <2>1. /\ Turned("over") \in Job /\ Turned("over").phase = "over"
    BY <1>3 DEF Phases
  <2> HIDE DEF Turned
  <2>2. OneResumePerThread'
    BY <1>5, <2>1, Unmarks DEF Working
  <2>3. job' \in [Requests -> Job]
    BY <1>5, <2>1, JobStep DEF TypeOK
  <2> QED
    BY <1>5, <2>2, <2>3 DEF TypeOK
<1>6. CASE Lookup(r)
  <2>1. Active(r)
    BY <1>6 DEF Lookup, Active
  <2>2. CASE Interrupted(job[r].thread)
    <3>1. /\ job' = [job EXCEPT ![r] = Turned("opening")]
          /\ UNCHANGED <<resuming, saved, restarts, acts, approvedBy, failed>>
      BY <1>6, <2>2 DEF Lookup, history
    <3> QED
      BY <1>4, <2>1, <3>1 DEF Working, TypeOK
  <2>3. CASE ~Interrupted(job[r].thread)
    <3>1. /\ job' = [job EXCEPT ![r] = Turned("over")]
          /\ resuming' = resuming \ {job[r].thread}
          /\ UNCHANGED <<saved, restarts, acts, approvedBy, failed>>
      BY <1>6, <2>3 DEF Lookup, history
    <3> QED
      BY <1>5, <2>1, <3>1 DEF TypeOK
  <2> QED
    BY <2>2, <2>3
<1>7. CASE LookupRaises(r)
  <2>1. /\ Active(r) /\ job' = [job EXCEPT ![r] = Turned("over")]
        /\ UNCHANGED <<resuming, saved, restarts, acts, approvedBy, failed>>
    BY <1>7 DEF LookupRaises, Active, history
  <2> QED
    BY <1>4, <2>1 DEF TypeOK
<1>8. CASE Open(r)
  <2>1. Active(r) /\ UNCHANGED <<resuming, saved, restarts, acts, approvedBy, failed>>
    BY <1>8 DEF Open, Active, Working, history
  <2>2. CASE job' = [job EXCEPT ![r] = Moved("gate", 0)]
    BY <1>4, <2>1, <2>2 DEF Working, LOGGED, TypeOK
  <2>3. CASE job' = [job EXCEPT ![r] = Turned("raised")]
    BY <1>4, <2>1, <2>3 DEF Working, TypeOK
  <2> QED
    BY <1>8, <2>2, <2>3 DEF Open, Advance, Raise
<1>9. CASE Gate(r)
  <2>1. /\ Active(r) /\ job' = [job EXCEPT ![r] = Moved("action", GATED)]
        /\ UNCHANGED <<resuming, saved, restarts, acts, failed>>
    BY <1>9 DEF Gate, Advance, Active, Working
  <2>2. approvedBy' \in [Threads -> SUBSET Requests]
    BY <1>9 DEF Gate, TypeOK
  <2> QED
    BY <1>4, <2>1, <2>2 DEF Working, GATED, LOGGED, TypeOK
<1>10. CASE Act(r)
  <2>1. Active(r) /\ UNCHANGED <<resuming, saved, restarts, approvedBy, failed>>
    BY <1>10 DEF Act, Active, Working
  <2>2. acts' \in [Threads -> Nat]
    BY <1>10 DEF Act, TypeOK
  <2>3. CASE job' = [job EXCEPT ![r] = Moved("qa", ACTED)]
    BY <1>4, <2>1, <2>2, <2>3 DEF Working, ACTED, LOGGED, TypeOK
  <2>4. CASE job' = [job EXCEPT ![r] = Turned("raised")]
    BY <1>4, <2>1, <2>2, <2>4 DEF Working, TypeOK
  <2> QED
    BY <1>10, <2>3, <2>4 DEF Act, Advance, Raise
<1>11. CASE Verify(r)
  <2>1. Active(r) /\ UNCHANGED <<resuming, saved, restarts, acts, approvedBy, failed>>
    BY <1>11 DEF Verify, Active, Working, history
  <2>2. CASE job' = [job EXCEPT ![r] = Moved("returned", LOGGED)]
    BY <1>4, <2>1, <2>2 DEF Working, LOGGED, TypeOK
  <2>3. CASE job' = [job EXCEPT ![r] = Turned("raised")]
    BY <1>4, <2>1, <2>3 DEF Working, TypeOK
  <2> QED
    BY <1>11, <2>2, <2>3 DEF Verify, Advance, Raise
<1>12. CASE Save(r)
  <2>1. /\ UNCHANGED <<resuming, job, restarts, acts, approvedBy, failed>>
        /\ saved' = [saved EXCEPT ![job[r].thread] = @ + 1]
        /\ saved[job[r].thread] < job[r].done /\ Active(r)
    BY <1>12 DEF Save, history, Active
  <2>2. job[r].thread \in Threads /\ job[r].done \in 0 .. LOGGED
    BY <1>1, <2>1 DEF Job, OneResumePerThread, TypeOK
  <2>3. saved' \in [Threads -> 0 .. LOGGED]
    BY <2>1, <2>2 DEF TypeOK, LOGGED
  <2> QED
    BY <2>1, <2>3 DEF TypeOK, OneResumePerThread, Active
<1>13. CASE Finally(r)
  <2>1. /\ Active(r) /\ job' = [job EXCEPT ![r] = Turned("over")]
        /\ resuming' = resuming \ {job[r].thread}
        /\ UNCHANGED <<saved, restarts, acts, approvedBy>>
    BY <1>13 DEF Finally, Active, Working
  <2>2. failed' \in [Threads -> BOOLEAN]
    BY <1>13 DEF Finally, TypeOK
  <2> QED
    BY <1>5, <2>1, <2>2
<1> QED
  BY <1>6, <1>7, <1>8, <1>9, <1>10, <1>11, <1>12, <1>13 DEF Work

LEMMA RestartStep ==
  ASSUME TypeOK, OneResumePerThread, Restart
  PROVE  TypeOK' /\ OneResumePerThread'
<1>1. /\ restarts' \in 0 .. MaxRestarts /\ resuming' = {}
      /\ UNCHANGED <<saved, acts, approvedBy, failed>>
  BY ApprovalAssumption DEF Restart, TypeOK, history
<1>2. ASSUME NEW r \in Requests
      PROVE  job'[r] \in Job /\ job'[r].phase \notin Working \cup {"marked"}
  <2>1. CASE Active(r)
    <3>1. job'[r] = [job[r] EXCEPT !.phase = "lost"]
      BY <2>1 DEF Restart, Active
    <3> QED
      BY <3>1 DEF TypeOK, Job, Phases, Working
  <2>2. CASE ~Active(r)
    <3>1. job'[r] = job[r]
      BY <2>2 DEF Restart, Active
    <3> QED
      BY <2>2, <3>1 DEF TypeOK, Active
  <2> QED
    BY <2>1, <2>2
<1>3. job' \in [Requests -> Job]
  BY <1>2 DEF Restart
<1> QED
  BY <1>1, <1>2, <1>3 DEF TypeOK, OneResumePerThread, Active

(***************************************************************************)
(* Whatever is clicked, raised or restarted, no run is ever resumed by two *)
(* background threads, and a run in resumption is marked; the variables    *)
(* keep their types (mark_resuming, unmark_resuming).                      *)
(***************************************************************************)
THEOREM SingleResume == Spec => [](TypeOK /\ OneResumePerThread)
<1>1. Init => TypeOK /\ OneResumePerThread
  BY InitResume
<1>2. TypeOK /\ OneResumePerThread /\ [Next]_vars
        => (TypeOK /\ OneResumePerThread)'
  <2> SUFFICES ASSUME TypeOK, OneResumePerThread, [Next]_vars
               PROVE  TypeOK' /\ OneResumePerThread'
    OBVIOUS
  <2>1. CASE UNCHANGED vars
    BY <2>1 DEF vars, TypeOK, OneResumePerThread, Active
  <2> QED
    BY <2>1, ClickStep, WorkStep, RestartStep DEF Next
<1> QED
  BY <1>1, <1>2, PTL DEF Spec

-----------------------------------------------------------------------------
(***************************************************************************)
(* Executions.  What a request may still do depends on where it is, and a  *)
(* run that was executed can only be found waiting again if the request    *)
(* that executed it was lost in a restart.                                 *)
(***************************************************************************)
\* The execution of run t is being carried to the checkpoint by request r.
Carries(r, t) ==
  /\ job[r].thread = t /\ job[r].done >= GATED
  /\ job[r].phase \in {"qa", "returned", "raised"}

Early == {"idle", "marked", "opening", "gate"}

Fits(r) ==
  LET j == job[r]
      t == j.thread
  IN
  /\ j.phase \in Early => j.done = 0 /\ \A u \in Threads : r \notin approvedBy[u]
  /\ j.phase \in {"opening", "gate"} \/ (j.phase = "raised" /\ j.done = 0) =>
       saved[t] = 0 /\ acts[t] <= restarts
  /\ j.phase = "action" =>
       /\ j.done = GATED /\ acts[t] <= restarts
       /\ j.approved => acts[t] < Cardinality(approvedBy[t])
  /\ j.phase = "qa" => j.done = ACTED
  /\ j.phase = "returned" => j.done = LOGGED

Counted(t) ==
  /\ IsFiniteSet(approvedBy[t])
  /\ acts[t] <= Cardinality(approvedBy[t])
  /\ acts[t] <= 1 + restarts
  /\ acts[t] <= restarts \/ saved[t] > 0 \/ \E r \in Requests : Carries(r, t)

CountInv ==
  /\ TypeOK /\ OneResumePerThread
  /\ \A r \in Requests : Fits(r)
  /\ \A t \in Threads : Counted(t)

LEMMA InitCount == Init => CountInv
<1> SUFFICES ASSUME Init PROVE CountInv
  OBVIOUS
<1>1. \A r \in Requests : Fits(r)
  BY DEF Init, Fits, Early
<1>2. \A t \in Threads : Counted(t)
  BY FS_EmptySet DEF Init, Counted
<1> QED
  BY <1>1, <1>2, InitResume DEF CountInv

\* An active request works on its own run only: what fits for it and is counted
\* for its run is all that has to be shown.
LEMMA OwnRun ==
  ASSUME CountInv, NEW r \in Requests, Active(r), NEW j \in Job,
         job' = [job EXCEPT ![r] = j], j.thread = job[r].thread,
         restarts' = restarts,
         \A u \in Threads \ {job[r].thread} :
           saved'[u] = saved[u] /\ acts'[u] = acts[u] /\ approvedBy'[u] = approvedBy[u],
         approvedBy'[job[r].thread] \subseteq approvedBy[job[r].thread] \cup {r},
         Fits(r)', Counted(job[r].thread)'
  PROVE  (\A q \in Requests : Fits(q))' /\ (\A t \in Threads : Counted(t))'
<1> DEFINE t == job[r].thread
<1>1. /\ t \in Threads /\ job'[r] = j
      /\ \A q \in Requests \ {r} : job'[q] = job[q]
  BY DEF CountInv, TypeOK, OneResumePerThread
<1>2. ASSUME NEW q \in Requests \ {r}
      PROVE  Fits(q)'
  <2>1. job'[q] = job[q] /\ Fits(q)
    BY <1>1 DEF CountInv
  <2>2. job[q].phase \in Early => \A u \in Threads : q \notin approvedBy'[u]
    BY <1>1, <2>1 DEF Fits
  <2>3. CASE Active(q)
    <3>1. job[q].thread \in Threads \ {t}
      BY <2>3 DEF CountInv, TypeOK, OneResumePerThread
    <3> QED
      BY <2>1, <2>2, <3>1 DEF Fits
  <2>4. CASE ~Active(q)
    BY <2>1, <2>2, <2>4 DEF Fits, Active, Working
  <2> QED
    BY <2>3, <2>4
<1>3. ASSUME NEW u \in Threads \ {t}
      PROVE  Counted(u)'
  <2>1. Counted(u) /\ saved'[u] = saved[u] /\ acts'[u] = acts[u] /\ approvedBy'[u] = approvedBy[u]
    BY DEF CountInv
  <2>2. \A q \in Requests : Carries(q, u) => Carries(q, u)'
    BY <1>1 DEF Carries
  <2> QED
    BY <2>1, <2>2 DEF Counted
<1> QED
  BY <1>2, <1>3

\* A request on a run carries the execution of it, or no request does.
LEMMA Carrier ==
  ASSUME CountInv, NEW r \in Requests, Active(r), ~Carries(r, job[r].thread)
  PROVE  acts[job[r].thread] <= restarts \/ saved[job[r].thread] > 0
<1>1. job[r].thread \in Threads
  BY DEF CountInv, TypeOK, OneResumePerThread
<1>2. ASSUME NEW q \in Requests, Carries(q, job[r].thread)
      PROVE  FALSE
  <2>1. Active(q) /\ job[q].thread = job[r].thread
    BY <1>2 DEF Carries, Active, Working
  <2> QED
    BY <1>2, <2>1 DEF CountInv, OneResumePerThread
<1> QED
  BY <1>1, <1>2 DEF CountInv, Counted

LEMMA WorkCount ==
  ASSUME CountInv, NEW r \in Requests, Work(r)
  PROVE  CountInv'
<1> DEFINE t == job[r].thread
           Same == restarts' = restarts /\ saved' = saved /\ acts' = acts
                   /\ approvedBy' = approvedBy
           Moved(phase, done) == [job[r] EXCEPT !.phase = phase, !.done = done]
           Turned(phase) == [job[r] EXCEPT !.phase = phase]
<1>1. Active(r)
  BY DEF Work, Lookup, LookupRaises, Open, Gate, Act, Verify, Save, Finally, Active, Working
<1>2. /\ job[r] \in Job /\ t \in Threads /\ job \in [Requests -> Job]
      /\ restarts \in Nat /\ saved[t] \in 0 .. LOGGED /\ acts[t] \in Nat
      /\ Fits(r) /\ Counted(t)
  BY <1>1, ApprovalAssumption DEF CountInv, TypeOK, OneResumePerThread
<1>3. TypeOK' /\ OneResumePerThread'
  BY WorkStep DEF CountInv
<1>4. SUFFICES ASSUME TRUE
               PROVE  (\A q \in Requests : Fits(q))' /\ (\A u \in Threads : Counted(u))'
  BY <1>3 DEF CountInv
<1>5. ASSUME NEW phase \in Phases, NEW done \in 0 .. LOGGED
      PROVE  /\ Moved(phase, done) \in Job /\ Moved(phase, done).phase = phase
             /\ Moved(phase, done).thread = t /\ Moved(phase, done).done = done
             /\ Moved(phase, done).approved = job[r].approved
  BY <1>2, <1>5 DEF Job
<1>6. ASSUME NEW phase \in Phases
      PROVE  /\ Turned(phase) \in Job /\ Turned(phase).phase = phase
             /\ Turned(phase).thread = t /\ Turned(phase).done = job[r].done
             /\ Turned(phase).approved = job[r].approved
  BY <1>2, <1>6 DEF Job
<1> HIDE DEF Moved, Turned
\* A step that leaves everything but the request's own job alone.
<1>7. ASSUME NEW j \in Job, job' = [job EXCEPT ![r] = j], j.thread = t, Same,
             j.phase \in Phases \ {"action"},
             j.phase \in Early \cup {"over"},
             j.phase \in Early => job[r].phase \in Early /\ j.done = 0,
             j.phase \in {"opening", "gate"} => saved[t] = 0 /\ acts[t] <= restarts,
             acts[t] <= restarts \/ saved[t] > 0
      PROVE  (\A q \in Requests : Fits(q))' /\ (\A u \in Threads : Counted(u))'
  <2>1. job'[r] = j
    BY <1>2, <1>7
  <2>2. Fits(r)'
    BY <1>2, <1>7, <2>1 DEF Fits, Early
  <2>3. Counted(t)'
    BY <1>2, <1>7 DEF Counted
  <2> QED
    BY <1>1, <1>7, <2>2, <2>3, OwnRun
\* A step to the check, to the return or to an exception that changes no record.
<1>8. ASSUME NEW j \in Job, job' = [job EXCEPT ![r] = j], j.thread = t, Same,
             j.phase \in {"qa", "returned", "raised"},
             j.phase = "qa" => j.done = ACTED, j.phase = "returned" => j.done = LOGGED,
             \/ j.done >= GATED
             \/ j.done = 0 /\ saved[t] = 0 /\ acts[t] <= restarts
      PROVE  (\A q \in Requests : Fits(q))' /\ (\A u \in Threads : Counted(u))'
  <2>1. job'[r] = j
    BY <1>2, <1>8
  <2>2. Fits(r)'
    BY <1>2, <1>8, <2>1 DEF Fits, Early, GATED, ACTED, LOGGED
  <2>3. j.done >= GATED => Carries(r, t)'
    BY <1>8, <2>1 DEF Carries
  <2>4. Counted(t)'
    BY <1>2, <1>8, <2>3 DEF Counted
  <2> QED
    BY <1>1, <1>8, <2>2, <2>4, OwnRun
<1>9. CASE Lookup(r)
  <2>1. job[r].phase = "marked" /\ Same /\ job[r].done = 0 /\ ~Carries(r, t)
    BY <1>2, <1>9 DEF Lookup, history, Fits, Early, Carries
  <2>2. acts[t] <= restarts \/ saved[t] > 0
    BY <1>1, <2>1, Carrier
  <2>3. CASE Interrupted(t)
    <3>1. job' = [job EXCEPT ![r] = Turned("opening")]
      BY <1>9, <2>3 DEF Lookup, Turned
    <3>2. saved[t] = 0 /\ acts[t] <= restarts
      BY <1>2, <2>2, <2>3 DEF Interrupted
    <3> QED
      BY <1>6, <1>7, <2>1, <3>1, <3>2 DEF Phases, Early
  <2>4. CASE ~Interrupted(t)
    <3>1. job' = [job EXCEPT ![r] = Turned("over")]
      BY <1>9, <2>4 DEF Lookup, Turned
    <3> QED
      BY <1>6, <1>7, <2>1, <2>2, <3>1 DEF Phases, Early
  <2> QED
    BY <2>3, <2>4
<1>10. CASE LookupRaises(r)
  <2>1. /\ job[r].phase = "marked" /\ Same /\ ~Carries(r, t)
        /\ job' = [job EXCEPT ![r] = Turned("over")]
    BY <1>10 DEF LookupRaises, history, Carries, Turned
  <2>2. acts[t] <= restarts \/ saved[t] > 0
    BY <1>1, <2>1, Carrier
  <2> QED
    BY <1>6, <1>7, <2>1, <2>2 DEF Phases, Early
<1>11. CASE Open(r)
  <2>1. job[r].phase = "opening" /\ Same
    BY <1>11 DEF Open, history
  <2>2. job[r].done = 0 /\ saved[t] = 0 /\ acts[t] <= restarts
    BY <1>2, <2>1 DEF Fits, Early
  <2>3. CASE job' = [job EXCEPT ![r] = Moved("gate", 0)]
    <3>1. /\ Moved("gate", 0) \in Job /\ Moved("gate", 0).phase = "gate"
          /\ Moved("gate", 0).thread = t /\ Moved("gate", 0).done = 0
      BY <1>5 DEF Phases, LOGGED
    <3> QED
      BY <1>7, <2>1, <2>2, <2>3, <3>1 DEF Phases, Early
  <2>4. CASE job' = [job EXCEPT ![r] = Turned("raised")]
    BY <1>6, <1>8, <2>1, <2>2, <2>4 DEF Phases
  <2> QED
    BY <1>11, <2>3, <2>4 DEF Open, Advance, Raise, Moved, Turned
<1>12. CASE Gate(r)
  <2> DEFINE j == Moved("action", GATED)
  <2>1. /\ job[r].phase = "gate" /\ job' = [job EXCEPT ![r] = j]
        /\ restarts' = restarts /\ saved' = saved /\ acts' = acts
        /\ approvedBy' = [approvedBy EXCEPT
                            ![t] = IF job[r].approved THEN @ \cup {r} ELSE @]
    BY <1>12 DEF Gate, Advance, Moved
  <2>2. /\ j \in Job /\ j.phase = "action" /\ j.thread = t /\ j.done = GATED
        /\ j.approved = job[r].approved
    BY <1>5 DEF Phases, GATED, LOGGED
  <2> HIDE DEF j
  <2>3. job'[r] = j
    BY <1>2, <2>1
  <2>4. /\ acts[t] <= restarts /\ r \notin approvedBy[t] /\ IsFiniteSet(approvedBy[t])
        /\ acts[t] <= Cardinality(approvedBy[t]) /\ Cardinality(approvedBy[t]) \in Nat
    BY <1>2, <2>1, FS_CardinalityType DEF Fits, Early, Counted
  <2>5. /\ approvedBy'[t] = IF job[r].approved THEN approvedBy[t] \cup {r} ELSE approvedBy[t]
        /\ \A u \in Threads \ {t} : approvedBy'[u] = approvedBy[u]
    BY <1>2, <2>1 DEF CountInv, TypeOK
  <2>6. /\ IsFiniteSet(approvedBy[t] \cup {r})
        /\ Cardinality(approvedBy[t] \cup {r}) = Cardinality(approvedBy[t]) + 1
    BY <2>4, FS_AddElement
  <2>7. Counted(t)'
    BY <1>2, <2>1, <2>2, <2>3, <2>4, <2>5, <2>6 DEF Counted
  <2>8. Fits(r)'
    BY <1>2, <2>1, <2>2, <2>3, <2>4, <2>5, <2>6 DEF Fits, Early
  <2> QED
    BY <1>1, <2>1, <2>2, <2>5, <2>7, <2>8, OwnRun
<1>13. CASE Act(r)
  <2>1. /\ job[r].phase = "action"
        /\ restarts' = restarts /\ saved' = saved /\ approvedBy' = approvedBy
        /\ job[r].done = GATED /\ acts[t] <= restarts
        /\ job[r].approved => acts[t] < Cardinality(approvedBy[t])
    BY <1>2, <1>13 DEF Act, Fits
  <2>2. PICK j \in Job :
          /\ job' = [job EXCEPT ![r] = j] /\ j.thread = t /\ j.done >= GATED
          /\ j.phase \in {"qa", "raised"} /\ (j.phase = "qa" => j.done = ACTED)
    <3>1. CASE job' = [job EXCEPT ![r] = Moved("qa", ACTED)]
      <4>1. /\ Moved("qa", ACTED) \in Job /\ Moved("qa", ACTED).phase = "qa"
            /\ Moved("qa", ACTED).thread = t /\ Moved("qa", ACTED).done = ACTED
        BY <1>5 DEF Phases, ACTED, LOGGED
      <4>2. ACTED >= GATED
        BY DEF ACTED, GATED
      <4> QED
        BY <3>1, <4>1, <4>2
    <3>2. CASE job' = [job EXCEPT ![r] = Turned("raised")]
      <4>1. /\ Turned("raised") \in Job /\ Turned("raised").phase = "raised"
            /\ Turned("raised").thread = t /\ Turned("raised").done = GATED
        BY <1>6, <2>1 DEF Phases
      <4>2. GATED >= GATED
        BY DEF GATED
      <4> QED
        BY <3>2, <4>1, <4>2
    <3> QED
      BY <1>13, <3>1, <3>2 DEF Act, Advance, Raise, Moved, Turned
  <2>3. CASE acts' = acts
    BY <1>8, <2>1, <2>2, <2>3
  <2>4. CASE job[r].approved /\ acts' = [acts EXCEPT ![t] = @ + 1]
    <3>1. job'[r] = j
      BY <1>2, <2>2
    <3>2. acts'[t] = acts[t] + 1 /\ \A u \in Threads \ {t} : acts'[u] = acts[u]
      BY <1>2, <2>4 DEF CountInv, TypeOK
    <3>3. Fits(r)'
      BY <2>2, <3>1 DEF Fits, Early, GATED
    <3>4. Carries(r, t)'
      BY <2>2, <3>1 DEF Carries
    <3>5. IsFiniteSet(approvedBy[t]) /\ Cardinality(approvedBy[t]) \in Nat
      BY <1>2, FS_CardinalityType DEF Counted
    <3>6. Counted(t)'
      BY <1>2, <2>1, <2>2, <2>4, <3>1, <3>2, <3>4, <3>5 DEF Counted
    <3> QED
      BY <1>1, <2>1, <2>2, <3>2, <3>3, <3>6, OwnRun
  <2> QED
    BY <1>13, <2>3, <2>4 DEF Act
<1>14. CASE Verify(r)
  <2>1. job[r].phase = "qa" /\ Same /\ job[r].done = ACTED
    BY <1>2, <1>14 DEF Verify, history, Fits
  <2>2. CASE job' = [job EXCEPT ![r] = Moved("returned", LOGGED)]
    <3>1. /\ Moved("returned", LOGGED) \in Job /\ Moved("returned", LOGGED).phase = "returned"
          /\ Moved("returned", LOGGED).thread = t /\ Moved("returned", LOGGED).done = LOGGED
      BY <1>5 DEF Phases, LOGGED
    <3>2. LOGGED >= GATED
      BY DEF LOGGED, GATED
    <3> QED
      BY <1>8, <2>1, <2>2, <3>1, <3>2
  <2>3. CASE job' = [job EXCEPT ![r] = Turned("raised")]
    <3>1. /\ Turned("raised") \in Job /\ Turned("raised").phase = "raised"
          /\ Turned("raised").thread = t /\ Turned("raised").done = ACTED
      BY <1>6, <2>1 DEF Phases
    <3>2. ACTED >= GATED
      BY DEF ACTED, GATED
    <3> QED
      BY <1>8, <2>1, <2>3, <3>1, <3>2
  <2> QED
    BY <1>14, <2>2, <2>3 DEF Verify, Advance, Raise, Moved, Turned
<1>15. CASE Save(r)
  <2>1. /\ job' = job /\ restarts' = restarts /\ acts' = acts /\ approvedBy' = approvedBy
        /\ saved' = [saved EXCEPT ![t] = @ + 1] /\ saved[t] < job[r].done
        /\ job[r].phase \in Working
    BY <1>15 DEF Save, history
  <2>2. /\ saved'[t] = saved[t] + 1
        /\ \A u \in Threads \ {t} : saved'[u] = saved[u]
    BY <1>2, <2>1 DEF CountInv, TypeOK
  <2>3. job[r].done \in Nat /\ job[r].done > 0
    BY <1>2, <2>1 DEF Job, LOGGED
  <2>4. Fits(r)'
    BY <1>2, <2>1, <2>3 DEF Fits, Early
  <2>5. Counted(t)'
    BY <1>2, <2>1, <2>2 DEF Counted
  <2>6. job' = [job EXCEPT ![r] = job[r]]
    BY <1>2, <2>1
  <2> QED
    BY <1>1, <1>2, <2>1, <2>2, <2>4, <2>5, <2>6, OwnRun
<1>16. CASE Finally(r)
  <2>1. /\ job[r].phase \in {"returned", "raised"} /\ Same /\ saved[t] >= job[r].done
        /\ job' = [job EXCEPT ![r] = Turned("over")]
    BY <1>16 DEF Finally, Turned
  <2>2. acts[t] <= restarts \/ saved[t] > 0
    <3>1. CASE Carries(r, t)
      BY <1>2, <2>1, <3>1 DEF Carries, Job, GATED, LOGGED
    <3>2. CASE ~Carries(r, t)
      BY <1>1, <3>2, Carrier
    <3> QED
      BY <3>1, <3>2
  <2> QED
    BY <1>6, <1>7, <2>1, <2>2 DEF Phases, Early
<1> QED
  BY <1>9, <1>10, <1>11, <1>12, <1>13, <1>14, <1>15, <1>16 DEF Work

LEMMA ClickCount ==
  ASSUME CountInv, NEW r \in Requests, NEW t \in Threads, NEW approved \in BOOLEAN,
         Click(r, t, approved)
  PROVE  CountInv'
<1>1. TypeOK' /\ OneResumePerThread'
  BY ClickStep DEF CountInv
<1>2. /\ restarts' = restarts /\ saved' = saved /\ acts' = acts /\ approvedBy' = approvedBy
      /\ job[r].phase = "idle" /\ job[r] \in Job /\ job \in [Requests -> Job]
  BY DEF Click, history, CountInv, TypeOK
<1>3. /\ job'[r].phase \in {"over", "marked"} /\ job'[r].done = job[r].done
      /\ \A q \in Requests \ {r} : job'[q] = job[q]
  BY <1>2 DEF Click, Job
<1>4. ASSUME NEW q \in Requests
      PROVE  Fits(q)'
  <2>1. Fits(q)
    BY DEF CountInv
  <2>2. CASE q = r
    BY <1>2, <1>3, <2>1, <2>2 DEF Fits, Early
  <2>3. CASE q # r
    BY <1>2, <1>3, <2>1, <2>3 DEF Fits
  <2> QED
    BY <2>2, <2>3
<1>5. ASSUME NEW u \in Threads
      PROVE  Counted(u)'
  <2>1. \A q \in Requests : Carries(q, u) => q # r /\ Carries(q, u)'
    BY <1>2, <1>3 DEF Carries
  <2> QED
    BY <1>2, <2>1 DEF CountInv, Counted
<1> QED
  BY <1>1, <1>4, <1>5 DEF CountInv

LEMMA RestartCount ==
  ASSUME CountInv, Restart
  PROVE  CountInv'
<1>1. TypeOK' /\ OneResumePerThread'
  BY RestartStep DEF CountInv
<1>2. /\ restarts' = restarts + 1 /\ saved' = saved /\ acts' = acts
      /\ approvedBy' = approvedBy /\ restarts \in Nat
  BY ApprovalAssumption DEF Restart, history, CountInv, TypeOK
<1>3. ASSUME NEW q \in Requests
      PROVE  Fits(q)'
  <2>1. Fits(q) /\ job[q] \in Job
    BY DEF CountInv, TypeOK
  <2>2. CASE Active(q)
    <3>1. job'[q].phase = "lost"
      BY <2>1, <2>2 DEF Restart, Active, Job
    <3> QED
      BY <3>1 DEF Fits, Early
  <2>3. CASE ~Active(q)
    <3>1. job'[q] = job[q]
      BY <2>3 DEF Restart, Active
    <3> QED
      BY <1>2, <2>1, <2>3, <3>1 DEF Fits, Active, Working
  <2> QED
    BY <2>2, <2>3
<1>4. ASSUME NEW u \in Threads
      PROVE  Counted(u)'
  <2>1. acts[u] \in Nat /\ Counted(u)
    BY DEF CountInv, TypeOK
  <2> QED
    BY <1>2, <2>1 DEF Counted
<1> QED
  BY <1>1, <1>3, <1>4 DEF CountInv

(***************************************************************************)
(* For any number of runs, clicks and restarts: a run is executed at most  *)
(* once more than the API was restarted, and never more often than answers *)
(* "approve" have reached its gate (_run_resume_in_background, action_node).*)
(***************************************************************************)
THEOREM OneExecution == Spec => []ActsOncePerApproval
<1>1. CountInv /\ [Next]_vars => CountInv'
  <2> SUFFICES ASSUME CountInv, [Next]_vars
               PROVE  CountInv'
    OBVIOUS
  <2>1. CASE UNCHANGED vars
    BY <2>1 DEF vars, CountInv, TypeOK, OneResumePerThread, Active, Fits, Counted, Carries
  <2> QED
    BY <2>1, ClickCount, WorkCount, RestartCount DEF Next
<1>2. CountInv => ActsOncePerApproval
  BY DEF CountInv, Counted, ActsOncePerApproval
<1> QED
  BY <1>1, <1>2, InitCount, PTL DEF Spec
=============================================================================
