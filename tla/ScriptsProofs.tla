--------------------------- MODULE ScriptsProofs ----------------------------
(***************************************************************************)
(* The throttle trials and the demo scenarios, for any number of scripts,  *)
(* console runs, terminals and instances: a limit on a function is on      *)
(* record until it is put back, and a demo keeps what it works on.         *)
(***************************************************************************)
EXTENDS ThrottleTrial, LiveDemo, TLAPS

-----------------------------------------------------------------------------
(***************************************************************************)
(* The throttle trials                                                     *)
(***************************************************************************)
\* The provisos: nobody limits a function but the scripts and the pipeline they
\* run, AWS deletes what it is told to, and no script starts over leftovers.
Undisturbed == ~FalsePositive /\ ~DeleteRefused /\ ~Careless

Steps == {"none", "look", "save", "dump", "limit", "measure", "load", "put back", "unlink",
          "done", "raised"}
Closing == {"finally", "restoring"}

ThrottleTypes ==
  /\ DOMAIN concurrency = Fns
  /\ file \in [Scripts -> [Fns -> {NoFile, Torn, None}]]
  /\ main \in [Scripts -> {"idle", "running", "finally", "restoring", "ended", "failed", "killed"}]
  /\ todo \in [Scripts -> SUBSET Fns] /\ \A s \in Scripts : todo[s] \subseteq Limited(s)
  /\ trial \in [Scripts -> [Fns -> [at : Steps, snap : {None}]]]

\* A thread that is about to save or to limit has found no limit, one that limits has
\* saved, one that forgets the snapshot has put back.  What main closes is still to be
\* done, under way, has raised, or is as it was found.
ThreadInv(s, f) ==
  LET a == trial[s][f].at IN
  /\ a # "none" => s \in Active
  /\ a \in {"look", "save", "dump", "limit", "load", "put back", "unlink"} => f \in Limited(s)
  /\ a \in {"look", "save", "dump", "limit", "unlink"} => concurrency[f] = None
  /\ a \in {"limit", "measure"} /\ f \in Limited(s) => file[s][f] = None
  /\ main[s] \in Closing =>
       /\ a \in {"none", "load", "put back", "unlink", "done", "raised"}
       /\ f \in Limited(s) => \/ f \in todo[s]
                              \/ a \in {"load", "put back", "unlink", "raised"}
                              \/ concurrency[f] = None /\ file[s][f] = NoFile

\* The script that works is the only one, and found no snapshot of another.
OnlyScript ==
  \A s \in Active :
    /\ \A t \in Active : t = s
    /\ main[s] # "restoring" =>
         \A t \in Scripts \ {s} : \A f \in Limited(s) : file[t][f] = NoFile

ThrottleInv ==
  /\ ThrottleTypes /\ OnlyScript
  /\ \A s \in Scripts, f \in Fns : ThreadInv(s, f)
  /\ LimitIsOnRecord

LEMMA LimitedAreFns == \A s \in Scripts : Limited(s) \subseteq Targets(s) /\ Targets(s) \subseteq Fns
BY DEF Limited, Fns

\* A thread that has not begun, of a script that closes nothing, has nothing to keep.
LEMMA IdleThread ==
  ASSUME NEW s, NEW f, trial[s][f].at = "none", main[s] \notin Closing
  PROVE  ThreadInv(s, f)
BY DEF ThreadInv, Closing

LEMMA InitThrottle == Init => ThrottleInv
<1> SUFFICES ASSUME Init PROVE ThrottleInv
  OBVIOUS
<1>1. \A s \in Scripts, f \in Fns : trial[s][f] = [at |-> "none", snap |-> None]
  BY DEF Init, Idle, At
<1>2. ThrottleTypes
  BY DEF Init, ThrottleTypes, Idle, At, Steps
<1>3. Active = {} /\ \A s \in Scripts : main[s] \notin Closing
  BY DEF Init, Active, Closing
<1>4. ASSUME NEW s \in Scripts, NEW f \in Fns PROVE ThreadInv(s, f)
  <2>1. trial[s][f].at = "none" /\ main[s] \notin Closing
    BY <1>1, <1>3
  <2> QED
    BY <2>1, IdleThread
<1>5. LimitIsOnRecord
  BY DEF Init, LimitIsOnRecord
<1> QED
  BY <1>2, <1>3, <1>4, <1>5 DEF ThrottleInv, OnlyScript

\* A step of one thread: what it has to show.
LEMMA ThreadStep ==
  ASSUME ThrottleInv, NEW s \in Scripts, NEW f \in Fns, NEW where \in Steps, s \in Active,
         Goes(s, f, where, None), UNCHANGED <<main, todo>>,
         DOMAIN concurrency' = Fns, \A g \in Fns \ {f} : concurrency'[g] = concurrency[g],
         file' \in [Scripts -> [Fns -> {NoFile, Torn, None}]],
         \A t \in Scripts, g \in Fns : <<t, g>> # <<s, f>> => file'[t][g] = file[t][g],
         where \in {"look", "save", "dump", "limit", "load", "put back", "unlink"} => f \in Limited(s),
         where \in {"look", "save", "dump", "limit", "unlink"} => concurrency'[f] = None,
         where \in {"limit", "measure"} /\ f \in Limited(s) => file'[s][f] = None,
         main[s] \in Closing =>
           /\ where \in {"none", "load", "put back", "unlink", "done", "raised"}
           /\ f \in Limited(s) => \/ f \in todo[s]
                                  \/ where \in {"load", "put back", "unlink", "raised"}
                                  \/ concurrency'[f] = None /\ file'[s][f] = NoFile,
         concurrency'[f] # None => \E t \in Scripts : f \in Limited(t) /\ file'[t][f] = None
  PROVE  ThrottleInv'
<1>1. /\ ThrottleTypes /\ \A t \in Active : t = s
      /\ trial' \in [Scripts -> [Fns -> [at : Steps, snap : {None}]]]
      /\ trial'[s][f].at = where
      /\ \A t \in Scripts, g \in Fns : <<t, g>> # <<s, f>> => trial'[t][g] = trial[t][g]
  BY DEF ThrottleInv, OnlyScript, ThrottleTypes, Goes, At
<1>2. ThrottleTypes'
  BY <1>1 DEF ThrottleTypes, Limited, Targets
<1>3. Active' = Active /\ Limited(s)' = Limited(s)
  BY DEF Active, Limited, Targets
<1>4. OnlyScript'
  <2>1. \A t \in Scripts \ {s} : \A g \in Limited(s) : file'[t][g] = file[t][g]
    BY LimitedAreFns
  <2>2. main' = main /\ OnlyScript
    BY DEF ThrottleInv
  <2>3. main[s] # "restoring" => \A t \in Scripts \ {s} : \A g \in Limited(s) : file[t][g] = NoFile
    BY <2>2 DEF OnlyScript
  <2> SUFFICES ASSUME NEW u \in Active'
               PROVE  /\ \A t \in Active' : t = u
                      /\ main'[u] # "restoring" =>
                           \A t \in Scripts \ {u} : \A g \in Limited(u)' : file'[t][g] = NoFile
    BY DEF OnlyScript, Limited, Targets, Level
  <2>4. u = s
    BY <1>1, <1>3
  <2>5. Limited(u)' = Limited(s)
    BY <2>4, <1>3
  <2>6. \A t \in Active' : t = u
    BY <1>1, <1>3, <2>4
  <2>7. ASSUME main'[u] # "restoring", NEW t \in Scripts \ {u}, NEW g \in Limited(u)'
        PROVE  file'[t][g] = NoFile
    <3>1. main[s] # "restoring" /\ t \in Scripts \ {s} /\ g \in Limited(s)
      BY <2>2, <2>4, <2>5, <2>7
    <3>2. file'[t][g] = file[t][g] /\ file[t][g] = NoFile
      BY <2>1, <2>3, <3>1, Zenon
    <3> QED
      BY <3>2, Zenon
  <2> QED
    BY <2>6, <2>7
<1>5. ASSUME NEW t \in Scripts, NEW g \in Fns PROVE ThreadInv(t, g)'
  <2>1. ThreadInv(t, g)
    BY DEF ThrottleInv
  <2>2. CASE t = s /\ g = f
    BY <1>1, <1>3, <2>2 DEF ThreadInv, Active
  <2>3. CASE t = s /\ g # f
    BY <1>1, <1>3, <2>1, <2>3 DEF ThreadInv, Active
  <2>4. CASE t # s
    <3>1. trial[t][g].at = "none" /\ t \notin Active
      BY <1>1, <2>1, <2>4 DEF ThreadInv
    <3>2. main[t] \notin Closing
      BY <3>1 DEF Active, Closing
    <3> QED
      BY <1>1, <2>4, <3>1, <3>2 DEF ThreadInv
  <2> QED
    BY <2>2, <2>3, <2>4
<1>6. LimitIsOnRecord'
  <2> SUFFICES ASSUME NEW g \in Fns, concurrency'[g] # None
               PROVE  \E t \in Scripts : g \in Limited(t) /\ file'[t][g] = None
    BY DEF LimitIsOnRecord
  <2>1. CASE g = f
    BY <2>1
  <2>2. CASE g # f
    BY <2>2 DEF ThrottleInv, LimitIsOnRecord
  <2> QED
    BY <2>1, <2>2
<1> QED
  BY <1>2, <1>4, <1>5, <1>6 DEF ThrottleInv

\* A step of main that leaves the functions and the snapshots alone.
LEMMA MainStep ==
  ASSUME ThrottleInv, NEW s \in Scripts, UNCHANGED <<concurrency, file>>, ThrottleTypes',
         \A t \in Scripts \ {s} : main'[t] = main[t] /\ trial'[t] = trial[t] /\ todo'[t] = todo[t],
         OnlyScript', \A f \in Fns : ThreadInv(s, f)'
  PROVE  ThrottleInv'
<1>1. ASSUME NEW t \in Scripts, NEW f \in Fns PROVE ThreadInv(t, f)'
  <2>1. CASE t = s
    BY <2>1
  <2>2. CASE t # s
    <3>1. main'[t] = main[t] /\ trial'[t] = trial[t] /\ todo'[t] = todo[t] /\ ThreadInv(t, f)
      BY <2>2 DEF ThrottleInv
    <3>2. t \in Active' <=> t \in Active
      BY <3>1 DEF Active
    <3> QED
      BY <3>1, <3>2 DEF ThreadInv
  <2> QED
    BY <2>1, <2>2
<1>2. LimitIsOnRecord'
  BY DEF ThrottleInv, LimitIsOnRecord
<1> QED
  BY <1>1, <1>2 DEF ThrottleInv

\* A script that leaves lets go of everything.
LEMMA LeavesKeeps ==
  ASSUME ThrottleInv, NEW s \in Scripts, NEW where \in {"ended", "failed", "killed"},
         Leaves(s, where)
  PROVE  ThrottleInv'
<1>1. /\ main' \in [Scripts -> {"idle", "running", "finally", "restoring", "ended", "failed", "killed"}]
      /\ main'[s] = where /\ todo'[s] = {} /\ \A f \in Fns : trial'[s][f] = Idle
      /\ \A t \in Scripts \ {s} : main'[t] = main[t] /\ trial'[t] = trial[t] /\ todo'[t] = todo[t]
      /\ UNCHANGED <<concurrency, file>>
      /\ todo' \in [Scripts -> SUBSET Fns]
      /\ trial' \in [Scripts -> [Fns -> [at : Steps, snap : {None}]]]
  BY DEF Leaves, ThrottleInv, ThrottleTypes, Idle, At, Steps
<1>2. ThrottleTypes'
  BY <1>1 DEF ThrottleInv, ThrottleTypes
<1>3. \A t \in Scripts : t \in Active' <=> t \in Active /\ t # s
  BY <1>1 DEF Active
<1>4. OnlyScript'
  BY <1>1, <1>3 DEF ThrottleInv, OnlyScript, Active
<1>5. \A f \in Fns : ThreadInv(s, f)'
  <2> SUFFICES ASSUME NEW f \in Fns PROVE ThreadInv(s, f)'
    OBVIOUS
  <2>1. trial'[s][f].at = "none" /\ main'[s] \notin Closing
    BY <1>1 DEF Idle, At, Closing
  <2> QED
    BY <2>1 DEF ThreadInv, Closing
<1> QED
  BY <1>1, <1>2, <1>4, <1>5, MainStep

LEMMA LaunchKeeps ==
  ASSUME ThrottleInv, Undisturbed, NEW s \in Scripts, Launch(s)
  PROVE  ThrottleInv'
<1>1. /\ Active = {} /\ UNCHANGED <<concurrency, file, todo>>
      /\ \A t \in Scripts : \A f \in Targets(s) : file[t][f] = NoFile
  BY DEF Launch, Undisturbed
<1>2. /\ main' \in [Scripts -> {"idle", "running", "finally", "restoring", "ended", "failed", "killed"}]
      /\ main'[s] = "running"
      /\ \A t \in Scripts \ {s} : main'[t] = main[t] /\ trial'[t] = trial[t] /\ todo'[t] = todo[t]
  BY DEF Launch, ThrottleInv, ThrottleTypes
<1>3. \A f \in Fns : trial'[s][f] = IF f \in Limited(s) THEN At("look", None)
                                    ELSE IF f \in Targets(s) THEN At("measure", None) ELSE Idle
  BY DEF Launch, ThrottleInv, ThrottleTypes
<1>4. trial' \in [Scripts -> [Fns -> [at : Steps, snap : {None}]]]
  <2>1. /\ At("look", None) \in [at : Steps, snap : {None}]
        /\ At("measure", None) \in [at : Steps, snap : {None}]
        /\ Idle \in [at : Steps, snap : {None}]
    BY DEF At, Idle, Steps
  <2>2. \A f \in Fns : trial'[s][f] \in [at : Steps, snap : {None}]
    BY <1>3, <2>1
  <2> QED
    BY <2>2 DEF Launch, ThrottleInv, ThrottleTypes
<1>5. ThrottleTypes'
  BY <1>1, <1>2, <1>4 DEF ThrottleInv, ThrottleTypes
<1>6. Active' = {s}
  BY <1>1, <1>2 DEF Active
<1>7. OnlyScript'
  BY <1>1, <1>6, LimitedAreFns DEF OnlyScript
<1>8. ASSUME NEW f \in Fns PROVE ThreadInv(s, f)'
  <2>1. f \in Limited(s) => concurrency[f] = None
    BY <1>1, LimitedAreFns, ThrottleAssumption DEF ThrottleInv, LimitIsOnRecord
  <2>2. /\ trial'[s][f].at = IF f \in Limited(s) THEN "look"
                             ELSE IF f \in Targets(s) THEN "measure" ELSE "none"
    BY <1>3 DEF At, Idle
  <2> QED
    BY <1>1, <1>2, <1>6, <2>1, <2>2 DEF ThreadInv, Closing
<1> QED
  BY <1>1, <1>2, <1>5, <1>7, <1>8, MainStep

LEMMA FinallyKeeps ==
  ASSUME ThrottleInv, NEW s \in Scripts, Finally(s)
  PROVE  ThrottleInv'
<1>1. /\ main[s] = "running" /\ UNCHANGED <<concurrency, file>>
      /\ main' \in [Scripts -> {"idle", "running", "finally", "restoring", "ended", "failed", "killed"}]
      /\ main'[s] = "finally" /\ todo'[s] = Limited(s) /\ \A f \in Fns : trial'[s][f] = Idle
      /\ \A t \in Scripts \ {s} : main'[t] = main[t] /\ trial'[t] = trial[t] /\ todo'[t] = todo[t]
  BY DEF Finally, ThrottleInv, ThrottleTypes
<1>2. Limited(s) \subseteq Fns /\ Idle \in [at : Steps, snap : {None}]
  BY LimitedAreFns DEF Idle, At, Steps
<1>3. /\ todo' \in [Scripts -> SUBSET Fns]
      /\ trial' \in [Scripts -> [Fns -> [at : Steps, snap : {None}]]]
  BY <1>2 DEF Finally, ThrottleInv, ThrottleTypes
<1>4. \A t \in Scripts : todo'[t] \subseteq Limited(t)
  BY <1>1 DEF ThrottleInv, ThrottleTypes
<1>5. ThrottleTypes'
  BY <1>1, <1>3, <1>4 DEF ThrottleInv, ThrottleTypes, Limited, Targets, Level
<1>6. s \in Active /\ Active' = Active
  BY <1>1 DEF Active
<1>7. OnlyScript'
  BY <1>1, <1>6 DEF ThrottleInv, OnlyScript, Limited, Targets, Level
<1>8. ASSUME NEW f \in Fns PROVE ThreadInv(s, f)'
  <2>1. trial'[s][f].at = "none" /\ (f \in Limited(s) => f \in todo'[s])
    BY <1>1 DEF Idle, At
  <2> QED
    BY <1>1, <1>6, <2>1 DEF ThreadInv, Limited, Targets, Level
<1> QED
  BY <1>1, <1>5, <1>7, <1>8, MainStep

LEMMA RestoreOptionKeeps ==
  ASSUME ThrottleInv, NEW s \in Scripts, RestoreOption(s)
  PROVE  ThrottleInv'
<1>1. /\ Active = {} /\ UNCHANGED <<concurrency, file, trial>>
      /\ main' \in [Scripts -> {"idle", "running", "finally", "restoring", "ended", "failed", "killed"}]
      /\ main'[s] = "restoring" /\ todo'[s] = Limited(s)
      /\ \A t \in Scripts \ {s} : main'[t] = main[t] /\ trial'[t] = trial[t] /\ todo'[t] = todo[t]
  BY DEF RestoreOption, ThrottleInv, ThrottleTypes
<1>2. Limited(s) \subseteq Fns
  BY LimitedAreFns
<1>3. todo' \in [Scripts -> SUBSET Fns]
  BY <1>2 DEF RestoreOption, ThrottleInv, ThrottleTypes
<1>4. \A t \in Scripts : todo'[t] \subseteq Limited(t)
  BY <1>1 DEF ThrottleInv, ThrottleTypes
<1>5. ThrottleTypes'
  BY <1>1, <1>3, <1>4 DEF ThrottleInv, ThrottleTypes, Limited, Targets, Level
<1>6. Active' = {s}
  BY <1>1 DEF Active
<1>7. OnlyScript'
  BY <1>1, <1>6 DEF OnlyScript
<1>8. ASSUME NEW f \in Fns PROVE ThreadInv(s, f)'
  <2>1. trial'[s][f].at = "none" /\ (f \in Limited(s) => f \in todo'[s])
    BY <1>1 DEF ThrottleInv, ThreadInv
  <2> QED
    BY <1>1, <1>6, <2>1 DEF ThreadInv, Limited, Targets, Level
<1> QED
  BY <1>1, <1>5, <1>7, <1>8, MainStep

\* What has no snapshot when a script that holds its own gets there needs nothing.
LEMMA NextTargetKeeps ==
  ASSUME ThrottleInv, NEW s \in Scripts, NextTarget(s)
  PROVE  ThrottleInv'
<1> PICK f \in todo[s] :
      /\ todo' = [todo EXCEPT ![s] = @ \ {f}]
      /\ Goes(s, f, IF Needs(s, f) THEN "load" ELSE "done", None)
  BY DEF NextTarget
<1> DEFINE where == IF Needs(s, f) THEN "load" ELSE "done"
<1>1. /\ main[s] \in Closing /\ UNCHANGED <<concurrency, file, main>>
      /\ f \in Limited(s) /\ f \in Fns /\ where \in Steps
  BY DEF NextTarget, ThrottleInv, ThrottleTypes, Closing, Steps
<1>2. /\ todo' \in [Scripts -> SUBSET Fns] /\ todo'[s] = todo[s] \ {f}
      /\ trial' \in [Scripts -> [Fns -> [at : Steps, snap : {None}]]]
      /\ trial'[s][f].at = where
      /\ \A g \in Fns \ {f} : trial'[s][g] = trial[s][g]
      /\ \A t \in Scripts \ {s} : main'[t] = main[t] /\ trial'[t] = trial[t] /\ todo'[t] = todo[t]
  BY <1>1 DEF Goes, At, ThrottleInv, ThrottleTypes
<1>3. \A t \in Scripts : todo'[t] \subseteq Limited(t)
  BY <1>2 DEF ThrottleInv, ThrottleTypes
<1>4. ThrottleTypes'
  BY <1>1, <1>2, <1>3 DEF ThrottleInv, ThrottleTypes, Limited, Targets, Level
<1>5. s \in Active /\ Active' = Active
  BY <1>1 DEF Active, Closing
<1>6. OnlyScript'
  BY <1>1, <1>5 DEF ThrottleInv, OnlyScript, Limited, Targets, Level
<1>7. ~Needs(s, f) => concurrency[f] = None /\ file[s][f] = NoFile
  <2> SUFFICES ASSUME ~Needs(s, f) PROVE concurrency[f] = None
    BY <1>1 DEF Needs
  <2>1. main[s] # "restoring" /\ file[s][f] = NoFile
    BY DEF Needs
  <2>2. \A t \in Scripts : file[t][f] = NoFile
    BY <1>1, <1>5, <2>1 DEF ThrottleInv, OnlyScript
  <2> QED
    BY <1>1, <2>2, ThrottleAssumption DEF ThrottleInv, LimitIsOnRecord
<1>8. ASSUME NEW g \in Fns PROVE ThreadInv(s, g)'
  <2>1. CASE g = f
    BY <1>1, <1>2, <1>5, <1>7, <2>1 DEF ThreadInv, Closing, Limited, Targets, Level
  <2>2. CASE g # f
    <3>1. ThreadInv(s, g) /\ (g \in todo[s] => g \in todo'[s])
      BY <1>2, <2>2 DEF ThrottleInv
    <3> QED
      BY <1>1, <1>2, <1>5, <2>2, <3>1 DEF ThreadInv, Limited, Targets, Level
  <2> QED
    BY <2>1, <2>2
<1> QED
  BY <1>1, <1>2, <1>4, <1>6, <1>8, MainStep

\* What a thread that takes a step may take for granted.
LEMMA ThreadIs ==
  ASSUME ThrottleInv, NEW s \in Scripts, NEW f \in Fns, NEW where \in Steps, where # "none",
         trial[s][f].at = where
  PROVE  /\ ThreadInv(s, f) /\ s \in Active
         /\ DOMAIN concurrency = Fns /\ file \in [Scripts -> [Fns -> {NoFile, Torn, None}]]
         /\ main[s] \in Closing => where \in {"load", "put back", "unlink", "done", "raised"}
         /\ trial[s][f].snap = None
         /\ concurrency[f] # None => \E t \in Scripts : f \in Limited(t) /\ file[t][f] = None
<1>1. ThreadInv(s, f)
  BY DEF ThrottleInv
<1>2. /\ s \in Active
      /\ main[s] \in Closing => where \in {"load", "put back", "unlink", "done", "raised"}
  BY <1>1 DEF ThreadInv
<1>3. /\ DOMAIN concurrency = Fns /\ file \in [Scripts -> [Fns -> {NoFile, Torn, None}]]
      /\ trial[s][f].snap = None
  BY DEF ThrottleInv, ThrottleTypes
<1>4. concurrency[f] # None => \E t \in Scripts : f \in Limited(t) /\ file[t][f] = None
  BY DEF ThrottleInv, LimitIsOnRecord
<1> QED
  BY <1>1, <1>2, <1>3, <1>4

LEMMA LookKeeps ==
  ASSUME ThrottleInv, NEW s \in Scripts, NEW f \in Fns, Look(s, f)
  PROVE  ThrottleInv'
<1>1. trial[s][f].at = "look" /\ UNCHANGED <<concurrency, file, main, todo>>
  BY DEF Look, Thread
<1>2. /\ ThreadInv(s, f) /\ s \in Active /\ main[s] \notin Closing
      /\ DOMAIN concurrency = Fns /\ file \in [Scripts -> [Fns -> {NoFile, Torn, None}]]
      /\ concurrency[f] # None => \E t \in Scripts : f \in Limited(t) /\ file[t][f] = None
  BY <1>1, ThreadIs DEF Steps
<1>3. concurrency[f] = None /\ f \in Limited(s)
  BY <1>1, <1>2 DEF ThreadInv
<1>4. PICK where \in {"save", "raised"} : Goes(s, f, where, None)
  BY <1>3 DEF Look
<1>5. where \in Steps
  BY DEF Steps
<1> QED
  BY <1>1, <1>2, <1>3, <1>4, <1>5, ThreadStep

LEMMA SaveSnapshotKeeps ==
  ASSUME ThrottleInv, NEW s \in Scripts, NEW f \in Fns, SaveSnapshot(s, f)
  PROVE  ThrottleInv'
<1>1. CASE /\ Thread(s, f, "save")
           /\ file' = [file EXCEPT ![s][f] = Torn]
           /\ Goes(s, f, "dump", trial[s][f].snap)
  <2>1. trial[s][f].at = "save" /\ UNCHANGED <<concurrency, main, todo>>
    BY <1>1 DEF SaveSnapshot, Thread
  <2>2. /\ ThreadInv(s, f) /\ s \in Active /\ main[s] \notin Closing /\ trial[s][f].snap = None
        /\ DOMAIN concurrency = Fns /\ file \in [Scripts -> [Fns -> {NoFile, Torn, None}]]
    BY <2>1, ThreadIs DEF Steps
  <2>3. concurrency[f] = None /\ f \in Limited(s)
    BY <2>1, <2>2 DEF ThreadInv
  <2>4. /\ file' \in [Scripts -> [Fns -> {NoFile, Torn, None}]]
        /\ \A t \in Scripts, g \in Fns : <<t, g>> # <<s, f>> => file'[t][g] = file[t][g]
    BY <1>1, <2>2
  <2>5. "dump" \in Steps /\ Goes(s, f, "dump", None)
    BY <1>1, <2>2 DEF Steps
  <2> QED
    BY <2>1, <2>2, <2>3, <2>4, <2>5, ThreadStep
<1>2. CASE /\ Thread(s, f, "dump")
           /\ file' = [file EXCEPT ![s][f] = trial[s][f].snap]
           /\ Goes(s, f, "limit", None)
  <2>1. trial[s][f].at = "dump" /\ UNCHANGED <<concurrency, main, todo>>
    BY <1>2 DEF SaveSnapshot, Thread
  <2>2. /\ ThreadInv(s, f) /\ s \in Active /\ main[s] \notin Closing /\ trial[s][f].snap = None
        /\ DOMAIN concurrency = Fns /\ file \in [Scripts -> [Fns -> {NoFile, Torn, None}]]
    BY <2>1, ThreadIs DEF Steps
  <2>3. concurrency[f] = None /\ f \in Limited(s)
    BY <2>1, <2>2 DEF ThreadInv
  <2>4. /\ file' \in [Scripts -> [Fns -> {NoFile, Torn, None}]] /\ file'[s][f] = None
        /\ \A t \in Scripts, g \in Fns : <<t, g>> # <<s, f>> => file'[t][g] = file[t][g]
    BY <1>2, <2>2
  <2>5. "limit" \in Steps /\ Goes(s, f, "limit", None)
    BY <1>2 DEF Steps
  <2> QED
    BY <2>1, <2>2, <2>3, <2>4, <2>5, ThreadStep
<1> QED
  BY <1>1, <1>2 DEF SaveSnapshot

LEMMA LimitKeeps ==
  ASSUME ThrottleInv, NEW s \in Scripts, NEW f \in Fns, Limit(s, f)
  PROVE  ThrottleInv'
<1>1. trial[s][f].at = "limit" /\ UNCHANGED <<file, main, todo>>
  BY DEF Limit, Thread
<1>2. /\ ThreadInv(s, f) /\ s \in Active /\ main[s] \notin Closing
      /\ DOMAIN concurrency = Fns /\ file \in [Scripts -> [Fns -> {NoFile, Torn, None}]]
  BY <1>1, ThreadIs DEF Steps
<1>3. f \in Limited(s) /\ file[s][f] = None
  BY <1>1, <1>2 DEF ThreadInv
<1>4. PICK where \in {"measure", "raised"} : Goes(s, f, where, None)
  BY DEF Limit
<1>5. DOMAIN concurrency' = Fns /\ \A g \in Fns \ {f} : concurrency'[g] = concurrency[g]
  BY <1>2 DEF Limit
<1>6. where \in Steps
  BY DEF Steps
<1> QED
  BY <1>1, <1>2, <1>3, <1>4, <1>5, <1>6, ThreadStep

LEMMA MeasureKeeps ==
  ASSUME ThrottleInv, Undisturbed, NEW s \in Scripts, NEW f \in Fns, Measure(s, f)
  PROVE  ThrottleInv'
<1>1. trial[s][f].at = "measure" /\ UNCHANGED <<file, main, todo>>
  BY DEF Measure, Thread
<1>2. /\ ThreadInv(s, f) /\ s \in Active /\ main[s] \notin Closing
      /\ DOMAIN concurrency = Fns /\ file \in [Scripts -> [Fns -> {NoFile, Torn, None}]]
      /\ concurrency[f] # None => \E t \in Scripts : f \in Limited(t) /\ file[t][f] = None
  BY <1>1, ThreadIs DEF Steps
<1>3. f \in Limited(s) => file[s][f] = None
  BY <1>1, <1>2 DEF ThreadInv
<1>4. PICK where \in {"load", "done", "raised"} :
        Goes(s, f, where, None) /\ (where = "load" => f \in Limited(s))
  BY DEF Measure
<1>5. /\ DOMAIN concurrency' = Fns /\ \A g \in Fns \ {f} : concurrency'[g] = concurrency[g]
      /\ f \notin Limited(s) => concurrency'[f] = concurrency[f]
  BY <1>2 DEF Measure, Undisturbed
<1>6. where \in Steps
  BY DEF Steps
<1>7. concurrency'[f] # None => \E t \in Scripts : f \in Limited(t) /\ file'[t][f] = None
  BY <1>1, <1>2, <1>3, <1>5
<1> QED
  BY <1>1, <1>2, <1>4, <1>5, <1>6, <1>7, ThreadStep

LEMMA LoadKeeps ==
  ASSUME ThrottleInv, NEW s \in Scripts, NEW f \in Fns, Load(s, f)
  PROVE  ThrottleInv'
<1>1. trial[s][f].at = "load" /\ UNCHANGED <<concurrency, file, main, todo>>
  BY DEF Load, Thread
<1>2. /\ ThreadInv(s, f) /\ s \in Active
      /\ DOMAIN concurrency = Fns /\ file \in [Scripts -> [Fns -> {NoFile, Torn, None}]]
      /\ concurrency[f] # None => \E t \in Scripts : f \in Limited(t) /\ file[t][f] = None
  BY <1>1, ThreadIs DEF Steps
<1>3. f \in Limited(s) /\ file[s][f] \in {NoFile, Torn, None}
  BY <1>1, <1>2 DEF ThreadInv
<1>4. PICK where \in {"put back", "raised"} : Goes(s, f, where, None)
  BY <1>3 DEF Load, Recorded
<1>5. where \in Steps
  BY DEF Steps
<1> QED
  BY <1>1, <1>2, <1>3, <1>4, <1>5, ThreadStep

LEMMA PutBackKeeps ==
  ASSUME ThrottleInv, Undisturbed, NEW s \in Scripts, NEW f \in Fns, PutBack(s, f)
  PROVE  ThrottleInv'
<1>1. trial[s][f].at = "put back" /\ UNCHANGED <<file, main, todo>>
  BY DEF PutBack, Thread
<1>2. /\ ThreadInv(s, f) /\ s \in Active /\ trial[s][f].snap = None
      /\ DOMAIN concurrency = Fns /\ file \in [Scripts -> [Fns -> {NoFile, Torn, None}]]
  BY <1>1, ThreadIs DEF Steps
<1>3. f \in Limited(s)
  BY <1>1, <1>2 DEF ThreadInv
<1>4. concurrency' = [concurrency EXCEPT ![f] = None] /\ Goes(s, f, "unlink", None)
  BY <1>2 DEF PutBack, Undisturbed
<1>5. DOMAIN concurrency' = Fns /\ \A g \in Fns \ {f} : concurrency'[g] = concurrency[g]
  BY <1>2, <1>4
<1>6. concurrency'[f] = None /\ "unlink" \in Steps
  BY <1>2, <1>4 DEF Steps
<1> QED
  BY <1>1, <1>2, <1>3, <1>4, <1>5, <1>6, ThreadStep

LEMMA UnlinkKeeps ==
  ASSUME ThrottleInv, NEW s \in Scripts, NEW f \in Fns, Unlink(s, f)
  PROVE  ThrottleInv'
<1>1. /\ trial[s][f].at = "unlink" /\ UNCHANGED <<concurrency, main, todo>>
      /\ file' = [file EXCEPT ![s][f] = NoFile] /\ Goes(s, f, "done", None)
  BY DEF Unlink, Thread
<1>2. /\ ThreadInv(s, f) /\ s \in Active
      /\ DOMAIN concurrency = Fns /\ file \in [Scripts -> [Fns -> {NoFile, Torn, None}]]
  BY <1>1, ThreadIs DEF Steps
<1>3. f \in Limited(s) /\ concurrency[f] = None
  BY <1>1, <1>2 DEF ThreadInv
<1>4. /\ file' \in [Scripts -> [Fns -> {NoFile, Torn, None}]] /\ file'[s][f] = NoFile
      /\ \A t \in Scripts, g \in Fns : <<t, g>> # <<s, f>> => file'[t][g] = file[t][g]
  BY <1>1, <1>2
<1>5. "done" \in Steps
  BY DEF Steps
<1>6. /\ DOMAIN concurrency' = Fns /\ concurrency'[f] = None
      /\ \A g \in Fns \ {f} : concurrency'[g] = concurrency[g]
  BY <1>1, <1>2, <1>3
<1>7. "done" \notin {"look", "save", "dump", "limit", "load", "put back", "unlink", "measure"}
  OBVIOUS
<1>8. UNCHANGED <<main, todo>> /\ Goes(s, f, "done", None)
  BY <1>1
<1> QED
  BY <1>2, <1>3, <1>4, <1>5, <1>6, <1>7, <1>8, ThreadStep

LEMMA ThrottleKept ==
  ASSUME ThrottleInv, Undisturbed, [Next]_vars
  PROVE  ThrottleInv'
<1>1. CASE UNCHANGED vars
  <2> USE <1>1 DEF vars
  <2>1. ThrottleTypes'
    BY DEF ThrottleInv, ThrottleTypes
  <2>2. OnlyScript'
    BY DEF ThrottleInv, OnlyScript, Active
  <2>3. LimitIsOnRecord'
    BY DEF ThrottleInv, LimitIsOnRecord
  <2>4. ASSUME NEW s \in Scripts, NEW f \in Fns PROVE ThreadInv(s, f)'
    <3>1. ThreadInv(s, f)
      BY DEF ThrottleInv
    <3> QED
      BY <3>1 DEF ThreadInv, Active
  <2> QED
    BY <2>1, <2>2, <2>3, <2>4 DEF ThrottleInv
<1>2. ASSUME NEW s \in Scripts, Main(s) PROVE ThrottleInv'
  <2>1. Leaves(s, "ended") \/ Leaves(s, "failed") \/ Leaves(s, "killed") \/ Launch(s)
        \/ Finally(s) \/ RestoreOption(s) \/ NextTarget(s)
    BY <1>2 DEF Main, End, Fail, Kill
  <2> QED
    BY <2>1, LeavesKeeps, LaunchKeeps, FinallyKeeps, RestoreOptionKeeps, NextTargetKeeps
<1>3. ASSUME NEW s \in Scripts, NEW f \in Fns, Trial(s, f) \/ Restore(s, f) PROVE ThrottleInv'
  BY <1>3, LookKeeps, SaveSnapshotKeeps, LimitKeeps, MeasureKeeps, LoadKeeps, PutBackKeeps,
     UnlinkKeeps DEF Trial, Restore
<1> QED
  BY <1>1, <1>2, <1>3 DEF Next

\* While nobody else meddles with the functions, a function that is not as it was found
\* has a snapshot on the disk that says how it was found, whatever fails or is killed.
THEOREM LimitsStayOnRecord == Undisturbed => (Spec => []LimitIsOnRecord)
<1> SUFFICES ASSUME Undisturbed PROVE Spec => []LimitIsOnRecord
  OBVIOUS
<1>1. ThrottleInv => LimitIsOnRecord
  BY DEF ThrottleInv
<1>2. ThrottleInv /\ [Next]_vars => ThrottleInv'
  BY ThrottleKept
<1> QED
  BY <1>1, <1>2, InitThrottle, PTL DEF Spec

\* A script that comes to its end has put back every function it limits, and removed
\* its snapshots: what its finally has not looked at keeps it from ending.
THEOREM EndsPutBack == Undisturbed => (Spec => EndPutsBack)
<1> SUFFICES ASSUME Undisturbed PROVE Spec => EndPutsBack
  OBVIOUS
<1>1. ASSUME ThrottleInv, [Next]_vars,
             NEW s \in Scripts, main[s] # "ended", main'[s] = "ended", NEW f \in Limited(s)
      PROVE  concurrency[f] = None /\ file[s][f] = NoFile
  <2>1. End(s)
    <3>1. ~UNCHANGED main
      BY <1>1
    <3>2. PICK t \in Scripts : Main(t)
      BY <1>1, <3>1 DEF vars, Next, Trial, Restore, Look, SaveSnapshot, Limit, Measure, Load,
                        PutBack, Unlink
    <3>3. main \in [Scripts -> {"idle", "running", "finally", "restoring", "ended", "failed",
                                "killed"}]
      BY <1>1 DEF ThrottleInv, ThrottleTypes
    <3>4. CASE End(t)
      BY <1>1, <3>3, <3>4 DEF End, Leaves
    <3>5. CASE Launch(t) \/ Finally(t) \/ RestoreOption(t) \/ NextTarget(t) \/ Fail(t) \/ Kill(t)
      BY <1>1, <3>3, <3>5 DEF Launch, Finally, RestoreOption, NextTarget, Fail, Kill, Leaves
    <3> QED
      BY <3>2, <3>4, <3>5 DEF Main
  <2>2. main[s] \in Closing /\ todo[s] = {} /\ f \in Fns
    BY <2>1, <1>1, LimitedAreFns DEF End, Closing
  <2>3. trial[s][f].at \in {"none", "done"} /\ ThreadInv(s, f)
    BY <1>1, <2>1, <2>2 DEF End, AllIn, ThrottleInv
  <2> QED
    BY <1>1, <2>2, <2>3 DEF ThreadInv
<1>2. ThrottleInv /\ [Next]_vars =>
        [\A s \in Scripts : main[s] # "ended" /\ main'[s] = "ended" =>
           \A f \in Limited(s) : concurrency[f] = None /\ file[s][f] = NoFile]_vars
  BY <1>1
<1>3. ThrottleInv /\ [Next]_vars => ThrottleInv'
  BY ThrottleKept
<1> QED
  BY <1>2, <1>3, InitThrottle, PTL DEF Spec, EndPutsBack

-----------------------------------------------------------------------------
(***************************************************************************)
(* The demo scenarios                                                      *)
(***************************************************************************)
LiveTypes ==
  /\ run \in [Runs -> [of : Scenarios \cup {NoScenario},
                       status : {"none", "running", "pending_approval", "succeeded", "failed",
                                 "forgotten"}]]
  /\ proc \in [Processes -> [of : Scenarios \cup {NoScenario},
                             at : {"none", "preparing", "launched", "created", "streaming",
                                   "waiting", "ended", "raised"},
                             inst : Machines \cup {NoInstance}, printed : BOOLEAN]]
  /\ teardown \in [Kinds -> [at : {"none", "begin", "terminate", "unlink"},
                             inst : Machines \cup {NoInstance}]]
  /\ manifest \in [Kinds -> Machines \cup {NoInstance}]
  /\ maxSize \in {0, 1, LiveDemoAsgMaxSize}
  /\ instances \subseteq Machines

\* A run the console knows is of the scenario its script is of, a run that was not
\* started has no script, and a script that prepares is of a scenario it can prepare.
ScriptOf(p) ==
  /\ Lives(p) => proc[p].of \in Scenarios
  /\ proc[p].at = "launched" => proc[p].of \in Launching /\ proc[p].inst \in Machines
  /\ proc[p].at = "created" => p \in Runs /\ proc[p].of = "edos"
  /\ p \in Runs => /\ Known(p) => run[p].of = proc[p].of /\ run[p].of \in Scenarios
                   /\ run[p].status = "none" => proc[p] = Absent

\* No two runs the console knows are of one scenario, also once their scripts ended.
OneRunPerScenario ==
  \A r, q \in Runs : Known(r) /\ Known(q) /\ run[r].of = run[q].of => r = q

RunsInv == LiveTypes /\ OneRunPerScenario /\ \A p \in Processes : ScriptOf(p)

\* The rest holds with a careful operator.  Nothing tears down what a known run works on.
NoTeardownOf(r) ==
  Known(r) /\ Lives(r) =>
    /\ \A k \in Kinds : k[2] = proc[r].of => teardown[k] = NoTeardown
    /\ proc[r].at # "preparing" =>
         /\ proc[r].of \in Launching => proc[r].inst \in instances
         /\ proc[r].of \in Named => proc[r].of \in named
         /\ proc[r].of = "edos" => maxSize > 0
    /\ InPipeline(r) /\ proc[r].of = "edos" => maxSize = LiveDemoAsgMaxSize

\* One script prepares a kind of scenario, whose manifest is empty until it is written.
Launches(p) == proc[p].at \in {"preparing", "launched"}
OnePrepares(p) ==
  Launches(p) => /\ manifest[Kind(p)] = NoInstance
                 /\ \A q \in Processes : Launches(q) /\ Kind(q) = Kind(p) => q = p

\* A teardown has the instance its manifest names, and takes the name away last.
TearsDown(k) ==
  /\ teardown[k].at \in {"terminate", "unlink"} => teardown[k].inst # NoInstance
  /\ teardown[k].inst # NoInstance => manifest[k] = teardown[k].inst
  /\ teardown[k].at = "unlink" => teardown[k].inst \notin instances

\* An instance is of one scenario, whoever has it.
OneScenario ==
  /\ \A k, j \in Kinds : manifest[k] = manifest[j] /\ manifest[k] # NoInstance => k[2] = j[2]
  /\ \A p \in Processes, k \in Kinds :
       manifest[k] = proc[p].inst /\ manifest[k] # NoInstance => k[2] = proc[p].of
  /\ \A p, q \in Processes :
       proc[p].inst = proc[q].inst /\ proc[p].inst # NoInstance => proc[p].of = proc[q].of

CarefulInv ==
  /\ \A r \in Runs : NoTeardownOf(r)
  /\ \A p \in Processes : OnePrepares(p)
  /\ \A k \in Kinds : TearsDown(k)
  /\ OneScenario /\ InstancesAreOnRecord

LEMMA KindParts ==
  /\ \A k \in Kinds : k[1] \in {"live", "real"} /\ k[2] \in Scenarios /\ k = <<k[1], k[2]>>
  /\ \A flavour \in {"live", "real"}, s \in Scenarios :
       <<flavour, s>> \in Kinds /\ <<flavour, s>>[1] = flavour /\ <<flavour, s>>[2] = s
BY DEF Kinds

LEMMA KindOf ==
  \A p \in Processes : Lives(p) /\ ScriptOf(p) =>
    Kind(p) \in Kinds /\ Kind(p)[2] = proc[p].of /\ Kind(p)[1] = (IF p \in Runs THEN "live" ELSE "real")
BY KindParts DEF Kind, ScriptOf

LEMMA NoScenarioIsNone == NoScenario \notin Scenarios
BY LiveDemoAssumption DEF NoScenario

LEMMA InitRuns == LiveInit => RunsInv
<1> SUFFICES ASSUME LiveInit PROVE RunsInv
  OBVIOUS
<1>1. LiveTypes
  BY DEF LiveInit, LiveTypes, Absent, NoTeardown
<1>2. \A r \in Runs : ~Known(r) /\ run[r].status = "none"
  BY DEF LiveInit, Known
<1>3. \A p \in Processes : proc[p] = Absent /\ proc[p].at = "none"
  BY DEF LiveInit, Absent
<1>4. ASSUME NEW p \in Processes PROVE ScriptOf(p)
  BY <1>2, <1>3 DEF ScriptOf, Lives, Preparing, InPipeline
<1> QED
  BY <1>1, <1>2, <1>4 DEF RunsInv, OneRunPerScenario

LEMMA InitCareful == LiveInit => CarefulInv
<1> SUFFICES ASSUME LiveInit PROVE CarefulInv
  OBVIOUS
<1>1. \A p \in Processes : proc[p].at = "none" /\ proc[p].inst = NoInstance
  BY DEF LiveInit, Absent
<1>2. \A k \in Kinds : manifest[k] = NoInstance /\ teardown[k].at = "none"
                       /\ teardown[k].inst = NoInstance
  BY DEF LiveInit, NoTeardown
<1>3. instances = {} /\ \A r \in Runs : ~Known(r)
  BY DEF LiveInit, Known
<1>4. \A r \in Runs : NoTeardownOf(r)
  BY <1>3 DEF NoTeardownOf
<1>5. \A p \in Processes : OnePrepares(p)
  BY <1>1 DEF OnePrepares, Launches
<1>6. \A k \in Kinds : TearsDown(k)
  BY <1>2 DEF TearsDown
<1>7. OneScenario /\ InstancesAreOnRecord
  BY <1>1, <1>2, <1>3 DEF OneScenario, InstancesAreOnRecord
<1> QED
  BY <1>4, <1>5, <1>6, <1>7 DEF CarefulInv

-----------------------------------------------------------------------------
(* What a step has to show: of a script, of a teardown, of the console.    *)

LEMMA ScriptStep ==
  ASSUME RunsInv, NEW p \in Processes, UNCHANGED run, LiveTypes',
         \A q \in Processes \ {p} : proc'[q] = proc[q], ScriptOf(p)'
  PROVE  RunsInv'
<1>1. ASSUME NEW q \in Processes PROVE ScriptOf(q)'
  <2>1. CASE q = p
    BY <2>1
  <2>2. CASE q # p
    BY <2>2 DEF RunsInv, ScriptOf, Lives, Preparing, InPipeline, Known
  <2> QED
    BY <2>1, <2>2
<1>2. OneRunPerScenario'
  BY DEF RunsInv, OneRunPerScenario, Known
<1> QED
  BY <1>1, <1>2 DEF RunsInv

LEMMA TeardownStep ==
  ASSUME RunsInv, UNCHANGED <<run, proc>>, LiveTypes'
  PROVE  RunsInv'
<1>1. \A q \in Processes : ScriptOf(q)'
  BY DEF RunsInv, ScriptOf, Lives, Preparing, InPipeline, Known
<1>2. OneRunPerScenario'
  BY DEF RunsInv, OneRunPerScenario, Known
<1> QED
  BY <1>1, <1>2 DEF RunsInv

\* The console learns, or forgets: it knows no run it did not know.
LEMMA ConsoleStep ==
  ASSUME RunsInv, UNCHANGED <<proc, teardown, manifest, account, lost>>,
         run' \in [Runs -> [of : Scenarios \cup {NoScenario},
                            status : {"none", "running", "pending_approval", "succeeded", "failed",
                                      "forgotten"}]],
         \A r \in Runs : /\ run'[r].of = run[r].of
                         /\ Known(r)' => Known(r)
                         /\ run'[r].status = "none" => run[r].status = "none"
  PROVE  RunsInv' /\ (CarefulInv => CarefulInv')
<1>1. LiveTypes'
  BY DEF RunsInv, LiveTypes, account
<1>2. ASSUME NEW p \in Processes PROVE ScriptOf(p)'
  BY DEF RunsInv, ScriptOf, Lives, Preparing, InPipeline
<1>3. OneRunPerScenario'
  BY DEF RunsInv, OneRunPerScenario
<1>4. ASSUME CarefulInv PROVE CarefulInv'
  <2>1. \A r \in Runs : NoTeardownOf(r)'
    BY <1>4 DEF CarefulInv, NoTeardownOf, Lives, Preparing, InPipeline, account
  <2>2. \A p \in Processes : OnePrepares(p)'
    BY <1>4 DEF CarefulInv, OnePrepares, Launches, Kind
  <2>3. (\A k \in Kinds : TearsDown(k)') /\ OneScenario' /\ InstancesAreOnRecord'
    BY <1>4 DEF CarefulInv, TearsDown, OneScenario, InstancesAreOnRecord, account
  <2> QED
    BY <2>1, <2>2, <2>3 DEF CarefulInv
<1> QED
  BY <1>1, <1>2, <1>3, <1>4 DEF RunsInv

\* What a script that neither launches nor takes an instance over leaves as it is.
LEMMA ScenarioKept ==
  ASSUME OneScenario,
         \A k \in Kinds : manifest'[k] \in {manifest[k], NoInstance},
         \A p \in Processes : \/ proc'[p].inst = NoInstance
                              \/ proc'[p].inst = proc[p].inst /\ proc'[p].of = proc[p].of
  PROVE  OneScenario'
<1>1. \A k, j \in Kinds : manifest'[k] = manifest'[j] /\ manifest'[k] # NoInstance => k[2] = j[2]
  BY DEF OneScenario
<1>2. ASSUME NEW p \in Processes, NEW k \in Kinds,
             manifest'[k] = proc'[p].inst, manifest'[k] # NoInstance
      PROVE  k[2] = proc'[p].of
  BY <1>2 DEF OneScenario
<1>3. ASSUME NEW p \in Processes, NEW q \in Processes,
             proc'[p].inst = proc'[q].inst, proc'[p].inst # NoInstance
      PROVE  proc'[p].of = proc'[q].of
  BY <1>3 DEF OneScenario
<1> QED
  BY <1>1, <1>2, <1>3 DEF OneScenario

\* A run that goes on in its place, or stops, over an account that only grows.
LEMMA NoTeardownKept ==
  ASSUME NEW r \in Runs, NoTeardownOf(r), Known(r)' => Known(r), Lives(r)' => Lives(r),
         Lives(r)' => /\ proc'[r].of = proc[r].of /\ proc'[r].inst = proc[r].inst
                      /\ proc'[r].at # "preparing" => proc[r].at # "preparing"
                      /\ InPipeline(r)' => InPipeline(r),
         instances \subseteq instances', named \subseteq named', maxSize > 0 => maxSize' > 0,
         maxSize = LiveDemoAsgMaxSize => maxSize' = LiveDemoAsgMaxSize, UNCHANGED teardown
  PROVE  NoTeardownOf(r)'
BY DEF NoTeardownOf

\* A script that goes on without its instance changing, or stops.
LEMMA MovesOn ==
  ASSUME RunsInv, NEW p \in Processes, Lives(p),
         UNCHANGED <<run, teardown, manifest, instances>>, lost \subseteq lost',
         named \subseteq named', maxSize > 0 => maxSize' > 0, maxSize' \in {0, 1, LiveDemoAsgMaxSize},
         maxSize = LiveDemoAsgMaxSize => maxSize' = LiveDemoAsgMaxSize,
         proc' \in [Processes -> [of : Scenarios \cup {NoScenario},
                             at : {"none", "preparing", "launched", "created", "streaming",
                                   "waiting", "ended", "raised"},
                             inst : Machines \cup {NoInstance}, printed : BOOLEAN]],
         \A q \in Processes \ {p} : proc'[q] = proc[q],
         \/ p \notin Runs /\ proc'[p] = Absent
         \/ /\ proc'[p].of = proc[p].of /\ proc'[p].inst = proc[p].inst
            /\ proc'[p].at \in {"created", "streaming", "waiting", "ended", "raised"},
         proc'[p].at = "created" => p \in Runs /\ proc[p].of = "edos",
         proc[p].at = "launched" => proc[p].inst \in lost',
         p \in Runs /\ Lives(p)' =>
            \/ InPipeline(p) /\ InPipeline(p)'
            \/ /\ proc[p].of \notin Launching
               /\ proc[p].of \in Named => proc[p].of \in named'
               /\ proc[p].of = "edos" => maxSize' > 0
               /\ proc[p].of = "edos" /\ InPipeline(p)' => maxSize' = LiveDemoAsgMaxSize
  PROVE  RunsInv' /\ (CarefulInv => CarefulInv')
<1>1. LiveTypes'
  BY DEF RunsInv, LiveTypes
<1>2. ScriptOf(p) /\ proc'[p].at \notin {"preparing", "launched"}
  BY DEF RunsInv, Absent
<1>3. ScriptOf(p)'
  <2>1. CASE p \notin Runs /\ proc'[p] = Absent
    BY <2>1 DEF ScriptOf, Lives, Preparing, InPipeline, Absent
  <2>2. CASE /\ proc'[p].of = proc[p].of /\ proc'[p].inst = proc[p].inst
             /\ proc'[p].at \in {"created", "streaming", "waiting", "ended", "raised"}
    <3>1. p \in Runs => run[p].status # "none"
      BY <1>2 DEF ScriptOf, Lives, Preparing, InPipeline, Absent
    <3> QED
      BY <1>2, <2>2, <3>1 DEF ScriptOf, Known
  <2> QED
    BY <2>1, <2>2
<1>4. RunsInv'
  BY <1>1, <1>3, ScriptStep
<1>5. ASSUME CarefulInv PROVE CarefulInv'
  <2>1. ASSUME NEW r \in Runs PROVE NoTeardownOf(r)'
    <3>1. NoTeardownOf(r) /\ (Known(r)' <=> Known(r))
      BY <1>5 DEF CarefulInv, Known
    <3>2. CASE r # p
      <4>1. proc'[r] = proc[r]
        BY <3>2 DEF Processes
      <4> QED
        BY <3>1, <4>1, NoTeardownKept DEF Lives, Preparing, InPipeline
    <3>3. CASE r = p
      <4> SUFFICES ASSUME Known(r)', Lives(r)' PROVE NoTeardownOf(r)'
        BY DEF NoTeardownOf
      <4>1. proc'[r].of = proc[r].of /\ proc'[r].inst = proc[r].inst
        BY <3>3
      <4>2. CASE InPipeline(p) /\ InPipeline(p)'
        BY <3>1, <3>3, <4>1, <4>2, NoTeardownKept DEF InPipeline
      <4>3. CASE /\ proc[p].of \notin Launching
                 /\ proc[p].of \in Named => proc[p].of \in named'
                 /\ proc[p].of = "edos" => maxSize' > 0
                 /\ proc[p].of = "edos" /\ InPipeline(p)' => maxSize' = LiveDemoAsgMaxSize
        BY <3>1, <3>3, <4>1, <4>3 DEF NoTeardownOf
      <4> QED
        BY <3>3, <4>2, <4>3
    <3> QED
      BY <3>2, <3>3
  <2>2. ASSUME NEW q \in Processes PROVE OnePrepares(q)'
    <3> SUFFICES ASSUME Launches(q)' PROVE OnePrepares(q)'
      BY DEF OnePrepares
    <3>1. q # p /\ Launches(q) /\ OnePrepares(q)
      BY <1>2, <1>5 DEF CarefulInv, Launches
    <3>2. ASSUME NEW o \in Processes, Launches(o)' PROVE Launches(o) /\ proc'[o] = proc[o]
      BY <1>2, <3>2 DEF Launches
    <3> QED
      BY <3>1, <3>2 DEF OnePrepares, Kind
  <2>3. \A k \in Kinds : TearsDown(k)'
    BY <1>5 DEF CarefulInv, TearsDown
  <2>4. OneScenario'
    <3>1. \A q \in Processes : \/ proc'[q].inst = NoInstance
                               \/ proc'[q].inst = proc[q].inst /\ proc'[q].of = proc[q].of
      BY DEF Absent
    <3> QED
      BY <1>5, <3>1, ScenarioKept DEF CarefulInv
  <2>5. InstancesAreOnRecord'
    BY <1>5 DEF CarefulInv, InstancesAreOnRecord
  <2> QED
    BY <2>1, <2>2, <2>3, <2>4, <2>5 DEF CarefulInv
<1> QED
  BY <1>4, <1>5

\* A teardown that goes on, while no known run works on its scenario.
LEMMA TeardownMoves ==
  ASSUME RunsInv, CarefulInv, NEW k \in Kinds, UNCHANGED <<run, proc, lost>>,
         \A j \in Kinds \ {k} : teardown'[j] = teardown[j] /\ manifest'[j] = manifest[j],
         manifest'[k] \in {manifest[k], NoInstance}, TearsDown(k)',
         \A r \in Runs : Known(r) /\ Lives(r) => proc[r].of # k[2],
         instances' \subseteq instances, \A i \in instances \ instances' : i = manifest[k],
         \A s \in named \ named' : s = k[2], maxSize' # maxSize => k[2] = "edos",
         manifest'[k] # manifest[k] => manifest[k] \notin instances'
  PROVE  CarefulInv'
<1>1. ASSUME NEW r \in Runs PROVE NoTeardownOf(r)'
  <2> SUFFICES ASSUME Known(r)', Lives(r)' PROVE NoTeardownOf(r)'
    BY DEF NoTeardownOf
  <2>1. Known(r) /\ Lives(r) /\ NoTeardownOf(r) /\ proc[r].of # k[2] /\ r \in Processes
    BY DEF CarefulInv, Known, Lives, Preparing, InPipeline, Processes
  <2>2. \A j \in Kinds : j[2] = proc[r].of => teardown'[j] = NoTeardown
    BY <2>1 DEF NoTeardownOf
  <2>3. proc[r].inst \in instances => proc[r].inst \in instances'
    <3> SUFFICES ASSUME proc[r].inst \in instances, proc[r].inst = manifest[k] PROVE FALSE
      OBVIOUS
    <3>1. manifest[k] # NoInstance
      BY LiveDemoAssumption DEF RunsInv, LiveTypes
    <3> QED
      BY <2>1, <3>1 DEF CarefulInv, OneScenario
  <2> QED
    BY <2>1, <2>2, <2>3 DEF NoTeardownOf, InPipeline
<1>2. \A p \in Processes : OnePrepares(p)'
  <2>1. \A j \in Kinds : manifest[j] = NoInstance => manifest'[j] = NoInstance
    OBVIOUS
  <2> SUFFICES ASSUME NEW p \in Processes, Launches(p)' PROVE OnePrepares(p)'
    BY DEF OnePrepares
  <2>2. Launches(p) /\ OnePrepares(p) /\ ScriptOf(p)
    BY DEF CarefulInv, Launches, RunsInv
  <2>3. Kind(p) \in Kinds /\ Kind(p)' = Kind(p)
    BY <2>2, KindOf DEF Launches, Lives, Preparing, Kind
  <2> QED
    BY <2>1, <2>2, <2>3 DEF OnePrepares, Launches, Kind
<1>3. ASSUME NEW j \in Kinds PROVE TearsDown(j)'
  <2>1. CASE j = k
    BY <2>1
  <2>2. CASE j # k
    BY <2>2 DEF CarefulInv, TearsDown
  <2> QED
    BY <2>1, <2>2
<1>4. OneScenario'
  BY ScenarioKept DEF CarefulInv
<1>5. InstancesAreOnRecord'
  <2> SUFFICES ASSUME NEW i \in instances', i \notin lost',
                      ~\E p \in Processes : proc'[p].at = "launched" /\ proc'[p].inst = i
               PROVE  \E j \in Kinds : manifest'[j] = i
    BY DEF InstancesAreOnRecord
  <2>1. PICK j \in Kinds : manifest[j] = i
    BY DEF CarefulInv, InstancesAreOnRecord
  <2> QED
    BY <2>1
<1> QED
  BY <1>1, <1>2, <1>3, <1>4, <1>5 DEF CarefulInv

\* What a teardown that is under way works on is no known run's.
LEMMA UnderWay ==
  ASSUME CarefulInv, NEW k \in Kinds, teardown[k].at # "none"
  PROVE  \A r \in Runs : Known(r) /\ Lives(r) => proc[r].of # k[2]
<1> SUFFICES ASSUME NEW r \in Runs, Known(r), Lives(r), proc[r].of = k[2] PROVE FALSE
  OBVIOUS
<1>1. teardown[k] = NoTeardown
  BY DEF CarefulInv, NoTeardownOf
<1> QED
  BY <1>1 DEF NoTeardown

-----------------------------------------------------------------------------
(* The console                                                             *)

\* After a look round, no other script of this scenario and flavour is there.
LEMMA NoOtherScript ==
  ASSUME RunsInv, NEW p \in Processes, NEW s \in Scenarios, ~Lives(p),
         Clear(<<IF p \in Runs THEN "live" ELSE "real", s>>), p \in Runs => ~IsActive(s),
         NEW q \in Processes, Lives(q), q \in Runs <=> p \in Runs
  PROVE  proc[q].of # s
<1>1. CASE Unattended(q)
  BY <1>1, KindParts DEF Clear
<1>2. CASE ~Unattended(q)
  BY <1>2 DEF Unattended, IsActive, RunsInv, ScriptOf
<1> QED
  BY <1>1, <1>2

\* A new script, of the console or of a terminal, that has yet to prepare its resource.
LEMMA Begins ==
  ASSUME RunsInv, Careful => CarefulInv, NEW p \in Processes, NEW s \in Scenarios, proc[p] = Absent,
         Careful => Clear(<<IF p \in Runs THEN "live" ELSE "real", s>>),
         p \in Runs => ~IsActive(s),
         proc' = [proc EXCEPT ![p] = [Absent EXCEPT !.of = s, !.at = "preparing"]],
         UNCHANGED <<teardown, manifest, account, lost>>,
         \A r \in Runs \ {p} : run'[r] = run[r]
  PROVE  Careful => CarefulInv'
<1> SUFFICES ASSUME Careful PROVE CarefulInv'
  OBVIOUS
<1>1. /\ \A q \in Processes \ {p} : proc'[q] = proc[q]
      /\ proc'[p].of = s /\ proc'[p].at = "preparing" /\ proc'[p].inst = NoInstance
      /\ proc[p].at = "none" /\ ~Lives(p)
  BY DEF RunsInv, LiveTypes, Absent, Lives, Preparing, InPipeline
<1>2. \A k \in Kinds : k[2] = s => teardown[k] = NoTeardown
  BY KindParts DEF Clear
<1>3. ASSUME NEW r \in Runs PROVE NoTeardownOf(r)'
  <2>1. CASE r = p
    BY <1>1, <1>2, <2>1 DEF NoTeardownOf, InPipeline
  <2>2. CASE r # p
    <3>1. proc'[r] = proc[r] /\ NoTeardownOf(r) /\ (Known(r)' <=> Known(r))
      BY <1>1, <2>2 DEF CarefulInv, Known, Processes
    <3> QED
      BY <3>1, NoTeardownKept DEF Lives, Preparing, InPipeline, account
  <2> QED
    BY <2>1, <2>2
<1>4. Kind(p)' = <<IF p \in Runs THEN "live" ELSE "real", s>>
  BY <1>1 DEF Kind
<1>5. ASSUME NEW q \in Processes, Launches(q), Kind(q) = Kind(p)' PROVE FALSE
  <2>1. Lives(q) /\ ScriptOf(q)
    BY <1>5 DEF Launches, Lives, Preparing, RunsInv
  <2>2. proc[q].of = s /\ (q \in Runs <=> p \in Runs)
    BY <1>4, <1>5 DEF Kind
  <2> QED
    BY <1>1, <2>1, <2>2, NoOtherScript
<1>6. ASSUME NEW q \in Processes PROVE OnePrepares(q)'
  <2> SUFFICES ASSUME Launches(q)' PROVE OnePrepares(q)'
    BY DEF OnePrepares
  <2>1. ASSUME NEW o \in Processes, o # p
        PROVE  (Launches(o)' <=> Launches(o)) /\ Kind(o)' = Kind(o)
    BY <1>1, <2>1 DEF Launches, Kind
  <2>2. CASE q = p
    <3>1. manifest[Kind(p)'] = NoInstance
      BY <1>4 DEF Clear
    <3>2. ASSUME NEW o \in Processes, o # p, Launches(o)', Kind(o)' = Kind(p)' PROVE FALSE
      BY <1>5, <2>1, <3>2
    <3> QED
      BY <2>2, <3>1, <3>2 DEF OnePrepares
  <2>3. CASE q # p
    <3>1. Launches(q) /\ Kind(q)' = Kind(q) /\ OnePrepares(q)
      BY <2>1, <2>3 DEF CarefulInv
    <3>2. Kind(q)' # Kind(p)'
      BY <1>5, <3>1
    <3>3. ASSUME NEW o \in Processes, Launches(o)', Kind(o)' = Kind(q)' PROVE o = q
      BY <2>1, <3>1, <3>2, <3>3 DEF OnePrepares
    <3> QED
      BY <3>1, <3>3 DEF OnePrepares
  <2> QED
    BY <2>2, <2>3
<1>7. \A k \in Kinds : TearsDown(k)'
  BY DEF CarefulInv, TearsDown, account
<1>8. OneScenario'
  <2>1. \A q \in Processes : \/ proc'[q].inst = NoInstance
                             \/ proc'[q].inst = proc[q].inst /\ proc'[q].of = proc[q].of
    BY <1>1
  <2> QED
    BY <2>1, ScenarioKept DEF CarefulInv
<1>9. InstancesAreOnRecord'
  BY <1>1 DEF CarefulInv, InstancesAreOnRecord, account
<1> QED
  BY <1>3, <1>6, <1>7, <1>8, <1>9 DEF CarefulInv

LEMMA StartDemoKeeps ==
  ASSUME RunsInv, Careful => CarefulInv, NEW r \in Runs, NEW s \in Scenarios, StartDemo(r, s)
  PROVE  RunsInv' /\ (Careful => CarefulInv')
<1>1. r \in Processes /\ ScriptOf(r) /\ run[r].status = "none" /\ ~IsActive(s)
  BY DEF StartDemo, Processes, RunsInv
<1>2. proc[r] = Absent
  BY <1>1 DEF ScriptOf
<1>3. /\ \A q \in Runs \ {r} : run'[q] = run[q]
      /\ run'[r].of = s /\ run'[r].status = "running"
      /\ \A q \in Processes \ {r} : proc'[q] = proc[q]
      /\ proc'[r].of = s /\ proc'[r].at = "preparing"
  BY <1>1 DEF StartDemo, RunsInv, LiveTypes, Absent
<1>4. LiveTypes'
  <2>1. run' \in [Runs -> [of : Scenarios \cup {NoScenario},
                           status : {"none", "running", "pending_approval", "succeeded", "failed",
                                     "forgotten"}]]
    BY DEF StartDemo, RunsInv, LiveTypes
  <2>2. [Absent EXCEPT !.of = s, !.at = "preparing"] \in
          [of : Scenarios \cup {NoScenario},
           at : {"none", "preparing", "launched", "created", "streaming", "waiting", "ended",
                 "raised"},
           inst : Machines \cup {NoInstance}, printed : BOOLEAN]
    BY DEF Absent
  <2>3. proc' \in [Processes ->
          [of : Scenarios \cup {NoScenario},
           at : {"none", "preparing", "launched", "created", "streaming", "waiting", "ended",
                 "raised"},
           inst : Machines \cup {NoInstance}, printed : BOOLEAN]]
    BY <2>2 DEF StartDemo, RunsInv, LiveTypes
  <2> QED
    BY <2>1, <2>3 DEF StartDemo, RunsInv, LiveTypes, account
<1>5. ASSUME NEW q \in Processes PROVE ScriptOf(q)'
  <2>1. CASE q = r
    BY <1>3, <2>1 DEF ScriptOf, Known
  <2>2. CASE q # r
    <3>1. ScriptOf(q) /\ proc'[q] = proc[q] /\ (q \in Runs => run'[q] = run[q])
      BY <1>3, <2>2 DEF RunsInv
    <3> QED
      BY <3>1 DEF ScriptOf, Known, Lives, Preparing, InPipeline
  <2> QED
    BY <2>1, <2>2
<1>6. OneRunPerScenario'
  <2> SUFFICES ASSUME NEW o \in Runs, NEW q \in Runs, Known(o)', Known(q)', run'[o].of = run'[q].of
               PROVE  o = q
    BY DEF OneRunPerScenario
  <2>1. \A t \in Runs \ {r} : Known(t)' => Known(t) /\ run'[t].of # s
    BY <1>1, <1>3 DEF Known, IsActive
  <2> QED
    BY <1>3, <2>1 DEF RunsInv, OneRunPerScenario
<1>7. Careful => CarefulInv'
  BY <1>1, <1>2, <1>3, Begins DEF StartDemo
<1> QED
  BY <1>4, <1>5, <1>6, <1>7 DEF RunsInv

LEMMA ConsoleKeeps ==
  ASSUME RunsInv, Careful => CarefulInv, NEW r \in Runs,
         ReadMarker(r) \/ WatchEnd(r) \/ ConsoleRestarts
  PROVE  RunsInv' /\ (Careful => CarefulInv')
<1>1. CASE ReadMarker(r)
  <2>1. /\ UNCHANGED <<proc, teardown, manifest, account, lost>>
        /\ run' = [run EXCEPT ![r].status = "pending_approval"] /\ run[r].status = "running"
    BY <1>1 DEF ReadMarker
  <2>2. /\ run' \in [Runs -> [of : Scenarios \cup {NoScenario},
                              status : {"none", "running", "pending_approval", "succeeded",
                                        "failed", "forgotten"}]]
        /\ \A q \in Runs : /\ run'[q].of = run[q].of
                           /\ Known(q)' => Known(q)
                           /\ run'[q].status = "none" => run[q].status = "none"
    BY <2>1 DEF RunsInv, LiveTypes, Known
  <2> QED
    BY <2>1, <2>2, ConsoleStep
<1>2. CASE WatchEnd(r)
  <2>1. PICK how \in {"succeeded", "failed"} : run' = [run EXCEPT ![r].status = how]
    BY <1>2 DEF WatchEnd
  <2>2. UNCHANGED <<proc, teardown, manifest, account, lost>>
    BY <1>2 DEF WatchEnd
  <2>3. /\ run' \in [Runs -> [of : Scenarios \cup {NoScenario},
                              status : {"none", "running", "pending_approval", "succeeded",
                                        "failed", "forgotten"}]]
        /\ \A q \in Runs : /\ run'[q].of = run[q].of
                           /\ Known(q)' => Known(q)
                           /\ run'[q].status = "none" => run[q].status = "none"
    BY <2>1 DEF RunsInv, LiveTypes, Known
  <2> QED
    BY <2>2, <2>3, ConsoleStep
<1>3. CASE ConsoleRestarts
  <2>1. /\ UNCHANGED <<proc, teardown, manifest, account, lost>>
        /\ run' = [q \in Runs |-> IF Known(q) THEN [run[q] EXCEPT !.status = "forgotten"]
                                              ELSE run[q]]
    BY <1>3 DEF ConsoleRestarts
  <2>2. /\ run' \in [Runs -> [of : Scenarios \cup {NoScenario},
                              status : {"none", "running", "pending_approval", "succeeded",
                                        "failed", "forgotten"}]]
        /\ \A q \in Runs : /\ run'[q].of = run[q].of
                           /\ Known(q)' => Known(q)
                           /\ run'[q].status = "none" => run[q].status = "none"
    BY <2>1 DEF RunsInv, LiveTypes, Known
  <2> QED
    BY <2>1, <2>2, ConsoleStep
<1> QED
  BY <1>1, <1>2, <1>3

-----------------------------------------------------------------------------
(* The real scenarios, by hand                                             *)

LEMMA SetupRealKeeps ==
  ASSUME RunsInv, Careful => CarefulInv, NEW t \in Terminals, NEW s \in Scenarios, SetupReal(t, s)
  PROVE  RunsInv' /\ (Careful => CarefulInv')
<1>1. /\ t \in Processes /\ t \notin Runs /\ proc[t] = Absent /\ UNCHANGED run
      /\ proc' = [proc EXCEPT ![t] = [Absent EXCEPT !.of = s, !.at = "preparing"]]
      /\ UNCHANGED <<teardown, manifest, account, lost>>
  BY LiveDemoAssumption DEF SetupReal, Processes
<1>2. [Absent EXCEPT !.of = s, !.at = "preparing"] \in
        [of : Scenarios \cup {NoScenario},
         at : {"none", "preparing", "launched", "created", "streaming", "waiting", "ended",
               "raised"},
         inst : Machines \cup {NoInstance}, printed : BOOLEAN]
  BY DEF Absent
<1>3. LiveTypes'
  BY <1>1, <1>2 DEF RunsInv, LiveTypes, account
<1>4. ScriptOf(t)' /\ \A q \in Processes \ {t} : proc'[q] = proc[q]
  BY <1>1 DEF ScriptOf, Absent, RunsInv, LiveTypes
<1>5. RunsInv'
  BY <1>1, <1>3, <1>4, ScriptStep
<1>6. Careful => CarefulInv'
  BY <1>1, Begins DEF SetupReal
<1> QED
  BY <1>5, <1>6

LEMMA RunRealKeeps ==
  ASSUME RunsInv, Careful => CarefulInv, NEW t \in Terminals, NEW s \in Scenarios, RunReal(t, s)
  PROVE  RunsInv' /\ (Careful => CarefulInv')
<1> DEFINE mine == <<"real", s>>
<1>1. /\ t \in Processes /\ t \notin Runs /\ proc[t] = Absent
      /\ UNCHANGED <<run, teardown, manifest, account, lost>>
      /\ proc' = [proc EXCEPT ![t] = [Absent EXCEPT !.of = s, !.at = "streaming",
                                                    !.inst = manifest[mine]]]
  BY LiveDemoAssumption DEF RunReal, Processes
<1>2. mine \in Kinds /\ mine[2] = s
  BY KindParts
<1>3. [Absent EXCEPT !.of = s, !.at = "streaming", !.inst = manifest[mine]] \in
        [of : Scenarios \cup {NoScenario},
         at : {"none", "preparing", "launched", "created", "streaming", "waiting", "ended",
               "raised"},
         inst : Machines \cup {NoInstance}, printed : BOOLEAN]
  BY <1>2 DEF Absent, RunsInv, LiveTypes
<1>4. LiveTypes'
  BY <1>1, <1>3 DEF RunsInv, LiveTypes, account
<1>5. /\ proc'[t].of = s /\ proc'[t].at = "streaming" /\ proc'[t].inst = manifest[mine]
      /\ \A q \in Processes \ {t} : proc'[q] = proc[q]
  BY <1>1 DEF Absent, RunsInv, LiveTypes
<1>6. RunsInv'
  BY <1>1, <1>4, <1>5, ScriptStep DEF ScriptOf
<1>7. ASSUME Careful PROVE CarefulInv'
  <2>1. ASSUME NEW r \in Runs PROVE NoTeardownOf(r)'
    <3>1. proc'[r] = proc[r] /\ NoTeardownOf(r) /\ (Known(r)' <=> Known(r))
      BY <1>1, <1>5, <1>7 DEF CarefulInv, Known, Processes
    <3> QED
      BY <1>1, <3>1, NoTeardownKept DEF Lives, Preparing, InPipeline, account
  <2>2. ASSUME NEW q \in Processes PROVE OnePrepares(q)'
    <3>1. \A o \in Processes : Launches(o)' => Launches(o) /\ Kind(o)' = Kind(o)
      BY <1>5 DEF Launches, Kind
    <3>2. OnePrepares(q)
      BY <1>7 DEF CarefulInv
    <3> QED
      BY <1>1, <3>1, <3>2 DEF OnePrepares
  <2>3. \A k \in Kinds : TearsDown(k)'
    BY <1>1, <1>7 DEF CarefulInv, TearsDown, account
  <2>4. OneScenario'
    <3>1. \A k \in Kinds : manifest[k] = manifest[mine] /\ manifest[k] # NoInstance => k[2] = s
      BY <1>2, <1>7 DEF CarefulInv, OneScenario
    <3>2. \A q \in Processes : proc[q].inst = manifest[mine] /\ manifest[mine] # NoInstance
                                 => proc[q].of = s
      BY <1>2, <1>7 DEF CarefulInv, OneScenario
    <3>3. ASSUME NEW q \in Processes, NEW k \in Kinds,
                 manifest[k] = proc'[q].inst, manifest[k] # NoInstance
          PROVE  k[2] = proc'[q].of
      BY <1>5, <1>7, <3>1, <3>3 DEF CarefulInv, OneScenario
    <3>4. ASSUME NEW q \in Processes, NEW o \in Processes,
                 proc'[q].inst = proc'[o].inst, proc'[q].inst # NoInstance
          PROVE  proc'[q].of = proc'[o].of
      BY <1>5, <1>7, <3>2, <3>4 DEF CarefulInv, OneScenario
    <3> QED
      BY <1>1, <1>7, <3>3, <3>4 DEF CarefulInv, OneScenario
  <2>5. InstancesAreOnRecord'
    BY <1>1, <1>5, <1>7 DEF CarefulInv, InstancesAreOnRecord, account, Absent
  <2> QED
    BY <2>1, <2>2, <2>3, <2>4, <2>5 DEF CarefulInv
<1> QED
  BY <1>6, <1>7

-----------------------------------------------------------------------------
(* The scripts                                                             *)

\* The instance is new: no manifest and no other script has it.
LEMMA LaunchInstanceKeeps ==
  ASSUME RunsInv, Careful => CarefulInv, NEW p \in Processes, LaunchInstance(p)
  PROVE  RunsInv' /\ (Careful => CarefulInv')
<1>1. PICK i \in Machines \ (instances \cup lost) :
        /\ i \notin {manifest[k] : k \in Kinds} \cup {proc[q].inst : q \in Processes}
        /\ instances' = instances \cup {i}
        /\ proc' = [proc EXCEPT ![p].at = "launched", ![p].inst = i]
  BY DEF LaunchInstance
<1>2. /\ proc[p].at = "preparing" /\ proc[p].of \in Launching
      /\ UNCHANGED <<run, teardown, manifest, named, maxSize, lost>>
      /\ i \in Machines /\ i \notin instances /\ i # NoInstance
      /\ \A k \in Kinds : manifest[k] # i
      /\ \A q \in Processes : proc[q].inst # i
  BY <1>1, LiveDemoAssumption DEF LaunchInstance
<1>3. /\ proc'[p].of = proc[p].of /\ proc'[p].at = "launched" /\ proc'[p].inst = i
      /\ \A q \in Processes \ {p} : proc'[q] = proc[q]
      /\ LiveTypes'
  BY <1>1, <1>2 DEF RunsInv, LiveTypes
<1>4. ScriptOf(p) /\ Lives(p) /\ Lives(p)'
  BY <1>2, <1>3 DEF RunsInv, Lives, Preparing
<1>5. ScriptOf(p)'
  BY <1>2, <1>3, <1>4 DEF ScriptOf, Known, Absent
<1>6. RunsInv'
  BY <1>2, <1>3, <1>5, ScriptStep
<1>7. ASSUME Careful PROVE CarefulInv'
  <2>1. ASSUME NEW r \in Runs PROVE NoTeardownOf(r)'
    <3>1. NoTeardownOf(r) /\ (Known(r)' <=> Known(r))
      BY <1>2, <1>7 DEF CarefulInv, Known
    <3>2. CASE r = p
      <4>1. proc[r].of # "edos" /\ proc[r].of \notin Named
        BY <1>2, <3>2 DEF Launching, Named
      <4> QED
        BY <1>1, <1>2, <1>3, <1>4, <3>1, <3>2, <4>1 DEF NoTeardownOf
    <3>3. CASE r # p
      <4>1. proc'[r] = proc[r]
        BY <1>3, <3>3 DEF Processes
      <4> QED
        BY <1>1, <1>2, <3>1, <4>1, NoTeardownKept DEF Lives, Preparing, InPipeline
    <3> QED
      BY <3>2, <3>3
  <2>2. ASSUME NEW q \in Processes PROVE OnePrepares(q)'
    <3>1. \A o \in Processes : (Launches(o)' <=> Launches(o)) /\ Kind(o)' = Kind(o)
      BY <1>2, <1>3 DEF Launches, Kind
    <3>2. OnePrepares(q)
      BY <1>7 DEF CarefulInv
    <3> QED
      BY <1>2, <3>1, <3>2 DEF OnePrepares
  <2>3. \A k \in Kinds : TearsDown(k)'
    BY <1>1, <1>2, <1>7 DEF CarefulInv, TearsDown
  <2>4. OneScenario'
    <3>1. ASSUME NEW q \in Processes, NEW k \in Kinds,
                 manifest[k] = proc'[q].inst, manifest[k] # NoInstance
          PROVE  k[2] = proc'[q].of
      BY <1>2, <1>3, <1>7, <3>1 DEF CarefulInv, OneScenario
    <3>2. ASSUME NEW q \in Processes, NEW o \in Processes,
                 proc'[q].inst = proc'[o].inst, proc'[q].inst # NoInstance
          PROVE  proc'[q].of = proc'[o].of
      BY <1>2, <1>3, <1>7, <3>2 DEF CarefulInv, OneScenario
    <3> QED
      BY <1>2, <1>7, <3>1, <3>2 DEF CarefulInv, OneScenario
  <2>5. InstancesAreOnRecord'
    <3> SUFFICES ASSUME NEW j \in instances'
                 PROVE  \/ j \in lost'
                        \/ \E k \in Kinds : manifest'[k] = j
                        \/ \E q \in Processes : proc'[q].at = "launched" /\ proc'[q].inst = j
      BY DEF InstancesAreOnRecord
    <3>1. CASE j = i
      BY <1>3, <3>1
    <3>2. CASE j \in instances
      <4>1. \A q \in Processes : proc[q].at = "launched" => proc'[q] = proc[q]
        BY <1>2, <1>3
      <4> QED
        BY <1>2, <1>7, <3>2, <4>1 DEF CarefulInv, InstancesAreOnRecord
    <3> QED
      BY <1>1, <3>1, <3>2
  <2> QED
    BY <2>1, <2>2, <2>3, <2>4, <2>5 DEF CarefulInv
<1> QED
  BY <1>6, <1>7

LEMMA AbsentTyped ==
  Absent \in [of : Scenarios \cup {NoScenario},
              at : {"none", "preparing", "launched", "created", "streaming", "waiting", "ended",
                    "raised"},
              inst : Machines \cup {NoInstance}, printed : BOOLEAN]
BY DEF Absent

\* Where a script goes when its resource is there.
LEMMA PreparedGoes ==
  ASSUME RunsInv, NEW p \in Processes, Prepared(p)
  PROVE  /\ \A q \in Processes \ {p} : proc'[q] = proc[q]
         /\ proc' \in [Processes -> [of : Scenarios \cup {NoScenario},
                             at : {"none", "preparing", "launched", "created", "streaming",
                                   "waiting", "ended", "raised"},
                             inst : Machines \cup {NoInstance}, printed : BOOLEAN]]
         /\ \/ p \notin Runs /\ proc'[p] = Absent
            \/ /\ p \in Runs /\ proc'[p].of = proc[p].of /\ proc'[p].inst = proc[p].inst
               /\ proc'[p].at = "streaming"
<1>1. CASE p \in Runs
  BY <1>1 DEF Prepared, ProcGoes, RunsInv, LiveTypes
<1>2. CASE p \notin Runs
  <2>1. proc' = [proc EXCEPT ![p] = Absent]
    BY <1>2 DEF Prepared, Exits
  <2> QED
    BY <1>2, <2>1, AbsentTyped DEF RunsInv, LiveTypes
<1> QED
  BY <1>1, <1>2

LEMMA ExitsDoes ==
  ASSUME RunsInv, NEW p \in Processes, NEW how \in {"ended", "raised"}, Exits(p, how)
  PROVE  /\ \A q \in Processes \ {p} : proc'[q] = proc[q]
         /\ proc' \in [Processes -> [of : Scenarios \cup {NoScenario},
                             at : {"none", "preparing", "launched", "created", "streaming",
                                   "waiting", "ended", "raised"},
                             inst : Machines \cup {NoInstance}, printed : BOOLEAN]]
         /\ ~Lives(p)'
         /\ \/ p \notin Runs /\ proc'[p] = Absent
            \/ /\ p \in Runs /\ proc'[p].of = proc[p].of /\ proc'[p].inst = proc[p].inst
               /\ proc'[p].at = how
<1>1. CASE p \in Runs
  <2>1. proc' = [proc EXCEPT ![p] = [@ EXCEPT !.at = how]]
    BY <1>1 DEF Exits
  <2>2. /\ \A q \in Processes \ {p} : proc'[q] = proc[q]
        /\ proc'[p].of = proc[p].of /\ proc'[p].inst = proc[p].inst /\ proc'[p].at = how
        /\ proc'[p].printed = proc[p].printed
    BY <2>1 DEF RunsInv, LiveTypes
  <2>3. proc' \in [Processes -> [of : Scenarios \cup {NoScenario},
                             at : {"none", "preparing", "launched", "created", "streaming",
                                   "waiting", "ended", "raised"},
                             inst : Machines \cup {NoInstance}, printed : BOOLEAN]]
    BY <2>1 DEF RunsInv, LiveTypes
  <2> QED
    BY <1>1, <2>2, <2>3 DEF Lives, Preparing, InPipeline
<1>2. CASE p \notin Runs
  <2>1. proc' = [proc EXCEPT ![p] = Absent]
    BY <1>2 DEF Exits
  <2>2. ~Lives(p)'
    BY <2>1 DEF RunsInv, LiveTypes, Absent, Lives, Preparing, InPipeline
  <2> QED
    BY <1>2, <2>1, <2>2, AbsentTyped DEF RunsInv, LiveTypes
<1> QED
  BY <1>1, <1>2

\* The instance moves from its launcher to the manifest, which was empty.
LEMMA WriteManifestKeeps ==
  ASSUME RunsInv, Careful => CarefulInv, NEW p \in Processes, WriteManifest(p)
  PROVE  RunsInv' /\ (Careful => CarefulInv')
<1> DEFINE mine == Kind(p)
<1>1. /\ proc[p].at = "launched" /\ Prepared(p) /\ Lives(p) /\ ScriptOf(p)
      /\ UNCHANGED <<run, teardown, instances, named, maxSize, lost>>
      /\ manifest' = [manifest EXCEPT ![mine] = proc[p].inst]
  BY DEF WriteManifest, account, RunsInv, Lives, Preparing
<1>2. /\ mine \in Kinds /\ mine[2] = proc[p].of /\ proc[p].of \in Launching
      /\ proc[p].inst \in Machines
  BY <1>1, KindOf DEF ScriptOf
<1>3. /\ manifest' \in [Kinds -> Machines \cup {NoInstance}]
      /\ manifest'[mine] = proc[p].inst
      /\ \A k \in Kinds \ {mine} : manifest'[k] = manifest[k]
  BY <1>1, <1>2 DEF RunsInv, LiveTypes
<1>4. /\ \A q \in Processes \ {p} : proc'[q] = proc[q]
      /\ LiveTypes'
      /\ \/ p \notin Runs /\ proc'[p] = Absent
         \/ /\ p \in Runs /\ proc'[p].of = proc[p].of /\ proc'[p].inst = proc[p].inst
            /\ proc'[p].at = "streaming"
  BY <1>1, <1>3, PreparedGoes DEF RunsInv, LiveTypes
<1>5. ScriptOf(p)'
  <2>1. CASE p \notin Runs /\ proc'[p] = Absent
    BY <2>1 DEF ScriptOf, Lives, Preparing, InPipeline, Absent
  <2>2. CASE /\ p \in Runs /\ proc'[p].of = proc[p].of /\ proc'[p].inst = proc[p].inst
             /\ proc'[p].at = "streaming"
    BY <1>1, <2>2 DEF ScriptOf, Known, Absent
  <2> QED
    BY <1>4, <2>1, <2>2
<1>6. RunsInv'
  BY <1>1, <1>4, <1>5, ScriptStep
<1>7. ASSUME Careful PROVE CarefulInv'
  <2>1. /\ manifest[mine] = NoInstance
        /\ \A q \in Processes : Launches(q) /\ Kind(q) = mine => q = p
    BY <1>1, <1>7 DEF CarefulInv, OnePrepares, Launches
  <2>2. /\ \A q \in Processes : \/ proc'[q].inst = NoInstance
                                \/ proc'[q].inst = proc[q].inst /\ proc'[q].of = proc[q].of
        /\ ~Launches(p)'
    BY <1>4 DEF Absent, Launches
  <2>3. ASSUME NEW r \in Runs PROVE NoTeardownOf(r)'
    <3>1. NoTeardownOf(r) /\ (Known(r)' <=> Known(r))
      BY <1>1, <1>7 DEF CarefulInv, Known
    <3>2. CASE r = p
      <4>1. /\ proc'[r].of = proc[r].of /\ proc'[r].inst = proc[r].inst
            /\ proc[r].of # "edos" /\ proc[r].of \notin Named
        BY <1>2, <1>4, <3>2 DEF Launching, Named
      <4> QED
        BY <1>1, <1>2, <3>1, <3>2, <4>1 DEF NoTeardownOf
    <3>3. CASE r # p
      <4>1. proc'[r] = proc[r]
        BY <1>4, <3>3 DEF Processes
      <4> QED
        BY <1>1, <3>1, <4>1, NoTeardownKept DEF Lives, Preparing, InPipeline
    <3> QED
      BY <3>2, <3>3
  <2>4. ASSUME NEW q \in Processes, Launches(q)' PROVE OnePrepares(q)'
    <3>1. \A o \in Processes : Launches(o)' => o # p /\ Launches(o) /\ proc'[o] = proc[o]
      BY <1>4, <2>2 DEF Launches
    <3>2. /\ OnePrepares(q) /\ Kind(q)' = Kind(q) /\ Kind(q) # mine
          /\ Kind(q) \in Kinds
      BY <1>7, <2>1, <2>4, <3>1, KindOf DEF CarefulInv, Kind, RunsInv, Launches, Lives, Preparing
    <3> QED
      BY <1>3, <2>4, <3>1, <3>2 DEF OnePrepares, Kind
  <2>5. ASSUME NEW k \in Kinds PROVE TearsDown(k)'
    <3>1. TearsDown(k)
      BY <1>7 DEF CarefulInv
    <3>2. teardown[k].inst # NoInstance => k # mine
      BY <2>1, <3>1 DEF TearsDown
    <3> QED
      BY <1>1, <1>3, <3>1, <3>2 DEF TearsDown
  <2>6. OneScenario'
    <3>1. \A k \in Kinds : manifest[k] = proc[p].inst => k[2] = proc[p].of
      BY <1>2, <1>7, LiveDemoAssumption DEF CarefulInv, OneScenario
    <3>2. \A q \in Processes : proc[q].inst = proc[p].inst => proc[q].of = proc[p].of
      BY <1>2, <1>7, LiveDemoAssumption DEF CarefulInv, OneScenario
    <3>3. ASSUME NEW k \in Kinds, NEW j \in Kinds, manifest'[k] = manifest'[j],
                 manifest'[k] # NoInstance
          PROVE  k[2] = j[2]
      BY <1>2, <1>3, <1>7, <3>1, <3>3 DEF CarefulInv, OneScenario
    <3>4. ASSUME NEW q \in Processes, NEW k \in Kinds,
                 manifest'[k] = proc'[q].inst, manifest'[k] # NoInstance
          PROVE  k[2] = proc'[q].of
      <4>1. proc'[q].inst = proc[q].inst /\ proc'[q].of = proc[q].of
        BY <2>2, <3>4
      <4> QED
        BY <1>2, <1>3, <1>7, <3>2, <3>4, <4>1 DEF CarefulInv, OneScenario
    <3>5. ASSUME NEW q \in Processes, NEW o \in Processes,
                 proc'[q].inst = proc'[o].inst, proc'[q].inst # NoInstance
          PROVE  proc'[q].of = proc'[o].of
      <4>1. /\ proc'[q].inst = proc[q].inst /\ proc'[q].of = proc[q].of
            /\ proc'[o].inst = proc[o].inst /\ proc'[o].of = proc[o].of
        BY <2>2, <3>5
      <4> QED
        BY <1>7, <3>5, <4>1 DEF CarefulInv, OneScenario
    <3> QED
      BY <3>3, <3>4, <3>5 DEF OneScenario
  <2>7. InstancesAreOnRecord'
    <3> SUFFICES ASSUME NEW j \in instances'
                 PROVE  \/ j \in lost'
                        \/ \E k \in Kinds : manifest'[k] = j
                        \/ \E q \in Processes : proc'[q].at = "launched" /\ proc'[q].inst = j
      BY DEF InstancesAreOnRecord
    <3>1. j # NoInstance
      BY <1>1, LiveDemoAssumption DEF RunsInv, LiveTypes
    <3>2. \/ j \in lost
          \/ \E k \in Kinds : manifest[k] = j
          \/ \E q \in Processes : proc[q].at = "launched" /\ proc[q].inst = j
      BY <1>1, <1>7 DEF CarefulInv, InstancesAreOnRecord
    <3>3. ASSUME NEW k \in Kinds, manifest[k] = j PROVE manifest'[k] = j
      BY <1>3, <2>1, <3>1, <3>3
    <3>4. ASSUME NEW q \in Processes, proc[q].at = "launched", proc[q].inst = j
          PROVE  \/ manifest'[mine] = j
                 \/ proc'[q].at = "launched" /\ proc'[q].inst = j
      BY <1>3, <1>4, <3>4
    <3> QED
      BY <1>1, <1>2, <3>2, <3>3, <3>4
  <2> QED
    BY <2>3, <2>4, <2>5, <2>6, <2>7 DEF CarefulInv, OnePrepares
<1> QED
  BY <1>6, <1>7

LEMMA EnsureNamedKeeps ==
  ASSUME RunsInv, NEW p \in Processes, EnsureNamed(p)
  PROVE  RunsInv' /\ (CarefulInv => CarefulInv')
<1>1. /\ proc[p].at = "preparing" /\ Prepared(p) /\ Lives(p)
      /\ UNCHANGED <<run, teardown, manifest, instances, maxSize, lost>>
      /\ named' = named \cup {proc[p].of} /\ proc[p].of \notin Launching /\ proc[p].of # "edos"
  BY DEF EnsureNamed, Lives, Preparing, Named, Launching
<1>2. /\ \A q \in Processes \ {p} : proc'[q] = proc[q]
      /\ proc' \in [Processes -> [of : Scenarios \cup {NoScenario},
                             at : {"none", "preparing", "launched", "created", "streaming",
                                   "waiting", "ended", "raised"},
                             inst : Machines \cup {NoInstance}, printed : BOOLEAN]]
      /\ \/ p \notin Runs /\ proc'[p] = Absent
         \/ /\ p \in Runs /\ proc'[p].of = proc[p].of /\ proc'[p].inst = proc[p].inst
            /\ proc'[p].at = "streaming"
  BY <1>1, PreparedGoes
<1>3. /\ proc'[p].at # "created"
      /\ maxSize' \in {0, 1, LiveDemoAsgMaxSize}
  BY <1>1, <1>2 DEF Absent, RunsInv, LiveTypes
<1> QED
  BY <1>1, <1>2, <1>3, MovesOn

LEMMA EnsureGroupExistsKeeps ==
  ASSUME RunsInv, NEW p \in Processes, EnsureGroupExists(p)
  PROVE  RunsInv' /\ (CarefulInv => CarefulInv')
<1>1. /\ proc[p].at = "preparing" /\ Lives(p) /\ proc[p].of = "edos"
      /\ UNCHANGED <<run, teardown, manifest, instances, named, lost>>
      /\ maxSize' = IF maxSize = 0 THEN 1 ELSE maxSize
      /\ proc[p].of \notin Launching /\ proc[p].of \notin Named
  BY DEF EnsureGroupExists, Lives, Preparing, Named, Launching
<1>2. maxSize' \in {1, LiveDemoAsgMaxSize} /\ maxSize' > 0
      /\ (maxSize = LiveDemoAsgMaxSize => maxSize' = LiveDemoAsgMaxSize)
  BY <1>1 DEF RunsInv, LiveTypes, LiveDemoAsgMaxSize
<1>3. CASE p \in Runs
  <2>1. proc' = [proc EXCEPT ![p].at = "created"]
    BY <1>3 DEF EnsureGroupExists, ProcGoes
  <2>2. /\ \A q \in Processes \ {p} : proc'[q] = proc[q]
        /\ proc' \in [Processes -> [of : Scenarios \cup {NoScenario},
                             at : {"none", "preparing", "launched", "created", "streaming",
                                   "waiting", "ended", "raised"},
                             inst : Machines \cup {NoInstance}, printed : BOOLEAN]]
        /\ proc'[p].of = proc[p].of /\ proc'[p].inst = proc[p].inst /\ proc'[p].at = "created"
    BY <2>1 DEF RunsInv, LiveTypes
  <2>3. ~InPipeline(p)'
    BY <2>2 DEF InPipeline
  <2> QED
    BY <1>1, <1>2, <1>3, <2>2, <2>3, MovesOn
<1>4. CASE p \notin Runs
  <2>1. Exits(p, "ended")
    BY <1>4 DEF EnsureGroupExists
  <2>2. /\ \A q \in Processes \ {p} : proc'[q] = proc[q]
        /\ proc' \in [Processes -> [of : Scenarios \cup {NoScenario},
                             at : {"none", "preparing", "launched", "created", "streaming",
                                   "waiting", "ended", "raised"},
                             inst : Machines \cup {NoInstance}, printed : BOOLEAN]]
        /\ proc'[p] = Absent
    BY <1>4, <2>1, ExitsDoes
  <2>3. proc'[p].at # "created"
    BY <2>2 DEF Absent
  <2> QED
    BY <1>1, <1>2, <1>4, <2>2, <2>3, MovesOn
<1> QED
  BY <1>3, <1>4

LEMMA ExtendGroupKeeps ==
  ASSUME RunsInv, NEW p \in Processes, ExtendGroup(p)
  PROVE  RunsInv' /\ (CarefulInv => CarefulInv')
<1>1. /\ proc[p].at = "created" /\ Lives(p) /\ maxSize > 0
      /\ UNCHANGED <<run, teardown, manifest, instances, named, lost>>
      /\ maxSize' = IF maxSize < LiveDemoAsgMaxSize THEN LiveDemoAsgMaxSize ELSE maxSize
      /\ proc' = [proc EXCEPT ![p].at = "streaming"]
  BY DEF ExtendGroup, Lives, Preparing, ProcGoes
<1>2. proc[p].of = "edos" /\ p \in Runs /\ proc[p].of \notin Launching /\ proc[p].of \notin Named
  BY <1>1 DEF RunsInv, ScriptOf, Launching, Named
<1>3. maxSize' = LiveDemoAsgMaxSize /\ maxSize' > 0 /\ maxSize' \in {0, 1, LiveDemoAsgMaxSize}
  BY <1>1 DEF RunsInv, LiveTypes, LiveDemoAsgMaxSize
<1>4. /\ \A q \in Processes \ {p} : proc'[q] = proc[q]
      /\ proc' \in [Processes -> [of : Scenarios \cup {NoScenario},
                             at : {"none", "preparing", "launched", "created", "streaming",
                                   "waiting", "ended", "raised"},
                             inst : Machines \cup {NoInstance}, printed : BOOLEAN]]
      /\ proc'[p].of = proc[p].of /\ proc'[p].inst = proc[p].inst /\ proc'[p].at = "streaming"
  BY <1>1 DEF RunsInv, LiveTypes
<1> QED
  BY <1>1, <1>2, <1>3, <1>4, MovesOn

LEMMA PipelineKeeps ==
  ASSUME RunsInv, NEW p \in Processes, StreamStops(p) \/ Decided(p)
  PROVE  RunsInv' /\ (CarefulInv => CarefulInv')
<1>1. /\ InPipeline(p) /\ Lives(p) /\ proc[p].at # "launched"
      /\ UNCHANGED <<run, teardown, manifest, instances, named, maxSize, lost>>
      /\ maxSize \in {0, 1, LiveDemoAsgMaxSize}
  BY DEF StreamStops, Decided, InPipeline, Lives, account, RunsInv, LiveTypes
<1>2. CASE proc' = [proc EXCEPT ![p].at = "waiting", ![p].printed = TRUE]
  <2>1. /\ \A q \in Processes \ {p} : proc'[q] = proc[q]
        /\ proc' \in [Processes -> [of : Scenarios \cup {NoScenario},
                             at : {"none", "preparing", "launched", "created", "streaming",
                                   "waiting", "ended", "raised"},
                             inst : Machines \cup {NoInstance}, printed : BOOLEAN]]
        /\ proc'[p].of = proc[p].of /\ proc'[p].inst = proc[p].inst /\ proc'[p].at = "waiting"
    BY <1>2 DEF RunsInv, LiveTypes
  <2>2. InPipeline(p)'
    BY <2>1 DEF InPipeline
  <2> QED
    BY <1>1, <2>1, <2>2, MovesOn
<1>3. CASE Exits(p, "ended")
  <2>1. /\ \A q \in Processes \ {p} : proc'[q] = proc[q]
        /\ proc' \in [Processes -> [of : Scenarios \cup {NoScenario},
                             at : {"none", "preparing", "launched", "created", "streaming",
                                   "waiting", "ended", "raised"},
                             inst : Machines \cup {NoInstance}, printed : BOOLEAN]]
        /\ ~Lives(p)'
        /\ \/ p \notin Runs /\ proc'[p] = Absent
           \/ /\ p \in Runs /\ proc'[p].of = proc[p].of /\ proc'[p].inst = proc[p].inst
              /\ proc'[p].at = "ended"
    BY <1>3, ExitsDoes
  <2>2. proc'[p].at # "created"
    BY <2>1 DEF Absent
  <2> QED
    BY <1>1, <2>1, <2>2, MovesOn
<1> QED
  BY <1>2, <1>3 DEF StreamStops, Decided

LEMMA RaiseKeeps ==
  ASSUME RunsInv, NEW p \in Processes, Raise(p)
  PROVE  RunsInv' /\ (CarefulInv => CarefulInv')
<1>1. /\ Lives(p) /\ lost \subseteq lost' /\ (proc[p].at = "launched" => proc[p].inst \in lost')
      /\ UNCHANGED <<run, teardown, manifest, instances, named, maxSize>>
      /\ maxSize \in {0, 1, LiveDemoAsgMaxSize} /\ Exits(p, "raised")
  BY DEF Raise, account, RunsInv, LiveTypes
<1>2. /\ \A q \in Processes \ {p} : proc'[q] = proc[q]
      /\ proc' \in [Processes -> [of : Scenarios \cup {NoScenario},
                             at : {"none", "preparing", "launched", "created", "streaming",
                                   "waiting", "ended", "raised"},
                             inst : Machines \cup {NoInstance}, printed : BOOLEAN]]
      /\ ~Lives(p)'
      /\ \/ p \notin Runs /\ proc'[p] = Absent
         \/ /\ p \in Runs /\ proc'[p].of = proc[p].of /\ proc'[p].inst = proc[p].inst
            /\ proc'[p].at = "raised"
  BY <1>1, ExitsDoes
<1>3. proc'[p].at # "created"
  BY <1>2 DEF Absent
<1> QED
  BY <1>1, <1>2, <1>3, MovesOn

-----------------------------------------------------------------------------
(* The teardowns                                                           *)

LEMMA TeardownBegins ==
  ASSUME RunsInv, Careful => CarefulInv, NEW s \in Scenarios, Reset(s) \/ TeardownReal(s)
  PROVE  RunsInv' /\ (Careful => CarefulInv')
<1>1. PICK k \in Kinds :
        /\ k[2] = s /\ teardown[k] = NoTeardown
        /\ teardown' = [teardown EXCEPT ![k].at = "begin"]
        /\ UNCHANGED <<run, proc, manifest, account, lost>>
  BY KindParts DEF Reset, TeardownReal
<1>2. /\ \A j \in Kinds \ {k} : teardown'[j] = teardown[j]
      /\ teardown'[k].at = "begin" /\ teardown'[k].inst = NoInstance
      /\ LiveTypes'
  BY <1>1 DEF RunsInv, LiveTypes, NoTeardown, account
<1>3. RunsInv'
  BY <1>1, <1>2, TeardownStep
<1>4. ASSUME Careful PROVE CarefulInv'
  <2>1. ASSUME NEW r \in Runs, Known(r), Lives(r) PROVE proc[r].of # k[2]
    <3>1. r \in Processes /\ ScriptOf(r)
      BY DEF RunsInv, Processes
    <3> QED
      BY <1>1, <1>4, <2>1, <3>1 DEF Reset, TeardownReal, IsActive, ScriptOf
  <2>2. TearsDown(k)'
    BY <1>2 DEF TearsDown
  <2> QED
    BY <1>1, <1>2, <1>4, <2>1, <2>2, TeardownMoves DEF account
<1> QED
  BY <1>3, <1>4

LEMMA TeardownKeeps ==
  ASSUME RunsInv, NEW k \in Kinds, Teardown(k)
  PROVE  RunsInv' /\ (CarefulInv => CarefulInv')
<1>1. teardown[k].at # "none" /\ UNCHANGED <<run, proc, lost>>
  BY DEF Teardown, ReadManifest, Terminate, UnlinkManifest, DeleteNamed, DeleteGroup
<1>2. /\ \A j \in Kinds \ {k} : teardown'[j] = teardown[j]
      /\ teardown' \in [Kinds -> [at : {"none", "begin", "terminate", "unlink"},
                                  inst : Machines \cup {NoInstance}]]
  <2>1. manifest[k] \in Machines \cup {NoInstance} /\ NoTeardown \in
          [at : {"none", "begin", "terminate", "unlink"}, inst : Machines \cup {NoInstance}]
    BY DEF RunsInv, LiveTypes, NoTeardown
  <2>2. CASE Over(k)
    BY <2>1, <2>2 DEF Over, RunsInv, LiveTypes
  <2>3. CASE teardown' = [teardown EXCEPT ![k] = [at |-> "terminate", inst |-> manifest[k]]]
    BY <2>1, <2>3 DEF RunsInv, LiveTypes
  <2>4. CASE teardown' = [teardown EXCEPT ![k].at = "unlink"]
    BY <2>4 DEF RunsInv, LiveTypes
  <2> QED
    BY <2>2, <2>3, <2>4
       DEF Teardown, ReadManifest, Terminate, UnlinkManifest, DeleteNamed, DeleteGroup
<1>3. /\ \A j \in Kinds \ {k} : manifest'[j] = manifest[j]
      /\ manifest'[k] \in {manifest[k], NoInstance}
      /\ manifest' \in [Kinds -> Machines \cup {NoInstance}]
  BY DEF Teardown, ReadManifest, Terminate, UnlinkManifest, DeleteNamed, DeleteGroup, RunsInv,
         LiveTypes, account
<1>4. /\ instances' \subseteq instances /\ instances' \subseteq Machines
      /\ \A s \in named \ named' : s = k[2]
      /\ maxSize' \in {maxSize, 0} /\ (maxSize' # maxSize => k[2] = "edos")
  BY DEF Teardown, ReadManifest, Terminate, UnlinkManifest, DeleteNamed, DeleteGroup, RunsInv,
         LiveTypes, account
<1>5. RunsInv'
  <2>1. LiveTypes'
    BY <1>1, <1>2, <1>3, <1>4 DEF RunsInv, LiveTypes
  <2> QED
    BY <1>1, <2>1, TeardownStep
<1>6. ASSUME CarefulInv PROVE CarefulInv'
  <2>1. \A r \in Runs : Known(r) /\ Lives(r) => proc[r].of # k[2]
    BY <1>1, <1>6, UnderWay
  <2>2. TearsDown(k)
    BY <1>6 DEF CarefulInv
  <2>3. CASE Over(k) /\ UNCHANGED instances /\ ~UnlinkManifest(k)
    <3>1. UNCHANGED manifest
      BY <2>3 DEF Teardown, ReadManifest, Terminate, DeleteNamed, DeleteGroup, account
    <3>2. TearsDown(k)'
      BY <2>3 DEF Over, TearsDown, RunsInv, LiveTypes, NoTeardown
    <3> QED
      BY <1>1, <1>2, <1>3, <1>4, <1>6, <2>1, <2>3, <3>1, <3>2, TeardownMoves
  <2>4. CASE ReadManifest(k) /\ manifest[k] # NoInstance
    <3>1. /\ teardown' = [teardown EXCEPT ![k] = [at |-> "terminate", inst |-> manifest[k]]]
          /\ UNCHANGED <<manifest, instances>>
      BY <2>4 DEF ReadManifest, account
    <3>2. TearsDown(k)'
      BY <2>4, <3>1 DEF TearsDown, RunsInv, LiveTypes
    <3> QED
      BY <1>1, <1>2, <1>3, <1>4, <1>6, <2>1, <3>1, <3>2, TeardownMoves
  <2>5. CASE /\ teardown[k].at = "terminate" /\ UNCHANGED manifest
             /\ instances' = instances \ {teardown[k].inst}
             /\ teardown' = [teardown EXCEPT ![k].at = "unlink"]
    <3>1. /\ teardown'[k].at = "unlink" /\ teardown'[k].inst = teardown[k].inst
          /\ manifest[k] = teardown[k].inst /\ manifest[k] # NoInstance
      BY <2>2, <2>5 DEF TearsDown, RunsInv, LiveTypes
    <3>2. TearsDown(k)'
      BY <2>5, <3>1 DEF TearsDown
    <3> QED
      BY <1>1, <1>2, <1>3, <1>4, <1>6, <2>1, <2>5, <3>1, <3>2, TeardownMoves
  <2>6. CASE UnlinkManifest(k)
    <3>1. teardown[k].at = "unlink" /\ Over(k) /\ UNCHANGED instances
      BY <2>6 DEF UnlinkManifest, account
    <3>2. manifest[k] \notin instances'
      BY <2>2, <3>1 DEF TearsDown
    <3>3. TearsDown(k)'
      BY <3>1 DEF Over, TearsDown, RunsInv, LiveTypes, NoTeardown
    <3> QED
      BY <1>1, <1>2, <1>3, <1>4, <1>6, <2>1, <3>1, <3>2, <3>3, TeardownMoves
  <2> QED
    BY <2>3, <2>4, <2>5, <2>6
       DEF Teardown, ReadManifest, Terminate, DeleteNamed, DeleteGroup, account
<1> QED
  BY <1>5, <1>6

LEMMA LiveKept ==
  ASSUME RunsInv, Careful => CarefulInv, [LiveNext]_liveVars
  PROVE  RunsInv' /\ (Careful => CarefulInv')
<1>1. CASE UNCHANGED liveVars
  <2> USE <1>1 DEF liveVars
  <2>1. LiveTypes' /\ OneRunPerScenario'
    BY DEF RunsInv, LiveTypes, OneRunPerScenario, Known
  <2>2. \A p \in Processes : ScriptOf(p)'
    BY DEF RunsInv, ScriptOf, Lives, Preparing, InPipeline, Known
  <2>3. ASSUME Careful PROVE CarefulInv'
    <3> USE <2>3
    <3>1. \A r \in Runs : NoTeardownOf(r)'
      BY DEF CarefulInv, NoTeardownOf, Known, Lives, Preparing, InPipeline
    <3>2. \A p \in Processes : OnePrepares(p)'
      BY DEF CarefulInv, OnePrepares, Launches, Kind
    <3>3. (\A k \in Kinds : TearsDown(k)') /\ OneScenario' /\ InstancesAreOnRecord'
      BY DEF CarefulInv, TearsDown, OneScenario, InstancesAreOnRecord
    <3> QED
      BY <3>1, <3>2, <3>3 DEF CarefulInv
  <2> QED
    BY <2>1, <2>2, <2>3 DEF RunsInv
<1>2. CASE Console
  <2>1. ASSUME ConsoleRestarts PROVE \E r \in Runs : TRUE
    BY <2>1 DEF ConsoleRestarts
  <2> QED
    BY <1>2, <2>1, TeardownBegins, StartDemoKeeps, ConsoleKeeps DEF Console
<1>3. CASE ByHand
  BY <1>3, TeardownBegins, SetupRealKeeps, RunRealKeeps DEF ByHand
<1>4. ASSUME NEW p \in Processes, Scenario(p) PROVE RunsInv' /\ (Careful => CarefulInv')
  BY <1>4, LaunchInstanceKeeps, WriteManifestKeeps, EnsureNamedKeeps, EnsureGroupExistsKeeps,
     ExtendGroupKeeps, PipelineKeeps, RaiseKeeps DEF Scenario
<1>5. ASSUME NEW k \in Kinds, Teardown(k) PROVE RunsInv' /\ (Careful => CarefulInv')
  BY <1>5, TeardownKeeps
<1> QED
  BY <1>1, <1>2, <1>3, <1>4, <1>5 DEF LiveNext

LEMMA LiveInvariance == LiveSpec => [](RunsInv /\ (Careful => CarefulInv))
<1>1. LiveInit => RunsInv /\ (Careful => CarefulInv)
  BY InitRuns, InitCareful
<1>2. RunsInv /\ (Careful => CarefulInv) /\ [LiveNext]_liveVars
        => (RunsInv /\ (Careful => CarefulInv))'
  BY LiveKept
<1> QED
  BY <1>1, <1>2, PTL DEF LiveSpec

\* No two live scripts of one scenario are of runs this console knows, whatever the
\* operator does: start_demo checks, launches and enters a run under one lock.
THEOREM OneScriptEach == LiveSpec => []OneScriptPerScenario
<1>1. RunsInv => OneScriptPerScenario
  BY DEF RunsInv, OneRunPerScenario, OneScriptPerScenario
<1> QED
  BY <1>1, LiveInvariance, PTL

\* With a careful operator nothing takes away the instance, function, bucket or group a
\* known run works on, also while the run waits for its approval.
THEOREM RunsKeepTheirResource == Careful => (LiveSpec => []RunKeepsItsResource)
<1> SUFFICES ASSUME Careful PROVE LiveSpec => []RunKeepsItsResource
  OBVIOUS
<1>1. ASSUME RunsInv, CarefulInv PROVE RunKeepsItsResource
  <2> SUFFICES ASSUME NEW r \in Runs, Known(r), InPipeline(r) PROVE HasResource(r)
    BY DEF RunKeepsItsResource
  <2>1. /\ proc[r].of \in Scenarios /\ NoTeardownOf(r) /\ Lives(r) /\ proc[r].at # "preparing"
    BY <1>1 DEF RunsInv, CarefulInv, ScriptOf, Lives, InPipeline, Processes
  <2>2. /\ proc[r].of \in Launching => proc[r].inst \in instances
        /\ proc[r].of \in Named => proc[r].of \in named
        /\ proc[r].of = "edos" => maxSize > 0
    BY <2>1 DEF NoTeardownOf
  <2>3. /\ proc[r].of \in Launching \/ proc[r].of \in Named \/ proc[r].of = "edos"
        /\ ~(proc[r].of \in Launching /\ proc[r].of \in Named)
        /\ proc[r].of = "edos" => proc[r].of \notin Launching /\ proc[r].of \notin Named
    BY <2>1, LiveDemoAssumption DEF Launching, Named
  <2>4. CASE proc[r].of \in Launching
    BY <2>2, <2>3, <2>4 DEF HasResource
  <2>5. CASE proc[r].of \in Named
    BY <2>2, <2>3, <2>5 DEF HasResource
  <2>6. CASE proc[r].of = "edos"
    BY <2>2, <2>3, <2>6 DEF HasResource
  <2> QED
    BY <2>3, <2>4, <2>5, <2>6
<1>2. RunsInv /\ (Careful => CarefulInv) => RunKeepsItsResource
  BY <1>1
<1> QED
  BY <1>2, LiveInvariance, PTL

\* With a careful operator every instance is in a manifest, or its launcher is about to
\* write it down or failed before it could: a teardown takes the name away last, and
\* no script writes over the name of an instance that is there.
THEOREM InstancesCanBeFound == Careful => (LiveSpec => []InstancesAreOnRecord)
<1> SUFFICES ASSUME Careful PROVE LiveSpec => []InstancesAreOnRecord
  OBVIOUS
<1>1. RunsInv /\ (Careful => CarefulInv) => InstancesAreOnRecord
  BY DEF CarefulInv
<1> QED
  BY <1>1, LiveInvariance, PTL

\* With a careful operator the group of a known EDoS scenario has its room while the
\* pipeline looks at it, whoever made the group.
THEOREM GroupsHaveRoom == Careful => (LiveSpec => []GroupHasRoom)
<1> SUFFICES ASSUME Careful PROVE LiveSpec => []GroupHasRoom
  OBVIOUS
<1>1. ASSUME RunsInv, CarefulInv PROVE GroupHasRoom
  <2> SUFFICES ASSUME NEW r \in Runs, Known(r), InPipeline(r), run[r].of = "edos"
               PROVE  maxSize = LiveDemoAsgMaxSize
    BY DEF GroupHasRoom
  <2>1. NoTeardownOf(r) /\ Lives(r) /\ proc[r].of = "edos"
    BY <1>1 DEF RunsInv, CarefulInv, ScriptOf, Lives, Processes
  <2> QED
    BY <2>1 DEF NoTeardownOf
<1>2. RunsInv /\ (Careful => CarefulInv) => GroupHasRoom
  BY <1>1
<1> QED
  BY <1>2, LiveInvariance, PTL
=============================================================================
