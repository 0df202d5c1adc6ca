---------------------------- MODULE TrialsProofs ----------------------------
(***************************************************************************)
(* The capacity trials and the traffic trial, for any sizes, capacities,   *)
(* quotas and calls of the scripts: the jitter of the baseline does not    *)
(* reach into the spike, a surge is counted where it was sent, and a run   *)
(* that was checked has its instances.                                     *)
(***************************************************************************)
EXTENDS ScalingTrial, FiniteSetTheorems, TLAPS

-----------------------------------------------------------------------------
(***************************************************************************)
(* The jitter                                                              *)
(***************************************************************************)
JitterThreads == [at : {"off", "waiting", "calling"}, level : {Low, High}, stop : BOOLEAN]

TrialTypes ==
  /\ DOMAIN desired = Groups
  /\ jitter \in [Groups -> JitterThreads]
  /\ trial \in [Groups -> [at : {"none", "baseline", "join", "sustain", "after", "finally",
                                 "restore", "ended", "not restored"},
                           spiked : BOOLEAN, result : {"none", "short", "measured", "error"}]]

\* Only the groups of one script have a jitter.  It is told to stop before the trial
\* waits for it, has stopped before the spike, and nothing starts it again before the
\* next run.
SpikeInv(g) ==
  /\ ~Jitters(g) => jitter[g].at = "off"
  /\ run = NoRun => trial[g].at = "none"
  /\ trial[g].at = "join" /\ Jitters(g) => jitter[g].stop
  /\ ~slow /\ trial[g].at \in {"sustain", "after"} =>
       jitter[g].at = "off" /\ desired[g] = Spike(g)

JitterInv == TrialTypes /\ \A g \in Groups : SpikeInv(g)

LEMMA InitJitter == Init => JitterInv
<1> SUFFICES ASSUME Init PROVE JitterInv
  OBVIOUS
<1>1. TrialTypes
  BY DEF Init, TrialTypes, JitterThreads, NoThread, NoTrial
<1>2. \A g \in Groups : jitter[g].at = "off" /\ trial[g].at = "none"
  BY DEF Init, NoThread, NoTrial
<1> QED
  BY <1>1, <1>2 DEF JitterInv, SpikeInv

\* A step of one group: what it has to show.
LEMMA GroupStep ==
  ASSUME JitterInv, NEW g \in Groups, UNCHANGED <<run, slow>>, TrialTypes', SpikeInv(g)',
         \A h \in Groups \ {g} : /\ desired'[h] = desired[h]
                                 /\ jitter'[h] = jitter[h] /\ trial'[h] = trial[h]
  PROVE  JitterInv'
<1>1. ASSUME NEW h \in Groups PROVE SpikeInv(h)'
  <2>1. CASE h = g
    BY <2>1
  <2>2. CASE h # g
    <3>1. SpikeInv(h)
      BY DEF JitterInv
    <3> QED
      BY <2>2, <3>1 DEF SpikeInv, Jitters, Spike
  <2> QED
    BY <2>1, <2>2
<1> QED
  BY <1>1 DEF JitterInv

\* A thread that is put in its new place.
LEMMA ThreadSet ==
  ASSUME JitterInv, NEW g \in Groups, NEW j \in JitterThreads, jitter' = [jitter EXCEPT ![g] = j]
  PROVE  /\ jitter' \in [Groups -> JitterThreads] /\ jitter'[g] = j
         /\ \A h \in Groups \ {g} : jitter'[h] = jitter[h]
BY DEF JitterInv, TrialTypes

LEMMA ThreadGoes ==
  ASSUME NEW j \in JitterThreads, NEW at \in {"off", "waiting", "calling"}
  PROVE  [j EXCEPT !.at = at] \in JitterThreads /\ [j EXCEPT !.at = at].stop = j.stop
BY DEF JitterThreads

LEMMA ThreadTurns ==
  ASSUME NEW j \in JitterThreads, NEW at \in {"off", "waiting", "calling"},
         NEW level \in {Low, High}
  PROVE  /\ [j EXCEPT !.at = at, !.level = level] \in JitterThreads
         /\ [j EXCEPT !.at = at, !.level = level].stop = j.stop
BY DEF JitterThreads

LEMMA ThreadTold ==
  ASSUME NEW j \in JitterThreads, NEW stop \in BOOLEAN
  PROVE  /\ [j EXCEPT !.stop = stop] \in JitterThreads
         /\ [j EXCEPT !.stop = stop].at = j.at /\ [j EXCEPT !.stop = stop].stop = stop
BY DEF JitterThreads

LEMMA ThreadKeeps ==
  ASSUME JitterInv, NEW g \in Groups, Toggle(g) \/ ToggleEnds(g) \/ ThreadEnds(g)
  PROVE  JitterInv'
<1>1. SpikeInv(g) /\ jitter[g].at # "off" /\ UNCHANGED <<trial, run, slow>>
  BY DEF JitterInv, Toggle, ToggleEnds, ThreadEnds
<1>2. trial[g].at \notin {"sustain", "after"} \/ slow
  BY <1>1 DEF SpikeInv
<1>3. /\ DOMAIN desired' = Groups
      /\ \A h \in Groups \ {g} : desired'[h] = desired[h] /\ jitter'[h] = jitter[h]
      /\ trial[g].at = "join" /\ jitter[g].stop => jitter'[g].stop
      /\ jitter' \in [Groups -> JitterThreads]
  <2> USE DEF JitterInv, TrialTypes
  <2>0. jitter[g] \in JitterThreads /\ Low \in {Low, High}
    OBVIOUS
  <2>1. CASE Toggle(g)
    <3>1. PICK level \in {Low, High} :
            jitter' = [jitter EXCEPT ![g] = [jitter[g] EXCEPT !.at = "calling", !.level = level]]
      BY <2>1 DEF Toggle
    <3> DEFINE j == [jitter[g] EXCEPT !.at = "calling", !.level = level]
    <3>2. j \in JitterThreads /\ j.stop = jitter[g].stop
      BY <2>0, ThreadTurns
    <3>3. UNCHANGED desired
      BY <2>1 DEF Toggle
    <3> HIDE DEF j
    <3>4. jitter' = [jitter EXCEPT ![g] = j]
      BY <3>1 DEF j
    <3> QED
      BY <3>2, <3>3, <3>4, ThreadSet
  <2>2. CASE ToggleEnds(g)
    <3>1. DOMAIN desired' = Groups /\ \A h \in Groups \ {g} : desired'[h] = desired[h]
      BY <2>2 DEF ToggleEnds, JitterInv, TrialTypes
    <3>2. CASE run = NoRun
      <4>1. trial[g].at # "join" /\ jitter' = [jitter EXCEPT ![g] = NoThread]
        BY <1>1, <2>2, <3>2 DEF ToggleEnds, SpikeInv
      <4>2. NoThread \in JitterThreads
        BY DEF NoThread, JitterThreads
      <4> QED
        BY <3>1, <4>1, <4>2, ThreadSet
    <3>3. CASE run # NoRun
      <4>1. jitter' = [jitter EXCEPT ![g] = [jitter[g] EXCEPT !.at = "waiting"]]
        BY <2>2, <3>3 DEF ToggleEnds
      <4>2. /\ [jitter[g] EXCEPT !.at = "waiting"] \in JitterThreads
            /\ [jitter[g] EXCEPT !.at = "waiting"].stop = jitter[g].stop
        BY <2>0, ThreadGoes
      <4> QED
        BY <3>1, <4>1, <4>2, ThreadSet
    <3> QED
      BY <3>2, <3>3
  <2>3. CASE ThreadEnds(g)
    <3> DEFINE j == [jitter[g] EXCEPT !.at = "off", !.level = Low]
    <3>1. j \in JitterThreads /\ j.stop = jitter[g].stop
      BY <2>0, ThreadTurns
    <3>2. UNCHANGED desired /\ jitter' = [jitter EXCEPT ![g] = j]
      BY <2>3 DEF ThreadEnds
    <3> HIDE DEF j
    <3> QED
      BY <3>1, <3>2, ThreadSet
  <2> QED
    BY <2>1, <2>2, <2>3
<1>4. TrialTypes'
  BY <1>1, <1>3 DEF JitterInv, TrialTypes
<1>5. SpikeInv(g)'
  BY <1>1, <1>2, <1>3 DEF SpikeInv, Jitters
<1> QED
  BY <1>1, <1>3, <1>4, <1>5, GroupStep

LEMMA TrialKeeps ==
  ASSUME JitterInv, NEW g \in Groups,
         StopJitter(g) \/ JoinSpike(g) \/ Sustain(g) \/ Measure(g) \/ Raise(g) \/ Finally(g)
           \/ Restore(g)
  PROVE  JitterInv'
<1>1. SpikeInv(g) /\ UNCHANGED <<run, slow>> /\ run # NoRun
  BY DEF JitterInv, SpikeInv, StopJitter, JoinSpike, Sustain, Measure, Raise, Finally, Restore
<1>2. CASE StopJitter(g)
  <2>1. /\ jitter' = [jitter EXCEPT ![g] = [jitter[g] EXCEPT !.stop = Jitters(g)]]
        /\ UNCHANGED desired
    BY <1>2 DEF StopJitter
  <2> trial' = [trial EXCEPT ![g].at = "join"]
    BY <1>2 DEF StopJitter, Goes
  <2>2. /\ jitter[g] \in JitterThreads /\ Jitters(g) \in BOOLEAN
    BY DEF JitterInv, TrialTypes, Jitters
  <2>3. /\ [jitter[g] EXCEPT !.stop = Jitters(g)] \in JitterThreads
        /\ [jitter[g] EXCEPT !.stop = Jitters(g)].at = jitter[g].at
        /\ [jitter[g] EXCEPT !.stop = Jitters(g)].stop = Jitters(g)
    BY <2>2, ThreadTold
  <2>4. /\ jitter' \in [Groups -> JitterThreads]
        /\ jitter'[g].stop = Jitters(g) /\ jitter'[g].at = jitter[g].at
        /\ \A h \in Groups \ {g} : jitter'[h] = jitter[h]
    BY <2>1, <2>3, ThreadSet
  <2>5. /\ TrialTypes' /\ trial'[g].at = "join"
        /\ \A h \in Groups \ {g} : trial'[h] = trial[h]
    <3>1. /\ trial'[g].at = "join"
          /\ \A h \in Groups \ {g} : trial'[h] = trial[h]
      BY DEF JitterInv, TrialTypes
    <3>2. TrialTypes'
      <4>1. TrialTypes /\ DOMAIN desired' = DOMAIN desired /\ jitter' \in [Groups -> JitterThreads]
        BY <2>1, <2>4 DEF JitterInv
      <4> QED
        BY <4>1 DEF TrialTypes
    <3> QED
      BY <3>1, <3>2
  <2>6. SpikeInv(g)'
    BY <1>1, <2>4, <2>5 DEF SpikeInv, Jitters
  <2> QED
    BY <1>1, <2>1, <2>4, <2>5, <2>6, GroupStep
<1>3. CASE JoinSpike(g)
  <2>1. /\ trial[g].at = "join" /\ Joined(g) /\ UNCHANGED jitter
        /\ desired' = [desired EXCEPT ![g] = Spike(g)]
        /\ trial' = [trial EXCEPT ![g].at = "sustain", ![g].spiked = TRUE]
    BY <1>3 DEF JoinSpike
  <2>2. /\ TrialTypes' /\ trial'[g].at = "sustain" /\ desired'[g] = Spike(g)
        /\ \A h \in Groups \ {g} : desired'[h] = desired[h] /\ trial'[h] = trial[h]
    BY <2>1 DEF JitterInv, TrialTypes
  <2>3. ~slow => jitter[g].at = "off"
    BY <1>1, <2>1 DEF SpikeInv, Joined
  <2>4. SpikeInv(g)'
    BY <1>1, <2>1, <2>2, <2>3 DEF SpikeInv, Jitters, Spike
  <2> QED
    BY <1>1, <2>1, <2>2, <2>4, GroupStep
<1>4. CASE Sustain(g) \/ Measure(g) \/ Raise(g)
  <2>1. PICK where \in {"after", "finally"}, result \in {"none", "short", "measured", "error"} :
          trial' = [trial EXCEPT ![g].at = where, ![g].result = result]
    BY <1>4 DEF Sustain, Measure, Raise, JitterInv, TrialTypes
  <2>2. UNCHANGED <<desired, jitter>> /\ (where = "after" => trial[g].at = "sustain")
    <3>1. CASE Sustain(g)
      BY <3>1 DEF Sustain
    <3>2. CASE Measure(g) \/ Raise(g)
      <4>1. trial'[g].at = where
        BY <2>1 DEF JitterInv, TrialTypes
      <4>2. trial'[g].at = "finally"
        BY <3>2 DEF Measure, Raise, JitterInv, TrialTypes
      <4> QED
        BY <3>2, <4>1, <4>2 DEF Measure, Raise
    <3> QED
      BY <1>4, <3>1, <3>2
  <2>3. /\ TrialTypes' /\ trial'[g].at = where
        /\ \A h \in Groups \ {g} : trial'[h] = trial[h]
    BY <2>1, <2>2 DEF JitterInv, TrialTypes
  <2>4. SpikeInv(g)'
    BY <1>1, <2>2, <2>3 DEF SpikeInv, Jitters, Spike
  <2> QED
    BY <1>1, <2>2, <2>3, <2>4, GroupStep
<1>5. CASE Finally(g)
  <2>1. /\ jitter' = [jitter EXCEPT ![g] = [jitter[g] EXCEPT !.stop = Jitters(g)]]
        /\ UNCHANGED desired
    BY <1>5 DEF Finally
  <2> trial' = [trial EXCEPT ![g].at = "restore"]
    BY <1>5 DEF Finally, Goes
  <2>2. /\ jitter[g] \in JitterThreads /\ Jitters(g) \in BOOLEAN
    BY DEF JitterInv, TrialTypes, Jitters
  <2>3. /\ [jitter[g] EXCEPT !.stop = Jitters(g)] \in JitterThreads
        /\ [jitter[g] EXCEPT !.stop = Jitters(g)].at = jitter[g].at
        /\ [jitter[g] EXCEPT !.stop = Jitters(g)].stop = Jitters(g)
    BY <2>2, ThreadTold
  <2>4. /\ jitter' \in [Groups -> JitterThreads]
        /\ jitter'[g].stop = Jitters(g) /\ jitter'[g].at = jitter[g].at
        /\ \A h \in Groups \ {g} : jitter'[h] = jitter[h]
    BY <2>1, <2>3, ThreadSet
  <2>5. /\ TrialTypes' /\ trial'[g].at = "restore"
        /\ \A h \in Groups \ {g} : trial'[h] = trial[h]
    <3>1. /\ trial'[g].at = "restore"
          /\ \A h \in Groups \ {g} : trial'[h] = trial[h]
      BY DEF JitterInv, TrialTypes
    <3>2. TrialTypes'
      <4>1. TrialTypes /\ DOMAIN desired' = DOMAIN desired /\ jitter' \in [Groups -> JitterThreads]
        BY <2>1, <2>4 DEF JitterInv
      <4> QED
        BY <4>1 DEF TrialTypes
    <3> QED
      BY <3>1, <3>2
  <2>6. SpikeInv(g)'
    BY <1>1, <2>4, <2>5 DEF SpikeInv, Jitters
  <2> QED
    BY <1>1, <2>1, <2>4, <2>5, <2>6, GroupStep
<1>6. CASE Restore(g)
  <2>1. PICK where \in {"ended", "not restored"} : trial' = [trial EXCEPT ![g].at = where]
    BY <1>6 DEF Restore, Goes
  <2>2. /\ UNCHANGED jitter /\ DOMAIN desired' = Groups
        /\ \A h \in Groups \ {g} : desired'[h] = desired[h]
    BY <1>6 DEF Restore, JitterInv, TrialTypes
  <2>3. /\ TrialTypes' /\ trial'[g].at = where
        /\ \A h \in Groups \ {g} : trial'[h] = trial[h]
    BY <2>1, <2>2 DEF JitterInv, TrialTypes
  <2>4. SpikeInv(g)'
    BY <1>1, <2>2, <2>3 DEF SpikeInv, Jitters
  <2> QED
    BY <1>1, <2>2, <2>3, <2>4, GroupStep
<1> QED
  BY <1>2, <1>3, <1>4, <1>5, <1>6

LEMMA StartKeeps ==
  ASSUME JitterInv, Starts \/ Exit
  PROVE  JitterInv'
<1>1. CASE \E s \in Scripts : \E n \in CapacitySizes[s] : Setup(s, n) \/ Teardown(s, n)
  <2>1. /\ run = NoRun /\ UNCHANGED <<jitter, trial, run, slow>>
        /\ DOMAIN desired' = Groups
    BY <1>1 DEF Setup, Teardown, Idle
  <2>2. \A g \in Groups : SpikeInv(g) /\ trial[g].at = "none"
    BY <2>1 DEF JitterInv, SpikeInv
  <2> QED
    BY <2>1, <2>2 DEF JitterInv, TrialTypes, SpikeInv, Jitters
<1>2. ASSUME NEW s \in Scripts, NEW n \in CapacitySizes[s], Run(s, n) PROVE JitterInv'
  <2>1. /\ UNCHANGED <<desired, slow>>
        /\ trial' = [g \in Groups |->
                       IF g \in Own(s, n) THEN [NoTrial EXCEPT !.at = "baseline"] ELSE NoTrial]
        /\ jitter' = [g \in Groups |->
                        IF g \in Own(s, n) /\ Jitters(g) THEN [NoThread EXCEPT !.at = "waiting"]
                        ELSE NoThread]
        /\ run' = [members |-> Own(s, n), checked |-> Peak(s, n) <= Quota]
    BY <1>2 DEF Run
  <2>2. TrialTypes'
    BY <2>1 DEF JitterInv, TrialTypes, JitterThreads, NoTrial, NoThread
  <2>3. ASSUME NEW g \in Groups PROVE SpikeInv(g)'
    <3>1. /\ ~Jitters(g) => jitter'[g].at = "off"
          /\ trial'[g].at \in {"baseline", "none"}
          /\ trial'[g].at = "baseline" => g \in Own(s, n)
      BY <2>1 DEF NoTrial, NoThread
    <3>2. run' = NoRun => g \notin Own(s, n)
      BY <2>1 DEF NoRun
    <3> QED
      BY <3>1, <3>2 DEF SpikeInv, Jitters
  <2> QED
    BY <2>2, <2>3 DEF JitterInv
<1>3. CASE Exit
  <2>1. /\ UNCHANGED <<desired, slow>> /\ trial' = [g \in Groups |-> NoTrial]
        /\ jitter' = [g \in Groups |-> IF jitter[g].at = "calling" THEN jitter[g] ELSE NoThread]
    BY <1>3 DEF Exit
  <2>2. TrialTypes'
    BY <2>1 DEF JitterInv, TrialTypes, JitterThreads, NoTrial, NoThread
  <2>3. ASSUME NEW g \in Groups PROVE SpikeInv(g)'
    <3>1. trial'[g].at = "none" /\ (~Jitters(g) => jitter'[g].at = "off")
      BY <2>1 DEF JitterInv, SpikeInv, NoTrial, NoThread
    <3> QED
      BY <3>1 DEF SpikeInv, Jitters
  <2> QED
    BY <2>2, <2>3 DEF JitterInv
<1> QED
  BY <1>1, <1>2, <1>3 DEF Starts

LEMMA JitterKept == JitterInv /\ [Next]_vars => JitterInv'
<1> SUFFICES ASSUME JitterInv, [Next]_vars PROVE JitterInv'
  OBVIOUS
<1>1. CASE UNCHANGED scalingVars
  <2>1. UNCHANGED <<desired, jitter, trial, run, slow>>
    BY <1>1 DEF scalingVars
  <2> QED
    BY <2>1 DEF JitterInv, TrialTypes, SpikeInv, Jitters, Spike
<1>2. CASE Starts \/ Exit \/ \E g \in Groups : Steps(g)
  BY <1>2, StartKeeps, ThreadKeeps, TrialKeeps DEF Steps
<1> QED
  BY <1>1, <1>2 DEF Next, vars

\* While AWS answers within the join, what the second detection sees is the spike: no
\* toggle of the baseline comes after it, whatever raises, is killed or is run next.
THEOREM SpikesAreMeasured == Spec => []SpikeIsMeasured
<1>1. JitterInv => SpikeIsMeasured
  BY DEF JitterInv, SpikeInv, SpikeIsMeasured
<1> QED
  BY <1>1, InitJitter, JitterKept, PTL DEF Spec

-----------------------------------------------------------------------------
(***************************************************************************)
(* The traffic                                                             *)
(***************************************************************************)
TrafficTypes ==
  /\ DOMAIN listener = Ports
  /\ setup \in [size : Sizes \cup {NoSetup.size}, todo : SUBSET TrafficGroups, done : BOOLEAN]
  /\ traffic \in [TrafficGroups -> {"none", "baseline", "surge", "done"}]
  /\ setup.todo # {} => setup.size \in Sizes /\ setup.todo \subseteq Members(setup.size)
  /\ setup.todo # {} => traffic = Quiet /\ ~setup.done

\* A careful --setup lays its listeners over nothing but its own ones: a port forwards
\* to the group whose port it is, and a group that was made has its port.  What the
\* manifest says is so from the end of a --setup on, and stays so while a trial is on.
Laid ==
  /\ \A p \in Ports : listener[p] # NoGroup =>
        listener[p] \in Members(setup.size) /\ Port(setup.size, listener[p]) = p
  /\ setup.todo # {} =>
        \A g \in Members(setup.size) \ setup.todo : listener[Port(setup.size, g)] = g
  /\ setup.done => /\ manifest = [h \in Members(setup.size) |-> Port(setup.size, h)]
                   /\ \A h \in Members(setup.size) : listener[Port(setup.size, h)] = h
  /\ traffic # Quiet => setup.done
  /\ \A h \in TrafficGroups : traffic[h] # "none" => h \in DOMAIN manifest

TrafficInv == TrafficTypes /\ (Careful => Laid)

\* Two groups of one size have two ports.
LEMMA PortsDiffer ==
  ASSUME NEW n \in Sizes, NEW g \in Members(n), NEW h \in Members(n), Port(n, g) = Port(n, h)
  PROVE  g = h
<1>1. n \in [Labels -> Nat] /\ {"anomaly", "edge", "normal"} = Labels
  BY TrafficAssumption DEF Labels
<1>2. n["anomaly"] \in Nat /\ n["edge"] \in Nat /\ n["normal"] \in Nat
  BY <1>1
<1>3. /\ g \in Labels \X (0 .. 9) /\ h \in Labels \X (0 .. 9)
      /\ g[2] < n[g[1]] /\ h[2] < n[h[1]]
  BY DEF Members
<1>4. /\ g = <<g[1], g[2]>> /\ g[1] \in {"anomaly", "edge", "normal"} /\ g[2] \in Nat
      /\ h = <<h[1], h[2]>> /\ h[1] \in {"anomaly", "edge", "normal"} /\ h[2] \in Nat
  BY <1>1, <1>3
<1>5. \A k : /\ k[1] = "anomaly" => Port(n, k) = k[2]
             /\ k[1] = "edge" => Port(n, k) = n["anomaly"] + k[2]
             /\ k[1] = "normal" => Port(n, k) = n["anomaly"] + n["edge"] + k[2]
  BY DEF Port
<1>6. g[1] = h[1] /\ g[2] = h[2]
  <2>1. CASE g[1] = "anomaly"
    BY <1>2, <1>3, <1>4, <1>5, <2>1
  <2>2. CASE g[1] = "edge"
    BY <1>2, <1>3, <1>4, <1>5, <2>2
  <2>3. CASE g[1] = "normal"
    BY <1>2, <1>3, <1>4, <1>5, <2>3
  <2> QED
    BY <1>4, <2>1, <2>2, <2>3
<1> QED
  BY <1>4, <1>6

LEMMA MembersHavePorts ==
  ASSUME NEW n \in Sizes
  PROVE  Members(n) \subseteq TrafficGroups /\ \A g \in Members(n) : Port(n, g) \in Ports
BY DEF TrafficGroups, Ports

LEMMA InitTraffic == TrafficInit => TrafficInv
<1> SUFFICES ASSUME TrafficInit PROVE TrafficInv
  OBVIOUS
<1>1. TrafficTypes
  BY DEF TrafficInit, TrafficTypes, NoSetup, Quiet
<1>2. Laid
  BY DEF TrafficInit, Laid, NoSetup, Quiet
<1> QED
  BY <1>1, <1>2 DEF TrafficInv

LEMMA TrafficSetupKeeps ==
  ASSUME TrafficInv, NEW n \in Sizes, TrafficSetup(n)
  PROVE  TrafficInv'
<1>1. /\ setup.todo = {} /\ traffic = Quiet /\ UNCHANGED <<listener, manifest, traffic>>
      /\ setup' = [size |-> n, todo |-> Members(n), done |-> FALSE]
      /\ Careful => n = setup.size \/ \A p \in Ports : listener[p] = NoGroup
  BY DEF TrafficSetup, TrafficIdle
<1>2. TrafficTypes'
  BY <1>1, MembersHavePorts DEF TrafficInv, TrafficTypes, Quiet
<1>3. ASSUME Careful PROVE Laid'
  <2>1. setup'.size = n /\ setup'.todo = Members(n) /\ ~setup'.done
    BY <1>1
  <2>2. \A p \in Ports : listener[p] # NoGroup => listener[p] \in Members(n) /\ Port(n, listener[p]) = p
    BY <1>1, <1>3 DEF TrafficInv, Laid
  <2>3. \A h \in TrafficGroups : traffic[h] = "none"
    BY <1>1 DEF Quiet
  <2> QED
    BY <1>1, <2>1, <2>2, <2>3 DEF Laid, Quiet
<1> QED
  BY <1>2, <1>3 DEF TrafficInv

\* The port of the group is free, or the group has it already.
LEMMA EnsureGroupKeeps ==
  ASSUME TrafficInv, NEW g \in TrafficGroups, EnsureGroup(g)
  PROVE  TrafficInv'
<1> DEFINE n == setup.size
           port == Port(n, g)
<1>1. /\ g \in setup.todo /\ n \in Sizes /\ g \in Members(n) /\ port \in Ports
      /\ UNCHANGED traffic /\ traffic = Quiet /\ ~setup.done
      /\ setup.todo \subseteq Members(n)
  BY MembersHavePorts DEF EnsureGroup, TrafficInv, TrafficTypes
<1>2. setup'.size = n /\ setup'.todo = setup.todo \ {g} /\ (setup'.done <=> setup'.todo = {})
  <2>1. CASE setup.todo # {g}
    BY <1>1, <2>1 DEF EnsureGroup, TrafficInv, TrafficTypes
  <2>2. CASE setup.todo = {g}
    <3>1. setup' = [setup EXCEPT !.todo = {}, !.done = TRUE]
      BY <2>2 DEF EnsureGroup
    <3> QED
      BY <2>2, <3>1 DEF TrafficInv, TrafficTypes
  <2> QED
    BY <2>1, <2>2
<1>3. setup' \in [size : Sizes \cup {NoSetup.size}, todo : SUBSET TrafficGroups, done : BOOLEAN]
  BY <1>1 DEF EnsureGroup, TrafficInv, TrafficTypes
<1>4. /\ DOMAIN listener' = Ports
      /\ listener'[port] = IF listener[port] = NoGroup THEN g ELSE listener[port]
      /\ \A p \in Ports \ {port} : listener'[p] = listener[p]
  BY <1>1 DEF EnsureGroup, TrafficInv, TrafficTypes
<1>5. TrafficTypes'
  BY <1>1, <1>2, <1>3, <1>4 DEF TrafficInv, TrafficTypes, Quiet
<1>6. ASSUME Careful PROVE Laid'
  <2>1. listener'[port] = g
    <3>1. CASE listener[port] = NoGroup
      BY <1>4, <3>1
    <3>2. CASE listener[port] # NoGroup
      <4>1. listener[port] \in Members(n) /\ Port(n, listener[port]) = port
        BY <1>1, <1>6, <3>2 DEF TrafficInv, Laid
      <4>2. listener[port] = g
        BY <1>1, <4>1, PortsDiffer
      <4> QED
        BY <1>4, <3>2, <4>2
    <3> QED
      BY <3>1, <3>2
  <2>2. ASSUME NEW p \in Ports, listener'[p] # NoGroup
        PROVE  listener'[p] \in Members(n) /\ Port(n, listener'[p]) = p
    <3>1. CASE p = port
      BY <1>1, <2>1, <3>1
    <3>2. CASE p # port
      BY <1>4, <1>6, <2>2, <3>2 DEF TrafficInv, Laid
    <3> QED
      BY <3>1, <3>2
  <2>3. ASSUME NEW h \in Members(n) \ setup'.todo PROVE listener'[Port(n, h)] = h
    <3>1. CASE h = g
      BY <2>1, <3>1
    <3>2. CASE h # g
      <4>1. listener[Port(n, h)] = h
        BY <1>1, <1>2, <1>6, <3>2 DEF TrafficInv, Laid
      <4>2. Port(n, h) # port /\ Port(n, h) \in Ports
        BY <1>1, <3>2, PortsDiffer, MembersHavePorts
      <4> QED
        BY <1>4, <4>1, <4>2
    <3> QED
      BY <3>1, <3>2
  <2>4. setup'.done => manifest' = [h \in Members(n) |-> Port(n, h)]
    BY <1>1, <1>2 DEF EnsureGroup
  <2>5. \A h \in TrafficGroups : traffic[h] = "none"
    BY <1>1 DEF Quiet
  <2> HIDE DEF n, port
  <2>6. \A h \in Members(n) : setup'.done => listener'[Port(n, h)] = h
    BY <1>2, <2>3
  <2> QED
    BY <1>1, <1>2, <2>2, <2>3, <2>4, <2>5, <2>6 DEF Laid, Quiet
<1> QED
  BY <1>5, <1>6 DEF TrafficInv

LEMMA SetupStopsKeeps ==
  ASSUME TrafficInv, SetupStops
  PROVE  TrafficInv'
<1>1. /\ setup.todo # {} /\ setup' = [setup EXCEPT !.todo = {}]
      /\ UNCHANGED <<listener, manifest, traffic>>
  BY DEF SetupStops
<1>2. setup'.size = setup.size /\ setup'.todo = {} /\ setup'.done = setup.done
  BY <1>1 DEF TrafficInv, TrafficTypes
<1>3. TrafficTypes'
  BY <1>1, <1>2 DEF TrafficInv, TrafficTypes
<1>4. Careful => Laid'
  BY <1>1, <1>2 DEF TrafficInv, Laid, Quiet
<1> QED
  BY <1>3, <1>4 DEF TrafficInv

LEMMA TrafficTeardownKeeps ==
  ASSUME TrafficInv, NEW n \in Sizes, TrafficTeardown(n)
  PROVE  TrafficInv'
<1>1. /\ setup.todo = {} /\ traffic = Quiet /\ UNCHANGED <<manifest, traffic>>
      /\ setup' = [setup EXCEPT !.done = FALSE]
  BY DEF TrafficTeardown, TrafficIdle
<1>2. setup'.size = setup.size /\ setup'.todo = {} /\ ~setup'.done
  BY <1>1 DEF TrafficInv, TrafficTypes
<1>3. DOMAIN listener' = Ports /\ \A p \in Ports : listener'[p] \in {listener[p], NoGroup}
  BY DEF TrafficTeardown
<1>4. TrafficTypes'
  BY <1>1, <1>2, <1>3 DEF TrafficInv, TrafficTypes
<1>5. ASSUME Careful PROVE Laid'
  <2>1. \A p \in Ports : listener'[p] # NoGroup => listener'[p] = listener[p]
    BY <1>3
  <2> QED
    BY <1>1, <1>2, <1>5, <2>1 DEF TrafficInv, Laid, Quiet
<1> QED
  BY <1>4, <1>5 DEF TrafficInv

LEMMA TrafficRunKeeps ==
  ASSUME TrafficInv, NEW n \in Sizes, TrafficRun(n)
  PROVE  TrafficInv'
<1>1. /\ setup.todo = {} /\ UNCHANGED <<listener, manifest, setup>>
      /\ Careful => setup.done
      /\ traffic' = [g \in TrafficGroups |-> IF g \in Started(n) THEN "baseline" ELSE "none"]
  BY DEF TrafficRun, TrafficIdle
<1>2. TrafficTypes'
  BY <1>1 DEF TrafficInv, TrafficTypes
<1>3. \A h \in TrafficGroups : traffic'[h] # "none" => h \in DOMAIN manifest
  <2> SUFFICES ASSUME NEW h \in TrafficGroups, h \in Started(n) PROVE h \in DOMAIN manifest
    BY <1>1
  <2>1. h \in Members(n)
    BY DEF Started
  <2>2. Port(n, h) \in Nat
    <3>1. n["anomaly"] \in Nat /\ n["edge"] \in Nat /\ n["normal"] \in Nat
      BY TrafficAssumption DEF Labels
    <3>2. h[1] \in {"anomaly", "edge", "normal"} /\ h[2] \in Nat
      BY <2>1 DEF Members, Labels
    <3> QED
      BY <3>1, <3>2 DEF Port
  <2> QED
    BY <2>1, <2>2 DEF Started
<1>4. Careful => Laid'
  BY <1>1, <1>3 DEF TrafficInv, Laid
<1> QED
  BY <1>2, <1>4 DEF TrafficInv

LEMMA TrialStepKeeps ==
  ASSUME TrafficInv, NEW g \in TrafficGroups, Surge(g) \/ After(g) \/ TrialRaises(g)
  PROVE  TrafficInv'
<1>1. /\ traffic[g] # "none" /\ UNCHANGED <<listener, manifest, setup>>
  BY DEF Surge, After, TrialRaises
<1>2. PICK where \in {"surge", "done"} : traffic' = [traffic EXCEPT ![g] = where]
  BY DEF Surge, After, TrialRaises
<1>3. traffic # Quiet
  BY <1>1 DEF Quiet
<1>4. TrafficTypes'
  BY <1>1, <1>2, <1>3 DEF TrafficInv, TrafficTypes
<1>5. \A h \in TrafficGroups : traffic'[h] # "none" => traffic[h] # "none"
  BY <1>1, <1>2 DEF TrafficInv, TrafficTypes
<1>6. Careful => Laid'
  BY <1>1, <1>3, <1>5 DEF TrafficInv, Laid
<1> QED
  BY <1>4, <1>6 DEF TrafficInv

LEMMA TrafficEndsKeeps ==
  ASSUME TrafficInv, NEW ends, TrafficEnds(ends)
  PROVE  TrafficInv'
<1>1. traffic' = Quiet /\ UNCHANGED <<listener, manifest, setup>> /\ traffic # Quiet
  BY DEF TrafficEnds
<1>2. TrafficTypes'
  BY <1>1 DEF TrafficInv, TrafficTypes, Quiet
<1>3. Careful => Laid'
  BY <1>1 DEF TrafficInv, Laid, Quiet
<1> QED
  BY <1>2, <1>3 DEF TrafficInv

LEMMA TrafficKept == TrafficInv /\ [Next]_vars => TrafficInv'
<1> SUFFICES ASSUME TrafficInv, [Next]_vars PROVE TrafficInv'
  OBVIOUS
<1>1. CASE UNCHANGED trafficVars
  <2>1. UNCHANGED <<listener, manifest, setup, traffic>>
    BY <1>1 DEF trafficVars
  <2>2. TrafficTypes'
    BY <2>1 DEF TrafficInv, TrafficTypes
  <2>3. Careful => Laid'
    BY <2>1 DEF TrafficInv, Laid
  <2> QED
    BY <2>2, <2>3 DEF TrafficInv
<1>2. CASE TrafficStarts
  BY <1>2, TrafficSetupKeeps, TrafficTeardownKeeps, TrafficRunKeeps DEF TrafficStarts
<1>3. CASE TrafficSteps
  BY <1>3, SetupStopsKeeps, TrafficEndsKeeps, EnsureGroupKeeps, TrialStepKeeps DEF TrafficSteps
<1>4. CASE Starts \/ Exit \/ \E g \in Groups : Steps(g)
  <2>1. UNCHANGED trafficVars
    BY <1>4 DEF Starts, Setup, Teardown, Run, Exit, Steps, Toggle, ToggleEnds, ThreadEnds,
                StopJitter, JoinSpike, Sustain, Measure, Raise, Finally, Restore
  <2> QED
    BY <1>1, <2>1
<1> QED
  BY <1>1, <1>2, <1>3, <1>4 DEF Next, vars

\* While no limit is on the load balancer, the surge of a trial is counted for its own
\* group and no other: the port it is sent to is the one its --setup laid out, whatever
\* sizes were set up, torn down or left half done before.
THEOREM SurgesAreCountedAtHome == Careful => (Spec => []SurgeCountedAtHome)
<1> SUFFICES ASSUME Careful PROVE Spec => []SurgeCountedAtHome
  OBVIOUS
<1>1. ASSUME TrafficInv PROVE SurgeCountedAtHome
  <2> SUFFICES ASSUME NEW h \in TrafficGroups, traffic[h] = "surge", ~alb.limited
               PROVE  {g \in TrafficGroups : h \in Counted(g)} = {h}
    BY DEF SurgeCountedAtHome
  <2>1. traffic # Quiet /\ Laid
    BY <1>1 DEF Quiet, TrafficInv
  <2>2. h \in Members(setup.size) /\ manifest[h] = Port(setup.size, h)
    BY <2>1 DEF Laid
  <2>3. listener[manifest[h]] = h
    BY <2>1, <2>2 DEF Laid
  <2> QED
    BY <2>3 DEF Counted
<1>2. TrafficInv => SurgeCountedAtHome
  BY <1>1
<1> QED
  BY <1>2, InitTraffic, TrafficKept, PTL DEF Spec, Init
-----------------------------------------------------------------------------
(***************************************************************************)
(* The instances                                                           *)
(***************************************************************************)
\* A group never has more than its trial, or its jitter, asks for.
Sized(g) ==
  /\ desired[g] \in Nat \cup {Gone}
  /\ Jitters(g) => Size(g) <= IF Anomaly(g) THEN AnomalyCapacity ELSE High

\* What a trial has come to tells what its group is.
Marked(g) ==
  /\ trial[g].result = "short" => Jitters(g)
  /\ trial[g].at = "join" => Anomaly(g)

\* While a run is on nothing else in the account changes, so that what its check counted
\* still stands.
Checked ==
  /\ TrafficIdle
  /\ \A g \in Groups \ run.members : jitter[g].at = "off" /\ trial[g].at = "none"
  /\ \E s \in Scripts : \E n \in CapacitySizes[s] :
       run.members = Own(s, n) /\ (run.checked /\ s = "jitter" => Peak(s, n) <= Quota)

BudgetInv ==
  /\ groups \subseteq TrafficGroups
  /\ \A g \in Groups : Sized(g)
  /\ \A g \in Groups : Marked(g)
  /\ run # NoRun => Checked
  /\ EnoughInstances

Pairs(gs) == UNION {{g} \X (1 .. Size(g)) : g \in gs}

LEMMA Numbered ==
  ASSUME NEW k \in Nat PROVE IsFiniteSet(1 .. k) /\ Cardinality(1 .. k) = k
<1>1. 1 \in Int /\ k \in Int
  OBVIOUS
<1>2. /\ IsFiniteSet(1 .. k)
      /\ Cardinality(1 .. k) = IF 1 > k THEN 0 ELSE k - 1 + 1
  BY <1>1, FS_Interval, Zenon
<1> QED
  BY <1>2

LEMMA GroupsAreFinite == IsFiniteSet(Groups) /\ IsFiniteSet(TrafficGroups)
<1> DEFINE Triples == Scripts \X {"anomaly", "normal"} \X (0 .. 9)
           Nested  == Scripts \X ({"anomaly", "normal"} \X (0 .. 9))
           f == [g \in Triples |-> <<g[1], <<g[2], g[3]>>>>]
<1>1. IsFiniteSet(0 .. 9)
  <2>1. 0 \in Int /\ 9 \in Int
    OBVIOUS
  <2> QED
    BY <2>1, FS_Interval, Zenon
<1>2. IsFiniteSet(Scripts) /\ IsFiniteSet({"anomaly", "normal"}) /\ IsFiniteSet(Labels)
  <2>1. /\ Scripts = ({} \cup {"jitter"}) \cup {"edos"}
        /\ {"anomaly", "normal"} = ({} \cup {"anomaly"}) \cup {"normal"}
        /\ Labels = (({} \cup {"anomaly"}) \cup {"edge"}) \cup {"normal"}
    BY DEF Scripts, Labels
  <2>2. \A S, x : IsFiniteSet(S) => IsFiniteSet(S \cup {x})
    BY FS_AddElement
  <2>3. IsFiniteSet({})
    BY FS_EmptySet
  <2> QED
    BY <2>1, <2>2, <2>3, Zenon
<1>3. IsFiniteSet(Nested) /\ IsFiniteSet(Labels \X (0 .. 9))
  BY <1>1, <1>2, FS_Product
<1>4. f \in Injection(Triples, Nested)
  BY DEF Injection, IsInjective
<1>5. IsFiniteSet(Triples)
  <2> HIDE DEF f, Triples, Nested
  <2> QED
    BY <1>3, <1>4, FS_Injection
<1>6. Groups \subseteq Triples /\ TrafficGroups \subseteq Labels \X (0 .. 9)
  BY DEF Groups, Own, TrafficGroups, Members
<1> HIDE DEF Triples
<1> QED
  BY <1>3, <1>5, <1>6, FS_Subset

\* The groups of a run with one label are as many as it was given, or ten.
LEMMA OwnAreCounted ==
  ASSUME NEW s \in Scripts, NEW n \in CapacitySizes[s], NEW l \in {"anomaly", "normal"},
         NEW S, S = {g \in Own(s, n) : g[2] = l}
  PROVE  n[l] \in Nat /\ IsFiniteSet(S) /\ Cardinality(S) <= n[l]
<1> DEFINE f == [g \in S |-> g[3] + 1]
<1>1. n[l] \in Nat
  BY ScalingAssumption
<1>2. \A g \in S : g = <<s, l, g[3]>> /\ g[3] \in 0 .. 9 /\ g[3] < n[l]
  BY DEF Own
<1>3. f \in Injection(S, 1 .. n[l])
  <2>1. \A g \in S : g[3] + 1 \in 1 .. n[l]
    BY <1>1, <1>2
  <2>2. \A g, h \in S : g[3] + 1 = h[3] + 1 => g = h
    <3>1. \A g, h \in S : g[3] + 1 = h[3] + 1 => g[3] = h[3]
      BY <1>2
    <3> QED
      BY <1>2, <3>1
  <2> QED
    BY <2>1, <2>2 DEF Injection, IsInjective
<1>4. IsFiniteSet(1 .. n[l]) /\ Cardinality(1 .. n[l]) = n[l]
  BY <1>1, Numbered
<1> HIDE DEF f
<1> QED
  BY <1>1, <1>3, <1>4, FS_Injection

\* The instances of finitely many groups are finitely many.
LEMMA PairsAreFinite ==
  ASSUME NEW gs, IsFiniteSet(gs), \A g \in gs : Size(g) \in Nat
  PROVE  IsFiniteSet(Pairs(gs)) /\ Cardinality(Pairs(gs)) \in Nat
<1> DEFINE Of(g) == {g} \X (1 .. Size(g))
           T == {Of(g) : g \in gs}
           f == [g \in gs |-> Of(g)]
<1>1. ASSUME NEW g \in gs PROVE IsFiniteSet(Of(g))
  <2>1. IsFiniteSet({g}) /\ IsFiniteSet(1 .. Size(g))
    BY Numbered, FS_Singleton
  <2> QED
    BY <2>1, FS_Product
<1>2. f \in Surjection(gs, T)
  BY DEF Surjection
<1>3. IsFiniteSet(T)
  <2> HIDE DEF f, T
  <2> QED
    BY <1>2, FS_Surjection
<1>4. \A U \in T : IsFiniteSet(U)
  BY <1>1
<1>5. Pairs(gs) = UNION T
  BY DEF Pairs
<1>6. IsFiniteSet(UNION T)
  <2> HIDE DEF T
  <2> QED
    BY <1>3, <1>4, FS_UNION
<1> QED
  BY <1>5, <1>6, FS_CardinalityType

\* Groups with at most k instances each have at most k times as many.
LEMMA PairsAreBounded ==
  ASSUME NEW gs, IsFiniteSet(gs), NEW k \in Nat,
         \A g \in gs : Size(g) \in Nat /\ Size(g) <= k
  PROVE  Cardinality(Pairs(gs)) <= Cardinality(gs) * k
<1>1. Pairs(gs) \subseteq gs \X (1 .. k)
  <2> SUFFICES ASSUME NEW g \in gs, NEW i \in 1 .. Size(g) PROVE i \in 1 .. k
    BY DEF Pairs
  <2> QED
    OBVIOUS
<1>2. IsFiniteSet(1 .. k) /\ Cardinality(1 .. k) = k
  BY Numbered
<1>3. IsFiniteSet(gs \X (1 .. k)) /\ Cardinality(gs \X (1 .. k)) = Cardinality(gs) * k
  BY <1>2, FS_Product
<1> QED
  BY <1>1, <1>3, FS_Subset

LEMMA TimesGrows ==
  ASSUME NEW a \in Nat, NEW b \in Nat, NEW k \in Nat, a <= b
  PROVE  a * k <= b * k
<1>1. PICK c \in Nat : b = a + c
  <2>1. b - a \in Nat /\ b = a + (b - a)
    OBVIOUS
  <2> QED
    BY <2>1
<1>2. (a + c) * k = a * k + c * k /\ c * k \in Nat /\ a * k \in Nat
  OBVIOUS
<1> QED
  BY <1>1, <1>2

\* A checked run fits into the quota, unless a larger setup left groups behind that
\* carry its tag: what others have is counted, and of its own each has what it may.
LEMMA RunHasRoom ==
  ASSUME BudgetInv, NEW n \in CapacitySizes["jitter"], run.members = Own("jitter", n),
         Peak("jitter", n) <= Quota,
         \A h \in Groups \ run.members : Jitters(h) => ~(Size(h) > 0)
  PROVE  Running <= Quota
<1> DEFINE A == {g \in Own("jitter", n) : g[2] = "anomaly"}
           N == {g \in Own("jitter", n) : g[2] = "normal"}
           R == {g \in Groups : ~Jitters(g)}
<1>1. Own("jitter", n) \subseteq Groups /\ "jitter" \in Scripts
  BY DEF Groups, Scripts
<1>2. \A g \in Groups : Size(g) \in Nat
  BY DEF BudgetInv, Sized, Size
<1>3. /\ \A g \in A : Size(g) \in Nat /\ Size(g) <= AnomalyCapacity
      /\ \A g \in N : Size(g) \in Nat /\ Size(g) <= High
  <2>1. \A g \in Own("jitter", n) : Jitters(g)
    BY DEF Own, Jitters
  <2> QED
    BY <1>1, <1>2, <2>1 DEF BudgetInv, Sized, Anomaly
<1>4. /\ n["anomaly"] \in Nat /\ IsFiniteSet(A) /\ Cardinality(A) <= n["anomaly"]
      /\ n["normal"] \in Nat /\ IsFiniteSet(N) /\ Cardinality(N) <= n["normal"]
  BY <1>1, OwnAreCounted
<1>5. IsFiniteSet(R) /\ IsFiniteSet(Groups) /\ R \subseteq Groups
  BY GroupsAreFinite, FS_Subset
<1>6. /\ IsFiniteSet(Pairs(A)) /\ Cardinality(Pairs(A)) \in Nat
      /\ IsFiniteSet(Pairs(N)) /\ Cardinality(Pairs(N)) \in Nat
      /\ IsFiniteSet(Pairs(R)) /\ Cardinality(Pairs(R)) \in Nat
      /\ IsFiniteSet(Pairs(Groups)) /\ Cardinality(Pairs(Groups)) \in Nat
  <2> HIDE DEF A, N, R
  <2> QED
    BY <1>2, <1>3, <1>4, <1>5, PairsAreFinite
<1>7. /\ Cardinality(Pairs(A)) <= n["anomaly"] * AnomalyCapacity
      /\ Cardinality(Pairs(N)) <= n["normal"] * High
  <2>1. /\ Cardinality(A) \in Nat /\ Cardinality(N) \in Nat
        /\ AnomalyCapacity \in Nat /\ High \in Nat
    BY <1>4, FS_CardinalityType, ScalingAssumption DEF High
  <2> HIDE DEF A, N
  <2>2. /\ Cardinality(Pairs(A)) <= Cardinality(A) * AnomalyCapacity
        /\ Cardinality(Pairs(N)) <= Cardinality(N) * High
    BY <1>3, <1>4, <2>1, PairsAreBounded
  <2>3. /\ Cardinality(A) * AnomalyCapacity <= n["anomaly"] * AnomalyCapacity
        /\ Cardinality(N) * High <= n["normal"] * High
    BY <1>4, <2>1, TimesGrows
  <2>4. /\ Cardinality(A) * AnomalyCapacity \in Nat /\ n["anomaly"] * AnomalyCapacity \in Nat
        /\ Cardinality(N) * High \in Nat /\ n["normal"] * High \in Nat
    BY <1>4, <2>1
  <2> QED
    BY <1>6, <2>2, <2>3, <2>4
<1>8. Pairs(Groups) \subseteq (Pairs(A) \cup Pairs(N)) \cup Pairs(R)
  <2> SUFFICES ASSUME NEW g \in Groups, NEW i \in 1 .. Size(g)
               PROVE  g \in A \/ g \in N \/ g \in R
    BY DEF Pairs
  <2>1. Size(g) > 0
    BY <1>2
  <2>2. CASE g \in Own("jitter", n)
    BY <2>2 DEF Own
  <2>3. CASE g \notin Own("jitter", n)
    BY <2>1, <2>3
  <2> QED
    BY <2>2, <2>3
<1>9. Cardinality(Pairs(Groups))
        <= Cardinality(Pairs(A)) + Cardinality(Pairs(N)) + Cardinality(Pairs(R))
  <2> HIDE DEF A, N, R
  <2> DEFINE AN == Pairs(A) \cup Pairs(N)
  <2>1. /\ IsFiniteSet(AN)
        /\ Cardinality(AN) = Cardinality(Pairs(A)) + Cardinality(Pairs(N))
                               - Cardinality(Pairs(A) \cap Pairs(N))
        /\ Cardinality(Pairs(A) \cap Pairs(N)) \in Nat
    BY <1>6, FS_Union, FS_Intersection, FS_CardinalityType
  <2> HIDE DEF AN
  <2>2. /\ IsFiniteSet(AN \cup Pairs(R))
        /\ Cardinality(AN \cup Pairs(R)) = Cardinality(AN) + Cardinality(Pairs(R))
                                             - Cardinality(AN \cap Pairs(R))
        /\ Cardinality(AN \cap Pairs(R)) \in Nat
    BY <1>6, <2>1, FS_Union, FS_Intersection, FS_CardinalityType
  <2>3. Cardinality(Pairs(Groups)) <= Cardinality(AN \cup Pairs(R))
    BY <1>8, <2>2, FS_Subset DEF AN
  <2>4. Cardinality(AN) \in Nat /\ Cardinality(AN \cup Pairs(R)) \in Nat
    BY <2>1, <2>2, FS_CardinalityType
  <2> QED
    BY <1>6, <2>1, <2>2, <2>3, <2>4
<1>10. Cardinality(groups) \in Nat
  BY GroupsAreFinite, FS_Subset, FS_CardinalityType DEF BudgetInv
<1>11. /\ Running = Cardinality(groups) + Cardinality(Pairs(Groups))
       /\ Peak("jitter", n) = Cardinality(groups) + Cardinality(Pairs(R))
                                + n["normal"] * High + n["anomaly"] * AnomalyCapacity
  BY DEF Running, Peak, Instances, Pairs
<1>12. /\ n["normal"] * High \in Nat /\ n["anomaly"] * AnomalyCapacity \in Nat
       /\ Quota \in Nat
  BY <1>4, ScalingAssumption DEF High
<1> HIDE DEF A, N, R
<1> QED
  BY <1>6, <1>7, <1>9, <1>10, <1>11, <1>12

\* While a run is on nobody sets up or runs the traffic trial.
LEMMA TrafficWaits ==
  ASSUME TrafficInv, BudgetInv, (TrafficStarts /\ Idle) \/ TrafficSteps, UNCHANGED scalingVars
  PROVE  BudgetInv'
<1>1. UNCHANGED <<desired, jitter, trial, run, slow>>
  BY DEF scalingVars
<1>2. run = NoRun
  <2>1. CASE Idle
    BY <2>1 DEF Idle
  <2>2. CASE TrafficSteps
    <3> SUFFICES ASSUME TrafficIdle PROVE FALSE
      BY DEF BudgetInv, Checked
    <3>1. setup.todo = {} /\ traffic = Quiet /\ \A g \in TrafficGroups : traffic[g] = "none"
      BY DEF TrafficIdle, Quiet
    <3> QED
      BY <2>2, <3>1 DEF TrafficSteps, SetupStops, TrafficEnds, EnsureGroup, Surge, After,
                         TrialRaises
  <2> QED
    BY <2>1, <2>2
<1>3. groups' \subseteq TrafficGroups
  <2>1. CASE TrafficStarts
    BY <2>1 DEF TrafficStarts, TrafficSetup, TrafficTeardown, TrafficRun, BudgetInv
  <2>2. CASE TrafficSteps
    BY <2>2 DEF TrafficSteps, SetupStops, TrafficEnds, EnsureGroup, Surge, After, TrialRaises,
                BudgetInv
  <2> QED
    BY <2>1, <2>2
<1>4. \A g \in Groups : Sized(g)'
  BY <1>1 DEF BudgetInv, Sized, Size, Jitters, Anomaly
<1>5. \A g \in Groups : Marked(g)'
  BY <1>1 DEF BudgetInv, Marked, Jitters, Anomaly
<1>6. run' = NoRun /\ EnoughInstances'
  BY <1>1, <1>2 DEF EnoughInstances, NoRun
<1> QED
  BY <1>3, <1>4, <1>5, <1>6 DEF BudgetInv

\* What --setup and --teardown leave of a group.
LEMMA SetupSizes ==
  ASSUME BudgetInv, High <= AnomalyCapacity, NEW s \in Scripts, NEW n \in CapacitySizes[s],
         Setup(s, n) \/ Teardown(s, n)
  PROVE  BudgetInv'
<1>1. run = NoRun /\ UNCHANGED <<groups, trial, run>>
  BY DEF Setup, Teardown, Idle, trafficVars
<1>2. ASSUME NEW g \in Groups PROVE Sized(g)'
  <2>1. desired'[g] \in {desired[g], Low, 0, Gone}
    <3>1. CASE Setup(s, n)
      BY <3>1 DEF Setup, Ensured
    <3>2. CASE Teardown(s, n)
      <4>1. PICK end \in [Own(s, n) -> {"kept", "emptied", "deleted"}] :
              desired' = [h \in Groups |->
                       CASE h \notin Own(s, n) \/ desired[h] = Gone -> desired[h]
                         [] OTHER -> CASE end[h] = "kept" -> desired[h]
                                       [] end[h] = "emptied" -> 0
                                       [] end[h] = "deleted" -> Gone]
        BY <3>2 DEF Teardown
      <4>2. CASE g \notin Own(s, n) \/ desired[g] = Gone
        BY <4>1, <4>2
      <4>3. CASE g \in Own(s, n) /\ desired[g] # Gone
        <5>1. end[g] \in {"kept", "emptied", "deleted"}
          BY <4>3
        <5> QED
          BY <4>1, <4>3, <5>1
      <4> QED
        BY <4>2, <4>3
    <3> QED
      BY <3>1, <3>2
  <2> QED
    BY <2>1, ScalingAssumption DEF BudgetInv, Sized, Size, Jitters, Anomaly, Low, High
<1>3. \A g \in Groups : Marked(g)'
  BY <1>1 DEF BudgetInv, Marked, Jitters, Anomaly
<1>4. run' = NoRun /\ groups' \subseteq TrafficGroups /\ EnoughInstances'
  BY <1>1 DEF EnoughInstances, NoRun, BudgetInv
<1> QED
  BY <1>2, <1>3, <1>4 DEF BudgetInv

LEMMA PeakStays ==
  ASSUME NEW n, UNCHANGED groups, \A h \in Groups : ~Jitters(h) => desired'[h] = desired[h]
  PROVE  Peak("jitter", n)' = Peak("jitter", n)
<1> DEFINE R == {g \in Groups : ~Jitters(g)}
<1>1. R' = R
  BY DEF Jitters
<1>2. Pairs(R)' = Pairs(R)
  BY <1>1 DEF Pairs, Size, Jitters
<1>3. Peak("jitter", n) = Cardinality(groups) + Cardinality(Pairs(R))
                                + n["normal"] * High + n["anomaly"] * AnomalyCapacity
  BY DEF Peak, Instances, Pairs
<1>4. Peak("jitter", n)' = Cardinality(groups') + Cardinality(Pairs(R)')
                                + n["normal"] * High + n["anomaly"] * AnomalyCapacity
  BY DEF Peak, Instances, Pairs, Size, Jitters, High
<1> HIDE DEF R
<1> QED
  BY <1>2, <1>3, <1>4

\* The check of --run counts what is there when it begins.
LEMMA RunIsChecked ==
  ASSUME BudgetInv, NEW s \in Scripts, NEW n \in CapacitySizes[s], Run(s, n)
  PROVE  BudgetInv'
<1>1. /\ UNCHANGED <<groups, setup, traffic, desired>> /\ TrafficIdle
      /\ run' = [members |-> Own(s, n), checked |-> Peak(s, n) <= Quota]
  BY DEF Run, Idle, trafficVars
<1>2. ASSUME NEW g \in Groups
      PROVE  /\ trial'[g].result = "none" /\ trial'[g].at # "join"
             /\ g \notin Own(s, n) => trial'[g].at = "none" /\ jitter'[g].at = "off"
  BY DEF Run, NoTrial, NoThread
<1>3. \A g \in Groups : Sized(g)'
  BY <1>1 DEF BudgetInv, Sized, Size, Jitters, Anomaly
<1>4. Checked'
  <2>1. TrafficIdle' /\ run'.members = Own(s, n) /\ (run'.checked <=> Peak(s, n) <= Quota)
    BY <1>1 DEF TrafficIdle, Quiet
  <2>2. run'.checked /\ s = "jitter" => (Peak(s, n) <= Quota)'
    BY <1>1, <2>1, PeakStays
  <2> QED
    BY <1>2, <2>1, <2>2 DEF Checked
<1>5. EnoughInstances'
  <2>1. run'.members \subseteq Groups
    BY <1>1 DEF Groups
  <2> QED
    BY <1>2, <2>1 DEF EnoughInstances
<1> QED
  BY <1>1, <1>2, <1>3, <1>4, <1>5 DEF BudgetInv, Marked

LEMMA ExitForgets ==
  ASSUME BudgetInv, Exit
  PROVE  BudgetInv'
<1>1. run' = NoRun /\ UNCHANGED <<groups, desired>> /\ \A g \in Groups : trial'[g] = NoTrial
  BY DEF Exit, NoTrial, trafficVars
<1>2. \A g \in Groups : Sized(g)'
  BY <1>1 DEF BudgetInv, Sized, Size, Jitters, Anomaly
<1>3. EnoughInstances'
  BY <1>1 DEF EnoughInstances, NoRun
<1> QED
  BY <1>1, <1>2, <1>3 DEF BudgetInv, Marked, NoTrial

\* A step of a group of the run moves that group only.
LEMMA StepMovesOne ==
  ASSUME JitterInv, BudgetInv, NEW g \in Groups, Steps(g)
  PROVE  /\ UNCHANGED <<groups, setup, traffic, run, slow>>
         /\ DOMAIN desired' = Groups
         /\ \A h \in Groups \ {g} : /\ desired'[h] = desired[h] /\ trial'[h] = trial[h]
                                    /\ jitter'[h] = jitter[h]
         /\ run # NoRun => g \in run.members
         /\ \/ desired'[g] \in {desired[g], Low, High}
            \/ desired'[g] = Spike(g) /\ trial[g].at = "join"
<1>1. JitterInv'
  BY ThreadKeeps, TrialKeeps DEF Steps
<1>2. UNCHANGED <<groups, setup, traffic, run, slow>>
  BY DEF Steps, Toggle, ToggleEnds, ThreadEnds, StopJitter, JoinSpike, Sustain, Measure,
         Raise, Finally, Restore, trafficVars
<1>3. /\ \A h \in Groups \ {g} : desired'[h] = desired[h]
      /\ \/ desired'[g] \in {desired[g], Low, High}
         \/ desired'[g] = Spike(g) /\ trial[g].at = "join"
  <2>1. jitter[g].level \in {Low, High} /\ DOMAIN desired = Groups
    BY DEF JitterInv, TrialTypes, JitterThreads
  <2> QED
    BY <2>1 DEF Steps, Toggle, ToggleEnds, ThreadEnds, StopJitter, JoinSpike, Sustain, Measure,
                Raise, Finally, Restore
<1>4. \A h \in Groups \ {g} : trial'[h] = trial[h]
  BY DEF Steps, Toggle, ToggleEnds, ThreadEnds, StopJitter, JoinSpike, Sustain, Measure,
         Raise, Finally, Restore, Goes, JitterInv, TrialTypes
<1>5. \A h \in Groups \ {g} : jitter'[h] = jitter[h]
  BY DEF Steps, Toggle, ToggleEnds, ThreadEnds, StopJitter, JoinSpike, Sustain, Measure,
         Raise, Finally, Restore, JitterInv, TrialTypes
<1>6. run # NoRun => g \in run.members
  <2>1. trial[g].at # "none" \/ jitter[g].at # "off"
    BY DEF Steps, Toggle, ToggleEnds, ThreadEnds, StopJitter, JoinSpike, Sustain, Measure,
           Raise, Finally, Restore
  <2> QED
    BY <2>1 DEF BudgetInv, Checked
<1> QED
  BY <1>1, <1>2, <1>3, <1>4, <1>5, <1>6 DEF JitterInv, TrialTypes

\* Only Sustain finds instances missing, and only an anomaly waits for its jitter to end.
LEMMA TrialGoesOn ==
  ASSUME JitterInv, NEW g \in Groups, Steps(g)
  PROVE  /\ trial'[g].result = "short" =>
              \/ trial[g].result = "short"
              \/ Jitters(g) /\ trial[g].at = "sustain" /\ \E n \in InService(g) : n < Spike(g)
         /\ trial'[g].at = "join" => trial[g].at = "join" \/ Anomaly(g)
<1> USE DEF JitterInv, TrialTypes
<1>1. CASE Sustain(g)
  <2>1. PICK n \in InService(g) :
          trial' = [trial EXCEPT ![g].at = "after",
                                 ![g].result = IF Jitters(g) /\ n < Spike(g) THEN "short" ELSE @]
    BY <1>1 DEF Sustain
  <2>2. trial'[g].result = IF Jitters(g) /\ n < Spike(g) THEN "short" ELSE trial[g].result
    BY <2>1
  <2>3. trial'[g].at = "after"
    BY <2>1
  <2> QED
    BY <1>1, <2>2, <2>3 DEF Sustain
<1>2. CASE StopJitter(g)
  BY <1>2 DEF StopJitter, Goes
<1>3. CASE JoinSpike(g)
  BY <1>3 DEF JoinSpike
<1>4. CASE Measure(g) \/ Raise(g)
  <2>1. PICK result \in {trial[g].result, "measured", "error"} :
          trial' = [trial EXCEPT ![g].at = "finally", ![g].result = result]
    BY <1>4 DEF Measure, Raise
  <2>2. trial'[g].at = "finally" /\ trial'[g].result = result
    BY <2>1
  <2> QED
    BY <2>2
<1>5. CASE Finally(g)
  BY <1>5 DEF Finally, Goes
<1>6. CASE Restore(g)
  BY <1>6 DEF Restore, Goes
<1>7. CASE UNCHANGED trial
  BY <1>7
<1> QED
  BY <1>1, <1>2, <1>3, <1>4, <1>5, <1>6, <1>7 DEF Steps, Toggle, ToggleEnds, ThreadEnds

LEMMA StepSpends ==
  ASSUME JitterInv, BudgetInv, High <= AnomalyCapacity, NEW g \in Groups, Steps(g)
  PROVE  BudgetInv'
<1>1. /\ UNCHANGED <<groups, setup, traffic, run, slow>>
      /\ \A h \in Groups \ {g} : /\ desired'[h] = desired[h] /\ trial'[h] = trial[h]
                                 /\ jitter'[h] = jitter[h]
      /\ run # NoRun => g \in run.members
  BY StepMovesOne
<1>2. Sized(g)'
  <2>1. Sized(g) /\ (trial[g].at = "join" => Anomaly(g))
    BY DEF BudgetInv, Marked
  <2>2. Spike(g) \in Nat /\ (Jitters(g) => Spike(g) = AnomalyCapacity)
    <3>1. CASE Jitters(g)
      BY <3>1, ScalingAssumption DEF Spike
    <3>2. CASE ~Jitters(g)
      <4>1. g[3] \in Nat /\ Len(SpikeCapacities) \in Nat \ {0}
        BY ScalingAssumption DEF Groups, Own
      <4>2. (g[3] % Len(SpikeCapacities)) + 1 \in 1 .. Len(SpikeCapacities)
        BY <4>1
      <4> QED
        BY <3>2, <4>2, ScalingAssumption DEF Spike
    <3> QED
      BY <3>1, <3>2
  <2>3. \/ desired'[g] \in {desired[g], Low, High}
        \/ desired'[g] = Spike(g) /\ trial[g].at = "join"
    BY StepMovesOne
  <2> QED
    BY <2>1, <2>2, <2>3, ScalingAssumption DEF Sized, Size, Jitters, Anomaly, Low, High
<1>3. \A h \in Groups : Sized(h)'
  BY <1>1, <1>2 DEF BudgetInv, Sized, Size, Jitters, Anomaly
<1>4. \A h \in Groups : Marked(h)'
  BY <1>1, TrialGoesOn DEF BudgetInv, Marked, Jitters, Anomaly
<1>5. ASSUME run # NoRun PROVE Checked'
  <2>1. Checked
    BY <1>5 DEF BudgetInv
  <2>0. PICK s \in Scripts : \E n \in CapacitySizes[s] :
          run.members = Own(s, n) /\ (run.checked /\ s = "jitter" => Peak(s, n) <= Quota)
    BY <2>1 DEF Checked
  <2>2. PICK n \in CapacitySizes[s] :
          run.members = Own(s, n) /\ (run.checked /\ s = "jitter" => Peak(s, n) <= Quota)
    BY <2>0
  <2>3. s = "jitter" => Peak(s, n)' = Peak(s, n)
    <3> SUFFICES ASSUME s = "jitter" PROVE Peak("jitter", n)' = Peak("jitter", n)
      OBVIOUS
    <3>1. Jitters(g)
      BY <1>1, <1>5, <2>2 DEF Own, Jitters
    <3> QED
      BY <1>1, <3>1, PeakStays
  <2>4. TrafficIdle'
    BY <1>1, <2>1 DEF Checked, TrafficIdle, Quiet
  <2>5. \A h \in Groups \ run'.members : jitter'[h].at = "off" /\ trial'[h].at = "none"
    BY <1>1, <1>5, <2>1 DEF Checked
  <2>6. run' = run
    BY <1>1
  <2>7. run'.members = Own(s, n) /\ (run'.checked /\ s = "jitter" => Peak(s, n)' <= Quota)
    BY <2>2, <2>3, <2>6
  <2> QED
    BY <2>4, <2>5, <2>7 DEF Checked
<1>6. EnoughInstances'
  <2> SUFFICES ASSUME run.checked, ~slow, NEW h \in run.members, trial'[h].result = "short"
               PROVE  \E k \in Groups \ run.members : Jitters(k)' /\ Size(k)' > 0
    BY <1>1 DEF EnoughInstances
  <2>0. PICK s \in Scripts : \E n \in CapacitySizes[s] :
          run.members = Own(s, n) /\ (run.checked /\ s = "jitter" => Peak(s, n) <= Quota)
    BY DEF BudgetInv, Checked, NoRun
  <2>1. PICK n \in CapacitySizes[s] :
          run.members = Own(s, n) /\ (run.checked /\ s = "jitter" => Peak(s, n) <= Quota)
    BY <2>0
  <2>2. h \in Groups
    BY <2>1 DEF Groups
  <2>3. \E k \in Groups \ run.members : Jitters(k) /\ Size(k) > 0
    <3>1. CASE trial[h].result = "short"
      BY <3>1 DEF BudgetInv, EnoughInstances
    <3>2. CASE trial[h].result # "short"
      <4>1. h = g
        BY <1>1, <2>2, <3>2
      <4>2. Jitters(g) /\ trial[g].at = "sustain" /\ \E m \in InService(g) : m < Spike(g)
        BY <3>2, <4>1, TrialGoesOn
      <4>3. s = "jitter"
        BY <2>1, <4>1, <4>2 DEF Own, Jitters
      <4>4. desired[g] = Spike(g) /\ desired[g] \in Nat
        BY <4>2, ScalingAssumption DEF JitterInv, SpikeInv, Spike
      <4>5. ~(Running <= Quota)
        BY <4>2, <4>4 DEF InService
      <4> QED
        BY <2>1, <4>3, <4>5, RunHasRoom
    <3> QED
      BY <3>1, <3>2
  <2>4. PICK k \in Groups \ run.members : Jitters(k) /\ Size(k) > 0
    BY <2>3
  <2>5. k # g
    BY <1>1, <2>4 DEF NoRun
  <2>6. desired'[k] = desired[k]
    BY <1>1, <2>4, <2>5
  <2>7. Jitters(k)' /\ Size(k)' > 0
    BY <2>4, <2>6 DEF Size, Jitters
  <2> QED
    BY <2>4, <2>7
<1> QED
  BY <1>1, <1>3, <1>4, <1>5, <1>6 DEF BudgetInv

LEMMA BudgetKept ==
  ASSUME High <= AnomalyCapacity
  PROVE  JitterInv /\ TrafficInv /\ BudgetInv /\ [Next]_vars => BudgetInv'
<1> SUFFICES ASSUME JitterInv, TrafficInv, BudgetInv, [Next]_vars PROVE BudgetInv'
  OBVIOUS
<1>1. CASE UNCHANGED vars
  <2>1. UNCHANGED <<groups, setup, traffic, desired, jitter, trial, run, slow>>
    BY <1>1 DEF vars, trafficVars, scalingVars
  <2>2. \A n : Peak("jitter", n)' = Peak("jitter", n)
    BY <2>1, PeakStays
  <2>3. Checked => Checked'
    BY <2>1, <2>2 DEF Checked, TrafficIdle, Quiet
  <2> QED
    BY <2>1, <2>3 DEF BudgetInv, Sized, Marked, Size, Jitters, Anomaly, EnoughInstances
<1>2. CASE ((TrafficStarts /\ Idle) \/ TrafficSteps) /\ UNCHANGED scalingVars
  BY <1>2, TrafficWaits
<1>3. CASE Starts
  BY <1>3, SetupSizes, RunIsChecked DEF Starts
<1>4. CASE Exit
  BY <1>4, ExitForgets
<1>5. CASE \E g \in Groups : Steps(g)
  BY <1>5, StepSpends
<1> QED
  BY <1>1, <1>2, <1>3, <1>4, <1>5 DEF Next

\* For any quota, any sizes and whatever else is in the account: a run that its check let
\* pass has the instances its spikes ask for, unless a larger setup left tagged groups
\* behind.  The check counts an anomaly group by its spike: that must not be less than
\* what its jitter may give it.
THEOREM CheckedRunsHaveInstances ==
  High <= AnomalyCapacity => (Spec => []EnoughInstances)
<1> SUFFICES ASSUME High <= AnomalyCapacity PROVE Spec => []EnoughInstances
  OBVIOUS
<1> DEFINE Both == JitterInv /\ TrafficInv /\ BudgetInv
<1>1. Init => Both
  <2> SUFFICES ASSUME Init PROVE BudgetInv
    BY InitJitter, InitTraffic DEF Init
  <2>1. \A g \in Groups : desired[g] = Gone /\ trial[g] = NoTrial
    BY DEF Init
  <2>2. \A g \in Groups : Sized(g) /\ Marked(g)
    BY <2>1, ScalingAssumption DEF Sized, Marked, Size, NoTrial, High
  <2> QED
    BY <2>2 DEF Init, TrafficInit, BudgetInv, EnoughInstances, NoRun
<1>2. Both /\ [Next]_vars => Both'
  BY JitterKept, TrafficKept, BudgetKept
<1>3. Both => EnoughInstances
  BY DEF BudgetInv
<1> QED
  BY <1>1, <1>2, <1>3, PTL DEF Spec

=============================================================================
