---------------------------- MODULE TrafficTrial ----------------------------
(***************************************************************************)
(* The traffic trial (playground/autoscaling_edos_traffic_trial.py): every *)
(* Auto Scaling group gets a target group and a listener of its own at one *)
(* shared load balancer. --setup lays the listeners out from port 8001 on, *)
(* the anomaly groups first, then the edge and the normal ones, and writes *)
(* the ports to a manifest that --run reads. A trial sends its requests to *)
(* its port and reads what the load balancer counted for its target group. *)
(*                                                                         *)
(* A group is <<label, index>>, and so are its target group and what a     *)
(* listener forwards to. Security groups, launch template and which        *)
(* instances a target group holds are left out.                            *)
(***************************************************************************)
EXTENDS Naturals, FiniteSets, Functions, TLC

CONSTANTS Sizes,    \* the sizes [anomaly, edge, normal] the scripts are run with
          NoGroup,  \* no listener at a port
          Careful,  \* --setup with another size, and --run, wait for what was before
          Bypass    \* --run is given --bypass-approval

Labels == {"anomaly", "edge", "normal"}

Members(n) == {g \in Labels \X (0 .. 9) : g[2] < n[g[1]]}
TrafficGroups == UNION {Members(n) : n \in Sizes}

ASSUME TrafficAssumption ==
    /\ Sizes \subseteq [Labels -> Nat]
    /\ NoGroup \notin TrafficGroups
    /\ {Careful, Bypass} \subseteq BOOLEAN

\* Mutant: the edge listeners are laid out over the anomaly ones.
PortFromBase(n, g) == CASE g[1] = "anomaly" -> g[2]
                        [] g[1] = "edge" -> g[2]
                        [] g[1] = "normal" -> n["anomaly"] + n["edge"] + g[2]

\* The port of a group, counted from LISTENER_PORT_BASE.
Port(n, g) == CASE g[1] = "anomaly" -> g[2]
                [] g[1] = "edge" -> n["anomaly"] + g[2]
                [] g[1] = "normal" -> n["anomaly"] + n["edge"] + g[2]

Ports == {Port(n, g) : n \in Sizes, g \in TrafficGroups}

VARIABLES
    alb,       \* [exists, limited]: the load balancer, and a WAF limit on it
    groups,    \* the Auto Scaling groups there are, one instance each
    targets,   \* the target groups there are
    listener,  \* listener[p]: whose target group the port forwards to, or NoGroup
    manifest,  \* the manifest: a function from groups to ports
    setup,     \* [size, todo]: the last --setup and the groups it has yet to make
    traffic    \* traffic[g]: where the trial of g is

trafficVars == <<alb, groups, targets, listener, manifest, setup, traffic>>

NoSetup == [size |-> [l \in Labels |-> 0], todo |-> {}, done |-> FALSE]
Quiet == [g \in TrafficGroups |-> "none"]

TrafficInit ==
    /\ alb = [exists |-> FALSE, limited |-> FALSE]
    /\ groups = {} /\ targets = {}
    /\ listener = [p \in Ports |-> NoGroup]
    /\ manifest = <<>>
    /\ setup = NoSetup
    /\ traffic = Quiet

TrafficIdle == setup.todo = {} /\ traffic = Quiet

----------------------------------------------------------------------------
(* --setup and --teardown                                                  *)

\* One load balancer for all the groups, made once.
EnsureAlb == alb' = [alb EXCEPT !.exists = TRUE]

TrafficSetup(n) ==
    /\ TrafficIdle
    /\ Careful => n = setup.size \/ \A p \in Ports : listener[p] = NoGroup
    /\ EnsureAlb
    /\ setup' = [size |-> n, todo |-> Members(n), done |-> FALSE]
    /\ UNCHANGED <<groups, targets, listener, manifest, traffic>>

\* What is there already is left as it is, a listener at the port included.
EnsureGroup(g) ==
    /\ g \in setup.todo
    /\ targets' = targets \cup {g}
    /\ listener' = [listener EXCEPT ![Port(setup.size, g)] = IF @ = NoGroup THEN g ELSE @]
    /\ groups' = groups \cup {g}
    /\ setup' = IF setup.todo # {g} THEN [setup EXCEPT !.todo = @ \ {g}]
                ELSE [setup EXCEPT !.todo = {}, !.done = TRUE]
    /\ manifest' = IF setup.todo # {g} THEN manifest
                   ELSE [h \in Members(setup.size) |-> Port(setup.size, h)]
    /\ UNCHANGED <<alb, traffic>>

\* An exception or a kill leaves the groups made so far, and the old manifest.
SetupStops ==
    /\ setup.todo # {}
    /\ setup' = [setup EXCEPT !.todo = {}]
    /\ UNCHANGED <<alb, groups, targets, listener, manifest, traffic>>

\* The load balancer goes with all its listeners, or an exception leaves some; groups
\* and target groups of the size given go one by one. A target group that a listener
\* forwards to cannot be deleted; of the others too a call may fail.
TrafficTeardown(n) ==
    /\ TrafficIdle
    /\ \E kept \in SUBSET {p \in Ports : listener[p] # NoGroup} :
       \E gone \in SUBSET (Members(n) \cap groups), dropped \in SUBSET (Members(n) \cap targets) :
         /\ listener' = [p \in Ports |-> IF p \in kept THEN listener[p] ELSE NoGroup]
         /\ alb' = IF kept = {} THEN [exists |-> FALSE, limited |-> FALSE] ELSE alb
         /\ dropped \cap Range(listener') = {}
         /\ groups' = groups \ gone
         /\ targets' = targets \ dropped
    /\ setup' = [setup EXCEPT !.done = FALSE]
    /\ UNCHANGED <<manifest, traffic>>

----------------------------------------------------------------------------
(* --run                                                                   *)

\* The trials are submitted in the order of their ports, up to the first group that has
\* no port in the manifest or no target group: there main raises, and waits for them.
Started(n) ==
    {g \in Members(n) : \A h \in Members(n) :
        Port(n, h) <= Port(n, g) => h \in DOMAIN manifest /\ h \in targets}

TrafficRun(n) ==
    /\ TrafficIdle /\ alb.exists
    /\ Careful => setup.done
    /\ traffic' = [g \in TrafficGroups |-> IF g \in Started(n) THEN "baseline" ELSE "none"]
    /\ UNCHANGED <<alb, groups, targets, listener, manifest, setup>>

Surge(g) ==
    /\ traffic[g] = "baseline" /\ g[1] # "normal"
    /\ traffic' = [traffic EXCEPT ![g] = "surge"]
    /\ UNCHANGED <<alb, groups, targets, listener, manifest, setup>>

\* Whose surge the load balancer counts for the target group of g.
Counted(g) ==
    {h \in TrafficGroups : traffic[h] = "surge" /\ ~alb.limited /\ listener[manifest[h]] = g}

\* What is detected goes through the pipeline: with the approval bypassed, a surge
\* ends in a rate limit at the load balancer, which all the groups share.
After(g) ==
    /\ traffic[g] = IF g[1] = "normal" THEN "baseline" ELSE "surge"
    /\ \/ UNCHANGED alb
       \/ Bypass /\ Counted(g) # {} /\ alb' = [alb EXCEPT !.limited = TRUE]
    /\ traffic' = [traffic EXCEPT ![g] = "done"]
    /\ UNCHANGED <<groups, targets, listener, manifest, setup>>

TrialRaises(g) ==
    /\ traffic[g] \in {"baseline", "surge"}
    /\ traffic' = [traffic EXCEPT ![g] = "done"]
    /\ UNCHANGED <<alb, groups, targets, listener, manifest, setup>>

\* The pool ends when all its trials have, or the process is killed before.
TrafficEnds(ends) ==
    /\ traffic # Quiet
    /\ \A g \in TrafficGroups : traffic[g] \in ends
    /\ traffic' = Quiet
    /\ UNCHANGED <<alb, groups, targets, listener, manifest, setup>>

TrafficStarts == \E n \in Sizes : TrafficSetup(n) \/ TrafficTeardown(n) \/ TrafficRun(n)

TrafficSteps ==
    \/ SetupStops
    \/ TrafficEnds({"none", "done"})
    \/ TrafficEnds({"none", "baseline", "surge", "done"})
    \/ \E g \in TrafficGroups : EnsureGroup(g) \/ Surge(g) \/ After(g) \/ TrialRaises(g)

----------------------------------------------------------------------------
\* While no limit is on the load balancer, a surge is counted for the group of its own
\* trial and for no other: the trial sees what it sent, and a normal one only its calm.
SurgeCountedAtHome ==
    \A h \in TrafficGroups : traffic[h] = "surge" /\ ~alb.limited =>
        {g \in TrafficGroups : h \in Counted(g)} = {h}
=============================================================================
