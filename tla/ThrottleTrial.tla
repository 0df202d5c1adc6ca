--------------------------- MODULE ThrottleTrial ---------------------------
(***************************************************************************)
(* The throttle trials (playground/lambda_throttle_*_trial.py and          *)
(* lambda_throttle_clean_verification.py): a script limits the reserved    *)
(* concurrency of Lambda functions, fires bursts at them, has the whole    *)
(* pipeline look, and act, and puts back what it found. What it found is   *)
(* written to a file first, because the pipeline changes the setting too.  *)
(*                                                                         *)
(* Every function is treated in a thread of its own; the five scripts      *)
(* share functions and differ in which they limit, in what their finally   *)
(* puts back and in whether there is a --restore. The event-invoke config, *)
(* which is put and deleted beside the concurrency, is left out.           *)
(***************************************************************************)
EXTENDS Naturals, FiniteSets, TLC

CONSTANTS Scripts,        \* the scripts somebody runs
          None,           \* no reserved concurrency
          Throttled,      \* what a Throttle of the pipeline may set
          FalsePositive,  \* the pipeline may act on a function nobody limited
          DeleteRefused,  \* AWS may refuse to delete a concurrency that is set
          Careless        \* a script is started over the leftovers of another run

----------------------------------------------------------------------------
(* The scripts, each with three of its functions for all of its targets.   *)

Retry == [levels |-> "storm" :> 1, restorable |-> TRUE, always |-> TRUE]

Repeated == [levels |-> "storm" :> 1 @@ "a2" :> 1 @@ "n1" :> None,
             restorable |-> TRUE, always |-> FALSE]

Diverse == [levels |-> "storm" :> 3 @@ "a2" :> 1 @@ "n1" :> None,
            restorable |-> TRUE, always |-> FALSE]

Boundary == [levels |-> "storm" :> None @@ "a2" :> 1 @@ "n1" :> 2,
             restorable |-> TRUE, always |-> FALSE]

Clean == [levels |-> "storm-clean" :> 3 @@ "a2-clean" :> 1 @@ "n1-clean" :> None,
          restorable |-> FALSE, always |-> FALSE]

Script == [s \in Scripts |->
             CASE s = "retry" -> Retry [] s = "repeated" -> Repeated
               [] s = "diverse" -> Diverse [] s = "boundary" -> Boundary
               [] s = "clean" -> Clean]

Targets(s) == DOMAIN Script[s].levels
Level(s, f) == Script[s].levels[f]
Limited(s) == {f \in Targets(s) : Level(s, f) # None}
Fns == UNION {Targets(s) : s \in Scripts}

VARIABLES
    concurrency,  \* the reserved concurrency of the functions
    file,         \* file[s][f]: the snapshot of script s, NoFile or Torn
    main,         \* main[s]: where the script is
    todo,         \* todo[s]: functions its finally or --restore has yet to look at
    trial         \* trial[s][f]: where the thread of f is and the snapshot it holds

vars == <<concurrency, file, main, todo, trial>>

NoFile == "no file"
Torn == "torn"

ASSUME ThrottleAssumption ==
    /\ Scripts \subseteq {"retry", "repeated", "diverse", "boundary", "clean"}
    /\ None \notin {NoFile, Torn}
    /\ {FalsePositive, DeleteRefused, Careless} \subseteq BOOLEAN

At(where, snap) == [at |-> where, snap |-> snap]
Idle == At("none", None)

\* No function has a reserved concurrency of its own: create_functions makes them so.
Init ==
    /\ concurrency = [f \in Fns |-> None]
    /\ file = [s \in Scripts |-> [f \in Fns |-> NoFile]]
    /\ main = [s \in Scripts |-> "idle"]
    /\ todo = [s \in Scripts |-> {}]
    /\ trial = [s \in Scripts |-> [f \in Fns |-> Idle]]

Active == {s \in Scripts : main[s] \in {"running", "finally", "restoring"}}

----------------------------------------------------------------------------
(* A script starts, and its threads take their steps.                      *)

Launch(s) ==
    /\ Active = {}
    /\ Careless \/ \A t \in Scripts : \A f \in Targets(s) : file[t][f] = NoFile
    /\ main' = [main EXCEPT ![s] = "running"]
    /\ trial' = [trial EXCEPT ![s] =
                   [f \in Fns |-> IF f \in Limited(s) THEN At("look", None)
                                  ELSE IF f \in Targets(s) THEN At("measure", None)
                                  ELSE Idle]]
    /\ UNCHANGED <<concurrency, file, todo>>

Thread(s, f, where) == main[s] \in {"running", "finally", "restoring"} /\ trial[s][f].at = where

Goes(s, f, where, snap) == trial' = [trial EXCEPT ![s][f] = At(where, snap)]

\* A concurrency that cannot be read is taken for none; the second read may raise.
Look(s, f) ==
    /\ Thread(s, f, "look")
    /\ \/ \E seen \in {concurrency[f], None} : Goes(s, f, "save", seen)
       \/ Goes(s, f, "raised", None)
    /\ UNCHANGED <<concurrency, file, main, todo>>

\* open(path, "w") empties the file before json.dump fills it.
SaveSnapshot(s, f) ==
    /\ \/ /\ Thread(s, f, "save")
          /\ file' = [file EXCEPT ![s][f] = Torn]
          /\ Goes(s, f, "dump", trial[s][f].snap)
       \/ /\ Thread(s, f, "dump")
          /\ file' = [file EXCEPT ![s][f] = trial[s][f].snap]
          /\ Goes(s, f, "limit", None)
    /\ UNCHANGED <<concurrency, main, todo>>

\* Either of the two puts may raise; only the second changes the concurrency.
Limit(s, f) ==
    /\ Thread(s, f, "limit")
    /\ \/ /\ concurrency' = [concurrency EXCEPT ![f] = Level(s, f)]
          /\ Goes(s, f, "measure", None)
       \/ Goes(s, f, "raised", None) /\ UNCHANGED concurrency
    /\ UNCHANGED <<file, main, todo>>

\* measure() runs the pipeline with the approval bypassed: it may throttle the
\* function. It may also raise, which all scripts but one turn into a result. In
\* that one main has no thread of its own: its finally puts the function back.
Measure(s, f) ==
    /\ Thread(s, f, "measure")
    /\ \E set \in {concurrency[f]}
                  \cup (IF f \in Limited(s) \/ FalsePositive THEN Throttled ELSE {}) :
         concurrency' = [concurrency EXCEPT ![f] = set]
    /\ IF Script[s].always
         THEN \E end \in {"done", "raised"} : Goes(s, f, end, None)
         ELSE Goes(s, f, IF f \in Limited(s) THEN "load" ELSE "done", None)
    /\ UNCHANGED <<file, main, todo>>

----------------------------------------------------------------------------
(* restore(function_name): by the thread, by main's finally, by --restore. *)

\* Mutant: what is there now is taken for what was there.
RecordedNow(s, f) == concurrency[f]

\* Without a file the original is not known: "none" is taken for safe.
Recorded(s, f) == IF file[s][f] = NoFile THEN None ELSE file[s][f]

Load(s, f) ==
    /\ Thread(s, f, "load")
    /\ IF file[s][f] = Torn THEN Goes(s, f, "raised", None)
                            ELSE Goes(s, f, "put back", Recorded(s, f))
    /\ UNCHANGED <<concurrency, file, main, todo>>

\* A delete that fails is taken for one that has nothing to delete, a put raises.
PutBack(s, f) ==
    /\ Thread(s, f, "put back")
    /\ LET snap == trial[s][f].snap IN
       \/ /\ concurrency' = [concurrency EXCEPT ![f] = snap]
          /\ Goes(s, f, "unlink", None)
       \/ /\ snap = None => DeleteRefused
          /\ Goes(s, f, IF snap = None THEN "unlink" ELSE "raised", None)
          /\ UNCHANGED concurrency
    /\ UNCHANGED <<file, main, todo>>

Unlink(s, f) ==
    /\ Thread(s, f, "unlink")
    /\ file' = [file EXCEPT ![s][f] = NoFile]
    /\ Goes(s, f, "done", None)
    /\ UNCHANGED <<concurrency, main, todo>>

----------------------------------------------------------------------------
(* main                                                                    *)

AllIn(s, ends) == \A f \in Fns : trial[s][f].at \in ends

\* The pools are waited for, whatever a thread raised, before the finally runs.
Finally(s) ==
    /\ main[s] = "running" /\ AllIn(s, {"none", "done", "raised"})
    /\ main' = [main EXCEPT ![s] = "finally"]
    /\ todo' = [todo EXCEPT ![s] = Limited(s)]
    /\ trial' = [trial EXCEPT ![s] = [f \in Fns |-> Idle]]
    /\ UNCHANGED <<concurrency, file>>

\* --restore puts all functions of the script back; the clean trial has none.
RestoreOption(s) ==
    /\ Active = {} /\ Script[s].restorable
    /\ main' = [main EXCEPT ![s] = "restoring"]
    /\ todo' = [todo EXCEPT ![s] = Limited(s)]
    /\ UNCHANGED <<concurrency, file, trial>>

\* Mutant: main trusts the threads to have put everything back.
NobodyNeeds(s, f) == main[s] = "restoring" \/ Script[s].always

\* The finally puts back what still has a snapshot, or in one script always.
Needs(s, f) == main[s] = "restoring" \/ Script[s].always \/ file[s][f] # NoFile

\* One function after the other: an exception leaves the rest of them alone.
NextTarget(s) ==
    /\ main[s] \in {"finally", "restoring"} /\ AllIn(s, {"none", "done"})
    /\ \E f \in todo[s] :
         /\ todo' = [todo EXCEPT ![s] = @ \ {f}]
         /\ Goes(s, f, IF Needs(s, f) THEN "load" ELSE "done", None)
    /\ UNCHANGED <<concurrency, file, main>>

Leaves(s, where) ==
    /\ main' = [main EXCEPT ![s] = where]
    /\ todo' = [todo EXCEPT ![s] = {}]
    /\ trial' = [trial EXCEPT ![s] = [f \in Fns |-> Idle]]
    /\ UNCHANGED <<concurrency, file>>

End(s) ==
    /\ main[s] \in {"finally", "restoring"} /\ todo[s] = {} /\ AllIn(s, {"none", "done"})
    /\ Leaves(s, "ended")

Fail(s) ==
    /\ main[s] \in {"finally", "restoring"}
    /\ \E f \in Fns : trial[s][f].at = "raised"
    /\ Leaves(s, "failed")

Kill(s) == s \in Active /\ Leaves(s, "killed")

Trial(s, f) == Look(s, f) \/ SaveSnapshot(s, f) \/ Limit(s, f) \/ Measure(s, f)
Restore(s, f) == Load(s, f) \/ PutBack(s, f) \/ Unlink(s, f)
Main(s) == Launch(s) \/ Finally(s) \/ RestoreOption(s) \/ NextTarget(s)
           \/ End(s) \/ Fail(s) \/ Kill(s)

Next == \E s \in Scripts : Main(s) \/ \E f \in Fns : Trial(s, f) \/ Restore(s, f)

Spec == Init /\ [][Next]_vars

----------------------------------------------------------------------------
\* While a function is not as it was found, a snapshot that says how it was found
\* is on the disk: no crash and no failing call loses it.
LimitIsOnRecord ==
    \A f \in Fns : concurrency[f] # None =>
        \E s \in Scripts : f \in Limited(s) /\ file[s][f] = None

\* A script that comes to its end, by itself or as --restore, has put back every
\* function it limits and left no snapshot behind.
EndPutsBack ==
    [][\A s \in Scripts : main[s] # "ended" /\ main'[s] = "ended" =>
         \A f \in Limited(s) : concurrency[f] = None /\ file[s][f] = NoFile]_vars
=============================================================================
